------------------------------ MODULE MCSession ------------------------------
(***************************************************************************)
(* Keys of two bits; three names in the tree, of which an older tree has   *)
(* two, and one in neither. A peer's proofs are those, built from the      *)
(* hashes of the trees, that verify for some root and name, and one that   *)
(* does not: the others end a call as that one does.                       *)
(***************************************************************************)
EXTENDS SyncSession

MCNameHash == [alpha |-> <<0, 1>>, beta |-> <<0, 0>>, gamma |-> <<1, 1>>, delta |-> <<1, 0>>]

State(name, data) == [name |-> name, data |-> data]
Tree == <<0, 1>> :> State("alpha", "records") @@ <<0, 0>> :> State("beta", "nothing")
        @@ <<1, 1>> :> State("gamma", "records")
OldTree == <<0, 1>> :> State("alpha", "older") @@ <<0, 0>> :> State("beta", "nothing")
MCCommitted == RootOf(Tree) :> Tree @@ RootOf(OldTree) :> OldTree

MCJobs == {[kind |-> k, name |-> "alpha", root |-> RootOf(Tree)] : k \in {"sync", "race", "probe"}}
          \cup [kind : {"proof"}, name : {"alpha", "delta"}, root : DOMAIN MCCommitted]

Known == {HashLeaf(k, Tree[k]) : k \in DOMAIN Tree} \cup {HashLeaf(k, OldTree[k]) : k \in DOMAIN OldTree}
         \cup {HashInternal(<< >>, HashLeaf(<<0, 0>>, Tree[<<0, 0>>]), HashLeaf(<<0, 1>>, Tree[<<0, 1>>]))}
Values == {Tree[k] : k \in DOMAIN Tree} \cup {OldTree[k] : k \in DOMAIN OldTree}
NodePrefixes == {<< >>, <<0>>, <<1>>}
Nodes == SeqOf([prefix : NodePrefixes, hash : Known], 2)
Bodies ==
  {<<"deadend", [none |-> 0]>>}
  \cup {<<"short", b>> : b \in [prefix : {<<0>>, <<1>>, <<0, 1>>}, left : Known, right : Known]}
  \cup {<<"collision", b>> : b \in [key : Range(MCNameHash), value : Values]}
  \cup {<<"exists", b>> : b \in [value : Values]}
ProofOf(body, depth, nodes) ==
  [size |-> 1, rest |-> 0, kind |-> body[1], body |-> body[2], depth |-> depth, nodes |-> nodes]

Packet(type) == [type |-> type]
ProofPacket(root, key, proof) == [type |-> "proof", root |-> root, key |-> key, proof |-> proof]
Broken == [ProofOf(<<"deadend", [none |-> 0]>>, 0, << >>) EXCEPT !.rest = 1]
Answers(root, key, depth, nodes) ==
  {ProofPacket(root, key, ProofOf(body, depth, nodes)) :
     body \in {b \in Bodies : Verify(ProofOf(b, depth, nodes), root, key)}}
ProofPackets ==
  {ProofPacket(RootOf(Tree), MCNameHash["alpha"], Broken)}
  \cup UNION {Answers(root, key, depth, nodes) :
                root \in DOMAIN MCCommitted, key \in {MCNameHash["alpha"], MCNameHash["delta"]}, depth \in 0 .. 2, nodes \in Nodes}

Whole(packet, length) ==
  [magic |-> "ours", packet |-> packet, length |-> length,
   count |-> 0, width |-> 1, items |-> 0, rest |-> 0]
Version(serves, height) == [type |-> "version", version |-> 1, serves |-> serves, height |-> height]

Shaking ==
  {Whole(Version(TRUE, 2), 1), Whole(Version(FALSE, 2), 1),
   Whole(Packet("verack"), 0)}
Others ==
  {Whole(Packet("ping"), 0), Whole(Packet("unknown"), 2), Whole(Packet("getheaders"), 1),
   [Whole(Packet("pong"), 0) EXCEPT !.magic = "other"],
   [Whole(Packet("unknown"), 0) EXCEPT !.length = 3]}
Addr == [Whole(Packet("addr"), 1) EXCEPT !.count = 1, !.items = 1]
Headers == [Whole(Packet("headers"), 1) EXCEPT !.count = 1, !.items = 1]
Lists == {Addr, [Addr EXCEPT !.width = 3], [Addr EXCEPT !.count = 2, !.items = 2],
          Headers, [Headers EXCEPT !.items = 0]}

LowVersion(height) == Whole(Version(TRUE, height), 1)

MCFrame ==
  [sync |-> Shaking \cup Others \cup Lists \cup {LowVersion(1)},
   race |-> Shaking \cup Others \cup Lists,
   probe |-> Shaking \cup Others \cup Lists,
   proof |-> Shaking \cup Others \cup {LowVersion(0)} \cup {Whole(p, 1) : p \in ProofPackets}]
==============================================================================
