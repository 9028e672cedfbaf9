----------------------------- MODULE UrkelProof -----------------------------
(***************************************************************************)
(* rust/crates/hns-urkel: a proof that the name tree with a root has, or   *)
(* does not have, a value at a key.  A key is a sequence of Bits bits.     *)
(* Hashes are terms, so that two of them are equal only when what was      *)
(* hashed is; a value stands for its own hash.                             *)
(***************************************************************************)
EXTENDS Integers, Sequences

CONSTANTS Bits, MaxProofSize

ASSUME UrkelAssumption == Bits \in Nat \ {0} /\ MaxProofSize \in Nat

Key == [1 .. Bits -> {0, 1}]

ZeroHash == <<"zero">>
HashLeaf(key, value) == <<"leaf", key, value>>
HashInternal(prefix, left, right) == <<"node", prefix, left, right>>

Kinds == {"deadend", "short", "collision", "exists"}

HasBit(bits, index) == index < Len(bits) /\ bits[index + 1] = 1

\* How many bits of a prefix a key agrees with from a depth on: all of them?
HasPrefix(prefix, key, depth) ==
  prefix = << >> \/ /\ depth + Len(prefix) <= Len(key)
                    /\ SubSeq(key, depth + 1, depth + Len(prefix)) = prefix

\* The numbers that the bytes of a proof hold.
Shaped(p) ==
  /\ p.depth \in Nat /\ Len(p.nodes) \in Nat
  /\ \A i \in 1 .. Len(p.nodes) : Len(p.nodes[i].prefix) \in Nat

\* The bytes of a proof give its type, its depth, its nodes and a body; size is
\* their number and rest what they hold beyond the body.
Decodes(p) ==
  /\ p.size <= MaxProofSize /\ p.rest = 0
  /\ p.kind \in Kinds /\ p.depth <= Bits /\ Len(p.nodes) <= Bits

IsSane(p) ==
  /\ p.depth <= Bits /\ Len(p.nodes) <= Bits
  /\ \A i \in DOMAIN p.nodes : Len(p.nodes[i].prefix) <= Bits
  /\ p.kind = "short" => Len(p.body.prefix) \in 1 .. Bits

Inclusion(p) == p.kind = "exists"

RefutesOwnKey(p, key) ==
  CASE p.kind = "short" -> HasPrefix(p.body.prefix, key, p.depth)
    [] p.kind = "collision" -> p.body.key = key
    [] OTHER -> FALSE

Leaf(p, key) ==
  CASE p.kind = "deadend" -> ZeroHash
    [] p.kind = "short" -> HashInternal(p.body.prefix, p.body.left, p.body.right)
    [] p.kind = "collision" -> HashLeaf(p.body.key, p.body.value)
    [] p.kind = "exists" -> HashLeaf(key, p.body.value)

\* One node on the way from the leaf to the root; at.depth is -1 once a node
\* does not fit.
Climb(node, at, key) ==
  LET side == at.depth - 1
      above == side - Len(node.prefix)
  IN IF at.depth < Len(node.prefix) + 1 \/ ~HasPrefix(node.prefix, key, above)
     THEN [depth |-> -1, hash |-> at.hash]
     ELSE [depth |-> above,
           hash |-> IF HasBit(key, side) THEN HashInternal(node.prefix, node.hash, at.hash)
                                         ELSE HashInternal(node.prefix, at.hash, node.hash)]

\* Where the walk from the leaf is after i nodes, the last of them first.
Walk(p, key) ==
  LET n == Len(p.nodes)
      at[i \in 0 .. n] == IF i = 0 THEN [depth |-> p.depth, hash |-> Leaf(p, key)]
                                   ELSE Climb(p.nodes[n + 1 - i], at[i - 1], key)
  IN at[n]

Verify(p, root, key) ==
  IsSane(p) /\ ~RefutesOwnKey(p, key) /\ Walk(p, key) = [depth |-> 0, hash |-> root]

-----------------------------------------------------------------------------
\* The tree itself, which Handshake nodes keep: a leaf for each key of values,
\* a node for each way keys part, with the bits they share before it.  A path
\* holds the bits of the keys under it.
Shared(keys, depth) ==
  LET agree(n) == \A k, l \in keys : SubSeq(k, depth + 1, depth + n) = SubSeq(l, depth + 1, depth + n)
      most == CHOOSE n \in 0 .. Bits - depth :
                agree(n) /\ \A m \in n + 1 .. Bits - depth : ~agree(m)
  IN SubSeq(CHOOSE k \in keys : TRUE, depth + 1, depth + most)

Paths == UNION {[1 .. n -> {0, 1}] : n \in 0 .. Bits}
Under(values, path) == {k \in DOMAIN values : SubSeq(k, 1, Len(path)) = path}

NodeHash(values, node, path) ==
  LET keys == Under(values, path)
      prefix == Shared(keys, Len(path))
  IN CASE keys = {} -> ZeroHash
       [] \E k \in keys : keys = {k} -> LET k == CHOOSE k \in keys : TRUE IN HashLeaf(k, values[k])
       [] OTHER -> HashInternal(prefix, node[path \o prefix \o <<0>>], node[path \o prefix \o <<1>>])

RootOf(values) ==
  LET node[path \in Paths] == NodeHash(values, node, path) IN node[<< >>]
=============================================================================
