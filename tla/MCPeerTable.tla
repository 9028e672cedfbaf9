----------------------------- MODULE MCPeerTable -----------------------------
(* Two addresses; scores scaled down so that a few events reach the ban     *)
(* score.                                                                   *)
EXTENDS PeerTable

OneTwo == {1, 2}
MCGroup == [a \in Address |-> "g"]

Known(as) == [a \in as |-> NewPeer]
(* A permanent ban, a finished one and an empty table. *)
OldTables ==
  { NoPeers, Known(Address),
    [Known(Address) EXCEPT ![1].banned = Forever],
    [Known(Address) EXCEPT ![1].score = 3, ![1].banned = 1, ![1].successes = 1] }

NoFaults == {}
AllFaults == {"crash", "storage"}
=============================================================================
