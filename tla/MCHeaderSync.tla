----------------------------- MODULE MCHeaderSync -----------------------------
(* Peer 1 is honest; peer 2 lies; peer 3, in the group of peer 2, is only   *)
(* known by gossip.  Pages hold two headers.                                *)
EXTENDS SyncStatus

MCLabel == {"a", "b", "x"}
MCHeader == { << >>, <<"a">>, <<"a", "a">>, <<"a", "b">>, <<"a", "a", "a">>, <<"x">> }
MCValidPow == MCHeader \ {<<"x">>}
MCWork == [h \in MCHeader |-> 1]

HonestPeer == {1}
OneTwo == {1, 2}
OneTwoThree == {1, 2, 3}
OnlyThree == {3}
NoPeer == {}
MCGroup == [a \in Address |-> IF a = 1 THEN "g" ELSE "h"]

(* The honest peer's block at height 2 is replaced by two others. *)
AtFork == [a \in Honest |-> <<"a", "b">>]
AtEnd == [a \in Honest |-> <<"a", "a", "a">>]
AtTwo == [a \in Honest |-> <<"a", "a">>]

(* Nothing, a bad proof of work, a header without its parent, and a fork. *)
AnyLie == { << >>, <<<<"x">>>>, <<<<"a", "a", "a">>>>, <<<<"a">>, <<"a", "b">>>> }
BadWork == {<<<<"x">>>>}
ForkOrBad == {<<<<"x">>>>, <<<<"a">>, <<"a", "b">>>>}
NoLies == {}
AnyClaim == {0, 3}
HighClaim == {3}

HonestPages == {Page(chain, Locator(tip)) : chain, tip \in Header}
MCBatches == HonestPages \cup Lies

NoFaults == {}
WriteFaults == {"crash", "storage"}
CrashOnly == {"crash"}
=============================================================================
