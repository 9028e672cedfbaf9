---------------------------- MODULE MCResourceCache ----------------------------
(* A branch of one header that another, longer one replaces; <<"b">> comes  *)
(* with <<"b", "b">> and is never the tip itself.  The window is one block, *)
(* so a row anchored to <<"b", "b">> is still served at the last tip and    *)
(* one anchored to <<"a">> would be too old even if it were canonical.      *)
EXTENDS ProofDetails, TLC

MCHeader == { << >>, <<"a">>, <<"b">>, <<"b", "b">>, <<"b", "b", "b">> }
MCWork == [h \in MCHeader |-> IF h = <<"b">> THEN 0 ELSE Len(h)]
MCRoot == [h \in MCHeader |->
  CASE h = <<"a">> -> "r1"
    [] h = <<"b">> -> "r2"
    [] h = <<"b", "b">> -> "r3"
    [] h = <<"b", "b", "b">> -> "r4"
    [] OTHER -> "r0"]

MCTruth == [r \in {"r0", "r1", "r2", "r3", "r4"} |->
  [n \in Name |-> CASE r = "r1" -> "v"
                    [] r = "r3" /\ n = 1 -> "w"
                    [] r = "r4" /\ n = 2 -> "v"
                    [] OTHER -> Absent]]
MCSize == [v \in Value |-> IF v = "w" THEN 2 ELSE 1]

FirstTips == {<< >>, <<"a">>}
WriteFaults == {"crash", "storage"}
NoFaults == {}
Threads == Permutations(Thread)
================================================================================
