------------------------------ MODULE BestChain ------------------------------
(***************************************************************************)
(* What the header store of rust/crates/hns-chain promises its readers: a  *)
(* growing tree of validated headers with their chainwork, a tip that only *)
(* ever moves to a heavier known header, and a height index that is the    *)
(* path to that tip.  HeaderChain implements it when one thread writes.    *)
(***************************************************************************)
EXTENDS Naturals, Sequences

CONSTANTS
  Valid,   \* headers that pass the difficulty and proof-of-work checks
  Work,    \* chainwork of each header on its own
  NoHash   \* "no tip"

VARIABLES
  known,   \* header -> its accumulated chainwork
  index,   \* height -> the header there on the best chain
  tip      \* the best header

vars == <<known, index, tip>>

Root == << >>
Back(h) == SubSeq(h, 1, Len(h) - 1)
Path(h) == [k \in 0 .. Len(h) |-> SubSeq(h, 1, k)]

Init ==
  /\ known = [h \in {} |-> 0]
  /\ index = [k \in {} |-> Root]
  /\ tip = NoHash

(* A header may be added when it is the root, or valid on a known parent.  *)
MayBeAdded(h) ==
  IF h = Root
  THEN known'[h] = Work[h]
  ELSE /\ h \in Valid
       /\ Back(h) \in DOMAIN known'
       /\ known'[h] = known'[Back(h)] + Work[h]

Learn ==
  /\ DOMAIN known \subseteq DOMAIN known'
  /\ \A h \in DOMAIN known : known'[h] = known[h]
  /\ \A h \in DOMAIN known' \ DOMAIN known : MayBeAdded(h)
  /\ UNCHANGED <<index, tip>>

(* The tip moves to a strictly heavier known header, and the index with it.*)
Promote ==
  /\ tip' \in DOMAIN known
  /\ tip # NoHash => known[tip'] > known[tip]
  /\ index' = Path(tip')
  /\ UNCHANGED known

Next == Learn \/ Promote

Spec == Init /\ [][Next]_vars
=============================================================================
