--------------------------- MODULE ResourceCacheProofs ---------------------------
(***************************************************************************)
(* What a call answers was committed to by the canonical chain while it    *)
(* ran, for every set of threads, tree of headers, window and limit: the   *)
(* proofs of TypeOK, RowsTrue, AnswersFromChain, PositiveStillCanonical    *)
(* and PruneLeavesRecent of ResourceCache, and of DetailsTrue of           *)
(* ProofDetails.                                                           *)
(*                                                                         *)
(* CacheInv adds to the checked invariants what the locals of a call and   *)
(* of the tick still mean after the header store has moved.                *)
(***************************************************************************)
EXTENDS ProofDetails, SequenceTheorems, TLAPS

(* What a call knows at each of its steps. *)
CallKnows(t) ==
  LET c == req[t]
  IN c.pc # "idle" =>
       /\ tip \in c.seen
       /\ c.pc \in {"best", "canonical"} => RowTrue(c.name, c.row)
       /\ c.pc = "canonical" => \E d \in c.seen : InWindow(c.row.height, Len(d))
       /\ c.pc = "current" => \E b, d \in c.seen : HeldBy(b, d, c.name, Absent)

(* What the tick knows: each anchor is recent for the tip it began with    *)
(* and was canonical at some tip since, and it holds those of the heights  *)
(* it has read.                                                            *)
HeaderAt(c, k) == IF k <= Len(c) THEN {[root |-> Root[At(c, k)], height |-> k]} ELSE {}

Listed(k) == k \in tick.skipped \/ \E c \in tick.seen : HeaderAt(c, k) \subseteq tick.anchors

TickKnows ==
  /\ tick.pc = "list" =>
       /\ tick.last = Len(tick.from) /\ tick.last > 0 /\ tip \in tick.seen
       /\ tick.next \in FirstHeight(tick.last) .. tick.last + 1
       /\ \A k \in 1 .. tick.next - 1 : InWindow(k, Len(tick.from)) => Listed(k)
  /\ tick.pc = "prune" => \A k \in 1 .. Len(tick.from) : InWindow(k, Len(tick.from)) => Listed(k)
  /\ tick.pc \in {"list", "prune"} =>
       \A a \in tick.anchors : /\ InWindow(a.height, Len(tick.from))
                               /\ \E c \in tick.seen : OnChain(c, a)

CacheInv == TypeOK /\ RowsTrue /\ (\A t \in Thread : CallKnows(t)) /\ TickKnows

-----------------------------------------------------------------------------
LEMMA HeaderFacts ==
  ASSUME NEW h \in Header
  PROVE  /\ Len(h) \in Nat /\ Root[h] \in Roots /\ Work[h] \in Nat
         /\ \A k \in 1 .. Len(h) : At(h, k) \in Header /\ Len(At(h, k)) = k
<1>1. h \in Seq(UNION {{g[i] : i \in DOMAIN g} : g \in Header})
  BY ChainAssumption
<1>2. Len(h) \in Nat
  BY <1>1, LenProperties
<1>3. ASSUME NEW k \in 1 .. Len(h) PROVE At(h, k) \in Header /\ Len(At(h, k)) = k
  BY <1>1, <1>2, <1>3, ChainAssumption DEF At
<1>. QED
  BY <1>2, <1>3, ChainAssumption DEF Roots

LEMMA TruthFacts ==
  ASSUME NEW r \in Roots, NEW n \in Name
  PROVE  Truth[r][n] \in Value \cup {Absent}
BY ValueAssumption

(* The row of a verified proof is true. *)
LEMMA AnchoredRowIsTrue ==
  ASSUME NEW best \in Header, NEW n \in Name, NEW now \in Nat
  PROVE  AnchoredRow(n, best, now) \in Rows /\ RowTrue(n, AnchoredRow(n, best, now))
<1>1. Len(best) \in Nat /\ Root[best] \in Roots
  BY HeaderFacts
<1>2. Truth[Root[best]][n] \in Value \cup {Absent}
  BY <1>1, TruthFacts
<1>. QED
  BY <1>1, <1>2 DEF AnchoredRow, Rows, RowTrue

LEMMA NoRowFacts == NoRow \in Rows /\ NoRow.root = NoRoot /\ \A n : RowTrue(n, NoRow)
BY DEF NoRow, Rows, RowTrue

LEMMA IdleCall == NoCall \in Calls /\ NoCall.pc = "idle" /\ NoTick \in Ticks /\ NoTick.pc = "off"
BY NoRowFacts, ChainAssumption DEF NoCall, Calls, NoTick, Ticks, NoAnswer

LEMMA AnswerFacts ==
  ASSUME NEW a \in Value \cup {Absent}
  PROVE  [NoCall EXCEPT !.answer = a] \in Calls /\ [NoCall EXCEPT !.answer = a].pc = "idle"
BY IdleCall DEF NoCall, Calls

LEMMA InitCacheInv == Init => CacheInv
<1>. SUFFICES ASSUME Init PROVE CacheInv
  OBVIOUS
<1>1. tip \in Header /\ clock = 1 /\ tick = NoTick /\ req = [t \in Thread |-> NoCall]
  BY ChainAssumption DEF Init
<1>2. DOMAIN rows \subseteq Name /\ rows \in [DOMAIN rows -> Rows] /\ RowsTrue
  <2>1. PICK S \in SUBSET Name :
          \/ \E v \in Value : rows = [n \in S |-> OldRow(v)]
          \/ tip # Genesis /\ rows = [n \in S |-> AnchoredRow(n, tip, 1)]
    BY DEF Init
  <2>2. CASE \E v \in Value : rows = [n \in S |-> OldRow(v)]
    <3>1. PICK v \in Value : rows = [n \in S |-> OldRow(v)]
      BY <2>2
    <3>2. OldRow(v) \in Rows /\ OldRow(v).root = NoRoot
      BY DEF OldRow, NoRow, Rows
    <3>. QED
      BY <3>1, <3>2 DEF RowsTrue, RowTrue
  <2>3. CASE rows = [n \in S |-> AnchoredRow(n, tip, 1)]
    BY <1>1, <2>3, AnchoredRowIsTrue DEF RowsTrue
  <2>. QED
    BY <2>1, <2>2, <2>3
<1>. QED
  BY <1>1, <1>2, IdleCall DEF CacheInv, TypeOK, CallKnows, TickKnows

-----------------------------------------------------------------------------
(* The steps of one call. *)
CallStep(t) == \/ \E n \in Asked : Ask(t, n)
               \/ ReadRow(t) \/ ReadBest(t) \/ ReadCanonical(t) \/ ReadsNothing(t)
               \/ ReadCurrent(t) \/ FetchBegin(t) \/ PeerProves(t) \/ PeersFail(t) \/ CallFails(t)

(* The canonical header of a recent anchor holds its row's value. *)
LEMMA RecentRowHeld ==
  ASSUME TypeOK, NEW t \in Thread, CallKnows(t), req[t].pc = "canonical",
         IsCanonical(req[t].row.root, req[t].row.height)
  PROVE  \E d \in req[t].seen : HeldBy(tip, d, req[t].name, req[t].row.value)
<1>. DEFINE row == req[t].row
<1>1. row \in Rows /\ tip \in Header /\ req[t].seen \subseteq Header
  BY DEF TypeOK, Calls
<1>2. PICK d \in req[t].seen : InWindow(row.height, Len(d))
  BY DEF CallKnows
<1>3. row.height \in 1 .. Len(tip)
  BY <1>1, <1>2, HeaderFacts DEF InWindow, IsCanonical, Rows
<1>4. Root[At(tip, row.height)] \in Roots /\ row.root = Root[At(tip, row.height)]
  BY <1>1, <1>3, HeaderFacts DEF IsCanonical
<1>5. row.root # NoRoot
  BY <1>4, ChainAssumption
<1>6. row.value = Truth[row.root][req[t].name]
  BY <1>5 DEF CallKnows, RowTrue
<1>. QED
  BY <1>2, <1>3, <1>4, <1>6 DEF HeldBy

(* A step of a call that replaces its locals by ones of the right type that *)
(* know what they should, and leaves true rows.                            *)
LEMMA CallKeeps ==
  ASSUME CacheInv, NEW t \in Thread, NEW c \in Calls,
         req' = [req EXCEPT ![t] = c], UNCHANGED <<tip, tick, clock>>,
         c.pc # "idle" => c.name \in Name, CallKnows(t)',
         DOMAIN rows' \subseteq Name, rows' \in [DOMAIN rows' -> Rows], RowsTrue'
  PROVE  CacheInv'
<1>1. req' \in [Thread -> Calls] /\ req'[t] = c /\ \A u \in Thread \ {t} : req'[u] = req[u]
  BY DEF CacheInv, TypeOK
<1>2. \A u \in Thread \ {t} : CallKnows(u)'
  BY <1>1 DEF CacheInv, CallKnows, RowTrue
<1>3. TickKnows'
  BY DEF CacheInv, TickKnows, Listed
<1>. QED
  BY <1>1, <1>2, <1>3 DEF CacheInv, TypeOK

LEMMA FailKeeps ==
  ASSUME CacheInv, NEW t \in Thread, Fail(t), UNCHANGED <<tip, tick, clock>>,
         DOMAIN rows' \subseteq Name, rows' \in [DOMAIN rows' -> Rows], RowsTrue'
  PROVE  CacheInv'
<1>1. req' = [req EXCEPT ![t] = NoCall]
  BY DEF Fail
<1>2. CallKnows(t)'
  BY <1>1, IdleCall DEF CacheInv, TypeOK, CallKnows
<1>. QED
  BY <1>1, <1>2, IdleCall, CallKeeps

LEMMA AnswerKeeps ==
  ASSUME CacheInv, NEW t \in Thread, NEW a \in Value \cup {Absent}, Answer(t, a),
         UNCHANGED <<tip, rows, tick, clock>>
  PROVE  CacheInv'
<1>. DEFINE c == [NoCall EXCEPT !.answer = a]
<1>1. req' = [req EXCEPT ![t] = c] /\ c \in Calls /\ c.pc = "idle"
  BY AnswerFacts DEF Answer
<1>2. CallKnows(t)'
  BY <1>1 DEF CacheInv, TypeOK, CallKnows
<1>3. DOMAIN rows' \subseteq Name /\ rows' \in [DOMAIN rows' -> Rows] /\ RowsTrue'
  BY DEF CacheInv, TypeOK, RowsTrue, RowTrue
<1>. HIDE DEF c
<1>. QED
  BY <1>1, <1>2, <1>3, CallKeeps

(* A step that changes pc, row, best and fetched of a call.                *)
LEMMA MoveKeeps ==
  ASSUME CacheInv, NEW t \in Thread, req[t].pc # "idle",
         NEW p \in {"row", "best", "canonical", "current", "fetch", "peer"}, NEW r \in Rows,
         NEW b \in Header, NEW f \in BOOLEAN,
         req' = [req EXCEPT ![t] =
                   [req[t] EXCEPT !.pc = p, !.row = r, !.best = b, !.fetched = f]],
         p \in {"best", "canonical"} => RowTrue(req[t].name, r),
         p = "canonical" => \E d \in req[t].seen : InWindow(r.height, Len(d)),
         p = "current" => \E e, d \in req[t].seen : HeldBy(e, d, req[t].name, Absent),
         UNCHANGED <<tip, tick, clock>>,
         DOMAIN rows' \subseteq Name, rows' \in [DOMAIN rows' -> Rows], RowsTrue'
  PROVE  CacheInv'
<1>. DEFINE c == [req[t] EXCEPT !.pc = p, !.row = r, !.best = b, !.fetched = f]
<1>1. req[t] \in Calls /\ req[t].name \in Name /\ tip \in req[t].seen
  BY DEF CacheInv, TypeOK, CallKnows
<1>2. c \in Calls /\ c.pc = p /\ c.row = r /\ c.name = req[t].name /\ c.seen = req[t].seen
  BY <1>1 DEF Calls
<1>3. req' = [req EXCEPT ![t] = c] /\ req'[t] = c
  BY DEF CacheInv, TypeOK
<1>. HIDE DEF c
<1>4. CallKnows(t)'
  BY <1>1, <1>2, <1>3 DEF CallKnows
<1>. QED
  BY <1>1, <1>2, <1>3, <1>4, CallKeeps

LEMMA SameRows ==
  ASSUME CacheInv, UNCHANGED rows
  PROVE  DOMAIN rows' \subseteq Name /\ rows' \in [DOMAIN rows' -> Rows] /\ RowsTrue'
BY DEF CacheInv, TypeOK, RowsTrue, RowTrue

LEMMA MissKeeps ==
  ASSUME CacheInv, NEW t \in Thread, req[t].pc # "idle", Miss(t), UNCHANGED <<tip, rows, tick, clock>>
  PROVE  CacheInv'
<1>1. CASE req[t].fetched
  BY <1>1, FailKeeps, SameRows DEF Miss
<1>2. CASE ~req[t].fetched
  <2>1. req[t] \in Calls
    BY DEF CacheInv, TypeOK
  <2>2. req' = [req EXCEPT ![t] = [req[t] EXCEPT !.pc = "fetch", !.row = NoRow,
                                     !.best = req[t].best, !.fetched = req[t].fetched]]
    BY <1>2, <2>1 DEF Miss, Calls, CacheInv, TypeOK
  <2>3. req[t].best \in Header /\ req[t].fetched \in BOOLEAN
    BY <2>1 DEF Calls
  <2>. QED
    BY <2>2, <2>3, MoveKeeps, SameRows, NoRowFacts
<1>. QED
  BY <1>1, <1>2

LEMMA CallStepKeeps ==
  ASSUME CacheInv, NEW t \in Thread, CallStep(t)
  PROVE  CacheInv'
<1>0. req[t] \in Calls /\ req \in [Thread -> Calls] /\ tip \in Header
  BY DEF CacheInv, TypeOK
<1>f. /\ req[t].row \in Rows /\ req[t].best \in Header /\ req[t].fetched \in BOOLEAN
      /\ req[t].pc # "idle" => req[t].name \in Name
  BY <1>0 DEF Calls, CacheInv, TypeOK
<1>1. ASSUME NEW n \in Asked, Ask(t, n) PROVE CacheInv'
  <2>. DEFINE c == [NoCall EXCEPT !.pc = "row", !.name = n, !.seen = {tip}]
  <2>1. c \in Calls /\ c.pc = "row" /\ c.name \in Name /\ c.seen = {tip}
    BY <1>0, IdleCall, ValueAssumption DEF NoCall, Calls
  <2>2. req' = [req EXCEPT ![t] = c] /\ UNCHANGED <<tip, rows, tick, clock>>
    BY <1>1 DEF Ask
  <2>. HIDE DEF c
  <2>3. CallKnows(t)'
    BY <1>0, <2>1, <2>2 DEF CallKnows
  <2>. QED
    BY <2>1, <2>2, <2>3, CallKeeps, SameRows
<1>2. CASE ReadRow(t)
  <2>1. CASE req[t].name \notin DOMAIN rows
    BY <1>2, <2>1, MissKeeps DEF ReadRow
  <2>2. CASE req[t].name \in DOMAIN rows
    <3>1. rows[req[t].name] \in Rows /\ RowTrue(req[t].name, rows[req[t].name])
      BY <2>2 DEF CacheInv, TypeOK, RowsTrue
    <3>2. req' = [req EXCEPT ![t] = [req[t] EXCEPT !.pc = "best", !.row = rows[req[t].name],
                                       !.best = req[t].best, !.fetched = req[t].fetched]]
      BY <1>0, <1>2, <2>2 DEF ReadRow, Calls
    <3>. QED
      BY <1>2, <1>f, <3>1, <3>2, MoveKeeps, SameRows DEF ReadRow
  <2>. QED
    BY <2>1, <2>2
<1>3. CASE ReadBest(t)
  <2>1. CASE ~InWindow(req[t].row.height, Len(tip))
    BY <1>3, <2>1, MissKeeps DEF ReadBest
  <2>2. CASE InWindow(req[t].row.height, Len(tip))
    <3>1. req' = [req EXCEPT ![t] = [req[t] EXCEPT !.pc = "canonical", !.row = req[t].row,
                                       !.best = req[t].best, !.fetched = req[t].fetched]]
      BY <1>0, <1>3, <2>2 DEF ReadBest, Calls
    <3>2. RowTrue(req[t].name, req[t].row) /\ tip \in req[t].seen
      BY <1>3 DEF CacheInv, CallKnows, ReadBest
    <3>. QED
      BY <1>3, <1>f, <2>2, <3>1, <3>2, MoveKeeps, SameRows DEF ReadBest
  <2>. QED
    BY <2>1, <2>2
<1>4. CASE ReadCanonical(t)
  <2>1. CASE ~IsCanonical(req[t].row.root, req[t].row.height)
    BY <1>4, <2>1, MissKeeps DEF ReadCanonical
  <2>2. CASE IsCanonical(req[t].row.root, req[t].row.height) /\ req[t].row.value = Absent
    <3>0. req' = [req EXCEPT ![t].pc = "current", ![t].row = NoRow]
      BY <1>4, <2>2 DEF ReadCanonical
    <3>1. req' = [req EXCEPT ![t] = [req[t] EXCEPT !.pc = "current", !.row = NoRow,
                                       !.best = req[t].best, !.fetched = req[t].fetched]]
      BY <1>0, <3>0 DEF Calls
    <3>2. \E d \in req[t].seen : HeldBy(tip, d, req[t].name, Absent)
      BY <1>4, <2>2, RecentRowHeld DEF CacheInv, ReadCanonical
    <3>3. tip \in req[t].seen
      BY <1>4 DEF CacheInv, CallKnows, ReadCanonical
    <3>4. \E e, d \in req[t].seen : HeldBy(e, d, req[t].name, Absent)
      BY <3>2, <3>3
    <3>. QED
      BY <1>4, <1>f, <3>1, <3>4, NoRowFacts, MoveKeeps, SameRows DEF ReadCanonical
  <2>3. CASE IsCanonical(req[t].row.root, req[t].row.height) /\ req[t].row.value # Absent
    <3>1. Answer(t, req[t].row.value) /\ req[t].row.value \in Value \cup {Absent}
      BY <1>4, <1>f, <2>3 DEF ReadCanonical, Rows
    <3>. QED
      BY <1>4, <3>1, AnswerKeeps DEF ReadCanonical
  <2>. QED
    BY <2>1, <2>2, <2>3
<1>5. CASE ReadsNothing(t)
  BY <1>5, MissKeeps DEF ReadsNothing
<1>6. CASE ReadCurrent(t)
  <2>1. CASE Fail(t)
    BY <1>6, <2>1, FailKeeps, SameRows DEF ReadCurrent
  <2>2. CASE Answer(t, Absent)
    BY <1>6, <2>2, AnswerKeeps DEF ReadCurrent
  <2>. QED
    BY <1>6, <2>1, <2>2 DEF ReadCurrent
<1>7. CASE FetchBegin(t)
  <2>1. CASE tip = Genesis
    BY <1>7, <2>1, FailKeeps, SameRows DEF FetchBegin
  <2>2. CASE tip # Genesis
    <3>1. req' = [req EXCEPT ![t] = [req[t] EXCEPT !.pc = "peer", !.row = req[t].row,
                                       !.best = tip, !.fetched = req[t].fetched]]
      BY <1>0, <1>7, <2>2 DEF FetchBegin, Calls
    <3>. QED
      BY <1>0, <1>7, <1>f, <3>1, MoveKeeps, SameRows DEF FetchBegin
  <2>. QED
    BY <2>1, <2>2
<1>8. CASE PeerProves(t)
  <2>. DEFINE row == Anchored(req[t].name, req[t].best)
  <2>1. req[t].name \in Name /\ row \in Rows /\ RowTrue(req[t].name, row)
    BY <1>8, <1>f, AnchoredRowIsTrue DEF PeerProves, Anchored, CacheInv, TypeOK
  <2>. HIDE DEF row
  <2>2. rows' = Stored(req[t].name, row)
    BY <1>8 DEF PeerProves, row
  <2>3. DOMAIN rows' \subseteq Name /\ rows' \in [DOMAIN rows' -> Rows] /\ RowsTrue'
    <3>1. /\ DOMAIN rows' = DOMAIN rows \cup {req[t].name}
          /\ \A m \in DOMAIN rows' : rows'[m] = IF m = req[t].name THEN row ELSE rows[m]
          /\ rows' = [m \in DOMAIN rows' |-> rows'[m]]
      BY <2>2 DEF Stored
    <3>2. \A m \in DOMAIN rows' : rows'[m] \in Rows /\ RowTrue(m, rows'[m])
      BY <2>1, <3>1 DEF CacheInv, TypeOK, RowsTrue
    <3>. QED
      BY <2>1, <3>1, <3>2 DEF CacheInv, TypeOK, RowsTrue, RowTrue
  <2>4. CASE Fail(t)
    BY <1>8, <2>3, <2>4, FailKeeps DEF PeerProves
  <2>5. CASE ~Fail(t)
    <3>1. req' = [req EXCEPT ![t] = [req[t] EXCEPT !.pc = "row", !.row = req[t].row,
                                       !.best = Genesis, !.fetched = TRUE]]
      BY <1>0, <1>8, <2>5 DEF PeerProves, Calls
    <3>. QED
      BY <1>8, <1>f, <2>3, <3>1, MoveKeeps, ChainAssumption DEF PeerProves
  <2>. QED
    BY <2>4, <2>5
<1>9. CASE PeersFail(t)
  BY <1>9, FailKeeps, SameRows DEF PeersFail
<1>10. CASE CallFails(t)
  BY <1>10, FailKeeps, SameRows DEF CallFails
<1>. QED
  BY <1>1, <1>2, <1>3, <1>4, <1>5, <1>6, <1>7, <1>8, <1>9, <1>10 DEF CallStep

-----------------------------------------------------------------------------
(* The steps of the tick. *)

LEMMA FirstHeightFacts ==
  ASSUME NEW best \in Nat, best > 0
  PROVE  /\ FirstHeight(best) \in 1 .. best /\ best - FirstHeight(best) <= Window
         /\ \A k \in Nat : InWindow(k, best) <=> k \in FirstHeight(best) .. best
BY LimitAssumption DEF FirstHeight, InWindow

LEMMA NothingRecent == \A k : ~InWindow(k, Len(Genesis))
<1>. Len(Genesis) = 0
  BY EmptySeq DEF Genesis
<1>. QED
  BY DEF InWindow

(* A step of the tick that removes rows or none. *)
LEMMA TickKeeps ==
  ASSUME CacheInv, tick' \in Ticks, TickKnows', UNCHANGED <<tip, req, clock>>,
         \/ UNCHANGED rows
         \/ \E S : rows' = Keeping(S)
  PROVE  CacheInv'
<1>1. DOMAIN rows' \subseteq DOMAIN rows /\ rows' = [n \in DOMAIN rows' |-> rows[n]]
  BY DEF Keeping, CacheInv, TypeOK
<1>2. DOMAIN rows' \subseteq Name /\ rows' \in [DOMAIN rows' -> Rows] /\ RowsTrue'
  BY <1>1 DEF CacheInv, TypeOK, RowsTrue, RowTrue
<1>3. \A t \in Thread : CallKnows(t)'
  BY DEF CacheInv, CallKnows, RowTrue
<1>. QED
  BY <1>2, <1>3 DEF CacheInv, TypeOK

LEMMA TickStepKeeps ==
  ASSUME CacheInv, Tick
  PROVE  CacheInv'
<1>0. tick \in Ticks /\ tip \in Header /\ Len(tip) \in Nat /\ tick.from \in Header
      /\ Len(tick.from) \in Nat /\ tick.next \in Nat /\ tick.last \in Nat
  BY HeaderFacts DEF CacheInv, TypeOK, Ticks
<1>1. CASE ListBegin
  <2>0. UNCHANGED <<tip, rows, req, clock>>
    BY <1>1 DEF ListBegin
  <2>1. CASE tip = Genesis
    <3>1. /\ tick' \in Ticks /\ tick'.pc = "prune" /\ tick'.anchors = {}
          /\ tick'.from = Genesis
      BY <1>1, <2>1, ChainAssumption DEF ListBegin, NoTick, Ticks
    <3>2. TickKnows'
      BY <3>1, NothingRecent DEF TickKnows
    <3>. QED
      BY <2>0, <3>1, <3>2, TickKeeps
  <2>2. CASE tip # Genesis
    <3>1. Len(tip) > 0
      BY <1>0, <2>2, ChainAssumption, EmptySeq DEF Genesis
    <3>2. /\ tick' \in Ticks /\ tick'.pc = "list" /\ tick'.anchors = {} /\ tick'.from = tip
          /\ tick'.last = Len(tip) /\ tick'.next = FirstHeight(Len(tip)) /\ tick'.seen = {tip}
      <4>1. FirstHeight(Len(tip)) \in Nat
        BY <1>0, <3>1, FirstHeightFacts
      <4>2. tick' = [pc |-> "list", next |-> FirstHeight(Len(tip)), last |-> Len(tip),
                     anchors |-> {}, from |-> tip, seen |-> {tip}, skipped |-> {}]
        BY <1>1, <2>2 DEF ListBegin, NoTick
      <4>. QED
        BY <1>0, <4>1, <4>2 DEF Ticks
    <3>3. \A k \in 1 .. tick'.next - 1 : ~InWindow(k, Len(tip))
      BY <1>0, <3>1, <3>2, FirstHeightFacts
    <3>4. TickKnows'
      BY <1>0, <2>0, <3>1, <3>2, <3>3, FirstHeightFacts DEF TickKnows, InWindow
    <3>. QED
      BY <2>0, <3>2, <3>4, TickKeeps
  <2>. QED
    BY <2>1, <2>2
<1>2. CASE ListHeight
  <2>0. UNCHANGED <<tip, rows, req, clock>> /\ tick.pc = "list"
    BY <1>2 DEF ListHeight
  <2>k. /\ tick.last = Len(tick.from) /\ tick.last > 0 /\ tip \in tick.seen
        /\ tick.next \in FirstHeight(tick.last) .. tick.last + 1
        /\ \A k \in 1 .. tick.next - 1 : InWindow(k, Len(tick.from)) => Listed(k)
        /\ \A a \in tick.anchors : /\ InWindow(a.height, Len(tick.from))
                                 /\ \E c \in tick.seen : OnChain(c, a)
    BY <2>0 DEF CacheInv, TickKnows
  <2>1. CASE tick.next > tick.last
    <3>1. /\ tick' \in Ticks /\ tick'.pc = "prune" /\ tick'.anchors = tick.anchors
          /\ tick'.from = tick.from /\ tick'.seen = tick.seen /\ tick'.skipped = tick.skipped
      BY <1>0, <1>2, <2>1 DEF ListHeight, Ticks
    <3>2. \A k \in 1 .. Len(tick.from) : InWindow(k, Len(tick.from)) => Listed(k)
      BY <1>0, <2>1, <2>k
    <3>3. TickKnows'
      BY <2>0, <2>k, <3>1, <3>2 DEF TickKnows, Listed
    <3>. QED
      BY <2>0, <3>1, <3>3, TickKeeps
  <2>2. CASE ~(tick.next > tick.last)
    <3>0. tick.next \in 1 .. tick.last /\ InWindow(tick.next, Len(tick.from))
      <4>1. FirstHeight(tick.last) \in 1 .. tick.last
        BY <1>0, <2>k, FirstHeightFacts
      <4>2. tick.next \in FirstHeight(tick.last) .. tick.last /\ tick.next \in 1 .. tick.last
        BY <1>0, <2>2, <2>k, <4>1
      <4>. QED
        BY <1>0, <2>k, <4>2, FirstHeightFacts
    <3>1. AnchorAt(tick.next) \subseteq Anchors
      <4>1. CASE tick.next <= Len(tip)
        <5>1. Root[At(tip, tick.next)] \in Roots /\ tick.next \in Nat
          BY <1>0, <3>0, <4>1, HeaderFacts
        <5>. QED
          BY <5>1 DEF AnchorAt, Anchors
      <4>. QED
        BY <4>1 DEF AnchorAt
    <3>2. /\ tick' \in Ticks /\ tick'.pc = "list" /\ tick'.last = tick.last
          /\ tick'.from = tick.from /\ tick'.next = tick.next + 1
          /\ tick'.anchors = tick.anchors \cup AnchorAt(tick.next)
          /\ tick'.seen = tick.seen /\ tick'.skipped = tick.skipped
      <4>1. tick' = [tick EXCEPT !.next = tick.next + 1,
                                 !.anchors = tick.anchors \cup AnchorAt(tick.next)]
        BY <1>2, <2>2 DEF ListHeight
      <4>2. tick.next + 1 \in Nat /\ tick.anchors \cup AnchorAt(tick.next) \in SUBSET Anchors
        BY <1>0, <3>1 DEF Ticks
      <4>. QED
        BY <1>0, <2>0, <4>1, <4>2 DEF Ticks
    <3>3. \A a \in AnchorAt(tick.next) : /\ InWindow(a.height, Len(tick.from))
                                          /\ \E c \in tick.seen : OnChain(c, a)
      BY <2>k, <3>0 DEF AnchorAt, OnChain
    <3>4. \A k \in 1 .. tick.next : InWindow(k, Len(tick.from)) => Listed(k)'
      <4>. SUFFICES ASSUME NEW k \in 1 .. tick.next, InWindow(k, Len(tick.from)) PROVE Listed(k)'
        OBVIOUS
      <4>1. CASE k = tick.next
        <5>1. HeaderAt(tip, k) = AnchorAt(k)
          BY DEF AnchorAt, HeaderAt
        <5>2. HeaderAt(tip, k) \subseteq tick'.anchors /\ tip \in tick'.seen
          BY <2>k, <3>2, <4>1, <5>1
        <5>3. HeaderAt(tip, k)' = HeaderAt(tip, k)
          BY <2>0 DEF HeaderAt
        <5>. QED
          BY <2>0, <5>2, <5>3 DEF Listed, HeaderAt
      <4>2. CASE k # tick.next
        <5>1. k \in 1 .. tick.next - 1
          BY <1>0, <4>2
        <5>2. Listed(k)
          BY <2>k, <5>1
        <5>. QED
          BY <3>2, <5>2 DEF Listed, HeaderAt
      <4>. QED
        BY <4>1, <4>2
    <3>5. tick'.next - 1 = tick.next /\ tick'.next \in FirstHeight(tick'.last) .. tick'.last + 1
      <4>1. FirstHeight(tick.last) \in 1 .. tick.last
        BY <1>0, <2>k, FirstHeightFacts
      <4>. QED
        BY <1>0, <2>2, <2>k, <3>2, <4>1
    <3>6. TickKnows'
      BY <2>0, <2>k, <3>2, <3>3, <3>4, <3>5 DEF TickKnows
    <3>. QED
      BY <2>0, <3>2, <3>6, TickKeeps
  <2>. QED
    BY <2>1, <2>2
<1>3. CASE ListsNothing
  <2>0. UNCHANGED <<tip, rows, req, clock>>
    BY <1>3 DEF ListsNothing
  <2>1. CASE tick' = [NoTick EXCEPT !.pc = "prune"]
    <3>1. /\ tick' \in Ticks /\ tick'.pc = "prune" /\ tick'.anchors = {}
          /\ tick'.from = Genesis
      BY <2>1, IdleCall DEF NoTick, Ticks
    <3>2. TickKnows'
      BY <3>1, NothingRecent DEF TickKnows
    <3>. QED
      BY <2>0, <3>1, <3>2, TickKeeps
  <2>2. CASE /\ tick.pc = "list" /\ tick.next <= tick.last
             /\ tick' = [tick EXCEPT !.next = @ + 1, !.skipped = @ \cup {tick.next}]
    <3>1. /\ tick' \in Ticks /\ tick'.pc = "list" /\ tick'.last = tick.last
          /\ tick'.from = tick.from /\ tick'.next = tick.next + 1 /\ tick'.anchors = tick.anchors
          /\ tick'.seen = tick.seen /\ tick'.skipped = tick.skipped \cup {tick.next}
      <4>1. tick' = [tick EXCEPT !.next = tick.next + 1, !.skipped = tick.skipped \cup {tick.next}]
        BY <2>2
      <4>2. tick.next + 1 \in Nat /\ tick.skipped \cup {tick.next} \in SUBSET Nat
        BY <1>0 DEF Ticks
      <4>. QED
        BY <1>0, <2>2, <4>1, <4>2 DEF Ticks
    <3>2. /\ tick.last = Len(tick.from) /\ tick.last > 0 /\ tip \in tick.seen
          /\ tick.next \in FirstHeight(tick.last) .. tick.last + 1
          /\ \A k \in 1 .. tick.next - 1 : InWindow(k, Len(tick.from)) => Listed(k)
          /\ \A a \in tick.anchors : /\ InWindow(a.height, Len(tick.from))
                                   /\ \E c \in tick.seen : OnChain(c, a)
      BY <2>2 DEF CacheInv, TickKnows
    <3>3. \A k \in 1 .. tick.next : InWindow(k, Len(tick.from)) => Listed(k)'
      <4>. SUFFICES ASSUME NEW k \in 1 .. tick.next, InWindow(k, Len(tick.from)) PROVE Listed(k)'
        OBVIOUS
      <4>1. CASE k = tick.next
        BY <3>1, <4>1 DEF Listed
      <4>2. CASE k # tick.next
        <5>1. k \in 1 .. tick.next - 1
          BY <1>0, <4>2
        <5>2. Listed(k)
          BY <3>2, <5>1
        <5>. QED
          BY <3>1, <5>2 DEF Listed, HeaderAt
      <4>. QED
        BY <4>1, <4>2
    <3>4. tick'.next - 1 = tick.next /\ tick'.next \in FirstHeight(tick'.last) .. tick'.last + 1
      <4>1. FirstHeight(tick.last) \in 1 .. tick.last
        BY <1>0, <3>2, FirstHeightFacts
      <4>. QED
        BY <1>0, <2>2, <3>1, <3>2, <4>1
    <3>5. TickKnows'
      BY <2>0, <3>1, <3>2, <3>3, <3>4 DEF TickKnows
    <3>. QED
      BY <2>0, <3>1, <3>5, TickKeeps
  <2>. QED
    BY <1>3, <2>1, <2>2 DEF ListsNothing
<1>4. CASE Prune
  <2>1. tick' \in Ticks /\ tick'.pc = "limit"
    BY <1>4, IdleCall DEF Prune, NoTick, Ticks
  <2>. QED
    BY <1>4, <2>1, TickKeeps DEF Prune, TickKnows
<1>5. CASE EnforceLimit
  BY <1>5, IdleCall, TickKeeps DEF EnforceLimit, TickKnows
<1>6. CASE TickFails
  BY <1>6, IdleCall, TickKeeps DEF TickFails, TickKnows
<1>. QED
  BY <1>1, <1>2, <1>3, <1>4, <1>5, <1>6 DEF Tick

-----------------------------------------------------------------------------
(* The steps of everything else. *)

LEMMA ReorganiseKeeps ==
  ASSUME CacheInv, Reorganise
  PROVE  CacheInv'
<1>1. PICK h \in Header : Work[h] > Work[tip] /\ tip' = h
  BY DEF Reorganise
<1>2. /\ UNCHANGED <<rows, clock>>
      /\ tick' = IF tick.pc = "list" THEN [tick EXCEPT !.seen = tick.seen \cup {tip'}] ELSE tick
  BY DEF Reorganise
<1>3. req' = [t \in Thread |->
                IF req[t].pc = "idle" THEN req[t]
                ELSE [req[t] EXCEPT !.seen = @ \cup {tip'}]]
  BY DEF Reorganise
<1>4. ASSUME NEW t \in Thread
      PROVE  /\ req'[t] \in Calls /\ CallKnows(t)'
             /\ req'[t].pc # "idle" => req'[t].name \in Name
  <2>1. req[t] \in Calls /\ (req[t].pc # "idle" => req[t].name \in Name)
    BY <1>4 DEF CacheInv, TypeOK
  <2>2. CASE req[t].pc = "idle"
    BY <1>3, <1>4, <2>1, <2>2 DEF CallKnows
  <2>3. CASE req[t].pc # "idle"
    <3>1. req'[t] = [req[t] EXCEPT !.seen = req[t].seen \cup {tip'}]
      BY <1>3, <1>4, <2>3
    <3>2. /\ req'[t] \in Calls /\ req'[t].pc = req[t].pc /\ req'[t].row = req[t].row
          /\ req'[t].name = req[t].name /\ req'[t].seen = req[t].seen \cup {tip'}
      BY <1>1, <2>1, <3>1 DEF Calls
    <3>3. CallKnows(t)
      BY <1>4 DEF CacheInv
    <3>. QED
      BY <2>1, <2>3, <3>2, <3>3 DEF CallKnows, RowTrue
  <2>. QED
    BY <2>2, <2>3
<1>5. tick' \in Ticks /\ TickKnows'
  <2>0. tick \in Ticks /\ TickKnows
    BY DEF CacheInv, TypeOK
  <2>1. CASE tick.pc = "list"
    <3>1. /\ tick' \in Ticks /\ tick'.pc = "list" /\ tick'.last = tick.last
          /\ tick'.from = tick.from /\ tick'.next = tick.next /\ tick'.anchors = tick.anchors
          /\ tick'.seen = tick.seen \cup {tip'} /\ tick'.skipped = tick.skipped
      BY <1>1, <1>2, <2>0, <2>1 DEF Ticks
    <3>2. \A k : Listed(k) => Listed(k)'
      BY <3>1 DEF Listed
    <3>. QED
      BY <2>0, <2>1, <3>1, <3>2 DEF TickKnows
  <2>2. CASE tick.pc # "list"
    BY <1>2, <2>0, <2>2 DEF TickKnows, Listed
  <2>. QED
    BY <2>1, <2>2
<1>. QED
  BY <1>1, <1>2, <1>3, <1>4 , <1>5 DEF CacheInv, TypeOK, RowsTrue, RowTrue

LEMMA OthersKeep ==
  ASSUME CacheInv, Clear \/ Crash \/ Advance \/ UNCHANGED vars
  PROVE  CacheInv'
<1>1. CASE Clear
  <2>1. /\ DOMAIN rows' = {} /\ rows' = [n \in {} |-> NoRow]
        /\ UNCHANGED <<tip, req, tick, clock>>
    BY <1>1 DEF Clear, NoRows
  <2>2. rows' \in [DOMAIN rows' -> Rows] /\ RowsTrue'
    BY <2>1 DEF RowsTrue
  <2>. QED
    BY <2>1, <2>2 DEF CacheInv, TypeOK, CallKnows, RowTrue, TickKnows, Listed
<1>2. CASE Crash
  BY <1>2, IdleCall
  DEF Crash, CacheInv, TypeOK, RowsTrue, RowTrue, CallKnows, TickKnows
<1>3. CASE Advance
  <2>1. clock' \in Nat /\ UNCHANGED <<tip, rows, req, tick>>
    BY <1>3 DEF Advance, CacheInv, TypeOK
  <2>. QED
    BY <2>1 DEF CacheInv, TypeOK, RowsTrue, RowTrue, CallKnows, TickKnows, Listed
<1>4. CASE UNCHANGED vars
  BY <1>4 DEF vars, CacheInv, TypeOK, RowsTrue, RowTrue, CallKnows, TickKnows, Listed
<1>. QED
  BY <1>1, <1>2, <1>3, <1>4

(* The inductive invariant. *)
THEOREM CacheInvariance == Spec => []CacheInv
<1>1. Init => CacheInv
  BY InitCacheInv
<1>2. CacheInv /\ [Next]_vars => CacheInv'
  <2>. SUFFICES ASSUME CacheInv, [Next]_vars PROVE CacheInv'
    OBVIOUS
  <2>1. ASSUME NEW t \in Thread, Call(t) PROVE CacheInv'
    BY <2>1, CallStepKeeps DEF Call, CachedRecords, LiveProof, CallStep
  <2>2. CASE Tick
    BY <2>2, TickStepKeeps
  <2>3. CASE Reorganise
    BY <2>3, ReorganiseKeeps
  <2>4. CASE Clear \/ Crash \/ Advance \/ UNCHANGED vars
    BY <2>4, OthersKeep
  <2>. QED
    BY <2>1, <2>2, <2>3, <2>4 DEF Next
<1>. QED
  BY <1>1, <1>2, PTL DEF Spec

(* Rows, calls and the tick keep the types of their columns and locals. *)
THEOREM CacheTypes == Spec => []TypeOK
BY CacheInvariance, PTL DEF CacheInv

(* insert, prune, eviction and clear of any threads leave only rows that   *)
(* hold what the tree of their anchor commits to.                          *)
THEOREM CachedRowsTrue == Spec => []RowsTrue
BY CacheInvariance, PTL DEF CacheInv

-----------------------------------------------------------------------------
(* Only two steps answer: the canonical check, and the currentness check.  *)
LEMMA WhoAnswers ==
  ASSUME CacheInv, [Next]_vars, NEW t \in Thread, Answers(t, Value \cup {Absent})
  PROVE  \/ /\ ReadCanonical(t) /\ IsCanonical(req[t].row.root, req[t].row.height)
            /\ req[t].row.value # Absent /\ req'[t].answer = req[t].row.value
         \/ ReadCurrent(t) /\ req'[t].answer = Absent
<1>0. /\ req \in [Thread -> Calls] /\ req[t].pc # "idle" /\ req'[t].pc = "idle"
      /\ req'[t].answer # NoAnswer
  BY ValueAssumption DEF CacheInv, TypeOK, Answers
<1>1. ~Fail(t)
  BY <1>0 DEF Fail, NoCall
<1>2. ~Miss(t)
  BY <1>0, <1>1 DEF Miss, Calls
<1>3. ~(ReadRow(t) \/ ReadBest(t) \/ ReadsNothing(t) \/ FetchBegin(t) \/ PeerProves(t)
          \/ PeersFail(t) \/ CallFails(t) \/ \E n \in Asked : Ask(t, n))
  <2>1. ~(ReadRow(t) \/ ReadBest(t) \/ ReadsNothing(t) \/ FetchBegin(t))
    BY <1>0, <1>1, <1>2 DEF ReadRow, ReadBest, ReadsNothing, FetchBegin, Calls
  <2>2. ~(PeersFail(t) \/ CallFails(t))
    BY <1>1 DEF PeersFail, CallFails
  <2>3. ~PeerProves(t)
    <3>1. req' = [req EXCEPT ![t].pc = "row", ![t].best = Genesis, ![t].fetched = TRUE]
          => req'[t].pc = "row"
      BY <1>0 DEF Calls
    <3>. QED
      BY <1>0, <1>1, <3>1 DEF PeerProves
  <2>4. ~\E n \in Asked : Ask(t, n)
    BY <1>0 DEF Ask
  <2>. QED
    BY <2>1, <2>2, <2>3, <2>4
<1>4. ASSUME NEW u \in Thread \ {t}, CallStep(u) PROVE FALSE
  <2>1. req'[t] = req[t]
    BY <1>0, <1>4
    DEF CallStep, Ask, ReadRow, ReadBest, ReadCanonical, ReadsNothing, ReadCurrent, FetchBegin,
        PeerProves, PeersFail, CallFails, Miss, Fail, Answer
  <2>. QED
    BY <1>0, <2>1
<1>5. ~(Tick \/ Clear \/ Advance \/ UNCHANGED vars)
  BY <1>0 DEF Tick, ListBegin, ListHeight, ListsNothing, Prune, EnforceLimit, TickFails, Clear,
              Advance, vars
<1>6. ~Reorganise
  <2>1. Reorganise => req'[t].pc = req[t].pc
    BY <1>0 DEF Reorganise, Calls
  <2>. QED
    BY <1>0, <2>1
<1>7. ~Crash
  BY <1>0 DEF Crash, NoCall
<1>8. ReadCanonical(t) \/ ReadCurrent(t)
  BY <1>3, <1>4, <1>5, <1>6, <1>7 DEF Next, Call, CachedRecords, LiveProof, CallStep
<1>9. \A a : Answer(t, a) => req'[t].answer = a
  BY <1>0 DEF Answer, NoCall
<1>10. CASE ReadCurrent(t)
  BY <1>1, <1>9, <1>10 DEF ReadCurrent
<1>11. CASE ReadCanonical(t)
  <2>1. /\ IsCanonical(req[t].row.root, req[t].row.height)
        /\ req[t].row.value = Absent =>
             req' = [req EXCEPT ![t].pc = "current", ![t].row = NoRow]
        /\ req[t].row.value # Absent => Answer(t, req[t].row.value)
    BY <1>2, <1>11 DEF ReadCanonical
  <2>2. req[t].row.value # Absent
    BY <1>0, <2>1 DEF Calls
  <2>. QED
    BY <1>9, <1>11, <2>1, <2>2
<1>. QED
  BY <1>8, <1>10, <1>11

LEMMA AnswerHeld ==
  ASSUME CacheInv, [Next]_vars, NEW t \in Thread, Answers(t, Value \cup {Absent})
  PROVE  /\ \E c, d \in req[t].seen : HeldBy(c, d, req[t].name, req'[t].answer)
         /\ req'[t].answer # Absent =>
              tip' = tip /\ \E d \in req[t].seen : HeldBy(tip, d, req[t].name, req'[t].answer)
<1>0. tip \in req[t].seen
  BY DEF Answers, CacheInv, CallKnows
<1>1. CASE /\ ReadCanonical(t) /\ IsCanonical(req[t].row.root, req[t].row.height)
           /\ req'[t].answer = req[t].row.value
  <2>1. \E d \in req[t].seen : HeldBy(tip, d, req[t].name, req'[t].answer)
    BY <1>1, RecentRowHeld DEF ReadCanonical, CacheInv
  <2>. QED
    BY <1>0, <1>1, <2>1 DEF ReadCanonical
<1>2. CASE ReadCurrent(t) /\ req'[t].answer = Absent
  BY <1>2 DEF ReadCurrent, CacheInv, CallKnows
<1>. QED
  BY <1>1, <1>2, WhoAnswers

(* "If reorg crosses cached proof height, invalidate": prove_name answers  *)
(* what a recent canonical header committed to while the call ran, for any *)
(* threads, branches and faults.                                           *)
THEOREM AnswersAreFromChain == Spec => AnswersFromChain
<1>1. CacheInv /\ [Next]_vars =>
        [\A t \in Thread : Answers(t, Value \cup {Absent}) =>
           \E c, d \in req[t].seen : HeldBy(c, d, req[t].name, req'[t].answer)]_vars
  BY AnswerHeld
<1>. QED
  BY <1>1, CacheInvariance, PTL DEF Spec, AnswersFromChain

(* A value that is served is on the canonical chain at that moment, live   *)
(* proofs that took long included.                                         *)
THEOREM PositivesAreCanonical == Spec => PositiveStillCanonical
<1>1. CacheInv /\ [Next]_vars =>
        [\A t \in Thread : Answers(t, Value) =>
           \E d \in req[t].seen : HeldBy(tip, d, req[t].name, req'[t].answer)]_vars
  BY AnswerHeld, ValueAssumption DEF Answers
<1>. QED
  BY <1>1, CacheInvariance, PTL DEF Spec, PositiveStillCanonical

(* What a prune leaves and what it removes, while other threads read and   *)
(* store rows and the tip moves between the tick's reads, to other         *)
(* branches too: for any tree of headers, window and faults.               *)
THEOREM PruneLeavesOnlyRecent == Spec => PruneLeavesRecent
<1>. DEFINE Pruned ==
       tick.pc = "prune" /\ tick'.pc = "limit" =>
         /\ \A n \in DOMAIN rows' :
              /\ InWindow(rows'[n].height, Len(tick.from))
              /\ \E c \in tick.seen : OnChain(c, rows'[n])
         /\ \A n \in DOMAIN rows \ DOMAIN rows' :
              InWindow(rows[n].height, Len(tick.from)) /\ rows[n].height \notin tick.skipped =>
                \E c \in tick.seen : ~OnChain(c, rows[n])
<1>1. CacheInv /\ [Next]_vars => [Pruned]_vars
  <2>. SUFFICES ASSUME CacheInv, [Next]_vars, tick.pc = "prune", tick'.pc = "limit"
                PROVE  /\ \A n \in DOMAIN rows' :
                            /\ InWindow(rows'[n].height, Len(tick.from))
                            /\ \E c \in tick.seen : OnChain(c, rows'[n])
                       /\ \A n \in DOMAIN rows \ DOMAIN rows' :
                            InWindow(rows[n].height, Len(tick.from))
                            /\ rows[n].height \notin tick.skipped =>
                              \E c \in tick.seen : ~OnChain(c, rows[n])
    OBVIOUS
  <2>1. Prune
    <3>1. tick' # tick
      OBVIOUS
    <3>2. ~(\E t \in Thread : Call(t))
      BY <3>1 DEF Call, CachedRecords, LiveProof, Ask, ReadRow, ReadBest, ReadCanonical,
                  ReadsNothing, ReadCurrent, FetchBegin, PeerProves, PeersFail, CallFails
    <3>3. ~(Reorganise \/ Clear \/ Advance \/ UNCHANGED vars)
      BY <3>1 DEF Reorganise, Clear, Advance, vars
    <3>4. ~(Crash \/ TickFails \/ EnforceLimit)
      BY IdleCall DEF Crash, TickFails, EnforceLimit
    <3>5. ~(ListBegin \/ ListHeight \/ ListsNothing)
      BY DEF ListBegin, ListHeight, ListsNothing
    <3>. QED
      BY <3>2, <3>3, <3>4, <3>5 DEF Next, Tick
  <2>. DEFINE anchor(n) == [root |-> rows[n].root, height |-> rows[n].height]
  <2>2. DOMAIN rows' = {n \in DOMAIN rows : anchor(n) \in tick.anchors}
        /\ \A n \in DOMAIN rows' : rows'[n] = rows[n]
    BY <2>1 DEF Prune, Keeping
  <2>3. /\ \A k \in 1 .. Len(tick.from) : InWindow(k, Len(tick.from)) => Listed(k)
        /\ \A a \in tick.anchors : /\ InWindow(a.height, Len(tick.from))
                                 /\ \E c \in tick.seen : OnChain(c, a)
    BY DEF CacheInv, TickKnows
  <2>4. ASSUME NEW n \in DOMAIN rows'
        PROVE  /\ InWindow(rows'[n].height, Len(tick.from))
               /\ \E c \in tick.seen : OnChain(c, rows'[n])
    BY <2>2, <2>3, <2>4 DEF OnChain
  <2>5. ASSUME NEW n \in DOMAIN rows \ DOMAIN rows',
               InWindow(rows[n].height, Len(tick.from)), rows[n].height \notin tick.skipped
        PROVE  \E c \in tick.seen : ~OnChain(c, rows[n])
    <3>1. Listed(rows[n].height)
      BY <2>3, <2>5 DEF InWindow
    <3>2. PICK c \in tick.seen : HeaderAt(c, rows[n].height) \subseteq tick.anchors
      BY <2>5, <3>1 DEF Listed
    <3>3. anchor(n) \notin tick.anchors
      BY <2>2
    <3>. QED
      BY <3>2, <3>3 DEF HeaderAt, OnChain
  <2>. QED
    BY <2>4, <2>5
<1>. QED
  BY <1>1, CacheInvariance, PTL DEF Spec, PruneLeavesRecent

-----------------------------------------------------------------------------
(* What the details of any rows that are true say, whatever the best       *)
(* headers of the two reads are.                                           *)
LEMMA DetailsOfTrueRows ==
  ASSUME TypeOK, RowsTrue, NEW typed \in Typed, NEW best \in Header, NEW current
  PROVE  LET d == ProofDetails(typed, rows, best, current)
         IN /\ d.root # NoRoot =>
                 /\ d.value = Truth[d.root][typed.name]
                 /\ \E h \in Header : Len(h) = d.height /\ Root[h] = d.root
            /\ d.cache = "anchored_to_current_tip" =>
                 d.height = Len(best) /\ d.value = Truth[Root[best]][typed.name]
<1>. DEFINE d == ProofDetails(typed, rows, best, current)
            row == rows[typed.name]
<1>1. NoRow.root = NoRoot
  BY DEF NoRow
<1>2. ASSUME ~(typed.host /\ typed.valid /\ typed.name \in DOMAIN rows)
      PROVE  d.root = NoRoot /\ d.cache # "anchored_to_current_tip"
  BY <1>1, <1>2 DEF ProofDetails, NotShown, Shown, Typed
<1>3. ASSUME typed.host, typed.valid, typed.name \in DOMAIN rows
      PROVE  /\ d.root = row.root /\ d.height = row.height /\ d.value = row.value
             /\ d.cache = CacheStatus(row, best)
  BY <1>3 DEF ProofDetails, Shown
<1>4. ASSUME typed.name \in DOMAIN rows
      PROVE  /\ RowTrue(typed.name, row)
             /\ CacheStatus(row, best) = "anchored_to_current_tip" =>
                  row.root # NoRoot /\ row.height = Len(best) /\ row.root = Root[best]
  BY <1>4 DEF RowsTrue, CacheStatus
<1>. HIDE DEF d
<1>5. CASE typed.host /\ typed.valid /\ typed.name \in DOMAIN rows
  BY <1>3, <1>4, <1>5 DEF d, RowTrue
<1>6. CASE ~(typed.host /\ typed.valid /\ typed.name \in DOMAIN rows)
  BY <1>2, <1>6 DEF d
<1>. QED BY <1>5, <1>6

(* The details the app shows while the tip moves between its reads: the    *)
(* value is the one its anchor commits to, and a row shown as anchored to  *)
(* the current tip is that of the tip it was compared with                 *)
(* (hns_proof_details, proof_cache_status).                                *)
THEOREM DetailsAreTrue == Spec => DetailsTrue
<1>. DEFINE Shows ==
       tip' # tip =>
         \A typed \in Typed, best \in {tip, tip'} :
           LET d == ProofDetails(typed, rows, best, tip')
           IN /\ d.root # NoRoot =>
                   /\ d.value = Truth[d.root][typed.name]
                   /\ \E h \in Header : Len(h) = d.height /\ Root[h] = d.root
              /\ d.cache = "anchored_to_current_tip" =>
                   d.height = Len(best) /\ d.value = Truth[Root[best]][typed.name]
<1>1. CacheInv /\ CacheInv' /\ [Next]_vars => [Shows]_vars
  <2>. SUFFICES ASSUME CacheInv, CacheInv', NEW typed \in Typed, NEW best \in {tip, tip'}
                PROVE  LET d == ProofDetails(typed, rows, best, tip')
                       IN /\ d.root # NoRoot =>
                               /\ d.value = Truth[d.root][typed.name]
                               /\ \E h \in Header : Len(h) = d.height /\ Root[h] = d.root
                          /\ d.cache = "anchored_to_current_tip" =>
                               d.height = Len(best) /\ d.value = Truth[Root[best]][typed.name]
    OBVIOUS
  <2>1. best \in Header /\ TypeOK /\ RowsTrue
    BY DEF CacheInv, TypeOK
  <2>. QED BY <2>1, DetailsOfTrueRows
<1>. QED
  BY <1>1, CacheInvariance, PTL DEF Spec, DetailsTrue
=============================================================================
