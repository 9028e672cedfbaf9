-------------------------- MODULE HeaderChainProofs --------------------------
(***************************************************************************)
(* Proofs about HeaderChain, for every set of workers, headers, batches    *)
(* and faults.  Arguments by induction on a height or on a position in a   *)
(* batch take the least counterexample (LeastElement).                     *)
(*                                                                         *)
(* First the stored headers, with any number of writers.  Then best_hash   *)
(* and hash_by_height: for any number of writers the best header is the    *)
(* row at its own height; for one writer whose reads do not fail,          *)
(* hash_by_height is the path to the best header, the best header only     *)
(* ever gets heavier, and HeaderChain implements BestChain; for one        *)
(* writer whose reads may fail, an insertion that succeeds leaves none of  *)
(* its headers heavier than the best one.                                  *)
(***************************************************************************)
EXTENDS HeaderChain, TLAPS, SequenceTheorems, WellFoundedInduction

-----------------------------------------------------------------------------
(* Every nonempty set of naturals has a least element. *)
LEMMA LeastElement ==
  ASSUME NEW S \in SUBSET Nat, S # {}
  PROVE  \E n \in S : \A m \in S : n <= m
<1>1. IsWellFoundedOn(OpToRel(<, Nat), Nat)
  BY NatLessThanWellFounded
<1>2. PICK n \in S : \A m \in S : ~(<<m, n>> \in OpToRel(<, Nat))
  BY <1>1, WFMin
<1>3. \A m \in S : ~ (m < n)
  BY <1>2 DEF OpToRel
<1>. QED BY <1>3

(* A prefix of a header is a chain of that many headers. *)
LEMMA PrefixFacts ==
  ASSUME NEW h \in Seq(Label), NEW i \in 0 .. Len(h)
  PROVE  SubSeq(h, 1, i) \in Seq(Label) /\ Len(SubSeq(h, 1, i)) = i
<1>1. \A k \in 1 .. i : h[k] \in Label
  BY ElementOfSeq
<1>. QED BY <1>1, SubSeqProperties

(* A prefix of a prefix is a prefix. *)
LEMMA PrefixOfPrefix ==
  ASSUME NEW h \in Seq(Label), NEW i \in 0 .. Len(h), NEW j \in 0 .. i
  PROVE  SubSeq(SubSeq(h, 1, i), 1, j) = SubSeq(h, 1, j)
<1>1. CASE j = 0
  BY <1>1, SubSeqEmpty
<1>2. CASE j > 0
  BY <1>2, SubSeqOfSubSeq
<1>. QED BY <1>1, <1>2

(* The parent of a header is its chain without the last header. *)
LEMMA ParentFacts ==
  ASSUME NEW h \in Seq(Label), h # Genesis
  PROVE  /\ Len(h) \in Nat \ {0}
         /\ Parent(h) \in Seq(Label)
         /\ Len(Parent(h)) = Len(h) - 1
<1>1. Len(h) \in Nat \ {0}
  BY EmptySeq DEF Genesis
<1>2. Len(h) - 1 \in 0 .. Len(h)
  BY <1>1
<1>. QED BY <1>1, <1>2, PrefixFacts DEF Parent

LEMMA GenesisLen == Genesis \in Seq(Label) /\ Len(Genesis) = 0
  BY EmptySeq DEF Genesis

-----------------------------------------------------------------------------
(* Among n naturals one is the last of the largest. *)
LastLargest(f, i, n) == \A j \in 1 .. n : f[j] < f[i] \/ (f[j] = f[i] /\ j <= i)

LEMMA LastLargestExists ==
  ASSUME NEW N \in Nat \ {0}, NEW f \in [1 .. N -> Nat]
  PROVE  \E i \in 1 .. N : LastLargest(f, i, N)
<1>. DEFINE Bad == {n \in 1 .. N : ~ \E i \in 1 .. n : LastLargest(f, i, n)}
<1>1. SUFFICES ASSUME Bad # {} PROVE FALSE
  <2>1. N \in 1 .. N
    OBVIOUS
  <2>2. Bad = {} => \E i \in 1 .. N : LastLargest(f, i, N)
    BY <2>1
  <2>. QED BY <2>2
<1>2. PICK n \in Bad : \A m \in Bad : n <= m
  <2>1. Bad \in SUBSET Nat
    OBVIOUS
  <2>. HIDE DEF Bad
  <2>. QED BY <1>1, <2>1, LeastElement
<1>3. n # 1
  <2>1. LastLargest(f, 1, 1)
    BY DEF LastLargest
  <2>. QED BY <2>1
<1>4. n - 1 \in 1 .. N /\ n - 1 \notin Bad
  BY <1>2, <1>3
<1>5. PICK i \in 1 .. (n - 1) : LastLargest(f, i, n - 1)
  BY <1>4
<1>6. LastLargest(f, IF f[n] < f[i] THEN i ELSE n, n)
  <2>1. /\ n \in 1 .. N /\ i \in 1 .. N /\ i <= n - 1
        /\ \A j \in 1 .. N : f[j] \in Nat
    BY <1>4, <1>5
  <2>2. \A j \in 1 .. (n - 1) : f[j] < f[i] \/ (f[j] = f[i] /\ j <= i)
    BY <1>5 DEF LastLargest
  <2>3. CASE f[n] < f[i]
    BY <2>1, <2>2, <2>3 DEF LastLargest
  <2>4. CASE ~(f[n] < f[i])
    <3>1. \A j \in 1 .. n : f[j] < f[n] \/ (f[j] = f[n] /\ j <= n)
      <4>1. SUFFICES ASSUME NEW j \in 1 .. n
                     PROVE  f[j] < f[n] \/ (f[j] = f[n] /\ j <= n)
        OBVIOUS
      <4>2. CASE j = n
        BY <2>1, <4>2
      <4>3. CASE j # n
        <5>1. j \in 1 .. (n - 1) /\ j \in 1 .. N
          BY <2>1, <4>3
        <5>2. f[j] <= f[i] /\ f[i] <= f[n]
          <6>1. f[j] \in Nat /\ f[i] \in Nat /\ f[n] \in Nat
            BY <2>1, <5>1
          <6>. QED BY <2>2, <2>4, <5>1, <6>1
        <5>. QED BY <2>1, <5>1, <5>2
      <4>. QED BY <4>2, <4>3
    <3>. QED BY <2>4, <3>1 DEF LastLargest
  <2>. QED BY <2>3, <2>4
<1>. QED BY <1>2, <1>4, <1>5, <1>6

(* max_by over a nonempty list of accepted rows finds one of the heaviest. *)
LEMMA BestIndexRange ==
  ASSUME NEW rows \in Seq(Row), rows # << >>
  PROVE  /\ BestIndex(rows) \in 1 .. Len(rows)
         /\ NoHeavier(rows, rows[BestIndex(rows)].work)
<1>. DEFINE f == [i \in 1 .. Len(rows) |-> rows[i].work]
<1>1. Len(rows) \in Nat \ {0}
  BY EmptySeq
<1>2. f \in [1 .. Len(rows) -> Nat]
  <2>1. \A i \in 1 .. Len(rows) : rows[i] \in Row
    BY ElementOfSeq
  <2>. QED BY <2>1 DEF Row
<1>3. PICK i \in 1 .. Len(rows) : LastLargest(f, i, Len(rows))
  <2>. HIDE DEF f
  <2>. QED BY <1>1, <1>2, LastLargestExists
<1>4. \A j \in 1 .. Len(rows) :
        rows[j].work < rows[i].work \/ (rows[j].work = rows[i].work /\ j <= i)
  BY <1>3 DEF LastLargest
<1>5. /\ BestIndex(rows) \in 1 .. Len(rows)
      /\ \A j \in 1 .. Len(rows) :
           \/ rows[j].work < rows[BestIndex(rows)].work
           \/ rows[j].work = rows[BestIndex(rows)].work
  BY <1>4 DEF BestIndex
<1>6. \A j \in 1 .. Len(rows) : rows[j].work \in Nat
  BY <1>2
<1>. QED BY <1>5, <1>6 DEF NoHeavier

(* Positions that go up one level at a time are told apart by their level. *)
LEMMA StepsAreDistinct ==
  ASSUME NEW N \in Nat \ {0}, NEW f \in [1 .. N -> Nat],
         \A k \in 1 .. (N - 1) : f[k + 1] = f[k] + 1
  PROVE  \A k \in 1 .. N : f[k] = f[1] + k - 1
<1>. DEFINE Bad == {k \in 1 .. N : f[k] # f[1] + k - 1}
<1>1. SUFFICES ASSUME Bad # {} PROVE FALSE
  OBVIOUS
<1>2. PICK n \in Bad : \A m \in Bad : n <= m
  <2>1. Bad \in SUBSET Nat
    OBVIOUS
  <2>. HIDE DEF Bad
  <2>. QED BY <1>1, <2>1, LeastElement
<1>3. n # 1
  OBVIOUS
<1>4. n - 1 \in 1 .. (N - 1) /\ n - 1 \notin Bad
  BY <1>2, <1>3
<1>5. f[n] = f[n - 1] + 1 /\ f[n - 1] = f[1] + (n - 1) - 1
  BY <1>4
<1>. QED BY <1>5, <1>4

-----------------------------------------------------------------------------
(* The walk along prev_block from a stored header finds every ancestor. *)
LEMMA AncestorsStored ==
  ASSUME TypeOK, StoreSound, NEW h \in DOMAIN headers
  PROVE  \A k \in 0 .. Len(h) : SubSeq(h, 1, k) \in DOMAIN headers
<1>. DEFINE Bad == {m \in 0 .. Len(h) : SubSeq(h, 1, Len(h) - m) \notin DOMAIN headers}
<1>0. h \in Seq(Label) /\ Len(h) \in Nat
  BY HeaderAssumption DEF TypeOK
<1>1. SUFFICES Bad = {}
  <2>1. ASSUME Bad = {}, NEW k \in 0 .. Len(h) PROVE SubSeq(h, 1, k) \in DOMAIN headers
    <3>1. Len(h) - k \in 0 .. Len(h) /\ Len(h) - (Len(h) - k) = k
      BY <1>0
    <3>. QED BY <2>1, <3>1
  <2>. QED BY <2>1
<1>2. SUFFICES ASSUME Bad # {} PROVE FALSE
  OBVIOUS
<1>3. PICK m \in Bad : \A n \in Bad : m <= n
  <2>1. Bad \in SUBSET Nat
    OBVIOUS
  <2>. HIDE DEF Bad
  <2>. QED BY <1>2, <2>1, LeastElement
<1>4. m # 0
  <2>1. Len(h) - 0 = Len(h) /\ SubSeq(h, 1, Len(h)) = h
    BY <1>0, SubSeqFull
  <2>. QED BY <2>1
<1>5. m - 1 \in 0 .. Len(h) /\ m - 1 \notin Bad
  BY <1>0, <1>3, <1>4
<1>. DEFINE g == SubSeq(h, 1, Len(h) - m + 1)
<1>6. g \in DOMAIN headers
  <2>1. Len(h) - (m - 1) = Len(h) - m + 1
    BY <1>0, <1>5
  <2>. QED BY <1>5, <2>1
<1>7. g \in Seq(Label) /\ Len(g) = Len(h) - m + 1 /\ Len(h) - m + 1 \in 1 .. Len(h)
  <2>1. Len(h) - m + 1 \in 1 .. Len(h)
    BY <1>0, <1>4, <1>5
  <2>. QED BY <2>1, <1>0, PrefixFacts
<1>8. Parent(g) \in DOMAIN headers
  <2>1. g # Genesis
    <3>1. Len(g) # 0
      BY <1>7, <1>0
    <3>. QED BY <3>1, GenesisLen
  <2>. HIDE DEF g
  <2>. QED BY <1>6, <2>1 DEF StoreSound
<1>9. Parent(g) = SubSeq(h, 1, Len(h) - m)
  <2>1. Len(g) - 1 = Len(h) - m /\ Len(h) - m \in 0 .. (Len(h) - m + 1)
    BY <1>7, <1>0, <1>3
  <2>. QED BY <2>1, <1>0, <1>7, PrefixOfPrefix DEF Parent
<1>. QED BY <1>3, <1>8, <1>9

-----------------------------------------------------------------------------
(* A call that returns keeps nothing the invariant speaks about. *)
LEMMA ReturnedCallSound ==
  ASSUME NEW r \in Result
  PROVE  LET c == [Idle EXCEPT !.result = r] IN c \in Call /\ CallSound(c)
<1>. DEFINE c == [Idle EXCEPT !.result = r]
<1>0. << >> \in Seq(Row) /\ << >> \in Seq(Header) /\ Len(<< >>) = 0
  BY EmptySeq
<1>1. c = [op |-> "none", pc |-> "idle", batch |-> << >>, next |-> 1,
           accepted |-> << >>, promote |-> "none", upto |-> 0, result |-> r]
  BY DEF Idle
<1>. HIDE DEF c
<1>2. c \in Call
  BY <1>0, <1>1 DEF Call
<1>3. CallSound(c)
  BY <1>0, <1>1 DEF CallSound, RowsSound, RowSound
<1>. QED BY <1>2, <1>3 DEF c

(* What is sound of a call stays so while the tables stay. *)
LEMMA RowsKept ==
  ASSUME NEW v, NEW rows, call'[v].accepted = rows, UNCHANGED headers, RowsSound(rows)
  PROVE  RowsSound(call[v].accepted)'
<1>1. ASSUME NEW i \in 1 .. Len(rows) PROVE RowSound(call[v].accepted, i)'
  <2>1. RowSound(rows, i)
    BY DEF RowsSound
  <2>. QED BY <2>1 DEF RowSound
<1>. QED BY <1>1 DEF RowsSound

LEMMA CallKept ==
  ASSUME NEW v, NEW d, call'[v] = d, UNCHANGED headers, CallSound(d)
  PROVE  CallSound(call[v])'
<1>1. RowsSound(call[v].accepted)'
  <2>1. call'[v].accepted = d.accepted /\ RowsSound(d.accepted)
    BY DEF CallSound
  <2>. QED BY <2>1, RowsKept
<1>2. d.pc = "promote" \/ (d.pc = "decide" /\ d.op # "batch") => Stored(call[v].accepted)'
  BY DEF CallSound, Stored
<1>3. FromBatch(d) => FromBatch(call[v])'
  BY DEF FromBatch
<1>4. \A n : Contiguous(d.accepted, n) => Contiguous(call'[v].accepted, n)
  OBVIOUS
<1>. QED BY <1>1, <1>2, <1>3, <1>4 DEF CallSound

(* A step that only moves one call to a sound state keeps the invariant. *)
LEMMA LocalStep ==
  ASSUME IInv, NEW w \in Worker, NEW c \in Call, CallSound(c),
         call' = [call EXCEPT ![w] = c], UNCHANGED <<headers, canonical, best>>
  PROVE  IInv'
<1>1. call' \in [Worker -> Call]
  BY DEF IInv, TypeOK
<1>2. \A v \in Worker : CallSound(call'[v])
  BY DEF IInv, TypeOK
<1>3. ASSUME NEW v \in Worker PROVE CallSound(call[v])'
  <2>1. PICK d : call'[v] = d /\ CallSound(d)
    BY <1>2
  <2>. QED BY <2>1, CallKept
<1>. QED BY <1>1, <1>3 DEF IInv, TypeOK, HeightIsDepth, StoreSound

-----------------------------------------------------------------------------
LEMMA IdleFacts ==
  /\ Idle \in Call /\ CallSound(Idle)
  /\ Idle.next = 1 /\ Idle.promote = "none" /\ Idle.accepted = << >>
<1>1. Idle = [Idle EXCEPT !.result = "none"] /\ "none" \in Result
  BY DEF Idle, Result
<1>. QED BY <1>1, ReturnedCallSound DEF Idle

LEMMA InitInvariant == Init => IInv
<1>. SUFFICES ASSUME Init PROVE IInv
  OBVIOUS
<1>1. Idle \in Call /\ CallSound(Idle)
  BY IdleFacts
<1>2. DOMAIN headers = {} /\ DOMAIN canonical = {}
  BY DEF Init
<1>3. TypeOK
  BY <1>1, <1>2 DEF Init, TypeOK
<1>. QED BY <1>1, <1>2, <1>3 DEF Init, IInv, HeightIsDepth, StoreSound

LEMMA ReturnKeeps ==
  ASSUME IInv, NEW w \in Worker, NEW r \in Result, Return(w, r),
         UNCHANGED <<headers, canonical, best>>
  PROVE  IInv'
<1>. DEFINE c == [Idle EXCEPT !.result = r]
<1>1. c \in Call /\ CallSound(c)
  BY ReturnedCallSound
<1>2. call' = [call EXCEPT ![w] = c]
  BY DEF Return
<1>. HIDE DEF c
<1>. QED BY <1>1, <1>2, LocalStep

LEMMA VerdictFacts ==
  ASSUME NEW h, NEW S
  PROVE  /\ Verdict(h, S) \in Result
         /\ Verdict(h, S) = "Ok" => HasParentIn(h, S) /\ h \in ValidBits \cap ValidPow
<1>1. CASE ~HasParentIn(h, S)
  BY <1>1 DEF Verdict, Result
<1>2. CASE HasParentIn(h, S) /\ h \notin ValidBits
  BY <1>2 DEF Verdict, Result
<1>3. CASE HasParentIn(h, S) /\ h \in ValidBits /\ h \notin ValidPow
  BY <1>3 DEF Verdict, Result
<1>4. CASE HasParentIn(h, S) /\ h \in ValidBits /\ h \in ValidPow
  BY <1>4 DEF Verdict, Result
<1>. QED BY <1>1, <1>2, <1>3, <1>4

(* The row computed for a header whose parent is stored or pending. *)
LEMMA RowForFacts ==
  ASSUME TypeOK, HeightIsDepth, NEW rows \in Seq(Row), RowsSound(rows),
         NEW h \in Header, HasParentIn(h, DOMAIN headers \cup HashesOf(rows))
  PROVE  LET r == RowFor(h, rows)
         IN /\ r \in Row /\ r.hash = h /\ r.height = Len(h)
            /\ \/ /\ Parent(h) \in DOMAIN headers
                  /\ r.work = headers[Parent(h)].work + Work[h]
               \/ \E j \in 1 .. Len(rows) :
                    rows[j].hash = Parent(h) /\ r.work = rows[j].work + Work[h]
<1>0. /\ h \in Seq(Label) /\ h # Genesis /\ Work[h] \in Nat
      /\ Len(h) \in Nat \ {0} /\ Len(Parent(h)) = Len(h) - 1
  BY HeaderAssumption, WorkAssumption, ParentFacts DEF HasParentIn
<1>. DEFINE p == ParentRow(h, rows)
<1>1. /\ p.height = Len(Parent(h)) /\ p.work \in Nat
      /\ \/ Parent(h) \in DOMAIN headers /\ p.work = headers[Parent(h)].work
         \/ \E j \in 1 .. Len(rows) : rows[j].hash = Parent(h) /\ p.work = rows[j].work
  <2>1. CASE Parent(h) \in HashesOf(rows)
    <3>1. PICK i \in 1 .. Len(rows) : p = rows[i] /\ rows[i].hash = Parent(h)
      BY <2>1 DEF ParentRow, HashesOf
    <3>2. rows[i] \in Row
      BY ElementOfSeq
    <3>3. rows[i].height = Len(rows[i].hash)
      BY DEF RowsSound, RowSound
    <3>. QED BY <3>1, <3>2, <3>3 DEF Row
  <2>2. CASE Parent(h) \notin HashesOf(rows)
    <3>1. Parent(h) \in DOMAIN headers
      BY <2>2 DEF HasParentIn
    <3>2. p = [hash |-> Parent(h), height |-> headers[Parent(h)].height,
               work |-> headers[Parent(h)].work]
      BY <2>2 DEF ParentRow
    <3>3. headers[Parent(h)] \in [height : Nat, work : Nat]
      BY <3>1 DEF TypeOK
    <3>4. headers[Parent(h)].height = Len(Parent(h))
      BY <3>1 DEF HeightIsDepth
    <3>. QED BY <3>1, <3>2, <3>3, <3>4
  <2>. QED BY <2>1, <2>2
<1>2. RowFor(h, rows) = [hash |-> h, height |-> p.height + 1, work |-> p.work + Work[h]]
  BY DEF RowFor
<1>. HIDE DEF p
<1>3. /\ RowFor(h, rows) \in Row /\ RowFor(h, rows).hash = h /\ RowFor(h, rows).height = Len(h)
      /\ RowFor(h, rows).work = p.work + Work[h]
  BY <1>0, <1>1, <1>2 DEF Row
<1>. QED BY <1>1, <1>3

-----------------------------------------------------------------------------
(* One lemma per action: it keeps the invariant. *)
LEMMA BeginGenesisKeeps ==
  ASSUME IInv, NEW w \in Worker, BeginGenesis(w)
  PROVE  IInv'
<1>. DEFINE c == [Idle EXCEPT !.op = "genesis", !.pc = "put", !.accepted = <<GenesisRow>>,
                              !.promote = "replace", !.upto = 1]
<1>2. GenesisRow \in Row
  BY HeaderAssumption, WorkAssumption DEF GenesisRow, Row
<1>1. /\ c.pc = "put" /\ c.accepted = <<GenesisRow>> /\ c.promote = "replace" /\ c.upto = 1
      /\ c.op = "genesis"
  BY IdleFacts DEF Call
<1>3. c \in Call
  <2>1. <<GenesisRow>> \in Seq(Row)
    BY <1>2
  <2>. QED BY <2>1, IdleFacts DEF Call
<1>4. RowsSound(<<GenesisRow>>)
  <2>1. Len(<<GenesisRow>>) = 1 /\ <<GenesisRow>>[1] = GenesisRow
    OBVIOUS
  <2>2. RowSound(<<GenesisRow>>, 1)
    BY <2>1, GenesisLen DEF RowSound, GenesisRow
  <2>. QED BY <2>1, <2>2 DEF RowsSound
<1>5. CallSound(c)
  BY <1>1, <1>4 DEF CallSound
<1>6. call' = [call EXCEPT ![w] = c] /\ UNCHANGED <<headers, canonical, best>>
  BY DEF BeginGenesis
<1>. HIDE DEF c
<1>. QED BY <1>3, <1>5, <1>6, LocalStep

LEMMA BeginHeaderKeeps ==
  ASSUME IInv, NEW w \in Worker, NEW h \in Singles, BeginHeader(w, h)
  PROVE  IInv'
<1>. DEFINE r == RowFor(h, << >>)
            c == [Idle EXCEPT !.op = "header", !.pc = "put", !.accepted = <<r>>]
<1>0. h \in Header /\ UNCHANGED <<headers, canonical, best>>
  BY InputAssumption DEF BeginHeader
<1>1. CASE Verdict(h, DOMAIN headers) # "Ok"
  <2>1. Return(w, Verdict(h, DOMAIN headers))
    BY <1>1 DEF BeginHeader
  <2>. QED BY <1>0, <2>1, VerdictFacts, ReturnKeeps
<1>2. CASE Verdict(h, DOMAIN headers) = "Ok"
  <2>1. HasParentIn(h, DOMAIN headers) /\ h \in ValidBits \cap ValidPow
    BY <1>2, VerdictFacts
  <2>2. << >> \in Seq(Row) /\ RowsSound(<< >>) /\ HashesOf(<< >>) = {}
    BY DEF RowsSound, HashesOf
  <2>3. /\ r \in Row /\ r.hash = h /\ r.height = Len(h)
        /\ Parent(h) \in DOMAIN headers /\ r.work = headers[Parent(h)].work + Work[h]
    <3>1. HasParentIn(h, DOMAIN headers \cup HashesOf(<< >>))
      BY <2>1, <2>2
    <3>2. ~ \E j \in 1 .. Len(<< >>) : TRUE
      OBVIOUS
    <3>. QED BY <1>0, <2>2, <3>1, <3>2, RowForFacts DEF IInv
  <2>. HIDE DEF r
  <2>4. /\ c.op = "header" /\ c.pc = "put" /\ c.accepted = <<r>> /\ c.promote = "none"
    BY IdleFacts DEF Call
  <2>5. c \in Call
    <3>1. <<r>> \in Seq(Row)
      BY <2>3
    <3>. QED BY <3>1, IdleFacts DEF Call
  <2>6. RowsSound(<<r>>)
    <3>1. Len(<<r>>) = 1 /\ <<r>>[1] = r
      OBVIOUS
    <3>2. RowSound(<<r>>, 1)
      BY <2>1, <2>3, <3>1 DEF RowSound, HasParentIn
    <3>. QED BY <3>1, <3>2 DEF RowsSound
  <2>7. CallSound(c)
    BY <2>4, <2>6 DEF CallSound
  <2>8. call' = [call EXCEPT ![w] = c]
    BY <1>2 DEF BeginHeader, r
  <2>. HIDE DEF c
  <2>. QED BY <1>0, <2>5, <2>7, <2>8, LocalStep
<1>. QED BY <1>1, <1>2

LEMMA BeginBatchKeeps ==
  ASSUME IInv, NEW w \in Worker, NEW b \in Batches, BeginBatch(w, b)
  PROVE  IInv'
<1>. DEFINE c == [Idle EXCEPT !.op = "batch", !.pc = "validate", !.batch = b]
<1>1. c.op = "batch" /\ c.pc = "validate" /\ c.accepted = << >>
  BY IdleFacts DEF Call
<1>2. c \in Call
  BY IdleFacts, InputAssumption DEF Call
<1>3. CallSound(c)
  <2>1. RowsSound(<< >>) /\ Len(<< >>) = 0
    BY DEF RowsSound
  <2>. QED BY <1>1, <2>1 DEF CallSound, FromBatch
<1>4. call' = [call EXCEPT ![w] = c] /\ UNCHANGED <<headers, canonical, best>>
  BY DEF BeginBatch
<1>. HIDE DEF c
<1>. QED BY <1>2, <1>3, <1>4, LocalStep

LEMMA ValidateSkipKeeps ==
  ASSUME IInv, NEW w \in Worker, ValidateSkip(w)
  PROVE  IInv'
<1>. DEFINE c == [call[w] EXCEPT !.next = @ + 1]
<1>0. call[w] \in Call /\ CallSound(call[w]) /\ call[w].pc = "validate"
  BY DEF IInv, TypeOK, ValidateSkip
<1>1. c \in Call /\ c.next = call[w].next + 1
  <2>1. call[w].next + 1 \in Nat
    BY <1>0 DEF Call
  <2>. QED BY <1>0, <2>1 DEF Call
<1>2. /\ c.pc = "validate" /\ c.accepted = call[w].accepted /\ c.batch = call[w].batch
      /\ c.op = call[w].op /\ call[w].next \in Nat
  BY <1>0 DEF Call
<1>. HIDE DEF c
<1>3. CallSound(c)
  BY <1>0, <1>1, <1>2 DEF CallSound, FromBatch
<1>4. call' = [call EXCEPT ![w] = c] /\ UNCHANGED <<headers, canonical, best>>
  BY <1>0 DEF ValidateSkip, c, IInv, TypeOK
<1>. QED BY <1>1, <1>3, <1>4, LocalStep

LEMMA ValidateEndKeeps ==
  ASSUME IInv, NEW w \in Worker, ValidateEnd(w)
  PROVE  IInv'
<1>. DEFINE c == [call[w] EXCEPT !.pc = "decide"]
<1>0. /\ call[w] \in Call /\ CallSound(call[w]) /\ call[w].pc = "validate"
      /\ UNCHANGED <<headers, canonical, best>>
  BY DEF IInv, TypeOK, ValidateEnd
<1>1. CASE call[w].accepted = << >>
  <2>1. Return(w, "Ok") /\ "Ok" \in Result
    BY <1>1 DEF ValidateEnd, Result
  <2>. QED BY <1>0, <2>1, ReturnKeeps
<1>2. CASE call[w].accepted # << >>
  <2>1. /\ c \in Call /\ c.pc = "decide" /\ c.accepted = call[w].accepted
        /\ c.op = call[w].op
    BY <1>0 DEF Call
  <2>2. call' = [call EXCEPT ![w] = c]
    BY <1>0, <1>2 DEF ValidateEnd, IInv, TypeOK
  <2>. HIDE DEF c
  <2>3. CallSound(c)
    BY <1>0, <1>2, <2>1 DEF CallSound
  <2>. QED BY <1>0, <2>1, <2>2, <2>3, LocalStep
<1>. QED BY <1>1, <1>2

(* A new row with a stored or earlier parent may join the accepted rows. *)
LEMMA AppendedRowsSound ==
  ASSUME NEW rows \in Seq(Row), RowsSound(rows), NEW r \in Row,
         r.height = Len(r.hash), r.hash # Genesis, r.hash \in ValidBits \cap ValidPow,
         \/ /\ Parent(r.hash) \in DOMAIN headers
            /\ r.work = headers[Parent(r.hash)].work + Work[r.hash]
         \/ \E j \in 1 .. Len(rows) :
              rows[j].hash = Parent(r.hash) /\ r.work = rows[j].work + Work[r.hash],
         r.hash \notin HashesOf(rows)
  PROVE  RowsSound(Append(rows, r))
<1>. DEFINE new == Append(rows, r)
<1>1. /\ Len(rows) \in Nat /\ Len(new) = Len(rows) + 1 /\ new[Len(rows) + 1] = r
      /\ \A i \in 1 .. Len(rows) : new[i] = rows[i]
  BY AppendProperties, LenProperties
<1>. HIDE DEF new
<1>2. ASSUME NEW i \in 1 .. Len(rows) PROVE RowSound(new, i)
  <2>1. RowSound(rows, i)
    BY DEF RowsSound
  <2>2. new[i] = rows[i] /\ \A j \in 1 .. (i - 1) : new[j] = rows[j]
    BY <1>1
  <2>. QED BY <2>1, <2>2 DEF RowSound
<1>3. RowSound(new, Len(rows) + 1)
  BY <1>1 DEF RowSound
<1>4. \A i \in 1 .. Len(new) : RowSound(new, i)
  BY <1>1, <1>2, <1>3
<1>5. ASSUME NEW i \in 1 .. Len(new), NEW j \in 1 .. Len(new), new[i].hash = new[j].hash
      PROVE  i = j
  <2>1. \A k \in 1 .. Len(rows) : rows[k].hash # r.hash
    BY DEF HashesOf
  <2>2. \A k, l \in 1 .. Len(rows) : rows[k].hash = rows[l].hash => k = l
    BY DEF RowsSound
  <2>. QED BY <1>1, <1>5, <2>1, <2>2
<1>. QED BY <1>4, <1>5 DEF RowsSound, new

LEMMA ValidateNewKeeps ==
  ASSUME IInv, NEW w \in Worker, ValidateNew(w)
  PROVE  IInv'
<1>. DEFINE h == call[w].batch[call[w].next]
            rows == call[w].accepted
            v == Verdict(h, DOMAIN headers \cup HashesOf(rows))
            r == RowFor(h, rows)
            c == [call[w] EXCEPT !.next = @ + 1, !.accepted = Append(rows, r)]
<1>0. /\ call[w] \in Call /\ CallSound(call[w]) /\ call[w].pc = "validate"
      /\ UNCHANGED <<headers, canonical, best>> /\ ~Seen(w, h)
      /\ call[w].next <= Len(call[w].batch)
  BY DEF IInv, TypeOK, ValidateNew
<1>1. /\ rows \in Seq(Row) /\ RowsSound(rows) /\ FromBatch(call[w])
      /\ call[w].next \in Nat \ {0} /\ call[w].batch \in Seq(Header)
  BY <1>0 DEF Call, CallSound
<1>2. h \in Header
  BY <1>0, <1>1, ElementOfSeq
<1>3. CASE v # "Ok"
  <2>1. Return(w, v)
    BY <1>3 DEF ValidateNew
  <2>2. v \in Result
    BY VerdictFacts
  <2>. HIDE DEF v
  <2>. QED BY <1>0, <2>1, <2>2, ReturnKeeps
<1>4. CASE v = "Ok"
  <2>1. HasParentIn(h, DOMAIN headers \cup HashesOf(rows)) /\ h \in ValidBits \cap ValidPow
    BY <1>4, VerdictFacts
  <2>2. /\ r \in Row /\ r.hash = h /\ r.height = Len(h)
        /\ \/ /\ Parent(h) \in DOMAIN headers
              /\ r.work = headers[Parent(h)].work + Work[h]
           \/ \E j \in 1 .. Len(rows) :
                rows[j].hash = Parent(h) /\ r.work = rows[j].work + Work[h]
    BY <1>1, <1>2, <2>1, RowForFacts DEF IInv
  <2>3. h \notin HashesOf(rows)
    BY <1>0, <1>1 DEF FromBatch, HashesOf, Seen
  <2>4. call' = [call EXCEPT ![w] = c]
    BY <1>0, <1>4 DEF ValidateNew, IInv, TypeOK
  <2>. HIDE DEF r
  <2>5. Append(rows, r) \in Seq(Row)
    <3>1. rows \in Seq(Row)
      BY <1>1
    <3>. HIDE DEF rows
    <3>. QED BY <2>2, <3>1, AppendProperties
  <2>6. /\ c \in Call /\ c.next = call[w].next + 1 /\ c.accepted = Append(rows, r)
        /\ c.pc = "validate" /\ c.op = call[w].op /\ c.batch = call[w].batch
    <3>. DEFINE m == call[w].next + 1
                new == Append(rows, r)
    <3>1. m \in Nat \ {0} /\ new \in Seq(Row)
      BY <1>1, <2>5
    <3>2. c = [call[w] EXCEPT !.next = m, !.accepted = new]
      OBVIOUS
    <3>. HIDE DEF m, new, c
    <3>3. /\ c \in Call /\ c.next = m /\ c.accepted = new
          /\ c.pc = call[w].pc /\ c.op = call[w].op /\ c.batch = call[w].batch
      BY <1>0, <3>1, <3>2 DEF Call
    <3>. QED BY <1>0, <3>3 DEF m, new
  <2>. HIDE DEF c
  <2>7. RowsSound(Append(rows, r))
    <3>1. h # Genesis
      BY <2>1 DEF HasParentIn
    <3>. HIDE DEF h, rows
    <3>. QED BY <1>1, <2>1, <2>2, <2>3, <3>1, AppendedRowsSound
  <2>8. FromBatch(c)
    <3>1. SUFFICES ASSUME NEW i \in 1 .. Len(Append(rows, r))
                   PROVE  \E j \in 1 .. call[w].next :
                            Append(rows, r)[i].hash = call[w].batch[j]
      BY <1>1, <2>6 DEF FromBatch
    <3>2. CASE i = Len(rows) + 1
      <4>1. Append(rows, r)[i] = r
        <5>1. rows \in Seq(Row)
          BY <1>1
        <5>2. r \in Row
          BY <2>2
        <5>. HIDE DEF rows, r, h
        <5>3. Append(rows, r)[Len(rows) + 1] = r
          BY <5>1, <5>2, AppendProperties
        <5>. QED BY <3>2, <5>3
      <4>2. r.hash = call[w].batch[call[w].next]
        BY <2>2
      <4>3. call[w].next \in 1 .. call[w].next
        BY <1>1
      <4>. HIDE DEF rows, r, h
      <4>. QED BY <4>1, <4>2, <4>3
    <3>3. CASE i # Len(rows) + 1
      <4>. HIDE DEF rows
      <4>1. /\ Len(rows) \in Nat /\ Len(Append(rows, r)) = Len(rows) + 1
            /\ \A k \in 1 .. Len(rows) : Append(rows, r)[k] = rows[k]
        BY <1>1, <2>2, AppendProperties, LenProperties
      <4>2. i \in 1 .. Len(rows) /\ Append(rows, r)[i] = rows[i]
        BY <3>3, <4>1
      <4>. USE DEF rows
      <4>. QED BY <1>1, <4>2 DEF FromBatch
    <3>. QED BY <3>2, <3>3
  <2>9. CallSound(c)
    BY <1>0, <2>6, <2>7, <2>8 DEF CallSound
  <2>. QED BY <1>0, <2>4, <2>6, <2>9, LocalStep
<1>. QED BY <1>3, <1>4

LEMMA DecideKeeps ==
  ASSUME IInv, NEW w \in Worker, Decide(w)
  PROVE  IInv'
<1>. DEFINE rows == call[w].accepted
            n == BestIndex(rows)
<1>0. /\ call[w] \in Call /\ CallSound(call[w]) /\ call[w].pc = "decide"
      /\ UNCHANGED <<headers, canonical, best>>
  BY DEF IInv, TypeOK, Decide
<1>1. rows \in Seq(Row) /\ rows # << >> /\ RowsSound(rows)
  BY <1>0 DEF Call, CallSound
<1>2. n \in 1 .. Len(rows)
  BY <1>1, BestIndexRange
<1>3. PICK b \in BestReads :
        LET how == Promotion(b, rows)
        IN IF call[w].op = "batch"
           THEN call' = [call EXCEPT ![w].pc = "put", ![w].promote = how, ![w].upto = n]
           ELSE IF how = "none"
           THEN Return(w, "Ok")
           ELSE call' = [call EXCEPT ![w].pc = "promote", ![w].promote = how, ![w].upto = n]
  BY DEF Decide
<1>. DEFINE how == Promotion(b, rows)
<1>4. how \in {"none", "tips", "replace"} /\ (how = "tips" => Contiguous(rows, n))
  BY DEF Promotion, ExtendsBest
<1>5. ASSUME NEW pc \in {"put", "promote"},
             pc = "promote" => Stored(rows) /\ how # "none",
             call' = [call EXCEPT ![w].pc = pc, ![w].promote = how, ![w].upto = n]
      PROVE  IInv'
  <2>. DEFINE c == [call[w] EXCEPT !.pc = pc, !.promote = how, !.upto = n]
  <2>. HIDE DEF how, n
  <2>1. n \in Nat
    BY <1>1, <1>2
  <2>2. /\ c \in Call /\ c.pc = pc /\ c.promote = how /\ c.upto = n /\ c.accepted = rows
    BY <1>0, <1>4, <2>1 DEF Call
  <2>3. call' = [call EXCEPT ![w] = c]
    BY <1>0, <1>5 DEF IInv, TypeOK
  <2>. HIDE DEF c
  <2>4. CallSound(c)
    BY <1>1, <1>2, <1>4, <1>5, <2>2 DEF CallSound
  <2>. QED BY <1>0, <2>2, <2>3, <2>4, LocalStep
<1>6. CASE call[w].op = "batch"
  BY <1>3, <1>5, <1>6
<1>7. CASE call[w].op # "batch" /\ how = "none"
  BY <1>0, <1>3, <1>7, ReturnKeeps DEF Result
<1>8. CASE call[w].op # "batch" /\ how # "none"
  <2>1. Stored(rows)
    BY <1>0, <1>8 DEF CallSound
  <2>. QED BY <1>3, <1>5, <1>8, <2>1
<1>. QED BY <1>6, <1>7, <1>8

(* More stored headers take nothing from what a call knows. *)
LEMMA GrowthKeepsCalls ==
  ASSUME TypeOK, NEW c \in Call, CallSound(c), DOMAIN headers \subseteq DOMAIN headers',
         \A h \in DOMAIN headers : headers'[h] = headers[h]
  PROVE  CallSound(c)'
<1>1. \A i \in 1 .. Len(c.accepted) : RowSound(c.accepted, i)'
  BY DEF CallSound, RowsSound, RowSound, Parent
<1>2. RowsSound(c.accepted)'
  BY <1>1 DEF CallSound, RowsSound
<1>3. Stored(c.accepted) => Stored(c.accepted)'
  BY DEF Stored
<1>. QED BY <1>2, <1>3 DEF CallSound, FromBatch, Contiguous, HasParentIn, Parent

(* A committed put adds the accepted rows, and with them a sound subtree. *)
LEMMA PutStore ==
  ASSUME IInv, NEW rows \in Seq(Row), RowsSound(rows),
         HashesOf(rows) \cap DOMAIN headers = {},
         StoreRows(rows)
  PROVE  /\ DOMAIN headers \subseteq DOMAIN headers'
         /\ \A h \in DOMAIN headers : headers'[h] = headers[h]
         /\ DOMAIN headers' \subseteq Header
         /\ headers' \in [DOMAIN headers' -> [height : Nat, work : Nat]]
         /\ HeightIsDepth' /\ StoreSound' /\ Stored(rows)'
<1>. DEFINE new == HashesOf(rows)
<1>1. \A i \in 1 .. Len(rows) :
        /\ rows[i] \in Row /\ rows[i].hash \in new
        /\ RowOf(rows, rows[i].hash) = rows[i]
  <2>1. ASSUME NEW i \in 1 .. Len(rows) PROVE RowOf(rows, rows[i].hash) = rows[i]
    <3>1. \A j \in 1 .. Len(rows) : rows[j].hash = rows[i].hash => j = i
      BY DEF RowsSound
    <3>. QED BY <3>1 DEF RowOf
  <2>2. \A i \in 1 .. Len(rows) : rows[i] \in Row /\ rows[i].hash \in HashesOf(rows)
    BY ElementOfSeq DEF HashesOf
  <2>. QED BY <2>1, <2>2
<1>2. \A h \in new : \E i \in 1 .. Len(rows) : rows[i].hash = h
  BY DEF HashesOf
<1>. HIDE DEF new
<1>3. DOMAIN headers' = DOMAIN headers \cup new
  BY DEF new, StoreRows
<1>4. \A h \in DOMAIN headers : headers'[h] = headers[h]
  BY <1>3 DEF new, StoreRows
<1>5. \A i \in 1 .. Len(rows) :
        headers'[rows[i].hash] = [height |-> rows[i].height, work |-> rows[i].work]
  BY <1>1, <1>3 DEF new, StoreRows
<1>6. \A h \in DOMAIN headers : h \in Header /\ headers[h] \in [height : Nat, work : Nat]
  BY DEF IInv, TypeOK
<1>7. \A h \in DOMAIN headers' : h \in Header /\ headers'[h] \in [height : Nat, work : Nat]
  <2>1. ASSUME NEW h \in new PROVE h \in Header /\ headers'[h] \in [height : Nat, work : Nat]
    <3>1. PICK i \in 1 .. Len(rows) : rows[i].hash = h
      BY <1>2
    <3>2. rows[i] \in Row /\ headers'[h] = [height |-> rows[i].height, work |-> rows[i].work]
      BY <1>1, <1>5, <3>1
    <3>. QED BY <3>1, <3>2 DEF Row
  <2>. QED BY <1>3, <1>4, <1>6, <2>1
<1>8. headers' \in [DOMAIN headers' -> [height : Nat, work : Nat]]
  <2>1. headers' = [h \in DOMAIN headers' |-> headers'[h]]
    BY <1>3 DEF new, StoreRows
  <2>. QED BY <1>7, <2>1
<1>9. \A h \in DOMAIN headers' : headers'[h].height = Len(h)
  <2>1. \A i \in 1 .. Len(rows) : rows[i].height = Len(rows[i].hash)
    BY DEF RowsSound, RowSound
  <2>2. ASSUME NEW h \in new PROVE headers'[h].height = Len(h)
    <3>1. PICK i \in 1 .. Len(rows) : rows[i].hash = h
      BY <1>2
    <3>2. headers'[h] = [height |-> rows[i].height, work |-> rows[i].work]
      BY <1>5, <3>1
    <3>. QED BY <2>1, <3>1, <3>2
  <2>. QED BY <1>3, <1>4, <2>2 DEF IInv, HeightIsDepth
<1>10. Stored(rows)'
  BY <1>1, <1>3, <1>5 DEF Stored
<1>11. ASSUME NEW h \in DOMAIN headers'
       PROVE  IF h = Genesis
              THEN headers'[h] = [height |-> 0, work |-> Work[h]]
              ELSE /\ h \in ValidBits \cap ValidPow
                   /\ Parent(h) \in DOMAIN headers'
                   /\ headers'[h] = [height |-> headers'[Parent(h)].height + 1,
                                     work |-> headers'[Parent(h)].work + Work[h]]
  <2>1. CASE h \in DOMAIN headers
    BY <1>3, <1>4, <2>1 DEF IInv, StoreSound
  <2>2. CASE h \in new
    <3>1. PICK i \in 1 .. Len(rows) : rows[i].hash = h
      BY <1>2, <2>2
    <3>2. RowSound(rows, i)
      BY DEF RowsSound
    <3>3. CASE h = Genesis
      <4>1. rows[i].height = 0 /\ rows[i].work = Work[h]
        BY <3>1, <3>2, <3>3, GenesisLen DEF RowSound
      <4>. QED BY <1>5, <3>1, <3>3, <4>1
    <3>4. CASE h # Genesis
      <4>1. h \in ValidBits \cap ValidPow
        BY <3>1, <3>2, <3>4 DEF RowSound
      <4>2. Parent(h) \in DOMAIN headers' /\ rows[i].work = headers'[Parent(h)].work + Work[h]
        <5>1. CASE /\ Parent(h) \in DOMAIN headers
                   /\ rows[i].work = headers[Parent(h)].work + Work[h]
          BY <1>3, <1>4, <5>1
        <5>2. CASE \E j \in 1 .. (i - 1) :
                     rows[j].hash = Parent(h) /\ rows[i].work = rows[j].work + Work[h]
          <6>1. PICK j \in 1 .. (i - 1) :
                  rows[j].hash = Parent(h) /\ rows[i].work = rows[j].work + Work[h]
            BY <5>2
          <6>2. j \in 1 .. Len(rows)
            BY LenProperties
          <6>3. headers'[rows[j].hash] = [height |-> rows[j].height, work |-> rows[j].work]
            BY <1>5, <6>2
          <6>. QED BY <1>1, <1>3, <6>1, <6>2, <6>3
        <5>. QED BY <3>1, <3>2, <3>4, <5>1, <5>2 DEF RowSound
      <4>3. rows[i].height = headers'[Parent(h)].height + 1
        <5>1. h \in Seq(Label) /\ rows[i].height = Len(h)
          BY <1>7, <3>1, <3>2, HeaderAssumption DEF RowSound
        <5>2. headers'[Parent(h)].height = Len(Parent(h))
          BY <1>9, <4>2
        <5>. QED BY <3>4, <5>1, <5>2, ParentFacts
      <4>. QED BY <1>5, <3>1, <3>4, <4>1, <4>2, <4>3
    <3>. QED BY <3>3, <3>4
  <2>. QED BY <1>3, <2>1, <2>2
<1>. QED BY <1>3, <1>4, <1>7, <1>8, <1>9, <1>10, <1>11 DEF HeightIsDepth, StoreSound, Parent, Genesis

LEMMA PutKeeps ==
  ASSUME IInv, NEW w \in Worker, Put(w)
  PROVE  IInv'
<1>0. /\ call[w] \in Call /\ CallSound(call[w]) /\ call[w].pc = "put"
      /\ UNCHANGED <<canonical, best>>
  BY DEF IInv, TypeOK, Put
<1>1. PICK rows \in Seq(Row) : rows = call[w].accepted
  BY <1>0 DEF Call
<1>4. rows # << >> /\ RowsSound(rows)
  BY <1>0, <1>1 DEF CallSound
<1>2. CASE HashesOf(rows) \cap DOMAIN headers # {}
  <2>1. Return(w, "DuplicateHeader") /\ UNCHANGED headers /\ "DuplicateHeader" \in Result
    BY <1>1, <1>2 DEF Put, Result
  <2>. QED BY <1>0, <2>1, ReturnKeeps
<1>3. CASE HashesOf(rows) \cap DOMAIN headers = {}
  <2>1. StoreRows(rows)
    BY <1>1, <1>3 DEF Put
  <2>2. /\ DOMAIN headers \subseteq DOMAIN headers'
        /\ \A h \in DOMAIN headers : headers'[h] = headers[h]
        /\ DOMAIN headers' \subseteq Header
        /\ headers' \in [DOMAIN headers' -> [height : Nat, work : Nat]]
        /\ HeightIsDepth' /\ StoreSound' /\ Stored(rows)'
    BY <1>3, <1>4, <2>1, PutStore
  <2>3. ASSUME NEW c \in Call, CallSound(c)', call' = [call EXCEPT ![w] = c]
        PROVE  IInv'
    <3>1. call' \in [Worker -> Call]
      BY <2>3 DEF IInv, TypeOK
    <3>2. TypeOK'
      BY <1>0, <2>2, <3>1 DEF IInv, TypeOK
    <3>3. ASSUME NEW v \in Worker PROVE CallSound(call[v])'
      <4>1. CASE v = w
        <5>1. call'[v] = c
          BY <2>3, <4>1 DEF IInv, TypeOK
        <5>. QED BY <2>3, <5>1 DEF CallSound
      <4>2. CASE v # w
        <5>1. PICK d \in Call : d = call[v] /\ CallSound(d)
          BY DEF IInv, TypeOK
        <5>2. call'[v] = d
          BY <2>3, <4>2, <5>1 DEF IInv, TypeOK
        <5>3. CallSound(d)'
          BY <2>2, <5>1, GrowthKeepsCalls DEF IInv
        <5>. QED BY <5>2, <5>3 DEF CallSound
      <4>. QED BY <4>1, <4>2
    <3>. QED BY <2>2, <3>2, <3>3 DEF IInv
  <2>5. PICK k \in Call : k = call[w]
    BY <1>0
  <2>6. CallSound(k)'
    BY <1>0, <2>2, <2>5, GrowthKeepsCalls DEF IInv
  <2>7. k.accepted = rows /\ k.pc = "put"
    BY <1>0, <1>1, <2>5
  <2>8. ASSUME NEW pc \in {"decide", "promote"}, call' = [call EXCEPT ![w].pc = pc],
               pc = "promote" => k.promote # "none"
        PROVE  IInv'
    <3>. DEFINE c == [k EXCEPT !.pc = pc]
    <3>1. /\ c \in Call /\ c.pc = pc /\ c.accepted = rows /\ c.promote = k.promote
          /\ c.upto = k.upto /\ c.op = k.op
      BY <2>7 DEF Call
    <3>2. call' = [call EXCEPT ![w] = c]
      BY <2>5, <2>8
    <3>. HIDE DEF c
    <3>3. CallSound(c)'
      BY <2>2, <2>6, <2>7, <2>8, <3>1 DEF CallSound
    <3>. QED BY <2>3, <3>1, <3>2, <3>3
  <2>9. CASE call[w].op = "header"
    BY <1>1, <1>3, <2>8, <2>9 DEF Put
  <2>10. CASE call[w].op # "header" /\ call[w].promote # "none"
    BY <1>1, <1>3, <2>5, <2>8, <2>10 DEF Put
  <2>11. CASE call[w].op # "header" /\ call[w].promote = "none"
    <3>. DEFINE c == [Idle EXCEPT !.result = "Ok"]
    <3>1. PICK d \in Call : d = c /\ CallSound(d)
      BY ReturnedCallSound DEF Result
    <3>2. call' = [call EXCEPT ![w] = d]
      BY <1>1, <1>3, <2>11, <3>1 DEF Put, Return
    <3>3. CallSound(d)'
      BY <2>2, <3>1, GrowthKeepsCalls DEF IInv
    <3>. QED BY <2>3, <3>2, <3>3
  <2>. QED BY <2>9, <2>10, <2>11
<1>. QED BY <1>2, <1>3

(* A promotion changes no stored header and ends its call. *)
LEMMA PromotionStep ==
  ASSUME IInv, NEW w \in Worker, Return(w, "Ok"), UNCHANGED headers,
         DOMAIN canonical' \subseteq Nat,
         canonical' \in [DOMAIN canonical' -> DOMAIN headers],
         best' \in DOMAIN headers
  PROVE  IInv'
<1>. DEFINE c == [Idle EXCEPT !.result = "Ok"]
<1>1. c \in Call /\ CallSound(c)
  BY ReturnedCallSound DEF Result
<1>2. call' = [call EXCEPT ![w] = c]
  BY DEF Return
<1>. HIDE DEF c
<1>3. TypeOK'
  BY <1>1, <1>2 DEF IInv, TypeOK
<1>4. ASSUME NEW v \in Worker PROVE CallSound(call[v])'
  <2>1. CallSound(call'[v])
    BY <1>1, <1>2 DEF IInv, TypeOK
  <2>. QED BY <2>1 DEF CallSound, RowsSound, RowSound, Stored, FromBatch, Contiguous,
                       HasParentIn, Parent
<1>. QED BY <1>3, <1>4 DEF IInv, HeightIsDepth, StoreSound

LEMMA PlanFacts ==
  ASSUME IInv, NEW w \in Worker, call[w].pc = "promote"
  PROVE  /\ call[w].accepted \in Seq(Row) /\ Stored(call[w].accepted)
         /\ call[w].upto \in 1 .. Len(call[w].accepted)
         /\ call[w].promote = "tips" => Contiguous(call[w].accepted, call[w].upto)
         /\ \A i \in 1 .. Len(call[w].accepted) :
              /\ call[w].accepted[i].height \in Nat
              /\ call[w].accepted[i].height = Len(call[w].accepted[i].hash)
              /\ call[w].accepted[i].hash \in DOMAIN headers
              /\ headers[call[w].accepted[i].hash].work = call[w].accepted[i].work
<1>1. call[w] \in Call /\ CallSound(call[w])
  BY DEF IInv, TypeOK
<1>2. call[w].accepted \in Seq(Row) /\ Stored(call[w].accepted)
  BY <1>1 DEF Call, CallSound
<1>3. \A i \in 1 .. Len(call[w].accepted) : call[w].accepted[i] \in Row
  BY <1>2, ElementOfSeq
<1>4. \A i \in 1 .. Len(call[w].accepted) :
         call[w].accepted[i].height = Len(call[w].accepted[i].hash)
  BY <1>1 DEF CallSound, RowsSound, RowSound
<1>5. \A i \in 1 .. Len(call[w].accepted) :
        /\ call[w].accepted[i].hash \in DOMAIN headers
        /\ headers[call[w].accepted[i].hash].work = call[w].accepted[i].work
  <2>1. PICK rows : rows = call[w].accepted
    OBVIOUS
  <2>2. \A i \in 1 .. Len(rows) :
          /\ rows[i].hash \in DOMAIN headers
          /\ headers[rows[i].hash] = [height |-> rows[i].height, work |-> rows[i].work]
    BY <1>2, <2>1 DEF Stored
  <2>3. ASSUME NEW i \in 1 .. Len(rows) PROVE headers[rows[i].hash].work = rows[i].work
    <3>1. headers[rows[i].hash] = [height |-> rows[i].height, work |-> rows[i].work]
      BY <2>2
    <3>. QED BY <3>1
  <2>. QED BY <2>1, <2>2, <2>3
<1>6. \A i \in 1 .. Len(call[w].accepted) : call[w].accepted[i].height \in Nat
  BY <1>3 DEF Row
<1>7. /\ call[w].upto \in 1 .. Len(call[w].accepted)
      /\ call[w].promote = "tips" => Contiguous(call[w].accepted, call[w].upto)
  BY <1>1 DEF CallSound
<1>. QED BY <1>2, <1>4, <1>5, <1>6, <1>7

LEMMA PromoteTipsKeeps ==
  ASSUME IInv, NEW w \in Worker, PromoteTips(w)
  PROVE  IInv'
<1>. DEFINE rows == call[w].accepted
            n == call[w].upto
            heights == {rows[i].height : i \in 1 .. n}
<1>1. /\ n \in 1 .. Len(rows) /\ Len(rows) \in Nat
      /\ \A i \in 1 .. Len(rows) : rows[i].height \in Nat /\ rows[i].hash \in DOMAIN headers
  BY PlanFacts, LenProperties DEF PromoteTips
<1>2. canonical' = [k \in DOMAIN canonical \cup heights |->
                      IF k \in heights
                      THEN rows[CHOOSE i \in 1 .. n : rows[i].height = k].hash
                      ELSE canonical[k]]
  BY DEF PromoteTips
<1>3. \A k \in heights :
        rows[CHOOSE i \in 1 .. n : rows[i].height = k].hash \in DOMAIN headers
  <2>1. ASSUME NEW k \in heights
        PROVE  (CHOOSE i \in 1 .. n : rows[i].height = k) \in 1 .. n
    OBVIOUS
  <2>2. \A i \in 1 .. n : i \in 1 .. Len(rows)
    BY <1>1
  <2>. HIDE DEF heights, rows, n
  <2>. QED BY <1>1, <2>1, <2>2
<1>4. heights \subseteq Nat
  BY <1>1
<1>5. \A k \in DOMAIN canonical : k \in Nat /\ canonical[k] \in DOMAIN headers
  BY DEF IInv, TypeOK
<1>6. /\ DOMAIN canonical' \subseteq Nat
      /\ canonical' \in [DOMAIN canonical' -> DOMAIN headers]
  <2>. HIDE DEF heights, rows, n
  <2>. QED BY <1>2, <1>3, <1>4, <1>5
<1>7. best' \in DOMAIN headers /\ Return(w, "Ok") /\ UNCHANGED headers
  BY <1>1 DEF PromoteTips
<1>. QED BY <1>6, <1>7, PromotionStep

LEMMA PromoteReplaceKeeps ==
  ASSUME IInv, NEW w \in Worker, PromoteReplace(w)
  PROVE  IInv'
<1>1. PICK tip : tip = call[w].accepted[call[w].upto].hash
  OBVIOUS
<1>2. tip \in DOMAIN headers
  BY <1>1, PlanFacts DEF PromoteReplace
<1>3. \A k \in 0 .. Len(tip) : SubSeq(tip, 1, k) \in DOMAIN headers
  BY <1>2, AncestorsStored DEF IInv
<1>4. Len(tip) \in Nat
  BY <1>2, HeaderAssumption DEF IInv, TypeOK
<1>5. /\ canonical' = ChainTo(tip) /\ best' = tip
      /\ Return(w, "Ok") /\ UNCHANGED headers
  BY <1>1 DEF PromoteReplace
<1>6. /\ DOMAIN canonical' \subseteq Nat
      /\ canonical' \in [DOMAIN canonical' -> DOMAIN headers]
  BY <1>3, <1>4, <1>5 DEF ChainTo
<1>. QED BY <1>2, <1>5, <1>6, PromotionStep

LEMMA StepKeeps == IInv /\ [Next]_vars => IInv'
<1>. SUFFICES ASSUME IInv, [Next]_vars PROVE IInv'
  OBVIOUS
<1>1. ASSUME NEW w \in Worker, Begin(w) PROVE IInv'
  BY <1>1, BeginGenesisKeeps, BeginHeaderKeeps, BeginBatchKeeps DEF Begin
<1>2. ASSUME NEW w \in Worker, Step(w) PROVE IInv'
  BY <1>2, ValidateSkipKeeps, ValidateNewKeeps, ValidateEndKeeps, DecideKeeps, PutKeeps,
     PromoteTipsKeeps, PromoteReplaceKeeps DEF Step
<1>3. ASSUME NEW w \in Worker, StorageError(w) PROVE IInv'
  BY <1>3, ReturnKeeps DEF StorageError, Result
<1>4. ASSUME NEW w \in Worker, ReadError(w) PROVE IInv'
  BY <1>4, ReturnKeeps DEF ReadError, Result
<1>5. CASE Crash
  <2>1. \A w \in Worker : call'[w] = Idle
    BY <1>5 DEF Crash
  <2>2. Idle \in Call /\ CallSound(Idle)
    BY IdleFacts
  <2>3. TypeOK'
    BY <1>5, <2>2 DEF Crash, IInv, TypeOK
  <2>4. ASSUME NEW v \in Worker PROVE CallSound(call[v])'
    <3>1. CallSound(call'[v]) /\ UNCHANGED headers
      BY <1>5, <2>1, <2>2 DEF Crash
    <3>. QED BY <3>1 DEF CallSound, RowsSound, RowSound, Stored, FromBatch, Contiguous,
                         HasParentIn, Parent
  <2>. QED BY <1>5, <2>3, <2>4 DEF Crash, IInv, HeightIsDepth, StoreSound
<1>6. CASE UNCHANGED vars
  <2>1. ASSUME NEW v \in Worker PROVE CallSound(call[v])'
    <3>1. CallSound(call'[v]) /\ UNCHANGED headers
      BY <1>6 DEF vars, IInv
    <3>. QED BY <3>1 DEF CallSound, RowsSound, RowSound, Stored, FromBatch, Contiguous,
                         HasParentIn, Parent
  <2>. QED BY <1>6, <2>1 DEF vars, IInv, TypeOK, HeightIsDepth, StoreSound
<1>. QED BY <1>1, <1>2, <1>3, <1>4, <1>5, <1>6 DEF Next

-----------------------------------------------------------------------------
(* The inductive invariant, for any workers and any faults. *)
THEOREM Invariance == Spec => []IInv
<1>1. Init => IInv
  BY InitInvariant
<1>2. IInv /\ [Next]_vars => IInv'
  BY StepKeeps
<1>. QED BY <1>1, <1>2, PTL DEF Spec

(* Tables and locals keep their types, and best_hash names a stored header *)
(* whatever interleaves, fails or dies.                                    *)
THEOREM TypeCorrect == Spec => []TypeOK
<1>1. IInv => TypeOK
  BY DEF IInv
<1>. QED BY <1>1, Invariance, PTL

(* The stored headers always form one valid tree with right chainwork. *)
THEOREM StoreIsSound == Spec => []StoreSound
<1>1. IInv => StoreSound
  BY DEF IInv
<1>. QED BY <1>1, Invariance, PTL

-----------------------------------------------------------------------------
(* Rows that extend each other climb one height at a time. *)
LEMMA ContiguousHeights ==
  ASSUME IInv, NEW w \in Worker, call[w].pc = "promote", call[w].promote = "tips"
  PROVE  \A k \in 1 .. call[w].upto :
           call[w].accepted[k].height = call[w].accepted[1].height + k - 1
<1>. DEFINE rows == call[w].accepted
            n == call[w].upto
            f == [k \in 1 .. n |-> rows[k].height]
<1>1. /\ n \in 1 .. Len(rows) /\ Len(rows) \in Nat /\ Contiguous(rows, n)
      /\ \A i \in 1 .. Len(rows) :
           /\ rows[i].height \in Nat /\ rows[i].height = Len(rows[i].hash)
           /\ rows[i].hash \in DOMAIN headers
  BY PlanFacts, LenProperties
<1>. HIDE DEF rows, n
<1>2. n \in Nat \ {0} /\ \A i \in 1 .. n : i \in 1 .. Len(rows)
  BY <1>1
<1>3. f \in [1 .. n -> Nat]
  BY <1>1, <1>2
<1>4. ASSUME NEW k \in 1 .. (n - 1) PROVE f[k + 1] = f[k] + 1
  <2>1. k \in 1 .. n /\ k + 1 \in 1 .. n
    BY <1>2
  <2>2. rows[k + 1].hash # Genesis /\ Parent(rows[k + 1].hash) = rows[k].hash
    BY <1>1 DEF Contiguous, HasParentIn
  <2>3. rows[k + 1].hash \in Seq(Label)
    BY <1>1, <1>2, <2>1, HeaderAssumption DEF IInv, TypeOK
  <2>4. /\ Len(rows[k + 1].hash) \in Nat \ {0}
        /\ Len(rows[k].hash) = Len(rows[k + 1].hash) - 1
    BY <2>2, <2>3, ParentFacts
  <2>5. rows[k + 1].height = rows[k].height + 1
    <3>1. /\ rows[k + 1].height = Len(rows[k + 1].hash)
          /\ rows[k].height = Len(rows[k].hash)
      BY <1>1, <1>2, <2>1
    <3>. QED BY <2>4, <3>1
  <2>. QED BY <2>1, <2>5
<1>5. \A k \in 1 .. n : f[k] = f[1] + k - 1
  <2>. HIDE DEF f
  <2>. QED BY <1>2, <1>3, <1>4, StepsAreDistinct
<1>6. \A k \in 1 .. n : rows[k].height = rows[1].height + k - 1
  <2>1. 1 \in 1 .. n
    BY <1>2
  <2>. QED BY <1>5, <2>1
<1>. QED BY <1>6 DEF rows, n

(* The rows that an extension writes to hash_by_height, by height. *)
LEMMA TipsRows ==
  ASSUME IInv, NEW w \in Worker, PromoteTips(w)
  PROVE  LET rows == call[w].accepted
             n == call[w].upto
         IN /\ n \in 1 .. Len(rows)
            /\ \A i \in 1 .. n : /\ rows[i].height \in DOMAIN canonical'
                                 /\ canonical'[rows[i].height] = rows[i].hash
            /\ \A k \in DOMAIN canonical' :
                 \/ \E i \in 1 .. n : k = rows[i].height
                 \/ k \in DOMAIN canonical /\ canonical'[k] = canonical[k]
            /\ DOMAIN canonical \subseteq DOMAIN canonical'
<1>. DEFINE rows == call[w].accepted
            n == call[w].upto
            heights == {rows[i].height : i \in 1 .. n}
<1>1. /\ n \in 1 .. Len(rows)
      /\ \A i \in 1 .. n : rows[i].height = rows[1].height + i - 1
      /\ rows[1].height \in Nat
  <2>1. n \in 1 .. Len(rows) /\ \A i \in 1 .. Len(rows) : rows[i].height \in Nat
    BY PlanFacts DEF PromoteTips
  <2>2. \A i \in 1 .. n : rows[i].height = rows[1].height + i - 1
    BY ContiguousHeights DEF PromoteTips
  <2>3. 1 \in 1 .. Len(rows)
    BY <2>1, LenProperties
  <2>. QED BY <2>1, <2>2, <2>3
<1>2. canonical' = [k \in DOMAIN canonical \cup heights |->
                      IF k \in heights
                      THEN rows[CHOOSE i \in 1 .. n : rows[i].height = k].hash
                      ELSE canonical[k]]
  BY DEF PromoteTips
<1>3. ASSUME NEW i \in 1 .. n PROVE (CHOOSE j \in 1 .. n : rows[j].height = rows[i].height) = i
  <2>1. \A j \in 1 .. n : rows[j].height = rows[i].height => j = i
    <3>. HIDE DEF rows, n
    <3>. QED BY <1>1
  <2>. QED BY <2>1
<1>4. \A i \in 1 .. n : rows[i].height \in heights
  OBVIOUS
<1>5. \A k \in heights : \E i \in 1 .. n : k = rows[i].height
  OBVIOUS
<1>. HIDE DEF heights, rows, n
<1>6. \A i \in 1 .. n : /\ rows[i].height \in DOMAIN canonical'
                        /\ canonical'[rows[i].height] = rows[i].hash
  BY <1>2, <1>3, <1>4
<1>7. \A k \in DOMAIN canonical' :
        \/ \E i \in 1 .. n : k = rows[i].height
        \/ k \in DOMAIN canonical /\ canonical'[k] = canonical[k]
  BY <1>2, <1>5
<1>. QED BY <1>1, <1>2, <1>6, <1>7 DEF rows, n

-----------------------------------------------------------------------------
(* However calls interleave, fail or die, the best header is the row of    *)
(* hash_by_height at its own height.                                       *)
LEMMA TipStep == IInv /\ TipOnCanonical /\ [Next]_vars => TipOnCanonical'
<1>. SUFFICES ASSUME IInv, TipOnCanonical, [Next]_vars PROVE TipOnCanonical'
  OBVIOUS
<1>0. StoreSound' /\ HeightIsDepth' /\ TypeOK'
  BY StepKeeps DEF IInv
<1>1. CASE UNCHANGED <<canonical, best>>
  <2>1. \A k \in DOMAIN canonical : canonical[k] \in DOMAIN headers'
    BY <1>0, <1>1 DEF TypeOK
  <2>2. \A k \in DOMAIN canonical : headers'[canonical[k]].height = headers[canonical[k]].height
    BY <1>0, <2>1 DEF HeightIsDepth, IInv, TypeOK
  <2>3. best # NoHash => headers'[best].height = headers[best].height
    BY <1>0, <1>1 DEF HeightIsDepth, IInv, TypeOK
  <2>. QED BY <1>1, <2>2, <2>3 DEF TipOnCanonical
<1>2. ASSUME NEW w \in Worker, PromoteTips(w) PROVE TipOnCanonical'
  <2>. DEFINE rows == call[w].accepted
              n == call[w].upto
  <2>1. /\ n \in 1 .. Len(rows) /\ Len(rows) \in Nat
        /\ \A i \in 1 .. Len(rows) : rows[i].height = Len(rows[i].hash)
                                     /\ rows[i].hash \in DOMAIN headers
    BY <1>2, PlanFacts, LenProperties DEF PromoteTips
  <2>2. UNCHANGED headers /\ best' = rows[n].hash
    BY <1>2 DEF PromoteTips
  <2>3. /\ \A i \in 1 .. n : /\ rows[i].height \in DOMAIN canonical'
                             /\ canonical'[rows[i].height] = rows[i].hash
        /\ \A k \in DOMAIN canonical' :
             \/ \E i \in 1 .. n : k = rows[i].height
             \/ k \in DOMAIN canonical /\ canonical'[k] = canonical[k]
    BY <1>2, TipsRows
  <2>. HIDE DEF rows, n
  <2>4. \A i \in 1 .. n : headers[rows[i].hash].height = rows[i].height
    BY <2>1 DEF IInv, HeightIsDepth
  <2>5. \A k \in DOMAIN canonical' : headers[canonical'[k]].height = k
    BY <2>3, <2>4 DEF TipOnCanonical
  <2>6. n \in 1 .. n
    BY <2>1
  <2>. QED BY <2>2, <2>3, <2>4, <2>5, <2>6 DEF TipOnCanonical
<1>3. ASSUME NEW w \in Worker, PromoteReplace(w) PROVE TipOnCanonical'
  <2>1. PICK tip : tip = call[w].accepted[call[w].upto].hash
    OBVIOUS
  <2>2. /\ canonical' = ChainTo(tip) /\ best' = tip /\ UNCHANGED headers
    BY <1>3, <2>1 DEF PromoteReplace
  <2>3. tip \in DOMAIN headers
    BY <1>3, <2>1, PlanFacts DEF PromoteReplace
  <2>4. tip \in Seq(Label) /\ Len(tip) \in Nat
    BY <2>3, HeaderAssumption DEF IInv, TypeOK
  <2>5. \A k \in 0 .. Len(tip) : headers[SubSeq(tip, 1, k)].height = k
    <3>1. \A k \in 0 .. Len(tip) : SubSeq(tip, 1, k) \in DOMAIN headers
      BY <2>3, AncestorsStored DEF IInv
    <3>. QED BY <2>4, <3>1, PrefixFacts DEF IInv, HeightIsDepth
  <2>6. headers[tip].height = Len(tip) /\ SubSeq(tip, 1, Len(tip)) = tip
    BY <2>3, <2>4, SubSeqFull DEF IInv, HeightIsDepth
  <2>. QED BY <2>2, <2>4, <2>5, <2>6 DEF TipOnCanonical, ChainTo
<1>4. CASE ~ \E w \in Worker : PromoteTips(w) \/ PromoteReplace(w)
  <2>1. UNCHANGED <<canonical, best>>
    BY <1>4 DEF Next, vars, Begin, Step, StorageError, ReadError, Crash, BeginGenesis,
       BeginHeader, BeginBatch, ValidateSkip, ValidateNew, ValidateEnd, Decide, Put
  <2>. QED BY <1>1, <2>1
<1>. QED BY <1>2, <1>3, <1>4

(* canonical_header may trust hash_by_height: whatever number of threads   *)
(* write, its rows name stored headers of their height, and best_hash is   *)
(* the row of its own height.                                              *)
THEOREM TipIsOnCanonical == Spec => []TipOnCanonical
<1>1. Init => TipOnCanonical
  BY DEF Init, TipOnCanonical
<1>2. IInv /\ TipOnCanonical /\ [Next]_vars => TipOnCanonical'
  BY TipStep
<1>. QED BY <1>1, <1>2, Invariance, PTL DEF Spec

-----------------------------------------------------------------------------
(* From here on: one writer, whose reads do not fail. *)
OneWriter == (\A v, w \in Worker : v = w) /\ ~ReadMayFail

(* Rows that extend the best header lie on the chain to the last of them.  *)
LEMMA TipsLieOnChain ==
  ASSUME IInv, NEW w \in Worker, call[w].pc = "promote", call[w].promote = "tips",
         best \in DOMAIN headers, HasParentIn(call[w].accepted[1].hash, {best})
  PROVE  LET rows == call[w].accepted
             tip == rows[call[w].upto].hash
         IN /\ tip \in Seq(Label)
            /\ Len(tip) = Len(best) + call[w].upto
            /\ Len(best) \in Nat
            /\ best = SubSeq(tip, 1, Len(best))
            /\ \A k \in 1 .. call[w].upto :
                 /\ rows[k].height = Len(best) + k
                 /\ rows[k].hash = SubSeq(tip, 1, Len(best) + k)
<1>. DEFINE rows == call[w].accepted
            n == call[w].upto
            tip == rows[n].hash
            b == Len(best)
            Bad == {m \in 0 .. (n - 1) : rows[n - m].hash # SubSeq(tip, 1, b + (n - m))}
<1>1. /\ n \in 1 .. Len(rows) /\ Len(rows) \in Nat /\ Contiguous(rows, n)
      /\ \A i \in 1 .. Len(rows) :
           /\ rows[i].height \in Nat /\ rows[i].height = Len(rows[i].hash)
           /\ rows[i].hash \in DOMAIN headers
  BY PlanFacts, LenProperties
<1>2. \A k \in 1 .. n : rows[k].height = rows[1].height + k - 1
  BY ContiguousHeights
<1>. HIDE DEF rows, n
<1>3. \A i \in 1 .. Len(rows) : rows[i].hash \in Seq(Label)
  BY <1>1, HeaderAssumption DEF IInv, TypeOK
<1>4. rows[1].hash # Genesis /\ Parent(rows[1].hash) = best
  BY DEF HasParentIn, rows
<1>5. rows[1].height = b + 1 /\ b \in Nat
  <2>1. 1 \in 1 .. Len(rows)
    BY <1>1
  <2>2. Len(rows[1].hash) \in Nat \ {0} /\ Len(best) = Len(rows[1].hash) - 1
    BY <1>3, <1>4, <2>1, ParentFacts
  <2>. QED BY <1>1, <2>1, <2>2
<1>6. \A k \in 1 .. n : k \in 1 .. Len(rows) /\ rows[k].height = b + k
  BY <1>1, <1>2, <1>5
<1>7. tip \in Seq(Label) /\ Len(tip) = b + n
  <2>1. n \in 1 .. n
    BY <1>1
  <2>. QED BY <1>1, <1>3, <1>6, <2>1
<1>8. ASSUME NEW k \in 1 .. (n - 1), rows[k + 1].hash = SubSeq(tip, 1, b + k + 1)
      PROVE  rows[k].hash = SubSeq(tip, 1, b + k)
  <2>1. rows[k].hash = Parent(rows[k + 1].hash)
    BY <1>1 DEF Contiguous, HasParentIn
  <2>2. b + k + 1 \in 0 .. Len(tip) /\ b + k \in 0 .. (b + k + 1)
    BY <1>1, <1>5, <1>7
  <2>3. Len(SubSeq(tip, 1, b + k + 1)) = b + k + 1
    BY <1>7, <2>2, PrefixFacts
  <2>4. Parent(rows[k + 1].hash) = SubSeq(SubSeq(tip, 1, b + k + 1), 1, b + k)
    <3>1. (b + k + 1) - 1 = b + k
      BY <1>5
    <3>. QED BY <1>8, <2>3, <3>1 DEF Parent
  <2>. QED BY <1>7, <2>1, <2>2, <2>4, PrefixOfPrefix
<1>9. Bad = {}
  <2>1. SUFFICES ASSUME Bad # {} PROVE FALSE
    OBVIOUS
  <2>2. PICK m \in Bad : \A j \in Bad : m <= j
    <3>1. Bad \in SUBSET Nat
      OBVIOUS
    <3>. HIDE DEF Bad
    <3>. QED BY <2>1, <3>1, LeastElement
  <2>3. m # 0
    <3>1. SubSeq(tip, 1, Len(tip)) = tip
      BY <1>7, SubSeqFull
    <3>2. n - 0 = n /\ b + n = Len(tip)
      BY <1>1, <1>7
    <3>. QED BY <3>1, <3>2
  <2>4. m - 1 \in 0 .. (n - 1) /\ m - 1 \notin Bad
    <3>1. m \in 1 .. (n - 1) /\ n \in Nat
      BY <1>1, <2>3
    <3>2. m - 1 \in 0 .. (n - 1) /\ ~(m <= m - 1)
      BY <3>1
    <3>. HIDE DEF Bad
    <3>. QED BY <2>2, <3>2
  <2>5. rows[n - (m - 1)].hash = SubSeq(tip, 1, b + (n - (m - 1)))
    BY <2>4
  <2>6. /\ n - m \in 1 .. (n - 1) /\ n - (m - 1) = (n - m) + 1
        /\ b + (n - (m - 1)) = b + (n - m) + 1
    BY <1>1, <1>5, <2>2, <2>3
  <2>7. rows[n - m].hash = SubSeq(tip, 1, b + (n - m))
    <3>1. rows[(n - m) + 1].hash = SubSeq(tip, 1, b + (n - m) + 1)
      BY <2>5, <2>6
    <3>. HIDE DEF tip, b
    <3>. QED BY <1>8, <2>6, <3>1
  <2>. QED BY <2>2, <2>7
<1>10. ASSUME NEW k \in 1 .. n PROVE rows[k].hash = SubSeq(tip, 1, b + k)
  <2>1. n - k \in 0 .. (n - 1) /\ n - (n - k) = k
    BY <1>1
  <2>. QED BY <1>9, <2>1
<1>11. best = SubSeq(tip, 1, b)
  <2>1. 1 \in 1 .. n /\ b + 1 \in 0 .. Len(tip) /\ b \in 0 .. (b + 1) /\ (b + 1) - 1 = b
    BY <1>1, <1>5, <1>7
  <2>2. rows[1].hash = SubSeq(tip, 1, b + 1) /\ Len(SubSeq(tip, 1, b + 1)) = b + 1
    BY <1>7, <1>10, <2>1, PrefixFacts
  <2>3. Parent(rows[1].hash) = SubSeq(SubSeq(tip, 1, b + 1), 1, b)
    BY <2>1, <2>2 DEF Parent
  <2>. QED BY <1>4, <1>7, <2>1, <2>3, PrefixOfPrefix
<1>. QED BY <1>5, <1>6, <1>7, <1>10, <1>11 DEF rows, n

-----------------------------------------------------------------------------
(* The two promotions of a fresh plan move the index with the tip. *)
LEMMA TipsKeepPath ==
  ASSUME IInv, OneWriterInv, NEW w \in Worker, PromoteTips(w)
  PROVE  /\ best' \in DOMAIN headers /\ canonical' = ChainTo(best')
         /\ best # NoHash => headers[best'].work > headers[best].work
<1>. DEFINE rows == call[w].accepted
            n == call[w].upto
            tip == rows[n].hash
            b == Len(best)
<1>1. /\ PlanFresh(call[w]) /\ call[w].pc = "promote" /\ call[w].promote = "tips"
      /\ best' = tip /\ CanonicalIsBestPath
  BY DEF OneWriterInv, PromoteTips
<1>2. /\ best # NoHash /\ HasParentIn(rows[1].hash, {best})
      /\ rows[n].work > headers[best].work
  BY <1>1 DEF PlanFresh
<1>3. best \in DOMAIN headers
  BY <1>2 DEF IInv, TypeOK
<1>4. /\ n \in 1 .. Len(rows) /\ Len(rows) \in Nat
  BY <1>1, PlanFacts, LenProperties
<1>5. tip \in DOMAIN headers /\ headers[tip].work = rows[n].work
  BY <1>1, PlanFacts
<1>6. /\ tip \in Seq(Label) /\ Len(tip) = b + n /\ b \in Nat
      /\ best = SubSeq(tip, 1, b)
      /\ \A k \in 1 .. n : /\ rows[k].height = b + k
                           /\ rows[k].hash = SubSeq(tip, 1, b + k)
  BY <1>1, <1>2, <1>3, TipsLieOnChain
<1>7. /\ \A i \in 1 .. n : /\ rows[i].height \in DOMAIN canonical'
                           /\ canonical'[rows[i].height] = rows[i].hash
      /\ \A k \in DOMAIN canonical' :
           \/ \E i \in 1 .. n : k = rows[i].height
           \/ k \in DOMAIN canonical /\ canonical'[k] = canonical[k]
      /\ DOMAIN canonical \subseteq DOMAIN canonical'
  BY TipsRows
<1>8. DOMAIN canonical = 0 .. b /\ \A k \in 0 .. b : canonical[k] = SubSeq(best, 1, k)
  BY <1>1, <1>2 DEF CanonicalIsBestPath, ChainTo
<1>. HIDE DEF rows, n, b, tip
<1>9. DOMAIN canonical' = 0 .. (b + n)
  <2>1. ASSUME NEW k \in DOMAIN canonical' PROVE k \in 0 .. (b + n)
    <3>1. CASE k \in DOMAIN canonical
      BY <1>4, <1>6, <1>8, <3>1
    <3>2. CASE \E i \in 1 .. n : k = rows[i].height
      BY <1>4, <1>6, <3>2
    <3>. QED BY <1>7, <3>1, <3>2
  <2>2. ASSUME NEW k \in 0 .. (b + n) PROVE k \in DOMAIN canonical'
    <3>1. CASE k <= b
      BY <1>4, <1>6, <1>7, <1>8, <3>1
    <3>2. CASE k > b
      <4>1. k - b \in 1 .. n /\ b + (k - b) = k
        BY <1>4, <1>6, <3>2
      <4>. QED BY <1>6, <1>7, <4>1
    <3>. QED BY <1>4, <1>6, <3>1, <3>2
  <2>. QED BY <2>1, <2>2
<1>10. ASSUME NEW k \in 0 .. (b + n) PROVE canonical'[k] = SubSeq(tip, 1, k)
  <2>1. CASE \E i \in 1 .. n : k = rows[i].height
    BY <1>6, <1>7, <2>1
  <2>2. CASE ~ \E i \in 1 .. n : k = rows[i].height
    <3>1. k \in 0 .. b /\ canonical'[k] = SubSeq(best, 1, k)
      BY <1>7, <1>8, <1>9, <2>2
    <3>2. b \in 0 .. Len(tip)
      BY <1>4, <1>6
    <3>. QED BY <1>6, <3>1, <3>2, PrefixOfPrefix
  <2>. QED BY <2>1, <2>2
<1>11. IInv'
  BY PromoteTipsKeeps
<1>12. canonical' = [k \in DOMAIN canonical' |-> canonical'[k]]
  BY <1>11 DEF IInv, TypeOK
<1>13. canonical' = ChainTo(tip)
  BY <1>6, <1>9, <1>10, <1>12 DEF ChainTo
<1>. QED BY <1>1, <1>2, <1>5, <1>13

LEMMA ReplaceKeepsPath ==
  ASSUME IInv, OneWriterInv, NEW w \in Worker, PromoteReplace(w)
  PROVE  /\ best' \in DOMAIN headers /\ canonical' = ChainTo(best')
         /\ best # NoHash => headers[best'].work > headers[best].work
<1>1. /\ PlanFresh(call[w]) /\ call[w].pc = "promote" /\ call[w].promote = "replace"
      /\ best' = call[w].accepted[call[w].upto].hash /\ canonical' = ChainTo(best')
  BY DEF OneWriterInv, PromoteReplace
<1>2. best' \in DOMAIN headers /\ headers[best'].work = call[w].accepted[call[w].upto].work
  BY <1>1, PlanFacts
<1>. QED BY <1>1, <1>2 DEF PlanFresh

-----------------------------------------------------------------------------
LEMMA ReturnedPlanFresh ==
  ASSUME NEW r PROVE PlanFresh([Idle EXCEPT !.result = r])
  BY DEF PlanFresh, Idle

(* A step of the one writer that promotes nothing keeps its plan fresh.    *)
LEMMA FreshStep ==
  ASSUME OneWriter, IInv, OneWriterInv, NEW w \in Worker, NEW c, PlanFresh(c)',
         call' = [call EXCEPT ![w] = c], UNCHANGED <<canonical, best>>
  PROVE  OneWriterInv'
<1>1. \A v \in Worker : call'[v] = c
  BY DEF OneWriter, IInv, TypeOK
<1>2. \A v \in Worker : PlanFresh(call[v])'
  BY <1>1 DEF PlanFresh
<1>3. CanonicalIsBestPath'
  BY DEF OneWriterInv, CanonicalIsBestPath, ChainTo
<1>. QED BY <1>2, <1>3 DEF OneWriterInv

LEMMA FreshReturn ==
  ASSUME OneWriter, IInv, OneWriterInv, NEW w \in Worker, NEW r, Return(w, r),
         UNCHANGED <<canonical, best>>
  PROVE  OneWriterInv'
<1>. DEFINE c == [Idle EXCEPT !.result = r]
<1>1. PlanFresh(c)'
  BY DEF PlanFresh, Idle
<1>2. call' = [call EXCEPT ![w] = c]
  BY DEF Return
<1>. HIDE DEF c
<1>. QED BY <1>1, <1>2, FreshStep

LEMMA BeginFresh ==
  ASSUME OneWriter, IInv, OneWriterInv, NEW w \in Worker, Begin(w)
  PROVE  OneWriterInv'
<1>1. ASSUME BeginGenesis(w) PROVE OneWriterInv'
  <2>. DEFINE c == [Idle EXCEPT !.op = "genesis", !.pc = "put", !.accepted = <<GenesisRow>>,
                                !.promote = "replace", !.upto = 1]
  <2>1. best = NoHash /\ UNCHANGED <<canonical, best>>
    BY <1>1 DEF BeginGenesis, BestReads, OneWriter
  <2>2. c.promote = "replace"
    BY IdleFacts DEF Call
  <2>. HIDE DEF c
  <2>3. PlanFresh(c)'
    BY <2>1, <2>2 DEF PlanFresh
  <2>4. call' = [call EXCEPT ![w] = c]
    BY <1>1 DEF BeginGenesis, c
  <2>. QED BY <2>1, <2>3, <2>4, FreshStep
<1>2. ASSUME NEW h \in Singles, BeginHeader(w, h) PROVE OneWriterInv'
  <2>1. CASE Verdict(h, DOMAIN headers) # "Ok"
    BY <1>2, <2>1, FreshReturn DEF BeginHeader
  <2>2. CASE Verdict(h, DOMAIN headers) = "Ok"
    <3>1. PICK row : row = RowFor(h, << >>)
      OBVIOUS
    <3>. DEFINE c == [Idle EXCEPT !.op = "header", !.pc = "put", !.accepted = <<row>>]
    <3>2. c.promote = "none"
      BY IdleFacts DEF Call
    <3>. HIDE DEF c
    <3>3. PlanFresh(c)'
      BY <3>2 DEF PlanFresh
    <3>4. call' = [call EXCEPT ![w] = c] /\ UNCHANGED <<canonical, best>>
      BY <1>2, <2>2, <3>1 DEF BeginHeader, c
    <3>. QED BY <3>3, <3>4, FreshStep
  <2>. QED BY <2>1, <2>2
<1>3. ASSUME NEW b \in Batches, BeginBatch(w, b) PROVE OneWriterInv'
  <2>. DEFINE c == [Idle EXCEPT !.op = "batch", !.pc = "validate", !.batch = b]
  <2>1. c.promote = "none"
    BY IdleFacts DEF Call
  <2>. HIDE DEF c
  <2>2. PlanFresh(c)'
    BY <2>1 DEF PlanFresh
  <2>3. call' = [call EXCEPT ![w] = c] /\ UNCHANGED <<canonical, best>>
    BY <1>3 DEF BeginBatch, c
  <2>. QED BY <2>2, <2>3, FreshStep
<1>. QED BY <1>1, <1>2, <1>3 DEF Begin

LEMMA ValidateFresh ==
  ASSUME OneWriter, IInv, OneWriterInv, NEW w \in Worker,
         ValidateSkip(w) \/ ValidateNew(w) \/ ValidateEnd(w)
  PROVE  OneWriterInv'
<1>0. UNCHANGED <<canonical, best>> /\ call \in [Worker -> Call] /\ call[w].pc = "validate"
  BY DEF ValidateSkip, ValidateNew, ValidateEnd, IInv, TypeOK
<1>1. CASE \E r : Return(w, r)
  BY <1>0, <1>1, FreshReturn
<1>2. CASE call'[w].pc \notin {"put", "promote"}
  <2>1. \A v \in Worker : v = w
    BY DEF OneWriter
  <2>2. \A v \in Worker : PlanFresh(call[v])'
    BY <1>2, <2>1 DEF PlanFresh
  <2>3. CanonicalIsBestPath'
    BY <1>0 DEF OneWriterInv, CanonicalIsBestPath, ChainTo
  <2>. QED BY <2>2, <2>3 DEF OneWriterInv
<1>3. ASSUME ~ \E r : Return(w, r) PROVE call'[w].pc \notin {"put", "promote"}
  <2>1. CASE ValidateSkip(w)
    BY <1>0, <2>1 DEF ValidateSkip, Call
  <2>2. CASE ValidateNew(w)
    <3>1. PICK row : call' = [call EXCEPT ![w].next = @ + 1, ![w].accepted = Append(@, row)]
      BY <1>3, <2>2 DEF ValidateNew
    <3>. QED BY <1>0, <3>1 DEF Call
  <2>3. CASE ValidateEnd(w)
    BY <1>0, <1>3, <2>3 DEF ValidateEnd, Call
  <2>. QED BY <2>1, <2>2, <2>3
<1>. QED BY <1>1, <1>2, <1>3

LEMMA DecideFresh ==
  ASSUME OneWriter, IInv, OneWriterInv, NEW w \in Worker, Decide(w)
  PROVE  OneWriterInv'
<1>. DEFINE rows == call[w].accepted
            n == BestIndex(rows)
            how == Promotion(best, rows)
<1>0. /\ call[w] \in Call /\ CallSound(call[w]) /\ call[w].pc = "decide"
      /\ UNCHANGED <<headers, canonical, best>> /\ call \in [Worker -> Call]
  BY DEF IInv, TypeOK, Decide
<1>1. BestReads = {best}
  BY DEF BestReads, OneWriter
<1>2. \/ \E r : Return(w, r)
      \/ \E pc \in {"put", "promote"} :
           call' = [call EXCEPT ![w].pc = pc, ![w].promote = how, ![w].upto = n]
  BY <1>1 DEF Decide
<1>3. CASE \E r : Return(w, r)
  BY <1>0, <1>3, FreshReturn
<1>4. ASSUME NEW pc \in {"put", "promote"},
             call' = [call EXCEPT ![w].pc = pc, ![w].promote = how, ![w].upto = n]
      PROVE  OneWriterInv'
  <2>. DEFINE c == [call[w] EXCEPT !.pc = pc, !.promote = how, !.upto = n]
  <2>1. rows \in Seq(Row) /\ rows # << >>
    BY <1>0 DEF Call, CallSound
  <2>2. n \in 1 .. Len(rows) /\ rows[n].work \in Nat
    <3>1. n \in 1 .. Len(rows)
      BY <2>1, BestIndexRange
    <3>2. rows[n] \in Row
      BY <2>1, <3>1, ElementOfSeq
    <3>. QED BY <3>1, <3>2 DEF Row
  <2>3. best # NoHash => headers[best].work \in Nat
    BY DEF IInv, TypeOK
  <2>4. /\ how # "none" /\ best # NoHash => rows[n].work > headers[best].work
        /\ how = "tips" => best # NoHash /\ HasParentIn(rows[1].hash, {best})
    <3>. HIDE DEF rows
    <3>. QED BY <2>2, <2>3 DEF Promotion, ExtendsBest
  <2>. HIDE DEF how, n
  <2>5. c.promote = how /\ c.upto = n /\ c.accepted = rows
    BY <1>0 DEF Call
  <2>6. call' = [call EXCEPT ![w] = c]
    BY <1>0, <1>4
  <2>. HIDE DEF c
  <2>7. PlanFresh(c)
    BY <2>4, <2>5 DEF PlanFresh
  <2>8. \A v \in Worker : call'[v] = c
    BY <1>0, <2>6 DEF OneWriter
  <2>9. \A v \in Worker : PlanFresh(call[v])'
    BY <1>0, <2>7, <2>8 DEF PlanFresh, HasParentIn, Parent
  <2>. QED BY <1>0, <2>9 DEF OneWriterInv, CanonicalIsBestPath, ChainTo
<1>. QED BY <1>2, <1>3, <1>4

LEMMA PutFresh ==
  ASSUME OneWriter, IInv, OneWriterInv, NEW w \in Worker, Put(w)
  PROVE  OneWriterInv'
<1>0. /\ call[w] \in Call /\ CallSound(call[w]) /\ call[w].pc = "put"
      /\ UNCHANGED <<canonical, best>> /\ call \in [Worker -> Call]
  BY DEF IInv, TypeOK, Put
<1>1. PICK rows \in Seq(Row) : rows = call[w].accepted /\ RowsSound(rows)
  BY <1>0 DEF Call, CallSound
<1>2. CASE \E r : Return(w, r)
  BY <1>0, <1>2, FreshReturn
<1>3. CASE ~ \E r : Return(w, r)
  <2>1. HashesOf(rows) \cap DOMAIN headers = {} /\ StoreRows(rows)
    BY <1>1, <1>3 DEF Put
  <2>2. /\ DOMAIN headers \subseteq DOMAIN headers'
        /\ \A h \in DOMAIN headers : headers'[h] = headers[h]
    BY <1>1, <2>1, PutStore
  <2>3. best # NoHash => headers'[best] = headers[best]
    BY <2>2 DEF IInv, TypeOK
  <2>4. PICK pc \in {"decide", "promote"} : call' = [call EXCEPT ![w].pc = pc]
    BY <1>3 DEF Put
  <2>. DEFINE c == [call[w] EXCEPT !.pc = pc]
  <2>5. c.promote = call[w].promote /\ c.upto = call[w].upto /\ c.accepted = call[w].accepted
    BY <1>0 DEF Call
  <2>6. \A v \in Worker : call'[v] = c
    BY <1>0, <2>4 DEF OneWriter
  <2>. HIDE DEF c
  <2>7. PlanFresh(call[w])
    BY DEF OneWriterInv
  <2>8. ASSUME call[w].promote # "none"
        PROVE  /\ best # NoHash => c.accepted[c.upto].work > headers'[best].work
               /\ c.promote = "tips" => best # NoHash /\ HasParentIn(c.accepted[1].hash, {best})
    <3>1. /\ best # NoHash => call[w].accepted[call[w].upto].work > headers[best].work
          /\ call[w].promote = "tips" =>
               best # NoHash /\ HasParentIn(call[w].accepted[1].hash, {best})
      BY <1>0, <2>7, <2>8 DEF PlanFresh
    <3>. QED BY <2>3, <2>5, <3>1
  <2>9. \A v \in Worker : PlanFresh(call[v])'
    BY <1>0, <2>5, <2>6, <2>8 DEF PlanFresh, HasParentIn, Parent
  <2>. QED BY <1>0, <2>9 DEF OneWriterInv, CanonicalIsBestPath, ChainTo
<1>. QED BY <1>2, <1>3

LEMMA PromoteFresh ==
  ASSUME OneWriter, IInv, OneWriterInv, NEW w \in Worker, PromoteTips(w) \/ PromoteReplace(w)
  PROVE  OneWriterInv'
<1>1. best' \in DOMAIN headers /\ canonical' = ChainTo(best')
  BY TipsKeepPath, ReplaceKeepsPath
<1>2. best' # NoHash
  BY <1>1, HeaderAssumption DEF IInv, TypeOK
<1>3. Return(w, "Ok")
  BY DEF PromoteTips, PromoteReplace
<1>4. \A v \in Worker : call'[v].promote = "none"
  BY <1>3 DEF Return, OneWriter, IInv, TypeOK, Idle
<1>. QED BY <1>1, <1>2, <1>4 DEF OneWriterInv, CanonicalIsBestPath, PlanFresh, ChainTo

LEMMA OneWriterStep ==
  ASSUME OneWriter PROVE IInv /\ OneWriterInv /\ [Next]_vars => OneWriterInv'
<1>. SUFFICES ASSUME IInv, OneWriterInv, [Next]_vars PROVE OneWriterInv'
  OBVIOUS
<1>1. ASSUME NEW w \in Worker, Begin(w) \/ Step(w) PROVE OneWriterInv'
  BY <1>1, BeginFresh, ValidateFresh, DecideFresh, PutFresh, PromoteFresh DEF Step
<1>2. ASSUME NEW w \in Worker, StorageError(w) \/ ReadError(w) PROVE OneWriterInv'
  BY <1>2, FreshReturn DEF StorageError, ReadError
<1>3. CASE Crash
  <2>1. \A v \in Worker : PlanFresh(call[v])'
    BY <1>3 DEF Crash, PlanFresh, Idle
  <2>. QED BY <1>3, <2>1 DEF Crash, OneWriterInv, CanonicalIsBestPath, ChainTo
<1>4. CASE UNCHANGED vars
  <2>1. \A v \in Worker : PlanFresh(call[v])'
    BY <1>4 DEF vars, PlanFresh, OneWriterInv, HasParentIn, Parent
  <2>. QED BY <1>4, <2>1 DEF vars, OneWriterInv, CanonicalIsBestPath, ChainTo
<1>. QED BY <1>1, <1>2, <1>3, <1>4 DEF Next

LEMMA OneWriterInvariance == ASSUME OneWriter PROVE Spec => []OneWriterInv
<1>1. Init => OneWriterInv
  BY DEF Init, OneWriterInv, CanonicalIsBestPath, PlanFresh, Idle
<1>2. IInv /\ OneWriterInv /\ [Next]_vars => OneWriterInv'
  BY OneWriterStep
<1>. QED BY <1>1, <1>2, Invariance, PTL DEF Spec

(* With one writer hash_by_height is exactly the path from the genesis to  *)
(* best_hash, through crashes and failed transactions: canonical_hash      *)
(* never answers with a header of an abandoned branch.                     *)
THEOREM CanonicalIsPath == ASSUME OneWriter PROVE Spec => []CanonicalIsBestPath
<1>1. OneWriterInv => CanonicalIsBestPath
  BY DEF OneWriterInv
<1>. QED BY <1>1, OneWriterInvariance, PTL

(* What one step of the one writer does to the tip. *)
LEMMA TipMoves ==
  ASSUME OneWriter, IInv, OneWriterInv, Next
  PROVE  \/ UNCHANGED <<canonical, best>>
         \/ /\ UNCHANGED headers
            /\ best' \in DOMAIN headers /\ canonical' = ChainTo(best')
            /\ best # NoHash => headers[best'].work > headers[best].work
<1>1. CASE \E w \in Worker : PromoteTips(w)
  BY <1>1, TipsKeepPath DEF PromoteTips
<1>2. CASE \E w \in Worker : PromoteReplace(w)
  BY <1>2, ReplaceKeepsPath DEF PromoteReplace
<1>3. CASE ~ \E w \in Worker : PromoteTips(w) \/ PromoteReplace(w)
  BY <1>3 DEF Next, Begin, Step, StorageError, ReadError, Crash, BeginGenesis,
     BeginHeader, BeginBatch, ValidateSkip, ValidateNew, ValidateEnd, Decide, Put
<1>. QED BY <1>1, <1>2, <1>3

(* With one writer the best header is only replaced by a heavier one.      *)
THEOREM BestRises == ASSUME OneWriter PROVE Spec => BestWorkRises
<1>1. IInv /\ OneWriterInv /\ [Next]_vars =>
        [best' # best =>
           /\ best' # NoHash
           /\ best # NoHash => headers'[best'].work > headers'[best].work]_vars
  <2>1. SUFFICES ASSUME IInv, OneWriterInv, Next, best' # best
                 PROVE  /\ best' # NoHash
                        /\ best # NoHash => headers'[best'].work > headers'[best].work
    OBVIOUS
  <2>2. /\ UNCHANGED headers /\ best' \in DOMAIN headers
        /\ best # NoHash => headers[best'].work > headers[best].work
    BY <2>1, TipMoves
  <2>. QED BY <2>1, <2>2, HeaderAssumption DEF IInv, TypeOK
<1>. QED BY <1>1, Invariance, OneWriterInvariance, PTL DEF Spec, BestWorkRises

(* A put is a BestChain step: what it adds is valid on what is known.      *)
LEMMA PutLearns ==
  ASSUME IInv, NEW w \in Worker, Put(w)
  PROVE  BC!Learn \/ UNCHANGED <<headers, canonical, best>>
<1>0. call[w] \in Call /\ CallSound(call[w]) /\ UNCHANGED <<canonical, best>>
  BY DEF IInv, TypeOK, Put
<1>1. PICK rows \in Seq(Row) : rows = call[w].accepted /\ RowsSound(rows)
  BY <1>0 DEF Call, CallSound
<1>2. CASE HashesOf(rows) \cap DOMAIN headers # {}
  BY <1>0, <1>1, <1>2 DEF Put
<1>3. CASE HashesOf(rows) \cap DOMAIN headers = {}
  <2>1. StoreRows(rows)
    BY <1>1, <1>3 DEF Put
  <2>2. /\ DOMAIN headers \subseteq DOMAIN headers'
        /\ \A h \in DOMAIN headers : headers'[h] = headers[h]
        /\ StoreSound'
    BY <1>1, <1>3, <2>1, PutStore
  <2>. DEFINE known == [h \in DOMAIN headers |-> headers[h].work]
              known2 == [h \in DOMAIN headers' |-> headers'[h].work]
  <2>3. \A h \in DOMAIN known : known2[h] = known[h]
    BY <2>2
  <2>4. ASSUME NEW h \in DOMAIN known2
        PROVE  IF h = Genesis
               THEN known2[h] = Work[h]
               ELSE /\ h \in ValidBits \cap ValidPow
                    /\ Parent(h) \in DOMAIN known2
                    /\ known2[h] = known2[Parent(h)] + Work[h]
    BY <2>2 DEF StoreSound, Parent, Genesis
  <2>. QED BY <1>0, <2>2, <2>3, <2>4 DEF BC!Learn, BC!MayBeAdded, BC!Root, BC!Back, Parent, Genesis
<1>. QED BY <1>2, <1>3

(* With one writer HeaderChain implements BestChain, its abstract promise. *)
THEOREM Refinement == ASSUME OneWriter PROVE Spec => ImplementsBestChain
<1>1. Init => BC!Init
  BY DEF Init, BC!Init, BC!Root, Genesis
<1>2. IInv /\ OneWriterInv /\ [Next]_vars => [BC!Next]_(BC!vars)
  <2>1. SUFFICES ASSUME IInv, OneWriterInv, [Next]_vars PROVE [BC!Next]_(BC!vars)
    OBVIOUS
  <2>2. CASE UNCHANGED vars
    BY <2>2 DEF vars, BC!vars
  <2>3. CASE \E w \in Worker : Put(w)
    BY <2>1, <2>3, PutLearns DEF BC!Next, BC!vars
  <2>4. CASE Next /\ ~ \E w \in Worker : Put(w)
    <3>1. UNCHANGED headers
      BY <2>4 DEF Next, Begin, Step, StorageError, ReadError, Crash, BeginGenesis,
         BeginHeader, BeginBatch, ValidateSkip, ValidateNew, ValidateEnd, Decide,
         PromoteTips, PromoteReplace
    <3>2. CASE UNCHANGED <<canonical, best>>
      BY <3>1, <3>2 DEF BC!vars
    <3>3. CASE /\ best' \in DOMAIN headers /\ canonical' = ChainTo(best')
               /\ best # NoHash => headers[best'].work > headers[best].work
      <4>1. best # NoHash => best \in DOMAIN headers
        BY <2>1 DEF IInv, TypeOK
      <4>. QED BY <3>1, <3>3, <4>1 DEF BC!Next, BC!Promote, BC!Path, ChainTo
    <3>. QED BY <2>1, <2>4, <3>2, <3>3, TipMoves
  <2>. QED BY <2>1, <2>2, <2>3, <2>4
<1>. QED BY <1>1, <1>2, Invariance, OneWriterInvariance, PTL
     DEF Spec, ImplementsBestChain, BC!Spec

-----------------------------------------------------------------------------
(* From here on: one writer, whose reads may fail. *)
OneCaller == \A v, w \in Worker : v = w

(* The one call that moves is the only one there is. *)
LEMMA OnlyCall ==
  ASSUME OneCaller, IInv, NEW w \in Worker, NEW c, call' = [call EXCEPT ![w] = c]
  PROVE  \A v \in Worker : call'[v] = c
  BY DEF OneCaller, IInv, TypeOK

LEMMA HeaviestReturn ==
  ASSUME OneCaller, IInv, NEW w \in Worker, NEW r, Return(w, r)
  PROVE  HeaviestInv'
<1>. DEFINE c == [Idle EXCEPT !.result = r]
<1>1. c.pc = "idle"
  BY DEF Idle
<1>2. call' = [call EXCEPT ![w] = c]
  BY DEF Return
<1>. HIDE DEF c
<1>3. \A v \in Worker : call'[v].pc = "idle"
  BY <1>1, <1>2, OnlyCall
<1>. QED BY <1>3 DEF HeaviestInv, HeaviestKept

LEMMA HeaviestBegin ==
  ASSUME OneCaller, IInv, NEW w \in Worker, Begin(w)
  PROVE  HeaviestInv'
<1>1. ASSUME BeginGenesis(w) PROVE HeaviestInv'
  <2>. DEFINE c == [Idle EXCEPT !.op = "genesis", !.pc = "put", !.accepted = <<GenesisRow>>,
                                !.promote = "replace", !.upto = 1]
  <2>1. c.promote = "replace" /\ c.accepted = <<GenesisRow>> /\ c.upto = 1
    BY IdleFacts DEF Call
  <2>2. call' = [call EXCEPT ![w] = c]
    BY <1>1 DEF BeginGenesis
  <2>. HIDE DEF c
  <2>3. \A v \in Worker : call'[v] = c
    BY <2>2, OnlyCall
  <2>4. NoHeavier(<<GenesisRow>>, <<GenesisRow>>[1].work)
    BY HeaderAssumption, WorkAssumption DEF NoHeavier, GenesisRow
  <2>. QED BY <2>1, <2>3, <2>4 DEF HeaviestInv, HeaviestKept
<1>2. ASSUME NEW h \in Singles, BeginHeader(w, h) PROVE HeaviestInv'
  <2>1. CASE Verdict(h, DOMAIN headers) # "Ok"
    BY <1>2, <2>1, HeaviestReturn DEF BeginHeader
  <2>2. CASE Verdict(h, DOMAIN headers) = "Ok"
    <3>1. PICK rows : call' = [call EXCEPT ![w] =
                                 [Idle EXCEPT !.op = "header", !.pc = "put", !.accepted = rows]]
      BY <1>2, <2>2 DEF BeginHeader
    <3>. DEFINE c == [Idle EXCEPT !.op = "header", !.pc = "put", !.accepted = rows]
    <3>2. c.promote = "none" /\ c.op = "header"
      BY IdleFacts DEF Call
    <3>. HIDE DEF c
    <3>3. \A v \in Worker : call'[v] = c
      BY <3>1, OnlyCall DEF c
    <3>. QED BY <3>2, <3>3 DEF HeaviestInv, HeaviestKept
  <2>. QED BY <2>1, <2>2
<1>3. ASSUME NEW b \in Batches, BeginBatch(w, b) PROVE HeaviestInv'
  <2>. DEFINE c == [Idle EXCEPT !.op = "batch", !.pc = "validate", !.batch = b]
  <2>1. c.pc = "validate"
    BY IdleFacts DEF Call
  <2>2. call' = [call EXCEPT ![w] = c]
    BY <1>3 DEF BeginBatch
  <2>. HIDE DEF c
  <2>3. \A v \in Worker : call'[v] = c
    BY <2>2, OnlyCall
  <2>. QED BY <2>1, <2>3 DEF HeaviestInv, HeaviestKept
<1>. QED BY <1>1, <1>2, <1>3 DEF Begin

LEMMA HeaviestValidate ==
  ASSUME OneCaller, IInv, NEW w \in Worker,
         ValidateSkip(w) \/ ValidateNew(w) \/ ValidateEnd(w)
  PROVE  HeaviestInv'
<1>0. call \in [Worker -> Call] /\ call[w].pc = "validate"
  BY DEF ValidateSkip, ValidateNew, ValidateEnd, IInv, TypeOK
<1>1. CASE \E r : Return(w, r)
  BY <1>1, HeaviestReturn
<1>2. CASE call'[w].pc \notin {"put", "promote"}
  BY <1>2 DEF OneCaller, HeaviestInv, HeaviestKept
<1>3. ASSUME ~ \E r : Return(w, r) PROVE call'[w].pc \notin {"put", "promote"}
  <2>1. CASE ValidateSkip(w)
    BY <1>0, <2>1 DEF ValidateSkip, Call
  <2>2. CASE ValidateNew(w)
    <3>1. PICK row : call' = [call EXCEPT ![w].next = @ + 1, ![w].accepted = Append(@, row)]
      BY <1>3, <2>2 DEF ValidateNew
    <3>. QED BY <1>0, <3>1 DEF Call
  <2>3. CASE ValidateEnd(w)
    BY <1>0, <1>3, <2>3 DEF ValidateEnd, Call
  <2>. QED BY <2>1, <2>2, <2>3
<1>. QED BY <1>1, <1>2, <1>3

(* What a call knows when it decides: one of its rows is the heaviest, and *)
(* if none is promoted the best header, which exists, is no lighter.       *)
LEMMA DecisionFacts ==
  ASSUME IInv, NEW w \in Worker, call[w].pc = "decide", NEW b \in BestReads
  PROVE  LET rows == call[w].accepted
         IN /\ NoHeavier(rows, rows[BestIndex(rows)].work)
            /\ Promotion(b, rows) = "none" => best # NoHash /\ NoHeavier(rows, headers[best].work)
<1>. DEFINE rows == call[w].accepted
            n == BestIndex(rows)
<1>1. rows \in Seq(Row) /\ rows # << >>
  BY DEF IInv, TypeOK, Call, CallSound
<1>2. /\ n \in 1 .. Len(rows) /\ NoHeavier(rows, rows[n].work)
      /\ \A i \in 1 .. Len(rows) : rows[i].work \in Nat
  <2>1. \A i \in 1 .. Len(rows) : rows[i] \in Row
    BY <1>1, ElementOfSeq
  <2>. QED BY <1>1, <2>1, BestIndexRange DEF Row
<1>3. ASSUME Promotion(b, rows) = "none" PROVE best # NoHash /\ NoHeavier(rows, headers[best].work)
  <2>1. b # NoHash /\ rows[n].work <= headers[b].work
    <3>. HIDE DEF rows
    <3>. QED BY <1>3 DEF Promotion
  <2>2. b = best
    BY <2>1 DEF BestReads
  <2>3. headers[best].work \in Nat
    BY <2>1, <2>2 DEF IInv, TypeOK
  <2>. HIDE DEF rows, n
  <2>. QED BY <1>2, <2>1, <2>2, <2>3 DEF NoHeavier
<1>. QED BY <1>2, <1>3

LEMMA HeaviestDecide ==
  ASSUME OneCaller, IInv, NEW w \in Worker, Decide(w)
  PROVE  HeaviestInv'
<1>. DEFINE rows == call[w].accepted
            n == BestIndex(rows)
<1>0. /\ call[w] \in Call /\ call[w].pc = "decide" /\ UNCHANGED <<headers, best>>
  BY DEF IInv, TypeOK, Decide
<1>1. PICK b \in BestReads :
        \/ \E r : Return(w, r)
        \/ call' = [call EXCEPT ![w].pc = "put", ![w].promote = Promotion(b, rows), ![w].upto = n]
        \/ /\ Promotion(b, rows) # "none"
           /\ call' = [call EXCEPT ![w].pc = "promote", ![w].promote = Promotion(b, rows),
                                   ![w].upto = n]
  BY DEF Decide
<1>2. CASE \E r : Return(w, r)
  BY <1>2, HeaviestReturn
<1>3. ASSUME NEW pc \in {"put", "promote"}, NEW how, how = Promotion(b, rows),
             pc = "promote" => how # "none",
             call' = [call EXCEPT ![w].pc = pc, ![w].promote = how, ![w].upto = n]
      PROVE  HeaviestInv'
  <2>. DEFINE c == [call[w] EXCEPT !.pc = pc, !.promote = how, !.upto = n]
  <2>1. c.pc = pc /\ c.promote = how /\ c.upto = n /\ c.accepted = rows
    BY <1>0 DEF Call
  <2>2. call' = [call EXCEPT ![w] = c]
    BY <1>3 DEF IInv, TypeOK
  <2>3. /\ NoHeavier(rows, rows[n].work)
        /\ how = "none" => best # NoHash /\ NoHeavier(rows, headers[best].work)
    BY <1>0, <1>3, DecisionFacts
  <2>. HIDE DEF c, rows, n
  <2>4. \A v \in Worker : call'[v] = c
    BY <2>2, OnlyCall
  <2>. QED BY <1>0, <1>3, <2>1, <2>3, <2>4 DEF HeaviestInv, HeaviestKept
<1>. QED BY <1>1, <1>2, <1>3

(* A put leaves the best header's row as it was. *)
LEMMA PutKeepsBest ==
  ASSUME IInv, NEW w \in Worker, Put(w), best # NoHash
  PROVE  headers'[best] = headers[best]
<1>0. call[w] \in Call /\ CallSound(call[w]) /\ best \in DOMAIN headers
  BY DEF IInv, TypeOK
<1>1. PICK rows \in Seq(Row) : rows = call[w].accepted /\ RowsSound(rows)
  BY <1>0 DEF Call, CallSound
<1>2. CASE HashesOf(rows) \cap DOMAIN headers # {}
  BY <1>1, <1>2 DEF Put
<1>3. CASE HashesOf(rows) \cap DOMAIN headers = {}
  <2>1. StoreRows(rows)
    BY <1>1, <1>3 DEF Put
  <2>. QED BY <1>0, <1>1, <1>3, <2>1, PutStore
<1>. QED BY <1>2, <1>3

LEMMA HeaviestPut ==
  ASSUME OneCaller, IInv, HeaviestInv, NEW w \in Worker, Put(w)
  PROVE  HeaviestInv'
<1>0. /\ call[w] \in Call /\ call[w].pc = "put" /\ HeaviestKept(call[w])
  BY DEF IInv, TypeOK, Put, HeaviestInv
<1>1. CASE \E r : Return(w, r)
  BY <1>1, HeaviestReturn
<1>2. ASSUME NEW pc \in {"decide", "promote"}, call' = [call EXCEPT ![w].pc = pc],
             pc = "promote" => call[w].promote # "none"
      PROVE  HeaviestInv'
  <2>. DEFINE c == [call[w] EXCEPT !.pc = pc]
  <2>1. /\ c.pc = pc /\ c.promote = call[w].promote /\ c.upto = call[w].upto
        /\ c.accepted = call[w].accepted
    BY <1>0 DEF Call
  <2>2. call' = [call EXCEPT ![w] = c]
    BY <1>2 DEF IInv, TypeOK
  <2>. HIDE DEF c
  <2>3. \A v \in Worker : call'[v] = c
    BY <2>2, OnlyCall
  <2>. QED BY <1>0, <1>2, <2>1, <2>3 DEF HeaviestInv, HeaviestKept
<1>. QED BY <1>1, <1>2 DEF Put

LEMMA HeaviestStep ==
  ASSUME OneCaller PROVE IInv /\ HeaviestInv /\ [Next]_vars => HeaviestInv'
<1>. SUFFICES ASSUME IInv, HeaviestInv, [Next]_vars PROVE HeaviestInv'
  OBVIOUS
<1>1. ASSUME NEW w \in Worker, Begin(w) \/ Step(w) PROVE HeaviestInv'
  BY <1>1, HeaviestBegin, HeaviestValidate, HeaviestDecide, HeaviestPut, HeaviestReturn
  DEF Step, PromoteTips, PromoteReplace
<1>2. ASSUME NEW w \in Worker, StorageError(w) \/ ReadError(w) PROVE HeaviestInv'
  BY <1>2, HeaviestReturn DEF StorageError, ReadError
<1>3. CASE Crash
  BY <1>3 DEF Crash, HeaviestInv, HeaviestKept, Idle
<1>4. CASE UNCHANGED vars
  BY <1>4 DEF vars, HeaviestInv, HeaviestKept
<1>. QED BY <1>1, <1>2, <1>3, <1>4 DEF Next

LEMMA HeaviestInvariance == ASSUME OneCaller PROVE Spec => []HeaviestInv
<1>1. Init => HeaviestInv
  BY DEF Init, HeaviestInv, HeaviestKept, Idle
<1>2. IInv /\ HeaviestInv /\ [Next]_vars => HeaviestInv'
  BY HeaviestStep
<1>. QED BY <1>1, <1>2, Invariance, PTL DEF Spec

(* Only five steps end a call with Ok. *)
LEMMA WhoSucceeds ==
  ASSUME OneCaller, IInv, NEW w \in Worker, Succeeds(w), Next
  PROVE  \/ call[w].accepted = << >>
         \/ Decide(w) \/ Put(w) \/ PromoteTips(w) \/ PromoteReplace(w)
<1>0. /\ call \in [Worker -> Call] /\ call[w].pc # "idle"
      /\ call'[w].pc = "idle" /\ call'[w].result = "Ok"
  BY DEF Succeeds, IInv, TypeOK
<1>1. \A r : Return(w, r) => r = "Ok"
  BY <1>0 DEF Return, Idle
<1>2. ~Begin(w)
  BY <1>0 DEF Begin, BeginGenesis, BeginHeader, BeginBatch
<1>3. ~ValidateSkip(w)
  BY <1>0 DEF ValidateSkip, Call
<1>4. ~ValidateNew(w)
  <2>1. SUFFICES ASSUME ValidateNew(w) PROVE FALSE
    OBVIOUS
  <2>2. ~ \E r : r # "Ok" /\ Return(w, r)
    BY <1>1
  <2>3. PICK row : call' = [call EXCEPT ![w].next = @ + 1, ![w].accepted = Append(@, row)]
    BY <2>1, <2>2 DEF ValidateNew
  <2>. QED BY <1>0, <2>1, <2>3 DEF ValidateNew, Call
<1>5. ValidateEnd(w) => call[w].accepted = << >>
  BY <1>0 DEF ValidateEnd, Call
<1>6. ~(StorageError(w) \/ ReadError(w))
  BY <1>1 DEF StorageError, ReadError
<1>7. ~Crash
  BY <1>0 DEF Crash, Idle
<1>. QED BY <1>2, <1>3, <1>4, <1>5, <1>6, <1>7 DEF OneCaller, Next, Step

LEMMA SuccessIsHeaviest ==
  ASSUME OneCaller, IInv, HeaviestInv, NEW w \in Worker, Succeeds(w), Next,
         call[w].accepted # << >>
  PROVE  best' # NoHash /\ NoHeavier(call[w].accepted, headers'[best'].work)
<1>0. /\ call \in [Worker -> Call] /\ HeaviestKept(call[w])
      /\ call'[w].pc = "idle" /\ call'[w].result = "Ok"
  BY DEF Succeeds, IInv, TypeOK, HeaviestInv
<1>1. CASE Decide(w)
  <2>1. \E b \in BestReads : Promotion(b, call[w].accepted) = "none"
    BY <1>0, <1>1 DEF Decide, Call
  <2>. QED BY <1>1, <2>1, DecisionFacts DEF Decide
<1>2. CASE Put(w)
  <2>1. /\ call[w].pc = "put" /\ call[w].op # "header" /\ call[w].promote = "none"
        /\ UNCHANGED best
    <3>1. ~Return(w, "DuplicateHeader")
      BY <1>0 DEF Return, Idle
    <3>. QED BY <1>0, <1>2, <3>1 DEF Put, Call
  <2>2. best # NoHash /\ NoHeavier(call[w].accepted, headers[best].work)
    BY <1>0, <2>1 DEF HeaviestKept
  <2>. QED BY <1>2, <2>1, <2>2, PutKeepsBest
<1>3. CASE PromoteTips(w) \/ PromoteReplace(w)
  <2>1. /\ call[w].pc = "promote" /\ best' = call[w].accepted[call[w].upto].hash
        /\ UNCHANGED headers
    BY <1>3 DEF PromoteTips, PromoteReplace
  <2>2. best' \in DOMAIN headers /\ headers[best'].work = call[w].accepted[call[w].upto].work
    BY <2>1, PlanFacts
  <2>3. call[w].promote # "none"
    BY <1>3 DEF PromoteTips, PromoteReplace
  <2>4. NoHeavier(call[w].accepted, call[w].accepted[call[w].upto].work)
    BY <1>0, <2>1, <2>3 DEF HeaviestKept
  <2>5. best' # NoHash
    BY <2>2, HeaderAssumption DEF IInv, TypeOK
  <2>. QED BY <2>1, <2>2, <2>4, <2>5
<1>. QED BY <1>1, <1>2, <1>3, WhoSucceeds

(* With one writer, insert_header and insert_headers never return Ok while *)
(* a header they accepted is heavier than the best one, whatever order the *)
(* batch has, whichever reads fail and whatever was interrupted before.    *)
THEOREM SuccessSelectsHeaviest == ASSUME OneCaller PROVE Spec => AcceptedNotHeavier
<1>1. IInv /\ HeaviestInv /\ [Next]_vars =>
        [\A w \in Worker : Succeeds(w) =>
           \A i \in 1 .. Len(call[w].accepted) :
             best' # NoHash /\ call[w].accepted[i].work <= headers'[best'].work]_vars
  <2>1. SUFFICES ASSUME IInv, HeaviestInv, Next, NEW w \in Worker, Succeeds(w),
                        NEW i \in 1 .. Len(call[w].accepted)
                 PROVE  best' # NoHash /\ call[w].accepted[i].work <= headers'[best'].work
    OBVIOUS
  <2>2. call[w].accepted # << >>
    OBVIOUS
  <2>. QED BY <2>1, <2>2, SuccessIsHeaviest DEF NoHeavier
<1>. QED BY <1>1, Invariance, HeaviestInvariance, PTL DEF Spec, AcceptedNotHeavier
=============================================================================
