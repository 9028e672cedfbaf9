--------------------------- MODULE HeaderSyncProofs ---------------------------
(***************************************************************************)
(* A sync tick keeps to HeaderChain: SyncInv is inductive, every step of   *)
(* SyncNext is a step of HeaderChain or leaves the store alone, and so     *)
(* what HeaderChainProofs proves of the store holds while ticks run.       *)
(*                                                                         *)
(* And what ticks do to the peer records: PeersInv is inductive, so bans   *)
(* outlive the tick that decided them, and every table they leave is one   *)
(* of which PeerRulesProofs proves what the selections promise.            *)
(*                                                                         *)
(* Last, peers that answer by the protocol: with one writer and sound      *)
(* reads the page such a peer sends after our locator is inserted unless   *)
(* the storage fails, so its record never shows more than the failures to  *)
(* reach it, whatever the other peers do.                                  *)
(***************************************************************************)
EXTENDS HeaderSync, HeaderChainProofs, PeerRulesProofs

-----------------------------------------------------------------------------
(* What one thread does in the store leaves the calls of the others. *)
LEMMA OthersKeepTheirCall ==
  ASSUME TypeOK, NEW w \in Worker, NEW v \in Worker \ {w},
         \/ Step(w) \/ StorageError(w) \/ BeginGenesis(w)
         \/ \E b \in Batches : BeginBatch(w, b)
  PROVE  call'[v] = call[v]
<1>1. call \in [Worker -> Call]
  BY DEF TypeOK
<1>2. ASSUME NEW c, call' = [call EXCEPT ![w] = c] PROVE call'[v] = call[v]
  BY <1>1, <1>2
<1>3. CASE ValidateSkip(w)
  BY <1>1, <1>3 DEF ValidateSkip
<1>4. CASE ValidateNew(w)
  BY <1>1, <1>4 DEF ValidateNew, Return
<1>5. CASE ValidateEnd(w)
  BY <1>1, <1>5 DEF ValidateEnd, Return
<1>6. CASE Decide(w)
  BY <1>1, <1>6 DEF Decide, Return
<1>7. CASE Put(w)
  BY <1>1, <1>7 DEF Put, Return
<1>8. CASE PromoteTips(w) \/ PromoteReplace(w) \/ StorageError(w)
  BY <1>1, <1>8 DEF PromoteTips, PromoteReplace, StorageError, Return
<1>9. CASE BeginGenesis(w) \/ \E b \in Batches : BeginBatch(w, b)
  BY <1>1, <1>9 DEF BeginGenesis, BeginBatch
<1>. QED
  BY <1>3, <1>4, <1>5, <1>6, <1>7, <1>8, <1>9 DEF Step

(* A store that has a best header keeps having one. *)
LEMMA BestStays ==
  ASSUME IInv, NEW w \in Worker, best # NoHash,
         \/ Step(w) \/ StorageError(w) \/ BeginGenesis(w)
         \/ \E b \in Batches : BeginBatch(w, b)
  PROVE  best' # NoHash
<1>1. CASE PromoteTips(w) \/ PromoteReplace(w)
  <2>1. /\ call[w].pc = "promote" /\ call[w].promote # "none"
        /\ best' = call[w].accepted[call[w].upto].hash
    BY <1>1 DEF PromoteTips, PromoteReplace
  <2>2. call[w] \in Call /\ CallSound(call[w])
    BY DEF IInv, TypeOK
  <2>3. call[w].accepted \in Seq(Row) /\ call[w].upto \in 1 .. Len(call[w].accepted)
    BY <2>1, <2>2 DEF CallSound, Call
  <2>4. call[w].accepted[call[w].upto] \in Row
    BY <2>3, ElementOfSeq
  <2>. QED
    BY <2>1, <2>4, HeaderAssumption DEF Row
<1>2. CASE ~(PromoteTips(w) \/ PromoteReplace(w))
  BY <1>2 DEF Step, ValidateSkip, ValidateNew, ValidateEnd, Decide, Put, StorageError,
              BeginGenesis, BeginBatch
<1>. QED
  BY <1>1, <1>2

(* insert_genesis ends with a best header, or not with Ok. *)
LEMMA GenesisProceeds ==
  ASSUME IInv, Me \in Worker, GenesisUnderWay(call[Me]), Step(Me) \/ StorageError(Me)
  PROVE  GenesisUnderWay(call[Me])'
<1>0. call \in [Worker -> Call] /\ call[Me] \in Call /\ CallSound(call[Me])
  BY DEF IInv, TypeOK
<1>1. call[Me].pc \in {"put", "promote"} /\ call[Me].op = "genesis" /\ call[Me].promote = "replace"
  BY DEF GenesisUnderWay, Step, StorageError, ValidateSkip, ValidateNew, ValidateEnd, Decide,
         Put, PromoteTips, PromoteReplace
<1>2. CASE Put(Me)
  <2>1. CASE call' = [call EXCEPT ![Me] = [Idle EXCEPT !.result = "DuplicateHeader"]]
    BY <1>0, <2>1 DEF GenesisUnderWay, Idle
  <2>2. CASE call' = [call EXCEPT ![Me].pc = "promote"]
    <3>1. call'[Me].pc = "promote" /\ call'[Me].op = "genesis" /\ call'[Me].promote = "replace"
      BY <1>0, <1>1, <2>2 DEF Call
    <3>. QED
      BY <3>1 DEF GenesisUnderWay
  <2>. QED
    BY <1>1, <1>2, <2>1, <2>2 DEF Put, Return
<1>3. CASE PromoteReplace(Me)
  <2>1. call'[Me].pc = "idle"
    BY <1>0, <1>3 DEF PromoteReplace, Return, Idle
  <2>2. call[Me].accepted \in Seq(Row) /\ call[Me].upto \in 1 .. Len(call[Me].accepted)
    BY <1>0, <1>1 DEF CallSound, Call
  <2>3. call[Me].accepted[call[Me].upto] \in Row
    BY <2>2, ElementOfSeq
  <2>4. best' # NoHash
    BY <1>3, <2>3, HeaderAssumption DEF PromoteReplace, Row
  <2>. QED
    BY <2>1, <2>4 DEF GenesisUnderWay
<1>4. CASE StorageError(Me)
  BY <1>0, <1>4 DEF StorageError, Return, GenesisUnderWay, Idle
<1>5. ~ValidateSkip(Me) /\ ~ValidateNew(Me) /\ ~ValidateEnd(Me) /\ ~Decide(Me) /\ ~PromoteTips(Me)
  BY <1>1 DEF ValidateSkip, ValidateNew, ValidateEnd, Decide, PromoteTips
<1>. QED
  BY <1>2, <1>3, <1>4, <1>5 DEF Step

-----------------------------------------------------------------------------
(* What the tick does besides inserting headers leaves the store alone. *)
Quiet ==
  \/ GenesisDone \/ TickPeers
  \/ \E a \in Address : ProbeSucceeds(a) \/ ProbeFails(a)
  \/ RaceStart \/ RaceLost \/ JudgeRace
  \/ \E a \in Address : PeerConnects(a)
  \/ PeerRefuses \/ AskPeer \/ PeerFails \/ JudgePeer
  \/ DiscoverBegin \/ DiscoverPeer \/ DiscoverEnd
  \/ \E a \in Honest : Mine(a)
  \/ \E a \in Address : BanEnds(a)

Loud ==
  \/ TickBegin \/ ChainStep \/ (\E a \in Address : RaceWon(a)) \/ PeerAnswers
  \/ SyncCrash \/ OtherThread

LEMMA QuietOrLoud == SyncNext => Quiet \/ Loud
BY DEF SyncNext, Tick, Racers, OneByOne, Quiet, Loud

LEMMA QuietSteps ==
  ASSUME Quiet
  PROVE  UNCHANGED vars
<1>1. CASE GenesisDone \/ TickPeers
  BY <1>1 DEF GenesisDone, TickPeers
<1>2. CASE \E a \in Address : ProbeSucceeds(a) \/ ProbeFails(a)
  BY <1>2 DEF ProbeSucceeds, ProbeFails, ProbeAnswer
<1>3. CASE RaceStart \/ RaceLost \/ JudgeRace
  BY <1>3 DEF RaceStart, RaceLost, JudgeRace
<1>4. CASE (\E a \in Address : PeerConnects(a)) \/ PeerRefuses \/ AskPeer \/ PeerFails
  BY <1>4 DEF PeerConnects, PeerRefuses, AskPeer, PeerFails
<1>5. CASE JudgePeer \/ DiscoverBegin \/ DiscoverPeer \/ DiscoverEnd
  BY <1>5 DEF JudgePeer, DiscoverBegin, DiscoverPeer, DiscoverEnd
<1>6. CASE (\E a \in Honest : Mine(a)) \/ \E a \in Address : BanEnds(a)
  BY <1>6 DEF Mine, BanEnds
<1>. QED
  BY <1>1, <1>2, <1>3, <1>4, <1>5, <1>6 DEF Quiet

(* A page is one of the batches insert_headers may be called with. *)
LEMMA PagesAreBatches ==
  ASSUME SyncInv, run.pc = "wait", NEW a, NEW page \in Pages(a)
  PROVE  page \in Batches
<1>1. CASE a \in Honest
  <2>1. view[a] \in Header /\ run.from \in Header
    BY <1>1 DEF SyncInv
  <2>. QED
    BY <1>1, <2>1, PageAssumption DEF Pages
<1>2. CASE a \notin Honest
  BY <1>2, PageAssumption DEF Pages
<1>. QED
  BY <1>1, <1>2

(* Every step of a tick is a step of HeaderChain, or leaves it alone. *)
LEMMA StepsOfHeaderChain ==
  ASSUME SyncInv, [SyncNext]_svars
  PROVE  [Next]_vars
<1>0. Me \in Worker
  BY SyncAssumption
<1>1. CASE Quiet
  BY <1>1, QuietSteps
<1>2. CASE TickBegin \/ ChainStep
  BY <1>0, <1>2 DEF TickBegin, ChainStep, Next, Begin
<1>3. ASSUME NEW a \in Address, RaceWon(a) PROVE [Next]_vars
  <2>1. run.pc = "wait" /\ \E page \in Pages(a) : UNCHANGED vars \/ BeginBatch(Me, page)
    BY <1>3 DEF RaceWon
  <2>. QED
    BY <1>0, <2>1, PagesAreBatches DEF Next, Begin
<1>4. CASE PeerAnswers
  <2>1. run.pc = "wait" /\ \E page \in Pages(run.peer) : UNCHANGED vars \/ BeginBatch(Me, page)
    BY <1>4 DEF PeerAnswers
  <2>. QED
    BY <1>0, <2>1, PagesAreBatches DEF Next, Begin
<1>5. CASE SyncCrash
  BY <1>5 DEF SyncCrash, Next
<1>6. CASE OtherThread
  BY <1>6 DEF OtherThread, Next, Begin
<1>7. CASE UNCHANGED svars
  BY <1>7 DEF svars
<1>. QED
  BY <1>1, <1>2, <1>3, <1>4, <1>5, <1>6, <1>7, QuietOrLoud DEF Loud

-----------------------------------------------------------------------------
(* Where a quiet step leaves the tick: it never enters the genesis, and    *)
(* it leaves the genesis only when that returned Ok.                       *)
Locals(r) ==
  /\ IsRun(r)
  /\ r.pc # "genesis"
  /\ r.pc # "off" => best # NoHash
  /\ r.pc = "wait" => r.from \in Header

LEMMA OffLocals == IsRun(Off) /\ Off.pc = "off" /\ Locals(Off)
BY DEF IsRun, Off, Stage, Locals

LEMMA FetchLocals ==
  ASSUME NEW p, best # NoHash
  PROVE  Locals(Fetch(p))
BY DEF IsRun, Off, Stage, Locals, Fetch

LEMMA QuietLocals ==
  ASSUME SyncInv, Quiet, ~ \E a \in Honest : Mine(a)
  PROVE  run' = run \/ Locals(run')
<1>0. IsRun(run) /\ (run.pc \notin {"off", "genesis"} => best # NoHash)
  BY DEF SyncInv
<1>1. best # NoHash => best \in Header
  BY DEF SyncInv, IInv, TypeOK
<1>2. CASE GenesisDone
  <2>1. CASE call[Me].result = "Ok"
    <3>1. best # NoHash
      BY <1>2, <2>1 DEF GenesisDone, SyncInv, GenesisUnderWay
    <3>. QED
      BY <1>0, <1>2, <2>1, <3>1 DEF GenesisDone, Locals, IsRun, Stage
  <2>. QED
    BY <1>2, <2>1, OffLocals DEF GenesisDone
<1>3. CASE TickPeers
  <2>1. best # NoHash
    BY <1>0, <1>3 DEF TickPeers
  <2>2. \/ \E p : run' = Fetch(p)
        \/ \E todo : run' = [Off EXCEPT !.pc = "probe", !.todo = todo]
    BY <1>3 DEF TickPeers
  <2>. QED
    BY <2>1, <2>2, FetchLocals DEF Locals, IsRun, Off, Stage
<1>4. CASE \E a \in Address : ProbeSucceeds(a) \/ ProbeFails(a)
  <2>1. PICK a, p : a \in Address /\ ProbeAnswer(a, p)
    BY <1>4 DEF ProbeSucceeds, ProbeFails
  <2>2. best # NoHash
    BY <1>0, <2>1 DEF ProbeAnswer
  <2>3. \/ \E q : run' = Fetch(q)
        \/ \E todo : run' = [run EXCEPT !.todo = todo] /\ run.pc = "probe"
    BY <2>1 DEF ProbeAnswer
  <2>. QED
    BY <1>0, <2>2, <2>3, FetchLocals DEF Locals, IsRun, Off, Stage
<1>5. CASE RaceStart \/ AskPeer
  BY <1>0, <1>1, <1>5, OffLocals DEF RaceStart, AskPeer, Leave, Locals, IsRun, Off, Stage
<1>6. CASE RaceLost \/ DiscoverEnd
  BY <1>6, OffLocals DEF RaceLost, DiscoverEnd, Leave
<1>7. CASE JudgeRace
  BY <1>0, <1>7, OffLocals DEF JudgeRace, Leave, Locals, IsRun, Off, Stage
<1>8. CASE JudgePeer
  BY <1>0, <1>8, OffLocals DEF JudgePeer, LeaveUnsaved, NextPeer, Locals, IsRun, Off, Stage
<1>9. CASE (\E a \in Address : PeerConnects(a)) \/ PeerRefuses \/ PeerFails
  BY <1>0, <1>9 DEF PeerConnects, PeerRefuses, PeerFails, NextPeer, Locals, IsRun, Off, Stage
<1>10. CASE DiscoverBegin \/ DiscoverPeer
  BY <1>0, <1>10, OffLocals DEF DiscoverBegin, DiscoverPeer, Leave, Locals, IsRun, Off, Stage
<1>11. CASE \E a \in Address : BanEnds(a)
  BY <1>11 DEF BanEnds
<1>. QED
  BY <1>2, <1>3, <1>4, <1>5, <1>6, <1>7, <1>8, <1>9, <1>10, <1>11 DEF Quiet

-----------------------------------------------------------------------------
(* The rest of SyncInv after a step that did not touch the honest peers'   *)
(* chains.                                                                 *)
TickInv ==
  /\ IsRun(run)
  /\ run.pc = "genesis" => GenesisUnderWay(call[Me])
  /\ run.pc \notin {"off", "genesis"} => best # NoHash
  /\ run.pc = "wait" => run.from \in Header

LEMMA LocalsSuffice ==
  ASSUME Locals(run'), best # NoHash => best' # NoHash
  PROVE  TickInv'
BY DEF Locals, TickInv, IsRun

LEMMA LoudSteps ==
  ASSUME SyncInv, Loud
  PROVE  TickInv'
<1>0. Me \in Worker /\ TickInv /\ IInv /\ TypeOK
  BY SyncAssumption DEF SyncInv, TickInv, IInv
<1>1. CASE TickBegin
  <2>1. CASE BeginGenesis(Me) /\ run' = [Off EXCEPT !.pc = "genesis"]
    <3>1. GenesisUnderWay(call[Me])'
      BY <1>0, <2>1 DEF BeginGenesis, GenesisUnderWay, TypeOK, Idle
    <3>2. IsRun(run') /\ run'.pc = "genesis"
      BY <2>1 DEF IsRun, Off, Stage
    <3>. QED
      BY <3>1, <3>2 DEF TickInv
  <2>2. CASE best # NoHash /\ UNCHANGED vars /\ run' = [Off EXCEPT !.pc = "start"]
    <3>1. Locals(run')
      BY <2>2 DEF Locals, IsRun, Off, Stage
    <3>. QED
      BY <2>2, <3>1, LocalsSuffice DEF vars
  <2>. QED
    BY <1>1, <2>1, <2>2 DEF TickBegin
<1>2. CASE ChainStep
  <2>1. Step(Me) \/ StorageError(Me)
    BY <1>2 DEF ChainStep
  <2>2. best # NoHash => best' # NoHash
    BY <1>0, <2>1, BestStays
  <2>3. CASE run.pc = "genesis"
    <3>1. GenesisUnderWay(call[Me])'
      BY <1>0, <2>1, <2>3, GenesisProceeds DEF TickInv
    <3>. QED
      BY <1>0, <1>2, <2>3, <3>1 DEF ChainStep, TickInv
  <2>4. CASE run.pc # "genesis"
    <3>1. Locals(run')
      BY <1>0, <1>2, <2>4 DEF ChainStep, TickInv, Locals, IsRun, Off, Stage
    <3>. QED
      BY <2>2, <3>1, LocalsSuffice
  <2>. QED
    BY <2>3, <2>4
<1>3. CASE (\E a \in Address : RaceWon(a)) \/ PeerAnswers
  <2>1. best # NoHash /\ best' = best
    BY <1>0, <1>3 DEF RaceWon, PeerAnswers, TickInv, BeginBatch, vars
  <2>2. Locals(run')
    BY <1>0, <1>3, <2>1, OffLocals, ZenonT(30)
    DEF RaceWon, PeerAnswers, Leave, NextPeer, TickInv, Locals, IsRun, Off, Stage
  <2>. QED
    BY <2>1, <2>2, LocalsSuffice
<1>4. CASE SyncCrash
  <2>1. run' = Off /\ best' = best
    BY <1>4 DEF SyncCrash, LeaveUnsaved, Crash, vars
  <2>. QED
    BY <2>1, OffLocals, LocalsSuffice
<1>5. CASE OtherThread
  <2>1. PICK w \in Worker \ {Me} :
          \/ Step(w) \/ StorageError(w) \/ BeginGenesis(w)
          \/ \E b \in Batches : BeginBatch(w, b)
    BY <1>5 DEF OtherThread
  <2>2. call'[Me] = call[Me]
    BY <1>0, <2>1, OthersKeepTheirCall
  <2>3. best # NoHash => best' # NoHash
    BY <1>0, <2>1, BestStays
  <2>. QED
    BY <1>0, <1>5, <2>2, <2>3 DEF OtherThread, TickInv, GenesisUnderWay
<1>. QED
  BY <1>1, <1>2, <1>3, <1>4, <1>5 DEF Loud

LEMMA SyncInitInvariant == SyncInit => SyncInv
<1>. SUFFICES ASSUME SyncInit PROVE SyncInv
  OBVIOUS
<1>1. IInv
  BY InitInvariant DEF SyncInit
<1>. QED
  BY <1>1, OffLocals, SyncAssumption DEF SyncInit, NoTickYet, SyncInv

LEMMA SyncStepKeeps == SyncInv /\ [SyncNext]_svars => SyncInv'
<1>. SUFFICES ASSUME SyncInv, [SyncNext]_svars PROVE SyncInv'
  OBVIOUS
<1>1. IInv'
  BY StepsOfHeaderChain, StepKeeps DEF SyncInv
<1>2. view' \in [Honest -> Header]
  <2>1. CASE \E a \in Honest : Mine(a)
    <3>1. PICK a \in Honest : Mine(a)
      BY <2>1
    <3>2. PICK n \in Len(view[a]) + 1 .. Len(LastView[a]) :
            view' = [view EXCEPT ![a] = SubSeq(LastView[a], 1, n)]
      BY <3>1 DEF Mine
    <3>3. view[a] \in Seq(Label) /\ LastView[a] \in Seq(Label)
      BY SyncAssumption, HeaderAssumption DEF SyncInv
    <3>4. n \in 1 .. Len(LastView[a])
      BY <3>3, LenProperties
    <3>. QED
      BY <3>2, <3>4, SyncAssumption DEF SyncInv
  <2>2. CASE UNCHANGED view
    BY <2>2 DEF SyncInv
  <2>3. CASE ~(\E a \in Honest : Mine(a)) /\ SyncNext
    <3>1. UNCHANGED view
      BY <2>3
      DEF SyncNext, Tick, Racers, OneByOne, TickBegin, GenesisDone, TickPeers, ProbeSucceeds,
          ProbeFails, ProbeAnswer, ChainStep, RaceStart, RaceWon, RaceLost, JudgeRace,
          PeerConnects, PeerRefuses, AskPeer, PeerAnswers, PeerFails, JudgePeer,
          DiscoverBegin, DiscoverPeer, DiscoverEnd, BanEnds, SyncCrash, OtherThread
    <3>. QED
      BY <2>2, <3>1
  <2>. QED
    BY <2>1, <2>2, <2>3 DEF svars
<1>3. TickInv
  BY DEF SyncInv, TickInv
<1>4. TickInv'
  <2>1. CASE Loud
    BY <2>1, LoudSteps
  <2>2. CASE Quiet /\ ~ \E a \in Honest : Mine(a)
    <3>1. UNCHANGED vars
      BY <2>2, QuietSteps
    <3>2. CASE run' = run
      BY <1>3, <3>1, <3>2 DEF TickInv, GenesisUnderWay, vars
    <3>3. CASE Locals(run')
      BY <3>1, <3>3, LocalsSuffice DEF vars
    <3>. QED
      BY <2>2, <3>2, <3>3, QuietLocals
  <2>3. CASE (\E a \in Honest : Mine(a)) \/ UNCHANGED svars
    BY <1>3, <2>3 DEF Mine, svars, vars, TickInv, GenesisUnderWay
  <2>. QED
    BY <2>1, <2>2, <2>3, QuietOrLoud
<1>. QED
  BY <1>1, <1>2, <1>4 DEF SyncInv, TickInv

(* Past the genesis step a tick always has a best header to compare with   *)
(* and to ask after, whatever other threads, faults and peers do.          *)
THEOREM SyncInvariance == SyncSpec => []SyncInv
<1>1. SyncInit => SyncInv
  BY SyncInitInvariant
<1>2. SyncInv /\ [SyncNext]_svars => SyncInv'
  BY SyncStepKeeps
<1>. QED
  BY <1>1, <1>2, PTL DEF SyncSpec

(* The header store sees only HeaderChain's operations while ticks run. *)
THEOREM SyncImplements == SyncSpec => ImplementsHeaderChain
<1>1. SyncInit => Init
  BY DEF SyncInit
<1>2. SyncInv /\ [SyncNext]_svars => [Next]_vars
  BY StepsOfHeaderChain
<1>. QED
  BY <1>1, <1>2, SyncInvariance, PTL DEF SyncSpec, ImplementsHeaderChain, Spec

(* So the stored headers form one valid tree while ticks, races, lies and  *)
(* other threads' pages go on.                                             *)
THEOREM SyncStoreIsSound == SyncSpec => []StoreSound
BY SyncImplements, StoreIsSound, PTL DEF ImplementsHeaderChain

-----------------------------------------------------------------------------
(* The peer records of the ticks: no event but the end of a ban takes a    *)
(* banned peer off the banned ones.                                        *)
Kept(new, old) == IsTable(new) /\ Banned(old) \subseteq Banned(new)

LEMMA SameIsKept ==
  ASSUME NEW new, NEW old, SameBans(new, old)
  PROVE  Kept(new, old)
  BY DEF SameBans, Kept, Banned, Unbanned, IsBanned

LEMMA KeptTwice ==
  ASSUME NEW a, NEW b, NEW c, Kept(b, a), Kept(c, b)
  PROVE  Kept(c, a)
  BY DEF Kept

LEMMA EventsKept ==
  ASSUME NEW rows, IsTable(rows), NEW a \in Address, NEW h \in Nat
  PROVE  /\ Kept(RecordSuccess(rows, a, h, 0), rows)
         /\ Kept(RecordObservedHeight(rows, a, h, 0), rows)
         /\ Kept(RecordTransientFailure(rows, a), rows)
         /\ Kept(RecordStaleTip(rows, a), rows)
  BY EventsKeepBans, SameIsKept

LEMMA SeedsKept ==
  ASSUME NEW rows, IsTable(rows), NEW as \in SUBSET Address
  PROVE  Kept(Upsert(rows, as), rows)
  BY SeedsKeepBans, SameIsKept

LEMMA ChainFailureKept ==
  ASSUME NEW rows, IsTable(rows), NEW a \in Address, NEW result
  PROVE  /\ Kept(ChainFailure(rows, a, result), rows)
         /\ result \in Malformed => a \in Banned(ChainFailure(rows, a, result))
<1>1. CASE result \in Malformed
  <2>1. \A t, n \in Nat : t + n # NoTime => BansOne(RecordMalformed(rows, a, t, n), rows, a, t + n)
    BY MalformedBans
  <2>2. PICK new : new = RecordMalformed(rows, a, 0, 1)
    OBVIOUS
  <2>3. BansOne(new, rows, a, 1)
    BY <2>1, <2>2 DEF NoTime
  <2>4. ChainFailure(rows, a, result) = new
    BY <1>1, <2>2, result \notin Stale DEF ChainFailure, Malformed, Stale
  <2>5. Kept(new, rows) /\ a \in Banned(new)
    BY <2>3 DEF BansOne, Kept, Banned, Unbanned, IsBanned
  <2>. QED BY <2>4, <2>5
<1>2. CASE result \notin Malformed
  <2>1. \/ ChainFailure(rows, a, result) = RecordStaleTip(rows, a)
        \/ ChainFailure(rows, a, result) = RecordTransientFailure(rows, a)
    BY <1>2 DEF ChainFailure
  <2>. QED BY <1>2, <2>1, EventsKept
<1>. QED BY <1>1, <1>2

LEMMA NoPeersIsTable == IsTable(NoPeers)
  BY DEF IsTable, NoPeers

-----------------------------------------------------------------------------
(* The parts of PeersInv after a step. *)
RunInv ==
  /\ run.pc # "probe" => run.todo \in Seq(Address)
  /\ AtPeer => run.peer \in Address /\ run.claimed \in Nat
  /\ AtPeer /\ ~Racing => run.todo # << >>

BeforePeers == {"off", "genesis", "start"}
BetweenSaves == {"next", "discover"}

LEMMA SavedStep ==
  ASSUME PeersInv, run.pc \notin BeforePeers, UNCHANGED caught, NEW p, Kept(p, peers), Keep(p), RunInv'
  PROVE  PeersInv'
  BY DEF PeersInv, RunInv, BeforePeers, Keep, Kept

LEMMA UnsavedStep ==
  ASSUME PeersInv, run.pc \notin BeforePeers, UNCHANGED caught, NEW p, Kept(p, peers),
         KeepUnsaved(p), run'.pc \in BetweenSaves, RunInv'
  PROVE  PeersInv'
  BY DEF PeersInv, RunInv, BeforePeers, BetweenSaves, KeepUnsaved, Kept

LEMMA UntouchedStep ==
  ASSUME PeersInv, UNCHANGED <<peers, table, caught>>, RunInv',
         run.pc \in BeforePeers => run'.pc \in BeforePeers,
         run.pc \in BetweenSaves => run'.pc \in BetweenSaves
  PROVE  PeersInv'
  BY DEF PeersInv, RunInv, BeforePeers, BetweenSaves

LEMMA OffRun ==
  ASSUME run' = Off
  PROVE  RunInv' /\ run'.pc = "off"
  BY DEF RunInv, Off, AtPeer

LEMMA LeavingStep ==
  ASSUME PeersInv, run.pc \notin BeforePeers, UNCHANGED caught, NEW p, Kept(p, peers), Leave(p)
  PROVE  PeersInv'
  BY OffRun, NoPeersIsTable DEF PeersInv, RunInv, BeforePeers, Leave, Kept

LEMMA NextPeerRun ==
  ASSUME SyncInv, PeersInv, run.pc # "probe", run.todo # << >>, run' = NextPeer("next")
  PROVE  RunInv' /\ run'.pc = "next"
<1>1. IsRun(run) /\ run.todo \in Seq(Address)
  BY DEF SyncInv, PeersInv
<1>2. run'.pc = "next" /\ run'.todo = Tail(run.todo)
  BY <1>1 DEF NextPeer, IsRun, Off
<1>3. Tail(run.todo) \in Seq(Address)
  BY <1>1, HeadTailProperties
<1>. QED BY <1>2, <1>3 DEF RunInv, AtPeer

LEMMA FetchRun ==
  ASSUME NEW p, IsTable(p), run' = Fetch(p)
  PROVE  RunInv' /\ run'.pc \in {"ask", "next"}
<1>1. SelectOutbound(p, OutboundPeers, 0) \in Seq(Address)
  BY SelectionsAreAddresses, SyncAssumption
<1>2. CASE Racing
  BY <1>2 DEF Fetch, Off, RunInv, AtPeer
<1>3. CASE ~Racing
  BY <1>1, <1>3 DEF Fetch, Off, RunInv, AtPeer
<1>. QED BY <1>2, <1>3

LEMMA ClaimsAreHeights ==
  ASSUME SyncInv, NEW a, NEW h \in ClaimedHeights(a)
  PROVE  h \in Nat
<1>1. CASE a \in Honest
  <2>1. view[a] \in Seq(Label) /\ h = Len(view[a])
    BY <1>1, HeaderAssumption DEF ClaimedHeights, SyncInv
  <2>. QED BY <2>1, LenProperties
<1>2. CASE a \notin Honest
  BY <1>2, SyncAssumption DEF ClaimedHeights
<1>. QED BY <1>1, <1>2

-----------------------------------------------------------------------------
LEMMA BeginKeepsPeers ==
  ASSUME SyncInv, PeersInv, TickBegin \/ GenesisDone
  PROVE  PeersInv'
<1>1. /\ run.pc \in BeforePeers /\ UNCHANGED <<peers, table, caught>>
      /\ \/ \E pc \in BeforePeers : run' = [Off EXCEPT !.pc = pc] \/ run' = [run EXCEPT !.pc = pc]
         \/ run' = Off
  BY DEF TickBegin, GenesisDone, BeforePeers
<1>2. IsRun(run) /\ run.todo \in Seq(Address)
  BY <1>1 DEF SyncInv, PeersInv, BeforePeers
<1>3. run'.pc \in BeforePeers /\ run'.todo \in Seq(Address)
  <2>1. ASSUME NEW pc \in BeforePeers, run' = [Off EXCEPT !.pc = pc]
        PROVE  run'.pc = pc /\ run'.todo = << >>
    BY <2>1 DEF Off
  <2>2. ASSUME NEW pc \in BeforePeers, run' = [run EXCEPT !.pc = pc]
        PROVE  run'.pc = pc /\ run'.todo = run.todo
    BY <1>2, <2>2 DEF IsRun, Off
  <2>3. CASE run' = Off
    BY <2>3 DEF Off, BeforePeers
  <2>4. << >> \in Seq(Address)
    OBVIOUS
  <2>. QED BY <1>1, <1>2, <2>1, <2>2, <2>3, <2>4
<1>4. RunInv'
  BY <1>3 DEF RunInv, AtPeer, BeforePeers
<1>. QED BY <1>1, <1>3, <1>4, UntouchedStep DEF BeforePeers, BetweenSaves

LEMMA TickPeersKeepsPeers ==
  ASSUME SyncInv, PeersInv, TickPeers
  PROVE  PeersInv'
<1>1. PICK seeded : /\ seeded \in SUBSET Address
                    /\ LET p == Upsert(table, seeded)
                       IN Keep(p) /\ \/ run' = Fetch(p)
                                     \/ \E todo : run' = [Off EXCEPT !.pc = "probe", !.todo = todo]
  BY SyncAssumption DEF TickPeers, Discovered
<1>2. Kept(Upsert(table, seeded), table) /\ caught \subseteq Banned(table) /\ UNCHANGED caught
  BY <1>1, SeedsKept DEF PeersInv, TickPeers
<1>3. IsTable(Upsert(table, seeded))
  BY <1>2 DEF Kept
<1>4. RunInv'
  <2>1. CASE run' = Fetch(Upsert(table, seeded))
    BY <1>3, <2>1, FetchRun
  <2>2. ASSUME NEW todo, run' = [Off EXCEPT !.pc = "probe", !.todo = todo] PROVE RunInv'
    BY <2>2 DEF RunInv, AtPeer, Off
  <2>. QED BY <1>1, <2>1, <2>2
<1>. QED BY <1>1, <1>2, <1>4 DEF PeersInv, RunInv, Keep, Kept

LEMMA ProbesKeepPeers ==
  ASSUME SyncInv, PeersInv, NEW a \in Address, ProbeSucceeds(a) \/ ProbeFails(a)
  PROVE  PeersInv'
<1>1. PICK p : Kept(p, peers) /\ ProbeAnswer(a, p)
  <2>1. CASE ProbeFails(a)
    BY <2>1, EventsKept DEF ProbeFails, PeersInv
  <2>2. CASE ProbeSucceeds(a)
    <3>1. PICK h \in ClaimedHeights(a), told \in {{}, Gossip} :
            ProbeAnswer(a, Upsert(RecordSuccess(peers, a, h, 0), told))
      BY <2>2 DEF ProbeSucceeds
    <3>2. Kept(RecordSuccess(peers, a, h, 0), peers) /\ told \in SUBSET Address
      BY ClaimsAreHeights, EventsKept, SyncAssumption DEF PeersInv
    <3>3. Kept(Upsert(RecordSuccess(peers, a, h, 0), told), RecordSuccess(peers, a, h, 0))
      BY <3>2, SeedsKept DEF Kept
    <3>. QED BY <3>1, <3>2, <3>3, KeptTwice
  <2>. QED BY <2>1, <2>2
<1>2. run.pc = "probe" /\ Keep(p) /\ UNCHANGED caught /\ IsTable(p)
  BY <1>1 DEF ProbeAnswer, Kept
<1>3. RunInv'
  <2>1. CASE run' = Fetch(p)
    BY <1>2, <2>1, FetchRun
  <2>2. ASSUME NEW todo, run' = [run EXCEPT !.todo = todo] PROVE RunInv'
    BY <1>2, <2>2 DEF RunInv, AtPeer, Off, SyncInv, IsRun
  <2>. QED BY <1>1, <2>1, <2>2 DEF ProbeAnswer
<1>. QED BY <1>1, <1>2, <1>3, SavedStep DEF BeforePeers

-----------------------------------------------------------------------------
LEMMA RaceKeepsPeers ==
  ASSUME SyncInv, PeersInv, RaceStart \/ RaceLost
  PROVE  PeersInv'
<1>1. /\ IsRun(run) /\ run.todo \in Seq(Address) /\ run.pc \notin BeforePeers \cup BetweenSaves
      /\ Racing /\ UNCHANGED caught /\ IsTable(peers)
  BY DEF SyncInv, PeersInv, RaceStart, RaceLost, BeforePeers, BetweenSaves
<1>2. CASE RaceStart /\ Candidates = << >>
  <2>1. Leave(peers) /\ Kept(peers, peers)
    BY <1>1, <1>2 DEF RaceStart, Kept
  <2>. QED BY <1>1, <2>1, LeavingStep
<1>3. CASE RaceStart /\ Candidates # << >>
  <2>1. UNCHANGED <<peers, table>> /\ run' = [run EXCEPT !.pc = "wait", !.from = best]
    BY <1>3 DEF RaceStart
  <2>2. run'.pc = "wait" /\ run'.todo = run.todo
    BY <1>1, <2>1 DEF IsRun, Off
  <2>3. RunInv'
    BY <1>1, <2>2 DEF RunInv, AtPeer
  <2>. QED BY <1>1, <2>1, <2>2, <2>3, UntouchedStep DEF BeforePeers
<1>4. CASE RaceLost
  <2>. DEFINE p == [a \in DOMAIN peers |->
                      IF a \in Members(Candidates) THEN RecordTransientFailure(peers, a)[a] ELSE peers[a]]
  <2>1. Leave(p)
    BY <1>4 DEF RaceLost
  <2>2. ASSUME NEW a \in DOMAIN peers PROVE p[a] \in PeerState /\ p[a].banned = peers[a].banned
    <3>1. a \in Address /\ peers[a] \in PeerState
      BY <1>1 DEF IsTable
    <3>2. SameBans(RecordTransientFailure(peers, a), peers)
      BY <1>1, <3>1, EventsKeepBans
    <3>. QED BY <3>1, <3>2 DEF SameBans, IsTable
  <2>3. Kept(p, peers)
    <3>1. DOMAIN p = DOMAIN peers /\ p \in [DOMAIN peers -> PeerState]
      BY <2>2
    <3>. QED BY <1>1, <2>2, <3>1 DEF Kept, IsTable, Banned, Unbanned, IsBanned
  <2>. QED BY <1>1, <2>1, <2>3, LeavingStep
<1>. QED BY <1>2, <1>3, <1>4

LEMMA RaceWonKeepsPeers ==
  ASSUME SyncInv, PeersInv, NEW a \in Address, RaceWon(a)
  PROVE  PeersInv'
<1>1. /\ IsRun(run) /\ run.todo \in Seq(Address) /\ run.pc \notin BeforePeers \cup BetweenSaves
      /\ Racing /\ UNCHANGED caught /\ IsTable(peers)
  BY DEF SyncInv, PeersInv, RaceWon, BeforePeers, BetweenSaves
<1>2. PICK h \in ClaimedHeights(a), page \in Pages(a) :
        LET p == RecordObservedHeight(peers, a, h, 0)
        IN \/ Leave(RecordSuccess(p, a, h, 0))
           \/ /\ Keep(p)
              /\ run' = [run EXCEPT !.pc = "ingest", !.peer = a, !.claimed = h, !.size = Len(page)]
  BY DEF RaceWon
<1>3. PICK p : p = RecordObservedHeight(peers, a, h, 0)
  OBVIOUS
<1>4. h \in Nat /\ Kept(p, peers)
  BY <1>1, <1>3, ClaimsAreHeights, EventsKept
<1>5. CASE Leave(RecordSuccess(p, a, h, 0))
  <2>1. Kept(RecordSuccess(p, a, h, 0), p)
    BY <1>4, EventsKept DEF Kept
  <2>2. Kept(RecordSuccess(p, a, h, 0), peers)
    BY <1>4, <2>1, KeptTwice
  <2>. QED BY <1>1, <1>5, <2>2, LeavingStep
<1>6. CASE /\ Keep(p)
           /\ run' = [run EXCEPT !.pc = "ingest", !.peer = a, !.claimed = h, !.size = Len(page)]
  <2>1. run'.pc = "ingest" /\ run'.peer = a /\ run'.claimed = h /\ run'.todo = run.todo
    BY <1>1, <1>6 DEF IsRun, Off
  <2>2. RunInv'
    BY <1>1, <1>4, <2>1 DEF RunInv, AtPeer
  <2>. QED BY <1>1, <1>4, <1>6, <2>2, SavedStep
<1>. QED BY <1>2, <1>3, <1>5, <1>6

LEMMA JudgeRaceKeepsPeers ==
  ASSUME SyncInv, PeersInv, JudgeRace
  PROVE  PeersInv'
<1>1. /\ IsRun(run) /\ run.pc \notin BeforePeers \cup BetweenSaves /\ IsTable(peers)
      /\ run.peer \in Address /\ run.claimed \in Nat
  BY DEF SyncInv, PeersInv, JudgeRace, BeforePeers, BetweenSaves, AtPeer
<1>2. CASE Judged = "Ok"
  <2>1. PICK p : p = RecordSuccess(peers, run.peer, run.claimed, 0)
    OBVIOUS
  <2>2. Kept(p, peers)
    BY <1>1, <2>1, EventsKept
  <2>3. UNCHANGED caught
    BY <1>2 DEF JudgeRace, Malformed
  <2>4. CASE Leave(p)
    BY <1>1, <2>2, <2>3, <2>4, LeavingStep
  <2>5. CASE Keep(p) /\ run' = [Off EXCEPT !.pc = "ask", !.left = run.left - 1]
    <3>1. RunInv'
      BY <2>5 DEF JudgeRace, RunInv, AtPeer, Off
    <3>. QED BY <1>1, <2>2, <2>3, <2>5, <3>1, SavedStep
  <2>. QED BY <1>2, <2>1, <2>4, <2>5 DEF JudgeRace
<1>3. CASE Judged # "Ok"
  <2>1. PICK p : p = ChainFailure(peers, run.peer, Judged)
    OBVIOUS
  <2>2. Kept(p, peers) /\ (Judged \in Malformed => run.peer \in Banned(p))
    BY <1>1, <2>1, ChainFailureKept
  <2>3. caught' \subseteq Banned(p)
    BY <1>1, <2>2 DEF JudgeRace, PeersInv, Kept, BeforePeers
  <2>4. Leave(p)
    BY <1>3, <2>1 DEF JudgeRace
  <2>. QED BY <2>2, <2>3, <2>4, OffRun, NoPeersIsTable DEF PeersInv, RunInv, Leave, Kept
<1>. QED BY <1>2, <1>3

-----------------------------------------------------------------------------
LEMMA PeerConnectsKeepsPeers ==
  ASSUME SyncInv, PeersInv, NEW a \in Address, PeerConnects(a)
  PROVE  PeersInv'
<1>1. /\ IsRun(run) /\ run.todo \in Seq(Address) /\ run.todo # << >> /\ run.pc = "next"
      /\ UNCHANGED caught /\ IsTable(peers)
  BY DEF SyncInv, PeersInv, PeerConnects
<1>2. PICK h \in ClaimedHeights(a), told \in {{}, Gossip} :
        LET p == Upsert(RecordObservedHeight(peers, a, h, 0), told)
        IN \/ /\ Keep(p)
              /\ run' = [run EXCEPT !.pc = "ask", !.peer = a, !.claimed = h, !.left = MaxBatches]
           \/ Keep(RecordSuccess(p, a, h, 0)) /\ run' = NextPeer("next")
  BY DEF PeerConnects
<1>3. PICK o : o = RecordObservedHeight(peers, a, h, 0)
  OBVIOUS
<1>4. PICK p : p = Upsert(o, told)
  OBVIOUS
<1>5. h \in Nat /\ told \in SUBSET Address /\ Kept(o, peers)
  BY <1>1, <1>3, ClaimsAreHeights, EventsKept, SyncAssumption
<1>6. Kept(p, o)
  BY <1>4, <1>5, SeedsKept DEF Kept
<1>7. Kept(p, peers) /\ IsTable(p)
  BY <1>5, <1>6, KeptTwice DEF Kept
<1>8. CASE Keep(p) /\ run' = [run EXCEPT !.pc = "ask", !.peer = a, !.claimed = h, !.left = MaxBatches]
  <2>1. run'.pc = "ask" /\ run'.peer = a /\ run'.claimed = h /\ run'.todo = run.todo
    BY <1>1, <1>8 DEF IsRun, Off
  <2>2. RunInv'
    BY <1>1, <1>5, <2>1 DEF RunInv, AtPeer
  <2>. QED BY <1>1, <1>7, <1>8, <2>2, SavedStep DEF BeforePeers
<1>9. CASE Keep(RecordSuccess(p, a, h, 0)) /\ run' = NextPeer("next")
  <2>1. Kept(RecordSuccess(p, a, h, 0), p)
    BY <1>5, <1>7, EventsKept
  <2>2. Kept(RecordSuccess(p, a, h, 0), peers) /\ RunInv'
    BY <1>1, <1>7, <1>9, <2>1, KeptTwice, NextPeerRun
  <2>. QED BY <1>1, <1>9, <2>2, SavedStep DEF BeforePeers
<1>. QED BY <1>2, <1>3, <1>4, <1>8, <1>9

LEMMA PeerAnswersKeepsPeers ==
  ASSUME SyncInv, PeersInv, PeerAnswers \/ AskPeer
  PROVE  PeersInv'
<1>1. /\ IsRun(run) /\ run.pc \in {"ask", "wait"} /\ run.pc \notin BeforePeers \cup BetweenSaves
      /\ ~Racing /\ run.todo \in Seq(Address) /\ run.todo # << >>
      /\ run.peer \in Address /\ run.claimed \in Nat /\ UNCHANGED caught /\ IsTable(peers)
  BY DEF SyncInv, PeersInv, AtPeer, PeerAnswers, AskPeer, BeforePeers, BetweenSaves
<1>2. CASE Keep(RecordSuccess(peers, run.peer, run.claimed, 0)) /\ run' = NextPeer("next")
  <2>1. Kept(RecordSuccess(peers, run.peer, run.claimed, 0), peers)
    BY <1>1, EventsKept
  <2>2. RunInv'
    BY <1>1, <1>2, NextPeerRun
  <2>. QED BY <1>1, <1>2, <2>1, <2>2, SavedStep
<1>3. ASSUME UNCHANGED <<peers, table>>,
             \/ \E n : run' = [run EXCEPT !.pc = "ingest", !.size = n]
             \/ run' = [run EXCEPT !.pc = "wait", !.from = best]
      PROVE  PeersInv'
  <2>1. /\ run'.pc \in {"ingest", "wait"} /\ run'.todo = run.todo
        /\ run'.peer = run.peer /\ run'.claimed = run.claimed
    BY <1>1, <1>3 DEF IsRun, Off
  <2>2. RunInv'
    BY <1>1, <2>1 DEF RunInv, AtPeer
  <2>. QED BY <1>1, <1>3, <2>1, <2>2, UntouchedStep DEF BeforePeers
<1>. QED BY <1>2, <1>3 DEF PeerAnswers, AskPeer

LEMMA PeerFailsKeepsPeers ==
  ASSUME SyncInv, PeersInv, PeerFails \/ PeerRefuses
  PROVE  PeersInv'
<1>1. /\ run.pc \in {"next", "wait"} /\ run.todo \in Seq(Address) /\ run.todo # << >>
      /\ run' = NextPeer("next") /\ UNCHANGED caught /\ IsTable(peers)
  BY DEF SyncInv, PeersInv, AtPeer, PeerFails, PeerRefuses
<1>2. PICK a \in Address : KeepUnsaved(RecordTransientFailure(peers, a))
  <2>1. CASE PeerFails
    BY <2>1 DEF PeersInv, AtPeer, PeerFails
  <2>2. CASE PeerRefuses
    BY <1>1, <2>2, HeadTailProperties DEF PeerRefuses
  <2>. QED BY <2>1, <2>2
<1>3. Kept(RecordTransientFailure(peers, a), peers) /\ RunInv' /\ run'.pc = "next"
  BY <1>1, EventsKept, NextPeerRun
<1>. QED BY <1>1, <1>2, <1>3, UnsavedStep DEF BeforePeers, BetweenSaves

LEMMA JudgePeerKeepsPeers ==
  ASSUME SyncInv, PeersInv, JudgePeer
  PROVE  PeersInv'
<1>1. /\ IsRun(run) /\ run.pc = "judge" /\ ~Racing /\ IsTable(peers) /\ IsTable(table)
      /\ run.todo \in Seq(Address) /\ run.todo # << >>
      /\ run.peer \in Address /\ run.claimed \in Nat
      /\ caught \subseteq Banned(peers) /\ caught \subseteq Banned(table)
  BY DEF SyncInv, PeersInv, JudgePeer, AtPeer
<1>2. CASE Judged = "Ok"
  <2>1. UNCHANGED caught
    BY <1>2 DEF JudgePeer, Malformed
  <2>2. CASE LastPage
    <3>1. Keep(RecordSuccess(peers, run.peer, run.claimed, 0)) /\ run' = NextPeer("next")
      BY <1>2, <2>2 DEF JudgePeer, Malformed, Stale
    <3>2. Kept(RecordSuccess(peers, run.peer, run.claimed, 0), peers) /\ RunInv'
      BY <1>1, <3>1, EventsKept, NextPeerRun
    <3>. QED BY <1>1, <2>1, <3>1, <3>2, SavedStep DEF BeforePeers
  <2>3. CASE ~LastPage
    <3>1. run' = [run EXCEPT !.pc = "ask", !.left = @ - 1] /\ UNCHANGED <<peers, table>>
      BY <1>2, <2>3 DEF JudgePeer, Malformed, Stale
    <3>2. /\ run'.pc = "ask" /\ run'.todo = run.todo
          /\ run'.peer = run.peer /\ run'.claimed = run.claimed
      BY <1>1, <3>1 DEF IsRun, Off
    <3>3. RunInv'
      BY <1>1, <3>2 DEF RunInv, AtPeer
    <3>. QED BY <1>1, <2>1, <3>1, <3>2, <3>3, UntouchedStep DEF BeforePeers, BetweenSaves
  <2>. QED BY <2>2, <2>3
<1>3. CASE Judged \in Malformed \cup Stale
  <2>1. PICK p : p = ChainFailure(peers, run.peer, Judged)
    OBVIOUS
  <2>2. Kept(p, peers) /\ (Judged \in Malformed => run.peer \in Banned(p))
    BY <1>1, <2>1, ChainFailureKept
  <2>3. caught' \subseteq Banned(p)
    BY <1>1, <2>2 DEF JudgePeer, Kept
  <2>4. KeepUnsaved(p) /\ run' = NextPeer("next")
    BY <1>3, <2>1 DEF JudgePeer, Malformed, Stale
  <2>5. RunInv' /\ run'.pc = "next"
    BY <1>1, <2>4, NextPeerRun
  <2>. QED BY <1>1, <2>2, <2>3, <2>4, <2>5 DEF PeersInv, RunInv, KeepUnsaved, Kept
<1>4. CASE Judged \notin {"Ok"} \cup Malformed \cup Stale
  <2>1. LeaveUnsaved /\ UNCHANGED caught
    BY <1>4 DEF JudgePeer
  <2>. QED BY <1>1, <2>1, OffRun, NoPeersIsTable DEF PeersInv, RunInv, LeaveUnsaved
<1>. QED BY <1>2, <1>3, <1>4

LEMMA DiscoverKeepsPeers ==
  ASSUME SyncInv, PeersInv, DiscoverBegin \/ DiscoverPeer \/ DiscoverEnd
  PROVE  PeersInv'
<1>1. /\ IsRun(run) /\ run.pc \in BetweenSaves /\ run.pc \notin BeforePeers
      /\ run.todo \in Seq(Address) /\ UNCHANGED caught /\ IsTable(peers) /\ Kept(peers, peers)
  BY DEF SyncInv, PeersInv, DiscoverBegin, DiscoverPeer, DiscoverEnd, BeforePeers, BetweenSaves, Kept
<1>2. CASE Leave(peers)
  BY <1>1, <1>2, LeavingStep
<1>3. CASE DiscoverBegin /\ ~Leave(peers)
  <2>1. PICK todo : todo = SelectDiscoveryOutbound(peers, QueryPeers, 0, run.tried)
    OBVIOUS
  <2>2. run' = [run EXCEPT !.pc = "discover", !.todo = todo] /\ UNCHANGED <<peers, table>>
    BY <1>3, <2>1 DEF DiscoverBegin
  <2>3. todo \in Seq(Address)
    BY <1>1, <2>1, SelectionsAreAddresses, SyncAssumption
  <2>4. run'.pc = "discover" /\ run'.todo = todo
    BY <1>1, <2>2 DEF IsRun, Off
  <2>5. RunInv'
    BY <2>3, <2>4 DEF RunInv, AtPeer
  <2>. QED BY <1>1, <2>2, <2>4, <2>5, UntouchedStep DEF BeforePeers, BetweenSaves
<1>4. CASE DiscoverPeer
  <2>1. PICK a : a = Head(run.todo)
    OBVIOUS
  <2>2. a \in Address /\ Tail(run.todo) \in Seq(Address)
    BY <1>1, <1>4, <2>1, HeadTailProperties DEF DiscoverPeer
  <2>3. run'.pc = "discover" /\ run'.todo = Tail(run.todo)
    BY <1>1, <1>4 DEF DiscoverPeer, IsRun, Off
  <2>4. RunInv'
    BY <2>2, <2>3 DEF RunInv, AtPeer
  <2>5. ASSUME NEW h \in ClaimedHeights(a), NEW told \in {{}, Gossip},
               Keep(RecordSuccess(Upsert(peers, told), a, h, 0))
        PROVE  PeersInv'
    <3>1. PICK p : p = Upsert(peers, told)
      OBVIOUS
    <3>2. h \in Nat /\ Kept(p, peers)
      BY <1>1, <3>1, ClaimsAreHeights, SeedsKept, SyncAssumption
    <3>3. Kept(RecordSuccess(p, a, h, 0), p)
      BY <2>2, <3>2, EventsKept DEF Kept
    <3>4. Kept(RecordSuccess(p, a, h, 0), peers)
      BY <3>2, <3>3, KeptTwice
    <3>. QED BY <1>1, <2>4, <2>5, <3>1, <3>4, SavedStep
  <2>6. CASE KeepUnsaved(RecordTransientFailure(peers, a))
    <3>1. Kept(RecordTransientFailure(peers, a), peers)
      BY <1>1, <2>2, EventsKept
    <3>. QED BY <1>1, <2>3, <2>4, <2>6, <3>1, UnsavedStep DEF BetweenSaves
  <2>. QED BY <1>4, <2>1, <2>5, <2>6 DEF DiscoverPeer
<1>. QED BY <1>2, <1>3, <1>4 DEF DiscoverEnd

-----------------------------------------------------------------------------
LEMMA OthersKeepPeers ==
  ASSUME SyncInv, PeersInv, ChainStep \/ OtherThread \/ (\E a \in Honest : Mine(a)) \/ UNCHANGED svars
  PROVE  PeersInv'
<1>1. UNCHANGED <<peers, table, caught>>
  BY DEF ChainStep, OtherThread, Mine, svars
<1>2. CASE run' = run
  <2>1. RunInv'
    BY <1>2 DEF PeersInv, RunInv, AtPeer
  <2>. QED BY <1>1, <1>2, <2>1, UntouchedStep
<1>3. CASE run.pc = "ingest" /\ \E n : run' = [run EXCEPT !.pc = "judge", !.accepted = n]
  <2>1. IsRun(run)
    BY DEF SyncInv
  <2>2. /\ run'.pc = "judge" /\ run'.todo = run.todo
        /\ run'.peer = run.peer /\ run'.claimed = run.claimed
    BY <1>3, <2>1 DEF IsRun, Off
  <2>3. RunInv'
    BY <1>3, <2>2 DEF PeersInv, RunInv, AtPeer
  <2>. QED BY <1>1, <1>3, <2>2, <2>3, UntouchedStep DEF BeforePeers, BetweenSaves
<1>. QED BY <1>2, <1>3 DEF ChainStep, OtherThread, Mine, svars

LEMMA BanEndKeepsPeers ==
  ASSUME PeersInv, NEW a \in Address, BanEnds(a)
  PROVE  PeersInv'
<1>1. /\ run.pc = "off" /\ a \in DOMAIN table /\ UNCHANGED <<peers, run>>
      /\ table' = [table EXCEPT ![a].banned = NoTime] /\ caught' = caught \ {a}
  BY DEF BanEnds
<1>2. /\ IsTable(table')
      /\ \A b \in DOMAIN table \ {a} : table'[b] = table[b]
  BY <1>1 DEF PeersInv, IsTable, PeerState, NoTime
<1>3. caught' \subseteq Banned(table')
  BY <1>1, <1>2 DEF PeersInv, Banned, Unbanned, IsBanned
<1>. QED BY <1>1, <1>2, <1>3 DEF PeersInv, AtPeer

LEMMA SyncCrashKeepsPeers ==
  ASSUME PeersInv, SyncCrash
  PROVE  PeersInv'
<1>1. /\ peers' = NoPeers /\ run' = Off /\ UNCHANGED table
      /\ caught' \subseteq Banned(table)
  BY DEF SyncCrash, LeaveUnsaved, Banned, Unbanned
<1>. QED BY <1>1, OffRun, NoPeersIsTable DEF PeersInv, RunInv

(* A sync loses no ban that it decided: the invariant of the peer records  *)
(* holds through both runners, whatever peers answer, however the calls    *)
(* into the store end and wherever the process dies.                       *)
THEOREM PeersInvariance == SyncSpec => []PeersInv
<1>1. SyncInit => PeersInv
  BY NoPeersIsTable DEF SyncInit, NoTickYet, PeersInv, Off, AtPeer, Banned, Unbanned
<1>2. SyncInv /\ PeersInv /\ [SyncNext]_svars => PeersInv'
  <2>. SUFFICES ASSUME SyncInv, PeersInv, [SyncNext]_svars PROVE PeersInv'
    OBVIOUS
  <2>1. CASE TickBegin \/ GenesisDone \/ TickPeers
    BY <2>1, BeginKeepsPeers, TickPeersKeepsPeers
  <2>2. CASE \E a \in Address : ProbeSucceeds(a) \/ ProbeFails(a)
    BY <2>2, ProbesKeepPeers
  <2>3. CASE Racers
    BY <2>3, RaceKeepsPeers, RaceWonKeepsPeers, JudgeRaceKeepsPeers DEF Racers
  <2>4. CASE OneByOne
    BY <2>4, PeerConnectsKeepsPeers, PeerAnswersKeepsPeers, PeerFailsKeepsPeers,
       JudgePeerKeepsPeers, DiscoverKeepsPeers DEF OneByOne
  <2>5. CASE ChainStep \/ OtherThread \/ (\E a \in Honest : Mine(a)) \/ UNCHANGED svars
    BY <2>5, OthersKeepPeers
  <2>6. CASE (\E a \in Address : BanEnds(a)) \/ SyncCrash
    BY <2>6, BanEndKeepsPeers, SyncCrashKeepsPeers
  <2>. QED BY <2>1, <2>2, <2>3, <2>4, <2>5, <2>6 DEF SyncNext, Tick
<1>. QED BY <1>1, <1>2, SyncInvariance, PTL DEF SyncSpec

(* Between ticks the sender of a malformed page is banned in peers.sqlite  *)
(* (record_chain_failure, and the saves of both runners).                  *)
THEOREM CaughtStayBanned == SyncSpec => []BansSurviveTicks
<1>1. PeersInv => BansSurviveTicks
  BY DEF PeersInv, BansSurviveTicks, Banned, Unbanned
<1>. QED BY <1>1, PeersInvariance, PTL

(* Whatever earlier ticks have learnt, the next one selects as many peers  *)
(* of as many address groups as its limits allow (select_outbound,         *)
(* select_discovery_outbound).                                             *)
THEOREM SelectionsSpread == SyncSpec => []SelectionSpreads
<1>1. PeersInv => SelectionSpreads
  <2>1. ASSUME PeersInv PROVE SelectsSpread(table, 0)
    BY <2>1, SelectionIsSpread DEF PeersInv
  <2>. QED BY <2>1 DEF SelectionSpreads
<1>. QED BY <1>1, PeersInvariance, PTL

(* Whatever earlier ticks have learnt, a peer that failed makes way for    *)
(* its neighbours in the next one (record_transient_failure,               *)
(* select_outbound).                                                       *)
THEOREM FailedMakeWayForOthers == SyncSpec => []FailuresMakeWay
<1>1. PeersInv => FailuresMakeWay
  <2>1. ASSUME PeersInv PROVE FailedMakeWay(table, 0)
    BY <2>1, FailedPeersMakeWay DEF PeersInv
  <2>. QED BY <2>1 DEF FailuresMakeWay
<1>. QED BY <1>1, PeersInvariance, PTL

-----------------------------------------------------------------------------
(* The page after our locator attaches to the store. *)
LEMMA LargestElement ==
  ASSUME NEW n \in Nat, NEW S \in SUBSET (0 .. n), S # {}
  PROVE  \E k \in S : \A m \in S : m <= k
<1>. DEFINE T == {n - k : k \in S}
<1>0. \A k \in S : k \in Nat /\ n - k \in Nat
  OBVIOUS
<1>1. T \in SUBSET Nat /\ T # {}
  BY <1>0
<1>2. PICK t \in T : \A u \in T : t <= u
  BY <1>1, LeastElement
<1>3. PICK k \in S : t = n - k
  BY <1>2
<1>4. ASSUME NEW m \in S PROVE m <= k
  <2>1. n - m \in T
    OBVIOUS
  <2>. HIDE DEF T
  <2>2. n - k <= n - m
    BY <1>2, <1>3, <2>1
  <2>. QED BY <1>0, <2>2
<1>. QED BY <1>4

LEMMA PageIsPart ==
  ASSUME NEW chain \in Seq(Label), NEW locator
  PROVE  \E from, size \in 0 .. Len(chain) :
           /\ from + size <= Len(chain)
           /\ Page(chain, locator) = [i \in 1 .. size |-> SubSeq(chain, 1, from + i)]
           /\ from = 0 \/ SubSeq(chain, 1, from) \in locator
<1>. DEFINE known == {n \in 0 .. Len(chain) : SubSeq(chain, 1, n) \in locator}
            from == IF known = {} THEN 0 ELSE CHOOSE n \in known : \A m \in known : m <= n
            size == IF Len(chain) - from < PageSize THEN Len(chain) - from ELSE PageSize
<1>0. Len(chain) \in Nat /\ PageSize \in Nat
  BY LenProperties, SyncAssumption
<1>1. from \in 0 .. Len(chain) /\ (from = 0 \/ SubSeq(chain, 1, from) \in locator)
  <2>1. CASE known = {}
    BY <1>0, <2>1
  <2>2. CASE known # {}
    <3>1. \E n \in known : \A m \in known : m <= n
      <4>1. known \in SUBSET (0 .. Len(chain))
        OBVIOUS
      <4>. HIDE DEF known
      <4>. QED BY <1>0, <2>2, <4>1, LargestElement
    <3>2. from \in known
      BY <2>2, <3>1
    <3>. QED BY <3>2
  <2>. QED BY <2>1, <2>2
<1>2. Page(chain, locator) = [i \in 1 .. size |-> SubSeq(chain, 1, from + i)]
  BY DEF Page
<1>. HIDE DEF known, from
<1>3. size \in 0 .. Len(chain) /\ from + size <= Len(chain)
  BY <1>0, <1>1
<1>. QED BY <1>1, <1>2, <1>3

LEMMA PageAttaches ==
  ASSUME IInv, NEW tip \in DOMAIN headers, NEW chain \in Header, Valid(chain)
  PROVE  Attaches(Page(chain, Locator(tip)))
<1>0. chain \in Seq(Label) /\ Len(chain) \in Nat /\ tip \in Seq(Label) /\ Len(tip) \in Nat
  BY HeaderAssumption, LenProperties DEF IInv, TypeOK
<1>1. PICK from \in 0 .. Len(chain), size \in 0 .. Len(chain) :
        /\ from + size <= Len(chain)
        /\ Page(chain, Locator(tip)) = [i \in 1 .. size |-> SubSeq(chain, 1, from + i)]
        /\ from = 0 \/ SubSeq(chain, 1, from) \in Locator(tip)
  BY <1>0, PageIsPart
<1>2. PICK page : page = Page(chain, Locator(tip))
  OBVIOUS
<1>3. /\ size \in Nat /\ from \in Nat /\ Len(page) = size
      /\ \A i \in 1 .. size : page[i] = SubSeq(chain, 1, from + i)
  BY <1>0, <1>1, <1>2
<1>4. ASSUME NEW i \in 1 .. size
      PROVE  /\ page[i] # Genesis /\ page[i] \in ValidBits \cap ValidPow
             /\ Parent(page[i]) = SubSeq(chain, 1, from + i - 1)
  <2>1. from + i \in 1 .. Len(chain) /\ from + i - 1 \in 0 .. (from + i)
    BY <1>0, <1>1, <1>3
  <2>2. Len(page[i]) = from + i
    BY <1>0, <1>3, <2>1, PrefixFacts
  <2>3. page[i] # Genesis
    BY <2>1, <2>2, GenesisLen
  <2>4. page[i] \in ValidBits \cap ValidPow
    BY <1>3, <2>1 DEF Valid
  <2>5. Parent(page[i]) = SubSeq(chain, 1, from + i - 1)
    BY <1>0, <1>3, <2>1, <2>2, PrefixOfPrefix DEF Parent
  <2>. QED BY <2>3, <2>4, <2>5
<1>5. SubSeq(chain, 1, from) \in DOMAIN headers
  <2>1. \A k \in 0 .. Len(tip) : SubSeq(tip, 1, k) \in DOMAIN headers
    BY AncestorsStored DEF IInv
  <2>2. CASE from = 0
    <3>1. SubSeq(chain, 1, 0) = << >> /\ SubSeq(tip, 1, 0) = << >>
      BY <1>0, SubSeqEmpty
    <3>2. 0 \in 0 .. Len(tip)
      BY <1>0
    <3>3. SubSeq(tip, 1, 0) \in DOMAIN headers
      BY <2>1, <3>2
    <3>. QED BY <2>2, <3>1, <3>3
  <2>3. CASE SubSeq(chain, 1, from) \in Locator(tip)
    BY <2>1, <2>3 DEF Locator
  <2>. QED BY <1>1, <2>2, <2>3
<1>6. ASSUME NEW i \in 1 .. size
      PROVE  Parent(page[i]) \in IF i = 1 THEN DOMAIN headers ELSE {page[i - 1]}
  <2>1. CASE i = 1
    <3>1. from + 1 - 1 = from
      BY <1>3
    <3>. QED BY <1>4, <1>5, <2>1, <3>1
  <2>2. CASE i # 1
    <3>1. i - 1 \in 1 .. size /\ from + (i - 1) = from + i - 1
      BY <1>3, <2>2
    <3>. QED BY <1>3, <1>4, <2>2, <3>1
  <2>. QED BY <2>1, <2>2
<1>. QED BY <1>2, <1>3, <1>4, <1>6 DEF Attaches

-----------------------------------------------------------------------------
(* A row more is a hash more. *)
LEMMA AppendedHashes ==
  ASSUME NEW rows \in Seq(Row), NEW r \in Row
  PROVE  HashesOf(Append(rows, r)) = HashesOf(rows) \cup {r.hash}
<1>. DEFINE more == Append(rows, r)
            n == Len(rows)
<1>1. /\ n \in Nat /\ Len(more) = n + 1
      /\ \A i \in 1 .. n : more[i] = rows[i]
      /\ more[n + 1] = r
  BY AppendProperties
<1>2. 1 .. (n + 1) = (1 .. n) \cup {n + 1}
  BY <1>1
<1>. HIDE DEF more, n
<1>3. {more[i].hash : i \in 1 .. (n + 1)} = {rows[i].hash : i \in 1 .. n} \cup {r.hash}
  BY <1>1, <1>2
<1>. QED BY <1>1, <1>3 DEF HashesOf, more, n

(* An insertion of such a page goes on to Ok or a storage error. *)
Proceeds(w) ==
  IF call[w].pc = "idle" THEN call[w].result \in {"Ok", "Storage"} ELSE CleanCall(call[w])

LEMMA ValidationProceeds ==
  ASSUME OneWriter, IInv, NEW w \in Worker, CleanCall(call[w]),
         ValidateSkip(w) \/ ValidateNew(w) \/ ValidateEnd(w)
  PROVE  Proceeds(w)'
<1>. DEFINE c == call[w]
            h == c.batch[c.next]
            known == DOMAIN headers \cup HashesOf(c.accepted)
<1>1. /\ call \in [Worker -> Call] /\ c \in Call /\ TypeOK /\ HeightIsDepth
      /\ RowsSound(c.accepted) /\ ~ReadMayFail
  BY DEF OneWriter, IInv, TypeOK, CallSound
<1>2. /\ c.next \in Nat \ {0} /\ c.accepted \in Seq(Row) /\ c.batch \in Seq(Header)
      /\ c.pc = "validate" /\ c.op = "batch" /\ Len(c.accepted) \in Nat /\ Len(c.batch) \in Nat
  BY <1>1, LenProperties DEF Call, CleanCall, ValidateSkip, ValidateNew, ValidateEnd
<1>3. /\ Attaches(c.batch)
      /\ \A i \in 1 .. (c.next - 1) : c.batch[i] \in known
      /\ HashesOf(c.accepted) \cap DOMAIN headers = {}
  BY <1>2 DEF CleanCall
<1>4. CASE ValidateSkip(w)
  <2>1. h \in known
    BY <1>3, <1>4 DEF ValidateSkip, Seen
  <2>2. /\ UNCHANGED headers /\ call'[w].next = c.next + 1 /\ call'[w].accepted = c.accepted
        /\ call'[w].batch = c.batch /\ call'[w].pc = "validate" /\ call'[w].op = "batch"
    BY <1>1, <1>2, <1>4 DEF ValidateSkip, Call
  <2>4. Attaches(c.batch)'
    BY <1>3, <2>2 DEF Attaches
  <2>5. ASSUME NEW i \in 1 .. (call'[w].next - 1) PROVE call'[w].batch[i] \in known
    <3>1. i \in 1 .. (c.next - 1) \/ i = c.next
      BY <1>2, <2>2
    <3>2. call'[w].batch[i] = c.batch[i]
      BY <2>2
    <3>. QED BY <1>3, <2>1, <3>1, <3>2
  <2>6. HashesOf(call'[w].accepted) = HashesOf(c.accepted)
    BY <2>2
  <2>. QED BY <1>3, <2>2, <2>4, <2>5, <2>6 DEF Proceeds, CleanCall
<1>5. CASE ValidateNew(w)
  <2>1. c.next \in 1 .. Len(c.batch) /\ h \notin DOMAIN headers /\ UNCHANGED headers
    BY <1>1, <1>2, <1>5 DEF ValidateNew
  <2>2. h \in Header /\ h # Genesis /\ h \in ValidBits \cap ValidPow /\ Parent(h) \in known
    <3>1. h \in Header
      BY <1>2, <2>1, ElementOfSeq
    <3>2. /\ h # Genesis /\ h \in ValidBits \cap ValidPow
          /\ Parent(h) \in IF c.next = 1 THEN DOMAIN headers ELSE {c.batch[c.next - 1]}
      BY <1>3, <2>1 DEF Attaches
    <3>3. c.next # 1 => c.next - 1 \in 1 .. (c.next - 1)
      BY <1>2
    <3>4. Parent(h) \in known
      BY <1>3, <3>2, <3>3
    <3>. QED BY <3>1, <3>2, <3>4
  <2>3. HasParentIn(h, known) /\ Verdict(h, known) = "Ok"
    BY <2>2 DEF HasParentIn, Verdict
  <2>4. call' = [call EXCEPT ![w].next = @ + 1, ![w].accepted = Append(@, RowFor(h, c.accepted))]
    BY <1>5, <2>3 DEF ValidateNew
  <2>5. PICK r \in Row : r = RowFor(h, c.accepted) /\ r.hash = h
    BY <1>1, <1>2, <2>2, <2>3, RowForFacts
  <2>6. /\ call'[w].next = c.next + 1 /\ call'[w].accepted = Append(c.accepted, r)
        /\ call'[w].batch = c.batch /\ call'[w].pc = "validate" /\ call'[w].op = "batch"
    BY <1>1, <1>2, <2>4, <2>5 DEF Call
  <2>7. HashesOf(Append(c.accepted, r)) = HashesOf(c.accepted) \cup {h}
    BY <1>2, <2>5, AppendedHashes
  <2>9. Attaches(c.batch)'
    BY <1>3, <2>1, <2>6 DEF Attaches
  <2>10. ASSUME NEW i \in 1 .. (call'[w].next - 1) PROVE call'[w].batch[i] \in known \cup {h}
    <3>1. i \in 1 .. (c.next - 1) \/ i = c.next
      BY <1>2, <2>6
    <3>2. call'[w].batch[i] = c.batch[i]
      BY <2>6
    <3>. QED BY <1>3, <3>1, <3>2
  <2>11. HashesOf(call'[w].accepted) = HashesOf(c.accepted) \cup {h}
    BY <2>6, <2>7
  <2>. QED BY <1>3, <2>1, <2>6, <2>9, <2>10, <2>11 DEF Proceeds, CleanCall
<1>6. CASE ValidateEnd(w)
  <2>1. CASE Return(w, "Ok")
    BY <1>1, <2>1 DEF Return, Proceeds, Idle
  <2>2. CASE call' = [call EXCEPT ![w].pc = "decide"]
    <3>1. /\ UNCHANGED headers /\ call'[w].accepted = c.accepted
          /\ call'[w].pc = "decide" /\ call'[w].op = "batch"
      BY <1>1, <1>2, <1>6, <2>2 DEF ValidateEnd, Call
    <3>2. HashesOf(call'[w].accepted) = HashesOf(c.accepted)
      BY <3>1
    <3>. QED BY <1>3, <3>1, <3>2 DEF Proceeds, CleanCall
  <2>. QED BY <1>6, <2>1, <2>2 DEF ValidateEnd
<1>. QED BY <1>4, <1>5, <1>6

LEMMA InsertionProceeds ==
  ASSUME OneWriter, IInv, NEW w \in Worker, CleanCall(call[w]), Step(w) \/ StorageError(w)
  PROVE  Proceeds(w)'
<1>. DEFINE c == call[w]
<1>1. call \in [Worker -> Call] /\ c \in Call /\ c.op = "batch"
  BY DEF IInv, TypeOK, CleanCall
<1>2. ASSUME NEW r \in {"Ok", "Storage"}, Return(w, r) PROVE Proceeds(w)'
  BY <1>1, <1>2 DEF Return, Proceeds, Idle
<1>3. CASE Decide(w)
  <2>1. PICK how, n : call' = [call EXCEPT ![w].pc = "put", ![w].promote = how, ![w].upto = n]
    <3>1. call[w].op = "batch"
      BY <1>1
    <3>2. PICK b \in BestReads :
            call' = [call EXCEPT ![w].pc = "put", ![w].promote = Promotion(b, call[w].accepted),
                                 ![w].upto = BestIndex(call[w].accepted)]
      BY <1>3, <3>1, ZenonT(30) DEF Decide
    <3>. QED BY <3>2
  <2>2. /\ UNCHANGED headers /\ call'[w].accepted = c.accepted
        /\ call'[w].pc = "put" /\ call'[w].op = "batch" /\ c.pc # "promote"
    BY <1>1, <1>3, <2>1 DEF Decide, Call
  <2>. QED BY <2>2 DEF Proceeds, CleanCall
<1>4. CASE Put(w)
  <2>1. HashesOf(c.accepted) \cap DOMAIN headers = {}
    BY <1>4 DEF Put, CleanCall
  <2>2. Return(w, "Ok") \/ call' = [call EXCEPT ![w].pc = "promote"]
    BY <1>1, <1>4, <2>1 DEF Put
  <2>3. CASE call' = [call EXCEPT ![w].pc = "promote"]
    <3>1. call'[w].pc = "promote" /\ call'[w].op = "batch"
      BY <1>1, <2>3 DEF Call
    <3>. QED BY <3>1 DEF Proceeds, CleanCall
  <2>. QED BY <1>2, <2>2, <2>3
<1>5. CASE PromoteTips(w) \/ PromoteReplace(w) \/ StorageError(w)
  BY <1>2, <1>5 DEF PromoteTips, PromoteReplace, StorageError
<1>. QED BY <1>3, <1>4, <1>5, ValidationProceeds DEF Step

-----------------------------------------------------------------------------
(* What a tick does outside the store leaves it where the next insertion   *)
(* begins: nothing is being inserted, and it asks after a stored header.   *)
Resting(r) == r.pc \notin {"genesis", "ingest", "judge"} /\ (r.pc = "wait" => r.from \in DOMAIN headers)

LEMMA RestingSuffices ==
  ASSUME CallInv, UNCHANGED <<headers, view>>, call'[Me].pc = "idle", Resting(run')
  PROVE  CallInv'
  BY DEF CallInv, Resting

LEMMA FetchRests == \A p : Resting(Fetch(p))
  BY DEF Resting, Fetch, Off

LEMMA OffRests == Resting(Off)
  BY DEF Resting, Off

LEMMA MovesRest ==
  ASSUME IsRun(run)
  PROVE  /\ Resting(NextPeer("next"))
         /\ \A todo : Resting([run EXCEPT !.pc = "discover", !.todo = todo])
         /\ \A n : Resting([run EXCEPT !.pc = "ask", !.left = n])
         /\ \A n : Resting([Off EXCEPT !.pc = "ask", !.left = n])
         /\ \A h \in DOMAIN headers : Resting([run EXCEPT !.pc = "wait", !.from = h])
  BY DEF Resting, IsRun, Off, NextPeer

LEMMA QuietRests ==
  ASSUME SyncInv, Quiet, ~ \E a \in Honest : Mine(a)
  PROVE  UNCHANGED view /\ (run' = run \/ Resting(run'))
<1>0. IsRun(run) /\ (run.pc \notin {"off", "genesis"} => best \in DOMAIN headers)
  BY DEF SyncInv, IInv, TypeOK
<1>1. CASE GenesisDone
  BY <1>0, <1>1 DEF GenesisDone, Resting, IsRun, Off
<1>2. CASE TickPeers
  <2>1. \/ \E p : run' = Fetch(p)
        \/ \E todo : run' = [Off EXCEPT !.pc = "probe", !.todo = todo]
    BY <1>2 DEF TickPeers
  <2>2. UNCHANGED view
    BY <1>2 DEF TickPeers
  <2>. QED BY <2>1, <2>2, FetchRests DEF Resting, Off
<1>3. CASE \E a \in Address : ProbeSucceeds(a) \/ ProbeFails(a)
  <2>1. PICK a, p : ProbeAnswer(a, p)
    BY <1>3 DEF ProbeSucceeds, ProbeFails
  <2>2. /\ \/ \E q : run' = Fetch(q)
           \/ \E todo : run' = [run EXCEPT !.todo = todo] /\ run.pc = "probe"
        /\ UNCHANGED view
    BY <2>1 DEF ProbeAnswer
  <2>. QED BY <1>0, <2>2, FetchRests DEF Resting, IsRun, Off
<1>4. CASE RaceStart \/ AskPeer
  BY <1>0, <1>4, OffRests, MovesRest DEF RaceStart, AskPeer, Leave
<1>5. CASE RaceLost \/ DiscoverEnd
  BY <1>5 DEF RaceLost, DiscoverEnd, Leave, Resting, Off
<1>6. CASE JudgeRace
  BY <1>0, <1>6, OffRests, MovesRest DEF JudgeRace, Leave
<1>7. CASE JudgePeer
  BY <1>0, <1>7, OffRests, MovesRest DEF JudgePeer, LeaveUnsaved
<1>8. CASE (\E a \in Address : PeerConnects(a)) \/ PeerRefuses \/ PeerFails
  <2>1. /\ UNCHANGED view
        /\ \/ run' = NextPeer("next")
           \/ \E a, h : run' = [run EXCEPT !.pc = "ask", !.peer = a, !.claimed = h, !.left = MaxBatches]
    BY <1>8 DEF PeerConnects, PeerRefuses, PeerFails
  <2>2. ASSUME NEW a, NEW h, run' = [run EXCEPT !.pc = "ask", !.peer = a, !.claimed = h, !.left = MaxBatches]
        PROVE  Resting(run')
    BY <1>0, <2>2 DEF Resting, IsRun, Off
  <2>. QED BY <1>0, <2>1, <2>2, MovesRest
<1>9. CASE DiscoverBegin
  BY <1>0, <1>9, OffRests, MovesRest DEF DiscoverBegin, Leave
<1>11. CASE DiscoverPeer
  <2>1. run' = [run EXCEPT !.todo = Tail(@)] /\ run.pc = "discover" /\ UNCHANGED view
    BY <1>11 DEF DiscoverPeer
  <2>. QED BY <1>0, <2>1 DEF Resting, IsRun, Off
<1>10. CASE \E a \in Address : BanEnds(a)
  BY <1>10 DEF BanEnds
<1>. QED BY <1>1, <1>2, <1>3, <1>4, <1>5, <1>6, <1>7, <1>8, <1>9, <1>10, <1>11 DEF Quiet

LEMMA QuietKeepsCall ==
  ASSUME SyncInv, CallInv, Quiet, ~ \E a \in Honest : Mine(a)
  PROVE  CallInv'
<1>1. UNCHANGED <<headers, call, view>>
  BY QuietSteps, QuietRests DEF vars
<1>2. CASE run' = run
  BY <1>1, <1>2 DEF CallInv, CleanCall, Attaches
<1>3. CASE run' # run
  <2>1. Resting(run')
    BY <1>3, QuietRests
  <2>2. call[Me].pc = "idle"
    <3>1. run.pc \notin {"genesis", "ingest"} \/ GenesisDone
      BY DEF Quiet, TickPeers, ProbeSucceeds, ProbeFails, ProbeAnswer, RaceStart, RaceLost,
             JudgeRace, PeerConnects, PeerRefuses, AskPeer, PeerFails, JudgePeer,
             DiscoverBegin, DiscoverPeer, DiscoverEnd, BanEnds
    <3>. QED BY <3>1 DEF CallInv, GenesisDone
  <2>. QED BY <1>1, <2>1, <2>2, RestingSuffices
<1>. QED BY <1>2, <1>3

(* An honest peer's chain stays valid. *)
LEMMA MineKeepsCall ==
  ASSUME SyncInv, CallInv, NEW a \in Honest, Mine(a)
  PROVE  CallInv'
<1>1. PICK n \in Len(view[a]) + 1 .. Len(LastView[a]) :
        view' = [view EXCEPT ![a] = SubSeq(LastView[a], 1, n)]
  BY DEF Mine
<1>2. /\ view[a] \in Seq(Label) /\ LastView[a] \in Seq(Label) /\ Valid(LastView[a])
      /\ view \in [Honest -> Header]
  BY SyncAssumption, HonestAssumption, HeaderAssumption DEF SyncInv
<1>3. n \in 0 .. Len(LastView[a])
  BY <1>2, LenProperties
<1>4. Valid(SubSeq(LastView[a], 1, n))
  <2>1. Len(SubSeq(LastView[a], 1, n)) = n
    BY <1>2, <1>3, PrefixFacts
  <2>2. ASSUME NEW k \in 1 .. n
        PROVE  SubSeq(SubSeq(LastView[a], 1, n), 1, k) \in ValidBits \cap ValidPow
    <3>1. k \in 0 .. n /\ k \in 1 .. Len(LastView[a])
      BY <1>2, <1>3, LenProperties
    <3>2. SubSeq(SubSeq(LastView[a], 1, n), 1, k) = SubSeq(LastView[a], 1, k)
      BY <1>2, <1>3, <3>1, PrefixOfPrefix
    <3>. QED BY <1>2, <3>1, <3>2 DEF Valid
  <2>. QED BY <2>1, <2>2 DEF Valid
<1>5. \A b \in Honest : Valid(view'[b])
  BY <1>1, <1>2, <1>4 DEF CallInv
<1>6. UNCHANGED <<headers, call, run>>
  BY DEF Mine, vars
<1>. QED BY <1>5, <1>6 DEF CallInv, CleanCall, Attaches

(* The page of an honest peer begins an insertion that goes on. *)
LEMMA PageBegins ==
  ASSUME SyncInv, CallInv, run.pc = "wait", Me \in Worker, NEW a \in Address,
         NEW page \in Pages(a), BeginBatch(Me, page),
         run'.pc = "ingest", run'.peer = a, UNCHANGED view
  PROVE  CallInv'
<1>1. call \in [Worker -> Call] /\ IInv /\ UNCHANGED headers
  BY DEF SyncInv, IInv, TypeOK, BeginBatch
<1>2. call'[Me] = [Idle EXCEPT !.op = "batch", !.pc = "validate", !.batch = page]
  BY <1>1 DEF BeginBatch
<1>3. /\ call'[Me].op = "batch" /\ call'[Me].pc = "validate" /\ call'[Me].batch = page
      /\ call'[Me].next = 1 /\ call'[Me].accepted = << >>
  BY <1>2 DEF Idle
<1>4. ASSUME a \in Honest PROVE CleanCall(call[Me])'
  <2>1. page = Page(view[a], Locator(run.from))
    BY <1>4 DEF Pages
  <2>2. Attaches(page)
    BY <1>1, <1>4, <2>1, PageAttaches DEF CallInv, SyncInv
  <2>3. Attaches(call[Me].batch)'
    BY <1>1, <1>3, <2>2 DEF Attaches
  <2>4. \A i \in 1 .. (call'[Me].next - 1) : FALSE
    BY <1>3
  <2>5. HashesOf(call'[Me].accepted) = {}
    BY <1>3 DEF HashesOf
  <2>. QED BY <1>3, <2>3, <2>4, <2>5 DEF CleanCall
<1>. QED BY <1>1, <1>4 DEF CallInv

LEMMA AnswerKeepsCall ==
  ASSUME SyncInv, PeersInv, CallInv, PeerAnswers \/ \E a \in Address : RaceWon(a)
  PROVE  CallInv'
<1>1. /\ run.pc = "wait" /\ IsRun(run) /\ UNCHANGED view /\ call[Me].pc = "idle" /\ Me \in Worker
  BY SyncAssumption DEF SyncInv, PeerAnswers, RaceWon, CallInv
<1>2. ASSUME UNCHANGED vars, run' = Off \/ run' = NextPeer("next") PROVE CallInv'
  <2>1. Resting(run')
    BY <1>1, <1>2, OffRests, MovesRest
  <2>. QED BY <1>1, <1>2, <2>1, RestingSuffices DEF vars
<1>3. CASE PeerAnswers
  <2>1. PICK page \in Pages(run.peer) :
          \/ run' = NextPeer("next") /\ UNCHANGED vars
          \/ BeginBatch(Me, page) /\ run' = [run EXCEPT !.pc = "ingest", !.size = Len(page)]
    BY <1>3 DEF PeerAnswers
  <2>2. CASE BeginBatch(Me, page) /\ run' = [run EXCEPT !.pc = "ingest", !.size = Len(page)]
    <3>1. run'.pc = "ingest" /\ run'.peer = run.peer
      BY <1>1, <2>2 DEF IsRun, Off
    <3>2. run.peer \in Address
      BY <1>1, <1>3 DEF PeersInv, AtPeer, PeerAnswers
    <3>. QED BY <1>1, <2>2, <3>1, <3>2, PageBegins
  <2>. QED BY <1>2, <2>1, <2>2
<1>4. ASSUME NEW a \in Address, RaceWon(a) PROVE CallInv'
  <2>1. PICK h \in ClaimedHeights(a), page \in Pages(a) :
          \/ run' = Off /\ UNCHANGED vars
          \/ /\ BeginBatch(Me, page)
             /\ run' = [run EXCEPT !.pc = "ingest", !.peer = a, !.claimed = h, !.size = Len(page)]
    BY <1>4 DEF RaceWon, Leave
  <2>2. CASE /\ BeginBatch(Me, page)
             /\ run' = [run EXCEPT !.pc = "ingest", !.peer = a, !.claimed = h, !.size = Len(page)]
    <3>1. run'.pc = "ingest" /\ run'.peer = a
      BY <1>1, <2>2 DEF IsRun, Off
    <3>. QED BY <1>1, <2>2, <3>1, PageBegins
  <2>. QED BY <1>2, <2>1, <2>2
<1>. QED BY <1>3, <1>4

LEMMA BusyStep ==
  ASSUME NEW w \in Worker, Step(w) \/ StorageError(w)
  PROVE  call[w].pc # "idle"
  BY DEF Step, ValidateSkip, ValidateNew, ValidateEnd, Decide, Put, PromoteTips, PromoteReplace,
         StorageError

LEMMA ChainKeepsCall ==
  ASSUME OneWriter, SyncInv, CallInv, ChainStep
  PROVE  CallInv'
<1>1. /\ (Step(Me) \/ StorageError(Me)) /\ UNCHANGED view /\ Me \in Worker /\ IsRun(run) /\ IInv
  BY SyncAssumption DEF ChainStep, SyncInv
<1>2. run.pc \in {"genesis", "ingest"}
  BY <1>1, BusyStep DEF CallInv
<1>3. CASE run.pc = "ingest"
  <2>1. run.peer \in Honest => Proceeds(Me)'
    BY <1>1, <1>3, InsertionProceeds DEF CallInv
  <2>2. CASE call'[Me].pc = "idle"
    <3>1. run'.pc = "judge" /\ run'.peer = run.peer
      BY <1>1, <1>3, <2>2 DEF ChainStep, IsRun, Off
    <3>. QED BY <1>1, <2>1, <2>2, <3>1 DEF CallInv, Proceeds
  <2>3. CASE call'[Me].pc # "idle"
    <3>1. run' = run
      BY <1>3, <2>3 DEF ChainStep
    <3>. QED BY <1>1, <1>3, <2>1, <2>3, <3>1 DEF CallInv, Proceeds
  <2>. QED BY <2>2, <2>3
<1>4. CASE run.pc = "genesis"
  <2>1. run' = run
    BY <1>4 DEF ChainStep
  <2>. QED BY <1>1, <1>4, <2>1 DEF CallInv
<1>. QED BY <1>2, <1>3, <1>4

(* Whatever the peers answer, an honest peer's insertion goes on to Ok or  *)
(* a storage error.                                                        *)
LEMMA CallStep ==
  ASSUME OneWriter, SyncInv, PeersInv, CallInv, [SyncNext]_svars
  PROVE  CallInv'
<1>0. Me \in Worker /\ call \in [Worker -> Call]
  BY SyncAssumption DEF SyncInv, IInv, TypeOK
<1>1. CASE Quiet
  BY <1>1, QuietKeepsCall, MineKeepsCall
<1>2. CASE TickBegin
  <2>1. UNCHANGED <<headers, view>> /\ call[Me].pc = "idle"
    BY <1>2 DEF TickBegin, BeginGenesis, vars
  <2>2. CASE run' = [Off EXCEPT !.pc = "genesis"]
    <3>1. run'.pc = "genesis"
      BY <2>2 DEF Off
    <3>. QED BY <2>1, <3>1 DEF CallInv
  <2>3. CASE UNCHANGED vars /\ run' = [Off EXCEPT !.pc = "start"]
    <3>1. Resting(run')
      BY <2>3 DEF Resting, Off
    <3>. QED BY <2>1, <2>3, <3>1, RestingSuffices DEF vars
  <2>. QED BY <1>2, <2>2, <2>3 DEF TickBegin
<1>3. CASE ChainStep
  BY <1>3, ChainKeepsCall
<1>4. CASE PeerAnswers \/ \E a \in Address : RaceWon(a)
  BY <1>4, AnswerKeepsCall
<1>5. CASE SyncCrash
  <2>1. UNCHANGED <<headers, view>> /\ run' = Off /\ call'[Me].pc = "idle"
    BY <1>0, <1>5 DEF SyncCrash, LeaveUnsaved, Crash, Idle, vars
  <2>2. Resting(run')
    BY <2>1 DEF Resting, Off
  <2>. QED BY <2>1, <2>2, RestingSuffices
<1>6. CASE OtherThread
  BY <1>0, <1>6 DEF OtherThread, OneWriter
<1>7. CASE UNCHANGED svars
  BY <1>7 DEF svars, vars, CallInv, CleanCall, Attaches
<1>. QED BY <1>1, <1>2, <1>3, <1>4, <1>5, <1>6, <1>7, QuietOrLoud DEF Loud

LEMMA CallInvariance == ASSUME OneWriter PROVE SyncSpec => []CallInv
<1>1. SyncInit => CallInv
  BY HonestAssumption, SyncAssumption DEF SyncInit, NoTickYet, Init, CallInv, Off, Idle
<1>2. SyncInv /\ PeersInv /\ CallInv /\ [SyncNext]_svars => CallInv'
  BY CallStep
<1>. QED BY <1>1, <1>2, SyncInvariance, PeersInvariance, PTL DEF SyncSpec

-----------------------------------------------------------------------------
(* What an event makes of the records of honest peers: no worse, or worse  *)
(* by one failure to reach them.                                           *)
Score(p, a) == p[a].score

Softer(new, old) ==
  /\ IsTable(new) /\ Spotless(new) /\ DOMAIN old \subseteq DOMAIN new
  /\ \A a \in Honest \cap DOMAIN old : Score(new, a) <= Score(old, a)

Failed(new, old) ==
  /\ IsTable(new) /\ Spotless(new) /\ DOMAIN old \subseteq DOMAIN new
  /\ \A a \in Honest \cap DOMAIN old :
       Score(old, a) <= Score(new, a) /\ Score(new, a) <= Score(old, a) + TransientScore

LEMMA ScoreTypes ==
  ASSUME NEW rows, IsTable(rows), NEW a \in DOMAIN rows
  PROVE  rows[a] \in PeerState /\ Score(rows, a) \in Nat /\ a \in Address
  BY DEF IsTable, PeerState, Score

(* The scores an event writes down. *)
LEMMA EventScores ==
  ASSUME NEW rows, IsTable(rows), NEW a \in Address, NEW h \in Nat
  PROVE  LET u == Upsert(rows, {a})
         IN \A b \in DOMAIN rows \cup {a} :
              /\ Score(u, b) = IF b \in DOMAIN rows THEN Score(rows, b) ELSE 0
              /\ Score(RecordObservedHeight(rows, a, h, 0), b) = Score(u, b)
              /\ Score(RecordSuccess(rows, a, h, 0), b) =
                   IF b = a THEN Rewarded(Score(u, b)) ELSE Score(u, b)
              /\ Score(RecordTransientFailure(rows, a), b) =
                   IF b = a THEN Saturating(Score(u, b) + TransientScore, MaxScore) ELSE Score(u, b)
              /\ b # a => Score(RecordStaleTip(rows, a), b) = Score(u, b)
              /\ b # a => Score(RecordMalformed(rows, a, 0, 1), b) = Score(u, b)
<1>. DEFINE u == Upsert(rows, {a})
<1>1. SameBans(u, rows) /\ DOMAIN u = DOMAIN rows \cup {a}
  BY SeedsKeepBans DEF Upsert
<1>2. \A b \in DOMAIN rows \cup {a} : u[b] \in PeerState
  BY <1>1 DEF SameBans, IsTable
<1>3. ASSUME NEW b \in DOMAIN rows \cup {a}
      PROVE  Score(u, b) = IF b \in DOMAIN rows THEN Score(rows, b) ELSE 0
  BY DEF Upsert, NewPeer, Score
<1>. HIDE DEF u
<1>4. ASSUME NEW b \in DOMAIN rows \cup {a}
      PROVE  Score(RecordObservedHeight(rows, a, h, 0), b) = Score(u, b)
  BY <1>1, <1>2 DEF RecordObservedHeight, Score, PeerState, u
<1>5. ASSUME NEW b \in DOMAIN rows \cup {a}
      PROVE  Score(RecordSuccess(rows, a, h, 0), b) =
               IF b = a THEN Rewarded(Score(u, b)) ELSE Score(u, b)
  BY <1>1, <1>2 DEF RecordSuccess, Score, PeerState, u
<1>6. ASSUME NEW b \in DOMAIN rows \cup {a}
      PROVE  Score(RecordTransientFailure(rows, a), b) =
               IF b = a THEN Saturating(Score(u, b) + TransientScore, MaxScore) ELSE Score(u, b)
  BY <1>1, <1>2 DEF RecordTransientFailure, Score, PeerState, u
<1>7. ASSUME NEW b \in DOMAIN rows \cup {a}, b # a
      PROVE  /\ Score(RecordStaleTip(rows, a), b) = Score(u, b)
             /\ Score(RecordMalformed(rows, a, 0, 1), b) = Score(u, b)
  BY <1>1, <1>7 DEF RecordStaleTip, RecordMalformed, Score, u
<1>. QED BY <1>3, <1>4, <1>5, <1>6, <1>7 DEF u

LEMMA EventsAreFair ==
  ASSUME NEW rows, IsTable(rows), Spotless(rows), NEW a \in Address, NEW h \in Nat
  PROVE  /\ Softer(RecordSuccess(rows, a, h, 0), rows)
         /\ Softer(RecordObservedHeight(rows, a, h, 0), rows)
         /\ Failed(RecordTransientFailure(rows, a), rows)
<1>. DEFINE u == Upsert(rows, {a})
<1>1. \A b \in DOMAIN rows : Score(rows, b) \in Nat
  BY ScoreTypes
<1>2. \A b \in Honest \cap DOMAIN rows : Score(rows, b) <= MaxScore
  BY DEF Spotless, Score
<1>3. \A b \in DOMAIN rows \cup {a} :
        /\ Score(u, b) = IF b \in DOMAIN rows THEN Score(rows, b) ELSE 0
        /\ Score(RecordObservedHeight(rows, a, h, 0), b) = Score(u, b)
        /\ Score(RecordSuccess(rows, a, h, 0), b) =
             IF b = a THEN Rewarded(Score(u, b)) ELSE Score(u, b)
        /\ Score(RecordTransientFailure(rows, a), b) =
             IF b = a THEN Saturating(Score(u, b) + TransientScore, MaxScore) ELSE Score(u, b)
  BY EventScores
<1>. HIDE DEF u
<1>4. \A b \in DOMAIN rows \cup {a} : Score(u, b) \in Nat /\ (b \in Honest => Score(u, b) <= MaxScore)
  BY <1>1, <1>2, <1>3, ScoreAssumption
<1>5. ASSUME NEW n \in Nat, n <= MaxScore
      PROVE  /\ Rewarded(n) <= n /\ Rewarded(n) <= MaxScore
             /\ n <= Saturating(n + TransientScore, MaxScore)
             /\ Saturating(n + TransientScore, MaxScore) <= n + TransientScore
             /\ Saturating(n + TransientScore, MaxScore) <= MaxScore
  BY <1>5, ScoreAssumption DEF Rewarded, Saturating
<1>6. ASSUME NEW new, SameBans(new, rows), DOMAIN new = DOMAIN rows \cup {a},
             \A b \in Honest \cap DOMAIN new : Score(new, b) <= MaxScore
      PROVE  IsTable(new) /\ Spotless(new) /\ DOMAIN rows \subseteq DOMAIN new
  BY <1>6 DEF SameBans, Spotless, Score
<1>7. /\ DOMAIN RecordSuccess(rows, a, h, 0) = DOMAIN rows \cup {a}
      /\ DOMAIN RecordObservedHeight(rows, a, h, 0) = DOMAIN rows \cup {a}
      /\ DOMAIN RecordTransientFailure(rows, a) = DOMAIN rows \cup {a}
  BY DEF RecordSuccess, RecordObservedHeight, RecordTransientFailure, Upsert
<1>8. /\ SameBans(RecordSuccess(rows, a, h, 0), rows)
      /\ SameBans(RecordObservedHeight(rows, a, h, 0), rows)
      /\ SameBans(RecordTransientFailure(rows, a), rows)
  BY EventsKeepBans
<1>9. Softer(RecordSuccess(rows, a, h, 0), rows)
  <2>1. \A b \in Honest \cap (DOMAIN rows \cup {a}) :
          /\ Score(RecordSuccess(rows, a, h, 0), b) <= MaxScore
          /\ Score(RecordSuccess(rows, a, h, 0), b) <= Score(u, b)
    BY <1>3, <1>4, <1>5
  <2>. QED BY <1>3, <1>6, <1>7, <1>8, <2>1 DEF Softer
<1>10. Softer(RecordObservedHeight(rows, a, h, 0), rows)
  <2>1. \A b \in Honest \cap (DOMAIN rows \cup {a}) :
          /\ Score(RecordObservedHeight(rows, a, h, 0), b) <= MaxScore
          /\ Score(RecordObservedHeight(rows, a, h, 0), b) <= Score(u, b)
    BY <1>3, <1>4
  <2>. QED BY <1>3, <1>6, <1>7, <1>8, <2>1 DEF Softer
<1>11. Failed(RecordTransientFailure(rows, a), rows)
  <2>1. \A b \in Honest \cap (DOMAIN rows \cup {a}) :
          /\ Score(RecordTransientFailure(rows, a), b) <= MaxScore
          /\ Score(u, b) <= Score(RecordTransientFailure(rows, a), b)
          /\ Score(RecordTransientFailure(rows, a), b) <= Score(u, b) + TransientScore
    BY <1>3, <1>4, <1>5, ScoreAssumption
  <2>. QED BY <1>3, <1>6, <1>7, <1>8, <2>1 DEF Failed
<1>. QED BY <1>9, <1>10, <1>11

LEMMA SeedsAreFair ==
  ASSUME NEW rows, IsTable(rows), Spotless(rows), NEW as \in SUBSET Address
  PROVE  Softer(Upsert(rows, as), rows)
<1>1. \A b \in DOMAIN Upsert(rows, as) :
        Upsert(rows, as)[b] = IF b \in DOMAIN rows THEN rows[b] ELSE NewPeer
  BY DEF Upsert
<1>2. DOMAIN rows \subseteq DOMAIN Upsert(rows, as) /\ IsTable(Upsert(rows, as))
  BY SeedsKeepBans DEF SameBans
<1>3. NewPeer.banned = NoTime /\ NewPeer.score <= MaxScore
  BY ScoreAssumption DEF NewPeer, NoTime
<1>4. Spotless(Upsert(rows, as))
  BY <1>1, <1>3 DEF Spotless
<1>5. \A b \in DOMAIN rows : Score(rows, b) \in Nat /\ Score(Upsert(rows, as), b) = Score(rows, b)
  BY <1>1, <1>2, ScoreTypes DEF Score
<1>6. ASSUME NEW b \in Honest \cap DOMAIN rows
      PROVE  Score(Upsert(rows, as), b) <= Score(rows, b)
  <2>1. PICK n \in Nat : n = Score(rows, b) /\ n = Score(Upsert(rows, as), b)
    BY <1>5
  <2>2. n <= n
    OBVIOUS
  <2>. QED BY <2>1, <2>2
<1>. QED BY <1>2, <1>4, <1>6 DEF Softer

LEMMA SofterTwice ==
  ASSUME NEW a, NEW b, NEW c, IsTable(a), Softer(b, a), Softer(c, b)
  PROVE  Softer(c, a)
  BY ScoreTypes DEF Softer

(* The sender of bad data is not an honest peer. *)
LEMMA BlameIsFair ==
  ASSUME NEW rows, IsTable(rows), Spotless(rows), NEW a \in Address, NEW result,
         a \in Honest => result \notin Malformed \cup Stale
  PROVE  Failed(ChainFailure(rows, a, result), rows)
<1>1. CASE result \notin Malformed \cup Stale
  BY <1>1, EventsAreFair DEF ChainFailure
<1>2. CASE result \in Malformed \cup Stale
  <2>1. PICK new : /\ new = ChainFailure(rows, a, result)
                   /\ new = RecordStaleTip(rows, a) \/ new = RecordMalformed(rows, a, 0, 1)
    BY <1>2 DEF ChainFailure
  <2>2. a \notin Honest /\ DOMAIN new = DOMAIN rows \cup {a}
    BY <1>2, <2>1 DEF RecordStaleTip, RecordMalformed, Upsert
  <2>3. \A b \in DOMAIN rows \ {a} : new[b] = rows[b]
    BY <2>1 DEF RecordStaleTip, RecordMalformed, Upsert
  <2>4. \A b \in Honest \cap DOMAIN new : b \in DOMAIN rows /\ new[b] = rows[b]
    BY <2>2, <2>3
  <2>5. \A b \in DOMAIN rows : Score(rows, b) \in Nat
    BY ScoreTypes
  <2>6. IsTable(new)
    BY <2>1, ChainFailureKept DEF Kept
  <2>. QED BY <2>1, <2>2, <2>4, <2>5, <2>6, ScoreAssumption DEF Failed, Spotless, Score
<1>. QED BY <1>1, <1>2

-----------------------------------------------------------------------------
(* A step that keeps the records fair. *)
Unblamed ==
  \A p \in {peers', table'} : \A a \in Honest \cap DOMAIN peers \cap DOMAIN p :
    /\ p[a].score <= peers[a].score + TransientScore
    /\ p[a].banned <= peers[a].banned

FairStep == RecordsInv' /\ Unblamed

LEMMA FairRecords ==
  ASSUME RecordsInv, PeersInv, NEW p, Softer(p, peers) \/ Failed(p, peers)
  PROVE  /\ Spotless(p) /\ DOMAIN peers \subseteq DOMAIN p
         /\ \A a \in Honest \cap DOMAIN peers :
              /\ p[a].score <= peers[a].score + TransientScore
              /\ p[a].banned <= peers[a].banned
         /\ \A a \in DOMAIN p : p[a].score \in Nat
<1>1. /\ IsTable(p) /\ Spotless(p) /\ DOMAIN peers \subseteq DOMAIN p
      /\ IsTable(peers) /\ Spotless(peers)
  BY DEF Softer, Failed, PeersInv, RecordsInv
<1>2. /\ \A a \in DOMAIN peers : Score(peers, a) \in Nat
      /\ \A a \in DOMAIN p : Score(p, a) \in Nat
  BY <1>1, ScoreTypes
<1>3. \A a \in Honest \cap DOMAIN peers : p[a].banned <= peers[a].banned
  BY <1>1 DEF Spotless, NoTime
<1>4. \A a \in Honest \cap DOMAIN peers : Score(p, a) <= Score(peers, a) + TransientScore
  <2>1. CASE Softer(p, peers)
    BY <1>1, <1>2, <2>1, ScoreAssumption DEF Softer
  <2>2. CASE Failed(p, peers)
    BY <2>2 DEF Failed
  <2>. QED BY <2>1, <2>2
<1>. QED BY <1>1, <1>2, <1>3, <1>4 DEF Score

LEMMA SavedFairly ==
  ASSUME RecordsInv, PeersInv, NEW p, Softer(p, peers) \/ Failed(p, peers),
         Keep(p), run'.pc \notin BeforePeers
  PROVE  FairStep
<1>1. peers' = p /\ table' = p
  BY DEF Keep
<1>2. Unblamed
  BY <1>1, FairRecords DEF Unblamed
<1>3. Spotless(p) /\ \A a \in DOMAIN p : p[a].score <= p[a].score
  BY FairRecords
<1>. QED BY <1>1, <1>2, <1>3 DEF FairStep, RecordsInv, BeforePeers, Spotless

LEMMA LeftFairly ==
  ASSUME RecordsInv, PeersInv, NEW p, Softer(p, peers) \/ Failed(p, peers), Leave(p)
  PROVE  FairStep
<1>1. DOMAIN peers' = {} /\ table' = p /\ run'.pc = "off"
  BY DEF Leave, NoPeers, Off
<1>2. Unblamed
  BY <1>1, FairRecords DEF Unblamed
<1>3. Spotless(p)
  BY FairRecords
<1>. QED BY <1>1, <1>2, <1>3 DEF FairStep, RecordsInv, Spotless

LEMMA UnsavedFairly ==
  ASSUME RecordsInv, PeersInv, run.pc \notin BeforePeers, NEW p, Failed(p, peers),
         KeepUnsaved(p), run'.pc \notin BeforePeers
  PROVE  FairStep
<1>1. peers' = p /\ table' = table
  BY DEF KeepUnsaved
<1>2. /\ DOMAIN table \subseteq DOMAIN peers /\ DOMAIN peers \subseteq DOMAIN p
      /\ Spotless(p) /\ Spotless(table) /\ Spotless(peers)
  BY DEF RecordsInv, BeforePeers, Failed
<1>3. /\ \A a \in DOMAIN peers : Score(peers, a) \in Nat
      /\ \A a \in DOMAIN table : Score(table, a) \in Nat
      /\ \A a \in DOMAIN p : Score(p, a) \in Nat
  BY ScoreTypes DEF PeersInv, Failed
<1>4. \A a \in Honest \cap DOMAIN table :
        /\ Score(table, a) <= Score(peers, a) /\ Score(peers, a) <= Score(p, a)
        /\ Score(p, a) <= Score(peers, a) + TransientScore
  BY <1>2 DEF RecordsInv, Failed, Score
<1>5. \A a \in Honest \cap DOMAIN table :
        Score(table, a) <= Score(p, a) /\ Score(table, a) <= Score(peers, a) + TransientScore
  BY <1>2, <1>3, <1>4, ScoreAssumption
<1>6. Unblamed
  <2>1. ASSUME NEW a \in Honest \cap DOMAIN peers \cap DOMAIN table
        PROVE  /\ table[a].score <= peers[a].score + TransientScore
               /\ table[a].banned <= peers[a].banned
    BY <1>2, <1>5 DEF Score, Spotless, NoTime
  <2>. QED BY <1>1, <2>1, FairRecords DEF Unblamed
<1>. QED BY <1>1, <1>2, <1>5, <1>6 DEF FairStep, RecordsInv, BeforePeers, Spotless, Score

LEMMA SameRecords ==
  ASSUME RecordsInv, PeersInv
  PROVE  /\ \A a \in Honest \cap DOMAIN peers :
              /\ peers[a].score <= peers[a].score + TransientScore
              /\ peers[a].banned <= peers[a].banned
         /\ \A a \in Honest \cap DOMAIN peers \cap DOMAIN table :
              /\ table[a].score <= peers[a].score + TransientScore
              /\ table[a].banned <= peers[a].banned
<1>1. /\ \A a \in DOMAIN peers : Score(peers, a) \in Nat
      /\ \A a \in DOMAIN table : Score(table, a) \in Nat
  BY ScoreTypes DEF PeersInv
<1>2. \A a \in Honest \cap DOMAIN peers : Score(peers, a) <= Score(peers, a) + TransientScore
  BY <1>1, ScoreAssumption
<1>3. \A a \in Honest \cap DOMAIN peers \cap DOMAIN table : Score(table, a) <= Score(peers, a)
  BY DEF RecordsInv, Score
<1>4. \A a \in Honest \cap DOMAIN peers \cap DOMAIN table :
        Score(table, a) <= Score(peers, a) + TransientScore
  BY <1>1, <1>3, ScoreAssumption
<1>. QED BY <1>2, <1>4 DEF RecordsInv, Spotless, Score, NoTime

LEMMA UntouchedFairly ==
  ASSUME RecordsInv, PeersInv, UNCHANGED <<peers, table>>,
         run.pc \in BeforePeers <=> run'.pc \in BeforePeers
  PROVE  FairStep
<1>1. Unblamed
  BY SameRecords DEF Unblamed
<1>. QED BY <1>1 DEF FairStep, RecordsInv, BeforePeers, Spotless

LEMMA LostFairly ==
  ASSUME RecordsInv, PeersInv, LeaveUnsaved
  PROVE  FairStep
<1>1. DOMAIN peers' = {} /\ table' = table /\ run'.pc = "off"
  BY DEF LeaveUnsaved, NoPeers, Off
<1>2. Unblamed
  BY <1>1, SameRecords DEF Unblamed
<1>. QED BY <1>1, <1>2 DEF FairStep, RecordsInv, Spotless

-----------------------------------------------------------------------------
LEMMA BeginIsFair ==
  ASSUME SyncInv, PeersInv, RecordsInv, TickBegin \/ GenesisDone \/ TickPeers
  PROVE  FairStep
<1>1. run.pc \in BeforePeers /\ DOMAIN peers = {}
  BY DEF TickBegin, GenesisDone, TickPeers, BeforePeers, RecordsInv
<1>2. CASE TickBegin \/ GenesisDone
  <2>1. UNCHANGED <<peers, table>> /\ run'.pc \in BeforePeers
    BY <1>2 DEF TickBegin, GenesisDone, SyncInv, IsRun, Off, BeforePeers
  <2>. QED BY <1>1, <2>1, UntouchedFairly
<1>3. CASE TickPeers
  <2>1. PICK p : /\ \E seeded \in SUBSET Address : p = Upsert(table, seeded)
                 /\ Keep(p)
                 /\ \/ run' = Fetch(p)
                    \/ \E todo : run' = [Off EXCEPT !.pc = "probe", !.todo = todo]
    BY <1>3, SyncAssumption DEF TickPeers, Discovered
  <2>2. Softer(p, table)
    BY <2>1, SeedsAreFair DEF PeersInv, RecordsInv
  <2>3. run'.pc \notin BeforePeers
    <3>1. CASE run' = Fetch(p)
      BY <2>2, <3>1, FetchRun DEF Softer, BeforePeers
    <3>2. CASE \E todo : run' = [Off EXCEPT !.pc = "probe", !.todo = todo]
      BY <3>2 DEF Off, BeforePeers
    <3>. QED BY <2>1, <3>1, <3>2
  <2>4. peers' = p /\ table' = p /\ Spotless(p)
    BY <2>1, <2>2 DEF Keep, Softer
  <2>5. \A a \in DOMAIN p : p[a].score \in Nat
    BY <2>2, ScoreTypes DEF Softer, Score
  <2>6. \A a \in DOMAIN p : p[a].score <= p[a].score
    BY <2>5
  <2>7. Unblamed
    BY <1>1 DEF Unblamed
  <2>. QED BY <2>3, <2>4, <2>6, <2>7 DEF FairStep, RecordsInv, BeforePeers, Spotless
<1>. QED BY <1>2, <1>3

LEMMA ProbesAreFair ==
  ASSUME SyncInv, PeersInv, RecordsInv, NEW a \in Address, ProbeSucceeds(a) \/ ProbeFails(a)
  PROVE  FairStep
<1>1. PICK p : (Softer(p, peers) \/ Failed(p, peers)) /\ ProbeAnswer(a, p)
  <2>1. CASE ProbeFails(a)
    BY <2>1, EventsAreFair DEF ProbeFails, PeersInv, RecordsInv
  <2>2. CASE ProbeSucceeds(a)
    <3>1. PICK h \in ClaimedHeights(a), told \in {{}, Gossip} :
            ProbeAnswer(a, Upsert(RecordSuccess(peers, a, h, 0), told))
      BY <2>2 DEF ProbeSucceeds
    <3>2. PICK o : o = RecordSuccess(peers, a, h, 0)
      OBVIOUS
    <3>3. Softer(o, peers) /\ told \in SUBSET Address
      BY <3>2, ClaimsAreHeights, EventsAreFair, SyncAssumption DEF PeersInv, RecordsInv
    <3>4. Softer(Upsert(o, told), o)
      BY <3>3, SeedsAreFair DEF Softer
    <3>5. Softer(Upsert(o, told), peers)
      BY <3>3, <3>4, SofterTwice DEF PeersInv
    <3>. QED BY <3>1, <3>2, <3>5
  <2>. QED BY <2>1, <2>2
<1>2. Keep(p) /\ run.pc = "probe" /\ IsTable(p)
  BY <1>1 DEF ProbeAnswer, Softer, Failed
<1>3. run'.pc \notin BeforePeers
  <2>1. CASE run' = Fetch(p)
    BY <1>2, <2>1, FetchRun DEF BeforePeers
  <2>2. ASSUME NEW todo, run' = [run EXCEPT !.todo = todo] PROVE run'.pc = "probe"
    BY <1>2, <2>2 DEF Off, SyncInv, IsRun
  <2>. QED BY <1>1, <2>1, <2>2 DEF ProbeAnswer, BeforePeers
<1>. QED BY <1>1, <1>2, <1>3, SavedFairly

LEMMA RaceIsFair ==
  ASSUME SyncInv, PeersInv, RecordsInv, RaceStart \/ RaceLost
  PROVE  FairStep
<1>1. /\ IsRun(run) /\ run.pc \in {"ask", "wait"} /\ IsTable(peers) /\ Spotless(peers)
      /\ \A a \in DOMAIN peers : peers[a].score \in Nat /\ a \in Address
  BY ScoreTypes DEF SyncInv, PeersInv, RecordsInv, RaceStart, RaceLost, Score
<1>2. CASE RaceStart /\ Candidates = << >>
  <2>1. \A a \in Honest \cap DOMAIN peers : Score(peers, a) <= Score(peers, a)
    BY <1>1 DEF Score
  <2>2. Softer(peers, peers) /\ Leave(peers)
    BY <1>1, <1>2, <2>1 DEF Softer, RaceStart
  <2>. QED BY <2>2, LeftFairly
<1>3. CASE RaceStart /\ Candidates # << >>
  <2>1. UNCHANGED <<peers, table>> /\ run'.pc = "wait"
    BY <1>1, <1>3 DEF RaceStart, IsRun, Off
  <2>. QED BY <1>1, <2>1, UntouchedFairly DEF BeforePeers
<1>4. CASE RaceLost
  <2>. DEFINE p == [a \in DOMAIN peers |->
                      IF a \in Members(Candidates) THEN RecordTransientFailure(peers, a)[a] ELSE peers[a]]
  <2>1. Leave(p)
    BY <1>4 DEF RaceLost
  <2>2. ASSUME NEW a \in DOMAIN peers
        PROVE  /\ p[a] \in PeerState
               /\ a \in Honest =>
                    /\ p[a].banned = NoTime /\ Score(p, a) <= MaxScore
                    /\ Score(peers, a) <= Score(p, a)
                    /\ Score(p, a) <= Score(peers, a) + TransientScore
    <3>1. PICK q : q = RecordTransientFailure(peers, a)
      OBVIOUS
    <3>2. Failed(q, peers) /\ a \in DOMAIN q
      BY <1>1, <3>1, EventsAreFair DEF Failed
    <3>3. CASE p[a] = q[a]
      BY <3>2, <3>3 DEF Failed, Score, Spotless, IsTable
    <3>4. CASE p[a] = peers[a]
      BY <1>1, <3>4, ScoreAssumption DEF Score, Spotless, IsTable
    <3>. QED BY <3>1, <3>3, <3>4
  <2>3. DOMAIN p = DOMAIN peers
    OBVIOUS
  <2>4. IsTable(p)
    BY <1>1, <2>2 DEF IsTable
  <2>. HIDE DEF p
  <2>5. Failed(p, peers)
    BY <2>2, <2>3, <2>4 DEF Failed, Spotless, Score
  <2>. QED BY <2>1, <2>5, LeftFairly
<1>. QED BY <1>2, <1>3, <1>4

LEMMA RaceWonIsFair ==
  ASSUME SyncInv, PeersInv, RecordsInv, NEW a \in Address, RaceWon(a)
  PROVE  FairStep
<1>1. IsRun(run) /\ IsTable(peers) /\ Spotless(peers)
  BY DEF SyncInv, PeersInv, RecordsInv
<1>2. PICK h \in ClaimedHeights(a), page \in Pages(a) :
        LET p == RecordObservedHeight(peers, a, h, 0)
        IN \/ Leave(RecordSuccess(p, a, h, 0))
           \/ /\ Keep(p)
              /\ run' = [run EXCEPT !.pc = "ingest", !.peer = a, !.claimed = h, !.size = Len(page)]
  BY DEF RaceWon
<1>3. PICK p : p = RecordObservedHeight(peers, a, h, 0)
  OBVIOUS
<1>4. h \in Nat /\ Softer(p, peers)
  BY <1>1, <1>3, ClaimsAreHeights, EventsAreFair
<1>5. CASE Leave(RecordSuccess(p, a, h, 0))
  <2>1. Softer(RecordSuccess(p, a, h, 0), p)
    BY <1>4, EventsAreFair DEF Softer
  <2>2. Softer(RecordSuccess(p, a, h, 0), peers)
    BY <1>1, <1>4, <2>1, SofterTwice
  <2>. QED BY <1>5, <2>2, LeftFairly
<1>6. CASE /\ Keep(p)
           /\ run' = [run EXCEPT !.pc = "ingest", !.peer = a, !.claimed = h, !.size = Len(page)]
  <2>1. run'.pc = "ingest"
    BY <1>1, <1>6 DEF IsRun, Off
  <2>. QED BY <1>4, <1>6, <2>1, SavedFairly DEF BeforePeers
<1>. QED BY <1>2, <1>3, <1>5, <1>6

LEMMA JudgeRaceIsFair ==
  ASSUME SyncInv, PeersInv, CallInv, RecordsInv, JudgeRace
  PROVE  FairStep
<1>1. /\ IsTable(peers) /\ Spotless(peers) /\ run.peer \in Address /\ run.claimed \in Nat
      /\ run.peer \in Honest => Judged \in {"Ok", "Storage"}
  BY DEF PeersInv, CallInv, RecordsInv, JudgeRace, AtPeer, Judged
<1>2. CASE Judged = "Ok"
  <2>1. PICK p : p = RecordSuccess(peers, run.peer, run.claimed, 0)
    OBVIOUS
  <2>2. Softer(p, peers)
    BY <1>1, <2>1, EventsAreFair
  <2>3. CASE Leave(p)
    BY <2>2, <2>3, LeftFairly
  <2>4. CASE Keep(p) /\ run' = [Off EXCEPT !.pc = "ask", !.left = run.left - 1]
    <3>1. run'.pc = "ask"
      BY <2>4 DEF Off
    <3>. QED BY <2>2, <2>4, <3>1, SavedFairly DEF BeforePeers
  <2>. QED BY <1>2, <2>1, <2>3, <2>4 DEF JudgeRace
<1>3. CASE Judged # "Ok"
  <2>1. PICK p : p = ChainFailure(peers, run.peer, Judged)
    OBVIOUS
  <2>2. run.peer \in Honest => Judged \notin Malformed \cup Stale
    BY <1>1 DEF Malformed, Stale
  <2>3. Failed(p, peers)
    BY <1>1, <2>1, <2>2, BlameIsFair
  <2>4. Leave(p)
    BY <1>3, <2>1 DEF JudgeRace
  <2>. QED BY <2>3, <2>4, LeftFairly
<1>. QED BY <1>2, <1>3

-----------------------------------------------------------------------------
LEMMA PeerConnectsIsFair ==
  ASSUME SyncInv, PeersInv, RecordsInv, NEW a \in Address, PeerConnects(a)
  PROVE  FairStep
<1>1. IsRun(run) /\ IsTable(peers) /\ Spotless(peers) /\ run.todo # << >> /\ run.pc = "next"
  BY DEF SyncInv, PeersInv, RecordsInv, PeerConnects
<1>2. PICK h \in ClaimedHeights(a), told \in {{}, Gossip} :
        LET p == Upsert(RecordObservedHeight(peers, a, h, 0), told)
        IN \/ /\ Keep(p)
              /\ run' = [run EXCEPT !.pc = "ask", !.peer = a, !.claimed = h, !.left = MaxBatches]
           \/ Keep(RecordSuccess(p, a, h, 0)) /\ run' = NextPeer("next")
  BY DEF PeerConnects
<1>3. PICK o : o = RecordObservedHeight(peers, a, h, 0)
  OBVIOUS
<1>4. PICK p : p = Upsert(o, told)
  OBVIOUS
<1>5. h \in Nat /\ told \in SUBSET Address /\ Softer(o, peers)
  BY <1>1, <1>3, ClaimsAreHeights, EventsAreFair, SyncAssumption
<1>6. Softer(p, o)
  BY <1>4, <1>5, SeedsAreFair DEF Softer
<1>7. Softer(p, peers)
  BY <1>1, <1>5, <1>6, SofterTwice
<1>8. CASE Keep(p) /\ run' = [run EXCEPT !.pc = "ask", !.peer = a, !.claimed = h, !.left = MaxBatches]
  <2>1. run'.pc = "ask"
    BY <1>1, <1>8 DEF IsRun, Off
  <2>. QED BY <1>7, <1>8, <2>1, SavedFairly DEF BeforePeers
<1>9. CASE Keep(RecordSuccess(p, a, h, 0)) /\ run' = NextPeer("next")
  <2>1. Softer(RecordSuccess(p, a, h, 0), p)
    BY <1>5, <1>7, EventsAreFair DEF Softer
  <2>2. Softer(RecordSuccess(p, a, h, 0), peers) /\ run'.pc = "next"
    BY <1>1, <1>7, <1>9, <2>1, SofterTwice, NextPeerRun
  <2>. QED BY <1>9, <2>2, SavedFairly DEF BeforePeers
<1>. QED BY <1>2, <1>3, <1>4, <1>8, <1>9

LEMMA PeerAnswersIsFair ==
  ASSUME SyncInv, PeersInv, RecordsInv, PeerAnswers \/ AskPeer
  PROVE  FairStep
<1>1. /\ IsRun(run) /\ run.pc \in {"ask", "wait"} /\ run.todo # << >>
      /\ run.peer \in Address /\ run.claimed \in Nat /\ IsTable(peers) /\ Spotless(peers)
  BY DEF SyncInv, PeersInv, RecordsInv, AtPeer, PeerAnswers, AskPeer
<1>2. CASE Keep(RecordSuccess(peers, run.peer, run.claimed, 0)) /\ run' = NextPeer("next")
  <2>1. Softer(RecordSuccess(peers, run.peer, run.claimed, 0), peers)
    BY <1>1, EventsAreFair
  <2>2. run'.pc = "next"
    BY <1>1, <1>2, NextPeerRun
  <2>. QED BY <1>2, <2>1, <2>2, SavedFairly DEF BeforePeers
<1>3. ASSUME UNCHANGED <<peers, table>>,
             \/ \E n : run' = [run EXCEPT !.pc = "ingest", !.size = n]
             \/ run' = [run EXCEPT !.pc = "wait", !.from = best]
      PROVE  FairStep
  <2>1. run'.pc \in {"ingest", "wait"}
    BY <1>1, <1>3 DEF IsRun, Off
  <2>. QED BY <1>1, <1>3, <2>1, UntouchedFairly DEF BeforePeers
<1>. QED BY <1>2, <1>3 DEF PeerAnswers, AskPeer

LEMMA PeerFailsIsFair ==
  ASSUME SyncInv, PeersInv, RecordsInv, PeerFails \/ PeerRefuses
  PROVE  FairStep
<1>1. /\ run.pc \in {"next", "wait"} /\ run.todo \in Seq(Address) /\ run.todo # << >>
      /\ run' = NextPeer("next") /\ IsTable(peers) /\ Spotless(peers)
  BY DEF SyncInv, PeersInv, RecordsInv, AtPeer, PeerFails, PeerRefuses
<1>2. PICK a \in Address : KeepUnsaved(RecordTransientFailure(peers, a))
  <2>1. CASE PeerFails
    BY <2>1 DEF PeersInv, AtPeer, PeerFails
  <2>2. CASE PeerRefuses
    BY <1>1, <2>2, HeadTailProperties DEF PeerRefuses
  <2>. QED BY <2>1, <2>2
<1>3. Failed(RecordTransientFailure(peers, a), peers) /\ run'.pc = "next"
  BY <1>1, EventsAreFair, NextPeerRun
<1>. QED BY <1>1, <1>2, <1>3, UnsavedFairly DEF BeforePeers

LEMMA JudgePeerIsFair ==
  ASSUME SyncInv, PeersInv, CallInv, RecordsInv, JudgePeer
  PROVE  FairStep
<1>1. /\ IsRun(run) /\ run.pc = "judge" /\ IsTable(peers) /\ Spotless(peers)
      /\ run.todo # << >> /\ run.peer \in Address /\ run.claimed \in Nat
      /\ run.peer \in Honest => Judged \in {"Ok", "Storage"}
  BY DEF SyncInv, PeersInv, CallInv, RecordsInv, JudgePeer, AtPeer, Judged
<1>2. CASE Judged = "Ok" /\ LastPage
  <2>1. Keep(RecordSuccess(peers, run.peer, run.claimed, 0)) /\ run' = NextPeer("next")
    BY <1>2 DEF JudgePeer, Malformed, Stale
  <2>2. Softer(RecordSuccess(peers, run.peer, run.claimed, 0), peers) /\ run'.pc = "next"
    BY <1>1, <2>1, EventsAreFair, NextPeerRun
  <2>. QED BY <2>1, <2>2, SavedFairly DEF BeforePeers
<1>3. CASE Judged = "Ok" /\ ~LastPage
  <2>1. run' = [run EXCEPT !.pc = "ask", !.left = @ - 1] /\ UNCHANGED <<peers, table>>
    BY <1>3 DEF JudgePeer, Malformed, Stale
  <2>2. run'.pc = "ask"
    BY <1>1, <2>1 DEF IsRun, Off
  <2>. QED BY <1>1, <2>1, <2>2, UntouchedFairly DEF BeforePeers
<1>4. CASE Judged \in Malformed \cup Stale
  <2>1. PICK p : p = ChainFailure(peers, run.peer, Judged)
    OBVIOUS
  <2>2. run.peer \notin Honest
    BY <1>1, <1>4 DEF Malformed, Stale
  <2>3. Failed(p, peers)
    BY <1>1, <2>1, <2>2, BlameIsFair
  <2>4. KeepUnsaved(p) /\ run' = NextPeer("next")
    BY <1>4, <2>1 DEF JudgePeer, Malformed, Stale
  <2>5. run'.pc = "next"
    BY <1>1, <2>4, NextPeerRun
  <2>. QED BY <1>1, <2>3, <2>4, <2>5, UnsavedFairly DEF BeforePeers
<1>5. CASE Judged \notin {"Ok"} \cup Malformed \cup Stale
  BY <1>5, LostFairly DEF JudgePeer
<1>. QED BY <1>2, <1>3, <1>4, <1>5

LEMMA DiscoverIsFair ==
  ASSUME SyncInv, PeersInv, RecordsInv, DiscoverBegin \/ DiscoverPeer \/ DiscoverEnd
  PROVE  FairStep
<1>1. /\ IsRun(run) /\ run.pc \in {"next", "discover"} /\ run.todo \in Seq(Address)
      /\ IsTable(peers) /\ Spotless(peers)
  BY DEF SyncInv, PeersInv, RecordsInv, DiscoverBegin, DiscoverPeer, DiscoverEnd
<1>2. CASE Leave(peers)
  <2>1. \A a \in DOMAIN peers : Score(peers, a) \in Nat
    BY <1>1, ScoreTypes
  <2>2. \A a \in Honest \cap DOMAIN peers : Score(peers, a) <= Score(peers, a)
    BY <2>1
  <2>3. Softer(peers, peers)
    BY <1>1, <2>2 DEF Softer
  <2>. QED BY <1>2, <2>3, LeftFairly
<1>3. CASE DiscoverBegin /\ ~Leave(peers)
  <2>1. PICK todo : run' = [run EXCEPT !.pc = "discover", !.todo = todo] /\ UNCHANGED <<peers, table>>
    BY <1>3 DEF DiscoverBegin
  <2>2. run'.pc = "discover"
    BY <1>1, <2>1 DEF IsRun, Off
  <2>. QED BY <1>1, <2>1, <2>2, UntouchedFairly DEF BeforePeers
<1>4. CASE DiscoverPeer
  <2>1. PICK a \in Address : a = Head(run.todo)
    BY <1>1, <1>4, HeadTailProperties DEF DiscoverPeer
  <2>2. run'.pc = "discover"
    BY <1>1, <1>4 DEF DiscoverPeer, IsRun, Off
  <2>3. ASSUME NEW h \in ClaimedHeights(a), NEW told \in {{}, Gossip},
               Keep(RecordSuccess(Upsert(peers, told), a, h, 0))
        PROVE  FairStep
    <3>1. PICK p : p = Upsert(peers, told)
      OBVIOUS
    <3>2. h \in Nat /\ Softer(p, peers)
      BY <1>1, <3>1, ClaimsAreHeights, SeedsAreFair, SyncAssumption
    <3>3. Softer(RecordSuccess(p, a, h, 0), p)
      BY <3>2, EventsAreFair DEF Softer
    <3>4. Softer(RecordSuccess(p, a, h, 0), peers)
      BY <1>1, <3>2, <3>3, SofterTwice
    <3>. QED BY <2>2, <2>3, <3>1, <3>4, SavedFairly DEF BeforePeers
  <2>4. CASE KeepUnsaved(RecordTransientFailure(peers, a))
    <3>1. Failed(RecordTransientFailure(peers, a), peers)
      BY <1>1, EventsAreFair
    <3>. QED BY <1>1, <2>2, <2>4, <3>1, UnsavedFairly DEF BeforePeers
  <2>. QED BY <1>4, <2>1, <2>3, <2>4 DEF DiscoverPeer
<1>. QED BY <1>2, <1>3, <1>4 DEF DiscoverEnd

LEMMA OthersAreFair ==
  ASSUME SyncInv, PeersInv, RecordsInv,
         ChainStep \/ OtherThread \/ (\E a \in Honest : Mine(a)) \/ UNCHANGED svars
  PROVE  FairStep
<1>1. UNCHANGED <<peers, table>>
  BY DEF ChainStep, OtherThread, Mine, svars
<1>2. run.pc \in BeforePeers <=> run'.pc \in BeforePeers
  BY DEF ChainStep, OtherThread, Mine, svars, SyncInv, IsRun, Off, BeforePeers
<1>. QED BY <1>1, <1>2, UntouchedFairly

(* A ban that ends is not an honest peer's. *)
LEMMA BanEndIsFair ==
  ASSUME PeersInv, RecordsInv, NEW a \in Address, BanEnds(a)
  PROVE  FairStep
<1>1. /\ run.pc = "off" /\ a \in DOMAIN table /\ table[a].banned > 0 /\ UNCHANGED <<peers, run>>
      /\ table' = [table EXCEPT ![a].banned = NoTime] /\ DOMAIN peers = {}
  BY DEF BanEnds, IsBanned, RecordsInv
<1>2. a \notin Honest
  BY <1>1 DEF RecordsInv, Spotless, NoTime
<1>3. DOMAIN table' = DOMAIN table /\ \A b \in DOMAIN table \ {a} : table'[b] = table[b]
  BY <1>1
<1>4. Spotless(table')
  BY <1>2, <1>3 DEF RecordsInv, Spotless
<1>. QED BY <1>1, <1>4 DEF FairStep, RecordsInv, Unblamed, Spotless

LEMMA FairSteps ==
  ASSUME SyncInv, PeersInv, CallInv, RecordsInv, [SyncNext]_svars
  PROVE  FairStep
<1>1. CASE TickBegin \/ GenesisDone \/ TickPeers
  BY <1>1, BeginIsFair
<1>2. CASE \E a \in Address : ProbeSucceeds(a) \/ ProbeFails(a)
  BY <1>2, ProbesAreFair
<1>3. CASE Racers
  BY <1>3, RaceIsFair, RaceWonIsFair, JudgeRaceIsFair DEF Racers
<1>4. CASE OneByOne
  BY <1>4, PeerConnectsIsFair, PeerAnswersIsFair, PeerFailsIsFair, JudgePeerIsFair,
     DiscoverIsFair DEF OneByOne
<1>5. CASE ChainStep \/ OtherThread \/ (\E a \in Honest : Mine(a)) \/ UNCHANGED svars
  BY <1>5, OthersAreFair
<1>6. CASE (\E a \in Address : BanEnds(a)) \/ SyncCrash
  BY <1>6, BanEndIsFair, LostFairly DEF SyncCrash
<1>. QED BY <1>1, <1>2, <1>3, <1>4, <1>5, <1>6 DEF SyncNext, Tick

LEMMA RecordsInvariance == ASSUME OneWriter PROVE SyncSpec => []RecordsInv
<1>1. SyncInit => RecordsInv
  BY DEF SyncInit, NoTickYet, NoPeers, Off, RecordsInv, Spotless
<1>2. SyncInv /\ PeersInv /\ CallInv /\ RecordsInv /\ [SyncNext]_svars => RecordsInv'
  BY FairSteps DEF FairStep
<1>. QED BY <1>1, <1>2, SyncInvariance, PeersInvariance, CallInvariance, PTL DEF SyncSpec

(* With one writer and sound reads a peer that answers by the protocol is  *)
(* never found stale or malformed: whatever fork, page or failure the      *)
(* others bring about, no step raises its score by more than one failure   *)
(* to reach it, or bans it (record_chain_failure, insert_headers).         *)
THEOREM HonestStaysUnblamed == ASSUME OneWriter PROVE SyncSpec => HonestNotBlamed
<1>1. SyncInv /\ PeersInv /\ CallInv /\ RecordsInv /\ [SyncNext]_svars => [Unblamed]_svars
  BY FairSteps DEF FairStep
<1>. QED
  BY <1>1, SyncInvariance, PeersInvariance, CallInvariance, RecordsInvariance, PTL
  DEF SyncSpec, HonestNotBlamed, Unblamed

(* With one writer and sound reads the ticks make of the store a           *)
(* BestChain: it admits valid headers on known ones and moves its tip to   *)
(* strictly heavier ones, whatever the peers answer.                       *)
THEOREM SyncRefinesBestChain == ASSUME OneWriter PROVE SyncSpec => ImplementsBestChain
<1>. USE SyncImplements, Refinement DEF ImplementsHeaderChain
<1>. QED BY PTL
=============================================================================
