------------------------------ MODULE HeaderSync ------------------------------
(***************************************************************************)
(* One thread's header sync: run_sync_once of rust/crates/android-ffi and  *)
(* the HeaderSyncRunner of rust/crates/hns-sync.  A tick makes sure there  *)
(* is a genesis, loads the peers, probes some of them, then asks for pages *)
(* of headers after a locator of the best chain: of several peers at once  *)
(* (Racing, as Android does) or of one after the other.  Pages go through  *)
(* HeaderChain's insert_headers; workers other than Me are other threads   *)
(* on the same store.                                                      *)
(*                                                                         *)
(* Times are relative to now: a ban is 1 until it has ended.               *)
(***************************************************************************)
EXTENDS HeaderChain, PeerRules

CONSTANTS
  Me,            \* the worker whose ticks these are
  Racing,        \* parallel_header_fetch_peers > 1
  Fanout,        \* parallel_header_fetch_peers
  OutboundPeers, \* preferred_peers
  MaxBatches,    \* max_header_batches_per_peer
  PageSize,      \* MAX_HEADERS
  ProbePeers,    \* parallel_peer_probes
  QueryPeers,    \* peer_discovery_query_peers
  PeerTarget,    \* peer_discovery_target
  LocatorLimit,  \* DEFAULT_LOCATOR_LIMIT
  LocatorDense,  \* 10, the entries before the locator's step doubles
  Seeds,         \* addresses the DNS seeds may return
  Gossip,        \* addresses peers may tell of
  Honest,        \* peers that answer by the protocol
  FirstView,     \* the chain each honest peer starts on
  LastView,      \* the chain each honest peer ends on
  Lies,          \* pages another peer may answer
  Claims         \* heights another peer may claim

(* Honest peers tell of valid chains only. *)
Valid(chain) == \A n \in 1 .. Len(chain) : SubSeq(chain, 1, n) \in ValidBits \cap ValidPow

ASSUME HonestAssumption == \A a \in Honest : Valid(FirstView[a]) /\ Valid(LastView[a])

ASSUME SyncAssumption ==
  /\ Me \in Worker /\ Racing \in BOOLEAN
  /\ {Fanout, OutboundPeers, MaxBatches, PageSize, LocatorLimit, LocatorDense} \subseteq Nat \ {0}
  /\ {ProbePeers, QueryPeers, PeerTarget} \subseteq Nat
  /\ Honest \cup Seeds \cup Gossip \subseteq Address /\ Claims \subseteq Nat
  /\ FirstView \in [Honest -> Header] /\ LastView \in [Honest -> Header]
  /\ \A a \in Honest : \A n \in 1 .. Len(LastView[a]) : SubSeq(LastView[a], 1, n) \in Header

VARIABLES
  view,    \* view[a]: the best chain of honest peer a
  peers,   \* the PeerManager of the running tick
  table,   \* peers.sqlite
  run,     \* the locals of the running tick
  caught   \* history: whose malformed page was met and whose ban has not ended

svars == <<vars, view, peers, table, run, caught>>

Members(s) == {s[i] : i \in DOMAIN s}
NoPeers == [a \in {} |-> NewPeer]

Off == [pc |-> "off", todo |-> << >>, tried |-> {}, peer |-> 0, claimed |-> 0, from |-> Genesis,
        left |-> 0, size |-> 0, accepted |-> 0]

Stage == {"off", "genesis", "start", "probe", "next", "ask", "wait", "ingest", "judge", "discover"}

NoTickYet ==
  view = FirstView /\ peers = NoPeers /\ table = NoPeers /\ run = Off /\ caught = {}

SyncInit == Init /\ NoTickYet

(* An earlier process has inserted the genesis. *)
StoredInit ==
  /\ headers = [h \in {Genesis} |-> [height |-> 0, work |-> Work[h]]]
  /\ canonical = ChainTo(Genesis)
  /\ best = Genesis
  /\ call = [w \in Worker |-> Idle]
  /\ NoTickYet

(* The manager becomes p, and is saved. *)
Keep(p) == peers' = p /\ table' = p
KeepUnsaved(p) == peers' = p /\ UNCHANGED table

(* The tick returns; peers are dropped. *)
Leave(p) == peers' = NoPeers /\ table' = p /\ run' = Off
LeaveUnsaved == peers' = NoPeers /\ run' = Off /\ UNCHANGED table

-----------------------------------------------------------------------------
(* HeaderSyncCoordinator.locator: heights of its entries, from the top;    *)
(* after the genesis it ends.                                              *)
LocatorHeight(top, i) ==
  LET f[k \in 1 .. LocatorLimit] ==
        IF k = 1 THEN top
        ELSE LET step == IF k - 1 <= LocatorDense THEN 1 ELSE 2 ^ (k - 1 - LocatorDense)
             IN IF f[k - 1] < step THEN 0 ELSE f[k - 1] - step
  IN f[i]

(* Mutation of Locator: the tip alone. *)
LocatorOfTip(tip) == {tip}

(* The entries are the tip and ancestors of it. *)
Locator(tip) ==
  {SubSeq(tip, 1, n) : n \in {n \in 0 .. Len(tip) :
                               \E i \in 1 .. LocatorLimit : n = LocatorHeight(Len(tip), i)}}

(* An hsd node answers with the headers after the highest locator entry on *)
(* its chain.                                                              *)
Page(chain, locator) ==
  LET known == {n \in 0 .. Len(chain) : SubSeq(chain, 1, n) \in locator}
      from == IF known = {} THEN 0 ELSE CHOOSE n \in known : \A m \in known : m <= n
      size == IF Len(chain) - from < PageSize THEN Len(chain) - from ELSE PageSize
  IN [i \in 1 .. size |-> SubSeq(chain, 1, from + i)]

(* insert_headers may be called with every page. *)
ASSUME PageAssumption ==
  /\ Lies \subseteq Batches
  /\ \A chain, tip \in Header : Page(chain, Locator(tip)) \in Batches

Pages(a) == IF a \in Honest THEN {Page(view[a], Locator(run.from))} ELSE Lies
ClaimedHeights(a) == IF a \in Honest THEN {Len(view[a])} ELSE Claims

(* An honest peer moves to a longer part of its last chain. *)
Mine(a) ==
  /\ \E n \in Len(view[a]) + 1 .. Len(LastView[a]) :
       view' = [view EXCEPT ![a] = SubSeq(LastView[a], 1, n)]
  /\ UNCHANGED <<vars, peers, table, run, caught>>

-----------------------------------------------------------------------------
(* Mutation of TickBegin: the genesis is inserted whatever is stored. *)
TickBeginAnyway ==
  /\ run.pc = "off"
  /\ call[Me].pc = "idle"
  /\ call' = [call EXCEPT ![Me] =
       [Idle EXCEPT !.op = "genesis", !.pc = "put", !.accepted = <<GenesisRow>>,
                    !.promote = "replace", !.upto = 1]]
  /\ run' = [Off EXCEPT !.pc = "genesis"]
  /\ UNCHANGED <<headers, canonical, best, view, peers, table, caught>>

(* run_sync_once: insert the genesis when there is no best header. *)
TickBegin ==
  /\ run.pc = "off"
  /\ call[Me].pc = "idle"
  /\ \/ BeginGenesis(Me) /\ run' = [Off EXCEPT !.pc = "genesis"]
     \/ best # NoHash /\ UNCHANGED vars /\ run' = [Off EXCEPT !.pc = "start"]
  /\ UNCHANGED <<view, peers, table, caught>>

(* Mutation of GenesisDone: the result of insert_genesis is ignored. *)
GenesisDoneAnyway ==
  /\ run.pc = "genesis"
  /\ call[Me].pc = "idle"
  /\ run' = [run EXCEPT !.pc = "start"]
  /\ UNCHANGED <<vars, view, peers, table, caught>>

(* insert_genesis returned; an error ends the tick. *)
GenesisDone ==
  /\ run.pc = "genesis"
  /\ call[Me].pc = "idle"
  /\ run' = IF call[Me].result = "Ok" THEN [run EXCEPT !.pc = "start"] ELSE Off
  /\ UNCHANGED <<vars, view, peers, table, caught>>

(* Where a tick with manager p goes after the probes. *)
Fetch(p) ==
  IF Racing
  THEN [Off EXCEPT !.pc = "ask", !.left = OutboundPeers * MaxBatches]
  ELSE [Off EXCEPT !.pc = "next", !.todo = SelectOutbound(p, OutboundPeers, 0)]

(* DnsSeedPeerSource.discover: any of the seed names may fail. *)
Discovered == SUBSET Seeds

(* Load the peers, seed them, and choose whom to probe; due stands for     *)
(* peer_height_refresh_due, which depends on the clock unless no peer has  *)
(* a height.                                                               *)
TickPeers ==
  /\ run.pc = "start"
  /\ \E seeded \in IF Cardinality(DOMAIN table) < PeerTarget THEN Discovered ELSE {{}} :
       LET p == Upsert(table, seeded)
           measured == \E a \in DOMAIN p : p[a].height > 0
       IN /\ Keep(p)
          /\ \E due \in IF measured THEN BOOLEAN ELSE {TRUE} :
               LET todo == IF due THEN SelectDiscoveryOutbound(p, ProbePeers, 0, {})
                           ELSE SelectOutbound(p, ProbePeers, 0)
                   enough == Cardinality(DOMAIN p) >= PeerTarget /\ measured /\ ~due
               IN run' = IF enough \/ Len(todo) <= 1
                         THEN Fetch(p)
                         ELSE [Off EXCEPT !.pc = "probe", !.todo = todo]
  /\ UNCHANGED <<vars, view, caught>>

(* The probes answer in any order. *)
ProbeAnswer(a, p) ==
  /\ run.pc = "probe"
  /\ a \in Members(run.todo)
  /\ Keep(p)
  /\ LET todo == SelectSeq(run.todo, LAMBDA b : b # a)
     IN run' = IF todo = << >> THEN Fetch(p) ELSE [run EXCEPT !.todo = todo]
  /\ UNCHANGED <<vars, view, caught>>

ProbeSucceeds(a) ==
  \E h \in ClaimedHeights(a), told \in {{}, Gossip} :
    ProbeAnswer(a, Upsert(RecordSuccess(peers, a, h, 0), told))

ProbeFails(a) == ProbeAnswer(a, RecordTransientFailure(peers, a))

-----------------------------------------------------------------------------
(* Racing: the first of Fanout peers to answer the locator wins, and the   *)
(* answers of the others are dropped.                                      *)
Candidates == SelectOutbound(peers, Fanout, 0)

RaceStart ==
  /\ Racing
  /\ run.pc = "ask"
  /\ IF Candidates = << >>
     THEN Leave(peers)
     ELSE run' = [run EXCEPT !.pc = "wait", !.from = best] /\ UNCHANGED <<peers, table>>
  /\ UNCHANGED <<vars, view, caught>>

RaceWon(a) ==
  /\ Racing
  /\ run.pc = "wait"
  /\ a \in Members(Candidates)
  /\ \E h \in ClaimedHeights(a), page \in Pages(a) :
       LET p == RecordObservedHeight(peers, a, h, 0)
       IN IF page = << >>
          THEN Leave(RecordSuccess(p, a, h, 0)) /\ UNCHANGED vars
          ELSE /\ Keep(p)
               /\ BeginBatch(Me, page)
               /\ run' = [run EXCEPT !.pc = "ingest", !.peer = a, !.claimed = h,
                                     !.size = Len(page)]
  /\ UNCHANGED <<view, caught>>

(* No candidate answered with headers. *)
RaceLost ==
  /\ Racing
  /\ run.pc = "wait"
  /\ Leave([a \in DOMAIN peers |->
              IF a \in Members(Candidates) THEN RecordTransientFailure(peers, a)[a] ELSE peers[a]])
  /\ UNCHANGED <<vars, view, caught>>

-----------------------------------------------------------------------------
(* One after the other: sync_peer for each peer of the selection.          *)
(* Mutation of NextPeer: the peer stays at the head of the list. *)
SamePeer(pc) == [run EXCEPT !.pc = pc, !.tried = @ \cup {Head(run.todo)}]

NextPeer(pc) ==
  [run EXCEPT !.pc = pc, !.todo = Tail(@), !.tried = @ \cup {Head(run.todo)}]

Ahead(h) == best = NoHash \/ h > headers[best].height

(* connect, handshake, addresses; a peer that is not ahead is done with.   *)
PeerConnects(a) ==
  /\ run.pc = "next"
  /\ run.todo # << >> /\ a = Head(run.todo)
  /\ \E h \in ClaimedHeights(a), told \in {{}, Gossip} :
       LET p == Upsert(RecordObservedHeight(peers, a, h, 0), told)
       IN IF Ahead(h)
          THEN /\ Keep(p)
               /\ run' = [run EXCEPT !.pc = "ask", !.peer = a, !.claimed = h, !.left = MaxBatches]
          ELSE Keep(RecordSuccess(p, a, h, 0)) /\ run' = NextPeer("next")
  /\ UNCHANGED <<vars, view, caught>>

PeerRefuses ==
  /\ run.pc = "next"
  /\ run.todo # << >>
  /\ KeepUnsaved(RecordTransientFailure(peers, Head(run.todo)))
  /\ run' = NextPeer("next")
  /\ UNCHANGED <<vars, view, caught>>

AskPeer ==
  /\ ~Racing
  /\ run.pc = "ask"
  /\ run' = [run EXCEPT !.pc = "wait", !.from = best]
  /\ UNCHANGED <<vars, view, peers, table, caught>>

PeerAnswers ==
  /\ ~Racing
  /\ run.pc = "wait"
  /\ \E page \in Pages(run.peer) :
       IF page = << >>
       THEN /\ Keep(RecordSuccess(peers, run.peer, run.claimed, 0))
            /\ run' = NextPeer("next")
            /\ UNCHANGED vars
       ELSE /\ BeginBatch(Me, page)
            /\ run' = [run EXCEPT !.pc = "ingest", !.size = Len(page)]
            /\ UNCHANGED <<peers, table>>
  /\ UNCHANGED <<view, caught>>

PeerFails ==
  /\ ~Racing
  /\ run.pc = "wait"
  /\ KeepUnsaved(RecordTransientFailure(peers, run.peer))
  /\ run' = NextPeer("next")
  /\ UNCHANGED <<vars, view, caught>>

-----------------------------------------------------------------------------
(* A step of insert_headers or insert_genesis; when it is the last one of  *)
(* an ingest, the number of accepted headers is what it returns.           *)
ChainStep ==
  /\ Step(Me) \/ StorageError(Me)
  /\ run' = IF run.pc = "ingest" /\ call'[Me].pc = "idle"
            THEN [run EXCEPT !.pc = "judge", !.accepted = Len(call[Me].accepted)]
            ELSE run
  /\ UNCHANGED <<view, peers, table, caught>>

Malformed == {"InvalidDifficultyBits", "InvalidProofOfWork"}
Stale == {"UnknownParent", "DuplicateHeader"}

(* record_chain_failure *)
ChainFailure(p, a, result) ==
  CASE result \in Malformed -> RecordMalformed(p, a, 0, 1)
    [] result \in Stale -> RecordStaleTip(p, a)
    [] OTHER -> RecordTransientFailure(p, a)

LastPage == run.size < PageSize \/ run.accepted = 0 \/ run.left = 1

Judged == call[Me].result

JudgeRace ==
  /\ Racing
  /\ run.pc = "judge"
  /\ IF Judged = "Ok"
     THEN LET p == RecordSuccess(peers, run.peer, run.claimed, 0)
          IN IF LastPage
             THEN Leave(p)
             ELSE Keep(p) /\ run' = [Off EXCEPT !.pc = "ask", !.left = run.left - 1]
     ELSE Leave(ChainFailure(peers, run.peer, Judged))
  /\ caught' = IF Judged \in Malformed THEN caught \cup {run.peer} ELSE caught
  /\ UNCHANGED <<vars, view>>

(* A storage error leaves the run through `?`, before the final save.      *)
JudgePeer ==
  /\ ~Racing
  /\ run.pc = "judge"
  /\ LET p == ChainFailure(peers, run.peer, Judged)
     IN CASE Judged = "Ok" /\ LastPage ->
               /\ Keep(RecordSuccess(peers, run.peer, run.claimed, 0))
               /\ run' = NextPeer("next")
          [] Judged = "Ok" /\ ~LastPage ->
               /\ run' = [run EXCEPT !.pc = "ask", !.left = @ - 1]
               /\ UNCHANGED <<peers, table>>
          [] Judged \in Malformed \cup Stale ->
               KeepUnsaved(p) /\ run' = NextPeer("next")
          [] OTHER -> LeaveUnsaved
  /\ caught' = IF Judged \in Malformed THEN caught \cup {run.peer} ELSE caught
  /\ UNCHANGED <<vars, view>>

(* discover_more_peers, after the last peer. *)
DiscoverBegin ==
  /\ run.pc = "next"
  /\ run.todo = << >>
  /\ IF Cardinality(DOMAIN peers) >= PeerTarget \/ QueryPeers = 0
     THEN Leave(peers)
     ELSE /\ run' = [run EXCEPT !.pc = "discover",
                       !.todo = SelectDiscoveryOutbound(peers, QueryPeers, 0, run.tried)]
          /\ UNCHANGED <<peers, table>>
  /\ UNCHANGED <<vars, view, caught>>

DiscoverPeer ==
  /\ run.pc = "discover"
  /\ run.todo # << >>
  /\ Cardinality(DOMAIN peers) < PeerTarget
  /\ LET a == Head(run.todo)
     IN \/ \E h \in ClaimedHeights(a), told \in {{}, Gossip} :
             Keep(RecordSuccess(Upsert(peers, told), a, h, 0))
        \/ KeepUnsaved(RecordTransientFailure(peers, a))
  /\ run' = [run EXCEPT !.todo = Tail(@)]
  /\ UNCHANGED <<vars, view, caught>>

DiscoverEnd ==
  /\ run.pc = "discover"
  /\ run.todo = << >> \/ Cardinality(DOMAIN peers) >= PeerTarget
  /\ Leave(peers)
  /\ UNCHANGED <<vars, view, caught>>

-----------------------------------------------------------------------------
(* A ban ends between two ticks. *)
BanEnds(a) ==
  /\ run.pc = "off"
  /\ a \in DOMAIN table /\ IsBanned(table[a], 0)
  /\ table' = [table EXCEPT ![a].banned = NoTime]
  /\ caught' = caught \ {a}
  /\ UNCHANGED <<vars, view, peers, run>>

(* The process dies; what was not saved is forgotten. *)
SyncCrash ==
  /\ "crash" \in Faults
  /\ run.pc # "off"
  /\ IF \E w \in Worker : call[w].pc # "idle" THEN Crash ELSE UNCHANGED vars
  /\ LeaveUnsaved
  /\ caught' = {a \in caught : a \in DOMAIN table /\ IsBanned(table[a], 0)}
  /\ UNCHANGED view

(* Another thread inserts pages too. *)
OtherThread ==
  /\ \E w \in Worker \ {Me} :
       \/ Step(w) \/ StorageError(w) \/ BeginGenesis(w)
       \/ \E b \in Batches : BeginBatch(w, b)
  /\ UNCHANGED <<view, peers, table, run, caught>>

Racers == RaceStart \/ (\E a \in Address : RaceWon(a)) \/ RaceLost \/ JudgeRace

OneByOne ==
  \/ \E a \in Address : PeerConnects(a)
  \/ PeerRefuses \/ AskPeer \/ PeerAnswers \/ PeerFails \/ JudgePeer
  \/ DiscoverBegin \/ DiscoverPeer \/ DiscoverEnd

Tick ==
  \/ TickBegin \/ GenesisDone \/ TickPeers
  \/ \E a \in Address : ProbeSucceeds(a) \/ ProbeFails(a)
  \/ ChainStep
  \/ Racers
  \/ OneByOne

SyncNext ==
  \/ Tick
  \/ \E a \in Honest : Mine(a)
  \/ \E a \in Address : BanEnds(a)
  \/ SyncCrash
  \/ OtherThread

SyncSpec == SyncInit /\ [][SyncNext]_svars
-----------------------------------------------------------------------------
(* What a tick does to the header store is what HeaderChain allows: it     *)
(* inserts the genesis only into a store it read as empty and pages only   *)
(* into one with a best header, so what holds of HeaderChain holds here.   *)
ImplementsHeaderChain == Spec

(* A peer that answers by the protocol is never found stale or malformed:  *)
(* whatever fork the store is on, its page after our locator attaches, and *)
(* a crash or a storage error is not held against it as bad data.          *)
HonestNotBlamed ==
  [][\A p \in {peers', table'} : \A a \in Honest \cap DOMAIN peers \cap DOMAIN p :
       /\ p[a].score <= peers[a].score + TransientScore
       /\ p[a].banned <= peers[a].banned]_svars

(* "Malformed consensus data is still scored and cooldown-banned": between *)
(* ticks the sender of a malformed page is banned in peers.sqlite.         *)
BansSurviveTicks ==
  run.pc = "off" =>
    \A a \in caught : a \in DOMAIN table /\ IsBanned(table[a], 0)

(* Whatever the ticks so far have learnt about the peers, the next one     *)
(* selects as many distinct unbanned peers, from as many address groups,   *)
(* as its limits allow: claims of height, gossip and failures cannot crowd *)
(* a group out.                                                            *)
SelectionSpreads == run.pc = "off" => SelectsSpread(table, 0)

(* A peer that failed makes way for its neighbours ("transient peer        *)
(* failures must not permanently exhaust the outbound peer pool").         *)
FailuresMakeWay == run.pc = "off" => FailedMakeWay(table, 0)

(* The peers whose packets the tick waits for.  A timeout is one read's,   *)
(* and handshake, request_headers and request_addresses read on after a    *)
(* ping or an unknown packet: only a peer that stops sending those, as an  *)
(* honest one does, lets the tick go on.                                   *)
WaitedFor ==
  CASE run.pc = "probe" -> Members(run.todo)
    [] run.pc = "wait" -> IF Racing THEN Members(Candidates) ELSE {run.peer}
    [] run.pc = "next" /\ run.todo # << >> -> {Head(run.todo)}
    [] run.pc = "discover" /\ run.todo # << >> /\ Cardinality(DOMAIN peers) < PeerTarget ->
         {Head(run.todo)}
    [] OTHER -> {}

FairTick == SyncSpec /\ WF_svars(Tick /\ WaitedFor \subseteq Honest)

(* For catching up: no peer sends ignored packets for ever, so every tick  *)
(* goes on; peers find blocks; and seeds, races and answers favour each    *)
(* honest peer again and again.                                            *)
SeedsArrive == TickPeers /\ Seeds \subseteq DOMAIN peers'
HonestConnects(a) == PeerConnects(a) /\ a \in Honest
HonestAnswers(a) == PeerAnswers /\ run.peer = a

SyncFairness ==
  /\ WF_svars(Tick)
  /\ SF_svars(SeedsArrive)
  /\ \A a \in Honest :
       /\ WF_svars(Mine(a))
       /\ SF_svars(RaceWon(a))
       /\ SF_svars(HonestConnects(a))
       /\ SF_svars(HonestAnswers(a))

FairSync == SyncSpec /\ SyncFairness
CalmStored == StoredInit /\ [][SyncNext]_svars /\ SyncFairness /\ <>[][~SyncCrash]_svars

(* Every honest peer's final chain becomes, and stays, the best chain.     *)
CatchesUp == <>[](\A a \in Honest : best = LastView[a])

(* Ticks end, whatever pages peers repeat and whatever fails: the only way *)
(* to keep one running is to keep it in one wait, with packets it ignores. *)
TicksEnd ==
  \/ []<>(run.pc = "off")
  \/ \E a \in Address \ Honest : <>[](a \in WaitedFor)

-----------------------------------------------------------------------------
(* The inductive invariant of a tick: once it is past the genesis the      *)
(* store has a best header, so insert_headers always has one to compare    *)
(* with, and it asks after a header that exists.                           *)
GenesisUnderWay(c) ==
  /\ c.pc \in {"idle", "put", "promote"}
  /\ c.pc # "idle" => c.op = "genesis" /\ c.promote = "replace"
  /\ c.pc = "idle" /\ c.result = "Ok" => best # NoHash

IsRun(r) == r = [f \in DOMAIN Off |-> r[f]] /\ r.pc \in Stage

SyncInv ==
  /\ IInv
  /\ view \in [Honest -> Header]
  /\ IsRun(run)
  /\ run.pc = "genesis" => GenesisUnderWay(call[Me])
  /\ run.pc \notin {"off", "genesis"} => best # NoHash
  /\ run.pc = "wait" => run.from \in Header

(* The inductive invariant of the peer records: whose malformed page was   *)
(* met is banned in the manager once the tick has loaded it, and in        *)
(* peers.sqlite except while a manager waits for the next save; the serial *)
(* runner has the peer it is at still at the head of its list.             *)
Banned(p) == DOMAIN p \ Unbanned(p, 0)
AtPeer == IF Racing THEN run.pc \in {"ingest", "judge"} ELSE run.pc \in {"ask", "wait", "ingest", "judge"}

PeersInv ==
  /\ IsTable(peers) /\ IsTable(table)
  /\ run.pc # "probe" => run.todo \in Seq(Address)
  /\ AtPeer => run.peer \in Address /\ run.claimed \in Nat
  /\ AtPeer /\ ~Racing => run.todo # << >>
  /\ run.pc \notin {"off", "genesis", "start"} => caught \subseteq Banned(peers)
  /\ run.pc \notin {"next", "discover"} => caught \subseteq Banned(table)

(* With one writer and sound reads, and for every honest peer: its page    *)
(* attaches to the store and nothing but a storage error makes its insert  *)
(* fail; its record was never banned, and the saved one is not worse than  *)
(* the manager's.                                                          *)
Attaches(page) ==
  \A i \in 1 .. Len(page) :
    /\ page[i] # Genesis /\ page[i] \in ValidBits \cap ValidPow
    /\ Parent(page[i]) \in IF i = 1 THEN DOMAIN headers ELSE {page[i - 1]}

CleanCall(c) ==
  /\ c.op = "batch" /\ c.pc \in {"validate", "decide", "put", "promote"}
  /\ c.pc = "validate" =>
       /\ Attaches(c.batch)
       /\ \A i \in 1 .. (c.next - 1) : c.batch[i] \in DOMAIN headers \cup HashesOf(c.accepted)
  /\ c.pc # "promote" => HashesOf(c.accepted) \cap DOMAIN headers = {}

CallInv ==
  /\ \A a \in Honest : Valid(view[a])
  /\ run.pc \notin {"genesis", "ingest"} => call[Me].pc = "idle"
  /\ run.pc = "wait" => run.from \in DOMAIN headers
  /\ run.pc = "ingest" /\ run.peer \in Honest => CleanCall(call[Me])
  /\ run.pc = "judge" /\ run.peer \in Honest => call[Me].result \in {"Ok", "Storage"}

Spotless(p) == \A a \in Honest \cap DOMAIN p : p[a].banned = NoTime /\ p[a].score <= MaxScore

RecordsInv ==
  /\ Spotless(peers) /\ Spotless(table)
  /\ \A a \in Honest \cap DOMAIN peers \cap DOMAIN table : table[a].score <= peers[a].score
  /\ IF run.pc \in {"off", "genesis", "start"}
     THEN DOMAIN peers = {}
     ELSE DOMAIN table \subseteq DOMAIN peers
=============================================================================
