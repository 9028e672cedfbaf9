# A TLA+ development of the Handshake browser's trust core

The Handshake browser is an Android browser that resolves Handshake (HNS) names
without a trusted resolver: a Rust core keeps a header chain, asks peers for
Urkel proofs against a recent tree root, verifies what the names' records say
(DNSSEC, DANE) and fetches pages through a loopback proxy that the WebView uses.
This directory holds TLA+ models of that core, the TLC configurations that check
them on small instances, and TLAPS proofs of the properties that matter most.

## 1. The system

Paths are relative to the repository. `R` stands for `rust/crates`, `K` for
`android/app/src/main/java/com/handshake/browser`.

| Part | State it keeps | Operations | What makes it correct |
|---|---|---|---|
| Header store and best-chain selection, `R/hns-chain` | tables `headers_by_hash`, `hash_by_height`, `chain_state.best_hash` in `headers.sqlite` | `insert_genesis`, `insert_header`, `insert_headers`, `best_header`, `canonical_header` | stored headers are one valid tree; the best header only gains work; the height index is the path to it, whatever crashes or interleaves |
| Encodings and arithmetic, `R/hns-core` | none | hashing, header and resource codecs, targets and chainwork | decode inverts encode; 256-bit arithmetic neither wraps nor loses a tie |
| Header sync runner, `R/hns-sync` | `PeerManager` snapshot, `HeaderSyncCoordinator` | `sync_once`, the racing and the parallel variants, `locator`, `ingest_headers`, peer discovery | an honest heavier chain is eventually the best chain; a peer is punished for its own pages only |
| Proof sync, `R/hns-sync` | `pending` proof requests, peers and their order | `request_proof`, `ingest_proof`, `ProofScheduler` | a proof is accepted only for an outstanding request |
| Peers and wire protocol, `R/hns-p2p` | `PeerManager.peers`, `peers.sqlite`, session state, frame buffer, packets put aside | scores, bans, selection, `HeaderSyncSession`, `FrameDecoder`, `PeerConnection` | bans are kept until they end; replies match requests; a bounded buffer |
| Urkel proofs, `R/hns-urkel` | none | proof parsing and verification | a proof verifies only for the value committed under the root |
| Resolver, `R/hns-resolver` | `resources.sqlite` (verified values and their anchors), TTL cache, delegation walk | insert, lookup, prune, clear, delegated and cached resolution | a value is served only while its anchor is on the canonical chain; the byte limit holds |
| TTL cache, `R/hns-cache` | entries, order of use | `get`, `insert` | nothing expired is served; at most `limit` entries |
| DNSSEC, `R/hns-dnssec` | none | chain-of-trust validation | secure only with an unbroken chain of keys |
| DANE, `R/hns-dane`; gateway, `R/hns-gateway` | none | TLSA usage and matching; the decision for a request | a DANE failure never falls back to plain trust |
| Transport, `R/hns-transport` | connection pool, Alt-Svc entries | authoritative queries, TLS, HTTP/1-3 | a pooled connection serves only the origin it was validated for |
| Native bridge, `R/android-ffi` | the above, opened by every call; `sync-status` | `run_sync_once`, gateway and proof fetch, prune | ticks of two threads keep every store sound |
| Scheduler and service, `K/net/HnsSync*.kt` | timer, running flag, foreground notification | start, tick, close | ticks go on while started, none after close |
| Loopback proxy, `K/net/LoopbackProxyServer.kt`, `HnsProxyController.kt`, `LocalTls*.kt` | server socket, clients, proxy override | start, CONNECT, forward, stop | the WebView's traffic reaches the network only through the proxy |
| WebSocket bridge, `K/net/HnsWebSocket*.kt` | open sockets, queues | connect, send, close, poll | no event after close, in order |
| Interceptor and event log, `K/net/HnsWebViewGatewayInterceptor.kt`, `GatewayEventLog.kt` | ring of events | intercept, record | bounded log, redirects followed under the same policy |
| Policies and screens, `K/core`, `K/ui` | preferences, history | classification, navigation | user interface; out of the models but for who calls `syncOnce` |

**How they interact.** `HnsSyncScheduler` (in the foreground service) and the
"run sync now" action of `DiagnosticsActivity` each call `NativeBridge.syncOnce`
on a thread of their own. Every call opens `headers.sqlite`, `peers.sqlite` and
`resources.sqlite` again, so the tables are the only shared state and each
SQLite transaction is an atomic step. A tick inserts the genesis when no best
header is read, seeds and probes peers, asks them for headers after a locator,
inserts each page and finally prunes resource values whose anchor left the
canonical window. A page load goes WebView -> loopback proxy -> native gateway ->
resolver; a missing value is fetched from peers as an Urkel proof against the
root of a recent canonical header and stored with that header as its anchor.

**What is hard here.** Two threads on one store, decisions taken before a
commit and carried out after it, death of the process between two
transactions, read errors that look like absence, peers that answer late,
wrongly or with what is already known, races whose losers are dropped, values
whose anchor is reorganised away between fetch and serve. `PROJECT.json`,
"hazards", lists them by line.

## 2. Plan and state of it

Written, in this order:

| Module | Over | Run | Section |
|---|---|---|---|
| `HeaderChain`, the abstract `BestChain` it implements | | `HeaderChain_faults` | 3 |
| `PeerRules`, `PeerTable` | | `PeerTable_ban` | 4 |
| `HeaderSync`, `SyncStatus` | `HeaderChain`, `PeerRules` | `HeaderSync_*` | 5 |
| `ResourceCache`, `ProofDetails` | | `ResourceCache` | 6 |
| `DnssecRules`, `Resolver` | | `Resolver`, `Resolver_keys` | 7 |
| `OriginPolicy`, `DaneRules`, `OriginTransport`, `TtlCache`, `Tunnel`, `Gateway` over all of them | | `Gateway` | 8 |
| `Frames`, `UrkelProof`, `SyncSession` over both | | `Session` | 9 |
| `Difficulty` | | `Difficulty` | 10 |

The order is that of consequence: everything the browser shows as verified is
verified against a root of the header chain. There is one run for each question
asked of the system; modules without state of their own are checked in the run of
the module that uses them.

Proved, for every value of the constants and any length of behaviour:

| Proof module | About | Section |
|---|---|---|
| `HeaderChainProofs` | the header store, its tip, and that it implements `BestChain` | 3 |
| `PeerRulesProofs`, `PeerTableProofs` | selection and scoring; bans across threads' saves and crashes | 4 |
| `HeaderSyncProofs` | a tick over the store; that honest peers are never blamed | 5 |
| `ResourceCacheProofs` | what a page load takes from the cache | 6 |
| `ResolverProofs` | that what a resolution reports secure is signed, is one chain in the zone, and leaves out only what was not there | 7 |
| `GatewayProofs` | where an answer comes from and whose it is; that the cache answers in time; that the labels say what happened | 8 |
| `SessionProofs` | that a verified proof tells the truth; what a connection hands over and stores | 9 |

Only model-checked, and why:

- Everything that needs fairness: `TicksEnd`, `CatchesUp`, `ServesAgain`, `Returns`,
  `Progress`, `JobsEnd`.
- `LimitKeepsNewest`: evictions over a set of rows, by a recursive function on sets.
- `BitsSound` and `WorkSteered`: products of unknown numbers are beyond the solver,
  and none of the provers interprets a power.

## 3. HeaderChain

State: `headers`, `canonical` and `best` are the three tables, `call[w]` the
local variables of the call thread `w` is in. A header's hash commits to its
ancestry, so a header is the sequence of labels that leads to it from the
genesis (the empty sequence) and `prev_block` is that sequence without its last
label. Whether its bits are the expected ones and its hash is below the target
depends on the header and its ancestry alone: `ValidBits` and `ValidPow`.

Actions. `BeginGenesis`, `BeginHeader`, `BeginBatch` start the three operations;
`ValidateSkip`, `ValidateNew` and `ValidateEnd` are the loop of
`insert_headers`, `Decide` reads the best header and chooses the promotion,
`Put` is the transaction of `put_header(s)`, `PromoteTips` that of
`promote_canonical_tips` and `PromoteReplace` that of
`replace_canonical_chain`. `StorageError`, `ReadError` and `Crash` are the
faults of `Faults`. `insert_header` decides after its put, `insert_headers`
before it, as the code does. What is read inside one action is read without a
scheduling point in between; splitting the reads further changes nothing, since
rows of `headers_by_hash` are never deleted and only `best` is read twice.

`BestChain` is the contract: known headers, a tip that moves only to a heavier
known header, an index that is the path to it. `HeaderChain` implements it with
`known` = hash -> chainwork, `index` = `canonical`, `tip` = `best`.

| Run | Instance | Shows |
|---|---|---|
| `HeaderChain_faults` | one thread, every batch of up to two headers and the mixed ones of three, every single header, crashes, failing transactions and failing reads | `TypeOK`, `CanonicalIsBestPath`, `StoreSound`, `AcceptedNotHeavier` |

`StoreSound` and `TypeOK` hold of any number of threads (proved, and checked with two
as part of `SyncInv` in `HeaderSync_two`). The other two need one thread and hold with
every fault. `BestWorkRises` and `ImplementsBestChain` also need readable tables:
`best_hash` turns an SQLite error into "no row" (hns-chain 324), so a call whose read
fails promotes its batch whatever its chainwork. They are checked in
`HeaderSync_serial`, where ticks drive the store and reads do not fail.

Two more facts of the code met on the way, which no run repeats:

- Two threads. `insert_headers` compares its batch with the best header it read
  before the put (hns-chain 578). If another thread promotes a heavier branch in
  between, the first one's promotion comes last and the tip moves to the lighter
  branch, and `promote_canonical_tips`, which only upserts, leaves rows of the
  abandoned branch above it. docs/plan.md:184 asks for "Best-chain selection by
  chainwork." Two threads there are: the foreground service and the diagnostics
  screen both call `syncOnce`.
- A crash in the genesis. `insert_genesis` stores and promotes in two transactions
  (hns-chain 473-486). A death in between leaves a store in which no best header is
  read, so each later tick inserts the genesis again and gets `DuplicateHeader`.
  docs/plan.md:211 says "Can survive restart and continue."

Bounds. `MCHeader` has two branches that tie at height 1, one branch that
overtakes the other by length and one by work, and a header that fails each
check, with a child of a failing one: every branch of the decision is taken
(the mutants, each found by its run, say so). Nothing counts without
bound, so no state constraint is needed.

### Proofs

`HeaderChainProofs` proves, for any set of threads, headers, inputs and faults,
`Spec => []IInv`. `TypeOK` and `StoreSound` are not inductive: whether `Put`
stores a sound row depends on what the call validated steps before. `IInv` adds
what the locals know: every accepted row is valid on a parent that is stored or
an earlier row (`RowsSound`), comes from the part of the batch already read
(`FromBatch`, which is why a batch cannot accept one hash twice), is stored once
the call has reached `promote` (`Stored`), and a `tips` promotion is a
contiguous run (`Contiguous`). Heights equal depths (`HeightIsDepth`). From it
follow `TypeCorrect`, `StoreIsSound` and `TipIsOnCanonical`.

The second part then assumes one thread and readable tables (`OneWriter`;
without the first all three are false, without the second the last two, as said
above) and proves `OneWriterInv`: the index is the path to the best header and a
decision that was taken is still right when it is carried out (`PlanFresh`).
`CanonicalIsPath`, `BestRises` and `Refinement` (the store implements `BestChain`)
follow.

Arguments by induction (heights, positions in a batch) take a least
counterexample, because induction theorems with an operator parameter are out of
the installed provers' reach. The assumptions are those of the module's
`ASSUME`s: headers are sequences of labels with the genesis among them, work is a
positive natural. `SuccessSelectsHeaviest` (`AcceptedNotHeavier`) needs one caller
only: its reads may fail, since a failed read promotes too much rather than too little
(`NoHeavier`). All four properties of the run are proved.

## 4. Peers: PeerRules and PeerTable

`PeerRules` has no state: it is what `PeerManager` writes into a record after each
event (`RecordSuccess`, `RecordObservedHeight`, `RecordTransientFailure`,
`RecordStaleTip`, `RecordMalformed`, all through `Penalize` where the code is) and
whom it picks (`SelectOutbound`, `SelectDiscoveryOutbound`: sorted, the first of
every address group, then the rest). A record is score, claimed height, time last
seen, end of the ban and successes; the failure counter is left out because
nothing reads it but the status report. Scores and counters saturate as the code's
do. Address `n` stands for the n-th socket address, `Group` for its network group.

`PeerTable` is `peers.sqlite` under several threads. `table` is the table, `mem[t]`
the `PeerManager` a thread has loaded and where the thread is, `clock` the wall
clock, `decided` a history variable: the end of the last ban decided for each
address and not lost with an unsaved manager. `Load` is `load_manager` (which reads
the permanent bans of earlier versions as none), `Seed` ... `SendMalformed` are what
a tick or the gateway's live proof fetch may record, only of peers that were not
banned when they were selected, `SaveBegin`, `SaveRow` and `SaveEnd` are
`save_manager`, one autocommitted row at a time in any order, `Abort` is a storage
error that leaves through `?`.

| Run | Instance | Shows |
|---|---|---|
| `PeerTable_ban` | one thread, two addresses, three clock values, two events a tick, crashes, failing writes, tables with a permanent and a finished ban | `BansAreKept`, `OnlyMalformedBans` |

With a second thread `BansAreKept` is false: the gateway's live proof fetch loads the
table, and when it saves it writes every record back (android-ffi 297 and 329), also
that of a peer that a tick has banned meanwhile. docs/security-model.md:53 says
"malformed consensus data is still scored and cooldown-banned."

Scores are scaled: 3 bans, malformed data adds 3, a stale tip 2, a transient failure 1
and a success takes 1 away (the source: 100, and 100, 10, 5 and 2), so that two events
reach the limit from any side and one reward does not undo a stale tip. A ban lasts two of three clock values: it is seen active, ending and
over.

### Proofs

`PeerRulesProofs` is about the operators alone, for any finite `Address` and any table
that earlier versions may have left. The order that `select_outbound` sorts by is a
strict order (`StrictOrder`), an element's rank is the number of those before it, and
ranks are all different and below the size of the set; so the sequence that is picked
lists every candidate once (`SelectionIsSpread`: as many groups as there are places or
groups), and a peer whose score has fallen is ranked behind those that did not fail
(`FailedPeersMakeWay`).

`PeerTableProofs` proves `BansAreKept` and `OnlyMalformedBans` with one thread
(`OneThread`; the second thread's save is what breaks the first, as said above), for
any addresses, limits, clock and any table with well-formed rows (`TableAssumption`),
whatever fails and wherever the process dies. `BansAreKept` speaks of the table and is
not inductive, for a ban lives in the manager until a save has written its row.
`BansInv` says of both places that a ban that is not over is the one that was decided,
of the manager always and of the table where the thread has nothing more to save
(`Saved`: it rests, has no unsaved events, or its save has written that row). TLC has checked it on the 1.1 million
states of the run.

## 5. HeaderSync

`HeaderSync` extends `HeaderChain` and `PeerRules`: `run_sync_once` and
`HeaderSyncRunner` as worker `Me`'s program over the calls of `HeaderChain`. `run`
holds the locals of the tick, `peers` the manager in memory, `table` the saved one,
`view[a]` the chain of honest peer `a` and `caught` is history: who sent a malformed
page and is still to be banned. Times are relative to now, so a ban is 1 until
`BanEnds`.

| `run.pc` | Code | Actions |
|---|---|---|
| off, genesis | `run_sync_once`: genesis if no best header | `TickBegin`, `GenesisDone` |
| start | load, DNS seeds, whom to probe | `TickPeers` |
| probe | `probe_peers_parallel_and_persist` | `ProbeSucceeds`, `ProbeFails` in any order |
| ask, wait (racing) | `sync_once_racing_and_persist`, `race_tcp_header_batch` | `RaceStart`, `RaceWon`, `RaceLost` |
| next, ask, wait (one by one) | `sync_once_inner`, `sync_peer` | `PeerConnects`, `PeerRefuses`, `AskPeer`, `PeerAnswers`, `PeerFails` |
| ingest | `ingest_headers`, that is `insert_headers` | `ChainStep`: a step of `HeaderChain` |
| judge | scores, saves, next page or the end | `JudgeRace`, `JudgePeer` |
| discover | `discover_more_peers` | `DiscoverBegin`, `DiscoverPeer`, `DiscoverEnd` |

Around it: `Mine` (a peer's chain moves), `SyncCrash`, and `OtherThread`, which runs
any call of `HeaderChain` on the same store. Peers are external. An honest one
answers as an hsd node does, with the headers after the highest locator entry on its
chain (`Page`), and claims its height; another may answer any page of `Lies` and
claim any height of `Claims`. Failing reads are not among the faults here (what they
break is said in section 3), nor are failing writes of `peers.sqlite` (`PeerTable`
has them).

| Run | Instance | Shows |
|---|---|---|
| `HeaderSync_serial` | one by one, two groups of three peers, one of them known by gossip only, crashes, failing writes | `SelectionSpreads`, `FailuresMakeWay`, `BansSurviveTicks`, `HonestNotBlamed`, `TicksEnd`, and of the store `BestWorkRises` and `ImplementsBestChain` |
| `HeaderSync_live` | racing with probes, an honest peer that reorganises and a liar with four kinds of page | `CatchesUp`, `ServesAgain` |
| `HeaderSync_two` | racing beside another thread, a liar, crashes, failing writes | `SyncInv`, `ImplementsHeaderChain` |
| `HeaderSync_stall` | one honest peer, crashes | **violated**: `CatchesUp` |

`SyncStatus` is what the bridge reads from the two stores beside the ticks: the
status the app shows (`CachedStatus`), whether the chain is current enough to believe
that a name does not exist (`ChainStale`) and which peers a live proof is asked of
(`LiveProofPeers`). `ServesAgain` says that the app comes to rest where it says it is
up to date, believes a denial and has an honest peer to ask. `BestPeerHeight` counts
whatever a peer claims, and banned peers too: one that claims a block that does not
exist keeps the status at "syncing" and, beyond the allowed lag, keeps denials refused
(`LocalChainNotCurrent`) as long as its record stays. So in that run no claim exceeds
the honest chain. The status that a tick itself reports is not modelled.

Bounds. A page is two headers (the source: 2000), so a three-header chain needs a
full page and a short one; the honest peer's chain replaces its own block at height
two; the locator has four entries of which two are dense, so it skips one.
`HonestNotBlamed` is checked with one thread on the store: with two, the one that
stores a page second gets `DuplicateHeader` and `record_chain_failure` holds that
against the peer. The liar's fork is shorter than a page: a longer one makes the tick
stall as in `HeaderSync_stall`, which is a finding already. Only
`HeaderSync_two` has a second thread, because two threads break the tip (section 3).

Fairness. A connect and each read of a connection have a timeout; the calls made of
them have none: `handshake`, `request_headers` and `request_addresses` (hns-p2p
1058-1127) read on after a ping or an unknown packet. So a tick goes on (`WF` of `Tick`)
where it waits for no peer or for honest ones, and `WaitedFor` names the peers whose
packets each wait is for. `TicksEnd` then says what is left: every tick ends, or some
peer that is not honest is waited for from some moment on for ever. A tick that never
ends by its own doing, over pages that repeat, peers that fail or discovery, violates it.
`CatchesUp` and `ServesAgain` (`SyncFairness`) assume that the first of the two is the case, so
`WF` of `Tick` without that condition, and that honest peers find their blocks and, of the
network, which no code can guarantee, strong fairness: seeds arrive again and again, and
an honest peer that is asked again and again wins a race, connects and answers again and
again. Under a peer that pings for ever they are false, since a tick waits for all its
probes. `HeaderSync_stall` also assumes that crashes stop.

What the violated run says: a process that dies between storing and promoting a full
page builds the same locator for ever, gets the same page, skips all of it as known
and ends the tick with nothing promoted. One more fact of the code that no run
repeats: a race takes a page from whoever answers first without looking at its height
(hns-sync 818), although docs/security-model.md:51 says that "Header sync must not
request additional headers from a peer whose advertised height is not ahead of the
local best header".

### Proofs

`HeaderSyncProofs` proves, for any threads, peers, pages, lies and faults, that
`SyncSpec => []SyncInv`. `insert_headers` is modelled as callable only when a best
header exists, and it is `run_sync_once` that must see to it, across a genesis
insertion that may fail and other threads: `SyncInv` says what a tick knows at each
stage (`GenesisUnderWay`: a genesis call that returned `Ok` left a best header; past
it there always is one) on top of `HeaderChain`'s `IInv`. From it follows
`SyncImplements`: every step of a tick is a step or a stutter of `HeaderChain`, so
`SyncStoreIsSound` holds by the theorem of section 3.

`PeersInv` is the invariant of the peer records: who was caught with a malformed page
is banned in the manager from the load on, and in the table at every moment but between
the saves of a walk from peer to peer (`next`, `discover`), where the ban is decided but
not yet written. `CaughtStayBanned`, `SelectionsSpread` and `FailedMakeWayForOthers`
follow with the lemmas of section 4.

The last part, on honest peers, needs two things said together, of the store and of the records.
`CallInv`: the page of an honest peer attaches to the store, since the locator it
answers was built from a header that is still stored and `Page` begins after an entry of
it, so the insertion goes on to `Ok` or to a storage error. `RecordsInv`: no honest
record was ever banned, and a saved score is never above the one in memory, so that
what a crash brings back is not worse than the failures to reach the peer. From them
`HonestStaysUnblamed` (`HonestNotBlamed`), assuming that honest chains pass the checks
(`HonestAssumption`) and `OneWriter`: beside another thread the page may be refused with
`DuplicateHeader`, after a failed read with `UnknownParent`, and the code holds both
against the peer. `SyncRefinesBestChain` says under the same assumption that whole ticks,
with their crashes, move the tip as `BestChain` allows.

TLC has checked `PeersInv`, `CallInv` and `RecordsInv` on the states of
`HeaderSync_serial` and `HeaderSync_live`. Only model-checked are the properties with
fairness.

## 6. ResourceCache

What a page load trusts. `rows` is `verified_resource_values`, `tip` the best
header (the canonical chain is its prefixes), `req[t]` the `prove_name` call of
gateway thread `t`, `tick` the end of a sync tick, `clock` what `unixepoch()`
returns. As in section 3 a header is its sequence of labels; `Truth` says what each
tree root holds for each name. That a stored value was proved under the requested
root is taken from `ProofScheduler`, whose check is external here.

| `pc` | Code | Actions |
|---|---|---|
| idle, row | `prove_name`, `prove_resource_value` | `Ask`, `ReadRow` |
| best, canonical | `anchor_is_recent_canonical`: two reads of `headers.sqlite` | `ReadBest`, `ReadCanonical`, `ReadsNothing` |
| current | `local_chain_is_stale_for_current_resolution`, for an absence | `ReadCurrent` |
| fetch, peer | `fetch_and_store_live_proof`, then `cached_records` again | `FetchBegin`, `PeerProves`, `PeersFail` |
| tick: off, list | `recent_canonical_resource_anchors`, one read a height | `ListBegin`, `ListHeight`, `ListsNothing` |
| tick: prune, limit | `prune_invalid_anchors`, `enforce_value_byte_limit` | `Prune`, `EnforceLimit` |

Beside them `Reorganise` (header sync moves the tip to a heavier header, as
`BestChain` allows; section 3 says when the code moves it to a lighter one),
`Clear`, `Crash`, `Advance`, and the storage errors `CallFails` and `TickFails`. The
errors a call may return are one outcome, `NoAnswer`. History are `seen`, the tips since a
call began or while a tick lists its anchors, `tick.from`, the tip the tick listed from,
and `tick.skipped`, the heights at which it read no header.

What the properties say. `RowsTrue`: an anchor is never paired with another block's
value, however long a proof took. `AnswersFromChain`: an answer, a value or an
absence, was committed to by the canonical chain of a moment of the call at a height
within the window of such a moment. The two moments need not be one: the best header
and the canonical header are two reads. `PositiveStillCanonical`: a value is on the
chain when it is given, since the canonical check is the last read before it; of an
absence this is false, because the currentness check comes after. `PruneLeavesRecent`
is about a tip that may move, also to another branch, while the tick reads its anchors
height by height: a row that the prune leaves is in the window of the tip the tick began
with and was on the chain of some tip meanwhile, and a row of that window that was on the
chain throughout is not removed, unless no header was read at its height. So rows of a
branch abandoned meanwhile may be left for the next tick; `AnswersFromChain` says that
they are not served. `LimitKeepsNewest`: eviction takes the
oldest rows and stops as soon as the rest fits.

docs/security-model.md:67 asks for an anchor that matches "the current local best
header" and says that "sync ticks prune values that are unanchored or not anchored to
that current tip"; the code accepts any canonical anchor of the last 144 blocks, when it
serves and when it prunes, and its tests (android-ffi lib.rs:3997 and 4965) expect that.
The properties state the code's window, not the document's tip.

| Run | Instance | Shows |
|---|---|---|
| `ResourceCache` | two threads asking for one name, a second name in the table, five headers in two branches, two tips to start from, rows without anchors, crashes, storage errors | `TypeOK`, `RowsTrue`, `AnswersFromChain`, `PositiveStillCanonical`, `PruneLeavesRecent`, `LimitKeepsNewest`, `DetailsTrue` |

`ProofDetails` is what the app shows of a name: `hns_proof_details` reads the row, the
best header to say how the row is anchored, and the best header again to show it.
`DetailsTrue` is about a tip that moves between those reads. "verified" says that the
row was proved under the root shown with it, no more: a row whose block has been
reorganised away is still shown so, as "anchored_to_height", until the next prune.

Bounds. The window is one block and the longest chain three, so an anchor is in the
window, below it, on the other branch and above the tip; the branches hold two
different values, absence and, at the last tip, absence after a value. Values of one
and two bytes with a limit of two force evictions of one row and of none; the clock
has two values, so ages tie and differ. The second name is only in the table: what
matters of it is that it competes for bytes. One tick prunes at a time: prunes of two
ticks are transactions, and each removes only rows.

### Proofs

`ResourceCacheProofs` proves six of the seven properties for any threads, headers,
roots, names, values, window and faults. Their invariant `CacheInv` adds what a
call still knows when others have moved the store: a row it read is true
(`RowTrue`, which speaks of headers that exist and not of the tip, so no
reorganisation disturbs it), its anchor was in the window of a tip it has seen, an
absence it is about to answer was held by one; and what a tick knows (`TickKnows`): each
anchor it has listed was on the chain of a tip it has seen, and of each height it has
passed it has listed what some tip it has seen has there, or it read nothing. `WhoAnswers` shows that only two steps
answer. The assumptions are `ResourceCache`'s: prefixes of a header are headers, each
root holds a value or absence for each name. `DetailsAreTrue` (`DetailsTrue`)
is of the same invariant: the row that was read is true, whatever tip is read after it.
`LimitKeepsNewest` is only model-checked: the loop of evictions is a recursive function
over sets of rows.

## 7. Resolver and DnssecRules

`DnssecRules` is what `hns-dnssec` decides: one operator for each validation rule
(RRSIG, DS and key set, the delegation link, the NSEC and NSEC3 denials with opt-out,
wildcards and the iteration limit), each giving the status the code gives. A name is
its labels from the root down, so a subdomain extends its parent; a record is owner,
type and data. Cryptography is symbolic: a signature names the key that made it and
what it was made over, a digest names what it is of, `Hash` is the salted SHA-1.

`Resolver` is one `resolve` call of `AuthoritativeDnssecResolver` over the
`DelegatingResolver`. `call` holds its locals; each exchange with a server and each
validation is a step, and the clock may move in between.

| `call.pc` | Code | Actions |
|---|---|---|
| idle, prove | `resolve`, `root_records_answer_request` | `Begin`, `Prove` |
| hydrate | `hydrate_hns_nameserver_addresses`, `resolve_delegated` | `Hydrate`, `Delegate` |
| server, udp, tcp | `resolve_delegated`, `dns_query`, `exchange_udp`, `exchange_tcp` | `AskServer`, `Udp`, `Tcp` |
| target, keys, denial | `resolve_delegated_from_server` | `Target`, `Keys`, `TargetDenial` |
| childserver, childkeys, childtarget | `resolve_secure_child_referral` | `AskChild`, `ChildKeys`, `ChildTarget` |
| walk | `resolve_secure_answer_records`, `resolve_secure_child_answer_records` | `WalkOn`, `WalkZone`, `WalkChild` |

Servers are external: to each question a server may send any reply of `Replies`,
among them replies of an older version of the zone, records signed by a foreign key
with the same tag, unsigned records, and lists with something left out.

| Run | Instance | Shows |
|---|---|---|
| `Resolver` | a zone with NSEC and a signed child, a zone with two NSEC3 chains, one with opt-out; two versions of the first zone; CNAMEs that loop and that leave the zone | `SecureIsSigned`, `DenialsTrue`, `ChainsConnected`, `Returns` |
| `Resolver_keys` | the same | **violated**: `KeySetLinked` |

What the properties say. `SecureIsSigned`: a secure answer rests on key sets that hold a
key which the DS records name, the proof's and, for a child, those of the referral; and
what is reported secure was signed by the proven zone's key holders, or by a child they
signed a DS for, and was valid during the call, whatever mix of versions the servers send.
Of the asked type the records are exactly a published set; of the CNAMEs on the way each
is of a published set that the answer holds whole, since a chain that comes back to a name
may have followed two versions of its CNAME. `DenialsTrue`: a secure answer that leaves
something out is right that the signer did not hold it all through the call, delegations
below an opt-out interval included; the wildcard that a name error rules out was not
there; an unsigned delegation that is reported was there at some moment of the call. Truth
is what the signing zone holds, but for NSEC3s, whose owners are hashes and no names.
`ChainsConnected`: the records of a secure answer are one chain of CNAMEs from the name
that was asked to the last one, inside the zone and within the limit, and then records of
the asked type there; a request for a CNAME follows none. `Returns` needs `WF` of the
steps of the call only: an exchange is one datagram or one length-prefixed message, with a
timeout for each read and a bounded number of reads. The proof provider is taken to
answer; in the app it may wait for a peer, which section 8 has (`Awaits`).

Both of the first two have exceptions, because the code does, and each is a situation in
what was received, not an assumption on the servers:

- `ForeignKeySet`. `validate_signed_rrset` (hns-dnssec 566) asks `validate_delegation_link`
  whether some DNSKEY matches a DS, then `validate_dnskey_rrset` whether the key set is
  signed by some key of it; the two need not be one key, and `validate_dnssec_chain` does
  the same for a child. So a set of the zone's key and a foreign one, signed by the foreign
  one, is trusted, and so is every record that the foreign key signs: the servers of the
  run send such sets and such records, and `SecureIsSigned` without its exception is violated by a
  secure answer that the zone never signed. That contradicts docs/security-model.md:83, 88
  and 92; `Resolver_keys` states the sentence of line 88 (`KeySetLinked`) and shows the
  acceptance of the set, from which the rest follows.
- `Replayed`. `validate_nsec_no_data` and `validate_nsec_name_range` go by the owner a
  denial is received under; the signature's label count lets that owner be any name below
  the one the wildcard's NSEC was signed for. A server that replays it there denies what
  is there. An NSEC3 cannot be replayed, its owner's label being a hash.

Limits of the model, and what was seen in the code but has no run:

- A set of records has no TTL, class or duplicates, and the order of a list is any;
  an NSEC3 rrset has one owner; servers are a set. All the NSEC or NSEC3 records of
  a response go to validation as one rrset, so a denial that needs two owners is
  always refused: that fails closed (docs/milestones.md:50).
- A positive answer from a wildcard is accepted without a proof that the exact name
  is absent. The NSEC of a zone cut on the parent's side is not excluded (RFC 6840, 4.1),
  so that it also denies what the child holds below the cut; in the properties a zone
  holds what it signs itself, and the child's names are not among that.
- A name error of NSEC is accepted for the wildcard of any ancestor that the
  resolver tries as closest encloser (`validate_nsec_name_error`,
  `closest_encloser_candidates`), whether or not it is the closest;
  docs/security-model.md:98 says "the applicable wildcard under the closest encloser
  is also denied". So a name for which the wildcard of its closest encloser would answer may be
  reported absent, by an NSEC that covers the name and one that covers the wildcard of a
  name further up. `DenialsTrue` (`NameErrorTrue`) says what does hold: the wildcard
  under some name above is not there, and with NSEC3 under the closest.
- `canonical_rdata` and the parsing of rdata, queries and answers are not modelled.

Bounds. Two clock values, so that a signature ends or begins during a call; two CNAMEs
(the source: 8), so that a chain reaches the limit and one passes it; one child, as in
the code. Each reply list has a reply that makes the call succeed, one that makes it
fail at each check, and one that only a missing check would let pass.

### Proofs

`ResolverProofs` proves `Spec => []CallInv` (`CallIsSound`) for any zones, hashes, root
proofs, servers, requests and limit of CNAMEs, and from it `SignedAlways`,
`ConnectedAlways` and `DenialsAlways`, the three invariants of the run. The argument:

- What a validation shows. `SecureIsVerified` and `SecureIsPublished`: an rrset that
  validates under a zone's keys is a set that the zone published for that owner, or for
  the wildcard it expands, at that time. `KeySetIsHeld`: a key
  set that validates was signed by a foreign key in it, or all its keys are the zone's. So a
  key set that a DS record leads to is the zone's but for `ForeignKeySet` (`ZoneTrusted`),
  and that of the child whose DS the zone signed is the child's (`ChildTrusted`); together,
  `Trusted`.
- What a denial shows. `DenialIsPublished`: one that validates was published for its owner,
  an NSEC unless it is `Replayed`, an NSEC3 always, since its owner's last label is a hash
  and a signature of fewer labels would be one of a wildcard (`HashIsInPlace`). Then one
  lemma for each operator of `DnssecRules`: a matching NSEC or NSEC3 lists the types at a name, a covering one leaves it out unless it opts out
  (`MatchIsTrue`, `CoverIsTrue`, `EnclosedIsTrue`), so that the no-data and name-error
  answers the call takes are true (`NoDataIsTrue`, `NameErrorIsTrue`), and so are the
  denials that the resolver does not use (`OthersAreTrue`). A name error is taken for
  any ancestor as the encloser, so `NameErrorIsTrue` does not use that it is the closest.
- What a call holds between its steps. `SecureIsSigned` speaks of a finished answer and
  is not inductive. `CallInv` adds that the delegation's DS records come from the proof
  (`Working`); that what was received may be sent, and the child followed is below the
  zone with a DS rrset for it (`Holding`); and that during the walk the records gathered
  so far are signed as the answer's must be and are one chain to the name asked for next,
  as long as the walk is deep (`Following`). One lemma for each action keeps it. The
  clock may move between any two steps, which is why everything is said of some moment
  since `began`.

The assumptions are named in `Resolver`, and TLC evaluates them in the run `Resolver`:

| Assumption | Why |
|---|---|
| `RequestAssumption`, `BoundAssumption`, `ReplyAssumption`, `PublishedAssumption` | shapes: a request names something, times and label counts are numbers, a message is finite, the digests of a DS set are for its owner, the label of an NSEC3 is a hash and not a wildcard's |
| `SigningAssumption` | signatures cannot be forged: what a zone's key has signed the zone published |
| `DenialAssumption` | signers are honest: a denial is true of all the zone holds while it is valid, only an opt-out interval may leave names out, and a delegation that is named by hash is there |

None of them restricts what a server may send, replay, mix or leave out: the two gaps of
the code are exceptions in the properties. TLC has checked `CallInv` on the states of
`Resolver`. Only model-checked is `Returns`, which needs fairness.

## 8. Gateway and what is under it

| Module | Code | Kind |
|---|---|---|
| `OriginPolicy` | hns-gateway: address, CNAMEs, HTTPS service binding, TLSA records, policy | operators |
| `DaneRules` | hns-dane: matching, the choice among records, the policy | operators |
| `OriginTransport` | hns-transport: pool, Alt-Svc, TLS verdict and resumption, HTTP/1.1 framing and retry, HTTP/2 and 3 | operators on a transport value |
| `TtlCache` | hns-cache | operators on a cache value |
| `Tunnel` | android-ffi: the two threads of a WebSocket tunnel and their lock | variable `tunnel` and its actions |
| `Gateway` | hns-gateway, `CachedResolver`, android-ffi's request, DNS-over-HTTPS fallback, response and trace | the program: `job[t]`, one step for each call that may block |

The repository builds two stacks around the gateway, and `stack` says which one
a behaviour has. The app gives each request a transport and a resolver of its own, so
requests do not meet and one thread suffices; behind the validating resolver stands
DNS over HTTPS unless the request is strict, and an upgraded request goes on as a
tunnel. As libraries, threads share one gateway, one cache and one transport. What the
resolvers say is a parameter (`Primary`, `Doh`), since section 7 is about that, and so
are the servers at an address and their replies.

| Run | Instance | Shows |
|---|---|---|
| `Gateway` | the app with eight requests; the library with two threads, two requests in all, a strict gateway and one that takes insecure answers | `TypeOK`, `TrustedOrigins`, `LabelsTrue`, `CacheSound`, `OwnResponse`, `Progress` |

`TrustedOrigins` is the property the browser exists for: an answer to an https request
came from an address the host's own answers gave, from a server that a TLSA record heard
for that host and port matches, or, if none was heard, with a valid WebPKI path and not
in strict mode; a pooled connection, a resumed session or a cached answer is where
another request's policy could slip in. `LabelsTrue`: the status, the headers and the
trace of a response say what happened. `CacheSound`: a cached answer is in time and of
its question, and a live entry leaves only for another one when the cache is full.
`TypeOK` holds the limits of the pool and of the cache.

`OwnResponse`: a client gets one reply with the whole of its body, where an end of the
connection counts as the end only without TLS and without an announced length. The code
has two ways to do worse, and the property says how far each goes:

- `parse_http_response_to_writer_reusable` (hns-transport 1459) takes the first head for
  the reply, so a 100 or a 103 is returned as the final response, with no body. The app
  meets this too. There the client gets that head, of its own request, and the reply that
  follows is lost with the transport; in the library the connection goes back to the pool
  with that reply unread, so only there a request that is sent over a pooled connection
  may get another's (`conn.interim`).
- A request that fails part way through a body on a pooled connection is sent again and
  appends to the same body (`spilt`, hns-transport 305). What comes first can only be the one
  part that the failed connection had begun, the rest is the whole reply to the request,
  and the app, whose requests have a transport each, never pools.

The interim heads of HTTP/2 and HTTP/3 are consumed by their libraries and are external.

`Progress`: a request ends, or one of its steps is never answered: from some moment on it
stays where it is, waiting for one party (`Awaits`). So retries, fallbacks, upgrades and CNAMEs do
not make it go round, and nothing inside the gateway keeps it. For a tunnel it says that
a message waiting for the lock goes out, or its half ends, or the other half takes the
lock again and again: neither half ever keeps the lock, also when the origin takes
nothing.

Bounds. One cache entry, one pooled connection per key, one message of room in the
tunnel and two messages: each limit is reached. Two requests in all are enough for one
to meet what another left behind. The bound
is why `CHECK_DEADLOCK` is off: after it nothing is left to do.

Fairness. `WF` of each thread's step where the code bounds it: connecting, handshakes,
HTTP/2 and HTTP/3 exchanges, and upgrades, whose heads have a limit. Not where it waits for
as long as the other side sends: HTTP/1.1 trailers, which `read_trailers` (hns-transport
1700) reads without a limit under a timeout for each read, also those of the
DNS-over-HTTPS server; and peers asked for proofs, see section 9. These are `Awaits`, and
`Progress` says that nothing else can hold a request. Of a tunnel `WF` of each half's
steps. Of the lock that is: it is taken if it stays free. `std::sync::Mutex` is not fair and each
half unlocks and locks at once, so a half may starve while the other has the lock time
and again, which `Progress` therefore allows. Only TLS tunnels get the short read timeout,
so over plain `ws` the lock may be held for the whole read timeout.

### Proofs

`GatewayProofs` proves `TrustedOrigins`, `OwnResponse`, `CacheSound` and `TypeOK` in both
stacks and `LabelsTrue`, which speaks of the app's, for any threads, requests, servers, replies and resolvers, any length of chain,
size of pool and cache and time to live. The first two speak of requests that are done;
the invariant `GatewayInv` says what leads there.

- A job (`JobInv`) that is past the address has been given it by an answer about its
  host (`AddressHeard`); until it asks for TLSA it has heard none (`NoTlsaYet`), so the
  one answer that it takes its policy from is the only one about TLSA it ever has
  (`PolicyHeard`). Everything heard is secure if the gateway insists.
- A connection, a job's or a pooled one, is *earned*: its server satisfies the policy
  that its pool key names, or the one that a resumed session is kept under
  (`TransportInv`). So `take_http11_connection` gives a job nothing that its own
  handshake would have refused.
- A connection on which no interim response was taken for a response holds no unread
  reply when it goes to the pool (`Earned`), so the next reply on it belongs to the
  next request. A body holds nothing before an exchange, or the one part that a retry has
  spilt (`Started`), and what an exchange adds is the whole reply (`Delivered`). That the
  app neither pools nor spills is of `OneServed`, below.
- Cached answers are answers of the primary resolver to their own question
  (`CacheInv`).

`GatewayTypes` comes on top of it, for the limits and the cache.

- The cache's order lists its keys, each once (`Ordered`), so it is as long as there are
  entries (`OrdersLength`) and `evict_over_limit` has a key to take away whenever it must.
  `retain` keeps that (`RetainedOrders`), and so does pushing a key at the back that
  `promote` has taken out (`PromotedOrders`). No entry ends later than a time to live from
  now. `InsertedOrdered` then has the step that matters: an insertion gives up no live
  entry unless all `MaxEntries` of them are live.
- What a step adds to what a job has heard is `Fresh` (`StepHears`): cached less than the
  time to live ago, or said just now. The age of what is heard (`age`) is a history field.
- A job that ends has one of the errors the code names (`Typed`), and a full pool drops
  its oldest connection before it takes another (`StepPools`).

`LabelsTrue` relates what a response says to what was heard and how the connection was
made, so it needs two invariants about the app's stack (`LabelsAreTrue`).

- `Stories`: a job is marked as fallen back just when an answer it has heard, or the one
  it is about, sent it to DNS over HTTPS; it never is if its request is strict; it ends
  with `NameNotFound` only if the primary resolver said so; and the first exchange that
  each answer recorded is among the events of the trace (`Told`). The cases of `Step` are
  those of `GatewayTypes`, so `StepHears` proves both.
- `OneServed`: a stack of the app serves one request, so its transport is new until that
  request is connected, no connection of it is pooled or resumed, and the decision it
  ends with is that of its own handshake (`Alone`). With a shared transport the header
  could name another handshake's decision: a resumed session takes its verifier's last.
- Then each label is read off: `TrustIsNamed` that a trusting decision is named by
  whether there was a TLSA record to match, `LabelsOf` which headers a response has,
  `NotAttempted` that the trace says so only of a protocol without an event.

`retain` walks the order. It is written as a recursive function (`Retained`) and not with
`SelectSeq`, whose recursion the provers cannot expand; `RetainedFacts` says what it
returns, by way of a least counterexample (`UpTo`), since an induction theorem with a
predicate as its parameter cannot be instantiated.

`TrustRestsOnMatch` reads a trusting verdict of `evaluate_policy` backwards, to the
record that matched. The assumptions: a resolver fails with one of the errors of
`ResolverError` and no other (`ResolverAssumption`), the pool has room for one connection
(`PoolAssumption`), the cache's limit and its time to live are natural numbers
(`CacheAssumption`) and so are the bounds of the run (`BoundAssumption`), modes are strict
or compat, the app's gateway insists on secure answers (`GatewayConfig::default`), a reply
has one of the framings that the transport tells apart, and a 101 has no body
(`GatewayAssumption`). `TraceAssumption` is about what the resolvers record: the primary
one UDP and TCP exchanges, DNS over HTTPS one event for each question that it could put
and none for a name that it cannot read (`HnsDohResolver::resolve` parses it first), which
the primary resolver then refused before it (both parse the same name, and
`UnsupportedBackend` is not an error that falls back). TLC has checked `GatewayInv`,
`GatewayTypes`, `Stories` and `OneServed` on the run's states.

What was seen in the code but has no run:

- The app's requests hard-code `HnsHttpsMode::Compatibility` (android-ffi 917, 1020,
  1138): a strict request asks no DNS over HTTPS, but without TLSA records it takes
  WebPKI. docs/plan.md:366: "Strict HNS mode: HNS HTTPS requires valid DANE."
- A HEAD request over HTTP/2 or HTTP/3 whose reply announces a length fails: the body
  counts as empty and is compared with it (hns-transport 493-507, 626-640).
- A name without the HNS root label is refused by every resolver; a DANE mismatch
  comes back as an I/O or QUIC error, so its trace says "not_evaluated"; an AD answer
  of DNS over HTTPS is traced as verified and secure; the TLSA owner in a trace has the
  request's port, not that of the service binding; a failed Alt-Svc protocol has no
  fallback; a body that ends with the stream may be cut, over plain http only.

## 9. SyncSession, Frames, UrkelProof

`Frames` is the wire format: a frame is a header cell and payload cells,
`DecodeFrames` is what `FrameDecoder` makes of a buffer. `UrkelProof` is
`hns-urkel`: decoding, sanity and `Verify`, with hashes as terms, and beside it
`RootOf`, the tree a proof is of. `SyncSession` is one connection:
`HeaderSyncSession`'s states, the calls of `PeerConnection`, and `ProofScheduler`
with the request it tracks. The peer may send any frame of `Frame` at any time and
close at any time; a read takes any prefix of what is on the wire, and may instead
time out.

| Run | Instance | Shows |
|---|---|---|
| `Session` | sync, race, probe and proof connections; handshakes in and out of order, lists with wrong counts, foreign magic, a frame that is too long, and every proof that can be built from two trees' hashes and verifies for some root and name | `SessionTypeOK`, `OrderKept`, `StoredIsProved`, `JobsEnd` |

`OrderKept`: however the stream is cut into reads and whatever call failed before on
the same connection, packets are handled once and in order and no byte is lost.
`StoredIsProved`: what is stored for a name is what the tree with the requested root
has, or that it has nothing, and it came from a peer that had shaken hands as a node
high enough. `SessionTypeOK` bounds the buffer and says when a session may wait.

`OrderKept` has one exception in the code, `torn`: a read that would take the buffer
past one maximal frame drops that read's bytes (hns-p2p `feed`), so a legal frame of
maximal length followed by another in the same read loses frames; `sync_peer` ignores
a failed `request_addresses` and goes on. After a decoding error the refused frame
stays in the buffer, so later reads of that connection fail too. A `Headers` packet
sent early answers the next request. A `ProofScheduler` that is used again keeps the
tracked request of an unexpected proof; the app makes one for each connection.

`JobsEnd`: a job ends, or from some moment on it stays in one of the reading calls while
the peer sends and sends. `handshake`, `request_headers`, `request_addresses` and
`request_proof` (hns-p2p 1058-1152) read on after a ping, an unknown packet and the like, and the
timeout is one read's, so such a peer keeps a call for ever. What it excludes is a call that waits for a peer that has closed or is
silent, and a job that begins its calls again and again, whatever the peer answers.

Bounds. Three frames, three unread cells, two a read: a frame is cut at each place
and two frames come in one read. The bound on frames is of those since the stream was
last empty: the peer never runs out, and the histories of what was sent and handled,
which only `OrderKept` reads, begin anew at that moment, when they agree. Keys have two
bits: three names in the tree, of which an older tree has two, one with another value, and
one name in neither. `WF` is of the client alone. `CHECK_DEADLOCK` is off because the job ends. The
fields of addresses and of the version packet that nothing here reads are left out.

### Proofs

`SessionProofs` has two parts. `VerifiedIsTrue`: for any tree, key length, depth and nodes, a proof
that `verify` accepts against `RootOf` of a tree gives the tree's value at the key or
says rightly that it has none. `RootOf` and `Walk` are recursive functions, so both are
first shown to satisfy their defining equations at every argument in their domains
(`TreeIs`, `WalkIs`, by the least counterexample over lengths). `ClimbFacts` turns one
step of `Walk` round: if it succeeds at a node of the tree, the hash it began with was the
child's on the path of the key; `WalkFacts` carries that from the root down to the leaf
(`Walks` is what it says of one node).
What is left is one case for each kind of proof. Hashes are terms, so two
hashes are equal only if what was hashed is: collision resistance is assumed, as the code
assumes it. `Shaped` says that depths and lengths are unsigned, as their types do.

The second part proves `Spec => []SessionInv` for any frames, jobs, trees, pieces and
limits. Its parts:

- `Streams`: what is in the buffer, on the wire and handed over is made of the peer's
  frames, and the buffer is no longer than one maximal frame.
- `Control`: `SessionTypeOK` says when a session may wait and a request be tracked; that
  holds because of the call they belong to (`Agree`), so the invariant ties the session's
  state, the tracked request and the stored row to where the call is, and a call that
  asks for a proof to a peer that shook hands as a node high enough.
- `OrderKept` itself. A read moves cells from the wire to the buffer and then packets
  from the buffer to `pending`, so the step needs what `DecodeFrames` computes:
  `DecodeFramesWell` says that from any place where a frame begins it returns the
  packets of the whole frames there, in order, and how many cells they used, by the least
  counterexample from the end of the buffer.
- `TrueRow` of every stored row, from `VerifiedIsTrue` at the one step that stores
  (`IngestIsTrue`).

From it `SessionTypes`, `PacketsKeepOrder` and `OnlyTruthIsStored`. The assumptions are
`SessionAssumption` (each root is the root of its tree, name hashes are keys; at least one
batch of headers, which the code makes of 0 with `.max(1)`) and `FrameAssumption` (the
numbers in frames are unsigned). TLC has checked `SessionInv` on the states of `Session`.
Only model-checked is `JobsEnd`, which needs fairness.

## 10. Difficulty

Which bits a header must have: `retarget_bits` with its suitable blocks, and
`hns-core`'s compact targets and chainwork, on one branch of headers with times that
miners choose. `HeaderChain` takes the outcome as a set (`ValidBits`).

| Run | Instance | Shows |
|---|---|---|
| `Difficulty` | numbers of eight base-4 digits (the source: 32 bytes), a day of four blocks, four times, ten headers | `BitsSound`, `WorkSteered` |

`BitsSound`: the next header's bits always exist, are no easier than the limit and are
the one compact form of their target. `WorkSteered`: no choice of times moves the work
of a header further than four times, up or down, from its window, but for the slack
that the comment there names. Times go from all equal to far in the future and back, so
that the timespan is clamped at both ends; the mantissa runs into its sign bit.
`CHECK_DEADLOCK` is off because the branch is bounded.

`suitable_block` sorts three blocks stably. The reference node uses a network of three
swaps, which is not stable: the two differ when the oldest of the three is later than
two blocks of equal time. README.md:21 speaks of "HSD-compatible" retarget validation;
the reference node is not part of the repository, so no run says so.

## 11. Not modelled

- Hashing, the codecs of headers, DNS messages and resources, `canonical_rdata`, DER
  and X.509, TLS and QUIC handshakes: conversions and cryptography, external here or an
  outcome of what is.
- The Kotlin side: scheduler and foreground service, loopback proxy and TLS terminator,
  WebSocket bridge, interceptor, screens. It is Android lifecycle code around the native
  calls; the models take any request, any tunnel and ticks of two threads, which is what
  it can cause. Seen while reading: a tick in flight when the service stops still ends
  with `onSnapshot`, since `runOnce` does not look at `running`, and a restarted
  service may then have a second tick beside it, which is section 3's two writers.
- Of the bridge, the status that a tick itself reports, local certificates and the JNI
  glue.

`PROJECT.json`, "components", gives the reason for each part, and "hazards" the
lines.

The states of the runs, with two workers: `HeaderChain_faults` 0.1 million,
`PeerTable_ban` 1.1, `HeaderSync_serial` 0.4, `HeaderSync_live` 0.03, `HeaderSync_two`
1.6, `ResourceCache` 3.7, `Resolver` 0.25, `Gateway` 0.1, `Session` 0.4, `Difficulty`
0.35; each ends within three minutes.
