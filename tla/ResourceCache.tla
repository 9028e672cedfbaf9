----------------------------- MODULE ResourceCache -----------------------------
(***************************************************************************)
(* Verified resource values: resources.sqlite of rust/crates/hns-resolver, *)
(* the GatewayProofProvider of rust/crates/android-ffi that serves from it *)
(* and fills it with live proofs, and the pruning at the end of a sync     *)
(* tick.  All of them work beside a best chain that moves meanwhile, and   *)
(* each read or transaction is a step.                                     *)
(*                                                                         *)
(* A header is the sequence of labels that leads to it, as in HeaderChain; *)
(* the canonical chain is the prefixes of tip.  An Urkel proof shows what  *)
(* a tree root holds for a name, a value or its absence.                   *)
(***************************************************************************)
EXTENDS Naturals, Sequences, FiniteSets

CONSTANTS
  Thread,    \* gateway request threads
  Header,    \* headers, Genesis among them
  Starts,    \* best headers an earlier process may have left
  Work,      \* accumulated chainwork of each header
  Root,      \* tree_root of each header
  Name,      \* HNS root names, naturals in the order of root_name
  Asked,     \* names that are asked for
  Value,     \* resource values
  Absent,    \* what a non-inclusion proof proves
  Truth,     \* what each tree root holds for each name
  Size,      \* bytes of each value
  Window,    \* RESOURCE_PROOF_CACHE_CANONICAL_WINDOW
  Lag,       \* LOCAL_CHAIN_CURRENTNESS_ALLOWED_LAG
  Targets,   \* heights the chain may be compared with, 0 when there is none
  Limit,     \* resource_cache_limit_bytes
  MaxClock,  \* bound: the last value of the clock
  Faults     \* which of "crash" and "storage" may happen

Genesis == << >>
Roots == {Root[h] : h \in Header}
NoRoot == "no root"
NoAnswer == "none"

ASSUME ChainAssumption ==
  /\ Genesis \in Header
  /\ \A h \in Header : /\ h \in Seq(UNION {{g[i] : i \in DOMAIN g} : g \in Header})
                       /\ \A k \in 0 .. Len(h) : SubSeq(h, 1, k) \in Header
  /\ Work \in [Header -> Nat] /\ Starts \subseteq Header
  /\ DOMAIN Root = Header /\ NoRoot \notin Roots
ASSUME ValueAssumption ==
  /\ Absent \notin Value /\ NoAnswer \notin Value \cup {Absent}
  /\ Truth \in [Roots -> [Name -> Value \cup {Absent}]]
  /\ Size \in [Value -> Nat]
  /\ Name \subseteq Nat /\ IsFiniteSet(Name) /\ Asked \subseteq Name
ASSUME LimitAssumption ==
  Window \in Nat /\ Lag \in Nat /\ Targets \subseteq Nat /\ Limit \in Nat /\ MaxClock \in Nat

VARIABLES
  tip,    \* the best header; Genesis too while there is none
  rows,   \* verified_resource_values: name -> value, anchor and time
  req,    \* req[t]: the prove_name call of thread t
  tick,   \* the pruning of the sync tick
  clock   \* unixepoch()

vars == <<tip, rows, req, tick, clock>>

At(chain, k) == SubSeq(chain, 1, k)

Anchors == [root : Roots \cup {NoRoot}, height : Nat]
Rows == [value : Value \cup {Absent}, root : Roots \cup {NoRoot}, height : Nat, at : Nat]

NoRow == [value |-> Absent, root |-> NoRoot, height |-> 0, at |-> 0]
NoRows == [n \in {} |-> NoRow]

(* A row of a version without anchors. *)
OldRow(v) == [NoRow EXCEPT !.value = v]

(* The verified value of name under the root of best. *)
AnchoredRow(name, best, now) ==
  [value |-> Truth[Root[best]][name], root |-> Root[best], height |-> Len(best), at |-> now]

(* seen is history: the tips since the call began. *)
NoCall == [pc |-> "idle", name |-> 0, row |-> NoRow, best |-> Genesis, fetched |-> FALSE,
           seen |-> {}, answer |-> NoAnswer]

(* The rest is history: from, the tip when the listing of the anchors      *)
(* began; seen, the tips while it ran; skipped, the heights it did not     *)
(* read.                                                                   *)
NoTick == [pc |-> "off", next |-> 0, last |-> 0, anchors |-> {}, from |-> Genesis,
           seen |-> {}, skipped |-> {}]

Init ==
  /\ tip \in Starts
  /\ \E S \in SUBSET Name :
       \/ \E v \in Value : rows = [n \in S |-> OldRow(v)]
       \/ tip # Genesis /\ rows = [n \in S |-> AnchoredRow(n, tip, 1)]
  /\ req = [t \in Thread |-> NoCall]
  /\ tick = NoTick
  /\ clock = 1

-----------------------------------------------------------------------------
(* The call of t returns, with an answer or with an error. *)
Answer(t, a) == req' = [req EXCEPT ![t] = [NoCall EXCEPT !.answer = a]]
Fail(t) == req' = [req EXCEPT ![t] = NoCall]

Ask(t, n) ==
  /\ req[t].pc = "idle"
  /\ req' = [req EXCEPT ![t] = [NoCall EXCEPT !.pc = "row", !.name = n, !.seen = {tip}]]
  /\ UNCHANGED <<tip, rows, tick, clock>>

(* cached_records finds no proof: once fetched, that is the answer. *)
Miss(t) ==
  IF req[t].fetched
  THEN Fail(t)
  ELSE req' = [req EXCEPT ![t].pc = "fetch", ![t].row = NoRow]

(* cached_records: the row, *)
ReadRow(t) ==
  /\ req[t].pc = "row"
  /\ IF req[t].name \in DOMAIN rows
     THEN req' = [req EXCEPT ![t].pc = "best", ![t].row = rows[req[t].name]]
     ELSE Miss(t)
  /\ UNCHANGED <<tip, rows, tick, clock>>

(* then the best header,                                                   *)
InWindow(height, best) == height \in 1 .. best /\ best - height <= Window

ReadBest(t) ==
  /\ req[t].pc = "best"
  /\ IF InWindow(req[t].row.height, Len(tip)) THEN req' = [req EXCEPT ![t].pc = "canonical"] ELSE Miss(t)
  /\ UNCHANGED <<tip, rows, tick, clock>>

(* Mutation of IsCanonical: the height is enough. *)
IsBelowTip(root, height) == height <= Len(tip)

(* then the canonical header at the anchor's height,                       *)
IsCanonical(root, height) == height <= Len(tip) /\ Root[At(tip, height)] = root

ReadCanonical(t) ==
  /\ req[t].pc = "canonical"
  /\ IF ~IsCanonical(req[t].row.root, req[t].row.height) THEN Miss(t)
     ELSE IF req[t].row.value = Absent THEN req' = [req EXCEPT ![t].pc = "current", ![t].row = NoRow]
     ELSE Answer(t, req[t].row.value)
  /\ UNCHANGED <<tip, rows, tick, clock>>

(* either of which, when it cannot be read, is none,                       *)
ReadsNothing(t) ==
  /\ "storage" \in Faults
  /\ req[t].pc \in {"best", "canonical"}
  /\ Miss(t)
  /\ UNCHANGED <<tip, rows, tick, clock>>

(* and for an absence whether the chain is far behind its target.          *)
ReadCurrent(t) ==
  /\ req[t].pc = "current"
  /\ \E target \in Targets :
       IF target > Len(tip) + Lag THEN Fail(t) ELSE Answer(t, Absent)
  /\ UNCHANGED <<tip, rows, tick, clock>>

-----------------------------------------------------------------------------
(* fetch_and_store_live_proof: the best header whose root is asked for.    *)
FetchBegin(t) ==
  /\ req[t].pc = "fetch"
  /\ IF tip = Genesis THEN Fail(t)
     ELSE req' = [req EXCEPT ![t].pc = "peer", ![t].best = tip]
  /\ UNCHANGED <<tip, rows, tick, clock>>

(* Mutation of Anchored: the value is stored under the best header of the  *)
(* time of the answer.                                                     *)
AnchoredLate(name, best) ==
  [value |-> Truth[Root[best]][name], root |-> Root[tip], height |-> Len(tip), at |-> clock]

Anchored(name, best) == AnchoredRow(name, best, clock)

(* insert: an upsert, whatever the row holds. *)
Stored(n, row) == [m \in DOMAIN rows \cup {n} |-> IF m = n THEN row ELSE rows[m]]

(* Mutation of PeerProves: the fetched value is served without a lookup.   *)
PeerProvesAndServes(t) ==
  /\ req[t].pc = "peer"
  /\ rows' = Stored(req[t].name, Anchored(req[t].name, req[t].best))
  /\ Answer(t, Truth[Root[req[t].best]][req[t].name])
  /\ UNCHANGED <<tip, tick, clock>>

(* A peer's proof verifies and is stored; saving the peers may then fail.  *)
PeerProves(t) ==
  /\ req[t].pc = "peer"
  /\ rows' = Stored(req[t].name, Anchored(req[t].name, req[t].best))
  /\ \/ req' = [req EXCEPT ![t].pc = "row", ![t].best = Genesis, ![t].fetched = TRUE]
     \/ "storage" \in Faults /\ Fail(t)
  /\ UNCHANGED <<tip, tick, clock>>

(* A storage error ends the call. *)
CallFails(t) ==
  /\ "storage" \in Faults
  /\ req[t].pc # "idle"
  /\ Fail(t)
  /\ UNCHANGED <<tip, rows, tick, clock>>

(* No peer is known at that height, or none proves it. *)
PeersFail(t) ==
  /\ req[t].pc = "peer"
  /\ Fail(t)
  /\ UNCHANGED <<tip, rows, tick, clock>>

-----------------------------------------------------------------------------
(* recent_canonical_resource_anchors: the best header, then each height.   *)

(* Mutation of FirstHeight: one height more, and no clamp. *)
FirstHeightUnclamped(best) == best - Window - 1

FirstHeight(best) == IF best > Window THEN best - Window ELSE 1

ListBegin ==
  /\ tick.pc = "off"
  /\ tick' = IF tip = Genesis
             THEN [NoTick EXCEPT !.pc = "prune"]
             ELSE [NoTick EXCEPT !.pc = "list", !.next = FirstHeight(Len(tip)), !.last = Len(tip),
                                 !.from = tip, !.seen = {tip}]
  /\ UNCHANGED <<tip, rows, req, clock>>

(* Mutation of AnchorAt: the header of any branch. *)
AnchorsOfHeight(k) == {[root |-> Root[h], height |-> k] : h \in {g \in Header : Len(g) = k}}

AnchorAt(k) == IF k <= Len(tip) THEN {[root |-> Root[At(tip, k)], height |-> k]} ELSE {}

ListHeight ==
  /\ tick.pc = "list"
  /\ tick' = IF tick.next > tick.last
             THEN [tick EXCEPT !.pc = "prune", !.next = 0, !.last = 0]
             ELSE [tick EXCEPT !.next = @ + 1, !.anchors = @ \cup AnchorAt(tick.next)]
  /\ UNCHANGED <<tip, rows, req, clock>>

(* A header that cannot be read is none. *)
ListsNothing ==
  /\ "storage" \in Faults
  /\ \/ tick.pc = "off" /\ tick' = [NoTick EXCEPT !.pc = "prune"]
     \/ /\ tick.pc = "list" /\ tick.next <= tick.last
        /\ tick' = [tick EXCEPT !.next = @ + 1, !.skipped = @ \cup {tick.next}]
  /\ UNCHANGED <<tip, rows, req, clock>>

(* DELETE of every other row. *)
Keeping(S) == [n \in DOMAIN rows \cap S |-> rows[n]]

(* prune_invalid_anchors, one transaction. *)
Prune ==
  /\ tick.pc = "prune"
  /\ rows' = Keeping({n \in DOMAIN rows :
                        [root |-> rows[n].root, height |-> rows[n].height] \in tick.anchors})
  /\ tick' = [NoTick EXCEPT !.pc = "limit"]
  /\ UNCHANGED <<tip, req, clock>>

(* enforce_value_byte_limit, one transaction: the oldest row goes until    *)
(* the bytes of the others are within the limit.                           *)
Bytes(v) == IF v = Absent THEN 0 ELSE Size[v]

TotalOf(table, S) ==
  LET sum[T \in SUBSET S] ==
        IF T = {} THEN 0
        ELSE LET n == CHOOSE n \in T : TRUE IN Bytes(table[n].value) + sum[T \ {n}]
  IN sum[S]

Older(m, n) == rows[m].at < rows[n].at \/ (rows[m].at = rows[n].at /\ m < n)

(* Mutation of Oldest: the newest row goes first. *)
Newest(S) == CHOOSE n \in S : \A m \in S \ {n} : Older(m, n)

Oldest(S) == CHOOSE n \in S : \A m \in S \ {n} : Older(n, m)

Survivors ==
  LET kept[S \in SUBSET DOMAIN rows] ==
        IF S = {} \/ TotalOf(rows, S) <= Limit THEN S ELSE kept[S \ {Oldest(S)}]
  IN kept[DOMAIN rows]

EnforceLimit ==
  /\ tick.pc = "limit"
  /\ rows' = Keeping(Survivors)
  /\ tick' = NoTick
  /\ UNCHANGED <<tip, req, clock>>

(* A storage error ends the tick. *)
TickFails ==
  /\ "storage" \in Faults
  /\ tick.pc # "off"
  /\ tick' = NoTick
  /\ UNCHANGED <<tip, rows, req, clock>>

-----------------------------------------------------------------------------
(* Header sync: the tip moves to a heavier header (BestChain's Promote).   *)
Reorganise ==
  /\ \E h \in Header : Work[h] > Work[tip] /\ tip' = h
  /\ req' = [t \in Thread |->
               IF req[t].pc = "idle" THEN req[t] ELSE [req[t] EXCEPT !.seen = @ \cup {tip'}]]
  /\ tick' = IF tick.pc = "list" THEN [tick EXCEPT !.seen = @ \cup {tip'}] ELSE tick
  /\ UNCHANGED <<rows, clock>>

(* clear_resolver_cache *)
Clear ==
  /\ rows' = NoRows
  /\ UNCHANGED <<tip, req, tick, clock>>

Crash ==
  /\ "crash" \in Faults
  /\ req' = [t \in Thread |-> NoCall] /\ tick' = NoTick
  /\ UNCHANGED <<tip, rows, clock>>

Advance ==
  /\ clock < MaxClock
  /\ clock' = clock + 1
  /\ UNCHANGED <<tip, rows, req, tick>>

CachedRecords(t) ==
  ReadRow(t) \/ ReadBest(t) \/ ReadCanonical(t) \/ ReadsNothing(t) \/ ReadCurrent(t)
LiveProof(t) == FetchBegin(t) \/ PeerProves(t) \/ PeersFail(t)
Call(t) == (\E n \in Asked : Ask(t, n)) \/ CachedRecords(t) \/ LiveProof(t) \/ CallFails(t)
Tick == ListBegin \/ ListHeight \/ ListsNothing \/ Prune \/ EnforceLimit \/ TickFails

Next ==
  \/ \E t \in Thread : Call(t)
  \/ Tick
  \/ Reorganise \/ Clear \/ Crash \/ Advance

Spec == Init /\ [][Next]_vars

-----------------------------------------------------------------------------
Calls ==
  [pc : {"idle", "row", "best", "canonical", "current", "fetch", "peer"}, name : Name \cup {0},
   row : Rows, best : Header, fetched : BOOLEAN, seen : SUBSET Header,
   answer : Value \cup {Absent, NoAnswer}]

Ticks ==
  [pc : {"off", "list", "prune", "limit"}, next : Nat, last : Nat, anchors : SUBSET Anchors,
   from : Header, seen : SUBSET Header, skipped : SUBSET Nat]

(* Rows, calls and the tick have the types of their columns and locals.    *)
TypeOK ==
  /\ tip \in Header
  /\ DOMAIN rows \subseteq Name /\ rows \in [DOMAIN rows -> Rows]
  /\ req \in [Thread -> Calls] /\ \A t \in Thread : req[t].pc # "idle" => req[t].name \in Name
  /\ tick \in Ticks
  /\ clock \in Nat

(* An anchored row holds what the tree of its anchor holds for its name,   *)
(* and some header of that height has that tree, whoever stored it last,   *)
(* and however long the proof took.                                        *)
RowTrue(n, row) ==
  row.root # NoRoot =>
    /\ row.value = Truth[row.root][n]
    /\ \E h \in Header : Len(h) = row.height /\ Root[h] = row.root

RowsTrue == \A n \in DOMAIN rows : RowTrue(n, rows[n])

(* What chain holds for name at a height recent for the tip best. *)
HeldBy(chain, best, name, v) ==
  \E k \in 1 .. Len(chain) :
    InWindow(k, Len(best)) /\ Truth[Root[At(chain, k)]][name] = v

Answers(t, S) == req[t].pc # "idle" /\ req'[t].pc = "idle" /\ req'[t].answer \in S

(* "If reorg crosses cached proof height, invalidate": what a call         *)
(* answers, a value or its absence, was committed to by the canonical      *)
(* chain while the call ran, at most the window behind a tip of that time, *)
(* whatever was cached, pruned, refetched or reorganised meanwhile.        *)
AnswersFromChain ==
  [][\A t \in Thread : Answers(t, Value \cup {Absent}) =>
       \E c, d \in req[t].seen : HeldBy(c, d, req[t].name, req'[t].answer)]_vars

(* A positive answer still is on the canonical chain when it is given, the *)
(* answer to a live proof that took long included.                         *)
PositiveStillCanonical ==
  [][\A t \in Thread : Answers(t, Value) =>
       \E d \in req[t].seen : HeldBy(tip, d, req[t].name, req'[t].answer)]_vars

OnChain(chain, row) == row.height <= Len(chain) /\ Root[At(chain, row.height)] = row.root

(* "sync ticks prune values that are unanchored or not anchored to that    *)
(* current tip": the code keeps a window below the tip instead.  A row     *)
(* left by a prune is within the window of the tip the listing began with, *)
(* and on the chain of some tip while it ran; a row of the window that was *)
(* on the chain throughout, at a height that was read, is not removed.     *)
(* The tip may move at any time, to another branch too.                    *)
PruneLeavesRecent ==
  [][tick.pc = "prune" /\ tick'.pc = "limit" =>
       /\ \A n \in DOMAIN rows' :
            /\ InWindow(rows'[n].height, Len(tick.from))
            /\ \E c \in tick.seen : OnChain(c, rows'[n])
       /\ \A n \in DOMAIN rows \ DOMAIN rows' :
            InWindow(rows[n].height, Len(tick.from)) /\ rows[n].height \notin tick.skipped =>
              \E c \in tick.seen : ~OnChain(c, rows[n])]_vars

(* "oldest-entry eviction": the rows left are within the limit, each newer *)
(* than each row removed, and the last row removed would have exceeded it. *)
LimitKeepsNewest ==
  [][EnforceLimit =>
       LET kept == DOMAIN rows'
           gone == DOMAIN rows \ kept
       IN /\ TotalOf(rows, kept) <= Limit
          /\ \A n \in gone, m \in kept : Older(n, m)
          /\ \A n \in gone : TotalOf(rows, kept \cup {m \in gone : m = n \/ Older(n, m)}) > Limit]_vars
================================================================================
