------------------------------ MODULE PeerTable ------------------------------
(***************************************************************************)
(* The peers table (peers.sqlite) and the threads that use it.  A header   *)
(* sync tick and the gateway's live proof fetch each load the whole table  *)
(* into a PeerManager, record what peers do, and write every record back,  *)
(* row by row.                                                             *)
(***************************************************************************)
EXTENDS PeerRules

CONSTANTS
  Thread,       \* threads that may have loaded the table
  Syncer,       \* those that sync headers; the others fetch a live proof
  Height,       \* heights a peer may claim
  BanSeconds,   \* malformed_ban_seconds
  Forever,      \* u64::MAX, the permanent ban earlier versions wrote
  FirstTables,  \* tables an earlier version may have left
  MaxClock,     \* bound: the last value of the clock
  MaxEvents,    \* bound: events a thread records in one go
  Faults        \* which of "crash" and "storage" may happen

ASSUME ThreadAssumption == Syncer \subseteq Thread
ASSUME TimeAssumption ==
  MaxClock \in Nat \ {0} /\ BanSeconds \in Nat \ {0} /\ Forever \in Nat /\ Forever > MaxClock + BanSeconds
ASSUME HeightAssumption == Height \subseteq Nat /\ MaxEvents \in Nat

(* peers.sqlite may hold any records when the models begin. *)
ASSUME TableAssumption == \A rows \in FirstTables : IsTable(rows)

VARIABLES
  table,   \* the peers table: address -> record
  mem,     \* mem[t]: t's PeerManager and where t is
  clock,   \* now_unix_seconds
  decided  \* the end of the last ban decided for each address

vars == <<table, mem, clock, decided>>

NoPeers == [a \in {} |-> NewPeer]
Resting == [pc |-> "idle", peers |-> NoPeers, now |-> NoTime, events |-> 0,
            dirty |-> FALSE, left |-> {}]

SavedBan(a) == IF a \in DOMAIN table /\ table[a].banned # Forever THEN table[a].banned ELSE NoTime

Init ==
  /\ table \in FirstTables
  /\ mem = [t \in Thread |-> Resting]
  /\ clock = 1
  /\ decided = [a \in Address |-> SavedBan(a)]

(* load_manager; a permanent ban is read as no ban. *)
Loaded(rows) ==
  [a \in DOMAIN rows |->
     [rows[a] EXCEPT !.banned = IF @ = Forever THEN NoTime ELSE @]]

Load(t) ==
  /\ mem[t].pc = "idle"
  /\ mem' = [mem EXCEPT ![t] = [Resting EXCEPT !.pc = "work", !.peers = Loaded(table),
                                               !.now = clock]]
  /\ UNCHANGED <<table, clock, decided>>

(* t's manager becomes peers. *)
Record(t, peers) ==
  /\ mem[t].pc = "work"
  /\ mem[t].events < MaxEvents
  /\ mem' = [mem EXCEPT ![t].peers = peers, ![t].events = @ + 1, ![t].dirty = TRUE]
  /\ UNCHANGED <<table, clock>>

(* Addresses from DNS seeds or gossip; the gateway seeds an empty manager. *)
Seed(t, as) ==
  /\ as \ DOMAIN mem[t].peers # {}
  /\ t \in Syncer \/ DOMAIN mem[t].peers = {}
  /\ Record(t, Upsert(mem[t].peers, as))
  /\ UNCHANGED decided

Succeed(t, a) ==
  /\ a \in Unbanned(mem[t].peers, mem[t].now)
  /\ \E h \in Height : Record(t, RecordSuccess(mem[t].peers, a, h, mem[t].now))
  /\ UNCHANGED decided

FailTransiently(t, a) ==
  /\ a \in Unbanned(mem[t].peers, mem[t].now)
  /\ Record(t, RecordTransientFailure(mem[t].peers, a))
  /\ UNCHANGED decided

(* After the handshake of a header sync. *)
Observe(t, a) ==
  /\ t \in Syncer
  /\ a \in Unbanned(mem[t].peers, mem[t].now)
  /\ \E h \in Height : Record(t, RecordObservedHeight(mem[t].peers, a, h, mem[t].now))
  /\ UNCHANGED decided

(* record_chain_failure: a page that does not attach, or an invalid one. *)
SendStaleTip(t, a) ==
  /\ t \in Syncer
  /\ a \in Unbanned(mem[t].peers, mem[t].now)
  /\ Record(t, RecordStaleTip(mem[t].peers, a))
  /\ UNCHANGED decided

SendMalformed(t, a) ==
  /\ t \in Syncer
  /\ a \in Unbanned(mem[t].peers, mem[t].now)
  /\ Record(t, RecordMalformed(mem[t].peers, a, mem[t].now, BanSeconds))
  /\ decided' = [decided EXCEPT ![a] = mem[t].now + BanSeconds]

-----------------------------------------------------------------------------
(* save_manager: every record, in the order of a hash map, one autocommit  *)
(* each.                                                                   *)
SaveBegin(t) ==
  /\ mem[t].pc = "work"
  /\ mem' = [mem EXCEPT ![t].pc = "save", ![t].left = DOMAIN mem[t].peers]
  /\ UNCHANGED <<table, clock, decided>>

(* Mutation of Written: a row that exists already is left as it is. *)
WrittenOnce(a, s) ==
  [b \in DOMAIN table \cup {a} |-> IF b \in DOMAIN table THEN table[b] ELSE s]

Written(a, s) == [b \in DOMAIN table \cup {a} |-> IF b = a THEN s ELSE table[b]]

SaveRow(t, a) ==
  /\ mem[t].pc = "save"
  /\ a \in mem[t].left
  /\ table' = Written(a, mem[t].peers[a])
  /\ mem' = [mem EXCEPT ![t].left = @ \ {a}]
  /\ UNCHANGED <<clock, decided>>

SaveEnd(t) ==
  /\ mem[t].pc = "save"
  /\ mem[t].left = {}
  /\ mem' = [mem EXCEPT ![t].pc = "work", ![t].dirty = FALSE]
  /\ UNCHANGED <<table, clock, decided>>

(* The tick or the fetch returns; both save last. *)
Finish(t) ==
  /\ mem[t].pc = "work"
  /\ ~mem[t].dirty
  /\ mem' = [mem EXCEPT ![t] = Resting]
  /\ UNCHANGED <<table, clock, decided>>

(* What was not saved is not decided. *)
Forget == decided' = [a \in Address |-> SavedBan(a)]

(* A storage error leaves the tick or fetch through `?`. *)
Abort(t) ==
  /\ "storage" \in Faults
  /\ mem[t].pc # "idle"
  /\ mem' = [mem EXCEPT ![t] = Resting]
  /\ Forget
  /\ UNCHANGED <<table, clock>>

Crash ==
  /\ "crash" \in Faults
  /\ \E t \in Thread : mem[t].pc # "idle"
  /\ mem' = [t \in Thread |-> Resting]
  /\ Forget
  /\ UNCHANGED <<table, clock>>

Advance ==
  /\ clock < MaxClock
  /\ clock' = clock + 1
  /\ UNCHANGED <<table, mem, decided>>

(* What a tick or fetch does until it saves. *)
Work(t) ==
  \/ Load(t)
  \/ \E as \in SUBSET Address : Seed(t, as)
  \/ \E a \in Address :
       \/ Succeed(t, a) \/ FailTransiently(t, a) \/ Observe(t, a)
       \/ SendStaleTip(t, a) \/ SendMalformed(t, a)

Save(t) ==
  \/ SaveBegin(t)
  \/ \E a \in Address : SaveRow(t, a)
  \/ SaveEnd(t)
  \/ Finish(t)
  \/ Abort(t)

Next ==
  \/ \E t \in Thread : Work(t) \/ Save(t)
  \/ Crash
  \/ Advance

Spec == Init /\ [][Next]_vars

-----------------------------------------------------------------------------

(* Malformed consensus data bans its sender until the ban ends, however    *)
(* well the peer did before and whoever else saves the table: the ban is   *)
(* in the table, or still to be saved by the tick that decided it.         *)
BansAreKept ==
  \A a \in Address :
    decided[a] > clock =>
      \/ a \in DOMAIN table /\ table[a].banned = decided[a]
      \/ \E t \in Thread :
           mem[t].dirty /\ a \in DOMAIN mem[t].peers /\ mem[t].peers[a].banned = decided[a]

(* "Transient peer failures must not permanently exhaust the outbound peer *)
(* pool": only malformed data bans, no sum of other failures does, and     *)
(* every ban a manager holds is over at the time it was decided to end.    *)
OnlyMalformedBans ==
  \A t \in Thread : \A a \in DOMAIN mem[t].peers :
    mem[t].peers[a].banned > clock => decided[a] >= mem[t].peers[a].banned
=============================================================================
