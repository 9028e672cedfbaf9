--------------------------- MODULE PeerTableProofs ---------------------------
(***************************************************************************)
(* Proofs about the peers table: for one thread, whatever fails or crashes *)
(* and whatever earlier versions left in the table, the bans in the table  *)
(* and in the thread's PeerManager are the ones that were decided.         *)
(***************************************************************************)
EXTENDS PeerTable, PeerRulesProofs

Managers(P, L) ==
  [pc : {"idle", "work", "save"}, peers : P, now : Nat, events : Nat, dirty : BOOLEAN, left : L]

IsManager(m) ==
  /\ IsTable(m.peers)
  /\ m \in Managers({m.peers}, SUBSET DOMAIN m.peers)
  /\ m.pc = "idle" => DOMAIN m.peers = {}

(* Types; no manager is from the future or holds a permanent ban. *)
PeerTypes ==
  /\ IsTable(table)
  /\ mem = [t \in Thread |-> mem[t]]
  /\ clock \in 1 .. MaxClock
  /\ decided \in [Address -> Nat]
  /\ \A t \in Thread :
       /\ IsManager(mem[t])
       /\ mem[t].now <= clock
       /\ \A a \in DOMAIN mem[t].peers : mem[t].peers[a].banned # Forever

HeldBan(t, a) == IF a \in DOMAIN mem[t].peers THEN mem[t].peers[a].banned ELSE NoTime

(* A ban that is not over, or one that was decided and is not over, is the *)
(* one that was decided.                                                   *)
Agrees(ban, a) == ban > clock \/ decided[a] > clock => ban = decided[a]

(* t has nothing of a that is not in the table. *)
Saved(t, a) ==
  mem[t].pc = "idle" \/ ~mem[t].dirty \/ (mem[t].pc = "save" /\ a \notin mem[t].left)

BansAgree ==
  \A a \in Address :
    /\ SavedBan(a) > clock => SavedBan(a) = decided[a]
    /\ \A t \in Thread : mem[t].pc # "idle" => Agrees(HeldBan(t, a), a)
    /\ (\A t \in Thread : Saved(t, a)) => Agrees(SavedBan(a), a)

BansInv == PeerTypes /\ BansAgree

(* The ticks of one scheduler, and no live fetch beside them. *)
OneThread == \A t, u \in Thread : t = u

-----------------------------------------------------------------------------
(* The two parts of BansInv for a step in which only t's manager changes   *)
(* and the clock stands.                                                   *)
LEMMA OneManagerTypes ==
  ASSUME PeerTypes, NEW t \in Thread, NEW m, mem' = [mem EXCEPT ![t] = m],
         IsManager(m), m.now <= clock, \A a \in DOMAIN m.peers : m.peers[a].banned # Forever,
         UNCHANGED clock, IsTable(table'), decided' \in [Address -> Nat]
  PROVE  PeerTypes'
<1>1. mem' = [u \in Thread |-> mem'[u]]
  BY DEF PeerTypes
<1>2. ASSUME NEW u \in Thread
      PROVE  /\ IsManager(mem'[u]) /\ mem'[u].now <= clock'
             /\ \A a \in DOMAIN mem'[u].peers : mem'[u].peers[a].banned # Forever
  <2>1. mem'[u] = IF u = t THEN m ELSE mem[u]
    BY DEF PeerTypes
  <2>. QED BY <2>1 DEF PeerTypes
<1>. QED BY <1>1, <1>2 DEF PeerTypes

Settled(t, a) ==
  /\ SavedBan(a) > clock => SavedBan(a) = decided[a]
  /\ mem[t].pc # "idle" => Agrees(HeldBan(t, a), a)
  /\ Saved(t, a) => Agrees(SavedBan(a), a)

LEMMA OneManagerBans ==
  ASSUME OneThread, NEW t \in Thread, \A a \in Address : Settled(t, a)'
  PROVE  BansAgree'
  BY DEF OneThread, BansAgree, Settled

LEMMA SavedBanTypes ==
  ASSUME IsTable(table), NEW a \in Address
  PROVE  SavedBan(a) \in Nat
  BY DEF SavedBan, IsTable, PeerState, NoTime

LEMMA HeldBanTypes ==
  ASSUME PeerTypes, NEW t \in Thread, NEW a \in Address
  PROVE  HeldBan(t, a) \in Nat
  BY DEF PeerTypes, HeldBan, IsManager, IsTable, PeerState, NoTime

LEMMA CountedManager ==
  ASSUME NEW P, NEW L, NEW m \in Managers(P, L)
  PROVE  LET n == [m EXCEPT !.events = @ + 1]
         IN n \in Managers(P, L) /\ n.pc = m.pc /\ n.peers = m.peers /\ n.now = m.now /\ n.left = m.left
  BY DEF Managers

LEMMA FilledManager ==
  ASSUME NEW P, NEW L, NEW m \in Managers(P, L), NEW rows
  PROVE  LET n == [m EXCEPT !.peers = rows, !.dirty = TRUE]
         IN /\ n \in Managers({rows}, L)
            /\ n.pc = m.pc /\ n.peers = rows /\ n.now = m.now /\ n.left = m.left /\ n.dirty
  BY DEF Managers

LEMMA RecordedManager ==
  ASSUME NEW m, IsManager(m), m.pc = "work", NEW rows, IsTable(rows), DOMAIN m.peers \subseteq DOMAIN rows
  PROVE  LET n == [m EXCEPT !.peers = rows, !.events = @ + 1, !.dirty = TRUE]
         IN /\ IsManager(n)
            /\ n.pc = m.pc /\ n.peers = rows /\ n.now = m.now /\ n.dirty
<1>. DEFINE k == [m EXCEPT !.events = @ + 1]
            n == [k EXCEPT !.peers = rows, !.dirty = TRUE]
<1>1. m \in Managers({m.peers}, SUBSET DOMAIN rows)
  BY DEF IsManager, Managers
<1>2. /\ k \in Managers({m.peers}, SUBSET DOMAIN rows)
      /\ k.pc = m.pc /\ k.now = m.now
  BY <1>1, CountedManager
<1>3. /\ n \in Managers({rows}, SUBSET DOMAIN rows)
      /\ n.pc = m.pc /\ n.now = m.now /\ n.peers = rows /\ n.dirty
  <2>. HIDE DEF k
  <2>1. LET o == [k EXCEPT !.peers = rows, !.dirty = TRUE]
        IN /\ o \in Managers({rows}, SUBSET DOMAIN rows)
           /\ o.pc = k.pc /\ o.peers = rows /\ o.now = k.now /\ o.left = k.left /\ o.dirty
    BY <1>2, FilledManager, Zenon
  <2>. HIDE DEF n
  <2>2. n \in Managers({rows}, SUBSET DOMAIN rows) /\ n.pc = k.pc /\ n.now = k.now /\ n.peers = rows /\ n.dirty
    BY <2>1 DEF n
  <2>. QED BY <1>2, <2>2
<1>4. n = [m EXCEPT !.peers = rows, !.events = @ + 1, !.dirty = TRUE]
  BY <1>1 DEF Managers
<1>. HIDE DEF n
<1>. QED BY <1>3, <1>4 DEF IsManager, Managers

LEMMA QuietRecord ==
  ASSUME OneThread, BansInv, NEW t \in Thread, NEW rows, Record(t, rows),
         SameBans(rows, mem[t].peers), UNCHANGED decided
  PROVE  BansInv'
<1>. DEFINE m == [mem[t] EXCEPT !.peers = rows, !.events = @ + 1, !.dirty = TRUE]
<1>1. mem' = [mem EXCEPT ![t] = m] /\ mem'[t] = m /\ UNCHANGED <<table, clock, decided>>
  BY DEF Record, BansInv, PeerTypes
<1>2. /\ IsManager(m) /\ m.now <= clock /\ m.pc = "work" /\ m.dirty /\ m.peers = rows
      /\ \A a \in DOMAIN m.peers : m.peers[a].banned # Forever
  <2>1. IsManager(mem[t]) /\ mem[t].now <= clock /\ mem[t].pc = "work"
    BY DEF BansInv, PeerTypes, Record
  <2>2. \A a \in DOMAIN rows : rows[a].banned # Forever
    BY TimeAssumption DEF BansInv, PeerTypes, SameBans, NoTime
  <2>3. DOMAIN mem[t].peers \subseteq DOMAIN rows /\ IsTable(rows)
    BY DEF SameBans
  <2>4. /\ IsManager(m) /\ m.now = mem[t].now /\ m.pc = "work" /\ m.dirty /\ m.peers = rows
    BY <2>1, <2>3, RecordedManager
  <2>. QED BY <2>1, <2>2, <2>4
<1>3. PeerTypes'
  BY <1>1, <1>2, OneManagerTypes DEF BansInv, PeerTypes
<1>4. ASSUME NEW a \in Address PROVE Settled(t, a)'
  <2>1. SavedBan(a)' = SavedBan(a)
    BY <1>1 DEF SavedBan
  <2>2. HeldBan(t, a)' = HeldBan(t, a)
    BY <1>1, <1>2 DEF HeldBan, SameBans
  <2>3. mem[t].pc # "idle"
    BY DEF Record
  <2>4. ~Saved(t, a)'
    BY <1>1, <1>2 DEF Saved
  <2>. QED BY <1>1, <2>1, <2>2, <2>3, <2>4 DEF BansInv, BansAgree, Agrees, Settled
<1>. QED BY <1>3, <1>4, OneManagerBans DEF BansInv

LEMMA LoadKeeps ==
  ASSUME OneThread, BansInv, NEW t \in Thread, Load(t)
  PROVE  BansInv'
<1>. DEFINE m == [Resting EXCEPT !.pc = "work", !.peers = Loaded(table), !.now = clock]
<1>1. mem' = [mem EXCEPT ![t] = m] /\ mem'[t] = m /\ UNCHANGED <<table, clock, decided>>
  BY DEF Load, BansInv, PeerTypes
<1>2. /\ IsTable(Loaded(table)) /\ DOMAIN Loaded(table) = DOMAIN table
      /\ \A a \in DOMAIN table :
           Loaded(table)[a].banned = IF table[a].banned = Forever THEN NoTime ELSE table[a].banned
  BY DEF BansInv, PeerTypes, IsTable, Loaded, PeerState, NoTime
<1>3. /\ m \in Managers({Loaded(table)}, SUBSET DOMAIN Loaded(table))
      /\ m.pc = "work" /\ m.peers = Loaded(table) /\ m.now = clock /\ m.dirty = FALSE
  <2>. DEFINE k == [Resting EXCEPT !.pc = "work", !.now = clock]
  <2>1. clock \in Nat
    BY DEF BansInv, PeerTypes
  <2>2. Resting \in Managers({NoPeers}, SUBSET DOMAIN Loaded(table)) /\ ~Resting.dirty
    BY DEF Resting, Managers, NoTime
  <2>3. /\ k \in Managers({NoPeers}, SUBSET DOMAIN Loaded(table))
        /\ k.pc = "work" /\ k.now = clock /\ ~k.dirty
    <3>. HIDE DEF Resting
    <3>. QED BY <2>1, <2>2 DEF Managers
  <2>4. m = [k EXCEPT !.peers = Loaded(table)]
    BY <2>2 DEF Managers
  <2>. HIDE DEF k
  <2>. QED BY <2>3, <2>4 DEF Managers
<1>. HIDE DEF m
<1>4. IsManager(m) /\ m.now = clock /\ \A a \in DOMAIN m.peers : m.peers[a].banned # Forever
  BY <1>2, <1>3, TimeAssumption DEF IsManager, BansInv, PeerTypes, NoTime
<1>5. PeerTypes'
  BY <1>1, <1>4, OneManagerTypes DEF BansInv, PeerTypes
<1>6. ASSUME NEW a \in Address PROVE Settled(t, a)'
  <2>1. SavedBan(a)' = SavedBan(a)
    BY <1>1 DEF SavedBan
  <2>2. HeldBan(t, a)' = SavedBan(a)
    BY <1>1, <1>2, <1>3 DEF HeldBan, SavedBan
  <2>3. Saved(t, a)
    BY DEF Load, Saved
  <2>. QED BY <1>1, <2>1, <2>2, <2>3 DEF BansInv, BansAgree, Agrees, Settled, OneThread
<1>. QED BY <1>5, <1>6, OneManagerBans DEF BansInv

LEMMA MalformedKeeps ==
  ASSUME OneThread, BansInv, NEW t \in Thread, NEW a \in Address, SendMalformed(t, a)
  PROVE  BansInv'
<1>. DEFINE rows == RecordMalformed(mem[t].peers, a, mem[t].now, BanSeconds)
            m == [mem[t] EXCEPT !.peers = rows, !.events = @ + 1, !.dirty = TRUE]
<1>1. /\ IsManager(mem[t]) /\ mem[t].now \in Nat /\ mem[t].now <= clock /\ mem[t].pc = "work"
      /\ a \in DOMAIN mem[t].peers /\ ~(mem[t].peers[a].banned > mem[t].now)
      /\ IsTable(mem[t].peers)
  BY DEF BansInv, PeerTypes, SendMalformed, Record, Unbanned, IsBanned, IsManager, Managers
<1>2. /\ mem' = [mem EXCEPT ![t] = m] /\ mem'[t] = m /\ UNCHANGED <<table, clock>>
      /\ decided' = [decided EXCEPT ![a] = mem[t].now + BanSeconds]
  BY DEF SendMalformed, Record, BansInv, PeerTypes
<1>3. /\ IsTable(rows) /\ DOMAIN rows = DOMAIN mem[t].peers
      /\ \A b \in DOMAIN rows :
           rows[b].banned = IF b = a THEN mem[t].now + BanSeconds ELSE mem[t].peers[b].banned
  <2>1. BanSeconds \in Nat /\ mem[t].now + BanSeconds # NoTime
    BY <1>1, TimeAssumption DEF NoTime
  <2>2. BansOne(rows, mem[t].peers, a, mem[t].now + BanSeconds)
    BY <1>1, <2>1, MalformedBans
  <2>. QED BY <1>1, <2>2 DEF BansOne
<1>. HIDE DEF rows
<1>4. IsManager(m) /\ m.now = mem[t].now /\ m.pc = "work" /\ m.dirty /\ m.peers = rows
  BY <1>1, <1>3, RecordedManager, ZenonT(30)
<1>. HIDE DEF m
<1>5. \A b \in DOMAIN m.peers : m.peers[b].banned # Forever
  BY <1>1, <1>3, <1>4, TimeAssumption DEF BansInv, PeerTypes
<1>6. PeerTypes'
  <2>1. decided' \in [Address -> Nat]
    BY <1>1, <1>2, TimeAssumption DEF BansInv, PeerTypes
  <2>. QED BY <1>1, <1>2, <1>4, <1>5, <2>1, OneManagerTypes DEF BansInv, PeerTypes
<1>7. ASSUME NEW b \in Address PROVE Settled(t, b)'
  <2>1. SavedBan(b)' = SavedBan(b) /\ ~Saved(t, b)'
    BY <1>2, <1>4 DEF SavedBan, Saved
  <2>2. Agrees(HeldBan(t, b), b) /\ (SavedBan(b) > clock => SavedBan(b) = decided[b])
    BY <1>1 DEF BansInv, BansAgree
  <2>3. CASE b # a
    <3>1. HeldBan(t, b)' = HeldBan(t, b) /\ decided'[b] = decided[b]
      BY <1>2, <1>3, <1>4, <2>3 DEF HeldBan, BansInv, PeerTypes
    <3>. QED BY <1>2, <2>1, <2>2, <3>1 DEF Agrees, Settled
  <2>4. CASE b = a
    <3>1. HeldBan(t, a)' = mem[t].now + BanSeconds /\ decided'[a] = mem[t].now + BanSeconds
      BY <1>1, <1>2, <1>3, <1>4 DEF HeldBan, BansInv, PeerTypes
    <3>2. ~(HeldBan(t, a) > clock) /\ HeldBan(t, a) \in Nat /\ SavedBan(a) \in Nat /\ clock \in Nat
      BY <1>1, HeldBanTypes, SavedBanTypes DEF HeldBan, BansInv, PeerTypes
    <3>3. ~(SavedBan(a) > clock)
      BY <2>2, <2>4, <3>2 DEF Agrees
    <3>. QED BY <1>2, <2>1, <2>4, <3>1, <3>3 DEF Agrees, Settled
  <2>. QED BY <2>3, <2>4
<1>. QED BY <1>6, <1>7, OneManagerBans DEF BansInv

(* save_manager: what a thread holds does not change while it saves. *)
LEMMA SaveStepTypes ==
  ASSUME BansInv, NEW t \in Thread, NEW m, mem' = [mem EXCEPT ![t] = m], IsManager(m),
         m.peers = mem[t].peers, m.now = mem[t].now, IsTable(table'), UNCHANGED <<clock, decided>>
  PROVE  PeerTypes'
  BY OneManagerTypes DEF BansInv, PeerTypes

LEMMA SaveBeginKeeps ==
  ASSUME OneThread, BansInv, NEW t \in Thread, SaveBegin(t)
  PROVE  BansInv'
<1>. DEFINE m == [mem[t] EXCEPT !.pc = "save", !.left = DOMAIN mem[t].peers]
<1>1. mem' = [mem EXCEPT ![t] = m] /\ mem'[t] = m /\ UNCHANGED <<table, clock, decided>>
  BY DEF SaveBegin, BansInv, PeerTypes
<1>2. /\ IsManager(m) /\ m.pc = "save" /\ m.left = DOMAIN mem[t].peers /\ (m.dirty <=> mem[t].dirty)
      /\ m.peers = mem[t].peers /\ m.now = mem[t].now
  <2>1. IsManager(mem[t]) /\ mem[t].dirty \in BOOLEAN
    BY DEF BansInv, PeerTypes, IsManager, Managers
  <2>2. m \in Managers({mem[t].peers}, SUBSET DOMAIN mem[t].peers)
    BY <2>1 DEF IsManager, Managers
  <2>3. /\ m.pc = "save" /\ m.left = DOMAIN mem[t].peers /\ (m.dirty <=> mem[t].dirty)
        /\ m.peers = mem[t].peers /\ m.now = mem[t].now
    BY <2>1 DEF IsManager, Managers
  <2>. HIDE DEF m
  <2>. QED BY <2>1, <2>2, <2>3 DEF IsManager
<1>. HIDE DEF m
<1>3. PeerTypes'
  BY <1>1, <1>2, SaveStepTypes DEF BansInv, PeerTypes
<1>4. ASSUME NEW a \in Address PROVE Settled(t, a)'
  <2>1. mem[t].pc = "work" /\ HeldBan(t, a)' = HeldBan(t, a) /\ SavedBan(a)' = SavedBan(a)
    BY <1>1, <1>2 DEF SaveBegin, HeldBan, SavedBan
  <2>2. Agrees(HeldBan(t, a), a) /\ (SavedBan(a) > clock => SavedBan(a) = decided[a])
    BY <2>1 DEF BansInv, BansAgree
  <2>3. CASE ~mem[t].dirty
    BY <1>1, <2>1, <2>2, <2>3 DEF BansInv, BansAgree, Agrees, Settled, Saved, OneThread
  <2>4. CASE a \in DOMAIN mem[t].peers /\ mem[t].dirty
    BY <1>1, <1>2, <2>1, <2>2, <2>4 DEF Agrees, Settled, Saved
  <2>5. CASE a \notin DOMAIN mem[t].peers
    <3>1. ~(decided[a] > clock)
      BY <2>2, <2>5 DEF Agrees, HeldBan, NoTime, BansInv, PeerTypes
    <3>. QED BY <1>1, <2>1, <2>2, <3>1 DEF Agrees, Settled
  <2>. QED BY <2>3, <2>4, <2>5 DEF BansInv, PeerTypes, IsManager, Managers
<1>. QED BY <1>3, <1>4, OneManagerBans DEF BansInv

LEMMA SaveRowKeeps ==
  ASSUME OneThread, BansInv, NEW t \in Thread, NEW a \in Address, SaveRow(t, a)
  PROVE  BansInv'
<1>. DEFINE m == [mem[t] EXCEPT !.left = @ \ {a}]
<1>1. /\ mem' = [mem EXCEPT ![t] = m] /\ mem'[t] = m /\ UNCHANGED <<clock, decided>>
      /\ table' = Written(a, mem[t].peers[a])
      /\ mem[t].pc = "save" /\ a \in mem[t].left
  BY DEF SaveRow, BansInv, PeerTypes
<1>2. /\ IsManager(mem[t]) /\ mem[t].dirty \in BOOLEAN /\ mem[t].left \subseteq DOMAIN mem[t].peers
      /\ a \in DOMAIN mem[t].peers /\ mem[t].peers[a] \in PeerState
      /\ mem[t].peers[a].banned # Forever
  BY <1>1 DEF BansInv, PeerTypes, IsManager, Managers, IsTable
<1>3. /\ IsManager(m) /\ m.pc = "save" /\ m.left = mem[t].left \ {a} /\ (m.dirty <=> mem[t].dirty)
      /\ m.peers = mem[t].peers /\ m.now = mem[t].now
  <2>1. m \in Managers({mem[t].peers}, SUBSET DOMAIN mem[t].peers)
    BY <1>2 DEF IsManager, Managers
  <2>2. /\ m.pc = "save" /\ m.left = mem[t].left \ {a} /\ (m.dirty <=> mem[t].dirty)
        /\ m.peers = mem[t].peers /\ m.now = mem[t].now
    BY <1>1, <1>2 DEF IsManager, Managers
  <2>. HIDE DEF m
  <2>. QED BY <1>2, <2>1, <2>2 DEF IsManager
<1>. HIDE DEF m
<1>4. IsTable(table') /\ table'[a] = mem[t].peers[a] /\ a \in DOMAIN table'
  BY <1>1, <1>2 DEF Written, BansInv, PeerTypes, IsTable
<1>5. PeerTypes'
  BY <1>1, <1>3, <1>4, SaveStepTypes
<1>6. ASSUME NEW b \in Address PROVE Settled(t, b)'
  <2>1. HeldBan(t, b)' = HeldBan(t, b)
    BY <1>1, <1>3 DEF HeldBan
  <2>2. Agrees(HeldBan(t, b), b) /\ (SavedBan(b) > clock => SavedBan(b) = decided[b])
    BY <1>1 DEF BansInv, BansAgree
  <2>3. CASE b = a
    <3>1. SavedBan(a)' = HeldBan(t, a)
      BY <1>2, <1>4 DEF SavedBan, HeldBan
    <3>. QED BY <1>1, <2>1, <2>2, <2>3, <3>1 DEF Agrees, Settled
  <2>4. CASE b # a
    <3>1. SavedBan(b)' = SavedBan(b)
      BY <1>1, <2>4 DEF Written, SavedBan
    <3>2. Saved(t, b)' => Saved(t, b)
      BY <1>1, <1>3, <2>4 DEF Saved
    <3>. QED BY <1>1, <2>1, <2>2, <3>1, <3>2 DEF BansInv, BansAgree, Agrees, Settled, OneThread
  <2>. QED BY <2>3, <2>4
<1>. QED BY <1>5, <1>6, OneManagerBans DEF BansInv

LEMMA SaveEndKeeps ==
  ASSUME OneThread, BansInv, NEW t \in Thread, SaveEnd(t)
  PROVE  BansInv'
<1>. DEFINE m == [mem[t] EXCEPT !.pc = "work", !.dirty = FALSE]
<1>1. /\ mem' = [mem EXCEPT ![t] = m] /\ mem'[t] = m /\ UNCHANGED <<table, clock, decided>>
      /\ mem[t].pc = "save" /\ mem[t].left = {}
  BY DEF SaveEnd, BansInv, PeerTypes
<1>2. /\ IsManager(m) /\ m.peers = mem[t].peers /\ m.now = mem[t].now
  <2>1. IsManager(mem[t]) /\ mem[t].left \in SUBSET DOMAIN mem[t].peers
    BY DEF BansInv, PeerTypes, IsManager, Managers
  <2>2. m \in Managers({mem[t].peers}, SUBSET DOMAIN mem[t].peers)
    BY <2>1 DEF IsManager, Managers
  <2>3. m.pc = "work" /\ m.peers = mem[t].peers /\ m.now = mem[t].now
    BY <2>1 DEF IsManager, Managers
  <2>. HIDE DEF m
  <2>. QED BY <2>1, <2>2, <2>3 DEF IsManager
<1>. HIDE DEF m
<1>3. PeerTypes'
  BY <1>1, <1>2, SaveStepTypes DEF BansInv, PeerTypes
<1>4. ASSUME NEW a \in Address PROVE Settled(t, a)'
  <2>1. HeldBan(t, a)' = HeldBan(t, a) /\ SavedBan(a)' = SavedBan(a) /\ Saved(t, a)
    BY <1>1, <1>2 DEF HeldBan, SavedBan, Saved
  <2>. QED BY <1>1, <2>1 DEF BansInv, BansAgree, Agrees, Settled, OneThread
<1>. QED BY <1>3, <1>4, OneManagerBans DEF BansInv

LEMMA RestingTypes ==
  IsManager(Resting) /\ Resting.pc = "idle" /\ Resting.now = 0 /\ DOMAIN Resting.peers = {}
  BY DEF Resting, IsManager, Managers, IsTable, NoPeers, NoTime

LEMMA FinishKeeps ==
  ASSUME OneThread, BansInv, NEW t \in Thread, Finish(t)
  PROVE  BansInv'
<1>1. /\ mem' = [mem EXCEPT ![t] = Resting] /\ mem'[t] = Resting /\ UNCHANGED <<table, clock, decided>>
      /\ ~mem[t].dirty
  BY DEF Finish, BansInv, PeerTypes
<1>2. PeerTypes'
  BY <1>1, RestingTypes, OneManagerTypes DEF BansInv, PeerTypes
<1>3. ASSUME NEW a \in Address PROVE Settled(t, a)'
  <2>1. SavedBan(a)' = SavedBan(a) /\ Saved(t, a)
    BY <1>1 DEF SavedBan, Saved
  <2>. QED BY <1>1, <2>1, RestingTypes DEF BansInv, BansAgree, Agrees, Settled, OneThread
<1>. QED BY <1>2, <1>3, OneManagerBans DEF BansInv

(* What is forgotten was not in the table. *)
LEMMA ForgetAgrees ==
  ASSUME PeerTypes, Forget, UNCHANGED <<table, clock>>
  PROVE  /\ decided' \in [Address -> Nat]
         /\ \A a \in Address : SavedBan(a)' = decided'[a]
  BY SavedBanTypes DEF PeerTypes, Forget, SavedBan

LEMMA AbortKeeps ==
  ASSUME OneThread, BansInv, NEW t \in Thread, Abort(t)
  PROVE  BansInv'
<1>1. mem' = [mem EXCEPT ![t] = Resting] /\ mem'[t] = Resting /\ UNCHANGED <<table, clock>> /\ Forget
  BY DEF Abort, BansInv, PeerTypes
<1>2. PeerTypes'
  BY <1>1, RestingTypes, ForgetAgrees, OneManagerTypes DEF BansInv, PeerTypes
<1>3. ASSUME NEW a \in Address PROVE Settled(t, a)'
  BY <1>1, RestingTypes, ForgetAgrees DEF BansInv, Agrees, Settled
<1>. QED BY <1>2, <1>3, OneManagerBans DEF BansInv

LEMMA CrashKeeps ==
  ASSUME BansInv, Crash
  PROVE  BansInv'
<1>1. mem' = [t \in Thread |-> Resting] /\ UNCHANGED <<table, clock>> /\ Forget
  BY DEF Crash
<1>2. PeerTypes'
  BY <1>1, RestingTypes, ForgetAgrees DEF BansInv, PeerTypes
<1>3. BansAgree'
  BY <1>1, RestingTypes, ForgetAgrees DEF BansInv, BansAgree, Agrees
<1>. QED BY <1>2, <1>3 DEF BansInv

LEMMA AdvanceKeeps ==
  ASSUME BansInv, Advance
  PROVE  BansInv'
<1>1. clock' = clock + 1 /\ clock < MaxClock /\ UNCHANGED <<table, mem, decided>>
  BY DEF Advance
<1>2. PeerTypes'
  <2>1. clock' \in 1 .. MaxClock /\ clock <= clock'
    BY <1>1, TimeAssumption DEF BansInv, PeerTypes
  <2>2. ASSUME NEW t \in Thread PROVE IsManager(mem'[t]) /\ mem'[t].now <= clock'
    BY <1>1, <2>1 DEF BansInv, PeerTypes, IsManager, Managers
  <2>. QED BY <1>1, <2>1, <2>2 DEF BansInv, PeerTypes
<1>3. ASSUME NEW ban \in Nat, NEW a \in Address, Agrees(ban, a) PROVE Agrees(ban, a)'
  BY <1>1, <1>3 DEF BansInv, PeerTypes, Agrees
<1>4. ASSUME NEW a \in Address
      PROVE  /\ (SavedBan(a) > clock => SavedBan(a) = decided[a])'
             /\ \A t \in Thread : (mem[t].pc # "idle" => Agrees(HeldBan(t, a), a))'
             /\ ((\A t \in Thread : Saved(t, a)) => Agrees(SavedBan(a), a))'
  <2>1. /\ SavedBan(a)' = SavedBan(a) /\ SavedBan(a) \in Nat
        /\ \A t \in Thread : /\ HeldBan(t, a)' = HeldBan(t, a) /\ HeldBan(t, a) \in Nat
                             /\ Saved(t, a)' <=> Saved(t, a)
    BY <1>1, SavedBanTypes, HeldBanTypes DEF BansInv, PeerTypes, SavedBan, HeldBan, Saved
  <2>2. SavedBan(a) > clock' => SavedBan(a) > clock
    BY <1>1, <2>1 DEF BansInv, PeerTypes
  <2>. QED BY <1>1, <1>3, <2>1, <2>2 DEF BansInv, BansAgree, Agrees
<1>. QED BY <1>2, <1>4 DEF BansInv, BansAgree

-----------------------------------------------------------------------------
LEMMA InitBansInv == Init => BansInv
<1>. SUFFICES ASSUME Init PROVE BansInv
  OBVIOUS
<1>1. IsTable(table) /\ clock = 1 /\ mem = [t \in Thread |-> Resting]
  BY TableAssumption DEF Init
<1>2. decided \in [Address -> Nat] /\ \A a \in Address : decided[a] = SavedBan(a)
  BY <1>1, SavedBanTypes DEF Init
<1>3. PeerTypes
  BY <1>1, <1>2, RestingTypes, TimeAssumption DEF PeerTypes
<1>4. BansAgree
  BY <1>1, <1>2, RestingTypes DEF BansAgree, Agrees
<1>. QED BY <1>3, <1>4 DEF BansInv

(* What a thread does until it saves. *)
LEMMA WorkKeeps ==
  ASSUME OneThread, BansInv, NEW t \in Thread, Work(t)
  PROVE  BansInv'
<1>1. IsTable(mem[t].peers) /\ mem[t].now \in Nat
  BY DEF BansInv, PeerTypes, IsManager, Managers
<1>2. ASSUME NEW as \in SUBSET Address, Seed(t, as) PROVE BansInv'
  BY <1>1, <1>2, SeedsKeepBans, QuietRecord DEF Seed
<1>3. ASSUME NEW a \in Address, Succeed(t, a) PROVE BansInv'
  BY <1>1, <1>3, EventsKeepBans, QuietRecord, HeightAssumption DEF Succeed, Unbanned
<1>4. ASSUME NEW a \in Address, FailTransiently(t, a) PROVE BansInv'
  BY <1>1, <1>4, EventsKeepBans, QuietRecord DEF FailTransiently, Unbanned
<1>5. ASSUME NEW a \in Address, Observe(t, a) PROVE BansInv'
  BY <1>1, <1>5, EventsKeepBans, QuietRecord, HeightAssumption DEF Observe, Unbanned
<1>6. ASSUME NEW a \in Address, SendStaleTip(t, a) PROVE BansInv'
  BY <1>1, <1>6, EventsKeepBans, QuietRecord DEF SendStaleTip, Unbanned
<1>. QED BY <1>2, <1>3, <1>4, <1>5, <1>6, LoadKeeps, MalformedKeeps DEF Work

LEMMA SaveKeeps ==
  ASSUME OneThread, BansInv, NEW t \in Thread, Save(t)
  PROVE  BansInv'
  BY SaveBeginKeeps, SaveRowKeeps, SaveEndKeeps, FinishKeeps, AbortKeeps DEF Save

LEMMA StutterKeeps ==
  ASSUME BansInv, UNCHANGED vars
  PROVE  BansInv'
  BY DEF vars, BansInv, PeerTypes, BansAgree, Agrees, SavedBan, HeldBan, Saved, IsManager, Managers

(* For a process that runs one tick at a time, a ban that is not over, in  *)
(* the table or in a manager, is the one that was decided, and a row that  *)
(* save_manager has written agrees with its manager, whatever is loaded,   *)
(* refreshed, saved, interrupted or lost.                                  *)
THEOREM BansInvariant ==
  ASSUME OneThread
  PROVE  Spec => []BansInv
<1>1. BansInv /\ [Next]_vars => BansInv'
  BY WorkKeeps, SaveKeeps, CrashKeeps, AdvanceKeeps, StutterKeeps DEF Next
<1>. QED BY InitBansInv, <1>1, PTL DEF Spec

(* A peer that sent malformed consensus data stays banned until the ban    *)
(* ends, through ticks, saves, storage errors and crashes, however many    *)
(* addresses and events there are (record_malformed, save_manager,         *)
(* load_manager).                                                          *)
THEOREM MalformedStaysBanned ==
  ASSUME OneThread
  PROVE  Spec => []BansAreKept
<1>1. BansInv => BansAreKept
  <2>. SUFFICES ASSUME BansInv, NEW a \in Address, decided[a] > clock
                PROVE  \/ a \in DOMAIN table /\ table[a].banned = decided[a]
                       \/ \E t \in Thread :
                            mem[t].dirty /\ a \in DOMAIN mem[t].peers /\ mem[t].peers[a].banned = decided[a]
    BY DEF BansAreKept
  <2>1. decided[a] # NoTime
    BY DEF BansInv, PeerTypes, NoTime
  <2>2. CASE SavedBan(a) = decided[a]
    BY <2>1, <2>2 DEF SavedBan
  <2>3. CASE SavedBan(a) # decided[a]
    <3>1. PICK t \in Thread : ~Saved(t, a)
      BY <2>3 DEF BansInv, BansAgree, Agrees
    <3>2. mem[t].pc # "idle" /\ mem[t].dirty /\ HeldBan(t, a) = decided[a]
      BY <3>1 DEF Saved, BansInv, BansAgree, Agrees
    <3>. QED BY <2>1, <3>2 DEF HeldBan
  <2>. QED BY <2>2, <2>3
<1>. QED BY <1>1, BansInvariant, PTL

(* No ban in force is one that was not decided for malformed data: no sum  *)
(* of transient failures, stale pages or restored records bans a peer      *)
(* (penalize, row_to_peer_state).                                          *)
THEOREM OnlyMalformedDataBans ==
  ASSUME OneThread
  PROVE  Spec => []OnlyMalformedBans
<1>1. BansInv => OnlyMalformedBans
  <2>. SUFFICES ASSUME BansInv, NEW t \in Thread, NEW a \in DOMAIN mem[t].peers,
                       mem[t].peers[a].banned > clock
                PROVE  decided[a] >= mem[t].peers[a].banned
    BY DEF OnlyMalformedBans
  <2>1. a \in Address /\ HeldBan(t, a) = mem[t].peers[a].banned /\ HeldBan(t, a) \in Nat
    BY HeldBanTypes DEF BansInv, PeerTypes, IsManager, IsTable, HeldBan
  <2>2. mem[t].pc # "idle"
    BY DEF BansInv, PeerTypes, IsManager
  <2>. QED BY <2>1, <2>2 DEF BansInv, PeerTypes, BansAgree, Agrees
<1>. QED BY <1>1, BansInvariant, PTL
=============================================================================
