------------------------------ MODULE PeerRules ------------------------------
(***************************************************************************)
(* The peer records of rust/crates/hns-p2p: what PeerManager writes down   *)
(* about a peer after each event, and whom it picks to connect to.  No     *)
(* state of its own: PeerTable and HeaderSync keep the records.            *)
(***************************************************************************)
EXTENDS Integers, Sequences, FiniteSets

CONSTANTS
  Address,         \* socket addresses; naturals, in the order of SocketAddr
  Group,           \* PeerAddressGroup::from_socket_addr of each address
  BanScore,        \* BAN_SCORE
  MalformedScore,  \* MALFORMED_SCORE
  StaleScore,      \* STALE_TIP_SCORE
  TransientScore,  \* TRANSIENT_FAILURE_SCORE
  SuccessReward,   \* SUCCESS_REWARD
  MaxScore,        \* i32::MAX, where scores saturate
  MaxCount         \* u32::MAX, where counters saturate

ASSUME AddressAssumption == Address \subseteq Nat /\ IsFiniteSet(Address)
ASSUME ScoreAssumption ==
  /\ BanScore \in Nat \ {0} /\ MaxScore \in Nat /\ MaxCount \in Nat
  /\ StaleScore \in Nat /\ TransientScore \in Nat /\ SuccessReward \in Nat
  /\ MalformedScore \in Nat /\ BanScore <= MalformedScore /\ BanScore <= MaxScore

NoTime == 0

PeerState == [score : Nat, height : Nat, seen : Nat, banned : Nat, successes : Nat]
IsTable(rows) == DOMAIN rows \subseteq Address /\ rows \in [DOMAIN rows -> PeerState]
NewPeer == [score |-> 0, height |-> 0, seen |-> NoTime, banned |-> NoTime, successes |-> 0]

IsBanned(s, now) == s.banned > now

Saturating(n, limit) == IF n > limit THEN limit ELSE n

(* Mutation of Upsert: an address that is named again starts afresh. *)
UpsertFresh(peers, as) ==
  [a \in DOMAIN peers \cup as |-> IF a \in as THEN NewPeer ELSE peers[a]]

(* PeerManager.upsert and seed: an unknown address starts a fresh record. *)
Upsert(peers, as) ==
  [a \in DOMAIN peers \cup as |-> IF a \in DOMAIN peers THEN peers[a] ELSE NewPeer]

-----------------------------------------------------------------------------

Rewarded(score) == IF score < SuccessReward THEN 0 ELSE score - SuccessReward

RecordSuccess(peers, a, height, now) ==
  [Upsert(peers, {a}) EXCEPT ![a].score = Rewarded(@),
                             ![a].height = height,
                             ![a].seen = now,
                             ![a].successes = Saturating(@ + 1, MaxCount)]

RecordObservedHeight(peers, a, height, now) ==
  [Upsert(peers, {a}) EXCEPT ![a].height = height, ![a].seen = now]

RecordTransientFailure(peers, a) ==
  [Upsert(peers, {a}) EXCEPT ![a].score = Saturating(@ + TransientScore, MaxScore)]

(* Mutation of Penalize: any penalty may ban. *)
PenalizeAndBan(s, points, until) ==
  LET score == Saturating(s.score + points, MaxScore)
  IN [s EXCEPT !.score = score,
               !.banned = IF score >= BanScore
                          THEN (IF until = NoTime THEN 2 ELSE until)
                          ELSE @]

(* A penalty bans only when it carries a time and the score has reached    *)
(* BanScore.                                                               *)
Penalize(s, points, until) ==
  LET score == Saturating(s.score + points, MaxScore)
  IN [s EXCEPT !.score = score,
               !.banned = IF score >= BanScore /\ until # NoTime THEN until ELSE @]

RecordStaleTip(peers, a) ==
  [Upsert(peers, {a}) EXCEPT ![a] = Penalize(@, StaleScore, NoTime)]

RecordMalformed(peers, a, now, banSeconds) ==
  [Upsert(peers, {a}) EXCEPT ![a] = Penalize(@, MalformedScore, now + banSeconds)]

-----------------------------------------------------------------------------
(* Selection: sort by preference, take the first of every address group,   *)
(* then fill up with the others.  An order is a set of pairs.              *)
Sorted(S, order) ==
  [i \in 1 .. Cardinality(S) |->
     CHOOSE a \in S : Cardinality({b \in S : <<b, a>> \in order}) = i - 1]

Take(n, s) == SubSeq(s, 1, IF n < Len(s) THEN n ELSE Len(s))

FirstOfGroup(a, S, order) == \A b \in S : <<b, a>> \in order => Group[b] # Group[a]

FirstsSooner(S, order) ==
  {p \in S \X S : IF FirstOfGroup(p[1], S, order) <=> FirstOfGroup(p[2], S, order)
                  THEN p \in order
                  ELSE FirstOfGroup(p[1], S, order)}

Diverse(S, n, order) == Take(n, Sorted(S, FirstsSooner(S, order)))

Unbanned(peers, now) == {a \in DOMAIN peers : ~IsBanned(peers[a], now)}

(* Mutation of Preferred: the higher claimed height counts first. *)
PreferredByHeight(peers, a, b) ==
  \/ peers[a].height > peers[b].height
  \/ /\ peers[a].height = peers[b].height
     /\ \/ peers[a].score < peers[b].score
        \/ peers[a].score = peers[b].score /\ a < b

(* Lower score first, then the higher claimed height, then the address. *)
Preferred(peers, a, b) ==
  \/ peers[a].score < peers[b].score
  \/ /\ peers[a].score = peers[b].score
     /\ \/ peers[a].height > peers[b].height
        \/ peers[a].height = peers[b].height /\ a < b

Preference(S, peers) == {p \in S \X S : Preferred(peers, p[1], p[2])}

(* Mutation of SelectOutbound: the group pass is missing. *)
SelectCrowded(peers, n, now) ==
  LET S == Unbanned(peers, now) IN Take(n, Sorted(S, Preference(S, peers)))

SelectOutbound(peers, n, now) ==
  LET S == Unbanned(peers, now) IN Diverse(S, n, Preference(S, peers))

(* Fewer successes first, then the lower score, the longer unseen, the     *)
(* higher height and the address.                                          *)
LessKnown(peers, a, b) ==
  LET p == peers[a]
      q == peers[b]
  IN \/ p.successes < q.successes
     \/ p.successes = q.successes /\ p.score < q.score
     \/ p.successes = q.successes /\ p.score = q.score /\ p.seen < q.seen
     \/ /\ p.successes = q.successes /\ p.score = q.score /\ p.seen = q.seen
        /\ (p.height > q.height \/ (p.height = q.height /\ a < b))

LessKnownFirst(S, peers) == {p \in S \X S : LessKnown(peers, p[1], p[2])}

SelectDiscoveryOutbound(peers, n, now, exclude) ==
  LET S == Unbanned(peers, now) \ exclude IN Diverse(S, n, LessKnownFirst(S, peers))

-----------------------------------------------------------------------------
(* What the selections promise of the records of one manager. *)
Picked(s) == {s[i] : i \in DOMAIN s}
Groups(as) == {Group[a] : a \in as}
AtMost(n, S) == IF Cardinality(S) < n THEN Cardinality(S) ELSE n

(* n outbound peers, all of them distinct, known and not banned, as many   *)
(* as there are up to n, from as many address groups as n allows           *)
(* ("peer diversity").                                                     *)
WellSelected(s, n, from) ==
  /\ Picked(s) \subseteq from
  /\ Len(s) = AtMost(n, from)
  /\ Cardinality(Picked(s)) = Len(s)
  /\ Cardinality(Groups(Picked(s))) = AtMost(n, Groups(from))

SelectsSpread(peers, now) ==
  \A n \in 0 .. Cardinality(Address) :
    /\ WellSelected(SelectOutbound(peers, n, now), n, Unbanned(peers, now))
    /\ \A a \in Address :
         WellSelected(SelectDiscoveryOutbound(peers, n, now, {a}), n,
                      Unbanned(peers, now) \ {a})

(* Of one address group the peer with the lower score is selected first,   *)
(* and no peer of a group already served is selected while another group   *)
(* has none.                                                               *)
FailedMakeWay(peers, now) ==
  \A n \in 1 .. Cardinality(Address) :
    LET s == SelectOutbound(peers, n, now)
    IN \A i \in DOMAIN s : \A b \in Unbanned(peers, now) \ Picked(SubSeq(s, 1, i)) :
         IF Group[b] = Group[s[i]]
         THEN peers[b].score >= peers[s[i]].score
         ELSE Group[b] \in Groups(Picked(s)) \/ Group[s[i]] \notin Groups(Picked(SubSeq(s, 1, i - 1)))
=============================================================================
