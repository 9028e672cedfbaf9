--------------------------- MODULE PeerRulesProofs ---------------------------
(***************************************************************************)
(* Proofs about the peer records, for every table of finitely many         *)
(* addresses: what the selections promise holds of whatever events and     *)
(* earlier versions have left in it, and no event but malformed data       *)
(* changes a ban.                                                          *)
(***************************************************************************)
EXTENDS PeerRules, TLAPS, FiniteSetTheorems

-----------------------------------------------------------------------------
(* Sorting a finite set by a strict order of its elements. *)
StrictOrder(S, R) ==
  /\ R \subseteq S \X S
  /\ \A a \in S : <<a, a>> \notin R
  /\ \A a, b \in S : a = b \/ <<a, b>> \in R \/ <<b, a>> \in R
  /\ \A a, b, c \in S : <<a, b>> \in R /\ <<b, c>> \in R => <<a, c>> \in R

Rank(S, R, a) == Cardinality({b \in S : <<b, a>> \in R})

LEMMA RankFacts ==
  ASSUME NEW S, IsFiniteSet(S), NEW R, StrictOrder(S, R)
  PROVE  /\ Cardinality(S) \in Nat
         /\ \A a \in S : Rank(S, R, a) \in 0 .. (Cardinality(S) - 1)
         /\ \A a, b \in S : <<a, b>> \in R <=> Rank(S, R, a) < Rank(S, R, b)
<1>1. ASSUME NEW a \in S
      PROVE  LET B == {b \in S : <<b, a>> \in R}
             IN /\ IsFiniteSet(B) /\ Rank(S, R, a) = Cardinality(B) /\ Cardinality(B) \in Nat
                /\ Cardinality(B \cup {a}) = Rank(S, R, a) + 1
                /\ B \cup {a} \in SUBSET S
  <2>. DEFINE B == {b \in S : <<b, a>> \in R}
  <2>1. B \in SUBSET S /\ a \notin B
    BY DEF StrictOrder
  <2>2. Rank(S, R, a) = Cardinality(B)
    BY DEF Rank
  <2>. HIDE DEF B
  <2>3. IsFiniteSet(B)
    BY <2>1, FS_Subset
  <2>4. Cardinality(B \cup {a}) = Cardinality(B) + 1 /\ Cardinality(B) \in Nat
    BY <2>1, <2>3, FS_AddElement, FS_CardinalityType
  <2>. QED BY <2>1, <2>2, <2>3, <2>4 DEF B
<1>2. Cardinality(S) \in Nat
  BY FS_CardinalityType
<1>3. ASSUME NEW a \in S PROVE Rank(S, R, a) \in 0 .. (Cardinality(S) - 1)
  <2>. DEFINE B == {b \in S : <<b, a>> \in R}
  <2>1. /\ Rank(S, R, a) \in Nat /\ Cardinality(B \cup {a}) = Rank(S, R, a) + 1
        /\ B \cup {a} \in SUBSET S
    BY <1>1
  <2>. HIDE DEF B
  <2>2. Cardinality(B \cup {a}) <= Cardinality(S)
    BY <2>1, FS_Subset
  <2>. QED BY <1>2, <2>1, <2>2
<1>4. ASSUME NEW a \in S, NEW b \in S, <<a, b>> \in R PROVE Rank(S, R, a) < Rank(S, R, b)
  <2>. DEFINE A == {c \in S : <<c, a>> \in R}
              B == {c \in S : <<c, b>> \in R}
  <2>1. /\ Rank(S, R, a) \in Nat /\ Cardinality(A \cup {a}) = Rank(S, R, a) + 1
        /\ Rank(S, R, b) \in Nat /\ Cardinality(B) = Rank(S, R, b) /\ IsFiniteSet(B)
    BY <1>1
  <2>2. A \cup {a} \in SUBSET B
    BY <1>4 DEF StrictOrder
  <2>. HIDE DEF A, B
  <2>3. Cardinality(A \cup {a}) <= Cardinality(B)
    BY <2>1, <2>2, FS_Subset
  <2>. QED BY <2>1, <2>3
<1>5. ASSUME NEW a \in S, NEW b \in S, Rank(S, R, a) < Rank(S, R, b) PROVE <<a, b>> \in R
  <2>1. Rank(S, R, a) \in Nat /\ Rank(S, R, b) \in Nat
    BY <1>1
  <2>2. a # b /\ <<b, a>> \notin R
    BY <1>4, <1>5, <2>1
  <2>. QED BY <2>2 DEF StrictOrder
<1>. QED BY <1>2, <1>3, <1>4, <1>5

LEMMA SortedFacts ==
  ASSUME NEW S, IsFiniteSet(S), NEW R, StrictOrder(S, R)
  PROVE  LET s == Sorted(S, R)
             n == Cardinality(S)
         IN /\ n \in Nat
            /\ s \in [1 .. n -> S]
            /\ \A i, j \in 1 .. n : i < j <=> <<s[i], s[j]>> \in R
            /\ \A a \in S : \E i \in 1 .. n : s[i] = a
<1>. DEFINE n == Cardinality(S)
            s == Sorted(S, R)
            f == [a \in S |-> Rank(S, R, a)]
            T == {f[a] : a \in S}
<1>1. /\ n \in Nat
      /\ \A a \in S : f[a] \in 0 .. (n - 1)
      /\ \A a, b \in S : <<a, b>> \in R <=> f[a] < f[b]
  BY RankFacts
<1>2. \A a, b \in S : f[a] = f[b] => a = b
  <2>1. SUFFICES ASSUME NEW a \in S, NEW b \in S, f[a] = f[b], a # b PROVE FALSE
    OBVIOUS
  <2>2. f[a] \in Nat /\ f[b] \in Nat /\ (f[a] < f[b] \/ f[b] < f[a])
    BY <1>1, <2>1 DEF StrictOrder
  <2>. QED BY <2>1, <2>2
<1>3. T = 0 .. (n - 1)
  <2>1. f \in Bijection(S, T)
    <3>1. f \in [S -> T]
      OBVIOUS
    <3>2. f \in Injection(S, T) /\ f \in Surjection(S, T)
      BY <1>2, <3>1 DEF Injection, IsInjective, Surjection
    <3>. QED BY <3>2 DEF Bijection
  <2>2. T \in SUBSET (0 .. (n - 1))
    BY <1>1
  <2>. HIDE DEF T, f
  <2>3. Cardinality(T) = n
    BY <2>1, FS_Bijection DEF ExistsBijection
  <2>4. IsFiniteSet(0 .. (n - 1)) /\ Cardinality(0 .. (n - 1)) = n
    <3>1. 0 \in Int /\ n - 1 \in Int
      BY <1>1
    <3>2. Cardinality(0 .. (n - 1)) = IF 0 > n - 1 THEN 0 ELSE (n - 1) - 0 + 1
      BY <3>1, FS_Interval
    <3>. HIDE DEF n
    <3>. QED BY <1>1, <3>1, <3>2, FS_Interval
  <2>. QED BY <2>2, <2>3, <2>4, FS_Subset
<1>4. ASSUME NEW i \in 1 .. n PROVE s[i] \in S /\ f[s[i]] = i - 1
  <2>1. i - 1 \in 0 .. (n - 1)
    BY <1>1
  <2>2. PICK a \in S : f[a] = i - 1
    <3>1. i - 1 \in T
      BY <1>3, <2>1
    <3>. QED BY <3>1
  <2>3. s[i] = CHOOSE b \in S : Cardinality({c \in S : <<c, b>> \in R}) = i - 1
    BY DEF Sorted
  <2>4. \E b \in S : Cardinality({c \in S : <<c, b>> \in R}) = i - 1
    BY <2>2 DEF Rank
  <2>. QED BY <2>3, <2>4 DEF Rank
<1>5. s \in [1 .. n -> S]
  BY <1>4 DEF Sorted
<1>6. ASSUME NEW i \in 1 .. n, NEW j \in 1 .. n PROVE i < j <=> <<s[i], s[j]>> \in R
  <2>. HIDE DEF f, s, n
  <2>1. i \in Nat /\ j \in Nat
    BY <1>1
  <2>. QED BY <1>1, <1>4, <2>1
<1>7. ASSUME NEW a \in S PROVE \E i \in 1 .. n : s[i] = a
  <2>1. f[a] \in 0 .. (n - 1)
    BY <1>1
  <2>. HIDE DEF f, s, n
  <2>2. f[a] + 1 \in 1 .. n /\ (f[a] + 1) - 1 = f[a]
    BY <1>1, <2>1
  <2>. QED BY <1>2, <1>4, <2>2
<1>. HIDE DEF s, n
<1>. QED BY <1>1, <1>5, <1>6, <1>7 DEF s, n

-----------------------------------------------------------------------------
(* The first of every group, then the others: an order again. *)
Firsts(S, R) == {a \in S : FirstOfGroup(a, S, R)}

LEMMA SoonerFacts ==
  ASSUME NEW S, NEW R
  PROVE  \A a, b \in S :
           <<a, b>> \in FirstsSooner(S, R) <=>
             \/ a \in Firsts(S, R) /\ b \notin Firsts(S, R)
             \/ <<a, b>> \in R /\ (a \in Firsts(S, R) <=> b \in Firsts(S, R))
  BY DEF FirstsSooner, Firsts

LEMMA SoonerIsOrder ==
  ASSUME NEW S, NEW R, StrictOrder(S, R)
  PROVE  StrictOrder(S, FirstsSooner(S, R))
<1>. DEFINE F == Firsts(S, R)
            Q == FirstsSooner(S, R)
<1>1. F \subseteq S
  BY DEF Firsts, FirstOfGroup
<1>2. \A a, b \in S :
        <<a, b>> \in Q <=> (a \in F /\ b \notin F) \/ (<<a, b>> \in R /\ (a \in F <=> b \in F))
  BY SoonerFacts
<1>3. Q \subseteq S \X S
  BY <1>1 DEF FirstsSooner, StrictOrder
<1>. HIDE DEF F, Q
<1>4. /\ \A a \in S : <<a, a>> \notin R
      /\ \A a, b \in S : a = b \/ <<a, b>> \in R \/ <<b, a>> \in R
      /\ \A a, b, c \in S : <<a, b>> \in R /\ <<b, c>> \in R => <<a, c>> \in R
  BY DEF StrictOrder
<1>5. \A a \in S : <<a, a>> \notin Q
  BY <1>2, <1>4
<1>6. \A a, b \in S : a = b \/ <<a, b>> \in Q \/ <<b, a>> \in Q
  BY <1>2, <1>4
<1>7. \A a, b, c \in S : <<a, b>> \in Q /\ <<b, c>> \in Q => <<a, c>> \in Q
  BY <1>2, <1>4
<1>. QED BY <1>3, <1>5, <1>6, <1>7 DEF StrictOrder, Q

(* Every group has exactly one first. *)
LEMMA FirstsOfGroups ==
  ASSUME NEW S, IsFiniteSet(S), NEW R, StrictOrder(S, R)
  PROVE  /\ \A a \in S : \E b \in Firsts(S, R) : Group[b] = Group[a]
         /\ \A a, b \in Firsts(S, R) : Group[a] = Group[b] => a = b
<1>1. ASSUME NEW a \in S PROVE \E b \in Firsts(S, R) : Group[b] = Group[a]
  <2>. DEFINE Ranks == {Rank(S, R, b) : b \in {c \in S : Group[c] = Group[a]}}
  <2>1. Ranks # {} /\ Ranks \in SUBSET Nat
    BY RankFacts
  <2>2. PICK k \in Ranks : \A m \in Ranks : ~(<<m, k>> \in OpToRel(<, Nat))
    <3>. HIDE DEF Ranks
    <3>. QED BY <2>1, NatLessThanWellFounded, WFMin
  <2>3. PICK b \in S : Group[b] = Group[a] /\ k = Rank(S, R, b)
    OBVIOUS
  <2>4. ASSUME NEW c \in S, <<c, b>> \in R PROVE Group[c] # Group[b]
    <3>1. SUFFICES ASSUME Group[c] = Group[a] PROVE FALSE
      BY <2>3
    <3>2. Rank(S, R, c) \in Ranks
      BY <3>1
    <3>3. Rank(S, R, c) < k
      BY <2>3, <2>4, RankFacts
    <3>4. ~(Rank(S, R, c) < k)
      <4>. HIDE DEF Ranks
      <4>. QED BY <2>1, <2>2, <3>2 DEF OpToRel
    <3>. QED BY <3>3, <3>4
  <2>. QED BY <2>3, <2>4 DEF Firsts, FirstOfGroup
<1>2. ASSUME NEW a \in Firsts(S, R), NEW b \in Firsts(S, R), Group[a] = Group[b]
      PROVE  a = b
  BY <1>2 DEF Firsts, FirstOfGroup, StrictOrder
<1>. QED BY <1>1, <1>2

(* What a selection is: the n soonest, in their order. *)
LEMMA DiverseFacts ==
  ASSUME NEW S, IsFiniteSet(S), NEW R, StrictOrder(S, R), NEW n \in Nat
  PROVE  LET s == Diverse(S, n, R)
             all == Sorted(S, FirstsSooner(S, R))
         IN /\ AtMost(n, S) \in 0 .. Cardinality(S) /\ Cardinality(S) \in Nat
            /\ s \in [1 .. AtMost(n, S) -> S] /\ Len(s) = AtMost(n, S)
            /\ \A i \in 1 .. AtMost(n, S) : s[i] = all[i]
<1>. DEFINE all == Sorted(S, FirstsSooner(S, R))
            c == Cardinality(S)
            k == AtMost(n, S)
<1>1. c \in Nat /\ all \in [1 .. c -> S]
  BY SoonerIsOrder, SortedFacts
<1>2. Len(all) = c /\ all \in Seq(S)
  <2>. HIDE DEF all, c
  <2>. QED BY <1>1
<1>3. k = (IF n < c THEN n ELSE c) /\ k \in 0 .. c
  BY <1>1 DEF AtMost
<1>4. Diverse(S, n, R) = SubSeq(all, 1, k)
  BY <1>2, <1>3 DEF Diverse, Take
<1>. HIDE DEF all, c, k
<1>5. SubSeq(all, 1, k) = [i \in 1 .. k |-> all[i]]
  BY <1>1, <1>2, <1>3
<1>6. /\ Diverse(S, n, R) \in [1 .. k -> S] /\ Len(Diverse(S, n, R)) = k
      /\ \A i \in 1 .. k : Diverse(S, n, R)[i] = all[i]
  <2>1. \A i \in 1 .. k : all[i] \in S
    BY <1>1, <1>3
  <2>2. k \in Nat
    BY <1>1, <1>3
  <2>3. PICK d : d = Diverse(S, n, R)
    OBVIOUS
  <2>4. d = [i \in 1 .. k |-> all[i]]
    BY <1>4, <1>5, <2>3
  <2>5. d \in [1 .. k -> S] /\ Len(d) = k
    BY <2>1, <2>2, <2>4
  <2>6. \A i \in 1 .. k : d[i] = all[i]
    BY <2>4
  <2>. QED BY <2>3, <2>5, <2>6
<1>. QED BY <1>1, <1>3, <1>6 DEF all, c, k

(* The firsts of the groups fill the beginning of the order. *)
LEMMA FirstsComeFirst ==
  ASSUME NEW S, IsFiniteSet(S), NEW R, StrictOrder(S, R)
  PROVE  LET F == Firsts(S, R)
             all == Sorted(S, FirstsSooner(S, R))
         IN \A i, j \in 1 .. Cardinality(S) : all[j] \in F /\ i <= j => all[i] \in F
<1>. DEFINE F == Firsts(S, R)
            Q == FirstsSooner(S, R)
            all == Sorted(S, Q)
            c == Cardinality(S)
<1>1. /\ c \in Nat /\ all \in [1 .. c -> S]
      /\ \A i, j \in 1 .. c : i < j <=> <<all[i], all[j]>> \in Q
  BY SoonerIsOrder, SortedFacts
<1>2. \A a, b \in S : <<a, b>> \in Q /\ b \in F => a \in F
  BY DEF FirstsSooner, Firsts, FirstOfGroup
<1>. HIDE DEF F, Q, all, c
<1>3. ASSUME NEW i \in 1 .. c, NEW j \in 1 .. c, all[j] \in F, i <= j PROVE all[i] \in F
  <2>1. CASE i = j
    BY <1>3, <2>1
  <2>2. CASE i < j
    BY <1>1, <1>2, <1>3, <2>2
  <2>. QED BY <1>1, <1>3, <2>1, <2>2
<1>. QED BY <1>3 DEF F, Q, all, c

Soonest(s, k) == {s[i] : i \in 1 .. k}
Distinct(s, c) == \A i, j \in 1 .. c : s[i] = s[j] => i = j

LEMMA PrefixSize ==
  ASSUME NEW S, NEW c \in Nat, NEW s \in [1 .. c -> S], Distinct(s, c),
         NEW k \in 0 .. c
  PROVE  IsFiniteSet(Soonest(s, k)) /\ Cardinality(Soonest(s, k)) = k
<1>. DEFINE T == {s[i] : i \in 1 .. k}
            f == [i \in 1 .. k |-> s[i]]
<1>1. f \in Bijection(1 .. k, T)
  <2>1. f \in [1 .. k -> T]
    OBVIOUS
  <2>2. \A i, j \in 1 .. k : f[i] = f[j] => i = j
    BY DEF Distinct
  <2>. QED BY <2>1, <2>2 DEF Bijection, Injection, IsInjective, Surjection
<1>. HIDE DEF T, f
<1>2. k \in Nat /\ IsFiniteSet(1 .. k)
  BY FS_Interval
<1>3. Cardinality(T) = k /\ IsFiniteSet(T)
  BY <1>1, <1>2, FS_CountingElements, FS_Bijection DEF ExistsBijection
<1>. QED BY <1>3 DEF T, Soonest

(* Of peers of different groups there are as many as there are groups.     *)
LEMMA GroupsCount ==
  ASSUME NEW T, IsFiniteSet(T), \A a, b \in T : Group[a] = Group[b] => a = b
  PROVE  Cardinality(Groups(T)) = Cardinality(T) /\ IsFiniteSet(Groups(T))
<1>. DEFINE f == [a \in T |-> Group[a]]
<1>1. f \in Bijection(T, Groups(T))
  <2>1. f \in [T -> Groups(T)]
    BY DEF Groups
  <2>2. \A g \in Groups(T) : \E a \in T : f[a] = g
    BY DEF Groups
  <2>3. \A a, b \in T : f[a] = f[b] => a = b
    OBVIOUS
  <2>. QED BY <2>1, <2>2, <2>3 DEF Bijection, Injection, IsInjective, Surjection
<1>. QED BY <1>1, FS_Bijection DEF ExistsBijection

(* A selection is well chosen, whatever the order of preference is. *)
LEMMA DiverseIsWellSelected ==
  ASSUME NEW S, IsFiniteSet(S), NEW R, StrictOrder(S, R), NEW n \in Nat
  PROVE  WellSelected(Diverse(S, n, R), n, S)
<1>. DEFINE F == Firsts(S, R)
            Q == FirstsSooner(S, R)
            all == Sorted(S, Q)
            c == Cardinality(S)
            s == Diverse(S, n, R)
            k == AtMost(n, S)
<1>1. /\ c \in Nat /\ all \in [1 .. c -> S]
      /\ \A i, j \in 1 .. c : i < j <=> <<all[i], all[j]>> \in Q
      /\ \A a \in S : \E i \in 1 .. c : all[i] = a
      /\ \A a \in S : <<a, a>> \notin Q
  BY SoonerIsOrder, SortedFacts DEF StrictOrder
<1>2. /\ k \in 0 .. c /\ s \in [1 .. k -> S] /\ Len(s) = k
      /\ \A i \in 1 .. k : s[i] = all[i]
  BY DiverseFacts
<1>3. k = IF c < n THEN c ELSE n
  BY DEF AtMost
<1>4. \A i, j \in 1 .. c : all[i] \in F /\ j <= i => all[j] \in F
  BY FirstsComeFirst
<1>5. /\ \A a \in S : \E b \in F : Group[b] = Group[a]
      /\ \A a, b \in F : Group[a] = Group[b] => a = b
      /\ F \subseteq S
  BY FirstsOfGroups DEF Firsts, FirstOfGroup
<1>6. Picked(s) = {s[i] : i \in 1 .. k}
  BY <1>2 DEF Picked
<1>. HIDE DEF F, Q, all, c, s, k
<1>7. Picked(s) \in SUBSET S
  BY <1>2, <1>6
<1>8. \A i, j \in 1 .. k : s[i] = s[j] => i = j
  <2>1. SUFFICES ASSUME NEW i \in 1 .. k, NEW j \in 1 .. k, s[i] = s[j], i # j PROVE FALSE
    OBVIOUS
  <2>2. i \in 1 .. c /\ j \in 1 .. c /\ i \in Nat /\ j \in Nat
    BY <1>1, <1>2
  <2>3. all[i] = all[j] /\ all[i] \in S
    BY <1>1, <1>2, <2>1, <2>2
  <2>4. <<all[i], all[j]>> \in Q \/ <<all[j], all[i]>> \in Q
    BY <1>1, <2>1, <2>2
  <2>. QED BY <1>1, <2>3, <2>4
<1>9. \A i \in 0 .. c : IsFiniteSet(Soonest(all, i)) /\ Cardinality(Soonest(all, i)) = i
  <2>1. Distinct(all, c)
    <3>1. SUFFICES ASSUME NEW i \in 1 .. c, NEW j \in 1 .. c, all[i] = all[j], i # j PROVE FALSE
      BY DEF Distinct
    <3>2. <<all[i], all[j]>> \in Q \/ <<all[j], all[i]>> \in Q
      BY <1>1, <3>1
    <3>. QED BY <1>1, <3>1, <3>2
  <2>2. ASSUME NEW i \in 0 .. c
        PROVE  IsFiniteSet(Soonest(all, i)) /\ Cardinality(Soonest(all, i)) = i
    <3>1. c \in Nat /\ all \in [1 .. c -> S]
      BY <1>1
    <3>2. \A d \in Nat : \A f \in [1 .. d -> S] : Distinct(f, d) =>
            \A m \in 0 .. d : IsFiniteSet(Soonest(f, m)) /\ Cardinality(Soonest(f, m)) = m
      BY PrefixSize
    <3>. QED BY <2>1, <3>1, <3>2
  <2>. QED BY <2>2
<1>10. /\ Picked(s) = Soonest(all, k)
       /\ IsFiniteSet(Picked(s)) /\ Cardinality(Picked(s)) = k
  <2>1. Picked(s) = Soonest(all, k)
    BY <1>2, <1>6 DEF Soonest
  <2>. QED BY <1>2, <1>9, <2>1
<1>11. /\ IsFiniteSet(F) /\ Cardinality(F) \in Nat /\ Cardinality(F) <= c
       /\ Cardinality(Groups(S)) = Cardinality(F)
  <2>1. IsFiniteSet(F) /\ Cardinality(F) \in Nat /\ Cardinality(F) <= c
    BY <1>5, FS_Subset, FS_CardinalityType DEF c
  <2>2. Groups(F) = Groups(S)
    BY <1>5 DEF Groups
  <2>. QED BY <1>5, <2>1, <2>2, GroupsCount
<1>12. CASE Cardinality(F) <= n
  <2>1. F \subseteq Picked(s)
    <3>1. SUFFICES ASSUME NEW a \in F, a \notin Picked(s) PROVE FALSE
      OBVIOUS
    <3>2. PICK i \in 1 .. c : all[i] = a
      BY <1>1, <1>5
    <3>3. i > k /\ k = n
      BY <1>1, <1>2, <1>3, <1>10, <3>1, <3>2 DEF Soonest
    <3>4. Soonest(all, i) \in SUBSET F
      <4>1. \A j \in 1 .. i : j \in 1 .. c /\ j <= i
        BY <1>1
      <4>. QED BY <1>4, <3>1, <3>2, <4>1 DEF Soonest
    <3>5. i \in 0 .. c /\ i > n
      BY <3>3
    <3>6. Cardinality(Soonest(all, i)) = i
      BY <1>9, <3>5
    <3>7. i <= Cardinality(F)
      BY <1>11, <3>4, <3>6, FS_Subset
    <3>. QED BY <1>11, <1>12, <3>5, <3>7
  <2>2. Groups(Picked(s)) = Groups(S)
    BY <1>5, <1>7, <2>1 DEF Groups
  <2>3. AtMost(n, Groups(S)) = Cardinality(F)
    BY <1>11, <1>12 DEF AtMost
  <2>. QED BY <1>2, <1>7, <1>10, <1>11, <2>2, <2>3 DEF WellSelected, s, k
<1>13. CASE n < Cardinality(F)
  <2>1. k = n
    BY <1>1, <1>3, <1>11, <1>13
  <2>2. Picked(s) \subseteq F
    <3>1. SUFFICES ASSUME NEW i \in 1 .. k, all[i] \notin F PROVE FALSE
      BY <1>10 DEF Soonest
    <3>2. i \in 1 .. c /\ i - 1 \in 0 .. c /\ i - 1 < n
      BY <1>1, <1>2, <2>1
    <3>3. F \in SUBSET Soonest(all, i - 1)
      <4>1. SUFFICES ASSUME NEW a \in F PROVE \E j \in 1 .. (i - 1) : all[j] = a
        BY DEF Soonest
      <4>2. PICK j \in 1 .. c : all[j] = a
        BY <1>1, <1>5
      <4>3. ~(i <= j)
        BY <1>4, <3>1, <3>2, <4>1, <4>2
      <4>. QED BY <1>1, <3>2, <4>2, <4>3
    <3>4. Cardinality(F) <= i - 1
      <4>1. PICK T : T = Soonest(all, i - 1)
        OBVIOUS
      <4>2. IsFiniteSet(T) /\ Cardinality(T) = i - 1
        BY <1>9, <3>2, <4>1
      <4>. QED BY <3>3, <4>1, <4>2, FS_Subset
    <3>. QED BY <1>11, <1>13, <3>2, <3>4
  <2>3. Cardinality(Groups(Picked(s))) = n
    BY <1>5, <1>10, <2>1, <2>2, GroupsCount
  <2>4. AtMost(n, Groups(S)) = n
    BY <1>11, <1>13 DEF AtMost
  <2>. QED BY <1>2, <1>7, <1>10, <2>3, <2>4 DEF WellSelected, s, k
<1>. QED BY <1>11, <1>12, <1>13

(* A peer is not selected before one of its group that is preferred to it, *)
(* nor a second one of a group before the first one of another.            *)
LEMMA DiverseMakesWay ==
  ASSUME NEW S, IsFiniteSet(S), NEW R, StrictOrder(S, R), NEW n \in Nat,
         NEW i \in DOMAIN Diverse(S, n, R),
         NEW b \in S \ Picked(SubSeq(Diverse(S, n, R), 1, i))
  PROVE  LET s == Diverse(S, n, R)
         IN IF Group[b] = Group[s[i]]
            THEN <<s[i], b>> \in R
            ELSE \/ Group[b] \in Groups(Picked(s))
                 \/ Group[s[i]] \notin Groups(Picked(SubSeq(s, 1, i - 1)))
<1>. DEFINE F == Firsts(S, R)
            Q == FirstsSooner(S, R)
            all == Sorted(S, Q)
            c == Cardinality(S)
            s == Diverse(S, n, R)
            k == AtMost(n, S)
<1>1. /\ c \in Nat /\ all \in [1 .. c -> S]
      /\ \A j, l \in 1 .. c : j < l <=> <<all[j], all[l]>> \in Q
      /\ \A a \in S : \E j \in 1 .. c : all[j] = a
  <2>1. StrictOrder(S, Q)
    BY SoonerIsOrder
  <2>. QED BY <2>1, SortedFacts
<1>2. /\ k \in 0 .. c /\ s \in [1 .. k -> S] /\ Len(s) = k
      /\ \A j \in 1 .. k : s[j] = all[j]
  <2>1. k \in 0 .. c
    BY DiverseFacts
  <2>2. s \in [1 .. k -> S]
    BY DiverseFacts
  <2>3. Len(s) = k
    BY DiverseFacts
  <2>4. ASSUME NEW j \in 1 .. k PROVE s[j] = all[j]
    BY DiverseFacts
  <2>. QED BY <2>1, <2>2, <2>3, <2>4
<1>3. \A j, l \in 1 .. c : all[l] \in F /\ j <= l => all[j] \in F
  BY FirstsComeFirst
<1>4. /\ \A a \in S : \E d \in F : Group[d] = Group[a]
      /\ \A a, d \in F : Group[a] = Group[d] => a = d
      /\ F \subseteq S
      /\ \A a \in F : \A d \in S : <<d, a>> \in R => Group[d] # Group[a]
  BY FirstsOfGroups DEF Firsts, FirstOfGroup
<1>5. \A a, d \in S : <<a, d>> \in Q =>
        (a \in F /\ d \notin F) \/ (<<a, d>> \in R /\ (a \in F <=> d \in F))
  BY SoonerFacts
<1>6. i \in 1 .. k /\ b \in S \ Picked(SubSeq(s, 1, i))
  BY <1>2
<1>. HIDE DEF F, Q, all, c, s, k
<1>7. ASSUME NEW m \in 0 .. k PROVE Picked(SubSeq(s, 1, m)) = {all[j] : j \in 1 .. m}
  <2>1. /\ s \in Seq(S) /\ m <= Len(s) /\ k \in Nat
        /\ \A j \in 1 .. m : j \in 1 .. k
    BY <1>1, <1>2
  <2>2. SubSeq(s, 1, m) = [j \in 1 .. m |-> s[j]]
    BY <2>1, <1>2
  <2>. QED BY <1>2, <2>1, <2>2 DEF Picked
<1>8. PICK j \in 1 .. c : all[j] = b /\ i < j
  <2>1. PICK j \in 1 .. c : all[j] = b
    BY <1>1, <1>6
  <2>2. ~(j <= i)
    BY <1>1, <1>2, <1>6, <1>7, <2>1
  <2>. QED BY <1>1, <1>2, <1>6, <2>1, <2>2
<1>9. /\ s[i] = all[i] /\ i \in 1 .. c /\ s[i] \in S /\ <<s[i], b>> \in Q
      /\ k \in Nat /\ i \in Nat
  BY <1>1, <1>2, <1>6, <1>8
<1>10. ASSUME Group[b] = Group[s[i]] PROVE <<s[i], b>> \in R
  <2>1. CASE s[i] \in F /\ b \notin F
    <3>1. s[i] # b /\ <<b, s[i]>> \notin R
      BY <1>4, <1>6, <1>10, <2>1
    <3>. QED BY <1>6, <1>9, <3>1 DEF StrictOrder
  <2>2. CASE <<s[i], b>> \in R
    BY <2>2
  <2>. QED BY <1>5, <1>6, <1>9, <2>1, <2>2
<1>11. ASSUME Group[s[i]] \in Groups(Picked(SubSeq(s, 1, i - 1)))
       PROVE  Group[b] \in Groups(Picked(s))
  <2>1. i - 1 \in 0 .. k
    BY <1>6, <1>9
  <2>2. PICK l \in 1 .. (i - 1) : Group[all[l]] = Group[s[i]]
    BY <1>7, <1>11, <2>1 DEF Groups
  <2>3. l \in 1 .. c /\ l < i /\ l \in 1 .. k /\ l \in Nat
    BY <1>1, <1>2, <1>6, <1>9
  <2>4. all[l] \in S /\ <<all[l], all[i]>> \in Q /\ all[l] # all[i]
    BY <1>1, <1>9, <2>3
  <2>5. s[i] \notin F
    <3>1. SUFFICES ASSUME s[i] \in F PROVE FALSE
      OBVIOUS
    <3>2. all[l] \in F
      BY <1>3, <1>9, <2>3, <3>1
    <3>. QED BY <1>4, <1>9, <2>2, <2>4, <3>1, <3>2
  <2>6. PICK d \in F : Group[d] = Group[b]
    BY <1>4, <1>6
  <2>7. PICK m \in 1 .. c : all[m] = d
    BY <1>1, <1>4
  <2>8. ~(i <= m)
    BY <1>3, <1>9, <2>5, <2>6, <2>7
  <2>9. m \in 1 .. k
    BY <1>1, <1>6, <1>9, <2>7, <2>8
  <2>10. d \in Picked(s)
    BY <1>2, <2>7, <2>9 DEF Picked
  <2>. QED BY <2>6, <2>10 DEF Groups
<1>. QED BY <1>10, <1>11 DEF s

-----------------------------------------------------------------------------
(* The two preferences of the code are orders of any peers of a table. *)
LEMMA PreferenceIsOrder ==
  ASSUME NEW peers, IsTable(peers), NEW S \in SUBSET DOMAIN peers
  PROVE  StrictOrder(S, Preference(S, peers)) /\ StrictOrder(S, LessKnownFirst(S, peers))
<1>1. /\ \A a \in S : a \in Nat
      /\ \A a \in S : /\ peers[a].score \in Nat /\ peers[a].height \in Nat
                      /\ peers[a].seen \in Nat /\ peers[a].successes \in Nat
  BY AddressAssumption DEF IsTable, PeerState
<1>2. StrictOrder(S, Preference(S, peers))
  <2>1. Preference(S, peers) \subseteq S \X S
    BY DEF Preference
  <2>2. \A a, b \in S : <<a, b>> \in Preference(S, peers) <=> Preferred(peers, a, b)
    BY DEF Preference
  <2>3. \A a \in S : ~Preferred(peers, a, a)
    BY <1>1 DEF Preferred
  <2>4. \A a, b \in S : a = b \/ Preferred(peers, a, b) \/ Preferred(peers, b, a)
    BY <1>1 DEF Preferred
  <2>5. \A a, b, c \in S : Preferred(peers, a, b) /\ Preferred(peers, b, c) => Preferred(peers, a, c)
    BY <1>1 DEF Preferred
  <2>. QED BY <2>1, <2>2, <2>3, <2>4, <2>5 DEF StrictOrder
<1>3. StrictOrder(S, LessKnownFirst(S, peers))
  <2>1. LessKnownFirst(S, peers) \subseteq S \X S
    BY DEF LessKnownFirst
  <2>2. \A a, b \in S : <<a, b>> \in LessKnownFirst(S, peers) <=> LessKnown(peers, a, b)
    BY DEF LessKnownFirst
  <2>3. \A a \in S : ~LessKnown(peers, a, a)
    BY <1>1 DEF LessKnown
  <2>4. \A a, b \in S : a = b \/ LessKnown(peers, a, b) \/ LessKnown(peers, b, a)
    BY <1>1 DEF LessKnown
  <2>5. \A a, b, c \in S : LessKnown(peers, a, b) /\ LessKnown(peers, b, c) => LessKnown(peers, a, c)
    BY <1>1 DEF LessKnown
  <2>. QED BY <2>1, <2>2, <2>3, <2>4, <2>5 DEF StrictOrder
<1>. QED BY <1>2, <1>3

LEMMA UnbannedFinite ==
  ASSUME NEW peers, IsTable(peers), NEW now
  PROVE  Unbanned(peers, now) \in SUBSET DOMAIN peers /\ IsFiniteSet(Unbanned(peers, now))
<1>1. Unbanned(peers, now) \in SUBSET DOMAIN peers /\ Unbanned(peers, now) \in SUBSET Address
  BY DEF Unbanned, IsTable
<1>. QED BY <1>1, AddressAssumption, FS_Subset

LEMMA SelectionsAreAddresses ==
  ASSUME NEW rows, IsTable(rows), NEW n \in Nat, NEW now, NEW exclude
  PROVE  /\ SelectOutbound(rows, n, now) \in Seq(Address)
         /\ SelectDiscoveryOutbound(rows, n, now, exclude) \in Seq(Address)
<1>1. ASSUME NEW S \in SUBSET Unbanned(rows, now), NEW R, StrictOrder(S, R)
      PROVE  Diverse(S, n, R) \in Seq(Address)
  <2>1. IsFiniteSet(S) /\ S \subseteq Address
    BY UnbannedFinite, FS_Subset DEF IsTable
  <2>2. AtMost(n, S) \in Nat /\ Diverse(S, n, R) \in [1 .. AtMost(n, S) -> S]
    BY <1>1, <2>1, DiverseFacts
  <2>. QED BY <2>1, <2>2
<1>. DEFINE S == Unbanned(rows, now)
<1>2. S \in SUBSET DOMAIN rows /\ S \ exclude \in SUBSET DOMAIN rows
  BY UnbannedFinite
<1>3. StrictOrder(S, Preference(S, rows)) /\ StrictOrder(S \ exclude, LessKnownFirst(S \ exclude, rows))
  BY <1>2, PreferenceIsOrder
<1>. QED BY <1>1, <1>3 DEF SelectOutbound, SelectDiscoveryOutbound

(* Both selections take as many peers as the limit allows, of as many      *)
(* address groups as it allows, whatever has been recorded of the peers    *)
(* (select_outbound, select_discovery_outbound).                           *)
THEOREM SelectionIsSpread ==
  ASSUME NEW peers, IsTable(peers), NEW now
  PROVE  SelectsSpread(peers, now)
<1>1. Cardinality(Address) \in Nat
  BY AddressAssumption, FS_CardinalityType
<1>2. SUFFICES ASSUME NEW n \in Nat
               PROVE  /\ WellSelected(SelectOutbound(peers, n, now), n, Unbanned(peers, now))
                      /\ \A a \in Address :
                           WellSelected(SelectDiscoveryOutbound(peers, n, now, {a}), n,
                                        Unbanned(peers, now) \ {a})
  BY <1>1 DEF SelectsSpread
<1>3. PICK S : S = Unbanned(peers, now)
  OBVIOUS
<1>4. WellSelected(SelectOutbound(peers, n, now), n, S)
  BY <1>3, UnbannedFinite, PreferenceIsOrder, DiverseIsWellSelected DEF SelectOutbound
<1>5. ASSUME NEW a \in Address
      PROVE  WellSelected(SelectDiscoveryOutbound(peers, n, now, {a}), n, S \ {a})
  <2>1. PICK T : T = S \ {a}
    OBVIOUS
  <2>2. IsFiniteSet(T) /\ T \in SUBSET DOMAIN peers
    BY <1>3, <2>1, UnbannedFinite, FS_RemoveElement
  <2>3. StrictOrder(T, LessKnownFirst(T, peers))
    BY <2>2, PreferenceIsOrder
  <2>. QED BY <1>3, <2>1, <2>2, <2>3, DiverseIsWellSelected DEF SelectDiscoveryOutbound
<1>. QED BY <1>3, <1>4, <1>5

(* Of one address group the peer with the lower score goes first, and      *)
(* every group is served before one is served twice (select_outbound).     *)
THEOREM FailedPeersMakeWay ==
  ASSUME NEW peers, IsTable(peers), NEW now
  PROVE  FailedMakeWay(peers, now)
<1>1. Cardinality(Address) \in Nat
  BY AddressAssumption, FS_CardinalityType
<1>. DEFINE S == Unbanned(peers, now)
            R == Preference(S, peers)
<1>2. /\ IsFiniteSet(S) /\ StrictOrder(S, R) /\ S \in SUBSET DOMAIN peers
      /\ \A a \in S : peers[a].score \in Nat
  BY UnbannedFinite, PreferenceIsOrder DEF IsTable, PeerState
<1>3. \A a, b \in S : <<a, b>> \in R => peers[b].score >= peers[a].score
  BY <1>2 DEF Preference, Preferred
<1>4. ASSUME NEW n \in Nat, NEW i \in DOMAIN SelectOutbound(peers, n, now),
             NEW b \in S \ Picked(SubSeq(SelectOutbound(peers, n, now), 1, i))
      PROVE  LET s == SelectOutbound(peers, n, now)
             IN IF Group[b] = Group[s[i]]
                THEN peers[b].score >= peers[s[i]].score
                ELSE \/ Group[b] \in Groups(Picked(s))
                     \/ Group[s[i]] \notin Groups(Picked(SubSeq(s, 1, i - 1)))
  <2>1. SelectOutbound(peers, n, now) = Diverse(S, n, R)
    BY DEF SelectOutbound
  <2>. HIDE DEF S, R
  <2>2. PICK s : s = Diverse(S, n, R)
    OBVIOUS
  <2>3. s[i] \in S
    <3>1. s \in [1 .. AtMost(n, S) -> S]
      BY <1>2, <1>4, <2>2, DiverseFacts
    <3>2. i \in DOMAIN s
      BY <1>4, <2>1, <2>2
    <3>. QED BY <3>1, <3>2
  <2>4. IF Group[b] = Group[s[i]]
        THEN <<s[i], b>> \in R
        ELSE \/ Group[b] \in Groups(Picked(s))
             \/ Group[s[i]] \notin Groups(Picked(SubSeq(s, 1, i - 1)))
    BY <1>2, <1>4, <2>1, <2>2, DiverseMakesWay
  <2>. QED BY <1>3, <2>1, <2>2, <2>3, <2>4
<1>. QED BY <1>1, <1>4 DEF FailedMakeWay

-----------------------------------------------------------------------------
(* What the events make of a manager's records: they are records of        *)
(* addresses, none is lost, and no ban but that of malformed data changes. *)
SameBans(new, old) ==
  /\ IsTable(new)
  /\ DOMAIN old \subseteq DOMAIN new
  /\ \A a \in DOMAIN new : new[a].banned = IF a \in DOMAIN old THEN old[a].banned ELSE NoTime

LEMMA TypeOfNewPeer == NewPeer \in PeerState
  BY DEF NewPeer, PeerState, NoTime

LEMMA SeedsKeepBans ==
  ASSUME NEW rows, IsTable(rows), NEW as \in SUBSET Address
  PROVE  SameBans(Upsert(rows, as), rows) /\ as \subseteq DOMAIN Upsert(rows, as)
  BY TypeOfNewPeer DEF SameBans, IsTable, Upsert, NewPeer

LEMMA EventsKeepBans ==
  ASSUME NEW rows, IsTable(rows), NEW a \in Address, NEW h \in Nat, NEW now \in Nat
  PROVE  /\ SameBans(RecordSuccess(rows, a, h, now), rows)
         /\ SameBans(RecordObservedHeight(rows, a, h, now), rows)
         /\ SameBans(RecordTransientFailure(rows, a), rows)
         /\ SameBans(RecordStaleTip(rows, a), rows)
<1>. DEFINE u == Upsert(rows, {a})
<1>1. SameBans(u, rows) /\ a \in DOMAIN u
  BY SeedsKeepBans
<1>2. u[a] \in PeerState /\ IsTable(u)
  BY <1>1 DEF SameBans, IsTable
<1>. HIDE DEF u
<1>3. ASSUME NEW s \in PeerState, s.banned = u[a].banned
      PROVE  SameBans([u EXCEPT ![a] = s], rows)
  BY <1>1, <1>3 DEF SameBans, IsTable
<1>4. SameBans(RecordSuccess(rows, a, h, now), rows)
  <2>. DEFINE less == Rewarded(u[a].score)
              more == Saturating(u[a].successes + 1, MaxCount)
              s == [u[a] EXCEPT !.score = less, !.height = h, !.seen = now, !.successes = more]
  <2>1. less \in Nat /\ more \in Nat
    BY <1>2, ScoreAssumption DEF PeerState, Rewarded, Saturating
  <2>2. RecordSuccess(rows, a, h, now) = [u EXCEPT ![a] = s]
    BY <1>1, <1>2 DEF RecordSuccess, IsTable, PeerState, u
  <2>. HIDE DEF less, more
  <2>3. s \in PeerState /\ s.banned = u[a].banned
    BY <1>2, <2>1 DEF PeerState
  <2>. QED BY <1>3, <2>2, <2>3
<1>5. SameBans(RecordObservedHeight(rows, a, h, now), rows)
  <2>. DEFINE s == [u[a] EXCEPT !.height = h, !.seen = now]
  <2>1. RecordObservedHeight(rows, a, h, now) = [u EXCEPT ![a] = s]
    BY <1>1, <1>2 DEF RecordObservedHeight, IsTable, PeerState, u
  <2>2. s \in PeerState /\ s.banned = u[a].banned
    BY <1>2 DEF PeerState
  <2>. QED BY <1>3, <2>1, <2>2
<1>6. SameBans(RecordTransientFailure(rows, a), rows)
  <2>. DEFINE more == Saturating(u[a].score + TransientScore, MaxScore)
  <2>1. more \in Nat
    BY <1>2, ScoreAssumption DEF PeerState, Saturating
  <2>2. RecordTransientFailure(rows, a) = [u EXCEPT ![a] = [u[a] EXCEPT !.score = more]]
    BY <1>1, <1>2 DEF RecordTransientFailure, IsTable, u
  <2>. HIDE DEF more
  <2>. QED BY <1>2, <1>3, <2>1, <2>2 DEF PeerState
<1>7. SameBans(RecordStaleTip(rows, a), rows)
  <2>. DEFINE more == Saturating(u[a].score + StaleScore, MaxScore)
  <2>1. more \in Nat
    BY <1>2, ScoreAssumption DEF PeerState, Saturating
  <2>2. RecordStaleTip(rows, a) =
          [u EXCEPT ![a] = [u[a] EXCEPT !.score = more, !.banned = u[a].banned]]
    BY <1>1, <1>2 DEF RecordStaleTip, Penalize, IsTable, NoTime, u
  <2>. HIDE DEF more
  <2>. QED BY <1>2, <1>3, <2>1, <2>2 DEF PeerState
<1>. QED BY <1>4, <1>5, <1>6, <1>7

(* Malformed data bans at once, whatever the score was. *)
BansOne(new, old, a, until) ==
  /\ IsTable(new)
  /\ DOMAIN new = DOMAIN old \cup {a}
  /\ new[a].banned = until
  /\ \A b \in DOMAIN old \ {a} : new[b] = old[b]

LEMMA MalformedBans ==
  ASSUME NEW rows, IsTable(rows), NEW a \in Address, NEW now \in Nat, NEW length \in Nat,
         now + length # NoTime
  PROVE  BansOne(RecordMalformed(rows, a, now, length), rows, a, now + length)
<1>. DEFINE u == Upsert(rows, {a})
<1>1. /\ SameBans(u, rows) /\ DOMAIN u = DOMAIN rows \cup {a}
      /\ \A b \in DOMAIN rows : u[b] = rows[b]
  BY SeedsKeepBans DEF Upsert
<1>2. u[a] \in PeerState /\ IsTable(u)
  BY <1>1 DEF SameBans, IsTable
<1>3. Saturating(u[a].score + MalformedScore, MaxScore) \in Nat
  BY <1>2, ScoreAssumption DEF PeerState, Saturating
<1>4. Saturating(u[a].score + MalformedScore, MaxScore) >= BanScore
  BY <1>2, ScoreAssumption DEF PeerState, Saturating
<1>5. now + length \in Nat
  OBVIOUS
<1>. DEFINE until == now + length
            more == Saturating(u[a].score + MalformedScore, MaxScore)
            s == [u[a] EXCEPT !.score = more, !.banned = until]
<1>6. RecordMalformed(rows, a, now, length) = [u EXCEPT ![a] = s]
  BY <1>1, <1>2, <1>4, <1>5 DEF RecordMalformed, Penalize, IsTable
<1>. HIDE DEF u, until, more
<1>7. s \in PeerState /\ s.banned = until
  BY <1>2, <1>3, <1>5 DEF PeerState, until, more
<1>8. BansOne([u EXCEPT ![a] = s], rows, a, until)
  <2>. HIDE DEF s
  <2>. QED BY <1>1, <1>2, <1>7 DEF IsTable, BansOne
<1>. QED BY <1>6, <1>8 DEF until
=============================================================================
