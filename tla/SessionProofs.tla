---------------------------- MODULE SessionProofs ----------------------------
(***************************************************************************)
(* A proof that verifies against the root of a tree tells the truth about  *)
(* it, whatever the tree, the key and the proof: what it includes is the   *)
(* tree's value at the key, and what it excludes is not in the tree.       *)
(*                                                                         *)
(* A connection keeps its types, hands over the packets the peer sent in   *)
(* their order however the stream is cut, and stores only what the tree    *)
(* with the best header's root has.                                        *)
(***************************************************************************)
EXTENDS SyncSession, TLAPS, SequenceTheorems, WellFoundedInduction

-----------------------------------------------------------------------------
(* The proofs of a tree. *)

Bit == {0, 1}

(* Two keys or more are under a path. *)
Parts(values, path) == Under(values, path) # {} /\ \A k : Under(values, path) # {k}

(* The path to what a key has in common with others above a depth. *)
PathTo(key, depth) == SubSeq(key, 1, depth)

LEMMA LeastNumber ==
  ASSUME NEW S \in SUBSET Nat, S # {}
  PROVE  \E n \in S : \A m \in S : n <= m
<1>1. IsWellFoundedOn(OpToRel(<, Nat), Nat)
  BY NatLessThanWellFounded
<1>2. PICK n \in S : \A m \in S : ~(<<m, n>> \in OpToRel(<, Nat))
  BY <1>1, WFMin
<1>3. \A m \in S : ~ (m < n)
  BY <1>2 DEF OpToRel
<1>. QED BY <1>3

(* A set of numbers up to n that has 0 and with each number the next has   *)
(* all of them.                                                            *)
LEMMA UpTo ==
  ASSUME NEW n \in Nat, NEW S, 0 \in S, \A m \in 1 .. n : m - 1 \in S => m \in S
  PROVE  \A m \in 0 .. n : m \in S
<1>. DEFINE B == {m \in 0 .. n : m \notin S}
<1>1. CASE B = {}
  BY <1>1
<1>2. CASE B # {}
  <2>1. B \in SUBSET Nat
    OBVIOUS
  <2>2. PICK m \in B : \A k \in B : m <= k
    BY <1>2, <2>1, LeastNumber
  <2>3. m \in 1 .. n /\ m - 1 \in 0 .. n /\ m - 1 \notin B
    BY <2>2
  <2>. QED BY <2>2, <2>3
<1>. QED BY <1>1, <1>2

-----------------------------------------------------------------------------
(* Keys and paths. *)

LEMMA KeysAre ==
  ASSUME NEW key \in Key
  PROVE  key \in Seq(Bit) /\ Len(key) = Bits /\ \A i \in 1 .. Bits : key[i] \in Bit
BY UrkelAssumption DEF Key, Bit

LEMMA PathsAre ==
  ASSUME NEW path
  PROVE  path \in Paths <=> path \in Seq(Bit) /\ Len(path) \in 0 .. Bits
<1>1. ASSUME NEW n \in Nat, path \in [1 .. n -> Bit] PROVE path \in Seq(Bit) /\ Len(path) = n
  BY <1>1
<1>2. ASSUME path \in Seq(Bit) PROVE path \in [1 .. Len(path) -> Bit]
  BY <1>2, LenProperties
<1>. QED BY <1>1, <1>2, UrkelAssumption DEF Paths, Bit

LEMMA PartOfKey ==
  ASSUME NEW key \in Key, NEW a \in Nat, NEW n \in Nat, a + n <= Bits
  PROVE  /\ SubSeq(key, a + 1, a + n) \in Seq(Bit) /\ Len(SubSeq(key, a + 1, a + n)) = n
         /\ \A i \in 1 .. n : SubSeq(key, a + 1, a + n)[i] = key[a + i]
<1>1. \A i \in a + 1 .. a + n : key[i] \in Bit
  BY KeysAre, UrkelAssumption
<1>2. a + 1 \in Int /\ a + n \in Int
  OBVIOUS
<1>. DEFINE s == SubSeq(key, a + 1, a + n)
<1>3. /\ s \in Seq(Bit) /\ Len(s) = IF a + 1 <= a + n THEN a + n - (a + 1) + 1 ELSE 0
      /\ \A i \in 1 .. a + n - (a + 1) + 1 : s[i] = key[(a + 1) + i - 1]
  BY <1>1, <1>2, SubSeqProperties
<1>. HIDE DEF s
<1>4. Len(s) = n /\ a + n - (a + 1) + 1 = n /\ \A i \in Int : (a + 1) + i - 1 = a + i
  BY <1>3
<1>5. \A i \in 1 .. n : s[i] = key[a + i]
  BY <1>3, <1>4
<1>. QED BY <1>3, <1>4, <1>5 DEF s

LEMMA PathsToKeys ==
  ASSUME NEW key \in Key, NEW depth \in 0 .. Bits
  PROVE  /\ PathTo(key, depth) \in Paths /\ PathTo(key, depth) \in Seq(Bit)
         /\ Len(PathTo(key, depth)) = depth
         /\ \A i \in 1 .. depth : PathTo(key, depth)[i] = key[i]
<1>1. 0 \in Nat /\ depth \in Nat /\ 0 + depth <= Bits
  BY UrkelAssumption
<1>2. /\ SubSeq(key, 0 + 1, 0 + depth) \in Seq(Bit) /\ Len(SubSeq(key, 0 + 1, 0 + depth)) = depth
      /\ \A i \in 1 .. depth : SubSeq(key, 0 + 1, 0 + depth)[i] = key[0 + i]
  BY <1>1, PartOfKey
<1>3. 0 + 1 = 1 /\ 0 + depth = depth /\ \A i \in Int : 0 + i = i
  OBVIOUS
<1>4. SubSeq(key, 0 + 1, 0 + depth) = PathTo(key, depth)
  BY <1>3 DEF PathTo
<1>5. PathTo(key, depth) \in Seq(Bit) /\ Len(PathTo(key, depth)) = depth
  BY <1>2, <1>4
<1>6. \A i \in 1 .. depth : PathTo(key, depth)[i] = key[i]
  BY <1>2, <1>3, <1>4
<1>. QED BY <1>5, <1>6, PathsAre

LEMMA ConcatOfThree ==
  ASSUME NEW S, NEW a \in Seq(S), NEW b \in Seq(S), NEW c \in S
  PROVE  /\ a \o b \o <<c>> \in Seq(S) /\ Len(a \o b \o <<c>>) = Len(a) + Len(b) + 1
         /\ \A i \in 1 .. Len(a) + Len(b) + 1 :
              (a \o b \o <<c>>)[i] = IF i <= Len(a) THEN a[i]
                                     ELSE IF i <= Len(a) + Len(b) THEN b[i - Len(a)] ELSE c
<1>. DEFINE ab == a \o b
<1>1. /\ ab \in Seq(S) /\ Len(ab) = Len(a) + Len(b) /\ Len(a) \in Nat /\ Len(b) \in Nat
      /\ \A i \in 1 .. Len(a) + Len(b) : ab[i] = IF i <= Len(a) THEN a[i] ELSE b[i - Len(a)]
  BY ConcatProperties, LenProperties
<1>2. ab \o <<c>> = Append(ab, c)
  BY <1>1, AppendIsConcat
<1>. HIDE DEF ab
<1>3. /\ Append(ab, c) \in Seq(S) /\ Len(Append(ab, c)) = Len(ab) + 1
      /\ \A i \in 1 .. Len(ab) : Append(ab, c)[i] = ab[i]
      /\ Append(ab, c)[Len(ab) + 1] = c
  BY <1>1, AppendProperties
<1>. DEFINE abc == Append(ab, c)
<1>. HIDE DEF abc
<1>4. /\ abc \in Seq(S) /\ Len(abc) = Len(a) + Len(b) + 1
      /\ \A i \in 1 .. Len(a) + Len(b) : abc[i] = ab[i]
      /\ abc[Len(a) + Len(b) + 1] = c
  BY <1>1, <1>3 DEF abc
<1>5. \A i \in 1 .. Len(a) + Len(b) + 1 :
        abc[i] = IF i <= Len(a) THEN a[i] ELSE IF i <= Len(a) + Len(b) THEN b[i - Len(a)] ELSE c
  BY <1>1, <1>4
<1>6. a \o b \o <<c>> = abc
  BY <1>2 DEF ab, abc
<1>. QED BY <1>4, <1>5, <1>6

(* A key's path goes on with what the key holds there. *)
LEMMA PathGoesOn ==
  ASSUME NEW key \in Key, NEW depth \in Nat, NEW n \in Nat, depth + n < Bits
  PROVE  PathTo(key, depth) \o SubSeq(key, depth + 1, depth + n) \o <<key[depth + n + 1]>>
           = PathTo(key, depth + n + 1)
<1>. DEFINE a == PathTo(key, depth)
            b == SubSeq(key, depth + 1, depth + n)
            c == key[depth + n + 1]
            d == PathTo(key, depth + n + 1)
            abc == a \o b \o <<c>>
<1>1. a \in Seq(Bit) /\ Len(a) = depth /\ \A i \in 1 .. depth : a[i] = key[i]
  BY PathsToKeys, UrkelAssumption
<1>2. b \in Seq(Bit) /\ Len(b) = n /\ \A i \in 1 .. n : b[i] = key[depth + i]
  <2>1. depth + n <= Bits
    BY UrkelAssumption
  <2>. QED BY <2>1, PartOfKey
<1>3. c \in Bit
  BY KeysAre, UrkelAssumption
<1>4. d \in Seq(Bit) /\ Len(d) = depth + n + 1 /\ \A i \in 1 .. depth + n + 1 : d[i] = key[i]
  <2>1. depth + n + 1 \in 0 .. Bits
    BY UrkelAssumption
  <2>. QED BY <2>1, PathsToKeys
<1>. HIDE DEF a, b, d
<1>5. /\ abc \in Seq(Bit) /\ Len(abc) = depth + n + 1
      /\ \A i \in 1 .. depth + n + 1 :
           abc[i] = IF i <= depth THEN a[i] ELSE IF i <= depth + n THEN b[i - depth] ELSE c
  <2>. HIDE DEF c
  <2>. QED BY <1>1, <1>2, <1>3, ConcatOfThree
<1>. HIDE DEF abc
<1>6. \A i \in 1 .. depth + n + 1 : abc[i] = key[i]
  <2>. TAKE i \in 1 .. depth + n + 1
  <2>1. CASE i <= depth
    BY <1>1, <1>5, <2>1
  <2>2. CASE i > depth /\ i <= depth + n
    <3>1. i - depth \in 1 .. n /\ depth + (i - depth) = i
      BY <2>2
    <3>2. b[i - depth] = key[i]
      BY <1>2, <3>1
    <3>. QED BY <1>5, <2>2, <3>2
  <2>3. CASE i > depth + n
    <3>1. i = depth + n + 1
      BY <2>3
    <3>. QED BY <1>5, <3>1
  <2>. QED BY <2>1, <2>2, <2>3
<1>7. abc = d
  BY <1>4, <1>5, <1>6, SeqEqual
<1>. QED BY <1>7 DEF a, b, d, abc

-----------------------------------------------------------------------------
(* The tree. *)

(* What keys share after a path is the longest there is. *)
LEMMA SharedFacts ==
  ASSUME NEW keys \in SUBSET Key, keys # {}, NEW depth \in 0 .. Bits
  PROVE  /\ Shared(keys, depth) \in Seq(Bit) /\ depth + Len(Shared(keys, depth)) <= Bits
         /\ \A k \in keys : SubSeq(k, depth + 1, depth + Len(Shared(keys, depth))) = Shared(keys, depth)
<1>. DEFINE agree(n) ==
              \A k, l \in keys : SubSeq(k, depth + 1, depth + n) = SubSeq(l, depth + 1, depth + n)
            N == Bits - depth
            Longest(n) == agree(n) /\ \A m \in n + 1 .. N : ~agree(m)
            most == CHOOSE n \in 0 .. N : Longest(n)
            k1 == CHOOSE k \in keys : TRUE
<1>1. N \in Nat /\ k1 \in keys /\ depth \in Nat
  BY UrkelAssumption
<1>2. agree(0)
  <2>1. depth + 0 < depth + 1 /\ depth + 1 \in Int /\ depth + 0 \in Int
    BY <1>1
  <2>2. \A k : SubSeq(k, depth + 1, depth + 0) = << >>
    BY <2>1, SubSeqEmpty
  <2>. QED BY <2>2
<1>. HIDE DEF N, agree
<1>3. \E n \in 0 .. N : Longest(n)
  <2>. DEFINE S == {n \in 0 .. N : \E m \in n .. N : agree(m)}
  <2>1. SUFFICES ASSUME \A n \in 0 .. N : ~Longest(n) PROVE FALSE
    OBVIOUS
  <2>2. 0 \in S
    BY <1>1, <1>2
  <2>3. ASSUME NEW n \in 1 .. N, n - 1 \in S PROVE n \in S
    <3>1. PICK m \in n - 1 .. N : agree(m)
      BY <2>3
    <3>2. PICK l \in m + 1 .. N : agree(l)
      BY <1>1, <2>1, <3>1
    <3>3. l \in n .. N
      BY <1>1, <3>1, <3>2
    <3>. QED BY <3>2, <3>3
  <2>4. N \in S
    <3>. HIDE DEF S
    <3>. QED BY <1>1, <2>2, <2>3, UpTo
  <2>5. agree(N)
    BY <1>1, <2>4
  <2>6. ~Longest(N)
    BY <1>1, <2>1
  <2>. QED BY <1>1, <2>5, <2>6
<1>4. most \in 0 .. N /\ agree(most)
  <2>1. most \in 0 .. N /\ Longest(most)
    <3>. HIDE DEF Longest
    <3>. QED BY <1>3
  <2>. QED BY <2>1
<1>5. Shared(keys, depth) = SubSeq(k1, depth + 1, depth + most)
  BY DEF Shared, agree, N
<1>. HIDE DEF most
<1>6. most \in Nat /\ depth + most <= Bits
  BY <1>1, <1>4, UrkelAssumption DEF N
<1>7. k1 \in Key
  BY <1>1
<1>. HIDE DEF k1
<1>8. Shared(keys, depth) \in Seq(Bit) /\ Len(Shared(keys, depth)) = most
  <2>1. /\ SubSeq(k1, depth + 1, depth + most) \in Seq(Bit)
        /\ Len(SubSeq(k1, depth + 1, depth + most)) = most
    BY <1>1, <1>6, <1>7, PartOfKey
  <2>. QED BY <1>5, <2>1
<1>9. \A k \in keys : SubSeq(k, depth + 1, depth + most) = Shared(keys, depth)
  BY <1>1, <1>4, <1>5 DEF agree
<1>. QED BY <1>6, <1>8, <1>9

(* Keys that part below a path part before its end. *)
LEMMA SharedEnds ==
  ASSUME NEW values, DOMAIN values \subseteq Key, NEW path \in Paths,
         Parts(values, path)
  PROVE  Len(path) + Len(Shared(Under(values, path), Len(path))) < Bits
<1>. DEFINE keys == Under(values, path)
            d == Len(path)
            s == Shared(keys, d)
<1>1. keys \in SUBSET Key /\ d \in 0 .. Bits /\ path \in Seq(Bit)
  BY PathsAre DEF Under
<1>2. keys # {} /\ \A k \in keys : SubSeq(k, 1, d) = path
  BY DEF Under, Parts
<1>3. \E k, l \in keys : k # l
  <2>1. PICK k \in keys : TRUE
    BY <1>2
  <2>2. keys # {k}
    BY DEF Parts
  <2>. QED BY <2>1, <2>2
<1>. HIDE DEF keys, d
<1>4. /\ s \in Seq(Bit) /\ d + Len(s) <= Bits
      /\ \A k \in keys : SubSeq(k, d + 1, d + Len(s)) = s
  BY <1>1, <1>2, SharedFacts
<1>5. PICK k \in keys, l \in keys : k # l
  BY <1>3
<1>. HIDE DEF s
<1>6. ASSUME d + Len(s) >= Bits PROVE FALSE
  <2>1. d + Len(s) = Bits /\ Len(s) \in Nat /\ d \in Nat /\ Bits \in Nat
    BY <1>1, <1>4, <1>6, LenProperties, UrkelAssumption
  <2>2. k \in Key /\ l \in Key
    BY <1>1
  <2>3. \A i \in 1 .. Bits : k[i] = l[i]
    <3>. TAKE i \in 1 .. Bits
    <3>1. CASE i <= d
      <4>1. PathTo(k, d) = PathTo(l, d) /\ i \in 1 .. d
        BY <1>2, <2>1, <3>1 DEF PathTo
      <4>2. PathTo(k, d)[i] = k[i] /\ PathTo(l, d)[i] = l[i]
        BY <1>1, <2>2, <4>1, PathsToKeys
      <4>. QED BY <4>1, <4>2
    <3>2. CASE i > d
      <4>1. i - d \in 1 .. Len(s) /\ d + (i - d) = i /\ d + Len(s) <= Bits
        BY <2>1, <3>2
      <4>2. \A j \in 1 .. Len(s) : s[j] = k[d + j] /\ s[j] = l[d + j]
        <5>1. /\ \A j \in 1 .. Len(s) : SubSeq(k, d + 1, d + Len(s))[j] = k[d + j]
              /\ \A j \in 1 .. Len(s) : SubSeq(l, d + 1, d + Len(s))[j] = l[d + j]
          BY <2>1, <2>2, <4>1, PartOfKey
        <5>. QED BY <1>4, <5>1
      <4>3. s[i - d] = k[i] /\ s[i - d] = l[i]
        BY <4>1, <4>2
      <4>. QED BY <4>3
    <3>. QED BY <2>1, <3>1, <3>2
  <2>4. k = l
    <3>1. k \in Seq(Bit) /\ Len(k) = Bits /\ l \in Seq(Bit) /\ Len(l) = Bits
      BY <2>2, KeysAre
    <3>. QED BY <2>3, <3>1, SeqEqual
  <2>. QED BY <1>5, <2>4
<1>7. d \in Nat /\ Len(s) \in Nat /\ Bits \in Nat
  BY <1>1, <1>4, LenProperties, UrkelAssumption
<1>. QED BY <1>6, <1>7 DEF keys, d, s

(* What a node is, of two trees that agree below it. *)
LEMMA NodesBelow ==
  ASSUME NEW values, DOMAIN values \subseteq Key, NEW path \in Paths, NEW f, NEW g,
         \A q \in Paths : Len(q) > Len(path) => f[q] = g[q]
  PROVE  NodeHash(values, f, path) = NodeHash(values, g, path)
<1>. DEFINE keys == Under(values, path)
            s == Shared(keys, Len(path))
<1>1. CASE keys = {}
  BY <1>1 DEF NodeHash
<1>2. CASE \E k \in keys : keys = {k}
  BY <1>2 DEF NodeHash
<1>3. CASE keys # {} /\ ~ \E k \in keys : keys = {k}
  <2>1. Len(path) + Len(s) < Bits
    BY <1>3, SharedEnds DEF Parts
  <2>2. keys \in SUBSET Key /\ Len(path) \in 0 .. Bits /\ path \in Seq(Bit)
    BY PathsAre DEF Under
  <2>. HIDE DEF keys
  <2>3. s \in Seq(Bit) /\ Len(s) \in Nat
    BY <1>3, <2>2, SharedFacts, LenProperties
  <2>. HIDE DEF s
  <2>4. ASSUME NEW bit \in Bit PROVE f[path \o s \o <<bit>>] = g[path \o s \o <<bit>>]
    <3>. DEFINE q == path \o s \o <<bit>>
    <3>1. q \in Seq(Bit) /\ Len(q) = Len(path) + Len(s) + 1
      BY <2>2, <2>3, ConcatOfThree
    <3>. HIDE DEF q
    <3>2. q \in Paths /\ Len(q) > Len(path)
      BY <2>1, <2>2, <2>3, <3>1, PathsAre, UrkelAssumption
    <3>. QED BY <3>2 DEF q
  <2>5. 0 \in Bit /\ 1 \in Bit
    BY DEF Bit
  <2>. QED BY <1>3, <2>4, <2>5 DEF NodeHash, keys, s
<1>. QED BY <1>1, <1>2, <1>3

Child(path, prefix, bit) == path \o prefix \o <<bit>>

(* Each node of a tree hashes what is below it. *)
IsTree(values, node) == \A path \in Paths : node[path] = NodeHash(values, node, path)

(* The recursion of RootOf has a solution. *)
LEMMA TreeIs ==
  ASSUME NEW values, DOMAIN values \subseteq Key
  PROVE  \E node : RootOf(values) = node[<< >>] /\ IsTree(values, node)
<1>. DEFINE From(m) == {path \in Paths : Len(path) > Bits - m}
            Solves(f, m) == f = [path \in From(m) |-> NodeHash(values, f, path)]
            Solved == {m \in 0 .. Bits + 1 : \E f : Solves(f, m)}
            node == CHOOSE f : f = [path \in Paths |-> NodeHash(values, f, path)]
<1>1. Bits \in Nat /\ \A path \in Paths : Len(path) \in 0 .. Bits
  BY PathsAre, UrkelAssumption
<1>2. 0 \in Solved
  <2>. DEFINE f == [path \in {} |-> << >>]
  <2>1. From(0) = {}
    BY <1>1
  <2>2. [path \in From(0) |-> NodeHash(values, f, path)] = f
    BY <2>1
  <2>. HIDE DEF f
  <2>3. Solves(f, 0)
    BY <2>2
  <2>. HIDE DEF Solves
  <2>. QED BY <1>1, <2>3
<1>3. ASSUME NEW m \in 1 .. Bits + 1, m - 1 \in Solved PROVE m \in Solved
  <2>1. PICK f : Solves(f, m - 1)
    BY <1>3
  <2>2. f = [path \in From(m - 1) |-> NodeHash(values, f, path)]
    BY <2>1
  <2>. DEFINE g == [path \in From(m) |-> IF path \in From(m - 1) THEN f[path] ELSE NodeHash(values, f, path)]
  <2>3. From(m - 1) \subseteq From(m) /\ \A path \in From(m) : \A q \in Paths : Len(q) > Len(path) => q \in From(m - 1)
    BY <1>1
  <2>4. \A q \in From(m - 1) : g[q] = f[q]
    BY <2>3
  <2>5. \A path \in From(m) : g[path] = NodeHash(values, f, path)
    BY <2>2, <2>3
  <2>. HIDE DEF g
  <2>6. ASSUME NEW path \in From(m) PROVE g[path] = NodeHash(values, g, path)
    <3>1. \A q \in Paths : Len(q) > Len(path) => f[q] = g[q]
      BY <2>3, <2>4
    <3>. QED BY <2>5, <3>1, NodesBelow
  <2>7. g = [path \in From(m) |-> g[path]]
    BY DEF g
  <2>8. Solves(g, m)
    BY <2>6, <2>7
  <2>. HIDE DEF Solves
  <2>. QED BY <1>1, <2>8
<1>4. Bits + 1 \in Solved
  <2>. HIDE DEF Solved
  <2>. QED BY <1>1, <1>2, <1>3, UpTo
<1>5. From(Bits + 1) = Paths
  BY <1>1
<1>6. \E f : f = [path \in Paths |-> NodeHash(values, f, path)]
  <2>1. PICK f : Solves(f, Bits + 1)
    BY <1>4
  <2>. QED BY <1>5, <2>1
<1>7. node = [path \in Paths |-> NodeHash(values, node, path)]
  BY <1>6
<1>8. RootOf(values) = node[<< >>]
  BY DEF RootOf
<1>. HIDE DEF node
<1>9. IsTree(values, node)
  BY <1>7 DEF IsTree
<1>. QED BY <1>8, <1>9

(* Two hashes are the same only if what was hashed is. *)
LEMMA KindsOfHashesDiffer ==
  ASSUME NEW k, NEW v, NEW p, NEW l, NEW r
  PROVE  /\ HashLeaf(k, v) # ZeroHash /\ HashInternal(p, l, r) # ZeroHash
         /\ HashInternal(p, l, r) # HashLeaf(k, v)
BY DEF HashLeaf, HashInternal, ZeroHash

LEMMA LeavesDiffer ==
  ASSUME NEW k, NEW v, NEW k2, NEW v2, HashLeaf(k, v) = HashLeaf(k2, v2)
  PROVE  k = k2 /\ v = v2
BY DEF HashLeaf

LEMMA InternalsDiffer ==
  ASSUME NEW p, NEW l, NEW r, NEW p2, NEW l2, NEW r2, HashInternal(p, l, r) = HashInternal(p2, l2, r2)
  PROVE  p = p2 /\ l = l2 /\ r = r2
BY DEF HashInternal

(* What a node of the tree says about the keys under it. *)
LEMMA EmptyNode ==
  ASSUME NEW values, NEW node, NEW path, NodeHash(values, node, path) = ZeroHash
  PROVE  Under(values, path) = {}
<1>. DEFINE keys == Under(values, path)
<1>1. CASE \E k \in keys : keys = {k}
  <2>1. \E k, v : NodeHash(values, node, path) = HashLeaf(k, v)
    BY <1>1 DEF NodeHash
  <2>2. FALSE
    BY <2>1, KindsOfHashesDiffer
  <2>. QED BY <2>2
<1>2. CASE keys # {} /\ ~ \E k \in keys : keys = {k}
  <2>1. \E p, l, r : NodeHash(values, node, path) = HashInternal(p, l, r)
    BY <1>2 DEF NodeHash
  <2>2. FALSE
    BY <2>1, KindsOfHashesDiffer
  <2>. QED BY <2>2
<1>. QED BY <1>1, <1>2

LEMMA LeafNode ==
  ASSUME NEW values, NEW node, NEW path, NEW k, NEW v, NodeHash(values, node, path) = HashLeaf(k, v)
  PROVE  Under(values, path) = {k} /\ values[k] = v
<1>. DEFINE keys == Under(values, path)
<1>1. CASE keys = {}
  <2>1. NodeHash(values, node, path) = ZeroHash
    BY <1>1 DEF NodeHash
  <2>2. FALSE
    BY <2>1, KindsOfHashesDiffer
  <2>. QED BY <2>2
<1>2. CASE \E l \in keys : keys = {l}
  <2>1. PICK l \in keys : keys = {l}
    BY <1>2
  <2>2. NodeHash(values, node, path) = HashLeaf(l, values[l])
    BY <2>1 DEF NodeHash
  <2>. QED BY <2>1, <2>2, LeavesDiffer
<1>3. CASE keys # {} /\ ~ \E l \in keys : keys = {l}
  <2>1. \E p, l, r : NodeHash(values, node, path) = HashInternal(p, l, r)
    BY <1>3 DEF NodeHash
  <2>2. FALSE
    BY <2>1, KindsOfHashesDiffer
  <2>. QED BY <2>2
<1>. QED BY <1>1, <1>2, <1>3

LEMMA InternalNode ==
  ASSUME NEW values, NEW node, NEW path, NEW p, NEW l, NEW r,
         NodeHash(values, node, path) = HashInternal(p, l, r)
  PROVE  /\ Parts(values, path)
         /\ p = Shared(Under(values, path), Len(path))
         /\ l = node[Child(path, p, 0)] /\ r = node[Child(path, p, 1)]
<1>. DEFINE keys == Under(values, path)
            s == Shared(keys, Len(path))
            left == node[Child(path, s, 0)]
            right == node[Child(path, s, 1)]
<1>1. CASE keys = {}
  <2>1. NodeHash(values, node, path) = ZeroHash
    BY <1>1 DEF NodeHash
  <2>2. FALSE
    BY <2>1, KindsOfHashesDiffer
  <2>. QED BY <2>2
<1>2. CASE \E k \in keys : keys = {k}
  <2>1. \E k, v : NodeHash(values, node, path) = HashLeaf(k, v)
    BY <1>2 DEF NodeHash
  <2>2. FALSE
    BY <2>1, KindsOfHashesDiffer
  <2>. QED BY <2>2
<1>3. CASE keys # {} /\ ~ \E k \in keys : keys = {k}
  <2>1. NodeHash(values, node, path) = HashInternal(s, left, right)
    BY <1>3 DEF NodeHash, Child
  <2>2. keys # {} /\ \A k : keys # {k}
    BY <1>3
  <2>. HIDE DEF left, right, s, keys
  <2>3. HashInternal(s, left, right) = HashInternal(p, l, r)
    BY <2>1
  <2>4. p = s /\ l = left /\ r = right
    BY <2>3, InternalsDiffer
  <2>. QED BY <2>2, <2>4 DEF left, right, s, keys, Parts
<1>. QED BY <1>1, <1>2, <1>3

-----------------------------------------------------------------------------
(* The walk from the leaf to the root. *)

Start(p, key) == [depth |-> p.depth, hash |-> Leaf(p, key)]

(* at[i] is where the walk is after i nodes. *)
Walks(p, key, at) ==
  /\ Walk(p, key) = at[Len(p.nodes)] /\ at[0] = Start(p, key)
  /\ \A i \in 1 .. Len(p.nodes) : at[i] = Climb(p.nodes[Len(p.nodes) + 1 - i], at[i - 1], key)

(* The recursion of Walk has a solution. *)
LEMMA WalkIs ==
  ASSUME NEW p, Len(p.nodes) \in Nat, NEW key
  PROVE  \E at : Walks(p, key, at)
<1>. DEFINE n == Len(p.nodes)
            At(f, i) == IF i = 0 THEN Start(p, key) ELSE Climb(p.nodes[n + 1 - i], f[i - 1], key)
            Solves(f, m) == f = [i \in 0 .. m |-> At(f, i)]
            Solved == {m \in 0 .. n : \E f : Solves(f, m)}
            at == CHOOSE f : Solves(f, n)
<1>1. n \in Nat
  OBVIOUS
<1>2. 0 \in Solved
  <2>. DEFINE f == [i \in 0 .. 0 |-> Start(p, key)]
  <2>1. \A i \in 0 .. 0 : At(f, i) = Start(p, key)
    OBVIOUS
  <2>2. f = [i \in 0 .. 0 |-> At(f, i)]
    <3>. HIDE DEF At
    <3>. QED BY <2>1
  <2>3. Solves(f, 0)
    BY <2>2
  <2>. HIDE DEF f, Solves, n
  <2>. QED BY <1>1, <2>3
<1>3. ASSUME NEW m \in 1 .. n, m - 1 \in Solved PROVE m \in Solved
  <2>1. PICK f : Solves(f, m - 1)
    BY <1>3
  <2>2. f = [i \in 0 .. (m - 1) |-> At(f, i)]
    BY <2>1
  <2>. DEFINE g == [i \in 0 .. m |-> IF i = m THEN At(f, m) ELSE f[i]]
  <2>3. m \in Nat
    BY <1>1
  <2>. HIDE DEF n
  <2>4. \A i \in 0 .. m : i # m => i \in 0 .. (m - 1) /\ g[i] = f[i]
    BY <2>3
  <2>5. \A i \in 0 .. m : g[i] = At(f, i)
    <3>. TAKE i \in 0 .. m
    <3>1. CASE i = m
      BY <2>3, <3>1
    <3>2. CASE i # m
      <4>1. i \in 0 .. (m - 1) /\ g[i] = f[i]
        BY <2>4, <3>2
      <4>. HIDE DEF g, At
      <4>. QED BY <2>2, <4>1
    <3>. QED BY <3>1, <3>2
  <2>6. \A i \in 0 .. m : At(f, i) = At(g, i)
    <3>. TAKE i \in 0 .. m
    <3>1. i # 0 => i - 1 \in 0 .. m /\ i - 1 # m
      BY <2>3
    <3>2. i # 0 => g[i - 1] = f[i - 1]
      BY <2>4, <3>1
    <3>. HIDE DEF g
    <3>. QED BY <3>2
  <2>7. g = [i \in 0 .. m |-> g[i]]
    OBVIOUS
  <2>8. Solves(g, m)
    <3>. HIDE DEF g, At
    <3>. QED BY <2>5, <2>6, <2>7
  <2>. HIDE DEF g, Solves
  <2>. QED BY <1>1, <2>8
<1>4. n \in Solved
  <2>. HIDE DEF Solved, n
  <2>1. \A m \in 0 .. n : m \in Solved
    BY <1>1, <1>2, <1>3, UpTo
  <2>. QED BY <1>1, <2>1
<1>5. Solves(at, n)
  <2>. HIDE DEF Solves
  <2>. QED BY <1>4
<1>6. Walk(p, key) = at[n]
  BY DEF Walk, Start
<1>. HIDE DEF at
<1>7. \A i \in 0 .. n : at[i] = At(at, i)
  <2>1. at = [i \in 0 .. n |-> At(at, i)]
    BY <1>5
  <2>. HIDE DEF At
  <2>. QED BY <2>1
<1>8. at[0] = Start(p, key) /\ \A i \in 1 .. n : at[i] = Climb(p.nodes[n + 1 - i], at[i - 1], key)
  <2>1. 0 \in 0 .. n /\ \A i \in 1 .. n : i \in 0 .. n /\ i # 0
    BY <1>1
  <2>. HIDE DEF n
  <2>. QED BY <1>7, <2>1
<1>9. Walks(p, key, at)
  BY <1>6, <1>8 DEF Walks
<1>. QED BY <1>9

LEMMA ClimbDepth ==
  ASSUME NEW step, Len(step.prefix) \in Nat, NEW at, at.depth \in Int, NEW key
  PROVE  Climb(step, at, key).depth \in Int
BY DEF Climb

(* A step of the walk that arrives at a node of the tree left from the     *)
(* next one on the way to the key.                                         *)
LEMMA ClimbFacts ==
  ASSUME NEW values, DOMAIN values \subseteq Key, NEW key \in Key, NEW node,
         IsTree(values, node), NEW step, Len(step.prefix) \in Nat, NEW at, at.depth \in Int,
         NEW depth \in 0 .. Bits, Climb(step, at, key) = [depth |-> depth, hash |-> node[PathTo(key, depth)]]
  PROVE  at.depth \in 0 .. Bits /\ at.hash = node[PathTo(key, at.depth)]
<1>. DEFINE n == Len(step.prefix)
            side == at.depth - 1
            path == PathTo(key, depth)
<1>1. at.depth >= n + 1 /\ HasPrefix(step.prefix, key, side - n) /\ depth = side - n
  BY UrkelAssumption DEF Climb
<1>2. node[path] = IF HasBit(key, side) THEN HashInternal(step.prefix, step.hash, at.hash)
                                        ELSE HashInternal(step.prefix, at.hash, step.hash)
  BY <1>1 DEF Climb
<1>3. path \in Paths /\ path \in Seq(Bit) /\ Len(path) = depth
  BY PathsToKeys
<1>. HIDE DEF path
<1>4. NodeHash(values, node, path) = node[path]
  BY <1>3 DEF IsTree
<1>5. /\ Parts(values, path)
      /\ step.prefix = Shared(Under(values, path), Len(path))
      /\ at.hash = node[Child(path, step.prefix, IF HasBit(key, side) THEN 1 ELSE 0)]
  <2>. DEFINE prefix == step.prefix
              below == at.hash
              beside == step.hash
  <2>1. node[path] = IF HasBit(key, side) THEN HashInternal(prefix, beside, below)
                                          ELSE HashInternal(prefix, below, beside)
    BY <1>2
  <2>. HIDE DEF side, prefix, below, beside
  <2>2. CASE HasBit(key, side)
    <3>1. NodeHash(values, node, path) = HashInternal(prefix, beside, below)
      BY <1>4, <2>1, <2>2
    <3>2. /\ Parts(values, path) /\ prefix = Shared(Under(values, path), Len(path))
          /\ below = node[Child(path, prefix, 1)]
      BY <3>1, InternalNode
    <3>. QED BY <2>2, <3>2 DEF prefix, below
  <2>3. CASE ~HasBit(key, side)
    <3>1. NodeHash(values, node, path) = HashInternal(prefix, below, beside)
      BY <1>4, <2>1, <2>3
    <3>2. /\ Parts(values, path) /\ prefix = Shared(Under(values, path), Len(path))
          /\ below = node[Child(path, prefix, 0)]
      BY <3>1, InternalNode
    <3>. QED BY <2>3, <3>2 DEF prefix, below
  <2>. QED BY <2>2, <2>3
<1>6. depth + n < Bits /\ side = depth + n /\ side \in Nat
  <2>1. Len(path) + Len(Shared(Under(values, path), Len(path))) < Bits
    BY <1>3, <1>5, SharedEnds
  <2>2. depth + n < Bits
    BY <1>3, <1>5, <2>1
  <2>. QED BY <1>1, <2>2
<1>7. step.prefix = SubSeq(key, depth + 1, depth + n)
  <2>1. CASE step.prefix = << >>
    <3>1. n = 0 /\ depth + n < depth + 1
      BY <1>6, <2>1
    <3>2. SubSeq(key, depth + 1, depth + n) = << >>
      BY <1>6, <3>1, SubSeqEmpty
    <3>. QED BY <2>1, <3>2
  <2>2. CASE step.prefix # << >>
    BY <1>1, <2>2 DEF HasPrefix
  <2>. QED BY <2>1, <2>2
<1>8. key[side + 1] = IF HasBit(key, side) THEN 1 ELSE 0
  <2>1. side + 1 \in 1 .. Bits
    BY <1>6, UrkelAssumption
  <2>2. key[side + 1] \in Bit /\ Len(key) = Bits
    BY <2>1, KeysAre
  <2>. QED BY <1>6, <2>2 DEF HasBit, Bit
<1>9. Child(path, step.prefix, key[side + 1]) = PathTo(key, side + 1)
  <2>1. path \o SubSeq(key, depth + 1, depth + n) \o <<key[depth + n + 1]>> = PathTo(key, depth + n + 1)
    <3>1. depth \in Nat /\ n \in Nat /\ depth + n < Bits
      BY <1>6, UrkelAssumption
    <3>. HIDE DEF n
    <3>. QED BY <3>1, PathGoesOn DEF path
  <2>. HIDE DEF side
  <2>. QED BY <1>6, <1>7, <2>1 DEF Child
<1>10. at.depth = side + 1 /\ at.depth \in 0 .. Bits
  BY <1>6, UrkelAssumption
<1>. HIDE DEF side
<1>11. at.hash = node[Child(path, step.prefix, key[side + 1])]
  BY <1>5, <1>8
<1>. QED BY <1>9, <1>10, <1>11

(* A walk that ends at the root of a tree starts at the tree's node at the *)
(* proof's depth on the way to the key.                                    *)
LEMMA WalkFacts ==
  ASSUME NEW values, DOMAIN values \subseteq Key, NEW key \in Key, NEW node,
         IsTree(values, node), NEW p, Shaped(p), Walk(p, key) = [depth |-> 0, hash |-> node[<< >>]]
  PROVE  p.depth \in 0 .. Bits /\ Leaf(p, key) = node[PathTo(key, p.depth)]
<1>. DEFINE n == Len(p.nodes)
<1>1. n \in Nat
  BY DEF Shaped
<1>0. PICK at : Walks(p, key, at)
  BY <1>1, WalkIs
<1>2. /\ Walk(p, key) = at[n] /\ at[0] = Start(p, key)
      /\ \A i \in 1 .. n : at[i] = Climb(p.nodes[n + 1 - i], at[i - 1], key)
  BY <1>0 DEF Walks
<1>3. \A i \in 1 .. n : Len(p.nodes[n + 1 - i].prefix) \in Nat
  <2>1. \A i \in 1 .. n : n + 1 - i \in 1 .. n
    BY <1>1
  <2>. QED BY <2>1 DEF Shaped
<1>4. at[0].depth = p.depth /\ p.depth \in Int /\ at[0].hash = Leaf(p, key)
  BY <1>2 DEF Start, Shaped
<1>. HIDE DEF n
<1>5. \A i \in 0 .. n : at[i].depth \in Int
  <2>. DEFINE S == {i \in 0 .. n : at[i].depth \in Int}
  <2>1. 0 \in S
    BY <1>1, <1>4
  <2>2. ASSUME NEW i \in 1 .. n, i - 1 \in S PROVE i \in S
    <3>1. at[i - 1].depth \in Int /\ Len(p.nodes[n + 1 - i].prefix) \in Nat
      BY <1>3, <2>2
    <3>2. at[i] = Climb(p.nodes[n + 1 - i], at[i - 1], key)
      BY <1>2
    <3>3. Climb(p.nodes[n + 1 - i], at[i - 1], key).depth \in Int
      BY <3>1, ClimbDepth
    <3>. QED BY <3>2, <3>3
  <2>. HIDE DEF S
  <2>3. \A i \in 0 .. n : i \in S
    BY <1>1, <2>1, <2>2, UpTo
  <2>. QED BY <2>3 DEF S
<1>. DEFINE OnTheWay(a) == a = [depth |-> a.depth, hash |-> a.hash] /\ a.depth \in 0 .. Bits
                           /\ a.hash = node[PathTo(key, a.depth)]
<1>6. OnTheWay(at[n])
  <2>1. at[n].depth = 0 /\ at[n].hash = node[<< >>] /\ at[n] = [depth |-> 0, hash |-> node[<< >>]]
    BY <1>2 DEF n
  <2>2. PathTo(key, 0) = << >>
    BY SubSeqEmpty DEF PathTo
  <2>. QED BY <2>1, <2>2, UrkelAssumption
<1>7. ASSUME NEW i \in 1 .. n, OnTheWay(at[i]) PROVE OnTheWay(at[i - 1])
  <2>1. /\ at[i - 1].depth \in Int /\ Len(p.nodes[n + 1 - i].prefix) \in Nat
        /\ at[i] = Climb(p.nodes[n + 1 - i], at[i - 1], key)
    BY <1>1, <1>2, <1>3, <1>5
  <2>2. Climb(p.nodes[n + 1 - i], at[i - 1], key) = [depth |-> at[i].depth, hash |-> node[PathTo(key, at[i].depth)]]
    BY <1>7, <2>1
  <2>3. at[i - 1].depth \in 0 .. Bits /\ at[i - 1].hash = node[PathTo(key, at[i - 1].depth)]
    <3>. DEFINE a == at[i - 1]
                d == at[i].depth
                step == p.nodes[n + 1 - i]
    <3>1. d \in 0 .. Bits /\ a.depth \in Int /\ Len(step.prefix) \in Nat
      BY <1>7, <2>1
    <3>2. Climb(step, a, key) = [depth |-> d, hash |-> node[PathTo(key, d)]]
      BY <2>2
    <3>. HIDE DEF a, d, step
    <3>3. a.depth \in 0 .. Bits /\ a.hash = node[PathTo(key, a.depth)]
      BY <3>1, <3>2, ClimbFacts
    <3>. QED BY <3>3 DEF a
  <2>4. at[i - 1] = [depth |-> at[i - 1].depth, hash |-> at[i - 1].hash]
    <3>1. CASE i - 1 = 0
      BY <1>2, <3>1 DEF Start
    <3>2. CASE i - 1 # 0
      <4>1. i - 1 \in 1 .. n
        BY <1>1, <3>2
      <4>2. at[i - 1] = Climb(p.nodes[n + 1 - (i - 1)], at[(i - 1) - 1], key)
        BY <1>2, <4>1
      <4>. QED BY <4>2 DEF Climb
    <3>. QED BY <3>1, <3>2
  <2>. QED BY <2>3, <2>4
<1>. HIDE DEF OnTheWay
<1>8. OnTheWay(at[0])
  <2>. DEFINE S == {i \in 0 .. n : OnTheWay(at[n - i])}
  <2>1. 0 \in S
    BY <1>1, <1>6
  <2>2. ASSUME NEW i \in 1 .. n, i - 1 \in S PROVE i \in S
    <3>1. n - (i - 1) \in 1 .. n /\ (n - (i - 1)) - 1 = n - i /\ i \in 0 .. n
      BY <1>1
    <3>2. OnTheWay(at[n - (i - 1)])
      BY <2>2
    <3>3. OnTheWay(at[(n - (i - 1)) - 1])
      BY <1>7, <3>1, <3>2
    <3>. QED BY <3>1, <3>3
  <2>3. n \in S
    <3>1. \A i \in 1 .. n : i - 1 \in S => i \in S
      BY <2>2
    <3>. HIDE DEF S
    <3>2. \A i \in 0 .. n : i \in S
      BY <1>1, <2>1, <3>1, UpTo
    <3>3. n \in 0 .. n
      BY <1>1
    <3>. QED BY <3>2, <3>3
  <2>. QED BY <1>1, <2>3
<1>. QED BY <1>4, <1>8 DEF OnTheWay

(* An inclusion that verifies gives the value the tree has at the key, and *)
(* an exclusion that verifies shows that it has none (UrkelProof::verify). *)
THEOREM VerifiedIsTrue ==
  ASSUME NEW values, DOMAIN values \subseteq Key, NEW key \in Key,
         NEW p, Shaped(p), p.kind \in Kinds, Verify(p, RootOf(values), key)
  PROVE  IF Inclusion(p) THEN key \in DOMAIN values /\ values[key] = p.body.value
                         ELSE key \notin DOMAIN values
<1>1. PICK node : RootOf(values) = node[<< >>] /\ IsTree(values, node)
  BY TreeIs
<1>. DEFINE path == PathTo(key, p.depth)
            keys == Under(values, path)
<1>2. p.depth \in 0 .. Bits /\ Leaf(p, key) = node[path]
  BY <1>1, WalkFacts DEF Verify
<1>3. path \in Paths /\ path \in Seq(Bit) /\ Len(path) = p.depth
  BY <1>2, PathsToKeys
<1>4. Leaf(p, key) = NodeHash(values, node, path)
  BY <1>1, <1>2, <1>3 DEF IsTree
<1>5. key \in keys <=> key \in DOMAIN values
  BY <1>3 DEF Under, PathTo
<1>6. CASE p.kind = "exists"
  <2>1. NodeHash(values, node, path) = HashLeaf(key, p.body.value)
    BY <1>4, <1>6 DEF Leaf
  <2>2. keys = {key} /\ values[key] = p.body.value
    <3>. HIDE DEF path
    <3>. QED BY <2>1, LeafNode
  <2>. QED BY <1>5, <1>6, <2>2 DEF Inclusion
<1>7. CASE p.kind = "deadend"
  <2>1. NodeHash(values, node, path) = ZeroHash
    BY <1>4, <1>7 DEF Leaf
  <2>2. keys = {}
    BY <2>1, EmptyNode
  <2>. QED BY <1>5, <1>7, <2>2 DEF Inclusion
<1>8. CASE p.kind = "collision"
  <2>1. NodeHash(values, node, path) = HashLeaf(p.body.key, p.body.value) /\ p.body.key # key
    BY <1>4, <1>8 DEF Leaf, Verify, RefutesOwnKey
  <2>2. keys = {p.body.key}
    <3>. HIDE DEF path
    <3>. QED BY <2>1, LeafNode
  <2>. QED BY <1>5, <1>8, <2>1, <2>2 DEF Inclusion
<1>9. CASE p.kind = "short"
  <2>. DEFINE s == p.body.prefix
  <2>1. /\ NodeHash(values, node, path) = HashInternal(s, p.body.left, p.body.right)
        /\ ~HasPrefix(s, key, p.depth)
    BY <1>4, <1>9 DEF Leaf, Verify, RefutesOwnKey
  <2>. HIDE DEF path
  <2>2. keys # {} /\ s = Shared(keys, Len(path))
    <3>. DEFINE left == p.body.left
                right == p.body.right
    <3>1. NodeHash(values, node, path) = HashInternal(s, left, right)
      BY <2>1
    <3>. HIDE DEF s, left, right
    <3>2. Parts(values, path) /\ s = Shared(Under(values, path), Len(path))
      BY <3>1, InternalNode
    <3>. QED BY <3>2 DEF Parts
  <2>3. keys \in SUBSET Key
    BY DEF Under
  <2>. HIDE DEF s, keys
  <2>4. p.depth + Len(s) <= Bits /\ \A k \in keys : SubSeq(k, p.depth + 1, p.depth + Len(s)) = s
    BY <1>2, <1>3, <2>2, <2>3, SharedFacts
  <2>5. Len(key) = Bits
    BY KeysAre
  <2>6. key \notin keys
    BY <2>1, <2>4, <2>5 DEF HasPrefix
  <2>. QED BY <1>5, <1>9, <2>6 DEF Inclusion
<1>. QED BY <1>6, <1>7, <1>8, <1>9 DEF Kinds

-----------------------------------------------------------------------------
(* The connection. *)

AnyFrame == UNION {Frame[j.kind] : j \in Jobs}
AnyPacket == {f.packet : f \in AnyFrame}
Cell == AnyFrame \X Nat

(* What is left of a sequence without its first n elements. *)
Drop(s, n) == SubSeq(s, n + 1, Len(s))

LEMMA DropFacts ==
  ASSUME NEW S, NEW s \in Seq(S), NEW n \in 0 .. Len(s)
  PROVE  /\ Drop(s, n) \in Seq(S) /\ Len(Drop(s, n)) = Len(s) - n
         /\ \A i \in 1 .. Len(s) - n : Drop(s, n)[i] = s[n + i]
<1>1. Len(s) \in Nat /\ \A i \in n + 1 .. Len(s) : s[i] \in S
  BY LenProperties, ElementOfSeq
<1>. DEFINE from == n + 1
            to == Len(s)
            d == SubSeq(s, from, to)
<1>2. from \in Int /\ to \in Int /\ \A i \in from .. to : s[i] \in S
  BY <1>1
<1>3. Drop(s, n) = d
  BY DEF Drop
<1>. HIDE DEF from, to
<1>4. /\ d \in Seq(S) /\ Len(d) = IF from <= to THEN to - from + 1 ELSE 0
      /\ \A i \in 1 .. to - from + 1 : d[i] = s[from + i - 1]
  BY <1>2, SubSeqProperties
<1>. HIDE DEF d
<1>5. /\ to - from + 1 = Len(s) - n /\ (IF from <= to THEN to - from + 1 ELSE 0) = Len(s) - n
      /\ \A i \in 1 .. Len(s) - n : from + i - 1 = n + i
  BY <1>1 DEF from, to
<1>. QED BY <1>3, <1>4, <1>5

LEMMA DropOfConcat ==
  ASSUME NEW S, NEW a \in Seq(S), NEW b \in Seq(S), NEW n \in 0 .. Len(a)
  PROVE  Drop(a \o b, n) = Drop(a, n) \o b
<1>. DEFINE ab == a \o b
            l == Drop(ab, n)
            da == Drop(a, n)
            r == da \o b
<1>1. /\ ab \in Seq(S) /\ Len(ab) = Len(a) + Len(b) /\ Len(a) \in Nat /\ Len(b) \in Nat
      /\ \A i \in 1 .. Len(a) + Len(b) : ab[i] = IF i <= Len(a) THEN a[i] ELSE b[i - Len(a)]
  BY ConcatProperties, LenProperties
<1>. HIDE DEF ab
<1>2. /\ l \in Seq(S) /\ Len(l) = Len(ab) - n /\ \A i \in 1 .. Len(ab) - n : l[i] = ab[n + i]
  <2>1. n \in 0 .. Len(ab)
    BY <1>1
  <2>2. ab \in Seq(S)
    BY <1>1
  <2>. QED BY <2>1, <2>2, DropFacts
<1>3. /\ da \in Seq(S) /\ Len(da) = Len(a) - n /\ \A i \in 1 .. Len(a) - n : da[i] = a[n + i]
  BY DropFacts
<1>. HIDE DEF l, da
<1>4. /\ r \in Seq(S) /\ Len(r) = Len(da) + Len(b)
      /\ \A i \in 1 .. Len(da) + Len(b) : r[i] = IF i <= Len(da) THEN da[i] ELSE b[i - Len(da)]
  BY <1>3, ConcatProperties
<1>. HIDE DEF r
<1>5. ASSUME NEW i \in 1 .. Len(l) PROVE l[i] = r[i]
  <2>1. i \in 1 .. Len(ab) - n /\ n + i \in 1 .. Len(a) + Len(b) /\ i \in 1 .. Len(da) + Len(b)
    BY <1>1, <1>2, <1>3
  <2>2. l[i] = IF n + i <= Len(a) THEN a[n + i] ELSE b[n + i - Len(a)]
    BY <1>1, <1>2, <2>1
  <2>3. r[i] = IF i <= Len(a) - n THEN da[i] ELSE b[i - (Len(a) - n)]
    BY <1>3, <1>4, <2>1
  <2>4. i - (Len(a) - n) = n + i - Len(a) /\ (i <= Len(a) - n <=> n + i <= Len(a))
    BY <1>1
  <2>5. i <= Len(a) - n => da[i] = a[n + i]
    BY <1>1, <1>3
  <2>. QED BY <2>2, <2>3, <2>4, <2>5
<1>6. Len(l) = Len(r)
  BY <1>1, <1>2, <1>3, <1>4
<1>7. l = r
  BY <1>2, <1>4, <1>5, <1>6, SeqEqual
<1>. QED BY <1>7 DEF ab, l, da, r

LEMMA DropFirst ==
  ASSUME NEW S, NEW a \in Seq(S), NEW b \in Seq(S)
  PROVE  Drop(a \o b, Len(a)) = b
<1>1. Len(a) \in 0 .. Len(a) /\ Len(a) \in Int /\ Len(a) + 1 \in Int /\ Len(a) < Len(a) + 1
  BY LenProperties
<1>2. Drop(a, Len(a)) = << >>
  BY <1>1, SubSeqEmpty DEF Drop
<1>3. Drop(a \o b, Len(a)) = Drop(a, Len(a)) \o b
  BY <1>1, DropOfConcat
<1>4. << >> \o b = b
  BY ConcatEmptySeq
<1>. QED BY <1>2, <1>3, <1>4

LEMMA DropTwice ==
  ASSUME NEW S, NEW s \in Seq(S), NEW m \in 0 .. Len(s), NEW n \in 0 .. Len(s) - m
  PROVE  m + n \in 0 .. Len(s) /\ Drop(Drop(s, m), n) = Drop(s, m + n)
<1>. DEFINE d == Drop(s, m)
            l == Drop(d, n)
            r == Drop(s, m + n)
<1>1. Len(s) \in Nat /\ m + n \in 0 .. Len(s)
  BY LenProperties
<1>2. /\ d \in Seq(S) /\ Len(d) = Len(s) - m /\ \A i \in 1 .. Len(s) - m : d[i] = s[m + i]
  BY DropFacts
<1>3. /\ r \in Seq(S) /\ Len(r) = Len(s) - (m + n)
      /\ \A i \in 1 .. Len(s) - (m + n) : r[i] = s[m + n + i]
  BY <1>1, DropFacts
<1>. HIDE DEF d
<1>4. /\ l \in Seq(S) /\ Len(l) = Len(d) - n /\ \A i \in 1 .. Len(d) - n : l[i] = d[n + i]
  <2>1. n \in 0 .. Len(d)
    BY <1>2
  <2>2. d \in Seq(S)
    BY <1>2
  <2>. QED BY <2>1, <2>2, DropFacts
<1>. HIDE DEF l, r
<1>5. ASSUME NEW i \in 1 .. Len(l) PROVE l[i] = r[i]
  <2>1. /\ i \in 1 .. Len(d) - n /\ n + i \in 1 .. Len(s) - m /\ i \in 1 .. Len(s) - (m + n)
        /\ m + (n + i) = m + n + i
    BY <1>1, <1>2, <1>4
  <2>. QED BY <1>2, <1>3, <1>4, <2>1
<1>6. Len(l) = Len(r)
  BY <1>1, <1>2, <1>3, <1>4
<1>7. l = r
  BY <1>3, <1>4, <1>5, <1>6, SeqEqual
<1>. QED
  <2>. USE DEF l, r, d
  <2>. QED BY <1>1, <1>7

LEMMA DropNone ==
  ASSUME NEW S, NEW s \in Seq(S)
  PROVE  Drop(s, 0) = s
BY SubSeqFull DEF Drop

-----------------------------------------------------------------------------
(* Frames and their cells. *)

LEMMA CellsAre ==
  ASSUME NEW f \in AnyFrame
  PROVE  /\ f.length \in Nat /\ Cells(f) \in Seq(Cell)
         /\ Len(Cells(f)) = f.length + 1 /\ Cells(f)[1] = <<f, 0>>
<1>1. f.length \in Nat
  BY FrameAssumption DEF AnyFrame
<1>. DEFINE n == f.length + 1
<1>2. \A i \in 1 .. n : <<f, i - 1>> \in Cell
  BY <1>1 DEF Cell
<1>3. n \in Nat /\ 1 \in 1 .. n
  BY <1>1
<1>4. Cells(f) = [i \in 1 .. n |-> <<f, i - 1>>]
  BY DEF Cells, HeaderCells
<1>. HIDE DEF n
<1>5. Cells(f) \in [1 .. n -> Cell] /\ Cells(f)[1] = <<f, 0>>
  BY <1>2, <1>3, <1>4
<1>6. Cells(f) \in Seq(Cell) /\ Len(Cells(f)) = n
  BY <1>3, <1>5
<1>. QED BY <1>1, <1>5, <1>6 DEF n

(* The recursion of FlattenSeq has a solution. *)
LEMMA FlattenIs ==
  ASSUME NEW seqs, Len(seqs) \in Nat \ {0}
  PROVE  \E flat :
           /\ FlattenSeq(seqs) = flat[Len(seqs)] /\ flat[1] = seqs[1]
           /\ \A i \in 2 .. Len(seqs) : flat[i] = flat[i - 1] \o seqs[i]
<1>. DEFINE n == Len(seqs)
            At(f, i) == IF i = 1 THEN seqs[i] ELSE f[i - 1] \o seqs[i]
            Solves(f, m) == f = [i \in 1 .. m |-> At(f, i)]
            Solved == {m \in 0 .. n : \E f : Solves(f, m)}
            flat == CHOOSE f : Solves(f, n)
<1>1. n \in Nat /\ n # 0
  OBVIOUS
<1>2. 0 \in Solved
  <2>. DEFINE f == [i \in {} |-> << >>]
  <2>1. 1 .. 0 = {}
    OBVIOUS
  <2>2. [i \in 1 .. 0 |-> At(f, i)] = f
    BY <2>1
  <2>. HIDE DEF f
  <2>3. Solves(f, 0)
    BY <2>2
  <2>. HIDE DEF Solves, n
  <2>. QED BY <1>1, <2>3
<1>3. ASSUME NEW m \in 1 .. n, m - 1 \in Solved PROVE m \in Solved
  <2>1. PICK f : Solves(f, m - 1)
    BY <1>3
  <2>2. f = [i \in 1 .. (m - 1) |-> At(f, i)]
    BY <2>1
  <2>. DEFINE g == [i \in 1 .. m |-> IF i = m THEN At(f, m) ELSE f[i]]
  <2>3. m \in Nat
    BY <1>1
  <2>. HIDE DEF n
  <2>4. \A i \in 1 .. m : i # m => i \in 1 .. (m - 1) /\ g[i] = f[i]
    BY <2>3
  <2>5. \A i \in 1 .. m : g[i] = At(f, i)
    <3>. TAKE i \in 1 .. m
    <3>1. CASE i = m
      BY <2>3, <3>1
    <3>2. CASE i # m
      <4>1. i \in 1 .. (m - 1) /\ g[i] = f[i]
        BY <2>4, <3>2
      <4>. HIDE DEF g, At
      <4>. QED BY <2>2, <4>1
    <3>. QED BY <3>1, <3>2
  <2>6. \A i \in 1 .. m : At(f, i) = At(g, i)
    <3>. TAKE i \in 1 .. m
    <3>1. i # 1 => i - 1 \in 1 .. m /\ i - 1 # m
      BY <2>3
    <3>2. i # 1 => g[i - 1] = f[i - 1]
      BY <2>4, <3>1
    <3>. HIDE DEF g
    <3>. QED BY <3>2
  <2>7. g = [i \in 1 .. m |-> g[i]]
    OBVIOUS
  <2>8. Solves(g, m)
    <3>. HIDE DEF g, At
    <3>. QED BY <2>5, <2>6, <2>7
  <2>. HIDE DEF g, Solves
  <2>. QED BY <1>1, <2>8
<1>4. n \in Solved
  <2>. HIDE DEF Solved, n
  <2>1. \A m \in 0 .. n : m \in Solved
    BY <1>1, <1>2, <1>3, UpTo
  <2>. QED BY <1>1, <2>1
<1>5. Solves(flat, n)
  <2>. HIDE DEF Solves
  <2>. QED BY <1>4
<1>6. FlattenSeq(seqs) = flat[n]
  BY <1>1 DEF FlattenSeq
<1>. HIDE DEF flat
<1>7. \A i \in 1 .. n : flat[i] = At(flat, i)
  <2>1. flat = [i \in 1 .. n |-> At(flat, i)]
    BY <1>5
  <2>. HIDE DEF At
  <2>. QED BY <2>1
<1>8. 1 \in 1 .. n /\ \A i \in 2 .. n : i \in 1 .. n /\ i # 1
  BY <1>1
<1>. QED BY <1>6, <1>7, <1>8

LEMMA CellsOfNone == CellsOf(<< >>) = << >>
<1>1. [i \in DOMAIN << >> |-> Cells(<< >>[i])] = << >>
  OBVIOUS
<1>2. Len(<< >>) = 0
  OBVIOUS
<1>. QED BY <1>1, <1>2 DEF CellsOf, FlattenSeq

LEMMA CellsOfMore ==
  ASSUME NEW s \in Seq(AnyFrame), NEW f \in AnyFrame
  PROVE  CellsOf(Append(s, f)) = CellsOf(s) \o Cells(f)
<1>. DEFINE n == Len(s)
            t == Append(s, f)
            cs == [i \in DOMAIN s |-> Cells(s[i])]
            ct == [i \in DOMAIN t |-> Cells(t[i])]
<1>1. n \in Nat /\ DOMAIN s = 1 .. n
  BY LenProperties
<1>2. DOMAIN t = 1 .. n + 1 /\ t[n + 1] = f /\ \A i \in 1 .. n : t[i] = s[i]
  BY AppendProperties, LenProperties
<1>. HIDE DEF n, t
<1>3. /\ Len(cs) = n /\ Len(ct) = n + 1 /\ ct[n + 1] = Cells(f)
      /\ \A i \in 1 .. n : ct[i] = cs[i]
  BY <1>1, <1>2
<1>4. CellsOf(s) = FlattenSeq(cs) /\ CellsOf(t) = FlattenSeq(ct)
  BY DEF CellsOf
<1>. HIDE DEF cs, ct
<1>5. PICK b : /\ FlattenSeq(ct) = b[n + 1] /\ b[1] = ct[1]
               /\ \A i \in 2 .. n + 1 : b[i] = b[i - 1] \o ct[i]
  <2>1. Len(ct) \in Nat \ {0}
    BY <1>1, <1>3
  <2>2. PICK b : /\ FlattenSeq(ct) = b[Len(ct)] /\ b[1] = ct[1]
                 /\ \A i \in 2 .. Len(ct) : b[i] = b[i - 1] \o ct[i]
    BY <2>1, FlattenIs
  <2>. QED BY <1>3, <2>2
<1>6. CASE n = 0
  <2>1. s = << >>
    BY <1>6, EmptySeq DEF n
  <2>2. CellsOf(t) = Cells(f)
    BY <1>3, <1>4, <1>5, <1>6
  <2>3. << >> \o Cells(f) = Cells(f)
    BY CellsAre, ConcatEmptySeq
  <2>. QED BY <2>1, <2>2, <2>3, CellsOfNone DEF t
<1>7. CASE n # 0
  <2>1. PICK a : /\ FlattenSeq(cs) = a[n] /\ a[1] = cs[1]
                 /\ \A i \in 2 .. n : a[i] = a[i - 1] \o cs[i]
    <3>1. Len(cs) \in Nat \ {0}
      BY <1>1, <1>3, <1>7
    <3>2. PICK a : /\ FlattenSeq(cs) = a[Len(cs)] /\ a[1] = cs[1]
                   /\ \A i \in 2 .. Len(cs) : a[i] = a[i - 1] \o cs[i]
      BY <3>1, FlattenIs
    <3>3. Len(cs) = n
      BY <1>3
    <3>. QED BY <3>2, <3>3
  <2>. DEFINE Same == {i \in 0 .. n : i = 0 \/ a[i] = b[i]}
  <2>2. 0 \in Same
    BY <1>1
  <2>3. ASSUME NEW m \in 1 .. n, m - 1 \in Same PROVE m \in Same
    <3>1. CASE m = 1
      BY <1>1, <1>3, <1>5, <2>1, <3>1
    <3>2. CASE m # 1
      <4>1. m \in 2 .. n /\ m \in 2 .. n + 1 /\ m - 1 # 0 /\ m \in 0 .. n
        BY <1>1, <3>2
      <4>2. /\ a[m] = a[m - 1] \o cs[m] /\ b[m] = b[m - 1] \o ct[m] /\ cs[m] = ct[m]
        BY <1>3, <1>5, <2>1, <4>1
      <4>3. a[m - 1] = b[m - 1]
        BY <2>3, <4>1
      <4>. QED BY <4>1, <4>2, <4>3
    <3>. QED BY <3>1, <3>2
  <2>4. \A m \in 0 .. n : m \in Same
    <3>. HIDE DEF Same
    <3>. QED BY <1>1, <2>2, <2>3, UpTo
  <2>5. a[n] = b[n]
    BY <1>1, <1>7, <2>4
  <2>6. b[n + 1] = b[n] \o Cells(f)
    <3>1. n + 1 \in 2 .. n + 1 /\ (n + 1) - 1 = n
      BY <1>1, <1>7
    <3>. QED BY <1>3, <1>5, <3>1
  <2>. QED BY <1>4, <1>5, <2>1, <2>5, <2>6 DEF t
<1>. QED BY <1>6, <1>7

LEMMA CellsOfTyped ==
  ASSUME NEW s \in Seq(AnyFrame)
  PROVE  CellsOf(s) \in Seq(Cell)
<1>. DEFINE H == {m \in 0 .. Len(s) : \A q \in Seq(AnyFrame) : Len(q) = m => CellsOf(q) \in Seq(Cell)}
<1>1. Len(s) \in Nat
  BY LenProperties
<1>2. 0 \in H
  <2>1. \A q \in Seq(AnyFrame) : Len(q) = 0 => q = << >>
    BY EmptySeq
  <2>. QED BY <1>1, <2>1, CellsOfNone, EmptySeq
<1>3. ASSUME NEW m \in 1 .. Len(s), m - 1 \in H PROVE m \in H
  <2>1. ASSUME NEW q \in Seq(AnyFrame), Len(q) = m PROVE CellsOf(q) \in Seq(Cell)
    <3>1. q # << >>
      BY <1>1, <2>1, EmptySeq
    <3>2. PICK r \in Seq(AnyFrame), f \in AnyFrame : q = Append(r, f)
      BY <3>1, SequenceEmptyOrAppend
    <3>3. Len(r) = m - 1
      BY <2>1, <3>2, <1>1, AppendProperties, LenProperties
    <3>4. CellsOf(r) \in Seq(Cell)
      BY <1>3, <3>3
    <3>5. CellsOf(q) = CellsOf(r) \o Cells(f) /\ Cells(f) \in Seq(Cell)
      BY <3>2, CellsOfMore, CellsAre
    <3>. QED BY <3>4, <3>5, ConcatProperties
  <2>. QED BY <1>1, <2>1
<1>4. Len(s) \in H
  <2>. HIDE DEF H
  <2>1. \A m \in 0 .. Len(s) : m \in H
    BY <1>1, <1>2, <1>3, UpTo
  <2>. QED BY <1>1, <2>1
<1>. QED BY <1>4

LEMMA CellsAssociate ==
  ASSUME NEW a \in Seq(Cell), NEW b \in Seq(Cell), NEW c \in Seq(Cell)
  PROVE  (a \o b) \o c = a \o (b \o c)
BY ConcatAssociative

LEMMA CellsOfFirst ==
  ASSUME NEW s \in Seq(AnyFrame)
  PROVE  s # << >> => CellsOf(s) = Cells(s[1]) \o CellsOf(Tail(s))
<1>. DEFINE Holds(q) == q # << >> => CellsOf(q) = Cells(q[1]) \o CellsOf(Tail(q))
            H == {m \in 0 .. Len(s) : \A q \in Seq(AnyFrame) : Len(q) = m => Holds(q)}
<1>1. Len(s) \in Nat
  BY LenProperties
<1>2. 0 \in H
  <2>1. \A q \in Seq(AnyFrame) : Len(q) = 0 => q = << >>
    BY EmptySeq
  <2>2. Holds(<< >>)
    OBVIOUS
  <2>. HIDE DEF Holds
  <2>. QED BY <1>1, <2>1, <2>2
<1>3. ASSUME NEW m \in 1 .. Len(s), m - 1 \in H PROVE m \in H
  <2>1. ASSUME NEW q \in Seq(AnyFrame), Len(q) = m PROVE Holds(q)
    <3>1. q # << >>
      BY <1>1, <2>1, EmptySeq
    <3>2. PICK r \in Seq(AnyFrame), f \in AnyFrame : q = Append(r, f)
      BY <3>1, SequenceEmptyOrAppend
    <3>3. Len(r) \in Nat /\ Len(q) = Len(r) + 1
      BY <3>2, AppendProperties, LenProperties
    <3>4. Holds(r)
      <4>1. Len(r) = m - 1
        BY <2>1, <3>3, <1>1
      <4>. HIDE DEF Holds
      <4>. QED BY <1>3, <4>1
    <3>5. CellsOf(q) = CellsOf(r) \o Cells(f) /\ Cells(f) \in Seq(Cell)
      BY <3>2, CellsOfMore, CellsAre
    <3>7. CASE r = << >>
      <4>1. q[1] = f /\ Tail(q) = << >>
        BY <3>2, <3>7, HeadTailAppend, AppendProperties
      <4>2. << >> \o Cells(f) = Cells(f) /\ Cells(f) \o << >> = Cells(f)
        BY <3>5, ConcatEmptySeq
      <4>. QED BY <3>5, <3>7, <4>1, <4>2, CellsOfNone
    <3>8. CASE r # << >>
      <4>1. r[1] \in AnyFrame /\ Tail(r) \in Seq(AnyFrame) /\ 1 \in 1 .. Len(r)
        BY <3>3, <3>8, HeadTailProperties, ElementOfSeq, EmptySeq
      <4>2. q[1] = r[1] /\ Tail(q) = Append(Tail(r), f)
        BY <3>2, <3>8, <4>1, HeadTailAppend, AppendProperties
      <4>3. Cells(r[1]) \in Seq(Cell) /\ CellsOf(Tail(r)) \in Seq(Cell)
        BY <4>1, CellsAre, CellsOfTyped
      <4>4. CellsOf(q) = (Cells(r[1]) \o CellsOf(Tail(r))) \o Cells(f)
        BY <3>4, <3>5, <3>8
      <4>5. CellsOf(Tail(q)) = CellsOf(Tail(r)) \o Cells(f)
        BY <4>1, <4>2, CellsOfMore
      <4>6. CellsOf(q) = Cells(r[1]) \o (CellsOf(Tail(r)) \o Cells(f))
        <5>. DEFINE x == Cells(r[1])
                    y == CellsOf(Tail(r))
                    z == Cells(f)
        <5>1. x \in Seq(Cell) /\ y \in Seq(Cell) /\ z \in Seq(Cell) /\ CellsOf(q) = (x \o y) \o z
          BY <3>5, <4>3, <4>4
        <5>. HIDE DEF x, y, z
        <5>2. (x \o y) \o z = x \o (y \o z)
          BY <5>1, CellsAssociate
        <5>3. CellsOf(q) = x \o (y \o z)
          BY <5>1, <5>2, Zenon
        <5>. QED BY <5>3 DEF x, y, z
      <4>. QED BY <4>2, <4>5, <4>6
    <3>. QED BY <3>7, <3>8
  <2>. HIDE DEF Holds
  <2>. QED BY <1>1, <2>1
<1>4. Len(s) \in H
  <2>. HIDE DEF H
  <2>1. \A m \in 0 .. Len(s) : m \in H
    BY <1>1, <1>2, <1>3, UpTo
  <2>. QED BY <1>1, <2>1
<1>. QED BY <1>4
LEMMA PacketsAre ==
  ASSUME NEW s \in Seq(AnyFrame)
  PROVE  /\ PacketsOf(s) \in Seq(AnyPacket) /\ Len(PacketsOf(s)) = Len(s)
         /\ \A i \in 1 .. Len(s) : PacketsOf(s)[i] = s[i].packet
<1>. DEFINE n == Len(s)
<1>1. n \in Nat /\ DOMAIN s = 1 .. n /\ \A i \in 1 .. n : s[i] \in AnyFrame
  BY LenProperties, ElementOfSeq
<1>2. \A i \in 1 .. n : s[i].packet \in AnyPacket
  BY <1>1 DEF AnyPacket
<1>. HIDE DEF n
<1>3. PacketsOf(s) = [i \in 1 .. n |-> s[i].packet]
  BY <1>1 DEF PacketsOf
<1>4. PacketsOf(s) \in [1 .. n -> AnyPacket]
  BY <1>2, <1>3
<1>5. PacketsOf(s) \in Seq(AnyPacket) /\ Len(PacketsOf(s)) = n
  BY <1>1, <1>4
<1>. QED BY <1>3, <1>5 DEF n

(* The packets of some frames of a sequence and of the next one. *)
LEMMA PacketsOfFirst ==
  ASSUME NEW s \in Seq(AnyFrame), s # << >>, NEW k \in 0 .. Len(s) - 1
  PROVE  PacketsOf(SubSeq(s, 1, k + 1)) = <<s[1].packet>> \o PacketsOf(SubSeq(Tail(s), 1, k))
<1>. DEFINE t == SubSeq(s, 1, k + 1)
            u == SubSeq(Tail(s), 1, k)
            p == <<s[1].packet>>
            l == PacketsOf(t)
            q == PacketsOf(u)
            r == p \o q
<1>1. /\ Len(s) \in Nat /\ k \in Nat /\ k + 1 <= Len(s) /\ \A i \in 1 .. k + 1 : s[i] \in AnyFrame
      /\ 1 \in Int /\ k \in Int /\ k + 1 \in Int
  BY LenProperties, ElementOfSeq
<1>2. \A i \in 1 .. k : Tail(s)[i] = s[i + 1] /\ Tail(s)[i] \in AnyFrame
  BY <1>1, HeadTailProperties
<1>3. /\ t \in Seq(AnyFrame) /\ Len(t) = k + 1 /\ \A i \in 1 .. k + 1 : t[i] = s[i]
  <2>1. /\ t \in Seq(AnyFrame) /\ Len(t) = IF 1 <= k + 1 THEN k + 1 - 1 + 1 ELSE 0
        /\ \A i \in 1 .. k + 1 - 1 + 1 : t[i] = s[1 + i - 1]
    BY <1>1, SubSeqProperties
  <2>. HIDE DEF t
  <2>. QED BY <1>1, <2>1
<1>4. /\ u \in Seq(AnyFrame) /\ Len(u) = k /\ \A i \in 1 .. k : u[i] = s[i + 1]
  <2>1. /\ u \in Seq(AnyFrame) /\ Len(u) = IF 1 <= k THEN k - 1 + 1 ELSE 0
        /\ \A i \in 1 .. k - 1 + 1 : u[i] = Tail(s)[1 + i - 1]
    BY <1>1, <1>2, SubSeqProperties
  <2>. HIDE DEF u
  <2>. QED BY <1>1, <1>2, <2>1
<1>. HIDE DEF t, u
<1>5. /\ l \in Seq(AnyPacket) /\ Len(l) = k + 1 /\ \A i \in 1 .. k + 1 : l[i] = s[i].packet
  BY <1>1, <1>3, PacketsAre
<1>6. q \in Seq(AnyPacket) /\ Len(q) = k /\ \A i \in 1 .. k : q[i] = s[i + 1].packet
  BY <1>1, <1>4, PacketsAre
<1>7. p \in Seq(AnyPacket) /\ Len(p) = 1 /\ p[1] = s[1].packet
  BY <1>1 DEF AnyPacket
<1>. HIDE DEF p, l, q
<1>8. /\ r \in Seq(AnyPacket) /\ Len(r) = k + 1
      /\ \A i \in 1 .. k + 1 : r[i] = IF i <= 1 THEN p[i] ELSE q[i - 1]
  <2>1. /\ r \in Seq(AnyPacket) /\ Len(r) = Len(p) + Len(q)
        /\ \A i \in 1 .. Len(p) + Len(q) : r[i] = IF i <= Len(p) THEN p[i] ELSE q[i - Len(p)]
    BY <1>6, <1>7, ConcatProperties
  <2>. HIDE DEF r
  <2>2. Len(p) + Len(q) = k + 1
    BY <1>1, <1>6, <1>7
  <2>. QED BY <1>7, <2>1, <2>2
<1>. HIDE DEF r
<1>9. ASSUME NEW i \in 1 .. k + 1 PROVE l[i] = r[i]
  <2>1. CASE i = 1
    BY <1>1, <1>5, <1>7, <1>8, <2>1
  <2>2. CASE i # 1
    <3>1. i - 1 \in 1 .. k /\ i - 1 + 1 = i /\ ~(i <= 1)
      BY <1>1, <2>2
    <3>. QED BY <1>5, <1>6, <1>8, <3>1
  <2>. QED BY <2>1, <2>2
<1>10. l = r
  BY <1>1, <1>5, <1>8, <1>9, SeqEqual
<1>. QED BY <1>10 DEF l, r, t, u, p, q

-----------------------------------------------------------------------------
(* The decoder. *)

LEMMA DecodeFrameIs ==
  ASSUME NEW cells \in Seq(Cell)
  PROVE  \/ DecodeFrame(cells) = Wait
         \/ DecodeFrame(cells) = Refused
         \/ \E f \in AnyFrame :
              /\ cells # << >> /\ cells[1] = <<f, 0>> /\ f.length + 1 <= Len(cells)
              /\ DecodeFrame(cells) = [step |-> "packet", packet |-> f.packet, used |-> f.length + 1]
<1>. SUFFICES ASSUME cells # << >> PROVE DecodeFrame(cells) = Wait \/ DecodeFrame(cells) = Refused
         \/ \E f \in AnyFrame :
              /\ cells[1] = <<f, 0>> /\ f.length + 1 <= Len(cells)
              /\ DecodeFrame(cells) = [step |-> "packet", packet |-> f.packet, used |-> f.length + 1]
  BY DEF DecodeFrame
<1>1. cells[1] \in Cell /\ Len(cells) \in Nat
  BY LenProperties, EmptySeq, ElementOfSeq
<1>2. PICK f \in AnyFrame, i \in Nat : cells[1] = <<f, i>>
  BY <1>1 DEF Cell
<1>3. f.length \in Nat
  BY CellsAre
<1>4. cells[1][1] = f /\ cells[1][2] = i
  BY <1>2
<1>5. CASE i # 0 \/ f.magic # "ours" \/ f.length > MaxMessage
  BY <1>4, <1>5 DEF DecodeFrame
<1>6. CASE i = 0 /\ ~(i # 0 \/ f.magic # "ours" \/ f.length > MaxMessage)
  <2>1. CASE Len(cells) < f.length + HeaderCells
    BY <1>4, <1>6, <2>1 DEF DecodeFrame
  <2>2. CASE ~(Len(cells) < f.length + HeaderCells)
    <3>1. f.length + 1 <= Len(cells)
      BY <1>1, <1>3, <2>2 DEF HeaderCells
    <3>2. CASE DecodesPayload(f)
      <4>1. DecodeFrame(cells) = [step |-> "packet", packet |-> f.packet, used |-> f.length + HeaderCells]
        BY <1>4, <1>6, <2>2, <3>2 DEF DecodeFrame
      <4>. QED BY <1>2, <1>6, <3>1, <4>1 DEF HeaderCells
    <3>3. CASE ~DecodesPayload(f)
      BY <1>4, <1>6, <2>2, <3>3 DEF DecodeFrame
    <3>. QED BY <3>2, <3>3
  <2>. QED BY <2>1, <2>2
<1>. QED BY <1>5, <1>6

(* It takes the frame there and goes on after it. *)
OneFrameOn(cells, after, from, d) ==
  \E f \in AnyFrame :
    /\ from <= Len(cells) /\ cells[from] = <<f, 0>> /\ from + f.length + 1 \in from + 1 .. Len(cells) + 1
    /\ d = [after[from + f.length + 1] EXCEPT !.packets = <<f.packet>> \o @]

LEMMA DecodedFromIs ==
  ASSUME NEW cells \in Seq(Cell), NEW after, NEW from \in 1 .. Len(cells) + 1
  PROVE  \/ DecodedFrom(cells, after, from) = [ok |-> TRUE, packets |-> << >>, used |-> from - 1]
         \/ DecodedFrom(cells, after, from) = [ok |-> FALSE, packets |-> << >>, used |-> 0]
         \/ OneFrameOn(cells, after, from, DecodedFrom(cells, after, from))
<1>. DEFINE n == Len(cells)
            c == SubSeq(cells, from, n)
<1>1. n \in Nat
  BY LenProperties
<1>2. /\ c \in Seq(Cell) /\ Len(c) = n - (from - 1) /\ \A i \in 1 .. n - (from - 1) : c[i] = cells[from - 1 + i]
  <2>1. from - 1 \in 0 .. n /\ from - 1 + 1 = from
    BY <1>1
  <2>2. c = Drop(cells, from - 1)
    BY <2>1 DEF Drop
  <2>. QED BY <2>1, <2>2, DropFacts
<1>. HIDE DEF c
<1>3. CASE DecodeFrame(c) = Wait
  BY <1>3 DEF DecodedFrom, Wait, c
<1>4. CASE DecodeFrame(c) = Refused
  BY <1>4 DEF DecodedFrom, Refused, c
<1>5. ASSUME NEW f \in AnyFrame, c # << >>, c[1] = <<f, 0>>, f.length + 1 <= Len(c),
             DecodeFrame(c) = [step |-> "packet", packet |-> f.packet, used |-> f.length + 1]
      PROVE  OneFrameOn(cells, after, from, DecodedFrom(cells, after, from))
  <2>1. f.length \in Nat
    BY CellsAre
  <2>2. from <= n /\ from + f.length + 1 \in from + 1 .. n + 1 /\ from + (f.length + 1) = from + f.length + 1
        /\ 1 \in 1 .. n - (from - 1) /\ from - 1 + 1 = from
    <3>. DEFINE l == f.length
                m == Len(c)
    <3>1. l \in Nat /\ l + 1 <= m /\ m = n - (from - 1) /\ from \in 1 .. n + 1
      BY <1>2, <1>5, <2>1
    <3>. HIDE DEF l, m, n
    <3>2. from <= n /\ from + l + 1 \in from + 1 .. n + 1 /\ from + (l + 1) = from + l + 1
          /\ 1 \in 1 .. n - (from - 1) /\ from - 1 + 1 = from
      BY <1>1, <3>1
    <3>. QED BY <3>2 DEF l
  <2>3. cells[from] = <<f, 0>>
    BY <1>2, <1>5, <2>2
  <2>4. DecodedFrom(cells, after, from) = [after[from + (f.length + 1)] EXCEPT !.packets = <<f.packet>> \o after[from + (f.length + 1)].packets]
    BY <1>5 DEF DecodedFrom, c
  <2>5. DecodedFrom(cells, after, from) = [after[from + f.length + 1] EXCEPT !.packets = <<f.packet>> \o @]
    BY <2>2, <2>4
  <2>. QED BY <2>2, <2>3, <2>5 DEF OneFrameOn
<1>. QED BY <1>2, <1>3, <1>4, <1>5, DecodeFrameIs
(* It depends on the later ones alone. *)
LEMMA DecodedFromLater ==
  ASSUME NEW cells \in Seq(Cell), NEW f, NEW g, NEW from \in 1 .. Len(cells) + 1,
         \A i \in from + 1 .. Len(cells) + 1 : f[i] = g[i]
  PROVE  DecodedFrom(cells, f, from) = DecodedFrom(cells, g, from)
<1>. DEFINE c == SubSeq(cells, from, Len(cells))
            first == DecodeFrame(c)
<1>1. /\ c \in Seq(Cell) /\ Len(c) = Len(cells) - (from - 1) /\ Len(cells) \in Nat
  <2>1. from - 1 \in 0 .. Len(cells) /\ from - 1 + 1 = from /\ Len(cells) \in Nat
    BY LenProperties
  <2>2. c = Drop(cells, from - 1)
    BY <2>1 DEF Drop
  <2>. QED BY <2>1, <2>2, DropFacts
<1>. HIDE DEF c
<1>2. CASE first = Wait \/ first = Refused
  BY <1>2 DEF DecodedFrom, Wait, Refused, c
<1>3. ASSUME NEW h \in AnyFrame, h.length + 1 <= Len(c),
             first = [step |-> "packet", packet |-> h.packet, used |-> h.length + 1]
      PROVE  DecodedFrom(cells, f, from) = DecodedFrom(cells, g, from)
  <2>. DEFINE l == h.length
              m == Len(c)
              n == Len(cells)
  <2>1. l \in Nat /\ l + 1 <= m /\ m = n - (from - 1) /\ from \in 1 .. n + 1 /\ n \in Nat
    BY <1>1, <1>3, CellsAre
  <2>. HIDE DEF l, m, n
  <2>2. from + (l + 1) \in from + 1 .. n + 1
    BY <2>1
  <2>3. f[from + first.used] = g[from + first.used] /\ first.step = "packet"
    BY <1>3, <2>2 DEF l, n
  <2>. HIDE DEF first
  <2>. QED BY <2>3 DEF DecodedFrom, first, c
<1>. QED BY <1>1, <1>2, <1>3, DecodeFrameIs

(* The recursion of DecodeFrames has a solution. *)
LEMMA DecodeFramesIs ==
  ASSUME NEW cells \in Seq(Cell)
  PROVE  \E after : /\ DecodeFrames(cells) = after[1]
                    /\ \A from \in 1 .. Len(cells) + 1 : after[from] = DecodedFrom(cells, after, from)
<1>. DEFINE N == Len(cells) + 1
            From(m) == {from \in 1 .. N : from > N - m}
            Solves(f, m) == f = [from \in From(m) |-> DecodedFrom(cells, f, from)]
            Solved == {m \in 0 .. N : \E f : Solves(f, m)}
            after == CHOOSE f : f = [from \in 1 .. N |-> DecodedFrom(cells, f, from)]
<1>1. N \in Nat /\ Len(cells) \in Nat
  BY LenProperties
<1>2. 0 \in Solved
  <2>. DEFINE f == [from \in {} |-> << >>]
  <2>1. From(0) = {}
    BY <1>1
  <2>2. [from \in From(0) |-> DecodedFrom(cells, f, from)] = f
    BY <2>1
  <2>. HIDE DEF f
  <2>3. Solves(f, 0)
    BY <2>2
  <2>. HIDE DEF Solves, N
  <2>. QED BY <1>1, <2>3
<1>3. ASSUME NEW m \in 1 .. N, m - 1 \in Solved PROVE m \in Solved
  <2>1. PICK f : Solves(f, m - 1)
    BY <1>3
  <2>2. f = [from \in From(m - 1) |-> DecodedFrom(cells, f, from)]
    BY <2>1
  <2>. DEFINE g == [from \in From(m) |-> IF from \in From(m - 1) THEN f[from] ELSE DecodedFrom(cells, f, from)]
  <2>3. From(m - 1) \subseteq From(m) /\ \A from \in From(m) : \A i \in from + 1 .. N : i \in From(m - 1)
    BY <1>1
  <2>4. \A i \in From(m - 1) : g[i] = f[i]
    BY <2>3
  <2>5. \A from \in From(m) : g[from] = DecodedFrom(cells, f, from)
    BY <2>2, <2>3
  <2>. HIDE DEF g
  <2>6. ASSUME NEW from \in From(m) PROVE g[from] = DecodedFrom(cells, g, from)
    <3>1. \A i \in from + 1 .. Len(cells) + 1 : f[i] = g[i]
      BY <2>3, <2>4
    <3>2. from \in 1 .. Len(cells) + 1
      OBVIOUS
    <3>3. DecodedFrom(cells, f, from) = DecodedFrom(cells, g, from)
      BY <3>1, <3>2, DecodedFromLater
    <3>. QED BY <2>5, <3>3
  <2>7. g = [from \in From(m) |-> g[from]]
    BY DEF g
  <2>8. Solves(g, m)
    BY <2>6, <2>7
  <2>. HIDE DEF Solves
  <2>. QED BY <1>1, <2>8
<1>4. N \in Solved
  <2>. HIDE DEF Solved, N
  <2>1. \A m \in 0 .. N : m \in Solved
    BY <1>1, <1>2, <1>3, UpTo
  <2>. QED BY <1>1, <2>1
<1>5. From(N) = 1 .. N
  BY <1>1
<1>6. \E f : f = [from \in 1 .. N |-> DecodedFrom(cells, f, from)]
  <2>1. PICK f : Solves(f, N)
    BY <1>4
  <2>. QED BY <1>5, <2>1
<1>7. after = [from \in 1 .. N |-> DecodedFrom(cells, after, from)]
  BY <1>6
<1>8. DecodeFrames(cells) = after[1]
  BY DEF DecodeFrames, DecodedFrom
<1>. HIDE DEF after
<1>9. \A from \in 1 .. Len(cells) + 1 : after[from] = DecodedFrom(cells, after, from)
  BY <1>7
<1>. QED BY <1>8, <1>9
(* Packets that are those of the first frames of some, and cells that are  *)
(* those of the others.                                                    *)
Splits(frames, packets, cells) ==
  \E k \in 0 .. Len(frames) :
    packets = PacketsOf(SubSeq(frames, 1, k)) /\ cells = CellsOf(Drop(frames, k))

LEMMA SplitsNone ==
  ASSUME NEW frames \in Seq(AnyFrame)
  PROVE  Splits(frames, << >>, CellsOf(frames))
<1>1. 0 \in 0 .. Len(frames) /\ SubSeq(frames, 1, 0) = << >> /\ Drop(frames, 0) = frames
  BY LenProperties, SubSeqEmpty, DropNone
<1>2. PacketsOf(<< >>) = << >>
  <2>1. << >> \in Seq(AnyFrame) /\ Len(<< >>) = 0
    BY EmptySeq
  <2>2. PacketsOf(<< >>) \in Seq(AnyPacket) /\ Len(PacketsOf(<< >>)) = 0
    BY <2>1, PacketsAre
  <2>. QED BY <2>2, EmptySeq
<1>. QED BY <1>1, <1>2 DEF Splits

LEMMA SplitsOneMore ==
  ASSUME NEW frames \in Seq(AnyFrame), frames # << >>, NEW packets, NEW cells,
         Splits(Tail(frames), packets, cells)
  PROVE  Splits(frames, <<frames[1].packet>> \o packets, cells)
<1>. DEFINE t == Tail(frames)
<1>1. t \in Seq(AnyFrame) /\ Len(t) = Len(frames) - 1 /\ Len(frames) \in Nat \ {0}
  BY HeadTailProperties, EmptySeq
<1>2. t = Drop(frames, 1)
  <2>1. t = SubSeq(frames, 2, Len(frames)) /\ 1 + 1 = 2
    BY TailIsSubSeq
  <2>. QED BY <2>1 DEF Drop
<1>3. PICK k \in 0 .. Len(t) : packets = PacketsOf(SubSeq(t, 1, k)) /\ cells = CellsOf(Drop(t, k))
  BY DEF Splits
<1>4. k \in 0 .. Len(frames) - 1 /\ k + 1 \in 0 .. Len(frames) /\ 1 \in 0 .. Len(frames) /\ 1 + k = k + 1
  BY <1>1
<1>5. PacketsOf(SubSeq(frames, 1, k + 1)) = <<frames[1].packet>> \o packets
  BY <1>3, <1>4, PacketsOfFirst
<1>6. Drop(t, k) = Drop(frames, k + 1)
  BY <1>2, <1>4, DropTwice
<1>. QED BY <1>3, <1>4, <1>5, <1>6 DEF Splits

StartsWith(cells, f) == cells # << >> /\ cells[1] = <<f, 0>> /\ f.length + 1 <= Len(cells)

GoesOn(frames, f, cells) ==
  frames # << >> /\ frames[1] = f /\ Tail(frames) \in Seq(AnyFrame) /\ cells = CellsOf(Tail(frames))

(* Cells that begin with a frame's header and hold all of it, and are with *)
(* more those of frames, begin with the first of these.                    *)
LEMMA FirstFrame ==
  ASSUME NEW cells \in Seq(Cell), NEW more \in Seq(Cell), NEW frames \in Seq(AnyFrame),
         NEW f \in AnyFrame, StartsWith(cells, f), cells \o more = CellsOf(frames)
  PROVE  GoesOn(frames, f, Drop(cells, f.length + 1) \o more)
<1>. DEFINE both == cells \o more
            n == Len(cells)
<1>. USE DEF StartsWith
<1>1. /\ both \in Seq(Cell) /\ Len(both) = n + Len(more) /\ n \in Nat \ {0} /\ Len(more) \in Nat
      /\ both[1] = <<f, 0>>
  <2>1. /\ both \in Seq(Cell) /\ Len(both) = n + Len(more) /\ n \in Nat \ {0} /\ Len(more) \in Nat
        /\ \A i \in 1 .. n + Len(more) : both[i] = IF i <= n THEN cells[i] ELSE more[i - n]
    BY ConcatProperties, LenProperties, EmptySeq
  <2>. HIDE DEF both, n
  <2>2. 1 \in 1 .. n + Len(more) /\ 1 <= n
    BY <2>1
  <2>. QED BY <2>1, <2>2
<1>. HIDE DEF both, n
<1>2. frames # << >>
  <2>1. ASSUME frames = << >> PROVE FALSE
    <3>1. both = << >>
      BY <2>1, CellsOfNone DEF both
    <3>. QED BY <1>1, <3>1, EmptySeq
  <2>. QED BY <2>1
<1>. DEFINE g == frames[1]
            t == CellsOf(Tail(frames))
<1>3. g \in AnyFrame /\ Tail(frames) \in Seq(AnyFrame)
  <2>1. 1 \in 1 .. Len(frames)
    BY <1>2, EmptySeq
  <2>. QED BY <1>2, <2>1, ElementOfSeq, HeadTailProperties
<1>4. t \in Seq(Cell) /\ both = Cells(g) \o t
  BY <1>2, <1>3, CellsOfTyped, CellsOfFirst DEF both
<1>5. Cells(g) \in Seq(Cell) /\ Len(Cells(g)) = g.length + 1 /\ Cells(g)[1] = <<g, 0>> /\ g.length \in Nat
  BY <1>3, CellsAre
<1>6. g = f
  <2>. DEFINE c == Cells(g)
              m == Len(c)
  <2>1. c \in Seq(Cell) /\ m \in Nat \ {0} /\ c[1] = <<g, 0>> /\ both = c \o t /\ t \in Seq(Cell)
    <3>. HIDE DEF g, both
    <3>1. Len(c) \in Nat \ {0}
      BY <1>5
    <3>. QED BY <1>4, <1>5, <3>1
  <2>. HIDE DEF c, t
  <2>2. \A i \in 1 .. m + Len(t) : both[i] = IF i <= m THEN c[i] ELSE t[i - m]
    BY <2>1, ConcatProperties
  <2>. HIDE DEF m
  <2>3. Len(t) \in Nat
    BY <2>1, LenProperties
  <2>4. 1 \in 1 .. m + Len(t) /\ 1 <= m
    BY <2>1, <2>3
  <2>5. both[1] = c[1]
    BY <2>2, <2>4
  <2>6. both[1] = <<f, 0>>
    BY <1>1
  <2>. HIDE DEF g, both
  <2>7. <<g, 0>> = <<f, 0>>
    BY <2>1, <2>5, <2>6
  <2>. QED BY <2>7
<1>7. Drop(both, f.length + 1) = t
  <2>. HIDE DEF t, g
  <2>. QED BY <1>4, <1>5, <1>6, DropFirst
<1>8. Drop(both, f.length + 1) = Drop(cells, f.length + 1) \o more
  <2>. DEFINE l == f.length + 1
  <2>1. l \in Nat
    BY CellsAre
  <2>. HIDE DEF l
  <2>2. l \in 0 .. n
    BY <1>1, <2>1 DEF n, l
  <2>. QED BY <2>2, DropOfConcat DEF both, n, l
<1>. QED BY <1>2, <1>3, <1>6, <1>7, <1>8 DEF GoesOn
(* The decoder, from a cell on, takes the first frames of those it finds   *)
(* there, wherever the cells of the last one end.                          *)
TakesFirst(cells, from, d) ==
  \A frames \in Seq(AnyFrame), more \in Seq(Cell) :
    Drop(cells, from - 1) \o more = CellsOf(frames) => Splits(frames, d.packets, Drop(cells, d.used) \o more)

DecodesWell(cells, from, d) ==
  /\ d \in [ok : BOOLEAN, packets : Seq(AnyPacket), used : 0 .. Len(cells)]
  /\ d.ok => TakesFirst(cells, from, d)

LEMMA NothingDecoded ==
  ASSUME NEW cells \in Seq(Cell), NEW from \in 1 .. Len(cells) + 1
  PROVE  DecodesWell(cells, from, [ok |-> TRUE, packets |-> << >>, used |-> from - 1])
<1>. DEFINE d == [ok |-> TRUE, packets |-> << >>, used |-> from - 1]
<1>1. from - 1 \in 0 .. Len(cells) /\ << >> \in Seq(AnyPacket)
  BY LenProperties, EmptySeq
<1>2. d.packets = << >> /\ d.used = from - 1 /\ d \in [ok : BOOLEAN, packets : Seq(AnyPacket), used : 0 .. Len(cells)]
  BY <1>1
<1>. HIDE DEF d
<1>3. TakesFirst(cells, from, d)
  BY <1>2, SplitsNone DEF TakesFirst
<1>. QED BY <1>2, <1>3 DEF DecodesWell, d

LEMMA OneMoreDecoded ==
  ASSUME NEW cells \in Seq(Cell), NEW from \in 1 .. Len(cells), NEW f \in AnyFrame,
         cells[from] = <<f, 0>>, from + f.length + 1 \in from + 1 .. Len(cells) + 1,
         NEW rest, DecodesWell(cells, from + f.length + 1, rest)
  PROVE  DecodesWell(cells, from, [rest EXCEPT !.packets = <<f.packet>> \o @])
<1>. DEFINE d == [rest EXCEPT !.packets = <<f.packet>> \o @]
            n == Len(cells)
            l == f.length
            here == Drop(cells, from - 1)
<1>1. rest \in [ok : BOOLEAN, packets : Seq(AnyPacket), used : 0 .. n]
  BY DEF DecodesWell
<1>2. n \in Nat /\ l \in Nat /\ from \in 1 .. n /\ from + l + 1 \in from + 1 .. n + 1
  BY LenProperties, CellsAre
<1>3. /\ d \in [ok : BOOLEAN, packets : Seq(AnyPacket), used : 0 .. n]
      /\ d.ok = rest.ok /\ d.used = rest.used /\ d.packets = <<f.packet>> \o rest.packets
  <2>1. <<f.packet>> \in Seq(AnyPacket)
    BY DEF AnyPacket
  <2>2. <<f.packet>> \o rest.packets \in Seq(AnyPacket)
    BY <1>1, <2>1, ConcatProperties
  <2>. DEFINE p == <<f.packet>> \o rest.packets
  <2>. HIDE DEF p, n
  <2>3. d = [rest EXCEPT !.packets = p]
    BY DEF p
  <2>. QED BY <1>1, <2>2, <2>3 DEF p
<1>. HIDE DEF d
<1>4. ASSUME d.ok PROVE TakesFirst(cells, from, d)
  <2>. HIDE DEF here, n, l
  <2>1. /\ from - 1 \in 0 .. n /\ l + 1 \in 0 .. n - (from - 1) /\ from - 1 + (l + 1) = from + l + 1 - 1
        /\ 1 \in 1 .. n - (from - 1) /\ from - 1 + 1 = from /\ n - (from - 1) >= l + 1
    BY <1>2
  <2>2. /\ here \in Seq(Cell) /\ Len(here) = n - (from - 1)
        /\ \A i \in 1 .. n - (from - 1) : here[i] = cells[from - 1 + i]
    BY <2>1, DropFacts DEF here, n
  <2>3. StartsWith(here, f)
    <3>1. here[1] = cells[from]
      BY <2>1, <2>2
    <3>2. l + 1 <= Len(here) /\ Len(here) # 0
      BY <1>2, <2>1, <2>2
    <3>. QED BY <3>1, <3>2, EmptySeq DEF StartsWith, l
  <2>. DEFINE next == from + l + 1
              left == Drop(here, f.length + 1)
  <2>4. left = Drop(cells, next - 1)
    <3>1. Drop(here, l + 1) = Drop(cells, next - 1)
      <4>. DEFINE i == from - 1
                  j == l + 1
      <4>1. i \in 0 .. n /\ j \in 0 .. n - i /\ i + j = next - 1
        BY <1>2, <2>1
      <4>. HIDE DEF i, j, next
      <4>2. Drop(Drop(cells, i), j) = Drop(cells, i + j)
        BY <4>1, DropTwice DEF n
      <4>. QED BY <4>1, <4>2 DEF here, i, j
    <3>. QED BY <3>1 DEF l
  <2>5. \A q \in Seq(AnyFrame), more \in Seq(Cell) :
          Drop(cells, next - 1) \o more = CellsOf(q) => Splits(q, rest.packets, Drop(cells, rest.used) \o more)
    <3>1. TakesFirst(cells, next, rest)
      BY <1>3, <1>4 DEF DecodesWell, l
    <3>. HIDE DEF next
    <3>. QED BY <3>1, Zenon DEF TakesFirst
  <2>. HIDE DEF next, left
  <2>6. ASSUME NEW frames \in Seq(AnyFrame), NEW more \in Seq(Cell), here \o more = CellsOf(frames)
        PROVE  Splits(frames, d.packets, Drop(cells, d.used) \o more)
    <3>1. /\ frames # << >> /\ frames[1] = f /\ Tail(frames) \in Seq(AnyFrame)
          /\ left \o more = CellsOf(Tail(frames))
      <4>1. GoesOn(frames, f, left \o more)
        BY <2>2, <2>3, <2>6, FirstFrame DEF left
      <4>. QED BY <4>1 DEF GoesOn
    <3>2. Splits(Tail(frames), rest.packets, Drop(cells, rest.used) \o more)
      BY <2>4, <2>5, <3>1
    <3>3. Splits(frames, <<frames[1].packet>> \o rest.packets, Drop(cells, rest.used) \o more)
      BY <3>1, <3>2, SplitsOneMore
    <3>. QED BY <1>3, <3>1, <3>3
  <2>. QED BY <2>6 DEF TakesFirst, here
<1>. QED BY <1>3, <1>4 DEF DecodesWell, d, n

LEMMA DecodeFramesWell ==
  ASSUME NEW cells \in Seq(Cell)
  PROVE  DecodesWell(cells, 1, DecodeFrames(cells))
<1>. DEFINE N == Len(cells) + 1
<1>1. N \in Nat /\ Len(cells) \in Nat
  BY LenProperties
<1>2. PICK after : /\ DecodeFrames(cells) = after[1]
                   /\ \A from \in 1 .. N : after[from] = DecodedFrom(cells, after, from)
  BY DecodeFramesIs
<1>. DEFINE Well(from) == DecodesWell(cells, from, after[from])
            H == {m \in 0 .. N : \A from \in 1 .. N : from > N - m => Well(from)}
<1>. HIDE DEF Well
<1>3. 0 \in H
  BY <1>1
<1>4. ASSUME NEW m \in 1 .. N, m - 1 \in H PROVE m \in H
  <2>1. \A i \in 1 .. N : i > N - (m - 1) => Well(i)
    BY <1>4
  <2>2. ASSUME NEW from \in 1 .. N, from > N - m PROVE Well(from)
    <3>. DEFINE d == DecodedFrom(cells, after, from)
    <3>1. after[from] = d
      BY <1>2
    <3>2. CASE d = [ok |-> TRUE, packets |-> << >>, used |-> from - 1]
      BY <3>1, <3>2, NothingDecoded DEF Well
    <3>3. CASE d = [ok |-> FALSE, packets |-> << >>, used |-> 0]
      <4>1. 0 \in 0 .. Len(cells) /\ << >> \in Seq(AnyPacket)
        BY <1>1, EmptySeq
      <4>. HIDE DEF d
      <4>2. d \in [ok : BOOLEAN, packets : Seq(AnyPacket), used : 0 .. Len(cells)] /\ d.ok = FALSE
        BY <3>3, <4>1
      <4>. QED BY <3>1, <4>2 DEF Well, DecodesWell
    <3>4. ASSUME NEW f \in AnyFrame, from <= Len(cells), cells[from] = <<f, 0>>,
                 from + f.length + 1 \in from + 1 .. Len(cells) + 1,
                 d = [after[from + f.length + 1] EXCEPT !.packets = <<f.packet>> \o @]
          PROVE  Well(from)
      <4>1. from \in 1 .. Len(cells) /\ from + f.length + 1 \in 1 .. N /\ from + f.length + 1 > N - (m - 1)
        <5>. DEFINE i == from + f.length + 1
        <5>1. i \in from + 1 .. N
          BY <3>4
        <5>. HIDE DEF i
        <5>2. i \in 1 .. N /\ i > N - (m - 1) /\ from \in 1 .. Len(cells)
          BY <1>1, <2>2, <3>4, <5>1
        <5>. QED BY <5>2 DEF i
      <4>2. DecodesWell(cells, from + f.length + 1, after[from + f.length + 1])
        BY <2>1, <4>1 DEF Well
      <4>3. DecodesWell(cells, from, [after[from + f.length + 1] EXCEPT !.packets = <<f.packet>> \o @])
        BY <3>4, <4>1, <4>2, OneMoreDecoded
      <4>. QED BY <3>1, <3>4, <4>3 DEF Well
    <3>5. ASSUME OneFrameOn(cells, after, from, d) PROVE Well(from)
      <4>. HIDE DEF d
      <4>. QED BY <3>4, <3>5 DEF OneFrameOn
    <3>6. \/ d = [ok |-> TRUE, packets |-> << >>, used |-> from - 1]
          \/ d = [ok |-> FALSE, packets |-> << >>, used |-> 0]
          \/ OneFrameOn(cells, after, from, d)
      BY DecodedFromIs
    <3>. HIDE DEF d, N
    <3>. QED BY <3>2, <3>3, <3>5, <3>6
  <2>. QED BY <1>1, <2>2
<1>5. N \in H
  <2>. HIDE DEF H, N
  <2>1. \A m \in 0 .. N : m \in H
    BY <1>1, <1>3, <1>4, UpTo
  <2>. QED BY <1>1, <2>1
<1>6. Well(1)
  <2>1. 1 \in 1 .. N /\ 1 > N - N
    BY <1>1
  <2>. QED BY <1>5, <2>1
<1>. QED BY <1>2, <1>6 DEF Well

(* What a read leaves in the buffer and gives out: nothing is lost or      *)
(* changed unless the chunk was dropped.                                   *)
LEMMA FeedFacts ==
  ASSUME NEW buffer \in Seq(Cell), Len(buffer) <= MaxMessage + HeaderCells, NEW data \in Seq(Cell)
  PROVE  LET fed == Feed(buffer, data) IN
         /\ fed.packets \in Seq(AnyPacket) /\ fed.buffer \in Seq(Cell)
         /\ Len(fed.buffer) <= MaxMessage + HeaderCells
         /\ ~fed.ok => fed.packets = << >>
         /\ ~TooLarge(buffer, data) =>
              \A frames \in Seq(AnyFrame), more \in Seq(Cell) :
                (buffer \o data) \o more = CellsOf(frames) => Splits(frames, fed.packets, fed.buffer \o more)
<1>. DEFINE all == buffer \o data
            d == DecodeFrames(all)
            fed == Feed(buffer, data)
            Taken == \A frames \in Seq(AnyFrame), more \in Seq(Cell) :
                       all \o more = CellsOf(frames) => Splits(frames, fed.packets, fed.buffer \o more)
<1>1. /\ all \in Seq(Cell) /\ Len(all) = Len(buffer) + Len(data) /\ Len(all) \in Nat /\ MaxMessage \in Nat
      /\ << >> \in Seq(AnyPacket)
  BY ConcatProperties, LenProperties, EmptySeq, FramesAssumption
<1>2. Drop(all, 0) = all /\ 1 - 1 = 0
  <2>. HIDE DEF all
  <2>. QED BY <1>1, DropNone
<1>3. DecodesWell(all, 1, d)
  BY <1>1, DecodeFramesWell
<1>4. CASE TooLarge(buffer, data)
  <2>1. fed = [ok |-> FALSE, packets |-> << >>, buffer |-> buffer]
    BY <1>4 DEF Feed
  <2>. QED BY <1>1, <1>4, <2>1
<1>5. CASE ~TooLarge(buffer, data) /\ ~d.ok
  <2>1. fed = [ok |-> FALSE, packets |-> << >>, buffer |-> all]
    BY <1>5 DEF Feed
  <2>2. Len(all) <= MaxMessage + HeaderCells
    BY <1>1, <1>5 DEF TooLarge, HeaderCells
  <2>3. fed.packets = << >> /\ fed.buffer = all
    BY <2>1
  <2>. HIDE DEF fed, all
  <2>4. Taken
    BY <2>3, SplitsNone
  <2>. QED BY <1>1, <2>2, <2>3, <2>4 DEF fed, all
<1>6. CASE ~TooLarge(buffer, data) /\ d.ok
  <2>1. fed = [ok |-> TRUE, packets |-> d.packets, buffer |-> Drop(all, d.used)]
    BY <1>6 DEF Feed, Drop
  <2>2. d.packets \in Seq(AnyPacket) /\ d.used \in 0 .. Len(all) /\ TakesFirst(all, 1, d)
    BY <1>3, <1>6 DEF DecodesWell
  <2>3. Drop(all, d.used) \in Seq(Cell) /\ Len(Drop(all, d.used)) = Len(all) - d.used
    BY <1>1, <2>2, DropFacts
  <2>4. Len(Drop(all, d.used)) <= MaxMessage + HeaderCells
    BY <1>1, <1>6, <2>2, <2>3 DEF TooLarge, HeaderCells
  <2>5. fed.packets = d.packets /\ fed.buffer = Drop(all, d.used) /\ fed.ok
    BY <2>1
  <2>. HIDE DEF fed, all, d
  <2>6. Taken
    BY <1>2, <2>2, <2>5 DEF TakesFirst
  <2>. QED BY <2>2, <2>3, <2>4, <2>5, <2>6 DEF fed, all
<1>. QED BY <1>4, <1>5, <1>6

-----------------------------------------------------------------------------
(* The inductive invariant: what travels is typed; and the call, the       *)
(* session, the tracked requests and the stored rows agree.                *)
Streams ==
  /\ decoder \in Seq(Cell) /\ Len(decoder) <= MaxMessage + HeaderCells
  /\ wire \in Seq(Cell) /\ sent \in Seq(AnyFrame)
  /\ pending \in Seq(AnyPacket) /\ taken \in Seq(AnyPacket)
  /\ open \in BOOLEAN /\ torn \in BOOLEAN

CallGood(c) ==
  /\ c \in [at : CallAt, batches : 0 .. MaxBatches]
  /\ c.at \in {"connect", "handshake", "ask_addresses", "addresses"} => c.batches = 0
  /\ c.at = "ask_headers" => c.batches < MaxBatches

SessionGood(s) ==
  /\ s \in [state : States, acked : BOOLEAN, remote : [height : Nat, serves : BOOLEAN]]
  /\ s.state \notin {"awaiting_version", "closed"} => s.remote.serves

HighPeer(s) == s.remote.serves /\ s.remote.height >= BestHeight

Agree(c, s, asked, rows) ==
  /\ s.state = "headers_requested" => c.at \in {"headers", "failed"}
  /\ s.state = "proof_requested" => c.at \in {"proof", "failed"}
  /\ asked # {} => asked = {Asked} /\ (c.at = "proof" \/ (c.at = "failed" /\ s.state = "ready"))
  /\ c.at \in {"ask_proof", "proof"} => HighPeer(s) /\ s.state # "awaiting_version"
  /\ rows # {} => c.at = "done" /\ HighPeer(s)

Control ==
  /\ job \in Jobs
  /\ CallGood(call) /\ SessionGood(session) /\ Agree(call, session, tracked, stored)

TrueRow(r) ==
  LET tree == Committed[job.root]
      key == NameHash[r.name]
  IN /\ r.name = job.name /\ r.root = job.root /\ r.height = BestHeight
     /\ r.value = IF key \in DOMAIN tree THEN tree[key].data ELSE "absent"

SessionInv == Control /\ Streams /\ OrderKept /\ \A r \in stored : TrueRow(r)

-----------------------------------------------------------------------------
(* What a job does next. *)

LEMMA AfterFailureFacts ==
  ASSUME CallGood(call)
  PROVE  /\ CallGood(AfterFailure) /\ AfterFailure.at \in {"ask_headers", "done", "failed"}
         /\ call.at \notin {"ask_addresses", "addresses"} => AfterFailure.at = "failed"
BY SessionAssumption DEF CallGood, CallAt, AfterFailure, AfterAddresses, Ended, Then, Reading

LEMMA AfterAddressesFacts ==
  ASSUME CallGood(call), call.at = "addresses"
  PROVE  CallGood(AfterAddresses) /\ AfterAddresses.at \in {"ask_headers", "done"}
BY SessionAssumption DEF CallGood, CallAt, AfterAddresses, Ended, Then, Reading

LEMMA AfterHeadersFacts ==
  ASSUME CallGood(call), NEW last \in BOOLEAN
  PROVE  CallGood(AfterHeaders(last)) /\ AfterHeaders(last).at \in {"ask_headers", "done"}
BY SessionAssumption DEF CallGood, CallAt, AfterHeaders, Ended, Then, Reading

LEMMA AfterHandshakeFacts ==
  ASSUME job \in Jobs, CallGood(call), call.at = "handshake", NEW remote, remote.height \in Nat
  PROVE  /\ CallGood(AfterHandshake(remote))
         /\ AfterHandshake(remote).at \in {"ask_addresses", "ask_headers", "ask_proof", "failed"}
         /\ AfterHandshake(remote).at = "ask_proof" => remote.height >= BestHeight
<1>1. job.kind \in {"sync", "race", "probe", "proof"} /\ BestHeight \in Nat /\ MaxBatches \in Nat \ {0}
  BY SessionAssumption
<1>2. call \in [at : CallAt, batches : 0 .. MaxBatches] /\ call.batches = 0
  BY DEF CallGood
<1>3. \A at \in CallAt : [call EXCEPT !.at = at] \in [at : CallAt, batches : 0 .. MaxBatches]
                         /\ [call EXCEPT !.at = at].at = at /\ [call EXCEPT !.at = at].batches = 0
  BY <1>2
<1>4. {"ask_addresses", "ask_headers", "ask_proof", "failed"} \subseteq CallAt
  BY DEF CallAt
<1>5. CASE job.kind \in {"sync", "probe"}
  <2>1. AfterHandshake(remote) = [call EXCEPT !.at = "ask_addresses"]
    BY <1>5 DEF AfterHandshake, Then
  <2>. QED BY <1>1, <1>3, <1>4, <2>1 DEF CallGood
<1>6. CASE job.kind = "race"
  <2>1. AfterHandshake(remote) = [call EXCEPT !.at = "ask_headers"]
    BY <1>6 DEF AfterHandshake, Then
  <2>. QED BY <1>1, <1>3, <1>4, <2>1 DEF CallGood
<1>7. CASE job.kind = "proof" /\ remote.height < BestHeight
  <2>1. AfterHandshake(remote) = [call EXCEPT !.at = "failed"]
    BY <1>7 DEF AfterHandshake, Ended
  <2>. QED BY <1>1, <1>3, <1>4, <2>1 DEF CallGood
<1>8. CASE job.kind = "proof" /\ ~(remote.height < BestHeight)
  <2>1. AfterHandshake(remote) = [call EXCEPT !.at = "ask_proof"]
    BY <1>8 DEF AfterHandshake, Then
  <2>2. remote.height >= BestHeight
    BY <1>1, <1>8
  <2>. QED BY <1>1, <1>3, <1>4, <2>1, <2>2 DEF CallGood
<1>. QED BY <1>1, <1>5, <1>6, <1>7, <1>8

-----------------------------------------------------------------------------
(* What a packet does to the session. *)

Reports == {"none", "disconnect", "ready", "headers", "proof"}

(* What every packet keeps, and what each report means. *)
Sensible(s, says) ==
  /\ SessionGood(says.session)
  /\ says.report = "ready" => says.session.state = "ready"
  /\ says.report \in {"headers", "proof"} => says.session.state = "ready"
  /\ says.session.state \in {"headers_requested", "proof_requested"} => says.session.state = s.state
  /\ s.state # "awaiting_version" =>
       says.session.remote = s.remote /\ says.session.state # "awaiting_version"

LEMMA OnPacketFacts ==
  ASSUME NEW s, SessionGood(s), NEW p \in AnyPacket
  PROVE  /\ Sensible(s, OnPacket(s, p)) /\ OnPacket(s, p).report \in Reports
         /\ OnPacket(s, p).report = "proof" => p.type = "proof"
<1>. DEFINE says == OnPacket(s, p)
<1>1. PICK f \in AnyFrame : p = f.packet
  BY DEF AnyPacket
<1>2. p.type = "version" => p.height \in Nat
  BY <1>1, FrameAssumption DEF AnyFrame
<1>. DEFINE Fields == [state : States, acked : BOOLEAN, remote : [height : Nat, serves : BOOLEAN]]
<1>0. s \in Fields /\ (s.state \notin {"awaiting_version", "closed"} => s.remote.serves)
  BY DEF SessionGood
<1>3. CASE s.state = "awaiting_version" /\ p.type = "version"
  <2>1. says = OnVersion(s, p)
    BY <1>3 DEF OnPacket
  <2>2. CASE ~p.serves \/ p.version < 1
    <3>. DEFINE c == [s EXCEPT !.state = "closed"]
    <3>1. says.session = c /\ says.report = "disconnect"
      BY <2>1, <2>2 DEF OnVersion, Says
    <3>2. c \in Fields /\ c.state = "closed"
      BY <1>0 DEF States
    <3>. HIDE DEF c
    <3>. QED BY <1>3, <3>1, <3>2 DEF Sensible, SessionGood, Reports
  <2>3. CASE ~(~p.serves \/ p.version < 1)
    <3>. DEFINE remote == [height |-> p.height, serves |-> TRUE]
                known == [s EXCEPT !.remote = remote]
                at == IF s.acked THEN "ready" ELSE "awaiting_verack"
                k == [known EXCEPT !.state = at]
    <3>1. says.session = k /\ says.report = IF s.acked THEN "ready" ELSE "none"
      <4>1. CASE s.acked
        <5>1. says = Says(k, 1, "ready")
          BY <2>1, <2>3, <4>1 DEF OnVersion
        <5>. QED BY <4>1, <5>1 DEF Says
      <4>2. CASE ~s.acked
        <5>1. says = Says(k, 1, "none")
          BY <2>1, <2>3, <4>2 DEF OnVersion
        <5>. QED BY <4>2, <5>1 DEF Says
      <4>. QED BY <4>1, <4>2
    <3>2. remote \in [height : Nat, serves : BOOLEAN] /\ remote.serves /\ at \in States
          /\ at \in {"ready", "awaiting_verack"}
      BY <1>2, <1>3 DEF States
    <3>3. at = "ready" <=> s.acked
      OBVIOUS
    <3>. HIDE DEF remote, at
    <3>4. k \in Fields /\ k.state = at /\ k.remote = remote
      BY <1>0, <3>2
    <3>. HIDE DEF k
    <3>5. SessionGood(k)
      BY <3>2, <3>4 DEF SessionGood
    <3>6. says.report \in {"ready", "none"} /\ (says.report = "ready" => at = "ready")
      BY <3>1, <3>3
    <3>. QED BY <1>3, <3>1, <3>2, <3>4, <3>5, <3>6 DEF Sensible, Reports
  <2>. QED BY <2>2, <2>3
<1>4. CASE s.state = "awaiting_version" /\ p.type = "verack"
  <2>. DEFINE k == [s EXCEPT !.acked = TRUE]
  <2>1. says.session = k /\ says.report = "none"
    BY <1>4 DEF OnPacket, Says
  <2>2. k \in Fields /\ k.state = "awaiting_version"
    BY <1>0, <1>4
  <2>. HIDE DEF k
  <2>. QED BY <1>4, <2>1, <2>2 DEF Sensible, SessionGood, Reports
<1>5. CASE s.state = "awaiting_verack" /\ p.type = "verack"
  <2>. DEFINE k == [s EXCEPT !.acked = TRUE, !.state = "ready"]
  <2>1. says.session = k /\ says.report = "ready"
    BY <1>5 DEF OnPacket, Says
  <2>2. k \in Fields /\ k.state = "ready" /\ k.remote = s.remote
    BY <1>0, <1>5 DEF States
  <2>. HIDE DEF k
  <2>. QED BY <1>0, <1>5, <2>1, <2>2 DEF Sensible, SessionGood, Reports
<1>6. CASE s.state = "headers_requested" /\ p.type = "headers"
  <2>1. says = Says([s EXCEPT !.state = "ready"], 0, "headers")
    BY <1>6 DEF OnPacket
  <2>. QED BY <1>6, <2>1 DEF Says, Sensible, SessionGood, States, Reports
<1>7. CASE s.state = "proof_requested" /\ p.type = "proof"
  <2>1. says = Says([s EXCEPT !.state = "ready"], 0, "proof")
    BY <1>7 DEF OnPacket
  <2>. QED BY <1>7, <2>1 DEF Says, Sensible, SessionGood, States, Reports
<1>8. CASE \/ says = Says(s, 0, "disconnect") \/ says = Says(s, 0, "none") \/ says = Says(s, 1, "none")
  BY <1>8 DEF Says, Sensible, SessionGood, Reports
<1>9. CASE ~ \/ s.state = "awaiting_version" /\ p.type = "version"
             \/ s.state = "awaiting_version" /\ p.type = "verack"
             \/ s.state = "awaiting_verack" /\ p.type = "verack"
             \/ s.state = "headers_requested" /\ p.type = "headers"
             \/ s.state = "proof_requested" /\ p.type = "proof"
  <2>1. \/ says = Says(s, 0, "disconnect") \/ says = Says(s, 0, "none") \/ says = Says(s, 1, "none")
    BY <1>9 DEF OnPacket
  <2>. QED BY <1>8, <2>1
<1>. QED BY <1>3, <1>4, <1>5, <1>6, <1>7, <1>9

LEMMA OnAddressPacketFacts ==
  ASSUME NEW s, SessionGood(s), NEW p
  PROVE  /\ OnAddressPacket(s, p).session = s /\ Sensible(s, OnAddressPacket(s, p))
         /\ OnAddressPacket(s, p).report \in {"none", "disconnect", "addresses"}
<1>. DEFINE says == OnAddressPacket(s, p)
<1>1. \/ says = Says(s, 0, "addresses") \/ says = Says(s, 0, "disconnect")
      \/ says = Says(s, 0, "none") \/ says = Says(s, 1, "none")
  BY DEF OnAddressPacket
<1>2. ASSUME NEW n, NEW report \in {"none", "disconnect", "addresses"}, says = Says(s, n, report)
      PROVE  says.session = s /\ Sensible(s, says) /\ says.report \in {"none", "disconnect", "addresses"}
  BY <1>2 DEF Says, Sensible, SessionGood
<1>. HIDE DEF says
<1>3. says.session = s /\ Sensible(s, says) /\ says.report \in {"none", "disconnect", "addresses"}
  BY <1>1, <1>2
<1>. QED BY <1>3 DEF says

-----------------------------------------------------------------------------
(* What handling a packet does. *)

Unstored == stored' = stored

HandledAs(p, says) ==
  \/ call' = AfterFailure /\ tracked' = tracked \ {Asked} /\ Unstored
  \/ call' = call /\ tracked' = tracked /\ Unstored /\ says.report = "none"
  \/ /\ call.at = "handshake" /\ says.report = "ready" /\ call' = AfterHandshake(says.session.remote)
     /\ tracked' = tracked /\ Unstored
  \/ call.at = "addresses" /\ call' = AfterAddresses /\ tracked' = tracked /\ Unstored
  \/ /\ call.at = "headers" /\ says.report = "headers" /\ \E last \in BOOLEAN : call' = AfterHeaders(last)
     /\ tracked' = tracked /\ Unstored
  \/ /\ call.at = "proof" /\ says.report = "proof" /\ p.type = "proof"
     /\ \E kept \in SUBSET Ingest(p) :
          /\ stored' = stored \cup kept
          /\ call' = Ended(IF kept = {} THEN "failed" ELSE "done")
     /\ tracked' = tracked \ {<<p.root, p.key>>}

LEMMA HandleFacts ==
  ASSUME Handle, SessionGood(session), pending \in Seq(AnyPacket)
  PROVE  /\ call.at \in Reading /\ pending # << >> /\ pending[1] \in AnyPacket
         /\ \E says : Sensible(session, says) /\ session' = says.session /\ HandledAs(pending[1], says)
<1>. DEFINE p == pending[1]
            says == IF call.at = "addresses" THEN OnAddressPacket(session, p) ELSE OnPacket(session, p)
<1>1. call.at \in Reading /\ pending # << >> /\ session' = says.session
  BY DEF Handle
<1>2. p \in AnyPacket
  <2>1. 1 \in 1 .. Len(pending)
    BY <1>1, EmptySeq
  <2>. QED BY <2>1, ElementOfSeq
<1>3. /\ Sensible(session, says)
      /\ call.at = "addresses" => says.report \in {"none", "disconnect", "addresses"}
      /\ call.at # "addresses" => says.report \in Reports
      /\ says.report = "proof" => p.type = "proof"
  BY <1>2, OnPacketFacts, OnAddressPacketFacts
<1>4. PICK wrote \in (IF says.answers = 0 THEN {TRUE} ELSE Writes) :
        LET failed == ~wrote \/ says.report \notin {"none", Awaited(call.at)}
            rows == IF ~failed /\ says.report = "proof" THEN Ingest(p) ELSE {}
        IN /\ \E kept \in SUBSET rows :
                /\ stored' = stored \cup kept
                /\ CASE failed -> call' = AfterFailure
                     [] ~failed /\ says.report = "none" -> UNCHANGED call
                     [] ~failed /\ says.report = "ready" -> call' = AfterHandshake(says.session.remote)
                     [] ~failed /\ says.report = "addresses" -> call' = AfterAddresses
                     [] ~failed /\ says.report = "headers" -> \E last \in BOOLEAN : call' = AfterHeaders(last)
                     [] ~failed /\ says.report = "proof" -> call' = Ended(IF kept = {} THEN "failed" ELSE "done")
           /\ tracked' = CASE failed -> tracked \ {Asked}
                           [] ~failed /\ says.report = "proof" -> tracked \ {<<p.root, p.key>>}
                           [] OTHER -> tracked
  BY Zenon DEF Handle
<1>. DEFINE failed == ~wrote \/ says.report \notin {"none", Awaited(call.at)}
<1>. HIDE DEF says, p
<1>5. ASSUME failed PROVE HandledAs(p, says)
  BY <1>4, <1>5 DEF HandledAs, Unstored
<1>6. ASSUME ~failed PROVE HandledAs(p, says)
  <2>1. says.report \in {"none", Awaited(call.at)}
    BY <1>6
  <2>2. CASE says.report = "none"
    BY <1>4, <1>6, <2>2 DEF HandledAs, Unstored
  <2>3. CASE says.report = "ready"
    <3>1. call.at = "handshake"
      BY <1>1, <2>1, <2>3 DEF Awaited, Reading
    <3>. QED BY <1>4, <1>6, <2>3, <3>1 DEF HandledAs, Unstored
  <2>4. CASE says.report = "addresses"
    <3>1. call.at = "addresses"
      BY <1>1, <2>1, <2>4 DEF Awaited, Reading
    <3>. QED BY <1>4, <1>6, <2>4, <3>1 DEF HandledAs, Unstored
  <2>5. CASE says.report = "headers"
    <3>1. call.at = "headers"
      BY <1>1, <2>1, <2>5 DEF Awaited, Reading
    <3>. QED BY <1>4, <1>6, <2>5, <3>1 DEF HandledAs, Unstored
  <2>6. CASE says.report = "proof"
    <3>1. call.at = "proof"
      BY <1>1, <2>1, <2>6 DEF Awaited, Reading
    <3>. QED BY <1>3, <1>4, <1>6, <2>6, <3>1 DEF HandledAs
  <2>. QED BY <1>1, <2>1, <2>2, <2>3, <2>4, <2>5, <2>6 DEF Awaited, Reading
<1>7. HandledAs(p, says)
  <2>. HIDE DEF failed
  <2>. QED BY <1>5, <1>6
<1>8. Sensible(session, says) /\ session' = says.session
  BY <1>1, <1>3
<1>. QED BY <1>1, <1>2, <1>7, <1>8 DEF p

-----------------------------------------------------------------------------
(* The steps keep the call, the session, the requests and the rows in      *)
(* agreement.                                                              *)

LEMMA ControlFollows ==
  ASSUME job \in Jobs, job' = job, CallGood(call'), SessionGood(session'),
         Agree(call', session', tracked', stored')
  PROVE  Control'
BY DEF Control, Agree, Asked, CallGood, SessionGood, HighPeer

LEMMA ForgetsAsked ==
  ASSUME Control
  PROVE  tracked \ {Asked} = {}
BY DEF Control, Agree

(* Where a call that ended or failed leaves things. *)
LEMMA CallEnds ==
  ASSUME Control, call.at # "done", job' = job, session' = session, stored' = stored, tracked' = {},
         CallGood(call'),
         \/ call'.at = "failed"
         \/ /\ call'.at \notin {"ask_proof", "proof"}
            /\ session.state \notin {"headers_requested", "proof_requested"}
  PROVE  Control'
<1>1. Agree(call, session, tracked, stored) /\ job \in Jobs /\ SessionGood(session)
  BY DEF Control
<1>2. stored = {}
  BY <1>1 DEF Agree
<1>3. Agree(call', session', tracked', stored')
  BY <1>2 DEF Agree
<1>. QED BY <1>1, <1>3, ControlFollows

LEMMA ConnectKeepsControl ==
  ASSUME Control, Connect
  PROVE  Control'
<1>1. /\ job' = job /\ session' = session /\ tracked' = tracked /\ stored' = stored
      /\ call' = Then("handshake") \/ call' = Ended("failed")
  BY DEF Connect, Store
<1>2. CallGood(call') /\ call'.at \in {"handshake", "failed"}
  BY <1>1 DEF Control, CallGood, CallAt, Reading, Connect, Then, Ended
<1>3. tracked' = {} /\ session.state \notin {"headers_requested", "proof_requested"} /\ call.at = "connect"
  BY <1>1 DEF Control, Agree, Connect
<1>. QED BY <1>1, <1>2, <1>3, CallEnds

LEMMA AskAddressesKeepsControl ==
  ASSUME Control, AskAddresses
  PROVE  Control'
<1>1. /\ job' = job /\ session' = session /\ tracked' = tracked /\ stored' = stored
      /\ call' = Then("addresses") \/ call' = AfterFailure
  BY DEF AskAddresses, Store
<1>2. CallGood(Then("addresses")) /\ Then("addresses").at = "addresses"
  BY DEF Control, CallGood, CallAt, Reading, AskAddresses, Then
<1>3. CallGood(AfterFailure) /\ AfterFailure.at \in {"ask_headers", "done", "failed"}
  BY AfterFailureFacts DEF Control
<1>4. CallGood(call') /\ call'.at \in {"addresses", "ask_headers", "done", "failed"}
  BY <1>1, <1>2, <1>3
<1>5. tracked' = {} /\ session.state \notin {"headers_requested", "proof_requested"} /\ call.at = "ask_addresses"
  BY <1>1 DEF Control, Agree, AskAddresses
<1>. QED BY <1>1, <1>4, <1>5, CallEnds

LEMMA AskHeadersKeepsControl ==
  ASSUME Control, AskHeaders
  PROVE  Control'
<1>1. /\ job' = job /\ tracked' = tracked /\ stored' = stored /\ call.at = "ask_headers"
  BY DEF AskHeaders, Store
<1>2. tracked = {} /\ stored = {} /\ session.state \notin {"headers_requested", "proof_requested"}
  BY <1>1 DEF Control, Agree
<1>3. CallGood(Ended("failed")) /\ Ended("failed").at = "failed"
  BY DEF Control, CallGood, CallAt, Ended
<1>4. CASE session.state # "ready"
  <2>1. call' = Ended("failed") /\ session' = session
    BY <1>4 DEF AskHeaders
  <2>. QED BY <1>1, <1>2, <1>3, <2>1, CallEnds
<1>5. CASE session.state = "ready"
  <2>. DEFINE c == [at |-> "headers", batches |-> call.batches + 1]
  <2>1. session' = [session EXCEPT !.state = "headers_requested"] /\ (call' = c \/ call' = Ended("failed"))
    BY <1>5 DEF AskHeaders
  <2>2. c.batches \in 0 .. MaxBatches
    BY <1>1, SessionAssumption DEF Control, CallGood
  <2>3. CallGood(c) /\ c.at = "headers"
    BY <2>2 DEF CallGood, CallAt, Reading
  <2>4. CallGood(call') /\ call'.at \in {"headers", "failed"}
    BY <1>3, <2>1, <2>3
  <2>5. SessionGood(session') /\ session'.state = "headers_requested"
    <3>1. session \in [state : States, acked : BOOLEAN, remote : [height : Nat, serves : BOOLEAN]]
          /\ session.remote.serves
      BY <1>5 DEF Control, SessionGood
    <3>. QED BY <2>1, <3>1 DEF SessionGood, States
  <2>6. Agree(call', session', tracked', stored')
    BY <1>1, <1>2, <2>4, <2>5 DEF Agree
  <2>7. job \in Jobs
    BY DEF Control
  <2>. QED BY <1>1, <2>4, <2>5, <2>6, <2>7, ControlFollows
<1>. QED BY <1>4, <1>5

LEMMA AskProofKeepsControl ==
  ASSUME Control, AskProof
  PROVE  Control'
<1>1. /\ job' = job /\ stored' = stored /\ call.at = "ask_proof"
  BY DEF AskProof, Store
<1>2. /\ tracked = {} /\ stored = {} /\ session.state \notin {"headers_requested", "proof_requested"}
      /\ HighPeer(session)
  BY <1>1 DEF Control, Agree
<1>3. CallGood(Ended("failed")) /\ Ended("failed").at = "failed"
  BY DEF Control, CallGood, CallAt, Ended
<1>4. CASE session.state # "ready"
  <2>1. call' = Ended("failed") /\ session' = session /\ tracked' = tracked
    BY <1>4 DEF AskProof
  <2>. QED BY <1>1, <1>2, <1>3, <2>1, CallEnds
<1>5. CASE session.state = "ready"
  <2>1. /\ session' = [session EXCEPT !.state = "proof_requested"]
        /\ \/ call' = Then("proof") /\ tracked' = tracked \cup {Asked}
           \/ call' = Ended("failed") /\ tracked' = tracked
    BY <1>5 DEF AskProof
  <2>2. CallGood(Then("proof")) /\ Then("proof").at = "proof"
    BY <1>1 DEF Control, CallGood, CallAt, Reading, Then
  <2>3. CallGood(call') /\ call'.at \in {"proof", "failed"} /\ (tracked' = {} \/ (tracked' = {Asked} /\ call'.at = "proof"))
    BY <1>2, <1>3, <2>1, <2>2
  <2>4. SessionGood(session') /\ session'.state = "proof_requested" /\ session'.remote = session.remote
    <3>1. session \in [state : States, acked : BOOLEAN, remote : [height : Nat, serves : BOOLEAN]]
          /\ session.remote.serves
      BY <1>5 DEF Control, SessionGood
    <3>. QED BY <2>1, <3>1 DEF SessionGood, States
  <2>5. HighPeer(session')
    BY <1>2, <2>4 DEF HighPeer
  <2>6. Agree(call', session', tracked', stored')
    BY <1>1, <1>2, <2>3, <2>4, <2>5 DEF Agree
  <2>7. job \in Jobs
    BY DEF Control
  <2>. QED BY <1>1, <2>3, <2>4, <2>6, <2>7, ControlFollows
<1>. QED BY <1>4, <1>5

(* A call that reads and fails forgets what it asked for. *)
LEMMA FailureKeepsControl ==
  ASSUME Control, call.at \in Reading, job' = job, session' = session, stored' = stored,
         call' = AfterFailure, tracked' = tracked \ {Asked}
  PROVE  Control'
<1>1. tracked' = {}
  BY ForgetsAsked
<1>2. /\ CallGood(call') /\ call'.at \in {"ask_headers", "done", "failed"}
      /\ call.at \notin {"ask_addresses", "addresses"} => call'.at = "failed"
  BY AfterFailureFacts DEF Control
<1>3. call.at = "addresses" => session.state \notin {"headers_requested", "proof_requested"}
  BY DEF Control, Agree
<1>. QED BY <1>1, <1>2, <1>3, CallEnds DEF Reading

LEMMA ReadKeepsControl ==
  ASSUME Control, Read
  PROVE  Control'
<1>1. /\ call.at \in Reading /\ job' = job /\ session' = session /\ stored' = stored
      /\ \/ call' = call /\ tracked' = tracked
         \/ call' = AfterFailure /\ tracked' = tracked \ {Asked}
  BY DEF Read
<1>2. CASE call' = call /\ tracked' = tracked
  BY <1>1, <1>2, ControlFollows DEF Control
<1>3. CASE call' = AfterFailure /\ tracked' = tracked \ {Asked}
  BY <1>1, <1>3, FailureKeepsControl
<1>. QED BY <1>1, <1>2, <1>3

LEMMA ReadFailsKeepsControl ==
  ASSUME Control, ReadFails
  PROVE  Control'
BY FailureKeepsControl DEF ReadFails

LEMMA PeerKeepsControl ==
  ASSUME Control, PeerSends \/ PeerCloses
  PROVE  Control'
<1>1. job' = job /\ call' = call /\ session' = session /\ tracked' = tracked /\ stored' = stored
  BY DEF PeerSends, PeerCloses, Store
<1>. QED BY <1>1, ControlFollows DEF Control

LEMMA IngestTracked ==
  ASSUME Control, NEW p, Ingest(p) # {}
  PROVE  <<p.root, p.key>> = Asked /\ Asked \in tracked
<1>1. <<p.root, p.key>> \in tracked
  BY DEF Ingest
<1>. QED BY <1>1 DEF Control, Agree

LEMMA HandleKeepsControl ==
  ASSUME Control, pending \in Seq(AnyPacket), Handle
  PROVE  Control'
<1>0. /\ job \in Jobs /\ CallGood(call) /\ SessionGood(session) /\ Agree(call, session, tracked, stored)
      /\ job' = job
  BY DEF Control, Handle
<1>1. /\ call.at \in Reading
      /\ \E says : Sensible(session, says) /\ session' = says.session /\ HandledAs(pending[1], says)
  BY <1>0, HandleFacts
<1>. DEFINE p == pending[1]
<1>2. PICK says : Sensible(session, says) /\ session' = says.session /\ HandledAs(p, says)
  BY <1>1
<1>. HIDE DEF p
<1>3. /\ SessionGood(session')
      /\ says.report \in {"ready", "headers", "proof"} => session'.state = "ready"
      /\ session'.state \in {"headers_requested", "proof_requested"} => session'.state = session.state
      /\ session.state # "awaiting_version" =>
           session'.remote = session.remote /\ session'.state # "awaiting_version"
  BY <1>2 DEF Sensible
<1>4. stored = {} /\ call.at # "done" /\ (tracked # {} => call.at = "proof")
  BY <1>0, <1>1 DEF Agree, Reading
<1>5. HighPeer(session) /\ session.state # "awaiting_version" => HighPeer(session')
  BY <1>3 DEF HighPeer
<1>6. CASE call' = AfterFailure /\ tracked' = tracked \ {Asked} /\ Unstored
  <2>1. tracked' = {} /\ stored' = {}
    BY <1>4, <1>6, ForgetsAsked DEF Unstored
  <2>2. /\ CallGood(call') /\ call'.at \in {"ask_headers", "done", "failed"}
        /\ call.at \notin {"ask_addresses", "addresses"} => call'.at = "failed"
    BY <1>0, <1>6, AfterFailureFacts
  <2>3. call.at = "addresses" => session.state \notin {"headers_requested", "proof_requested"}
    BY <1>0 DEF Agree
  <2>4. session'.state \in {"headers_requested", "proof_requested"} => call'.at = "failed"
    BY <1>1, <1>3, <2>2, <2>3 DEF Reading
  <2>5. Agree(call', session', tracked', stored')
    BY <2>1, <2>2, <2>4 DEF Agree
  <2>. QED BY <1>0, <1>3, <2>2, <2>5, ControlFollows
<1>7. CASE call' = call /\ tracked' = tracked /\ Unstored /\ says.report = "none"
  <2>1. stored' = {} /\ (tracked # {} => tracked = {Asked})
    BY <1>0, <1>4, <1>7 DEF Unstored, Agree
  <2>2. Agree(call', session', tracked', stored')
    BY <1>0, <1>1, <1>3, <1>4, <1>5, <1>7, <2>1 DEF Agree, Reading
  <2>. QED BY <1>0, <1>3, <1>7, <2>2, ControlFollows
<1>8. CASE /\ call.at = "handshake" /\ says.report = "ready" /\ call' = AfterHandshake(says.session.remote)
           /\ tracked' = tracked /\ Unstored
  <2>1. tracked' = {} /\ stored' = {} /\ session'.state = "ready" /\ call' = AfterHandshake(session'.remote)
    BY <1>2, <1>3, <1>4, <1>8 DEF Unstored
  <2>. DEFINE remote == session'.remote
  <2>2. remote.height \in Nat /\ remote.serves
    BY <1>3, <2>1 DEF SessionGood
  <2>. HIDE DEF remote
  <2>3. /\ CallGood(AfterHandshake(remote))
        /\ AfterHandshake(remote).at \in {"ask_addresses", "ask_headers", "ask_proof", "failed"}
        /\ AfterHandshake(remote).at = "ask_proof" => remote.height >= BestHeight
    BY <1>0, <1>8, <2>2, AfterHandshakeFacts
  <2>4. /\ CallGood(call') /\ call'.at \in {"ask_addresses", "ask_headers", "ask_proof", "failed"}
        /\ call'.at = "ask_proof" => HighPeer(session')
    BY <2>1, <2>2, <2>3 DEF remote, HighPeer
  <2>5. Agree(call', session', tracked', stored')
    BY <2>1, <2>4 DEF Agree
  <2>. QED BY <1>0, <1>3, <2>4, <2>5, ControlFollows
<1>9. CASE call.at = "addresses" /\ call' = AfterAddresses /\ tracked' = tracked /\ Unstored
  <2>1. tracked' = {} /\ stored' = {} /\ session'.state \notin {"headers_requested", "proof_requested"}
    BY <1>0, <1>3, <1>4, <1>9 DEF Unstored, Agree
  <2>2. CallGood(call') /\ call'.at \in {"ask_headers", "done"}
    BY <1>0, <1>9, AfterAddressesFacts
  <2>3. Agree(call', session', tracked', stored')
    BY <2>1, <2>2 DEF Agree
  <2>. QED BY <1>0, <1>3, <2>2, <2>3, ControlFollows
<1>10. CASE /\ call.at = "headers" /\ says.report = "headers" /\ \E last \in BOOLEAN : call' = AfterHeaders(last)
            /\ tracked' = tracked /\ Unstored
  <2>1. tracked' = {} /\ stored' = {} /\ session'.state = "ready"
    BY <1>3, <1>4, <1>10 DEF Unstored
  <2>2. CallGood(call') /\ call'.at \in {"ask_headers", "done"}
    BY <1>0, <1>10, AfterHeadersFacts
  <2>3. Agree(call', session', tracked', stored')
    BY <2>1, <2>2 DEF Agree
  <2>. QED BY <1>0, <1>3, <2>2, <2>3, ControlFollows
<1>11. CASE /\ call.at = "proof" /\ says.report = "proof" /\ p.type = "proof"
            /\ \E kept \in SUBSET Ingest(p) :
                 /\ stored' = stored \cup kept
                 /\ call' = Ended(IF kept = {} THEN "failed" ELSE "done")
            /\ tracked' = tracked \ {<<p.root, p.key>>}
  <2>1. PICK kept \in SUBSET Ingest(p) :
          stored' = stored \cup kept /\ call' = Ended(IF kept = {} THEN "failed" ELSE "done")
    BY <1>11
  <2>2. session'.state = "ready" /\ HighPeer(session') /\ stored' = kept
    BY <1>0, <1>3, <1>4, <1>5, <1>11, <2>1 DEF Agree
  <2>3. CallGood(call') /\ call'.at = IF kept = {} THEN "failed" ELSE "done"
    BY <1>0, <1>11, <2>1 DEF CallGood, CallAt, Ended
  <2>4. kept # {} => tracked' = {}
    <3>1. ASSUME kept # {} PROVE tracked' = {}
      <4>1. Ingest(p) # {}
        BY <2>1, <3>1
      <4>2. <<p.root, p.key>> = Asked
        BY <4>1, IngestTracked
      <4>. QED BY <1>11, <4>2, ForgetsAsked
    <3>. QED BY <3>1
  <2>5. tracked' # {} => tracked' = {Asked}
    BY <1>0, <1>11 DEF Agree
  <2>6. Agree(call', session', tracked', stored')
    BY <2>2, <2>3, <2>4, <2>5 DEF Agree
  <2>. QED BY <1>0, <1>3, <2>3, <2>6, ControlFollows
<1>. QED BY <1>2, <1>6, <1>7, <1>8, <1>9, <1>10, <1>11 DEF HandledAs

LEMMA InitControl ==
  ASSUME Init
  PROVE  Control
BY SessionAssumption DEF Init, Control, CallGood, CallAt, SessionGood, States, Agree, NoRemote

LEMMA NextControl ==
  ASSUME Control, Streams, [Next]_vars
  PROVE  Control'
<1>1. CASE UNCHANGED vars
  BY <1>1 DEF vars, Control, Agree, Asked, CallGood, SessionGood, HighPeer
<1>2. pending \in Seq(AnyPacket)
  BY DEF Streams
<1>. QED BY <1>1, <1>2, ConnectKeepsControl, AskAddressesKeepsControl, AskHeadersKeepsControl,
            AskProofKeepsControl, ReadKeepsControl, ReadFailsKeepsControl, HandleKeepsControl,
            PeerKeepsControl DEF Next, Client

-----------------------------------------------------------------------------
(* What is stored is true. *)

LEMMA IngestIsTrue ==
  ASSUME Control, NEW p \in AnyPacket, p.type = "proof", NEW r \in Ingest(p)
  PROVE  TrueRow(r)
<1>. DEFINE tree == Committed[job.root]
            key == NameHash[job.name]
            proof == p.proof
<1>1. <<p.root, p.key>> = Asked
  BY IngestTracked
<1>2. p.root = job.root /\ p.key = key
  BY <1>1 DEF Asked
<1>3. Decodes(proof) /\ Verify(proof, p.root, p.key) /\ r = RowFor(proof) /\ r.value # "mismatch"
  BY DEF Ingest
<1>4. job.root \in DOMAIN Committed /\ job.name \in DOMAIN NameHash
  BY SessionAssumption DEF Control
<1>5. job.root = RootOf(tree) /\ DOMAIN tree \subseteq Key /\ key \in Key
  BY <1>4, SessionAssumption
<1>6. Shaped(proof)
  <2>1. PICK f \in AnyFrame : p = f.packet
    BY DEF AnyPacket
  <2>. QED BY <2>1, FrameAssumption DEF AnyFrame
<1>7. proof.kind \in Kinds
  BY <1>3 DEF Decodes
<1>8. /\ r.name = job.name /\ r.root = job.root /\ r.height = BestHeight
      /\ r.value = IF Inclusion(proof) THEN NameStateValue(proof.body.value) ELSE "absent"
  BY <1>3 DEF RowFor
<1>. HIDE DEF tree, key, proof
<1>9. Verify(proof, RootOf(tree), key)
  BY <1>2, <1>3, <1>5
<1>10. IF Inclusion(proof) THEN key \in DOMAIN tree /\ tree[key] = proof.body.value
                           ELSE key \notin DOMAIN tree
  BY <1>5, <1>6, <1>7, <1>9, VerifiedIsTrue
<1>11. CASE Inclusion(proof)
  <2>1. r.value = tree[key].data
    BY <1>3, <1>8, <1>10, <1>11 DEF NameStateValue
  <2>. QED BY <1>8, <1>10, <1>11, <2>1 DEF TrueRow, tree, key
<1>12. CASE ~Inclusion(proof)
  BY <1>8, <1>10, <1>12 DEF TrueRow, tree, key
<1>. QED BY <1>11, <1>12

LEMMA NextRows ==
  ASSUME Control, Streams, \A r \in stored : TrueRow(r), [Next]_vars
  PROVE  (\A r \in stored : TrueRow(r))'
<1>1. job' = job /\ \A r \in stored' : r \in stored \/ TrueRow(r)
  <2>1. CASE Handle
    <3>1. job' = job /\ SessionGood(session) /\ pending \in Seq(AnyPacket)
      BY <2>1 DEF Handle, Control, Streams
    <3>2. PICK says : HandledAs(pending[1], says)
      BY <2>1, <3>1, HandleFacts
    <3>3. pending[1] \in AnyPacket
      BY <2>1, <3>1, HandleFacts
    <3>. DEFINE p == pending[1]
    <3>. HIDE DEF p
    <3>4. \/ stored' = stored
          \/ p.type = "proof" /\ \E kept \in SUBSET Ingest(p) : stored' = stored \cup kept
      BY <3>2 DEF HandledAs, Unstored, p
    <3>5. p \in AnyPacket
      BY <3>3 DEF p
    <3>. QED BY <3>1, <3>4, <3>5, IngestIsTrue
  <2>2. CASE UNCHANGED vars
    BY <2>2 DEF vars
  <2>3. CASE Connect \/ AskAddresses \/ AskHeaders \/ AskProof \/ Read \/ ReadFails \/ PeerSends \/ PeerCloses
    BY <2>3 DEF Connect, AskAddresses, AskHeaders, AskProof, Read, ReadFails, PeerSends, PeerCloses, Store
  <2>. QED BY <2>1, <2>2, <2>3 DEF Next, Client
<1>. QED BY <1>1 DEF TrueRow

-----------------------------------------------------------------------------
(* The packets handed over are those that were sent. *)

LEMMA TakeFacts ==
  ASSUME NEW S, NEW s \in Seq(S), NEW n \in 0 .. Len(s)
  PROVE  /\ SubSeq(s, 1, n) \in Seq(S) /\ Len(SubSeq(s, 1, n)) = n
         /\ \A i \in 1 .. n : SubSeq(s, 1, n)[i] = s[i]
<1>1. Len(s) \in Nat /\ 1 \in Int /\ n \in Int /\ n \in Nat /\ \A i \in 1 .. n : s[i] \in S
  BY LenProperties, ElementOfSeq
<1>. DEFINE t == SubSeq(s, 1, n)
<1>2. /\ t \in Seq(S) /\ Len(t) = IF 1 <= n THEN n - 1 + 1 ELSE 0
      /\ \A i \in 1 .. n - 1 + 1 : t[i] = s[1 + i - 1]
  BY <1>1, SubSeqProperties
<1>. HIDE DEF t
<1>3. /\ n - 1 + 1 = n /\ (IF 1 <= n THEN n - 1 + 1 ELSE 0) = n /\ \A i \in 1 .. n : 1 + i - 1 = i
  BY <1>1
<1>4. t \in Seq(S) /\ Len(t) = n /\ \A i \in 1 .. n : t[i] = s[i]
  BY <1>2, <1>3
<1>. QED BY <1>4 DEF t

LEMMA PacketsJoin ==
  ASSUME NEW s \in Seq(AnyFrame), NEW n \in 0 .. Len(s), NEW k \in 0 .. Len(s) - n
  PROVE  PacketsOf(SubSeq(s, 1, n)) \o PacketsOf(SubSeq(Drop(s, n), 1, k)) = PacketsOf(SubSeq(s, 1, n + k))
<1>. DEFINE d == Drop(s, n)
            a == SubSeq(s, 1, n)
            b == SubSeq(d, 1, k)
            c == SubSeq(s, 1, n + k)
            pa == PacketsOf(a)
            pb == PacketsOf(b)
            pc == PacketsOf(c)
            r == pa \o pb
<1>1. Len(s) \in Nat /\ n + k \in 0 .. Len(s) /\ n \in Nat /\ k \in Nat
  BY LenProperties
<1>2. d \in Seq(AnyFrame) /\ Len(d) = Len(s) - n /\ \A i \in 1 .. Len(s) - n : d[i] = s[n + i]
  BY DropFacts
<1>. HIDE DEF d
<1>3. a \in Seq(AnyFrame) /\ Len(a) = n /\ \A i \in 1 .. n : a[i] = s[i]
  BY TakeFacts
<1>4. b \in Seq(AnyFrame) /\ Len(b) = k /\ \A i \in 1 .. k : b[i] = d[i]
  <2>1. k \in 0 .. Len(d)
    BY <1>2
  <2>. QED BY <1>2, <2>1, TakeFacts
<1>5. c \in Seq(AnyFrame) /\ Len(c) = n + k /\ \A i \in 1 .. n + k : c[i] = s[i]
  BY <1>1, TakeFacts
<1>. HIDE DEF a, b, c
<1>6. pa \in Seq(AnyPacket) /\ Len(pa) = n /\ \A i \in 1 .. n : pa[i] = s[i].packet
  BY <1>3, PacketsAre
<1>7. pb \in Seq(AnyPacket) /\ Len(pb) = k /\ \A i \in 1 .. k : pb[i] = s[n + i].packet
  <2>1. pb \in Seq(AnyPacket) /\ Len(pb) = k /\ \A i \in 1 .. k : pb[i] = b[i].packet
    BY <1>4, PacketsAre
  <2>2. \A i \in 1 .. k : i \in 1 .. Len(s) - n
    BY <1>1
  <2>. QED BY <1>2, <1>4, <2>1, <2>2
<1>8. pc \in Seq(AnyPacket) /\ Len(pc) = n + k /\ \A i \in 1 .. n + k : pc[i] = s[i].packet
  BY <1>5, PacketsAre
<1>. HIDE DEF pa, pb, pc
<1>9. /\ r \in Seq(AnyPacket) /\ Len(r) = n + k
      /\ \A i \in 1 .. n + k : r[i] = IF i <= n THEN pa[i] ELSE pb[i - n]
  <2>1. /\ r \in Seq(AnyPacket) /\ Len(r) = Len(pa) + Len(pb)
        /\ \A i \in 1 .. Len(pa) + Len(pb) : r[i] = IF i <= Len(pa) THEN pa[i] ELSE pb[i - Len(pa)]
    BY <1>6, <1>7, ConcatProperties
  <2>. HIDE DEF r
  <2>. QED BY <1>6, <1>7, <2>1
<1>. HIDE DEF r
<1>10. ASSUME NEW i \in 1 .. n + k PROVE r[i] = pc[i]
  <2>1. CASE i <= n
    <3>1. i \in 1 .. n
      BY <1>1, <2>1
    <3>. QED BY <1>6, <1>8, <1>9, <2>1, <3>1
  <2>2. CASE ~(i <= n)
    <3>1. i - n \in 1 .. k /\ n + (i - n) = i
      BY <1>1, <2>2
    <3>. QED BY <1>7, <1>8, <1>9, <2>2, <3>1
  <2>. QED BY <2>1, <2>2
<1>11. r = pc
  BY <1>8, <1>9, <1>10, SeqEqual
<1>. QED BY <1>11 DEF r, pa, pb, pc, a, b, c, d

(* Moving the first element of one sequence to the end of another. *)
LEMMA MovesOne ==
  ASSUME NEW S, NEW s \in Seq(S), NEW t \in Seq(S), t # << >>
  PROVE  /\ Append(s, t[1]) \in Seq(S) /\ Tail(t) \in Seq(S)
         /\ Len(Append(s, t[1])) + Len(Tail(t)) = Len(s) + Len(t)
         /\ Append(s, t[1]) \o Tail(t) = s \o t
<1>. DEFINE a == Append(s, t[1])
            u == Tail(t)
            l == a \o u
            r == s \o t
<1>1. Len(s) \in Nat /\ Len(t) \in Nat \ {0} /\ t[1] \in S
  <2>1. Len(s) \in Nat /\ Len(t) \in Nat \ {0} /\ 1 \in 1 .. Len(t)
    BY LenProperties, EmptySeq
  <2>. QED BY <2>1, ElementOfSeq
<1>2. a \in Seq(S) /\ Len(a) = Len(s) + 1 /\ (\A i \in 1 .. Len(s) : a[i] = s[i]) /\ a[Len(s) + 1] = t[1]
  BY <1>1, AppendProperties
<1>3. u \in Seq(S) /\ Len(u) = Len(t) - 1 /\ \A i \in 1 .. Len(u) : u[i] = t[i + 1]
  BY HeadTailProperties
<1>. HIDE DEF a, u
<1>4. l \in Seq(S) /\ Len(l) = Len(a) + Len(u)
      /\ \A i \in 1 .. Len(a) + Len(u) : l[i] = IF i <= Len(a) THEN a[i] ELSE u[i - Len(a)]
  BY <1>2, <1>3, ConcatProperties
<1>5. r \in Seq(S) /\ Len(r) = Len(s) + Len(t)
      /\ \A i \in 1 .. Len(s) + Len(t) : r[i] = IF i <= Len(s) THEN s[i] ELSE t[i - Len(s)]
  BY ConcatProperties
<1>. HIDE DEF l, r
<1>6. Len(l) = Len(r) /\ Len(a) + Len(u) = Len(s) + Len(t)
  BY <1>1, <1>2, <1>3, <1>4, <1>5
<1>7. ASSUME NEW i \in 1 .. Len(l) PROVE l[i] = r[i]
  <2>1. i \in 1 .. Len(s) + Len(t) /\ i \in Nat
    BY <1>5, <1>6
  <2>2. CASE i <= Len(s)
    <3>1. i \in 1 .. Len(s) /\ i <= Len(a)
      BY <1>1, <1>2, <2>1, <2>2
    <3>. QED BY <1>2, <1>4, <1>5, <1>6, <2>1, <2>2, <3>1
  <2>3. CASE i = Len(s) + 1
    <3>1. i <= Len(a) /\ ~(i <= Len(s)) /\ i - Len(s) = 1
      BY <1>1, <1>2, <2>3
    <3>. QED BY <1>2, <1>4, <1>5, <1>6, <2>1, <2>3, <3>1
  <2>4. CASE i > Len(s) + 1
    <3>1. ~(i <= Len(a)) /\ ~(i <= Len(s)) /\ i - Len(a) \in 1 .. Len(u) /\ (i - Len(a)) + 1 = i - Len(s)
      BY <1>1, <1>2, <1>3, <2>1, <2>4
    <3>. QED BY <1>3, <1>4, <1>5, <1>6, <2>1, <3>1
  <2>. QED BY <1>1, <2>1, <2>2, <2>3, <2>4
<1>8. l = r
  BY <1>4, <1>5, <1>6, <1>7, SeqEqual
<1>. QED BY <1>2, <1>3, <1>6, <1>8 DEF l, r, a, u

(* What is left and what is taken of a sequence that grew by one. *)
LEMMA GrowsByOne ==
  ASSUME NEW s \in Seq(AnyFrame), NEW f \in AnyFrame, NEW n \in 0 .. Len(s)
  PROVE  /\ Append(s, f) \in Seq(AnyFrame) /\ n \in 0 .. Len(Append(s, f))
         /\ SubSeq(Append(s, f), 1, n) = SubSeq(s, 1, n)
         /\ CellsOf(Drop(Append(s, f), n)) = CellsOf(Drop(s, n)) \o Cells(f)
<1>. DEFINE t == Append(s, f)
            one == <<f>>
<1>1. t \in Seq(AnyFrame) /\ Len(t) = Len(s) + 1 /\ Len(s) \in Nat /\ \A i \in 1 .. Len(s) : t[i] = s[i]
  BY AppendProperties, LenProperties
<1>2. t = s \o one /\ one \in Seq(AnyFrame)
  BY AppendIsConcat
<1>. HIDE DEF t
<1>3. n \in 0 .. Len(t) /\ \A i \in 1 .. n : i \in 1 .. Len(s)
  BY <1>1
<1>4. SubSeq(t, 1, n) = SubSeq(s, 1, n)
  <2>. DEFINE a == SubSeq(t, 1, n)
              b == SubSeq(s, 1, n)
  <2>1. a \in Seq(AnyFrame) /\ Len(a) = n /\ \A i \in 1 .. n : a[i] = t[i]
    BY <1>1, <1>3, TakeFacts
  <2>2. b \in Seq(AnyFrame) /\ Len(b) = n /\ \A i \in 1 .. n : b[i] = s[i]
    BY TakeFacts
  <2>. HIDE DEF a, b
  <2>3. a = b
    BY <1>1, <1>3, <2>1, <2>2, SeqEqual
  <2>. QED BY <2>3 DEF a, b
<1>5. Drop(t, n) = Append(Drop(s, n), f)
  <2>1. Drop(t, n) = Drop(s, n) \o one
    <3>. HIDE DEF one
    <3>. QED BY <1>2, DropOfConcat
  <2>2. Drop(s, n) \in Seq(AnyFrame)
    BY DropFacts
  <2>3. Append(Drop(s, n), f) = Drop(s, n) \o one
    BY <2>2, AppendIsConcat
  <2>. QED BY <2>1, <2>3
<1>6. CellsOf(Drop(t, n)) = CellsOf(Drop(s, n)) \o Cells(f)
  <2>1. Drop(s, n) \in Seq(AnyFrame)
    BY DropFacts
  <2>. QED BY <1>5, <2>1, CellsOfMore
<1>. QED BY <1>1, <1>3, <1>4, <1>6 DEF t

InOrder(done, waiting, buffer, coming, frames) ==
  LET n == Len(done) + Len(waiting)
  IN /\ n <= Len(frames)
     /\ done \o waiting = PacketsOf(SubSeq(frames, 1, n))
     /\ buffer \o coming = CellsOf(Drop(frames, n))

LEMMA OrderKeptIs == OrderKept <=> torn \/ InOrder(taken, pending, decoder, wire, sent)
BY DEF OrderKept, InOrder, Drop

LEMMA OrderKeptNext ==
  ASSUME torn' \/ InOrder(taken', pending', decoder', wire', sent')
  PROVE  OrderKept'
BY DEF OrderKept, InOrder, Drop

(* A read: the cells that arrive were the first on the wire. *)
LEMMA ReadFacts ==
  ASSUME Streams, Read
  PROVE  /\ Streams' /\ sent' = sent /\ taken' = taken /\ pending = << >>
         /\ torn \in BOOLEAN /\ (torn => torn')
         /\ ~torn' => \A frames \in Seq(AnyFrame) :
                        decoder \o wire = CellsOf(frames) => Splits(frames, pending', decoder' \o wire')
<1>1. PICK n \in 1 .. ChunkCells :
        /\ n <= Len(wire)
        /\ wire' = SubSeq(wire, n + 1, Len(wire))
        /\ decoder' = Feed(decoder, SubSeq(wire, 1, n)).buffer
        /\ pending' = Feed(decoder, SubSeq(wire, 1, n)).packets
        /\ torn' = (torn \/ TooLarge(decoder, SubSeq(wire, 1, n)))
  BY DEF Read
<1>2. /\ decoder \in Seq(Cell) /\ Len(decoder) <= MaxMessage + HeaderCells /\ wire \in Seq(Cell)
      /\ sent \in Seq(AnyFrame) /\ taken \in Seq(AnyPacket) /\ torn \in BOOLEAN /\ open \in BOOLEAN
      /\ sent' = sent /\ taken' = taken /\ open' = open /\ pending = << >>
  BY DEF Streams, Read
<1>3. n \in 0 .. Len(wire)
  BY <1>1, <1>2, LenProperties, SessionAssumption
<1>. DEFINE data == SubSeq(wire, 1, n)
            fed == Feed(decoder, data)
<1>4. data \in Seq(Cell)
  BY <1>2, <1>3, TakeFacts
<1>5. wire' = Drop(wire, n) /\ wire' \in Seq(Cell)
  BY <1>1, <1>2, <1>3, DropFacts DEF Drop
<1>6. data \o wire' = wire
  <2>1. 1 \in 1 .. Len(wire) + 1 /\ n \in 1 - 1 .. Len(wire) /\ Len(wire) \in n .. Len(wire)
    BY <1>2, <1>3, LenProperties
  <2>2. SubSeq(wire, 1, n) \o SubSeq(wire, n + 1, Len(wire)) = SubSeq(wire, 1, Len(wire))
    BY <1>2, <2>1, ConcatAdjacentSubSeq
  <2>3. SubSeq(wire, 1, Len(wire)) = wire
    BY <1>2, SubSeqFull
  <2>. QED BY <1>1, <2>2, <2>3
<1>7. decoder' = fed.buffer /\ pending' = fed.packets /\ torn' = (torn \/ TooLarge(decoder, data))
  BY <1>1
<1>. HIDE DEF data
<1>8. /\ fed.packets \in Seq(AnyPacket) /\ fed.buffer \in Seq(Cell)
      /\ Len(fed.buffer) <= MaxMessage + HeaderCells
      /\ ~TooLarge(decoder, data) =>
           \A frames \in Seq(AnyFrame), more \in Seq(Cell) :
             (decoder \o data) \o more = CellsOf(frames) => Splits(frames, fed.packets, fed.buffer \o more)
  BY <1>2, <1>4, FeedFacts
<1>. HIDE DEF fed
<1>9. torn' \in BOOLEAN /\ (torn => torn') /\ (~torn' => ~TooLarge(decoder, data))
  BY <1>2, <1>7
<1>10. (decoder \o data) \o wire' = decoder \o wire
  <2>1. (decoder \o data) \o wire' = decoder \o (data \o wire')
    <3>1. decoder \in Seq(Cell) /\ data \in Seq(Cell) /\ wire' \in Seq(Cell)
      BY <1>2, <1>4, <1>5
    <3>. QED BY <3>1, CellsAssociate
  <2>. QED BY <1>6, <2>1
<1>11. ASSUME ~torn', NEW frames \in Seq(AnyFrame), decoder \o wire = CellsOf(frames)
       PROVE  Splits(frames, pending', decoder' \o wire')
  <2>1. Splits(frames, fed.packets, fed.buffer \o wire')
    BY <1>5, <1>8, <1>9, <1>10, <1>11
  <2>. QED BY <1>7, <2>1
<1>12. Streams'
  BY <1>2, <1>5, <1>7, <1>8, <1>9 DEF Streams
<1>. QED BY <1>2, <1>9, <1>11, <1>12

LEMMA ReadKeepsOrder ==
  ASSUME Streams, OrderKept, Read
  PROVE  OrderKept'
<1>1. /\ Streams' /\ sent' = sent /\ taken' = taken /\ pending = << >> /\ (torn => torn')
      /\ ~torn' => \A frames \in Seq(AnyFrame) :
                     decoder \o wire = CellsOf(frames) => Splits(frames, pending', decoder' \o wire')
  BY ReadFacts
<1>2. ASSUME ~torn' PROVE InOrder(taken', pending', decoder', wire', sent')
  <2>. DEFINE n == Len(taken)
              left == Drop(sent, n)
              m == Len(taken') + Len(pending')
  <2>1. InOrder(taken, pending, decoder, wire, sent)
    BY <1>1, <1>2, OrderKeptIs
  <2>2. taken \in Seq(AnyPacket) /\ sent \in Seq(AnyFrame) /\ n \in Nat /\ Len(sent) \in Nat
    BY LenProperties DEF Streams
  <2>3. Len(taken) + Len(pending) = n /\ taken \o pending = taken
    BY <1>1, <2>2, ConcatEmptySeq, EmptySeq
  <2>4. n \in 0 .. Len(sent) /\ taken = PacketsOf(SubSeq(sent, 1, n)) /\ decoder \o wire = CellsOf(left)
    <3>. DEFINE q == Len(taken) + Len(pending)
    <3>1. q <= Len(sent) /\ taken \o pending = PacketsOf(SubSeq(sent, 1, q)) /\ decoder \o wire = CellsOf(Drop(sent, q))
      BY <2>1 DEF InOrder
    <3>2. q = n
      BY <2>3
    <3>. HIDE DEF q, n
    <3>3. taken = PacketsOf(SubSeq(sent, 1, n)) /\ decoder \o wire = CellsOf(Drop(sent, n)) /\ n <= Len(sent)
      BY <2>3, <3>1, <3>2
    <3>. QED BY <2>2, <3>3 DEF n
  <2>5. left \in Seq(AnyFrame) /\ Len(left) = Len(sent) - n
    BY <2>2, <2>4, DropFacts
  <2>6. Splits(left, pending', decoder' \o wire')
    <3>. HIDE DEF left
    <3>. QED BY <1>1, <1>2, <2>4, <2>5
  <2>7. PICK k \in 0 .. Len(left) :
          pending' = PacketsOf(SubSeq(left, 1, k)) /\ decoder' \o wire' = CellsOf(Drop(left, k))
    BY <2>6 DEF Splits
  <2>8. k \in 0 .. Len(sent) - n
    BY <2>5
  <2>9. Drop(left, k) = Drop(sent, n + k) /\ n + k \in 0 .. Len(sent)
    BY <2>2, <2>4, <2>8, DropTwice
  <2>10. PacketsOf(SubSeq(sent, 1, n)) \o PacketsOf(SubSeq(left, 1, k)) = PacketsOf(SubSeq(sent, 1, n + k))
    BY <2>2, <2>4, <2>8, PacketsJoin
  <2>11. Len(pending') = k
    <3>. HIDE DEF left
    <3>1. SubSeq(left, 1, k) \in Seq(AnyFrame) /\ Len(SubSeq(left, 1, k)) = k
      BY <2>5, TakeFacts
    <3>. QED BY <2>7, <3>1, PacketsAre
  <2>12. m = n + k /\ taken' \o pending' = PacketsOf(SubSeq(sent, 1, n + k))
    <3>1. m = n + k
      BY <1>1, <2>11
    <3>2. taken' \o pending' = PacketsOf(SubSeq(sent, 1, n)) \o PacketsOf(SubSeq(left, 1, k))
      BY <1>1, <2>4, <2>7
    <3>. QED BY <2>10, <3>1, <3>2
  <2>13. n + k <= Len(sent) /\ decoder' \o wire' = CellsOf(Drop(sent, n + k))
    BY <2>7, <2>9
  <2>. HIDE DEF m, n, left
  <2>14. m <= Len(sent') /\ taken' \o pending' = PacketsOf(SubSeq(sent', 1, m)) /\ decoder' \o wire' = CellsOf(Drop(sent', m))
    BY <1>1, <2>12, <2>13
  <2>. QED BY <2>14 DEF InOrder, m
<1>. QED BY <1>2, OrderKeptNext

LEMMA HandleKeepsOrder ==
  ASSUME Streams, OrderKept, Handle
  PROVE  Streams' /\ OrderKept'
<1>1. /\ pending # << >> /\ pending' = Tail(pending) /\ taken' = Append(taken, pending[1])
      /\ decoder' = decoder /\ torn' = torn /\ wire' = wire /\ open' = open /\ sent' = sent
  BY DEF Handle, Network
<1>2. taken \in Seq(AnyPacket) /\ pending \in Seq(AnyPacket)
  BY DEF Streams
<1>3. /\ taken' \in Seq(AnyPacket) /\ pending' \in Seq(AnyPacket)
      /\ Len(taken') + Len(pending') = Len(taken) + Len(pending) /\ taken' \o pending' = taken \o pending
  BY <1>1, <1>2, MovesOne
<1>4. Streams'
  BY <1>1, <1>3 DEF Streams
<1>5. InOrder(taken, pending, decoder, wire, sent) => InOrder(taken', pending', decoder', wire', sent')
  BY <1>1, <1>3 DEF InOrder
<1>. QED BY <1>1, <1>4, <1>5, OrderKeptIs, OrderKeptNext

LEMMA NoneInOrder == InOrder(<< >>, << >>, << >>, << >>, << >>)
<1>1. << >> \in Seq(Cell) /\ << >> \in Seq(AnyFrame) /\ << >> \in Seq(AnyPacket) /\ Len(<< >>) = 0
  BY EmptySeq
<1>2. SubSeq(<< >>, 1, 0) = << >> /\ Drop(<< >>, 0) = << >>
  <2>. DEFINE e == << >>
  <2>1. e \in Seq(Cell) /\ 1 \in Int /\ 0 \in Int /\ 0 < 1
    BY <1>1
  <2>. HIDE DEF e
  <2>2. SubSeq(e, 1, 0) = << >>
    BY <2>1, SubSeqEmpty
  <2>3. Drop(e, 0) = e
    BY <2>1, DropNone
  <2>. QED BY <2>2, <2>3 DEF e
<1>3. PacketsOf(<< >>) = << >>
  <2>1. PacketsOf(<< >>) \in Seq(AnyPacket) /\ Len(PacketsOf(<< >>)) = 0
    BY <1>1, PacketsAre
  <2>. QED BY <2>1, EmptySeq
<1>4. << >> \o << >> = << >>
  BY <1>1, ConcatEmptySeq
<1>. DEFINE e == << >>
<1>5. /\ Len(e) = 0 /\ SubSeq(e, 1, 0) = e /\ Drop(e, 0) = e /\ PacketsOf(e) = e /\ CellsOf(e) = e
      /\ e \o e = e
  BY <1>1, <1>2, <1>3, <1>4, CellsOfNone
<1>. HIDE DEF e
<1>6. Len(e) + Len(e) = 0 /\ 0 <= Len(e)
  BY <1>5
<1>7. InOrder(e, e, e, e, e)
  BY <1>5, <1>6 DEF InOrder
<1>. QED BY <1>7 DEF e

(* One more frame at the end of the wire. *)
LEMMA MoreInOrder ==
  ASSUME NEW done \in Seq(AnyPacket), NEW waiting \in Seq(AnyPacket), NEW buffer \in Seq(Cell),
         NEW coming \in Seq(Cell), NEW frames \in Seq(AnyFrame), NEW f \in AnyFrame,
         InOrder(done, waiting, buffer, coming, frames)
  PROVE  InOrder(done, waiting, buffer, coming \o Cells(f), Append(frames, f))
<1>. DEFINE n == Len(done) + Len(waiting)
            more == Append(frames, f)
<1>1. n \in 0 .. Len(frames) /\ done \o waiting = PacketsOf(SubSeq(frames, 1, n))
      /\ buffer \o coming = CellsOf(Drop(frames, n)) /\ Cells(f) \in Seq(Cell)
  BY LenProperties, CellsAre DEF InOrder
<1>. HIDE DEF n
<1>2. /\ n \in 0 .. Len(more) /\ SubSeq(more, 1, n) = SubSeq(frames, 1, n)
      /\ CellsOf(Drop(more, n)) = CellsOf(Drop(frames, n)) \o Cells(f)
  BY <1>1, GrowsByOne
<1>. HIDE DEF more
<1>3. buffer \o (coming \o Cells(f)) = CellsOf(Drop(more, n))
  <2>1. (buffer \o coming) \o Cells(f) = buffer \o (coming \o Cells(f))
    BY <1>1, CellsAssociate
  <2>. QED BY <1>1, <1>2, <2>1
<1>4. n <= Len(more)
  BY <1>2
<1>5. done \o waiting = PacketsOf(SubSeq(more, 1, n))
  BY <1>1, <1>2
<1>6. InOrder(done, waiting, buffer, coming \o Cells(f), more)
  BY <1>3, <1>4, <1>5 DEF InOrder, n
<1>. QED BY <1>6 DEF more

LEMMA PeerSendsKeepsOrder ==
  ASSUME job \in Jobs, Streams, OrderKept, PeerSends
  PROVE  Streams' /\ OrderKept'
<1>1. PICK f \in Frame[job.kind] :
        /\ wire' = wire \o Cells(f)
        /\ IF Empty THEN sent' = <<f>> /\ taken' = << >>
                    ELSE sent' = Append(sent, f) /\ taken' = taken
  BY DEF PeerSends
<1>2. /\ decoder' = decoder /\ pending' = pending /\ torn' = torn /\ open' = open
      /\ pending = << >>
  BY DEF PeerSends
<1>3. f \in AnyFrame
  BY DEF AnyFrame
<1>4. /\ decoder \in Seq(Cell) /\ wire \in Seq(Cell) /\ sent \in Seq(AnyFrame)
      /\ taken \in Seq(AnyPacket) /\ pending \in Seq(AnyPacket) /\ Cells(f) \in Seq(Cell)
  BY <1>3, CellsAre DEF Streams
<1>5. << >> \in Seq(AnyFrame) /\ << >> \in Seq(AnyPacket) /\ << >> \in Seq(Cell)
  BY EmptySeq
<1>6. CASE Empty
  <2>1. /\ wire = << >> /\ decoder = << >> /\ sent' = <<f>> /\ taken' = << >>
        /\ Append(<< >>, f) = <<f>>
    BY <1>1, <1>6 DEF Empty
  <2>2. wire' \in Seq(Cell) /\ sent' \in Seq(AnyFrame) /\ taken' \in Seq(AnyPacket)
    BY <1>1, <1>3, <1>4, <1>5, <2>1, ConcatProperties
  <2>3. InOrder(<< >>, << >>, << >>, << >> \o Cells(f), Append(<< >>, f))
    BY <1>3, <1>5, NoneInOrder, MoreInOrder
  <2>4. InOrder(taken', pending', decoder', wire', sent')
    BY <1>1, <1>2, <2>1, <2>3
  <2>5. Streams'
    BY <1>2, <2>2 DEF Streams
  <2>. QED BY <2>4, <2>5, OrderKeptNext
<1>7. CASE ~Empty
  <2>0. wire' = wire \o Cells(f) /\ sent' = Append(sent, f) /\ taken' = taken
    BY <1>1, <1>7
  <2>1. wire' \in Seq(Cell) /\ sent' \in Seq(AnyFrame) /\ taken' \in Seq(AnyPacket)
    BY <1>3, <1>4, <2>0, ConcatProperties, AppendProperties
  <2>2. Streams'
    BY <1>2, <2>1 DEF Streams
  <2>3. ASSUME InOrder(taken, pending, decoder, wire, sent)
        PROVE  InOrder(taken', pending', decoder', wire', sent')
    BY <1>2, <1>3, <1>4, <2>0, <2>3, MoreInOrder
  <2>. QED BY <1>2, <2>2, <2>3, OrderKeptIs, OrderKeptNext
<1>. QED BY <1>6, <1>7

LEMMA InitOrder ==
  ASSUME Init
  PROVE  Streams /\ OrderKept
<1>1. /\ decoder = << >> /\ pending = << >> /\ wire = << >> /\ sent = << >> /\ taken = << >>
      /\ open = TRUE /\ torn = FALSE
  BY DEF Init
<1>2. << >> \in Seq(Cell) /\ << >> \in Seq(AnyFrame) /\ << >> \in Seq(AnyPacket) /\ Len(<< >>) = 0
  BY EmptySeq
<1>3. MaxMessage + HeaderCells >= 0
  BY FramesAssumption DEF HeaderCells
<1>4. Streams
  BY <1>1, <1>2, <1>3 DEF Streams
<1>. QED BY <1>1, <1>4, NoneInOrder, OrderKeptIs

LEMMA NextOrder ==
  ASSUME job \in Jobs, Streams, OrderKept, [Next]_vars
  PROVE  Streams' /\ OrderKept'
<1>1. CASE Read
  BY <1>1, ReadFacts, ReadKeepsOrder
<1>2. CASE Handle
  BY <1>2, HandleKeepsOrder
<1>3. CASE PeerSends
  BY <1>3, PeerSendsKeepsOrder
<1>4. CASE Connect \/ AskAddresses \/ AskHeaders \/ AskProof \/ ReadFails \/ PeerCloses \/ UNCHANGED vars
  <2>1. /\ decoder' = decoder /\ pending' = pending /\ taken' = taken /\ torn' = torn /\ wire' = wire /\ sent' = sent
        /\ open' \in {open, FALSE}
    BY <1>4 DEF Connect, AskAddresses, AskHeaders, AskProof, ReadFails, PeerCloses, vars, Network, Stream
  <2>2. Streams'
    BY <2>1 DEF Streams
  <2>3. InOrder(taken, pending, decoder, wire, sent) => InOrder(taken', pending', decoder', wire', sent')
    BY <2>1
  <2>. QED BY <2>1, <2>2, <2>3, OrderKeptIs, OrderKeptNext
<1>. QED BY <1>1, <1>2, <1>3, <1>4 DEF Next, Client

-----------------------------------------------------------------------------
(* SessionInv is inductive and implies each property. *)
THEOREM SessionInvariant == Spec => []SessionInv
<1>1. Init => SessionInv
  <2>1. Init => \A r \in stored : TrueRow(r)
    BY DEF Init
  <2>. QED BY <2>1, InitControl, InitOrder DEF SessionInv
<1>2. SessionInv /\ [Next]_vars => SessionInv'
  <2>. SUFFICES ASSUME SessionInv, [Next]_vars PROVE SessionInv'
    OBVIOUS
  <2>1. Control /\ Streams /\ OrderKept /\ job \in Jobs /\ \A r \in stored : TrueRow(r)
    BY DEF SessionInv, Control
  <2>2. Control'
    BY <2>1, NextControl
  <2>3. Streams' /\ OrderKept'
    BY <2>1, NextOrder
  <2>4. (\A r \in stored : TrueRow(r))'
    BY <2>1, NextRows
  <2>. QED BY <2>2, <2>3, <2>4 DEF SessionInv
<1>. QED BY <1>1, <1>2, PTL DEF Spec

(* FrameDecoder::feed, HeaderSyncSession and ProofScheduler: the buffer    *)
(* never outgrows the longest frame, the session waits for an answer only  *)
(* in the call that asked or after it failed, and a request is tracked     *)
(* only while its proof is awaited or after an answer to another one.      *)
THEOREM SessionTypes == Spec => []SessionTypeOK
<1>1. SessionInv => SessionTypeOK
  BY DEF SessionInv, Control, CallGood, SessionGood, Agree, Streams, SessionTypeOK
<1>. QED BY <1>1, SessionInvariant, PTL

(* FrameDecoder::feed and receive_packet: the packets handled are those    *)
(* the peer sent, each once and in order, however the stream is cut.       *)
THEOREM PacketsKeepOrder == Spec => []OrderKept
<1>1. SessionInv => OrderKept
  BY DEF SessionInv
<1>. QED BY <1>1, SessionInvariant, PTL

(* ProofSyncCoordinator::ingest_proof: what is stored for a name is what   *)
(* the tree with the best header's root has for it.                        *)
THEOREM OnlyTruthIsStored == Spec => []StoredIsProved
<1>1. SessionInv => StoredIsProved
  <2>1. ASSUME SessionInv, NEW r \in stored PROVE HighPeer(session)
    BY <2>1 DEF SessionInv, Control, Agree
  <2>. QED BY <2>1 DEF SessionInv, TrueRow, StoredIsProved, HighPeer
<1>. QED BY <1>1, SessionInvariant, PTL
=============================================================================
