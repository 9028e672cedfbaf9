-------------------------------- MODULE TtlCache --------------------------------
(***************************************************************************)
(* TtlCache of rust/crates/hns-cache as a value: what each of its methods  *)
(* makes of it.  Keys may be anything; time is a number.                   *)
(***************************************************************************)
EXTENDS Naturals, Sequences, FiniteSets

(* entries: key -> value and expiry; order: keys, the least recent first.  *)
EmptyCache == [entries |-> << >>, order |-> << >>]

Keys(c) == DOMAIN c.entries

(* VecDeque::retain: of the keys those in S, in their order. *)
Retained(order, S) ==
  LET kept[i \in 0 .. Len(order)] ==
        IF i = 0 THEN << >>
        ELSE IF order[i] \in S THEN Append(kept[i - 1], order[i]) ELSE kept[i - 1]
  IN kept[Len(order)]

Without(order, k) == Retained(order, {order[i] : i \in DOMAIN order} \ {k})
Keep(c, S) == [entries |-> [k \in S |-> c.entries[k]], order |-> Retained(c.order, S)]

(* Mutation of Live: an entry is served until a tick after its time. *)
LiveLate(c, now) == {k \in Keys(c) : c.entries[k].expires >= now}
Live(c, now) == {k \in Keys(c) : c.entries[k].expires > now}

(* prune_expired *)
Pruned(c, now) == Keep(c, Live(c, now))

(* promote, and the key at the end. *)
Promoted(c, k) == [c EXCEPT !.order = Append(Without(@, k), k)]

(* Mutation of Evicted: an entry may be added when the cache is full. *)
EvictedLate(c, max) == IF Cardinality(Keys(c)) > max + 1 THEN Keep(c, Keys(c) \ {Head(c.order)}) ELSE c

(* evict_over_limit after one insertion. *)
Evicted(c, max) ==
  IF Cardinality(Keys(c)) > max THEN Keep(c, Keys(c) \ {Head(c.order)}) ELSE c

Hit(c, k, now) == k \in Live(c, now)

(* get, on a hit and on a miss *)
Got(c, k, now) == IF Hit(c, k, now) THEN Promoted(Pruned(c, now), k) ELSE Pruned(c, now)

Inserted(c, k, value, ttl, now, max) ==
  LET p == Pruned(c, now)
      entry == [value |-> value, expires |-> now + ttl]
      entries == [x \in Keys(p) \cup {k} |-> IF x = k THEN entry ELSE p.entries[x]]
  IN Evicted([entries |-> entries, order |-> Append(Without(p.order, k), k)], max)
================================================================================
