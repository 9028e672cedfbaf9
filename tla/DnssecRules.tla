------------------------------ MODULE DnssecRules ------------------------------
(***************************************************************************)
(* The validation rules of rust/crates/hns-dnssec.                         *)
(*                                                                         *)
(* A name is the sequence of its labels from the root down, so that a      *)
(* subdomain extends its parent and the canonical order is the             *)
(* lexicographic one.  A record is its owner, type and data; its TTL and   *)
(* class are left out.  Cryptography is symbolic: a signature names the    *)
(* key that made it and what it was made over, a digest what it is of.     *)
(* A set of records stands for a list of them in any order.                *)
(***************************************************************************)
EXTENDS Naturals, Sequences, FiniteSets

CONSTANTS
  Hash,       \* Hash[salt][name]: the iterated and salted SHA-1 of a name
  TooMany     \* the parameters (salt, iterations) above NSEC3_MAX_ITERATIONS

Wild == 0     \* the label "*", lower than any other

Records(S, owner, type) == {r \in S : r.owner = owner /\ r.type = type}
OfType(S, type) == {r \in S : r.type = type}

-----------------------------------------------------------------------------
(* Names *)
AtOrBelow(name, parent) ==
  Len(parent) <= Len(name) /\ SubSeq(name, 1, Len(parent)) = parent

StrictlyBelow(name, parent) == AtOrBelow(name, parent) /\ name # parent

NameLess(a, b) ==
  \E k \in 0 .. Len(a) :
    /\ k < Len(b) /\ SubSeq(a, 1, k) = SubSeq(b, 1, k)
    /\ k < Len(a) => a[k + 1] < b[k + 1]

WildcardChild(name) == Append(name, Wild)

NextCloser(name, encloser) == SubSeq(name, 1, Len(encloser) + 1)

(* An interval of the names in their order, whose last wraps around. *)
CoversName(owner, next, name) ==
  /\ name # owner
  /\ IF NameLess(owner, next) THEN NameLess(owner, name) /\ NameLess(name, next)
     ELSE NameLess(next, owner) => NameLess(owner, name) \/ NameLess(name, next)

CoversHash(owner, next, hash) ==
  /\ hash # owner
  /\ IF owner < next THEN owner < hash /\ hash < next
     ELSE next < owner => owner < hash \/ hash < next

-----------------------------------------------------------------------------
(* Signatures *)

(* The owner a signature was made over: the wildcard above, when it has    *)
(* fewer labels than the owner.                                            *)
SignedOwner(owner, labels) ==
  IF labels < Len(owner) THEN WildcardChild(SubSeq(owner, 1, labels)) ELSE owner

(* canonical_rrset succeeds: one type, one signed owner, and not RRSIGs.   *)
CanonicalRrset(rrset, sig) ==
  \A r \in rrset :
    /\ r.type = sig.covers /\ r.type # "RRSIG"
    /\ sig.labels <= Len(r.owner)
    /\ \A s \in rrset : SignedOwner(s.owner, sig.labels) = SignedOwner(r.owner, sig.labels)

(* What a signature is made over, besides its own fields. *)
SignedData(rrset, sig) ==
  [owner |-> SignedOwner((CHOOSE r \in rrset : TRUE).owner, sig.labels),
   rdata |-> {r.data : r \in rrset}]

(* verify_rsa, verify_ecdsa and verify_ed25519: the key made the signature *)
(* over these data.  A key of an unknown algorithm is known = FALSE.       *)
Verifies(sig, key, data) == sig.by = key.key /\ sig.over = data

InValidity(sig, now) == sig.from <= now /\ now <= sig.until

(* Mutation of VerifyRrsig: the validity window is not looked at. *)
VerifyAnyTime(rrset, sig, key, now) ==
  IF ~key.zone THEN "no"
  ELSE IF ~key.known \/ ~CanonicalRrset(rrset, sig) THEN "error"
  ELSE IF Verifies(sig, key, SignedData(rrset, sig)) THEN "yes" ELSE "no"

VerifyRrsig(rrset, sig, key, now) ==
  IF ~key.zone THEN "no"
  ELSE IF ~key.known \/ ~InValidity(sig, now) \/ ~CanonicalRrset(rrset, sig) THEN "error"
  ELSE IF Verifies(sig, key, SignedData(rrset, sig)) THEN "yes" ELSE "no"

(* A signature for the owner of the first record, and a key of its tag.    *)
Tried(zone, rrset, s, k) ==
  /\ \E first \in rrset : s.owner = first.owner /\ s.data.covers = first.type
  /\ s.data.signer = zone /\ s.data.tag = k.data.tag

(* Whichever is first, a signature that verifies is enough. *)
Verdicts(zone, keys, rrset, sigs, now) ==
  {VerifyRrsig(rrset, x[1].data, x[2].data, now) :
     x \in {x \in OfType(sigs, "RRSIG") \X OfType(keys, "DNSKEY") : Tried(zone, rrset, x[1], x[2])}}

RrsetStatus(zone, keys, rrset, sigs, now) ==
  LET v == Verdicts(zone, keys, rrset, sigs, now)
  IN IF rrset = {} THEN "Error"
     ELSE IF "yes" \in v THEN "Secure" ELSE IF "error" \in v THEN "Error" ELSE "Bogus"

-----------------------------------------------------------------------------
(* The chain of trust *)

(* ds_digest: of the owner and the key. *)
DigestOf(owner, key) == <<owner, key.key>>

DsVerdict(owner, key, ds) ==
  IF ~key.zone \/ key.tag # ds.tag THEN "no"
  ELSE IF ~ds.known THEN "error"
  ELSE IF ds.digest = DigestOf(owner, key) THEN "yes" ELSE "no"

(* Which of a match and an unknown digest type comes first is up to the    *)
(* order of the records.                                                   *)
LinkStatuses(owner, ds, keys) ==
  LET v == {DsVerdict(owner, k.data, d.data) : k \in OfType(keys, "DNSKEY"), d \in OfType(ds, "DS")}
  IN IF OfType(ds, "DS") = {} THEN {"Insecure"}
     ELSE IF v \subseteq {"no"} THEN {"Bogus"}
     ELSE {IF x = "yes" THEN "Secure" ELSE "Error" : x \in v \ {"no"}}

(* then, once a step is Secure. *)
AndThen(statuses, next) ==
  (statuses \ {"Secure"}) \cup (IF "Secure" \in statuses THEN next ELSE {})

KeysStatus(zone, keys, keySigs, now) == RrsetStatus(zone, keys, keys, keySigs, now)

ZoneStatuses(zone, ds, keys, keySigs, now) ==
  AndThen(LinkStatuses(zone, ds, keys), {KeysStatus(zone, keys, keySigs, now)})

(* validate_dnssec_chain with one delegation link. *)
ChildStatuses(parent, pds, pkeys, psigs, child, ds, dsSigs, keys, keySigs, now) ==
  AndThen(ZoneStatuses(parent, pds, pkeys, psigs, now),
  AndThen(LinkStatuses(child, ds, keys),
  AndThen({RrsetStatus(parent, pkeys, ds, dsSigs, now)}, {KeysStatus(child, keys, keySigs, now)})))

-----------------------------------------------------------------------------
(* NSEC denial *)
NsecNoData(zone, keys, name, type, nsecs, sigs, now) ==
  LET s == RrsetStatus(zone, keys, nsecs, sigs, now)
  IN IF s # "Secure" THEN s
     ELSE IF \E r \in Records(nsecs, name, "NSEC") : {type, "CNAME"} \cap r.data.types = {}
     THEN "Secure" ELSE "Bogus"

NsecNameRange(zone, keys, name, nsecs, sigs, now) ==
  LET s == RrsetStatus(zone, keys, nsecs, sigs, now)
  IN IF s # "Secure" THEN s
     ELSE IF \E r \in OfType(nsecs, "NSEC") : CoversName(r.owner, r.data.next, name)
     THEN "Secure" ELSE "Bogus"

NsecNameError(zone, keys, name, encloser, cover, wild, sigs, now) ==
  LET s == NsecNameRange(zone, keys, name, cover, sigs, now)
  IN IF ~StrictlyBelow(name, encloser) \/ cover = {} \/ wild = {} THEN "Bogus"
     ELSE IF s # "Secure" THEN s
     ELSE NsecNameRange(zone, keys, WildcardChild(encloser), wild, sigs, now)

-----------------------------------------------------------------------------
(* NSEC3 denial: the owner is the hash as a label under the zone.          *)
Nsec3RrsetStatus(zone, keys, nsec3s, sigs, now) ==
  IF nsec3s = {} THEN "Bogus" ELSE RrsetStatus(zone, keys, nsec3s, sigs, now)

OwnerHash(r) == r.owner[Len(r.owner)]

(* Records of an unknown algorithm or with unknown flags are passed over;  *)
(* one whose owner is not a hash of the zone is an error.                  *)
Usable(nsec3s) == {r \in OfType(nsec3s, "NSEC3") : r.data.usable}
Parsed(nsec3s, zone) == \A r \in Usable(nsec3s) : Len(r.owner) = Len(zone) + 1 /\ AtOrBelow(r.owner, zone)

(* nsec3_hash, of the name with a record's parameters. *)
HashOf(name, r) == Hash[r.data.salt][name]

Matching(nsec3s, name) == {r \in Usable(nsec3s) : OwnerHash(r) = HashOf(name, r)}
Covering(nsec3s, name) ==
  {r \in Usable(nsec3s) : CoversHash(OwnerHash(r), r.data.next, HashOf(name, r))}

SameParams(nsec3s, r) == {x \in nsec3s : x.data.salt = r.data.salt}

(* A name cannot be hashed with that many iterations. *)
Hashable(nsec3s) == \A r \in Usable(nsec3s) : r.data.salt \notin TooMany

(* An NSEC3 rrset that is signed, and can be read and hashed: its status,  *)
(* or then what follows.                                                   *)
IfNsec3(zone, keys, nsec3s, sigs, now, verdict) ==
  LET s == Nsec3RrsetStatus(zone, keys, nsec3s, sigs, now)
  IN IF s # "Secure" THEN s
     ELSE IF ~Parsed(nsec3s, zone) \/ ~Hashable(nsec3s) THEN "Error" ELSE verdict

Nsec3NoData(zone, keys, name, type, nsec3s, sigs, now) ==
  IfNsec3(zone, keys, nsec3s, sigs, now,
    IF \E r \in Matching(nsec3s, name) : {type, "CNAME"} \cap r.data.types = {}
    THEN "Secure" ELSE "Bogus")

(* Neither a DNAME nor the parent's side of a zone cut. *)
Authoritative(r) == "DNAME" \notin r.data.types /\ ("NS" \in r.data.types => "SOA" \in r.data.types)

(* Mutation of OptOut: the flag is not looked at. *)
OptOutIgnored(nsec3s) == FALSE
OptOut(nsec3s) == \E r \in nsec3s : r.data.optout

(* validate_nsec3_closest_encloser_proof: the encloser's record matches,   *)
(* one of the same chain covers the next closer name.  Then verdict.       *)
IfEnclosed(zone, keys, name, encloser, closest, next, sigs, now, verdict) ==
  LET m == Matching(closest, encloser)
      c == Covering(SameParams(next, CHOOSE r \in m : TRUE), NextCloser(name, encloser))
  IN IF ~StrictlyBelow(name, encloser) THEN "Bogus"
     ELSE IfNsec3(zone, keys, closest, sigs, now,
            IF m = {} \/ ~(\E r \in m : Authoritative(r)) THEN "Bogus"
            ELSE IfNsec3(zone, keys, next, sigs, now,
                   IF c = {} THEN "Bogus" ELSE IF OptOut(c) THEN "Insecure" ELSE verdict))

Nsec3NameError(zone, keys, name, encloser, closest, next, wild, sigs, now) ==
  LET m == Matching(closest, encloser)
      w == Covering(SameParams(wild, CHOOSE r \in m : TRUE), WildcardChild(encloser))
  IN IfEnclosed(zone, keys, name, encloser, closest, next, sigs, now,
       IfNsec3(zone, keys, wild, sigs, now,
         IF w = {} THEN "Bogus" ELSE IF OptOut(w) THEN "Insecure" ELSE "Secure"))

Nsec3WildcardNoData(zone, keys, name, encloser, type, closest, next, wild, sigs, now) ==
  LET m == Matching(closest, encloser)
      w == Matching(SameParams(wild, CHOOSE r \in m : TRUE), WildcardChild(encloser))
  IN IfEnclosed(zone, keys, name, encloser, closest, next, sigs, now,
       IfNsec3(zone, keys, wild, sigs, now,
         IF \E r \in w : {type, "CNAME"} \cap r.data.types = {} THEN "Secure" ELSE "Bogus"))

(* With a matching record it decides, with none only an opt-out interval.  *)
Nsec3DsNoData(zone, keys, name, match, encloser, closest, next, sigs, now) ==
  IF match # {}
  THEN IfNsec3(zone, keys, match, sigs, now,
         IF \E r \in Matching(match, name) : {"DS", "CNAME"} \cap r.data.types = {}
         THEN "Secure" ELSE "Bogus")
  ELSE IfEnclosed(zone, keys, name, encloser, closest, next, sigs, now, "Bogus")

Nsec3UnsignedReferral(zone, keys, name, match, encloser, closest, next, sigs, now) ==
  IF match # {}
  THEN IfNsec3(zone, keys, match, sigs, now,
         IF \E r \in Matching(match, name) : "NS" \in r.data.types /\ {"DS", "SOA"} \cap r.data.types = {}
         THEN "Insecure" ELSE "Bogus")
  ELSE IfEnclosed(zone, keys, name, encloser, closest, next, sigs, now, "Bogus")

Nsec3WildcardAnswer(zone, keys, name, encloser, next, sigs, now) ==
  LET c == Covering(next, NextCloser(name, encloser))
  IN IF ~StrictlyBelow(name, encloser) THEN "Bogus"
     ELSE IfNsec3(zone, keys, next, sigs, now,
            IF c = {} THEN "Bogus" ELSE IF OptOut(c) THEN "Insecure" ELSE "Secure")
================================================================================
