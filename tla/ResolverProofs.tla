----------------------------- MODULE ResolverProofs -----------------------------
(***************************************************************************)
(* Proofs about delegated resolution, for any zones, requests, proofs and  *)
(* replies of servers: what is reported secure was signed by those who     *)
(* hold the keys of the proven zone or of the child it delegates to, it    *)
(* is the end of one chain of CNAMEs inside the zone, and what a secure    *)
(* answer leaves out was not there, but for the two exceptions that        *)
(* SecureIsSigned and DenialsTrue name: a foreign key in a key set that it *)
(* signed itself, and a wildcard's NSEC replayed elsewhere.                *)
(*                                                                         *)
(* SigningAssumption says what a signature vouches for.  From there, what  *)
(* a validation by an operator of DnssecRules shows is a lemma, and        *)
(* CallInv says what a call holds between its steps.                       *)
(***************************************************************************)
EXTENDS Resolver, TLAPS, SequenceTheorems, FiniteSetTheorems, WellFoundedInduction

(* Records of one owner and type, as they were received. *)
IsRrset(rrset, owner, type) ==
  /\ rrset \subseteq Heard /\ owner \in Seq(Nat)
  /\ \A r \in rrset : r.owner = owner /\ r.type = type

KeysHeld(zone, keys) == \A k \in OfType(keys, "DNSKEY") : k.data.key \in KeysOf(zone)

(* The signature was made by the key, over the rrset, and is valid now.    *)
Made(s, k, zone, rrset, now) ==
  /\ s.data.signer = zone /\ s.data.by = k.data.key /\ InValidity(s.data, now)
  /\ s.data.over.rdata = {r.data : r \in rrset}
  /\ \A r \in rrset :
       /\ s.data.covers = r.type /\ s.data.labels <= Len(r.owner)
       /\ SignedOwner(r.owner, s.data.labels) = s.data.over.owner

(* p vouches for the rrset of that owner and type, at that time. *)
Vouches(p, zone, rrset, owner, type, now) ==
  /\ p \in Published /\ p.zone = zone /\ p.type = type
  /\ p.from <= now /\ now <= p.until
  /\ SignedFor(p, owner) /\ p.rdata = {r.data : r \in rrset}

-----------------------------------------------------------------------------
(* What a validation shows. *)

(* A signature that verifies was made by a key of the set over the rrset.  *)
LEMMA SecureIsVerified ==
  ASSUME NEW zone, NEW keys, NEW rrset, NEW sigs, NEW now,
         RrsetStatus(zone, keys, rrset, sigs, now) = "Secure"
  PROVE  /\ rrset # {}
         /\ \E s \in OfType(sigs, "RRSIG"), k \in OfType(keys, "DNSKEY") : Made(s, k, zone, rrset, now)
<1>1. rrset # {} /\ "yes" \in Verdicts(zone, keys, rrset, sigs, now)
  BY DEF RrsetStatus
<1>2. PICK s \in OfType(sigs, "RRSIG"), k \in OfType(keys, "DNSKEY") :
        Tried(zone, rrset, s, k) /\ VerifyRrsig(rrset, s.data, k.data, now) = "yes"
  BY <1>1 DEF Verdicts
<1>3. /\ InValidity(s.data, now) /\ CanonicalRrset(rrset, s.data)
      /\ Verifies(s.data, k.data, SignedData(rrset, s.data))
  BY <1>2 DEF VerifyRrsig
<1>. DEFINE first == CHOOSE r \in rrset : TRUE
<1>4. first \in rrset
  BY <1>1
<1>5. /\ s.data.by = k.data.key
      /\ s.data.over = [owner |-> SignedOwner(first.owner, s.data.labels), rdata |-> {r.data : r \in rrset}]
  BY <1>3 DEF Verifies, SignedData
<1>. HIDE DEF first
<1>6. /\ s.data.over.owner = SignedOwner(first.owner, s.data.labels)
      /\ s.data.over.rdata = {r.data : r \in rrset}
  BY <1>5
<1>7. ASSUME NEW r \in rrset
      PROVE  /\ s.data.covers = r.type /\ s.data.labels <= Len(r.owner)
             /\ SignedOwner(r.owner, s.data.labels) = s.data.over.owner
  BY <1>3, <1>4, <1>6 DEF CanonicalRrset
<1>8. Made(s, k, zone, rrset, now)
  BY <1>2, <1>3, <1>5, <1>6, <1>7 DEF Made, Tried
<1>. QED BY <1>1, <1>8

(* A signature for an owner is of the owner or of a wildcard above it.     *)
LEMMA SignedOwnerIs ==
  ASSUME NEW owner \in Seq(Nat), NEW labels \in Nat, NEW p \in Published,
         p.owner = SignedOwner(owner, labels)
  PROVE  SignedFor(p, owner)
<1>0. Len(owner) \in Nat
  BY LenProperties
<1>1. CASE ~(labels < Len(owner))
  BY <1>1 DEF SignedOwner, SignedFor
<1>2. CASE labels < Len(owner)
  <2>1. p.owner = WildcardChild(SubSeq(owner, 1, labels))
    BY <1>2 DEF SignedOwner
  <2>2. labels # 0
    <3>1. SubSeq(owner, 1, 0) = << >>
      BY SubSeqEmpty
    <3>2. WildcardChild(<< >>) = <<Wild>>
      BY DEF WildcardChild
    <3>. QED BY <2>1, <3>1, <3>2, PublishedAssumption
  <2>3. labels \in 1 .. Len(owner) - 1
    BY <1>0, <1>2, <2>2
  <2>. QED BY <2>1, <2>3 DEF SignedFor
<1>. QED BY <1>1, <1>2

(* What validates with a zone's keys the zone has published.               *)
LEMMA SecureIsPublished ==
  ASSUME NEW zone, NEW keys, NEW rrset, NEW sigs, NEW now, NEW owner, NEW type,
         IsRrset(rrset, owner, type), sigs \subseteq Heard, KeysHeld(zone, keys),
         RrsetStatus(zone, keys, rrset, sigs, now) = "Secure"
  PROVE  \E p : Vouches(p, zone, rrset, owner, type, now)
<1>0. rrset # {} /\ \E s \in OfType(sigs, "RRSIG"), k \in OfType(keys, "DNSKEY") : Made(s, k, zone, rrset, now)
  BY SecureIsVerified
<1>1. PICK s \in OfType(sigs, "RRSIG"), k \in OfType(keys, "DNSKEY") :
        /\ s.data.signer = zone /\ s.data.covers = type /\ s.data.by = k.data.key
        /\ InValidity(s.data, now)
        /\ s.data.over.owner = SignedOwner(owner, s.data.labels)
        /\ s.data.over.rdata = {r.data : r \in rrset}
  BY <1>0 DEF IsRrset, Made
<1>2. s \in OfType(Heard, "RRSIG") /\ s.type = "RRSIG"
  BY <1>1 DEF OfType
<1>3. s.data.by \in KeysOf(s.data.signer)
  BY <1>1 DEF KeysHeld
<1>4. PICK p \in Published :
        /\ p.zone = s.data.signer /\ p.type = s.data.covers /\ p.from = s.data.from /\ p.until = s.data.until
        /\ p.owner = s.data.over.owner /\ p.rdata = s.data.over.rdata
  BY <1>2, <1>3, SigningAssumption
<1>5. s.data.labels \in Nat /\ s.data.from \in Nat /\ s.data.until \in Nat
  BY <1>2, ReplyAssumption DEF OfType
<1>6. SignedFor(p, owner)
  BY <1>1, <1>4, <1>5, SignedOwnerIs DEF IsRrset
<1>. QED BY <1>1, <1>4, <1>5, <1>6 DEF Vouches, InValidity

(* A key set that validates is the zone's, or another's key has signed it. *)
LEMMA KeySetIsHeld ==
  ASSUME NEW zone \in Seq(Nat), NEW S, S \subseteq Heard, NEW now,
         KeysStatus(zone, KeySet(S, zone), SigsAt(S, zone), now) = "Secure", ~SignedByOther(zone, S)
  PROVE  KeysHeld(zone, KeySet(S, zone))
<1>. DEFINE keys == KeySet(S, zone)
<1>1. PICK s \in OfType(SigsAt(S, zone), "RRSIG"), x \in OfType(keys, "DNSKEY") : Made(s, x, zone, keys, now)
  BY SecureIsVerified DEF KeysStatus
<1>2. x \in keys /\ s \in SigsAt(S, zone) /\ s \in OfType(Heard, "RRSIG")
  BY <1>1 DEF OfType, SigsAt, Records
<1>3. OverKeySet(s, zone, S, x.data.key)
  BY <1>1, <1>2 DEF Made, OverKeySet, KeySet, Records
<1>4. s.data.by = x.data.key /\ s.data.by \in KeysOf(zone)
  BY <1>2, <1>3 DEF OverKeySet, SignedByOther
<1>5. PICK p \in Published : p.zone = zone /\ p.type = "DNSKEY" /\ p.rdata = {r.data : r \in keys}
  BY <1>2, <1>3, <1>4, SigningAssumption DEF OverKeySet
<1>6. \A r \in keys : r.data.key \in KeysOf(zone)
  BY <1>5 DEF KeysOf
<1>. QED BY <1>6 DEF KeysHeld, OfType

(* A secure link leads from a DS record to a key of the set. *)
LEMMA SecureLink ==
  ASSUME NEW owner, NEW ds, NEW keys, "Secure" \in LinkStatuses(owner, ds, keys)
  PROVE  \E k \in OfType(keys, "DNSKEY"), d \in OfType(ds, "DS") : d.data.digest = <<owner, k.data.key>>
<1>1. "yes" \in {DsVerdict(owner, k.data, d.data) : k \in OfType(keys, "DNSKEY"), d \in OfType(ds, "DS")}
  BY DEF LinkStatuses
<1>. QED BY <1>1 DEF DsVerdict, DigestOf

LEMMA SecureThen ==
  ASSUME NEW statuses, NEW next, "Secure" \in AndThen(statuses, next)
  PROVE  "Secure" \in statuses /\ "Secure" \in next
  BY DEF AndThen

-----------------------------------------------------------------------------
(* What a denial shows. *)

(* What a zone holds at a time, and a denial of it. *)
HeldAt(zone, now) == {h \in Contents : h.zone = zone /\ h.from <= now /\ now <= h.until}

Denies(p, zone, type, rrset, now) ==
  /\ p \in Published /\ p.zone = zone /\ p.type = type /\ p.from <= now /\ now <= p.until
  /\ \A r \in rrset : r.owner = p.owner /\ r.data \in p.rdata

DenialRrset(rrset, type) == rrset \subseteq Heard /\ type \in {"NSEC", "NSEC3"} /\ \A r \in rrset : r.type = type

(* No NSEC of a wildcard was moved to another owner: Replayed, of an rrset *)
(* and the signatures beside it.                                           *)
InPlace(rrset, sigs, type) ==
  type = "NSEC" =>
    \A r \in rrset, s \in OfType(sigs, "RRSIG") :
      s.data.covers = "NSEC" /\ r.data \in s.data.over.rdata
      /\ SignedOwner(r.owner, s.data.labels) = s.data.over.owner => r.owner = s.data.over.owner

(* And the owner of an NSEC3 is no wildcard, so that none can be moved.    *)
LEMMA HashIsInPlace ==
  ASSUME NEW owner \in Seq(Nat), NEW labels \in Nat,
         SignedOwner(owner, labels)[Len(SignedOwner(owner, labels))] # Wild
  PROVE  SignedOwner(owner, labels) = owner
<1>1. CASE labels < Len(owner)
  <2>. DEFINE above == SubSeq(owner, 1, labels)
  <2>1. above \in Seq(Nat) /\ Wild \in Nat
    <3>1. CASE labels = 0
      BY <3>1, SubSeqEmpty, EmptySeq DEF Wild
    <3>2. CASE labels # 0
      <4>1. \A i \in 1 .. labels : owner[i] \in Nat
        BY <1>1, LenProperties, ElementOfSeq
      <4>. QED BY <3>2, <4>1, SubSeqProperties DEF Wild
    <3>. QED BY <3>1, <3>2
  <2>2. SignedOwner(owner, labels) = Append(above, Wild)
    BY <1>1 DEF SignedOwner, WildcardChild
  <2>. HIDE DEF above
  <2>3. Append(above, Wild)[Len(Append(above, Wild))] = Wild
    BY <2>1, AppendProperties
  <2>. QED BY <2>2, <2>3
<1>. QED BY <1>1 DEF SignedOwner

(* A set of denials that validates is part of one that was published.      *)
LEMMA DenialIsPublished ==
  ASSUME NEW zone, NEW keys, NEW rrset, NEW sigs, NEW now, NEW type,
         DenialRrset(rrset, type), sigs \subseteq Heard, KeysHeld(zone, keys),
         InPlace(rrset, sigs, type), RrsetStatus(zone, keys, rrset, sigs, now) = "Secure"
  PROVE  \E p : Denies(p, zone, type, rrset, now)
<1>1. rrset # {} /\ \E s \in OfType(sigs, "RRSIG"), k \in OfType(keys, "DNSKEY") : Made(s, k, zone, rrset, now)
  BY SecureIsVerified
<1>2. PICK s \in OfType(sigs, "RRSIG"), k \in OfType(keys, "DNSKEY") : Made(s, k, zone, rrset, now)
  BY <1>1
<1>3. /\ s \in OfType(Heard, "RRSIG") /\ s.data.by \in KeysOf(s.data.signer) /\ s.data.signer = zone
      /\ s.data.covers = type
  BY <1>1, <1>2 DEF OfType, KeysHeld, Made, DenialRrset
<1>4. PICK p \in Published :
        /\ p.zone = s.data.signer /\ p.type = s.data.covers /\ p.from = s.data.from /\ p.until = s.data.until
        /\ p.owner = s.data.over.owner /\ p.rdata = s.data.over.rdata
  BY <1>3, SigningAssumption
<1>5. ASSUME NEW r \in rrset PROVE r.owner = p.owner /\ r.data \in p.rdata
  <2>1. r.data \in s.data.over.rdata /\ SignedOwner(r.owner, s.data.labels) = s.data.over.owner
    BY <1>2 DEF Made
  <2>2. r.owner \in Seq(Nat) /\ s.data.labels \in Nat /\ type \in {"NSEC", "NSEC3"}
    BY <1>3, ReplyAssumption DEF DenialRrset, OfType
  <2>3. CASE type = "NSEC"
    <3>1. r.owner = s.data.over.owner
      BY <1>2, <1>3, <2>1, <2>3 DEF InPlace
    <3>. QED BY <1>4, <2>1, <3>1
  <2>4. CASE type = "NSEC3"
    <3>1. p.owner[Len(p.owner)] # Wild
      BY <1>3, <1>4, <2>4, PublishedAssumption
    <3>2. SignedOwner(r.owner, s.data.labels) = r.owner
      BY <1>4, <2>1, <2>2, <3>1, HashIsInPlace
    <3>. QED BY <1>4, <2>1, <3>2
  <2>. QED BY <2>2, <2>3, <2>4
<1>. QED BY <1>2, <1>3, <1>4, <1>5 DEF Denies, Made, InValidity

(* And is true of what the zone holds at that time. *)
LEMMA DenialIsTrue ==
  ASSUME NEW zone, NEW type, NEW rrset, NEW now \in Nat, NEW p, Denies(p, zone, type, rrset, now),
         NEW r \in rrset, NEW h \in HeldAt(zone, now)
  PROVE  DeniesNot(p, r.data, h)
<1>1. /\ p \in Published /\ r.data \in p.rdata /\ h \in Contents /\ p.zone = h.zone
      /\ p.from <= now /\ now <= h.until /\ h.from <= now /\ now <= p.until
  BY DEF Denies, HeldAt
<1>2. p.from \in Nat /\ p.until \in Nat /\ h.from \in Nat /\ h.until \in Nat
  BY <1>1, PublishedAssumption DEF Contents
<1>3. p.from <= h.until /\ h.from <= p.until
  BY <1>1, <1>2
<1>. QED BY <1>1, <1>3, DenialAssumption

LEMMA NsecNoDataIsTrue ==
  ASSUME NEW zone, NEW keys, NEW name, NEW type, NEW nsecs, NEW sigs, NEW now \in Nat,
         DenialRrset(nsecs, "NSEC"), sigs \subseteq Heard, InPlace(nsecs, sigs, "NSEC"), KeysHeld(zone, keys),
         NsecNoData(zone, keys, name, type, nsecs, sigs, now) = "Secure",
         NEW h \in HeldAt(zone, now), h.owner = name
  PROVE  h.type \notin {type, "CNAME"}
<1>1. PICK p : Denies(p, zone, "NSEC", nsecs, now)
  BY DenialIsPublished DEF NsecNoData
<1>2. PICK r \in nsecs : r.owner = name /\ {type, "CNAME"} \cap r.data.types = {}
  BY DEF NsecNoData, Records
<1>3. DeniesNot(p, r.data, h) /\ p.type = "NSEC" /\ p.owner = name
  BY <1>1, <1>2, DenialIsTrue DEF Denies
<1>. QED BY <1>2, <1>3 DEF DeniesNot

LEMMA NsecRangeIsTrue ==
  ASSUME NEW zone, NEW keys, NEW name, NEW nsecs, NEW sigs, NEW now \in Nat,
         DenialRrset(nsecs, "NSEC"), sigs \subseteq Heard, InPlace(nsecs, sigs, "NSEC"), KeysHeld(zone, keys),
         NsecNameRange(zone, keys, name, nsecs, sigs, now) = "Secure", NEW h \in HeldAt(zone, now)
  PROVE  h.owner # name
<1>1. PICK p : Denies(p, zone, "NSEC", nsecs, now)
  BY DenialIsPublished DEF NsecNameRange
<1>2. PICK r \in nsecs : CoversName(r.owner, r.data.next, name)
  BY DEF NsecNameRange, OfType
<1>3. DeniesNot(p, r.data, h) /\ p.type = "NSEC" /\ p.owner = r.owner
  BY <1>1, <1>2, DenialIsTrue DEF Denies
<1>. QED BY <1>2, <1>3 DEF DeniesNot

(* An NSEC3 that matches a name has the types that are there.              *)
LEMMA MatchIsTrue ==
  ASSUME NEW zone, NEW keys, NEW nsec3s, NEW sigs, NEW now \in Nat,
         DenialRrset(nsec3s, "NSEC3"), sigs \subseteq Heard, KeysHeld(zone, keys),
         RrsetStatus(zone, keys, nsec3s, sigs, now) = "Secure",
         NEW h \in HeldAt(zone, now), NEW r \in Matching(nsec3s, h.owner)
  PROVE  h.type \in r.data.types
<1>1. PICK p : Denies(p, zone, "NSEC3", nsec3s, now)
  BY DenialIsPublished DEF InPlace
<1>2. r \in nsec3s /\ OwnerHash(r) = Hash[r.data.salt][h.owner]
  BY DEF Matching, Usable, OfType, HashOf
<1>3. DeniesNot(p, r.data, h) /\ p.type = "NSEC3" /\ OwnerHash(p) = OwnerHash(r)
  BY <1>1, <1>2, DenialIsTrue DEF Denies, OwnerHash
<1>. QED BY <1>2, <1>3 DEF DeniesNot

(* One that covers a name, with names at or below it, has opted out.       *)
LEMMA CoverIsTrue ==
  ASSUME NEW zone, NEW keys, NEW nsec3s, NEW sigs, NEW now \in Nat,
         DenialRrset(nsec3s, "NSEC3"), sigs \subseteq Heard, KeysHeld(zone, keys),
         RrsetStatus(zone, keys, nsec3s, sigs, now) = "Secure",
         NEW h \in HeldAt(zone, now), NEW k \in Len(zone) .. Len(h.owner),
         NEW r \in Covering(nsec3s, SubSeq(h.owner, 1, k))
  PROVE  r.data.optout
<1>1. PICK p : Denies(p, zone, "NSEC3", nsec3s, now)
  BY DenialIsPublished DEF InPlace
<1>2. r \in nsec3s /\ CoversHash(OwnerHash(r), r.data.next, Hash[r.data.salt][SubSeq(h.owner, 1, k)])
  BY DEF Covering, Usable, OfType, HashOf
<1>3. DeniesNot(p, r.data, h) /\ p.type = "NSEC3" /\ OwnerHash(p) = OwnerHash(r) /\ h.zone = zone
  BY <1>1, <1>2, DenialIsTrue DEF Denies, OwnerHash, HeldAt
<1>. QED BY <1>2, <1>3 DEF DeniesNot

(* The outcomes of a validation: "Insecure" comes from no signature.       *)
LEMMA RrsetOutcomes ==
  ASSUME NEW zone, NEW keys, NEW rrset, NEW sigs, NEW now
  PROVE  RrsetStatus(zone, keys, rrset, sigs, now) \in {"Secure", "Bogus", "Error"}
  BY DEF RrsetStatus

(* A verdict on an NSEC3 rrset that stands is one on a rrset that is signed. *)
LEMMA Nsec3Decides ==
  ASSUME NEW zone, NEW keys, NEW nsec3s, NEW sigs, NEW now, NEW verdict, NEW status \in {"Secure", "Insecure"},
         IfNsec3(zone, keys, nsec3s, sigs, now, verdict) = status
  PROVE  RrsetStatus(zone, keys, nsec3s, sigs, now) = "Secure" /\ verdict = status
  BY RrsetOutcomes DEF IfNsec3, Nsec3RrsetStatus

(* The next closer name has one more label than the encloser. *)
LEMMA NextCloserIs ==
  ASSUME NEW name \in Seq(Nat), NEW encloser, Len(encloser) \in Nat, StrictlyBelow(name, encloser)
  PROVE  /\ Len(encloser) + 1 \in 1 .. Len(name)
         /\ NextCloser(name, encloser) = SubSeq(name, 1, Len(encloser) + 1)
         /\ Len(NextCloser(name, encloser)) = Len(encloser) + 1
         /\ AtOrBelow(name, NextCloser(name, encloser))
<1>1. Len(name) \in Nat /\ \A i \in 1 .. Len(name) : name[i] \in Nat
  BY LenProperties, ElementOfSeq
<1>2. Len(encloser) # Len(name)
  BY SubSeqFull DEF StrictlyBelow, AtOrBelow
<1>3. Len(encloser) + 1 \in 1 .. Len(name)
  BY <1>1, <1>2 DEF StrictlyBelow, AtOrBelow
<1>4. Len(SubSeq(name, 1, Len(encloser) + 1)) = Len(encloser) + 1
  <2>1. \A i \in 1 .. Len(encloser) + 1 : name[i] \in Nat
    BY <1>1, <1>3
  <2>2. 1 <= Len(encloser) + 1 /\ Len(encloser) + 1 \in Int
    BY <1>3
  <2>. QED BY <2>1, <2>2, SubSeqProperties
<1>. QED BY <1>1, <1>3, <1>4 DEF NextCloser, AtOrBelow

(* A closest encloser proof without opt-out: nothing is at or below the    *)
(* next closer name, though another version may have held it.              *)
LEMMA EnclosedIsTrue ==
  ASSUME NEW zone, NEW keys, NEW name \in Seq(Nat), NEW encloser, NEW closest, NEW next, NEW sigs,
         NEW now \in Nat, NEW verdict,
         Len(zone) \in Nat, Len(encloser) \in Nat, Len(zone) <= Len(encloser) + 1,
         DenialRrset(next, "NSEC3"), sigs \subseteq Heard, KeysHeld(zone, keys),
         IfEnclosed(zone, keys, name, encloser, closest, next, sigs, now, verdict) = "Secure",
         NEW h \in HeldAt(zone, now)
  PROVE  verdict = "Secure" /\ ~AtOrBelow(h.owner, NextCloser(name, encloser))
<1>. DEFINE m == Matching(closest, encloser)
            c == Covering(SameParams(next, CHOOSE r \in m : TRUE), NextCloser(name, encloser))
            inner == IfNsec3(zone, keys, next, sigs, now,
                       IF c = {} THEN "Bogus" ELSE IF OptOut(c) THEN "Insecure" ELSE verdict)
            outer == IF m = {} \/ ~(\E r \in m : Authoritative(r)) THEN "Bogus" ELSE inner
<1>1. StrictlyBelow(name, encloser) /\ IfNsec3(zone, keys, closest, sigs, now, outer) = "Secure"
  BY DEF IfEnclosed
<1>2. inner = "Secure"
  <2>. HIDE DEF inner, m
  <2>. QED BY <1>1, Nsec3Decides
<1>3. /\ RrsetStatus(zone, keys, next, sigs, now) = "Secure"
      /\ c # {} /\ ~OptOut(c) /\ verdict = "Secure"
  <2>. HIDE DEF c
  <2>. QED BY <1>2, Nsec3Decides
<1>4. PICK r \in c : ~r.data.optout
  <2>. HIDE DEF c
  <2>. QED BY <1>3 DEF OptOut
<1>5. r \in Covering(next, NextCloser(name, encloser))
  BY <1>4 DEF Covering, Usable, OfType, SameParams
<1>6. ASSUME AtOrBelow(h.owner, NextCloser(name, encloser)) PROVE FALSE
  <2>1. /\ Len(NextCloser(name, encloser)) = Len(encloser) + 1
        /\ SubSeq(h.owner, 1, Len(encloser) + 1) = NextCloser(name, encloser)
        /\ Len(encloser) + 1 <= Len(h.owner)
    BY <1>1, <1>6, NextCloserIs DEF AtOrBelow
  <2>2. Len(h.owner) \in Nat
    BY PublishedAssumption, LenProperties DEF HeldAt, Contents
  <2>3. Len(encloser) + 1 \in Len(zone) .. Len(h.owner)
    BY <2>1, <2>2
  <2>. QED BY <1>3, <1>4, <1>5, <2>1, <2>3, CoverIsTrue
<1>. QED BY <1>3, <1>6

(* Neither the name nor the wildcard under the encloser is there. *)
LEMMA NsecNameErrorIsTrue ==
  ASSUME NEW zone, NEW keys, NEW name, NEW encloser, NEW cover, NEW wild, NEW sigs, NEW now \in Nat,
         DenialRrset(cover, "NSEC"), InPlace(cover, sigs, "NSEC"),
         DenialRrset(wild, "NSEC"), InPlace(wild, sigs, "NSEC"), sigs \subseteq Heard, KeysHeld(zone, keys),
         NsecNameError(zone, keys, name, encloser, cover, wild, sigs, now) = "Secure",
         NEW h \in HeldAt(zone, now)
  PROVE  h.owner # name /\ h.owner # WildcardChild(encloser)
<1>1. /\ NsecNameRange(zone, keys, name, cover, sigs, now) = "Secure"
      /\ NsecNameRange(zone, keys, WildcardChild(encloser), wild, sigs, now) = "Secure"
  BY DEF NsecNameError
<1>. QED BY <1>1, NsecRangeIsTrue

LEMMA Nsec3NoDataIsTrue ==
  ASSUME NEW zone, NEW keys, NEW name, NEW type, NEW nsec3s, NEW sigs, NEW now \in Nat,
         DenialRrset(nsec3s, "NSEC3"), sigs \subseteq Heard, KeysHeld(zone, keys),
         Nsec3NoData(zone, keys, name, type, nsec3s, sigs, now) = "Secure",
         NEW h \in HeldAt(zone, now), h.owner = name
  PROVE  h.type \notin {type, "CNAME"}
<1>. DEFINE verdict == IF \E r \in Matching(nsec3s, name) : {type, "CNAME"} \cap r.data.types = {}
                       THEN "Secure" ELSE "Bogus"
<1>1. IfNsec3(zone, keys, nsec3s, sigs, now, verdict) = "Secure"
  BY DEF Nsec3NoData
<1>2. RrsetStatus(zone, keys, nsec3s, sigs, now) = "Secure" /\ verdict = "Secure"
  <2>. HIDE DEF verdict
  <2>. QED BY <1>1, Nsec3Decides
<1>3. PICK r \in Matching(nsec3s, h.owner) : {type, "CNAME"} \cap r.data.types = {}
  BY <1>2
<1>. QED BY <1>2, <1>3, MatchIsTrue

(* Nor is anything at or below the next closer name. *)
LEMMA Nsec3NameErrorIsTrue ==
  ASSUME NEW zone \in Seq(Nat), NEW keys, NEW name \in Seq(Nat), NEW encloser \in Seq(Nat),
         NEW closest, NEW next, NEW wild, NEW sigs, NEW now \in Nat, Len(zone) <= Len(encloser),
         DenialRrset(next, "NSEC3"), DenialRrset(wild, "NSEC3"), sigs \subseteq Heard, KeysHeld(zone, keys),
         Nsec3NameError(zone, keys, name, encloser, closest, next, wild, sigs, now) = "Secure",
         NEW h \in HeldAt(zone, now)
  PROVE  /\ h.owner # name /\ h.owner # WildcardChild(encloser)
         /\ ~AtOrBelow(h.owner, NextCloser(name, encloser))
<1>. DEFINE m == Matching(closest, encloser)
            w == Covering(SameParams(wild, CHOOSE r \in m : TRUE), WildcardChild(encloser))
            verdict == IF w = {} THEN "Bogus" ELSE IF OptOut(w) THEN "Insecure" ELSE "Secure"
            inner == IfNsec3(zone, keys, wild, sigs, now, verdict)
<1>0. Len(zone) \in Nat /\ Len(encloser) \in Nat /\ Len(zone) <= Len(encloser) + 1
  BY LenProperties
<1>1. IfEnclosed(zone, keys, name, encloser, closest, next, sigs, now, inner) = "Secure"
  BY DEF Nsec3NameError
<1>2. inner = "Secure" /\ ~AtOrBelow(h.owner, NextCloser(name, encloser))
  <2>. HIDE DEF inner
  <2>. QED BY <1>0, <1>1, EnclosedIsTrue
<1>3. StrictlyBelow(name, encloser)
  BY <1>1 DEF IfEnclosed
<1>4. RrsetStatus(zone, keys, wild, sigs, now) = "Secure" /\ w # {} /\ ~OptOut(w)
  <2>. HIDE DEF w
  <2>. QED BY <1>2, Nsec3Decides
<1>5. PICK r \in w : ~r.data.optout
  <2>. HIDE DEF w
  <2>. QED BY <1>4 DEF OptOut
<1>6. r \in Covering(wild, WildcardChild(encloser))
  BY <1>5 DEF Covering, Usable, OfType, SameParams
<1>7. ASSUME h.owner = WildcardChild(encloser) PROVE FALSE
  <2>1. /\ h.owner \in Seq(Nat) /\ Len(h.owner) = Len(encloser) + 1
        /\ SubSeq(h.owner, 1, Len(h.owner)) = h.owner
    <3>1. Wild \in Nat
      BY DEF Wild
    <3>2. h.owner = Append(encloser, Wild)
      BY <1>7 DEF WildcardChild
    <3>3. h.owner \in Seq(Nat) /\ Len(h.owner) = Len(encloser) + 1
      BY <3>1, <3>2, AppendProperties
    <3>. QED BY <3>3, SubSeqFull
  <2>2. Len(h.owner) \in Len(zone) .. Len(h.owner)
    BY <1>0, <2>1
  <2>. QED BY <1>4, <1>5, <1>6, <1>7, <2>1, <2>2, CoverIsTrue
<1>. QED BY <1>0, <1>2, <1>3, <1>7, NextCloserIs

LEMMA Nsec3DsNoDataIsTrue ==
  ASSUME NEW zone, NEW keys, NEW name, NEW match, NEW encloser, NEW closest, NEW next, NEW sigs, NEW now \in Nat,
         match # {}, DenialRrset(match, "NSEC3"), sigs \subseteq Heard, KeysHeld(zone, keys),
         Nsec3DsNoData(zone, keys, name, match, encloser, closest, next, sigs, now) = "Secure",
         NEW h \in HeldAt(zone, now), h.owner = name
  PROVE  h.type \notin {"DS", "CNAME"}
<1>. DEFINE verdict == IF \E r \in Matching(match, name) : {"DS", "CNAME"} \cap r.data.types = {}
                       THEN "Secure" ELSE "Bogus"
<1>1. IfNsec3(zone, keys, match, sigs, now, verdict) = "Secure"
  BY DEF Nsec3DsNoData
<1>2. RrsetStatus(zone, keys, match, sigs, now) = "Secure" /\ verdict = "Secure"
  <2>. HIDE DEF verdict
  <2>. QED BY <1>1, Nsec3Decides
<1>3. PICK r \in Matching(match, h.owner) : {"DS", "CNAME"} \cap r.data.types = {}
  BY <1>2
<1>. QED BY <1>2, <1>3, MatchIsTrue

(* A delegation without DS was there when it was signed, and is unsigned.  *)
LEMMA Nsec3UnsignedReferralIsTrue ==
  ASSUME NEW zone, NEW keys, NEW name, NEW match, NEW encloser, NEW closest, NEW next, NEW sigs, NEW now \in Nat,
         match # {}, DenialRrset(match, "NSEC3"), sigs \subseteq Heard, KeysHeld(zone, keys),
         Nsec3UnsignedReferral(zone, keys, name, match, encloser, closest, next, sigs, now) = "Insecure"
  PROVE  /\ \A h \in HeldAt(zone, now) : h.owner = name => h.type \notin {"DS", "SOA"}
         /\ AtOrBelow(name, zone) /\ (\E q \in Requests : name = q[1]) =>
              \E h \in HeldAt(zone, now) : h.owner = name /\ h.type = "NS"
<1>. DEFINE verdict ==
              IF \E r \in Matching(match, name) : "NS" \in r.data.types /\ {"DS", "SOA"} \cap r.data.types = {}
              THEN "Insecure" ELSE "Bogus"
<1>1. IfNsec3(zone, keys, match, sigs, now, verdict) = "Insecure"
  BY DEF Nsec3UnsignedReferral
<1>2. RrsetStatus(zone, keys, match, sigs, now) = "Secure" /\ verdict = "Insecure"
  <2>. HIDE DEF verdict
  <2>. QED BY <1>1, Nsec3Decides
<1>3. PICK r \in Matching(match, name) : "NS" \in r.data.types /\ {"DS", "SOA"} \cap r.data.types = {}
  BY <1>2
<1>4. ASSUME NEW h \in HeldAt(zone, now), h.owner = name PROVE h.type \notin {"DS", "SOA"}
  <2>1. r \in Matching(match, h.owner)
    BY <1>3, <1>4
  <2>2. h.type \in r.data.types
    BY <1>2, <2>1, MatchIsTrue
  <2>. QED BY <1>3, <2>2
<1>5. ASSUME AtOrBelow(name, zone), NEW q \in Requests, name = q[1]
      PROVE  \E h \in HeldAt(zone, now) : h.owner = name /\ h.type = "NS"
  <2>1. PICK p : Denies(p, zone, "NSEC3", match, now)
    BY <1>2, DenialIsPublished DEF InPlace
  <2>2. r \in match /\ OwnerHash(r) = Hash[r.data.salt][name]
    BY <1>3 DEF Matching, Usable, OfType, HashOf
  <2>3. /\ p \in Published /\ r.data \in p.rdata /\ p.type = "NSEC3" /\ OwnerHash(p) = OwnerHash(r)
        /\ p.zone = zone /\ p.from <= now /\ now <= p.until
    BY <2>1, <2>2 DEF Denies, OwnerHash
  <2>4. now \in p.from .. p.until
    BY <2>3, PublishedAssumption
  <2>5. NamesDelegation(p, r.data, name)
    BY <1>5, <2>3, DenialAssumption
  <2>6. \E h \in Contents : h.zone = p.zone /\ h.owner = name /\ h.type = "NS" /\ h.from <= now /\ now <= h.until
    BY <1>3, <1>5, <2>2, <2>3, <2>4, <2>5 DEF NamesDelegation
  <2>. QED BY <2>3, <2>6 DEF HeldAt
<1>. QED BY <1>4, <1>5

LEMMA Nsec3WildcardAnswerIsTrue ==
  ASSUME NEW zone, NEW keys, NEW name \in Seq(Nat), NEW encloser, NEW next, NEW sigs, NEW now \in Nat,
         Len(zone) \in Nat, Len(encloser) \in Nat, Len(zone) <= Len(encloser) + 1,
         DenialRrset(next, "NSEC3"), sigs \subseteq Heard, KeysHeld(zone, keys),
         Nsec3WildcardAnswer(zone, keys, name, encloser, next, sigs, now) = "Secure",
         NEW h \in HeldAt(zone, now)
  PROVE  ~AtOrBelow(h.owner, NextCloser(name, encloser))
<1>. DEFINE c == Covering(next, NextCloser(name, encloser))
            verdict == IF c = {} THEN "Bogus" ELSE IF OptOut(c) THEN "Insecure" ELSE "Secure"
<1>1. StrictlyBelow(name, encloser) /\ IfNsec3(zone, keys, next, sigs, now, verdict) = "Secure"
  BY DEF Nsec3WildcardAnswer
<1>2. RrsetStatus(zone, keys, next, sigs, now) = "Secure" /\ verdict = "Secure"
  <2>. HIDE DEF verdict
  <2>. QED BY <1>1, Nsec3Decides
<1>3. PICK r \in c : ~r.data.optout
  <2>. HIDE DEF c
  <2>. QED BY <1>2 DEF OptOut
<1>4. ASSUME AtOrBelow(h.owner, NextCloser(name, encloser)) PROVE FALSE
  <2>1. /\ SubSeq(h.owner, 1, Len(encloser) + 1) = NextCloser(name, encloser)
        /\ Len(encloser) + 1 <= Len(h.owner)
    BY <1>1, <1>4, NextCloserIs DEF AtOrBelow
  <2>2. Len(h.owner) \in Nat
    BY PublishedAssumption, LenProperties DEF HeldAt, Contents
  <2>3. Len(encloser) + 1 \in Len(zone) .. Len(h.owner)
    BY <2>1, <2>2
  <2>. QED BY <1>2, <1>3, <2>1, <2>3, CoverIsTrue
<1>. QED BY <1>4

LEMMA Nsec3WildcardNoDataIsTrue ==
  ASSUME NEW zone, NEW keys, NEW name \in Seq(Nat), NEW encloser, NEW type, NEW closest, NEW next, NEW wild,
         NEW sigs, NEW now \in Nat, Len(zone) \in Nat, Len(encloser) \in Nat, Len(zone) <= Len(encloser) + 1,
         DenialRrset(next, "NSEC3"), DenialRrset(wild, "NSEC3"), sigs \subseteq Heard, KeysHeld(zone, keys),
         Nsec3WildcardNoData(zone, keys, name, encloser, type, closest, next, wild, sigs, now) = "Secure",
         NEW h \in HeldAt(zone, now)
  PROVE  /\ ~AtOrBelow(h.owner, NextCloser(name, encloser))
         /\ h.owner = WildcardChild(encloser) => h.type \notin {type, "CNAME"}
<1>. DEFINE m == Matching(closest, encloser)
            w == Matching(SameParams(wild, CHOOSE r \in m : TRUE), WildcardChild(encloser))
            verdict == IF \E r \in w : {type, "CNAME"} \cap r.data.types = {} THEN "Secure" ELSE "Bogus"
            inner == IfNsec3(zone, keys, wild, sigs, now, verdict)
<1>1. IfEnclosed(zone, keys, name, encloser, closest, next, sigs, now, inner) = "Secure"
  BY DEF Nsec3WildcardNoData
<1>2. inner = "Secure" /\ ~AtOrBelow(h.owner, NextCloser(name, encloser))
  <2>. HIDE DEF inner
  <2>. QED BY <1>1, EnclosedIsTrue
<1>3. RrsetStatus(zone, keys, wild, sigs, now) = "Secure" /\ verdict = "Secure"
  <2>. HIDE DEF verdict
  <2>. QED BY <1>2, Nsec3Decides
<1>4. PICK r \in w : {type, "CNAME"} \cap r.data.types = {}
  <2>. HIDE DEF w
  <2>. QED BY <1>3
<1>5. r \in Matching(wild, WildcardChild(encloser))
  BY <1>4 DEF Matching, Usable, OfType, SameParams
<1>6. ASSUME h.owner = WildcardChild(encloser) PROVE h.type \notin {type, "CNAME"}
  <2>1. h.type \in r.data.types
    BY <1>3, <1>5, <1>6, MatchIsTrue
  <2>. QED BY <1>4, <2>1
<1>. QED BY <1>2, <1>6

(* Every nonempty set of naturals has a least element. *)
LEMMA LeastElement ==
  ASSUME NEW S \in SUBSET Nat, S # {}
  PROVE  \E n \in S : \A m \in S : n <= m
<1>1. IsWellFoundedOn(OpToRel(<, Nat), Nat)
  BY NatLessThanWellFounded
<1>2. PICK n \in S : \A m \in S : ~(<<m, n>> \in OpToRel(<, Nat))
  BY <1>1, WFMin
<1>3. \A m \in S : ~ (m < n)
  BY <1>2 DEF OpToRel
<1>. QED BY <1>3

-----------------------------------------------------------------------------
(* What a call holds between its steps. *)

CallFields ==
  {"pc", "name", "type", "records", "hydrate", "servers", "q", "after", "target", "keys", "child",
   "childKeys", "response", "question", "owner", "prefix", "depth", "began", "answer"}

Pcs == {"prove", "hydrate", "server", "udp", "tcp", "target", "keys", "denial", "childserver",
        "childkeys", "childtarget", "walk"}

Asks(c) == c.pc \in {"udp", "tcp"}
Awaited == {"target", "keys", "childkeys", "childtarget", "walk"}

(* Where the call is, or will be when the answer to its question is here.  *)
Stage(c) == IF Asks(c) THEN c.after ELSE c.pc

ReplyOk(r) == r.answers \subseteq Heard /\ r.authorities \subseteq Heard /\ IsFiniteSet(r.answers)

(* A child delegation that was received, on the way to the name. *)
ChildOk(c, zone) ==
  c.child # NoChild =>
    /\ DOMAIN c.child = {"owner", "ds", "sigs", "servers"}
    /\ StrictlyBelow(c.child.owner, zone) /\ AtOrBelow(c.name, c.child.owner)
    /\ IsRrset(c.child.ds, c.child.owner, "DS") /\ c.child.sigs \subseteq Heard

(* Every CNAME that was followed was validated when it was.                *)
FollowedSigned(links) ==
  \A r \in links :
    /\ r.type = "CNAME"
    /\ ForeignKeySet \/ \E p \in Published :
         /\ p.zone = Signer /\ p.type = "CNAME" /\ ValidDuring(p) /\ SignedFor(p, r.owner)
         /\ p.rdata = {r.data}

ChainedTo(c, links, last, depth) ==
  \E n \in 0 .. depth : \E chain \in [1 .. n -> links] : Leads(c, chain, n, links, last)

(* A call that is under way. *)
Working ==
  /\ call.pc \in Pcs /\ (Asks(call) => call.after \in Awaited)
  /\ \E r \in Requests : call.name = r[1]
  /\ call.pc = "prove" => call.records = {}

Holding ==
  /\ ReplyOk(call.target) /\ ReplyOk(call.response)
  /\ call.keys \subseteq Heard /\ call.childKeys \subseteq Heard
  /\ ChildOk(call, Zone)
  /\ Stage(call) \in {"target", "keys", "denial"} => call.child = NoChild

(* Before and during the walk along the CNAMEs. *)
Following ==
  /\ call.depth \in Nat
  /\ Stage(call) \in {"target", "keys", "denial", "childkeys", "childtarget"} =>
       call.prefix = {} /\ call.depth = 0
  /\ Stage(call) = "walk" =>
       /\ call.type = "CNAME" => call.prefix = {}
       /\ FollowedSigned(call.prefix)
       /\ ChainedTo(call, call.prefix, call.owner, call.depth)

(* The exceptions of DenialsTrue. *)
Misled(S) == ForeignKeySet \/ Replayed(S)
CallMisled == Misled(Sections(call.target)) \/ Misled(Sections(call.response))

(* What a secure answer leaves out was not there: the first of DenialsTrue. *)
LastAbsent == DeniesLast => CallMisled \/ Absent(call.answer.last, {call.type, "CNAME"})

CallInv ==
  /\ DOMAIN call = CallFields
  /\ clock \in Nat /\ call.began \in Nat /\ call.began <= clock
  /\ call.pc # "idle" => Working /\ Holding /\ Following
  /\ SecureIsSigned /\ ChainsConnected /\ LastAbsent

LEMMA ZoneIs ==
  ASSUME Working
  PROVE  call.name \in Seq(Nat) /\ Zone \in Seq(Nat) /\ AtOrBelow(call.name, Zone)
<1>1. PICK r \in Requests : call.name = r[1]
  BY DEF Working
<1>2. call.name \in Seq(Nat) /\ Len(call.name) \in Nat \ {0}
  BY <1>1, RequestAssumption, EmptySeq
<1>3. 1 \in 1 .. Len(call.name)
  BY <1>2
<1>4. call.name[1] \in Nat
  BY <1>2, <1>3, ElementOfSeq
<1>5. Zone \in Seq(Nat) /\ Len(Zone) = 1
  BY <1>4, SubSeqProperties DEF Zone
<1>6. SubSeq(call.name, 1, Len(Zone)) = Zone
  BY <1>5 DEF Zone
<1>. QED BY <1>2, <1>5, <1>6 DEF AtOrBelow

(* The signer is the zone or a child of it, above the name. *)
LEMMA SignerIs ==
  ASSUME Working, Holding
  PROVE  /\ Signer \in Seq(Nat) /\ AtOrBelow(call.name, Signer)
         /\ call.child = NoChild => Signer = Zone
         /\ call.child # NoChild =>
              /\ Signer = call.child.owner /\ StrictlyBelow(Signer, Zone)
              /\ IsRrset(call.child.ds, Signer, "DS") /\ call.child.sigs \subseteq Heard
<1>1. CASE call.child = NoChild
  BY <1>1, ZoneIs DEF Signer
<1>2. CASE call.child # NoChild
  <2>1. Signer = call.child.owner
    BY <1>2 DEF Signer
  <2>2. ChildOk(call, Zone)
    BY DEF Holding
  <2>3. IsRrset(call.child.ds, call.child.owner, "DS")
    BY <1>2, <2>2 DEF ChildOk
  <2>. QED BY <1>2, <2>1, <2>2, <2>3 DEF ChildOk, IsRrset
<1>. QED BY <1>1, <1>2

LEMMA RecordsAre ==
  ASSUME NEW S, S \subseteq Heard, NEW owner \in Seq(Nat), NEW type
  PROVE  IsRrset(Records(S, owner, type), owner, type)
  BY DEF IsRrset, Records

-----------------------------------------------------------------------------
(* The chain of trust. *)

(* A DS record of the proof leads to the key set, which is the zone's but  *)
(* for the exception.                                                      *)
LEMMA ZoneTrusted ==
  ASSUME Working, Holding, "Secure" \in ZoneTrust
  PROVE  /\ Linked(Zone, Ds, call.keys)
         /\ ~SignedByOther(Zone, call.keys) => KeysHeld(Zone, KeySet(call.keys, Zone))
<1>. DEFINE keys == KeySet(call.keys, Zone)
            sigs == SigsAt(call.keys, Zone)
<1>1. "Secure" \in LinkStatuses(Zone, Ds, keys) /\ "Secure" \in {KeysStatus(Zone, keys, sigs, clock)}
  BY SecureThen DEF ZoneTrust, ZoneStatuses
<1>2. Linked(Zone, Ds, call.keys)
  BY <1>1, SecureLink DEF Linked, OfType
<1>3. Zone \in Seq(Nat) /\ call.keys \subseteq Heard
  BY ZoneIs DEF Holding
<1>. QED BY <1>1, <1>2, <1>3, KeySetIsHeld

(* And so is the child's, that the zone has signed a DS record for.        *)
LEMMA ChildTrusted ==
  ASSUME Working, Holding, call.child # NoChild, "Secure" \in ChildTrust
  PROVE  /\ Linked(Zone, Ds, call.keys) /\ Linked(Signer, call.child.ds, call.childKeys)
         /\ ~ForeignKeySet =>
              /\ KeysHeld(Signer, SignerKeys)
              /\ \E p \in Published : p.zone = Zone /\ p.owner = Signer /\ p.type = "DS"
                                     /\ p.from <= clock /\ clock <= p.until
<1>. DEFINE pkeys == KeySet(call.keys, Zone)
            sigs == SigsAt(call.childKeys, Signer)
            ds == call.child.ds
<1>1. /\ "Secure" \in ZoneTrust
      /\ "Secure" \in LinkStatuses(Signer, ds, SignerKeys)
      /\ "Secure" \in {RrsetStatus(Zone, pkeys, ds, call.child.sigs, clock)}
      /\ "Secure" \in {KeysStatus(Signer, SignerKeys, sigs, clock)}
  BY SecureThen DEF ChildTrust, ChildStatuses, ZoneTrust
<1>2. SignerKeys = KeySet(call.childKeys, Signer)
  BY DEF SignerKeys
<1>3. /\ Signer \in Seq(Nat) /\ StrictlyBelow(Signer, Zone)
      /\ IsRrset(ds, Signer, "DS") /\ call.child.sigs \subseteq Heard
  BY SignerIs
<1>4. PICK k \in OfType(SignerKeys, "DNSKEY"), d \in OfType(ds, "DS") : d.data.digest = <<Signer, k.data.key>>
  BY <1>1, SecureLink
<1>5. Linked(Signer, ds, call.childKeys)
  BY <1>2, <1>4 DEF Linked, OfType
<1>6. ASSUME ~ForeignKeySet
      PROVE  /\ KeysHeld(Signer, SignerKeys)
             /\ \E p \in Published : p.zone = Zone /\ p.owner = Signer /\ p.type = "DS"
                                    /\ p.from <= clock /\ clock <= p.until
  <2>1. ~SignedByOther(Zone, call.keys) /\ ~SignedByOther(Signer, call.childKeys)
    BY <1>6 DEF ForeignKeySet
  <2>2. KeysHeld(Zone, pkeys)
    BY <1>1, <2>1, ZoneTrusted
  <2>3. PICK p : Vouches(p, Zone, ds, Signer, "DS", clock)
    BY <1>1, <1>3, <2>2, SecureIsPublished
  <2>4. d.data \in p.rdata /\ p \in Published /\ p.type = "DS" /\ p.zone = Zone
    BY <1>4, <2>3 DEF OfType, Vouches
  <2>5. p.owner = Signer
    BY <1>4, <2>4, PublishedAssumption
  <2>6. KeysHeld(Signer, SignerKeys)
    BY <1>1, <1>2, <1>3, <2>1, KeySetIsHeld DEF Holding
  <2>. QED BY <2>3, <2>4, <2>5, <2>6 DEF Vouches
<1>. QED BY <1>1, <1>5, <1>6, ZoneTrusted

LEMMA Trusted ==
  ASSUME Working, Holding, clock \in Nat, call.began \in Nat, call.began <= clock, "Secure" \in SignerStatuses
  PROVE  /\ Linked(Zone, Ds, call.keys)
         /\ Signer # Zone => Linked(Signer, call.child.ds, call.childKeys)
         /\ ~ForeignKeySet =>
              /\ KeysHeld(Signer, SignerKeys)
              /\ Signer # Zone =>
                   \E p \in Published : p.zone = Zone /\ p.owner = Signer /\ p.type = "DS" /\ ValidDuring(p)
<1>1. CASE call.child = NoChild
  BY <1>1, ZoneTrusted DEF SignerStatuses, Signer, SignerKeys, ForeignKeySet
<1>2. CASE call.child # NoChild
  <2>1. "Secure" \in ChildTrust
    BY <1>2 DEF SignerStatuses
  <2>2. ASSUME ~ForeignKeySet, Signer # Zone
        PROVE  \E p \in Published : p.zone = Zone /\ p.owner = Signer /\ p.type = "DS" /\ ValidDuring(p)
    <3>1. PICK p \in Published : p.zone = Zone /\ p.owner = Signer /\ p.type = "DS"
                               /\ p.from <= clock /\ clock <= p.until
      BY <1>2, <2>1, <2>2, ChildTrusted
    <3>2. ValidDuring(p)
      BY <3>1, PublishedAssumption DEF ValidDuring
    <3>. QED BY <3>1, <3>2
  <2>. QED BY <1>2, <2>1, <2>2, ChildTrusted
<1>. QED BY <1>1, <1>2

(* What the validation of an rrset with the signer's keys shows. *)
LEMMA TrustedRrset ==
  ASSUME Working, Holding, clock \in Nat, call.began \in Nat, call.began <= clock, ~ForeignKeySet,
         "Secure" \in SignerStatuses, NEW rrset, NEW sigs, NEW owner, NEW type,
         IsRrset(rrset, owner, type), sigs \subseteq Heard, "Secure" \in SignedStatus(rrset, sigs)
  PROVE  \E p \in Published :
           /\ p.zone = Signer /\ p.type = type /\ ValidDuring(p) /\ SignedFor(p, owner)
           /\ p.rdata = {r.data : r \in rrset}
<1>1. RrsetStatus(Signer, SignerKeys, rrset, sigs, clock) = "Secure"
  BY DEF SignedStatus
<1>2. PICK p : Vouches(p, Signer, rrset, owner, type, clock)
  BY <1>1, Trusted, SecureIsPublished
<1>3. ValidDuring(p)
  BY <1>2, PublishedAssumption DEF ValidDuring, Vouches
<1>. QED BY <1>2, <1>3 DEF Vouches

(* What the signer holds all through the call it holds now. *)
LEMMA HeldNow ==
  ASSUME clock \in Nat, call.began \in Nat, call.began <= clock, NEW p \in Held, AtOrBelow(p.owner, Signer)
  PROVE  p \in HeldAt(Signer, clock)
<1>1. p.from \in Nat /\ p.from <= call.began
  BY PublishedAssumption DEF Held
<1>. QED BY <1>1 DEF Held, HeldAt, Contents

LEMMA DenialsAre ==
  ASSUME NEW S, S \subseteq Heard, NEW owner
  PROVE  /\ DenialRrset(Records(S, owner, "NSEC"), "NSEC") /\ DenialRrset(Records(S, owner, "NSEC3"), "NSEC3")
         /\ DenialRrset(OfType(S, "NSEC"), "NSEC") /\ DenialRrset(OfType(S, "NSEC3"), "NSEC3")
  BY DEF DenialRrset, Records, OfType

LEMMA DenialsInPlace ==
  ASSUME NEW S, ~Replayed(S), NEW owner
  PROVE  InPlace(Records(S, owner, "NSEC"), S, "NSEC") /\ InPlace(OfType(S, "NSEC"), S, "NSEC")
  BY DEF InPlace, Replayed, Records, OfType

LEMMA NoDataIsTrue ==
  ASSUME clock \in Nat, call.began \in Nat, call.began <= clock, KeysHeld(Signer, SignerKeys),
         NEW S, S \subseteq Heard, ~Replayed(S), NEW owner, AtOrBelow(owner, Signer),
         NoDataStatus(owner, call.type, S) = "Secure"
  PROVE  Absent(owner, {call.type, "CNAME"})
<1>. SUFFICES ASSUME NEW p \in Held, p.owner = owner
              PROVE  p.type \notin {call.type, "CNAME"}
  BY DEF Absent
<1>1. p \in HeldAt(Signer, clock)
  BY HeldNow
<1>2. \/ NsecNoData(Signer, SignerKeys, owner, call.type, Records(S, owner, "NSEC"), S, clock) = "Secure"
      \/ Nsec3NoData(Signer, SignerKeys, owner, call.type, OfType(S, "NSEC3"), S, clock) = "Secure"
  BY DEF NoDataStatus, FirstOf
<1>. QED BY <1>1, <1>2, DenialsAre, DenialsInPlace, NsecNoDataIsTrue, Nsec3NoDataIsTrue

(* The name error that decides is one with an encloser in the zone.        *)
LEMMA NameErrorAt ==
  ASSUME NEW owner \in Seq(Nat), Signer \in Seq(Nat), NEW S, NameErrorStatus(owner, S) = "Secure"
  PROVE  \E k \in Len(Signer) .. Len(owner) - 1 : NameErrorStatusAt(owner, SubSeq(owner, 1, k), S) = "Secure"
<1>. DEFINE K == Len(Signer) .. Len(owner) - 1
            at == [k \in K |-> NameErrorStatusAt(owner, SubSeq(owner, 1, k), S)]
            decided == {k \in DOMAIN at : at[k] \in {"Secure", "Error"}}
            last == CHOOSE k \in decided : \A j \in decided : j <= k
            from == {Len(owner) - k : k \in decided}
<1>1. decided # {} /\ at[last] = "Secure"
  BY DEF NameErrorStatus
<1>2. Len(owner) \in Nat /\ Len(Signer) \in Nat
  BY LenProperties
<1>3. \A k \in decided : k \in K /\ Len(owner) - k \in Nat
  BY <1>2
<1>. HIDE DEF decided, at
<1>4. from \in SUBSET Nat /\ from # {}
  BY <1>1, <1>3
<1>5. PICK n \in from : \A m \in from : n <= m
  <2>. HIDE DEF from
  <2>. QED BY <1>4, LeastElement
<1>6. PICK k \in decided : n = Len(owner) - k
  OBVIOUS
<1>7. ASSUME NEW j \in decided PROVE j <= k
  <2>1. Len(owner) - k <= Len(owner) - j
    BY <1>5, <1>6
  <2>. QED BY <1>2, <1>3, <2>1
<1>8. last \in decided
  BY <1>7
<1>. HIDE DEF last
<1>9. last \in K
  BY <1>3, <1>8
<1>10. at[last] = NameErrorStatusAt(owner, SubSeq(owner, 1, last), S)
  BY <1>9 DEF at
<1>. QED BY <1>1, <1>9, <1>10

(* The names above a name, from the zone down. *)
LEMMA AboveIs ==
  ASSUME NEW owner \in Seq(Nat), NEW zone \in Seq(Nat), NEW k \in Len(zone) .. Len(owner) - 1
  PROVE  /\ SubSeq(owner, 1, k) \in Seq(Nat) /\ Len(SubSeq(owner, 1, k)) = k
         /\ Len(zone) <= Len(SubSeq(owner, 1, k))
         /\ NextCloser(owner, SubSeq(owner, 1, k)) = SubSeq(owner, 1, k + 1)
<1>1. Len(owner) \in Nat /\ Len(zone) \in Nat /\ \A i \in 1 .. Len(owner) : owner[i] \in Nat
  BY LenProperties, ElementOfSeq
<1>2. k \in Nat /\ Len(zone) <= k /\ \A i \in 1 .. k : owner[i] \in Nat
  BY <1>1
<1>3. CASE k = 0
  <2>1. SubSeq(owner, 1, k) = << >>
    BY <1>3, SubSeqEmpty
  <2>. QED BY <1>2, <1>3, <2>1, EmptySeq DEF NextCloser
<1>4. CASE k # 0
  <2>1. 1 <= k /\ k \in Int
    BY <1>2, <1>4
  <2>. QED BY <1>2, <2>1, SubSeqProperties DEF NextCloser
<1>. QED BY <1>3, <1>4

(* A name error that decides, with that encloser: neither the name nor the *)
(* wildcard is there, and by NSEC3 nothing below the next closer name.     *)
LEMMA NameErrorAtIsTrue ==
  ASSUME clock \in Nat, KeysHeld(Signer, SignerKeys), Signer \in Seq(Nat),
         NEW S, S \subseteq Heard, ~Replayed(S), NEW owner \in Seq(Nat),
         NEW k \in Len(Signer) .. Len(owner) - 1,
         NameErrorStatusAt(owner, SubSeq(owner, 1, k), S) = "Secure", NEW h \in HeldAt(Signer, clock)
  PROVE  /\ h.owner # owner /\ h.owner # WildcardChild(SubSeq(owner, 1, k))
         /\ OfType(S, "NSEC") = {} => ~AtOrBelow(h.owner, SubSeq(owner, 1, k + 1))
<1>. DEFINE encloser == SubSeq(owner, 1, k)
            nsec == OfType(S, "NSEC")
            nsec3 == OfType(S, "NSEC3")
<1>1. /\ encloser \in Seq(Nat) /\ Len(Signer) <= Len(encloser)
      /\ NextCloser(owner, encloser) = SubSeq(owner, 1, k + 1)
  BY AboveIs
<1>. HIDE DEF encloser
<1>2. \/ nsec # {} /\ NsecNameError(Signer, SignerKeys, owner, encloser, nsec, nsec, S, clock) = "Secure"
      \/ Nsec3NameError(Signer, SignerKeys, owner, encloser, nsec3, nsec3, nsec3, S, clock) = "Secure"
  BY DEF NameErrorStatusAt, FirstOf, encloser
<1>3. DenialRrset(nsec, "NSEC") /\ DenialRrset(nsec3, "NSEC3") /\ InPlace(nsec, S, "NSEC")
  BY DenialsAre, DenialsInPlace
<1>. HIDE DEF nsec, nsec3
<1>4. CASE nsec # {} /\ NsecNameError(Signer, SignerKeys, owner, encloser, nsec, nsec, S, clock) = "Secure"
  <2>1. h.owner # owner /\ h.owner # WildcardChild(encloser)
    BY <1>3, <1>4, NsecNameErrorIsTrue
  <2>. QED BY <1>4, <2>1 DEF nsec, encloser
<1>5. CASE Nsec3NameError(Signer, SignerKeys, owner, encloser, nsec3, nsec3, nsec3, S, clock) = "Secure"
  <2>1. /\ h.owner # owner /\ h.owner # WildcardChild(encloser)
        /\ ~AtOrBelow(h.owner, NextCloser(owner, encloser))
    BY <1>1, <1>3, <1>5, Nsec3NameErrorIsTrue
  <2>. QED BY <1>1, <2>1 DEF encloser
<1>. QED BY <1>2, <1>4, <1>5

LEMMA NameErrorIsTrue ==
  ASSUME clock \in Nat, call.began \in Nat, call.began <= clock, KeysHeld(Signer, SignerKeys),
         Signer \in Seq(Nat), NEW S, S \subseteq Heard, ~Replayed(S), NEW owner, AtOrBelow(owner, Signer),
         NameErrorStatus(owner, S) = "Secure"
  PROVE  Absent(owner, {call.type, "CNAME"})
<1>. SUFFICES ASSUME NEW p \in Held, p.owner = owner
              PROVE  FALSE
  BY DEF Absent
<1>1. p \in HeldAt(Signer, clock) /\ owner \in Seq(Nat)
  BY HeldNow, PublishedAssumption DEF Held
<1>2. PICK k \in Len(Signer) .. Len(owner) - 1 : NameErrorStatusAt(owner, SubSeq(owner, 1, k), S) = "Secure"
  BY <1>1, NameErrorAt
<1>. QED BY <1>1, <1>2, NameErrorAtIsTrue

(* What a denial of the signer shows that is Secure, of either kind.       *)
Denial(owner, S) == NoDataStatus(owner, call.type, S) = "Secure" \/ NameErrorStatus(owner, S) = "Secure"

LEMMA DeniedIsAbsent ==
  ASSUME Working, Holding, clock \in Nat, call.began \in Nat, call.began <= clock,
         "Secure" \in SignerStatuses, NEW S, S \subseteq Heard, ~Misled(S), NEW owner, AtOrBelow(owner, Signer),
         Denial(owner, S)
  PROVE  Absent(owner, {call.type, "CNAME"})
<1>1. KeysHeld(Signer, SignerKeys) /\ Signer \in Seq(Nat) /\ ~Replayed(S)
  BY Trusted, SignerIs DEF Misled
<1>2. CASE NoDataStatus(owner, call.type, S) = "Secure"
  BY <1>1, <1>2, NoDataIsTrue
<1>3. CASE NameErrorStatus(owner, S) = "Secure"
  BY <1>1, <1>3, NameErrorIsTrue
<1>. QED BY <1>2, <1>3 DEF Denial

(* What the zone holds all through the call, at a name of it. *)
LEMMA HeldAbsent ==
  ASSUME clock \in Nat, call.began \in Nat, call.began <= clock, NEW owner, AtOrBelow(owner, Signer), NEW types,
         \A h \in HeldAt(Signer, clock) : h.owner = owner => h.type \notin types
  PROVE  Absent(owner, types)
  BY HeldNow DEF Absent

(* What is below a name of a zone is below the zone. *)
LEMMA BelowPrefix ==
  ASSUME NEW name \in Seq(Nat), NEW zone \in Seq(Nat), StrictlyBelow(name, zone),
         NEW owner \in Seq(Nat), AtOrBelow(owner, NextCloser(name, zone))
  PROVE  AtOrBelow(owner, zone)
<1>. DEFINE n == Len(zone)
            closer == NextCloser(name, zone)
<1>1. n \in Nat /\ Len(owner) \in Nat /\ Len(name) \in Nat
  BY LenProperties
<1>2. n + 1 \in 1 .. Len(name) /\ closer = SubSeq(name, 1, n + 1) /\ Len(closer) = n + 1
  BY <1>1, NextCloserIs
<1>3. n + 1 <= Len(owner) /\ SubSeq(owner, 1, n + 1) = closer /\ n <= Len(name) /\ SubSeq(name, 1, n) = zone
  BY <1>2 DEF AtOrBelow, StrictlyBelow
<1>4. ASSUME NEW i \in 1 .. n PROVE owner[i] = name[i] /\ zone[i] = name[i] /\ owner[i] \in Nat
  <2>0. i \in Nat /\ 1 <= i /\ i <= n
    BY <1>1
  <2>1. i \in 1 .. n + 1 /\ i \in 1 .. Len(owner) /\ i \in 1 .. Len(name)
    <3>1. n + 1 <= Len(owner) /\ n <= Len(name)
      BY <1>3
    <3>. HIDE DEF n, closer
    <3>. QED BY <1>1, <2>0, <3>1
  <2>2. SubSeq(owner, 1, n + 1)[i] = owner[i] /\ SubSeq(name, 1, n + 1)[i] = name[i]
    BY <1>1, <1>2, <1>3, <2>1
  <2>3. SubSeq(name, 1, n)[i] = name[i]
    BY <1>1, <1>3, <2>1
  <2>. QED BY <1>2, <1>3, <2>1, <2>2, <2>3, ElementOfSeq
<1>5. SubSeq(owner, 1, n) = zone
  <2>1. CASE n = 0
    <3>1. SubSeq(owner, 1, n) = << >> /\ zone = << >>
      BY <2>1, SubSeqEmpty, EmptySeq
    <3>. QED BY <3>1
  <2>2. CASE n # 0
    <3>1. /\ SubSeq(owner, 1, n) \in Seq(Nat) /\ Len(SubSeq(owner, 1, n)) = n
          /\ \A i \in 1 .. n : SubSeq(owner, 1, n)[i] = owner[i]
      BY <1>1, <1>4, <2>2, SubSeqProperties
    <3>. QED BY <1>4, <3>1, SeqEqual
  <2>. QED BY <2>1, <2>2
<1>. QED BY <1>1, <1>3, <1>5 DEF AtOrBelow

LEMMA WildcardBelow ==
  ASSUME NEW zone \in Seq(Nat)
  PROVE  AtOrBelow(WildcardChild(zone), zone)
<1>. DEFINE wild == Append(zone, Wild)
<1>1. Wild \in Nat
  BY DEF Wild
<1>2. /\ wild \in Seq(Nat) /\ Len(wild) = Len(zone) + 1 /\ Len(zone) \in Nat
      /\ \A i \in 1 .. Len(zone) : wild[i] = zone[i]
  BY <1>1, AppendProperties, LenProperties
<1>. HIDE DEF wild
<1>3. SubSeq(wild, 1, Len(zone)) = zone
  <2>1. CASE Len(zone) = 0
    <3>1. SubSeq(wild, 1, Len(zone)) = << >> /\ zone = << >>
      BY <2>1, SubSeqEmpty, EmptySeq
    <3>. QED BY <3>1
  <2>2. CASE Len(zone) # 0
    <3>1. \A i \in 1 .. Len(zone) : zone[i] \in Nat
      BY ElementOfSeq
    <3>2. 1 <= Len(zone) /\ Len(zone) \in Int
      BY <1>2, <2>2
    <3>3. /\ SubSeq(wild, 1, Len(zone)) \in Seq(Nat) /\ Len(SubSeq(wild, 1, Len(zone))) = Len(zone)
          /\ \A i \in 1 .. Len(zone) : SubSeq(wild, 1, Len(zone))[i] = wild[i]
      BY <1>2, <3>1, <3>2, SubSeqProperties
    <3>. QED BY <1>2, <3>3, SeqEqual
  <2>. QED BY <2>1, <2>2
<1>. QED BY <1>2, <1>3 DEF AtOrBelow, WildcardChild, wild

(* Of two sequences that start alike a shorter start is the same. *)
LEMMA StartsAlike ==
  ASSUME NEW s \in Seq(Nat), NEW t \in Seq(Nat), NEW m \in Nat, NEW n \in Nat,
         m <= n, n <= Len(s), n <= Len(t), SubSeq(s, 1, n) = SubSeq(t, 1, n)
  PROVE  SubSeq(s, 1, m) = SubSeq(t, 1, m)
<1>1. CASE m = 0
  <2>1. SubSeq(s, 1, m) = << >> /\ SubSeq(t, 1, m) = << >>
    BY <1>1, SubSeqEmpty
  <2>. QED BY <2>1
<1>2. CASE m # 0
  <2>1. Len(s) \in Nat /\ Len(t) \in Nat
    BY LenProperties
  <2>2. /\ \A i \in 1 .. m : s[i] \in Nat /\ t[i] \in Nat
        /\ \A i \in 1 .. n : s[i] \in Nat /\ t[i] \in Nat
    BY <2>1, ElementOfSeq
  <2>3. 1 <= m /\ 1 <= n /\ m \in Int /\ n \in Int
    BY <1>2
  <2>4. \A i \in 1 .. m : s[i] = t[i]
    <3>1. \A i \in 1 .. n : SubSeq(s, 1, n)[i] = s[i] /\ SubSeq(t, 1, n)[i] = t[i]
      BY <2>2, <2>3, SubSeqProperties
    <3>. QED BY <3>1
  <2>5. /\ SubSeq(s, 1, m) \in Seq(Nat) /\ Len(SubSeq(s, 1, m)) = m
        /\ \A i \in 1 .. m : SubSeq(s, 1, m)[i] = s[i]
    BY <2>2, <2>3, SubSeqProperties
  <2>6. /\ SubSeq(t, 1, m) \in Seq(Nat) /\ Len(SubSeq(t, 1, m)) = m
        /\ \A i \in 1 .. m : SubSeq(t, 1, m)[i] = t[i]
    BY <2>2, <2>3, SubSeqProperties
  <2>. QED BY <2>4, <2>5, <2>6, SeqEqual
<1>. QED BY <1>1, <1>2

LEMMA BelowTransitive ==
  ASSUME NEW a \in Seq(Nat), NEW b \in Seq(Nat), NEW c \in Seq(Nat), AtOrBelow(a, b), AtOrBelow(b, c)
  PROVE  AtOrBelow(a, c)
<1>1. Len(a) \in Nat /\ Len(b) \in Nat /\ Len(c) \in Nat
  BY LenProperties
<1>2. /\ Len(c) <= Len(b) /\ Len(b) <= Len(a) /\ SubSeq(a, 1, Len(b)) = b /\ SubSeq(b, 1, Len(c)) = c
      /\ SubSeq(b, 1, Len(b)) = b
  BY SubSeqFull DEF AtOrBelow
<1>3. SubSeq(a, 1, Len(c)) = SubSeq(b, 1, Len(c))
  BY <1>1, <1>2, StartsAlike
<1>. QED BY <1>1, <1>2, <1>3 DEF AtOrBelow

(* The names above a name are of its zone. *)
LEMMA AboveBelow ==
  ASSUME NEW name \in Seq(Nat), NEW zone \in Seq(Nat), AtOrBelow(name, zone),
         NEW k \in Len(zone) .. Len(name) - 1
  PROVE  /\ SubSeq(name, 1, k) \in Seq(Nat) /\ AtOrBelow(SubSeq(name, 1, k), zone)
         /\ SubSeq(name, 1, k + 1) \in Seq(Nat) /\ AtOrBelow(SubSeq(name, 1, k + 1), zone)
<1>1. Len(name) \in Nat /\ Len(zone) \in Nat /\ \A i \in 1 .. Len(name) : name[i] \in Nat
  BY LenProperties, ElementOfSeq
<1>2. ASSUME NEW n \in Nat, Len(zone) <= n, n <= Len(name)
      PROVE  SubSeq(name, 1, n) \in Seq(Nat) /\ AtOrBelow(SubSeq(name, 1, n), zone)
  <2>. DEFINE above == SubSeq(name, 1, n)
  <2>1. above \in Seq(Nat) /\ Len(above) = n
    <3>1. CASE n = 0
      <4>1. above = << >>
        BY <3>1, SubSeqEmpty
      <4>. QED BY <3>1, <4>1, EmptySeq
    <3>2. CASE n # 0
      <4>1. 1 <= n /\ n \in Int /\ \A i \in 1 .. n : name[i] \in Nat
        BY <1>1, <1>2, <3>2
      <4>. QED BY <4>1, SubSeqProperties
    <3>. QED BY <3>1, <3>2
  <2>2. SubSeq(above, 1, n) = above
    BY <2>1, SubSeqFull
  <2>3. SubSeq(above, 1, Len(zone)) = SubSeq(name, 1, Len(zone))
    <3>. HIDE DEF above
    <3>1. SubSeq(above, 1, n) = SubSeq(name, 1, n)
      BY <2>2 DEF above
    <3>2. n <= Len(above)
      BY <2>1
    <3>. QED BY <1>1, <1>2, <2>1, <3>1, <3>2, StartsAlike
  <2>4. SubSeq(name, 1, Len(zone)) = zone
    BY DEF AtOrBelow
  <2>. HIDE DEF above
  <2>5. AtOrBelow(above, zone)
    BY <1>2, <2>1, <2>3, <2>4 DEF AtOrBelow
  <2>. QED BY <2>1, <2>5 DEF above
<1>3. k \in Nat /\ Len(zone) <= k /\ k <= Len(name) /\ k + 1 \in Nat /\ k + 1 <= Len(name) /\ Len(zone) <= k + 1
  BY <1>1
<1>. QED BY <1>2, <1>3

-----------------------------------------------------------------------------
(* The ways a step leaves a call. *)

(* The key sets of a call, and what they are. *)
LEMMA KeySetsKept ==
  ASSUME UNCHANGED <<call.name, call.keys, call.childKeys, call.child>>
  PROVE  ForeignKeySet' = ForeignKeySet
  BY DEF ForeignKeySet, SignedByOther, OverKeySet, KeySet, SigsAt, Signer, Zone

(* A call that goes on. *)
LEMMA GoesOn ==
  ASSUME CallInv, UNCHANGED clock, DOMAIN call' = CallFields,
         call'.began \in Nat, call'.began <= clock, call'.pc # "idle", (Working /\ Holding /\ Following)'
  PROVE  CallInv'
  BY DEF CallInv, SecureIsSigned, ChainsConnected, LastAbsent, DeniesLast, SecureAnswer

(* An error, or an answer that is not secure and need not be.              *)
LEMMA ReturnsOther ==
  ASSUME CallInv, UNCHANGED clock, NEW kind, NEW secure, NEW records, NEW last,
         Return(kind, secure, records, last),
         kind # "answer" \/ call.records = {} \/ (~secure /\ Ds = {})
  PROVE  CallInv'
<1>1. /\ DOMAIN call' = CallFields /\ call'.pc = "idle" /\ call'.began = call.began
      /\ call'.answer.kind = kind /\ call'.answer.secure = secure
      /\ call'.records = call.records /\ call'.name = call.name
  BY DEF CallInv, CallFields, Return
<1>2. ~SecureAnswer'
  BY <1>1 DEF SecureAnswer, Delegated
<1>3. Ds' = Ds
  BY <1>1 DEF Ds, Zone
<1>4. SecureIsSigned' /\ ChainsConnected' /\ LastAbsent'
  BY <1>1, <1>2, <1>3 DEF SecureIsSigned, ChainsConnected, LastAbsent, DeniesLast, Delegated
<1>. QED BY <1>1, <1>4 DEF CallInv

(* Another server is asked, if there is one. *)
LEMMA FailsKeeps ==
  ASSUME CallInv, call.pc # "idle", UNCHANGED clock, NEW kind, kind # "answer", ServerFails(kind)
  PROVE  CallInv'
<1>1. CASE Error(kind)
  BY <1>1, ReturnsOther DEF Error
<1>2. ASSUME NEW pc \in {"childserver", "server"}, call' = [call EXCEPT !.pc = pc] PROVE CallInv'
  <2>1. /\ DOMAIN call' = CallFields /\ call'.pc = pc
        /\ \A f \in CallFields \ {"pc"} : call'[f] = call[f]
    BY <1>2 DEF CallInv
  <2>2. /\ UNCHANGED <<call.name, call.type, call.records, call.target, call.response, call.keys,
                      call.childKeys, call.child, call.depth, call.began>>
        /\ Stage(call') = pc
    BY <2>1 DEF CallFields, Stage, Asks
  <2>3. Zone' = Zone /\ Ds' = Ds
    BY <2>2 DEF Zone, Ds
  <2>4. Working'
    BY <2>1, <2>2, <2>3 DEF CallInv, Working, Pcs, Asks, Awaited
  <2>5. Holding'
    BY <2>2, <2>3 DEF CallInv, Holding, ChildOk
  <2>6. Following'
    BY <2>2 DEF CallInv, Following
  <2>. QED BY <2>1, <2>2, <2>4, <2>5, <2>6, GoesOn DEF CallInv
<1>. QED BY <1>1, <1>2 DEF ServerFails

(* What was found at the end of the CNAMEs was validated. *)
EndSigned(found, last) ==
  found # {} =>
    ForeignKeySet \/ \E p \in Published :
      /\ p.zone = Signer /\ p.type = call.type /\ ValidDuring(p) /\ SignedFor(p, last)
      /\ p.rdata = {r.data : r \in found}

(* A secure answer: the CNAMEs followed, and what was found at their end.  *)
LEMMA AnswersKeeps ==
  ASSUME CallInv, call.pc # "idle", UNCHANGED clock, NEW found, NEW last,
         Return("answer", TRUE, call.prefix \cup found, last),
         "Secure" \in SignerStatuses,
         call.type = "CNAME" => call.prefix = {},
         FollowedSigned(call.prefix), ChainedTo(call, call.prefix, last, MaxCname),
         \A r \in found : r.owner = last /\ r.type = call.type,
         found = {} => CallMisled \/ Absent(last, {call.type, "CNAME"}), EndSigned(found, last)
  PROVE  CallInv'
<1>. DEFINE records == call.prefix \cup found
<1>1. /\ DOMAIN call' = CallFields /\ call'.pc = "idle"
      /\ call'.answer.kind = "answer" /\ call'.answer.secure
      /\ call'.answer.records = records /\ call'.answer.last = last
  BY DEF CallInv, CallFields, Return
<1>2. UNCHANGED <<call.name, call.type, call.records, call.child, call.keys, call.childKeys, call.target,
                  call.response, call.began, call.prefix>>
  BY DEF CallInv, CallFields, Return
<1>3. Zone' = Zone /\ Ds' = Ds /\ Signer' = Signer /\ ForeignKeySet' = ForeignKeySet
  BY <1>2, KeySetsKept DEF Zone, Ds, Signer
<1>4. /\ Linked(Zone, Ds, call.keys)
      /\ Signer # Zone => Linked(Signer, call.child.ds, call.childKeys)
      /\ ~ForeignKeySet /\ Signer # Zone =>
           \E p \in Published : p.zone = Zone /\ p.owner = Signer /\ p.type = "DS" /\ ValidDuring(p)
  BY Trusted DEF CallInv
<1>5. ASSUME NEW r \in records, ~ForeignKeySet
      PROVE  \E p \in Published :
               LET rrset == {s.data : s \in Records(records, r.owner, r.type)}
               IN /\ p.zone = Signer /\ p.type = r.type /\ ValidDuring(p) /\ SignedFor(p, r.owner)
                  /\ r.data \in p.rdata /\ p.rdata \subseteq rrset
                  /\ r.type = call.type => p.rdata = rrset
  <2>1. CASE r \in call.prefix
    <3>1. PICK p \in Published :
            /\ p.zone = Signer /\ p.type = "CNAME" /\ ValidDuring(p) /\ SignedFor(p, r.owner)
            /\ p.rdata = {r.data}
      BY <1>5, <2>1 DEF FollowedSigned
    <3>2. r.type = "CNAME" /\ r.type # call.type /\ r \in Records(records, r.owner, r.type)
      BY <2>1 DEF FollowedSigned, Records
    <3>. QED BY <3>1, <3>2
  <2>2. CASE r \in found
    <3>1. PICK p \in Published :
            /\ p.zone = Signer /\ p.type = call.type /\ ValidDuring(p) /\ SignedFor(p, last)
            /\ p.rdata = {s.data : s \in found}
      BY <1>5, <2>2 DEF EndSigned
    <3>2. \A s \in call.prefix : s.type # call.type
      BY DEF FollowedSigned
    <3>3. Records(records, r.owner, r.type) = found
      BY <2>2, <3>2 DEF Records
    <3>. QED BY <2>2, <3>1, <3>3
  <2>. QED BY <2>1, <2>2
<1>6. SecureIsSigned'
  <2>. HIDE DEF records
  <2>1. \A p : ValidDuring(p)' = ValidDuring(p)
    BY <1>2 DEF ValidDuring
  <2>2. Linked(Zone, Ds, call.keys)' /\ (Signer # Zone => Linked(Signer, call.child.ds, call.childKeys))'
    BY <1>2, <1>3, <1>4
  <2>3. ASSUME ~ForeignKeySet, NEW r \in records PROVE HoldersSigned(r)'
    <3>1. call'.answer.records = records /\ call'.type = call.type
      BY <1>1, <1>2
    <3>. QED BY <1>3, <1>5, <2>1, <2>3, <3>1 DEF HoldersSigned
  <2>4. call'.answer.secure
    BY <1>1
  <2>. QED BY <1>1, <1>3, <1>4, <2>1, <2>2, <2>3, <2>4 DEF SecureIsSigned
<1>7. Links(call, call.answer.records)' = call.prefix
  <2>1. CASE call.type = "CNAME"
    BY <1>1, <1>2, <2>1 DEF Links
  <2>2. CASE call.type # "CNAME"
    <3>1. OfType(records, "CNAME") = call.prefix
      BY <2>2 DEF OfType, FollowedSigned
    <3>. HIDE DEF records
    <3>. QED BY <1>1, <1>2, <2>2, <3>1 DEF Links
  <2>. QED BY <2>1, <2>2
<1>8. PICK n \in 0 .. MaxCname : \E chain \in [1 .. n -> call.prefix] : Leads(call, chain, n, call.prefix, last)
  BY DEF ChainedTo
<1>9. PICK chain \in [1 .. n -> call.prefix] : Leads(call, chain, n, call.prefix, last)
  BY <1>8
<1>10. Leads(call, chain, n, call.prefix, last)'
  BY <1>2, <1>3, <1>9 DEF Leads, At
<1>11. \A r \in records \ call.prefix : r.owner = last /\ r.type = call.type
  OBVIOUS
<1>12. ChainsConnected'
  <2>. HIDE DEF records
  <2>. QED BY <1>1, <1>2, <1>7, <1>9, <1>10, <1>11 DEF ChainsConnected
<1>13. LastAbsent'
  <2>1. CASE found = {}
    <3>1. Held' = Held
      BY <1>2, <1>3 DEF Held
    <3>2. CallMisled \/ Absent(last, {call.type, "CNAME"})'
      BY <1>2, <2>1, <3>1 DEF Absent
    <3>3. CallMisled => CallMisled'
      BY <1>2, <1>3 DEF CallMisled, Misled
    <3>. QED BY <1>1, <1>2, <3>2, <3>3 DEF LastAbsent
  <2>2. CASE found # {}
    <3>1. Records(records, last, call.type) # {}
      BY <2>2 DEF Records
    <3>. HIDE DEF records
    <3>. QED BY <1>1, <1>2, <3>1 DEF LastAbsent, DeniesLast
  <2>. QED BY <2>1, <2>2
<1>. QED BY <1>1, <1>2, <1>6, <1>12, <1>13 DEF CallInv

-----------------------------------------------------------------------------
(* The steps before the walk. *)

LEMMA BeginKeeps ==
  ASSUME CallInv, Begin
  PROVE  CallInv'
<1>1. PICK r \in Requests :
        call' = [NoCall EXCEPT !.pc = "prove", !.name = r[1], !.type = r[2], !.began = clock]
  BY DEF Begin
<1>2. /\ DOMAIN call' = CallFields /\ call'.pc = "prove" /\ call'.name = r[1] /\ call'.began = clock
      /\ call'.records = {} /\ call'.target = NoReply /\ call'.response = NoReply
      /\ call'.keys = {} /\ call'.childKeys = {} /\ call'.child = NoChild /\ call'.depth = 0
  BY <1>1 DEF NoCall, CallFields
<1>3. Stage(call') = "prove" /\ ~Asks(call')
  BY <1>2 DEF Stage, Asks
<1>4. Working'
  BY <1>2, <1>3 DEF Working, Pcs, Ds, Records
<1>5. Holding'
  <2>1. IsFiniteSet({})
    BY FS_EmptySet
  <2>. QED BY <1>2, <1>3, <2>1 DEF Holding, ReplyOk, NoReply, ChildOk
<1>6. Following'
  BY <1>2, <1>3 DEF Following
<1>. QED BY <1>2, <1>4, <1>5, <1>6, GoesOn DEF CallInv, Begin

(* A step that changes neither the request nor what was received.          *)
LEMMA LocalStep ==
  ASSUME CallInv, call.pc # "idle", UNCHANGED clock, DOMAIN call' = CallFields,
         UNCHANGED <<call.name, call.type, call.records, call.target, call.keys, call.childKeys, call.began>>,
         call'.pc \in Pcs \ {"prove"}, Asks(call') => call'.after \in Awaited,
         ReplyOk(call.response)', ChildOk(call, Zone)',
         Stage(call') \in {"target", "keys", "denial"} => call'.child = NoChild, Following'
  PROVE  CallInv'
<1>1. Zone' = Zone /\ Ds' = Ds
  BY DEF Zone, Ds
<1>2. Working' /\ Holding'
  BY <1>1 DEF CallInv, Working, Holding, Pcs
<1>. QED BY <1>2, GoesOn DEF CallInv, Pcs

LEMMA ProveKeeps ==
  ASSUME CallInv, Prove
  PROVE  CallInv'
<1>1. call.pc = "prove" /\ UNCHANGED clock /\ call.records = {}
  BY DEF Prove, CallInv, Working
<1>2. ASSUME NEW kind, kind # "answer", Error(kind) PROVE CallInv'
  BY <1>1, <1>2, ReturnsOther DEF Error
<1>3. ASSUME NEW direct, Return("answer", TRUE, direct, call.name) PROVE CallInv'
  BY <1>1, <1>3, ReturnsOther
<1>4. ASSUME NEW p \in Proved(Zone), NEW names,
             call' = [call EXCEPT !.pc = "hydrate", !.records = p.records, !.hydrate = names]
      PROVE  CallInv'
  <2>1. /\ DOMAIN call' = CallFields /\ call'.pc = "hydrate" /\ call'.records = p.records
        /\ UNCHANGED <<call.name, call.type, call.target, call.response, call.keys, call.childKeys,
                      call.child, call.depth, call.began>>
    BY <1>4 DEF CallInv, CallFields
  <2>2. Stage(call') = "hydrate" /\ Zone' = Zone
    BY <2>1 DEF Stage, Asks, Zone
  <2>3. Working'
    BY <1>1, <2>1, <2>2 DEF CallInv, Working, Pcs, Asks, Awaited
  <2>4. Holding'
    BY <1>1, <2>1, <2>2 DEF CallInv, Holding, ChildOk
  <2>5. Following'
    BY <1>1, <2>1, <2>2 DEF CallInv, Following
  <2>. QED BY <1>1, <2>1, <2>3, <2>4, <2>5, GoesOn DEF CallInv
<1>. QED BY <1>2, <1>3, <1>4 DEF Prove

(* The addresses of a name server are no DS records. *)
LEMMA HydrateKeeps ==
  ASSUME CallInv, Hydrate
  PROVE  CallInv'
<1>1. call.pc = "hydrate" /\ UNCHANGED clock
  BY DEF Hydrate
<1>2. CASE Error("Storage")
  BY <1>1, <1>2, ReturnsOther DEF Error
<1>3. ASSUME NEW names, NEW S, NEW n,
             call' = [call EXCEPT !.hydrate = names, !.records = @ \cup AddressesAt(S, n)]
      PROVE  CallInv'
  <2>1. /\ DOMAIN call' = CallFields /\ call'.records = call.records \cup AddressesAt(S, n)
        /\ UNCHANGED <<call.pc, call.after, call.name, call.type, call.target, call.response, call.keys,
                      call.childKeys, call.child, call.depth, call.began>>
    BY <1>3 DEF CallInv, CallFields
  <2>2. Stage(call') = "hydrate" /\ Zone' = Zone /\ Ds' = Ds
    BY <1>1, <2>1 DEF Stage, Asks, Zone, Ds, Records, AddressesAt
  <2>3. Working'
    BY <1>1, <2>1, <2>2 DEF CallInv, Working, Pcs, Asks, Awaited
  <2>4. Holding'
    BY <1>1, <2>1, <2>2 DEF CallInv, Holding, ChildOk
  <2>5. Following'
    BY <1>1, <2>1, <2>2 DEF CallInv, Following
  <2>. QED BY <1>1, <2>1, <2>3, <2>4, <2>5, GoesOn DEF CallInv
<1>4. ASSUME NEW names, call' = [call EXCEPT !.hydrate = names] PROVE CallInv'
  <2>1. /\ DOMAIN call' = CallFields
        /\ UNCHANGED <<call.pc, call.after, call.name, call.type, call.records, call.target, call.response,
                      call.keys, call.childKeys, call.child, call.depth, call.began>>
    BY <1>4 DEF CallInv, CallFields
  <2>2. Stage(call') = "hydrate" /\ Zone' = Zone
    BY <1>1, <2>1 DEF Stage, Asks, Zone
  <2>3. Following'
    BY <1>1, <2>1, <2>2 DEF CallInv, Following
  <2>. QED BY <1>1, <2>1, <2>2, <2>3, LocalStep DEF CallInv, Holding, ChildOk, Pcs, Asks
<1>. QED BY <1>2, <1>3, <1>4 DEF Hydrate

LEMMA DelegateKeeps ==
  ASSUME CallInv, Delegate
  PROVE  CallInv'
<1>1. call.pc = "hydrate" /\ UNCHANGED clock
  BY DEF Delegate
<1>2. ASSUME NEW kind, kind # "answer", Error(kind) PROVE CallInv'
  BY <1>1, <1>2, ReturnsOther DEF Error
<1>3. ASSUME NEW servers, call' = [call EXCEPT !.pc = "server", !.servers = servers] PROVE CallInv'
  <2>1. /\ DOMAIN call' = CallFields /\ call'.pc = "server"
        /\ UNCHANGED <<call.name, call.type, call.records, call.target, call.response,
                      call.keys, call.childKeys, call.child, call.depth, call.began>>
    BY <1>3 DEF CallInv, CallFields
  <2>2. Stage(call') = "server" /\ Zone' = Zone
    BY <2>1 DEF Stage, Asks, Zone
  <2>3. Following'
    BY <1>1, <2>1, <2>2 DEF CallInv, Following
  <2>. QED BY <1>1, <2>1, <2>2, <2>3, LocalStep DEF CallInv, Holding, ChildOk, Pcs, Asks
<1>. QED BY <1>2, <1>3 DEF Delegate

-----------------------------------------------------------------------------
(* Questions and their answers. *)

LEMMA AskServerKeeps ==
  ASSUME CallInv, AskServer
  PROVE  CallInv'
<1>1. call.pc = "server" /\ UNCHANGED clock
  BY DEF AskServer
<1>2. PICK s \in call.servers :
        call' = Asking([call EXCEPT !.servers = @ \ {s}, !.keys = {}, !.child = NoChild, !.childKeys = {},
                          !.prefix = {}, !.depth = 0], call.name, call.type, "target")
  BY DEF AskServer
<1>3. /\ DOMAIN call' = CallFields /\ call'.pc = "udp" /\ call'.after = "target"
      /\ UNCHANGED <<call.name, call.type, call.records, call.target, call.response, call.began>>
  BY <1>2 DEF CallInv, CallFields, Asking
<1>4. call'.keys = {} /\ call'.child = NoChild /\ call'.childKeys = {} /\ call'.prefix = {} /\ call'.depth = 0
  BY <1>2 DEF CallInv, CallFields, Asking
<1>5. Stage(call') = "target" /\ Zone' = Zone /\ Ds' = Ds
  BY <1>3 DEF Stage, Asks, Zone, Ds
<1>6. Working'
  BY <1>1, <1>3, <1>5 DEF CallInv, Working, Pcs, Asks, Awaited
<1>7. Holding'
  BY <1>1, <1>3, <1>4, <1>5 DEF CallInv, Holding, ChildOk
<1>8. Following'
  BY <1>1, <1>4, <1>5 DEF CallInv, Following
<1>. QED BY <1>1, <1>3, <1>6, <1>7, <1>8, GoesOn DEF CallInv

(* A chain stays one while neither the name nor the child changes.         *)
LEMMA ChainKept ==
  ASSUME UNCHANGED <<call.name, call.child>>, NEW links, NEW last, NEW depth, ChainedTo(call, links, last, depth)
  PROVE  ChainedTo(call, links, last, depth)'
<1>1. PICK n \in 0 .. depth : \E chain \in [1 .. n -> links] : Leads(call, chain, n, links, last)
  BY DEF ChainedTo
<1>2. PICK chain \in [1 .. n -> links] : Leads(call, chain, n, links, last)
  BY <1>1
<1>3. Signer' = Signer
  BY DEF Signer, Zone
<1>4. Leads(call, chain, n, links, last)'
  BY <1>2, <1>3 DEF Leads, At
<1>. QED BY <1>4 DEF ChainedTo

(* An answer that arrives takes the call to where it is for.               *)
LEMMA ReceivedKeeps ==
  ASSUME CallInv, Asks(call), UNCHANGED clock, NEW r \in Replied(call.q), Received(r)
  PROVE  CallInv'
<1>1. /\ DOMAIN call' = CallFields /\ call'.pc = call.after /\ call'.response = r
      /\ UNCHANGED <<call.name, call.type, call.records, call.target, call.keys, call.childKeys,
                    call.child, call.depth, call.began, call.prefix, call.owner>>
  BY DEF CallInv, CallFields, Received
<1>2. Stage(call') = Stage(call) /\ Stage(call) = call.after /\ call.pc # "idle"
  BY <1>1 DEF Stage, Asks, Awaited, CallInv, Working
<1>3. Zone' = Zone /\ Signer' = Signer
  BY <1>1 DEF Zone, Signer
<1>4. ReplyOk(r)
  <2>1. call.q \in DOMAIN Replies /\ r \in Replies[call.q]
    BY DEF Replied
  <2>2. r.answers \cup r.authorities \subseteq Heard
    BY <2>1 DEF Heard, Replied
  <2>. QED BY <2>1, <2>2, ReplyAssumption DEF ReplyOk
<1>5. Following'
  <2>1. \A links, last, depth : ChainedTo(call, links, last, depth) => ChainedTo(call, links, last, depth)'
    BY <1>1, ChainKept
  <2>2. FollowedSigned(call.prefix)' = FollowedSigned(call.prefix)
    BY <1>1, <1>3, KeySetsKept DEF FollowedSigned, ValidDuring
  <2>. QED BY <1>1, <1>2, <2>1, <2>2 DEF CallInv, Following
<1>6. ReplyOk(call.response)' /\ ChildOk(call, Zone)'
  BY <1>1, <1>2, <1>3, <1>4 DEF ReplyOk, ChildOk, CallInv, Holding
<1>7. call.after \in Awaited
  BY <1>2 DEF CallInv, Working
<1>8. call'.pc \in Pcs \ {"prove"} /\ ~Asks(call')
  BY <1>1, <1>7 DEF Awaited, Pcs, Asks
<1>. QED BY <1>1, <1>2, <1>5, <1>6, <1>8, LocalStep DEF CallInv, Holding

LEMMA UdpKeeps ==
  ASSUME CallInv, Udp
  PROVE  CallInv'
<1>1. Asks(call) /\ call.pc = "udp" /\ UNCHANGED clock
  BY DEF Udp, Asks
<1>2. PICK x \in UdpExchange(call.q) :
        \/ x.error = "none" /\ Received(x.reply)
        \/ x.error \in RetriedOverTcp /\ call' = [call EXCEPT !.pc = "tcp"]
  BY DEF Udp
<1>3. CASE x.error = "none" /\ Received(x.reply)
  <2>1. x.reply \in Replied(call.q)
    BY <1>3 DEF UdpExchange, Got, Lost
  <2>. QED BY <1>1, <1>3, <2>1, ReceivedKeeps
<1>4. CASE call' = [call EXCEPT !.pc = "tcp"]
  <2>1. /\ DOMAIN call' = CallFields /\ call'.pc = "tcp"
        /\ UNCHANGED <<call.name, call.type, call.records, call.target, call.response, call.keys,
                      call.childKeys, call.child, call.depth, call.began, call.prefix, call.owner, call.after>>
    BY <1>4 DEF CallInv, CallFields
  <2>2. Stage(call') = Stage(call) /\ Asks(call') /\ Zone' = Zone /\ Signer' = Signer
    BY <1>1, <2>1 DEF Stage, Asks, Zone, Signer
  <2>3. Following'
    <3>1. \A links, last, depth : ChainedTo(call, links, last, depth) => ChainedTo(call, links, last, depth)'
      BY <2>1, ChainKept
    <3>2. FollowedSigned(call.prefix)' = FollowedSigned(call.prefix)
      BY <1>1, <2>1, <2>2, KeySetsKept DEF FollowedSigned, ValidDuring
    <3>. QED BY <1>1, <2>1, <2>2, <3>1, <3>2 DEF CallInv, Following
  <2>4. ReplyOk(call.response)' /\ ChildOk(call, Zone)'
    BY <1>1, <2>1, <2>2 DEF ReplyOk, ChildOk, CallInv, Holding
  <2>5. call'.pc \in Pcs \ {"prove"} /\ call'.after \in Awaited
    BY <1>1, <2>1 DEF CallInv, Working, Pcs
  <2>. QED BY <1>1, <2>1, <2>2, <2>3, <2>4, <2>5, LocalStep DEF CallInv, Holding
<1>. QED BY <1>2, <1>3, <1>4

LEMMA TcpKeeps ==
  ASSUME CallInv, Tcp
  PROVE  CallInv'
<1>1. Asks(call) /\ call.pc = "tcp" /\ UNCHANGED clock
  BY DEF Tcp, Asks
<1>2. PICK x \in TcpExchange(call.q) :
        \/ x.error = "none" /\ Received(x.reply)
        \/ x.error # "none" /\ ServerFails(x.error)
  BY DEF Tcp
<1>3. CASE x.error = "none" /\ Received(x.reply)
  <2>1. x.reply \in Replied(call.q)
    BY <1>3 DEF TcpExchange, Got, Lost
  <2>. QED BY <1>1, <1>3, <2>1, ReceivedKeeps
<1>4. CASE x.error # "none" /\ ServerFails(x.error)
  <2>1. x.error # "answer"
    BY <1>4 DEF TcpExchange, Got, Lost
  <2>. QED BY <1>1, <1>4, <2>1, FailsKeeps
<1>. QED BY <1>2, <1>3, <1>4

(* A question asked once the zone's answer is there. *)
LEMMA TargetKeeps ==
  ASSUME CallInv, Target
  PROVE  CallInv'
<1>1. call.pc = "target" /\ UNCHANGED clock
  BY DEF Target
<1>2. CASE Ds = {}
  <2>1. Return("answer", FALSE, Records(call.response.answers, call.name, call.type), call.name)
    BY <1>2 DEF Target
  <2>. QED BY <1>1, <1>2, <2>1, ReturnsOther
<1>3. CASE Ds # {}
  <2>1. call' = Asking([call EXCEPT !.target = call.response], Zone, "DNSKEY", "keys")
    BY <1>3 DEF Target
  <2>2. /\ DOMAIN call' = CallFields /\ call'.pc = "udp" /\ call'.after = "keys"
        /\ call'.target = call.response
        /\ UNCHANGED <<call.name, call.type, call.records, call.response, call.keys, call.childKeys,
                      call.child, call.depth, call.began, call.prefix>>
    BY <2>1 DEF CallInv, CallFields, Asking
  <2>3. /\ Stage(call) = "target" /\ Stage(call') = "keys" /\ Zone' = Zone /\ Ds' = Ds
        /\ Working /\ Holding /\ Following
    BY <1>1, <2>2 DEF Stage, Asks, Zone, Ds, CallInv
  <2>4. Working'
    BY <1>1, <2>2, <2>3 DEF Working, Pcs, Awaited
  <2>5. Holding'
    BY <2>2, <2>3 DEF Holding, ChildOk
  <2>6. Following'
    BY <2>2, <2>3 DEF Following
  <2>. QED BY <1>1, <2>2, <2>4, <2>5, <2>6, GoesOn DEF CallInv
<1>. QED BY <1>2, <1>3

-----------------------------------------------------------------------------
(* The keys of the zone and of the child. *)

(* Of the delegations towards a name one is the deepest. *)
LEMMA DeepestExists ==
  ASSUME NEW name \in Seq(Nat), NEW S, S # {}, \A o \in S : o \in Seq(Nat) /\ Len(o) <= Len(name)
  PROVE  \E o \in S : \A p \in S : Len(p) <= Len(o)
<1>. DEFINE Above == {Len(name) - Len(o) : o \in S}
<1>1. Len(name) \in Nat /\ \A o \in S : Len(o) \in Nat
  BY LenProperties
<1>2. Above \in SUBSET Nat /\ Above # {}
  BY <1>1
<1>3. PICK n \in Above : \A m \in Above : n <= m
  <2>. HIDE DEF Above
  <2>. QED BY <1>2, LeastElement
<1>4. PICK o \in S : n = Len(name) - Len(o)
  OBVIOUS
<1>5. ASSUME NEW p \in S PROVE Len(p) <= Len(o)
  <2>1. Len(name) - Len(p) \in Above
    OBVIOUS
  <2>2. Len(name) - Len(o) <= Len(name) - Len(p)
    BY <1>3, <1>4, <2>1
  <2>. QED BY <1>1, <2>2
<1>. QED BY <1>5

LEMMA ReferralIs ==
  ASSUME Working, NEW r, ReplyOk(r), Referral(r) # NoChild
  PROVE  LET ref == Referral(r)
         IN /\ DOMAIN ref = {"owner", "ds", "sigs", "servers"}
            /\ StrictlyBelow(ref.owner, Zone) /\ AtOrBelow(call.name, ref.owner)
            /\ IsRrset(ref.ds, ref.owner, "DS") /\ ref.sigs \subseteq Heard
<1>. DEFINE owner == CHOOSE o \in ReferralOwners(r) : \A p \in ReferralOwners(r) : Len(p) <= Len(o)
            ds == Records(r.authorities, owner, "DS")
            sigs == SigsAt(r.authorities, owner)
            servers == Addresses(r.additionals, NsNames(Records(r.authorities, owner, "NS")))
<1>1. ReferralOwners(r) # {} /\ Referral(r) = [owner |-> owner, ds |-> ds, sigs |-> sigs, servers |-> servers]
  BY DEF Referral
<1>2. ASSUME NEW o \in ReferralOwners(r)
      PROVE  o \in Seq(Nat) /\ StrictlyBelow(o, Zone) /\ AtOrBelow(call.name, o)
  <2>1. PICK n \in r.authorities : o = n.owner /\ StrictlyBelow(n.owner, Zone) /\ AtOrBelow(call.name, n.owner)
    BY <1>2 DEF ReferralOwners, OfType
  <2>. QED BY <2>1, ReplyAssumption DEF ReplyOk
<1>3. owner \in ReferralOwners(r)
  <2>1. \E o \in ReferralOwners(r) : \A p \in ReferralOwners(r) : Len(p) <= Len(o)
    BY <1>1, <1>2, ZoneIs, DeepestExists DEF AtOrBelow
  <2>. QED BY <2>1
<1>. HIDE DEF owner
<1>4. owner \in Seq(Nat) /\ StrictlyBelow(owner, Zone) /\ AtOrBelow(call.name, owner)
  BY <1>2, <1>3
<1>5. IsRrset(ds, owner, "DS") /\ sigs \subseteq Heard
  BY <1>4, RecordsAre DEF ReplyOk, SigsAt, Records
<1>. HIDE DEF ds, sigs, servers
<1>. QED BY <1>1, <1>4, <1>5

(* No CNAME followed yet is a chain to the name itself. *)
LEMMA ChainStarts ==
  ASSUME Working, Holding, NEW depth \in Nat
  PROVE  ChainedTo(call, {}, call.name, depth)
<1>. DEFINE chain == [i \in 1 .. 0 |-> {}]
<1>1. chain \in [1 .. 0 -> {}] /\ {chain[i] : i \in 1 .. 0} = {}
  OBVIOUS
<1>. HIDE DEF chain
<1>2. Leads(call, chain, 0, {}, call.name)
  BY <1>1, SignerIs DEF Leads, At
<1>3. \E c \in [1 .. 0 -> {}] : Leads(call, c, 0, {}, call.name)
  BY <1>1, <1>2
<1>4. 0 \in 0 .. depth
  OBVIOUS
<1>. QED BY <1>3, <1>4 DEF ChainedTo

(* An end of the chain whose denial validates, or another server.          *)
LEMMA DeniedKeeps ==
  ASSUME CallInv, call.pc # "idle", UNCHANGED clock, NEW owner,
         NEW S \in {Sections(call.target), Sections(call.response)}, S \subseteq Heard, NEW status,
         Denied(owner, AndThen(SignerStatuses, {status})),
         status = "Secure" => Denial(owner, S),
         call.type = "CNAME" => call.prefix = {},
         FollowedSigned(call.prefix), ChainedTo(call, call.prefix, owner, MaxCname)
  PROVE  CallInv'
<1>1. CASE "Secure" \in AndThen(SignerStatuses, {status}) /\ Return("answer", TRUE, call.prefix, owner)
  <2>1. Return("answer", TRUE, call.prefix \cup {}, owner)
    BY <1>1
  <2>2. "Secure" \in SignerStatuses /\ Denial(owner, S)
    BY <1>1, SecureThen
  <2>3. AtOrBelow(owner, Signer)
    <3>1. PICK n \in 0 .. MaxCname : \E chain \in [1 .. n -> call.prefix] :
                 Leads(call, chain, n, call.prefix, owner)
      BY DEF ChainedTo
    <3>2. n \in 0 .. n
      OBVIOUS
    <3>. QED BY <3>1, <3>2 DEF Leads
  <2>4. CallMisled \/ Absent(owner, {call.type, "CNAME"})
    <3>1. Misled(S) => CallMisled
      BY DEF CallMisled
    <3>. QED BY <2>2, <2>3, <3>1, DeniedIsAbsent DEF CallInv
  <2>5. EndSigned({}, owner)
    BY DEF EndSigned
  <2>. QED BY <2>1, <2>2, <2>4, <2>5, AnswersKeeps
<1>2. CASE ServerFails("DnssecFailed")
  BY <1>2, FailsKeeps
<1>. QED BY <1>1, <1>2 DEF Denied

LEMMA TargetDenialKeeps ==
  ASSUME CallInv, TargetDenial
  PROVE  CallInv'
<1>1. /\ call.pc = "denial" /\ UNCHANGED clock /\ Stage(call) = "denial"
      /\ Working /\ Holding /\ Following
  BY DEF TargetDenial, Stage, Asks, CallInv
<1>2. call.child = NoChild /\ call.prefix = {}
  BY <1>1 DEF Holding, Following
<1>3. FollowedSigned(call.prefix) /\ ChainedTo(call, call.prefix, call.name, MaxCname)
  BY <1>1, <1>2, BoundAssumption, ChainStarts DEF FollowedSigned
<1>4. SignerStatuses = ZoneTrust
  BY <1>2 DEF SignerStatuses
<1>5. \E status :
        /\ Denied(call.name, AndThen(SignerStatuses, {status}))
        /\ status = "Secure" => Denial(call.name, Sections(call.target))
  BY <1>4 DEF TargetDenial, ZoneDenies, ZoneNameError, ZoneNoData, Denial
<1>6. Sections(call.target) \subseteq Heard
  BY <1>1 DEF Sections, Holding, ReplyOk
<1>. QED BY <1>1, <1>2, <1>3, <1>5, <1>6, DeniedKeeps

(* The walk starts at the name. *)
LEMMA StartsWalk ==
  ASSUME CallInv, call.pc # "idle", UNCHANGED clock, DOMAIN call' = CallFields, call'.pc = "walk",
         UNCHANGED <<call.name, call.type, call.records, call.target, call.childKeys, call.child,
                     call.began, call.prefix, call.depth>>,
         call.prefix = {}, call.depth = 0, call'.owner = call.name,
         call'.keys \subseteq Heard, ReplyOk(call.response)'
  PROVE  CallInv'
<1>1. Stage(call') = "walk" /\ ~Asks(call') /\ Zone' = Zone /\ Ds' = Ds
  BY DEF Stage, Asks, Zone, Ds
<1>2. Working'
  BY <1>1 DEF CallInv, Working, Pcs
<1>3. Holding'
  BY <1>1 DEF CallInv, Holding, ChildOk
<1>4. ChainedTo(call, {}, call.name, 0)'
  BY ChainStarts, ChainKept DEF CallInv
<1>5. Following'
  BY <1>1, <1>4 DEF Following, FollowedSigned
<1>. QED BY <1>2, <1>3, <1>5, GoesOn DEF CallInv

LEMMA KeysKeeps ==
  ASSUME CallInv, Keys
  PROVE  CallInv'
<1>. DEFINE r == call.target
            keys == KeySet(call.response.answers, Zone) \cup SigsAt(call.response.answers, Zone)
            ref == Referral(r)
<1>1. /\ call.pc = "keys" /\ UNCHANGED clock /\ Stage(call) = "keys"
      /\ Working /\ Holding /\ Following
  BY DEF Keys, Stage, Asks, CallInv
<1>2. /\ call.child = NoChild /\ call.prefix = {} /\ call.depth = 0
      /\ ReplyOk(r) /\ ReplyOk(call.response)
  BY <1>1 DEF Holding, Following
<1>3. keys \subseteq Heard
  BY <1>2 DEF ReplyOk, KeySet, SigsAt, Records
<1>. HIDE DEF keys
<1>4. CASE ServerFails("DnssecFailed") \/ ServerFails("NoNameserverAddress")
  BY <1>1, <1>4, FailsKeeps
<1>5. CASE call' = [call EXCEPT !.pc = "denial", !.keys = keys]
  <2>1. /\ DOMAIN call' = CallFields /\ call'.pc = "denial" /\ call'.keys = keys
        /\ UNCHANGED <<call.name, call.type, call.records, call.target, call.response, call.childKeys,
                      call.child, call.depth, call.began, call.prefix>>
    BY <1>5 DEF CallInv, CallFields
  <2>2. Stage(call') = "denial" /\ ~Asks(call') /\ Zone' = Zone /\ Ds' = Ds
    BY <2>1 DEF Stage, Asks, Zone, Ds
  <2>3. Working'
    BY <1>1, <2>1, <2>2 DEF Working, Pcs
  <2>4. Holding'
    BY <1>1, <1>2, <1>3, <2>1, <2>2 DEF Holding, ChildOk
  <2>5. Following'
    BY <1>2, <2>1, <2>2 DEF Following
  <2>. QED BY <1>1, <2>1, <2>3, <2>4, <2>5, GoesOn DEF CallInv
<1>6. CASE call' = Walking([call EXCEPT !.keys = keys, !.response = r, !.question = call.name])
  <2>1. /\ DOMAIN call' = CallFields /\ call'.pc = "walk" /\ call'.keys = keys /\ call'.response = r
        /\ call'.owner = call.name
        /\ UNCHANGED <<call.name, call.type, call.records, call.target, call.childKeys,
                      call.child, call.depth, call.began, call.prefix>>
    BY <1>6 DEF CallInv, CallFields, Walking
  <2>2. ReplyOk(call.response)'
    BY <1>2, <2>1 DEF ReplyOk
  <2>. QED BY <1>1, <1>2, <1>3, <2>1, <2>2, StartsWalk
<1>7. CASE ref # NoChild /\ call' = [call EXCEPT !.pc = "childserver", !.keys = keys, !.child = ref]
  <2>1. /\ DOMAIN call' = CallFields /\ call'.pc = "childserver" /\ call'.keys = keys /\ call'.child = ref
        /\ UNCHANGED <<call.name, call.type, call.records, call.target, call.response, call.childKeys,
                      call.depth, call.began, call.prefix>>
    BY <1>7 DEF CallInv, CallFields
  <2>2. Stage(call') = "childserver" /\ ~Asks(call') /\ Zone' = Zone /\ Ds' = Ds
    BY <2>1 DEF Stage, Asks, Zone, Ds
  <2>3. Working'
    BY <1>1, <2>1, <2>2 DEF Working, Pcs
  <2>4. Holding'
    <3>1. ChildOk(call, Zone)'
      BY <1>1, <1>2, <1>7, <2>1, <2>2, ReferralIs DEF ChildOk
    <3>. QED BY <1>1, <1>3, <2>1, <2>2, <3>1 DEF Holding
  <2>5. Following'
    BY <1>2, <2>1, <2>2 DEF Following
  <2>. QED BY <1>1, <2>1, <2>3, <2>4, <2>5, GoesOn DEF CallInv
<1>. QED BY <1>4, <1>5, <1>6, <1>7 DEF Keys, keys

LEMMA AskChildKeeps ==
  ASSUME CallInv, AskChild
  PROVE  CallInv'
<1>1. /\ call.pc = "childserver" /\ UNCHANGED clock /\ Working /\ Holding
  BY DEF AskChild, CallInv
<1>2. PICK s \in call.child.servers :
        call' = Asking([call EXCEPT !.child.servers = @ \ {s}, !.prefix = {}, !.depth = 0],
                       call.child.owner, "DNSKEY", "childkeys")
  BY DEF AskChild
<1>3. call.child # NoChild /\ ChildOk(call, Zone)
  BY <1>1, <1>2 DEF NoChild, Holding
<1>4. /\ DOMAIN call' = CallFields /\ call'.pc = "udp" /\ call'.after = "childkeys"
      /\ call'.prefix = {} /\ call'.depth = 0
      /\ UNCHANGED <<call.name, call.type, call.records, call.target, call.response, call.keys,
                    call.childKeys, call.began>>
  BY <1>2 DEF CallInv, CallFields, Asking
<1>5. call'.child = [call.child EXCEPT !.servers = @ \ {s}]
  BY <1>2 DEF CallInv, CallFields, Asking
<1>6. DOMAIN call'.child = DOMAIN call.child /\ UNCHANGED <<call.child.owner, call.child.ds, call.child.sigs>>
  BY <1>3, <1>5 DEF ChildOk
<1>7. Stage(call') = "childkeys" /\ Asks(call') /\ Zone' = Zone
  BY <1>4 DEF Stage, Asks, Zone
<1>8. ChildOk(call, Zone)'
  BY <1>3, <1>4, <1>6, <1>7 DEF ChildOk
<1>9. ReplyOk(call.response)'
  BY <1>1, <1>4 DEF Holding, ReplyOk
<1>10. Following'
  BY <1>4, <1>7 DEF Following
<1>11. "udp" \in Pcs \ {"prove"} /\ "childkeys" \in Awaited
  BY DEF Pcs, Awaited
<1>. QED BY <1>1, <1>4, <1>7, <1>8, <1>9, <1>10, <1>11, LocalStep

LEMMA ChildKeysKeeps ==
  ASSUME CallInv, ChildKeys
  PROVE  CallInv'
<1>. DEFINE keys == KeySet(call.response.answers, Signer) \cup SigsAt(call.response.answers, Signer)
<1>1. /\ call.pc = "childkeys" /\ UNCHANGED clock /\ Stage(call) = "childkeys"
      /\ Working /\ Holding /\ Following
  BY DEF ChildKeys, Stage, Asks, CallInv
<1>2. keys \subseteq Heard
  BY <1>1 DEF Holding, ReplyOk, KeySet, SigsAt, Records
<1>. HIDE DEF keys
<1>3. CASE ServerFails("DnssecFailed")
  BY <1>1, <1>3, FailsKeeps
<1>4. CASE call' = Asking([call EXCEPT !.childKeys = keys], call.name, call.type, "childtarget")
  <2>1. /\ DOMAIN call' = CallFields /\ call'.pc = "udp" /\ call'.after = "childtarget"
        /\ call'.childKeys = keys
        /\ UNCHANGED <<call.name, call.type, call.records, call.target, call.response, call.keys,
                      call.child, call.depth, call.began, call.prefix>>
    BY <1>4 DEF CallInv, CallFields, Asking
  <2>2. Stage(call') = "childtarget" /\ Zone' = Zone /\ Ds' = Ds
    BY <2>1 DEF Stage, Asks, Zone, Ds
  <2>3. Working'
    BY <1>1, <2>1, <2>2 DEF Working, Pcs, Awaited
  <2>4. Holding'
    BY <1>1, <1>2, <2>1, <2>2 DEF Holding, ChildOk
  <2>5. Following'
    BY <1>1, <2>1, <2>2 DEF Following
  <2>. QED BY <1>1, <2>1, <2>3, <2>4, <2>5, GoesOn DEF CallInv
<1>. QED BY <1>3, <1>4 DEF ChildKeys, keys

LEMMA ChildTargetKeeps ==
  ASSUME CallInv, ChildTarget
  PROVE  CallInv'
<1>1. /\ call.pc = "childtarget" /\ UNCHANGED clock /\ Stage(call) = "childtarget"
      /\ Working /\ Holding /\ Following
  BY DEF ChildTarget, Stage, Asks, CallInv
<1>2. call.prefix = {} /\ call.depth = 0
  BY <1>1 DEF Following
<1>3. /\ DOMAIN call' = CallFields /\ call'.pc = "walk" /\ call'.owner = call.name
      /\ UNCHANGED <<call.name, call.type, call.records, call.target, call.response, call.keys, call.childKeys,
                    call.child, call.depth, call.began, call.prefix>>
  BY DEF ChildTarget, CallInv, CallFields, Walking
<1>4. call'.keys \subseteq Heard /\ ReplyOk(call.response)'
  BY <1>1, <1>3 DEF Holding, ReplyOk
<1>. QED BY <1>1, <1>2, <1>3, <1>4, StartsWalk

-----------------------------------------------------------------------------
(* The walk along the CNAMEs. *)

(* What the walk finds in the response. *)
LEMMA WalkFinds ==
  ASSUME CallInv, call.pc = "walk"
  PROVE  /\ Working /\ Holding /\ Stage(call) = "walk" /\ call.depth \in Nat
         /\ call.type = "CNAME" => call.prefix = {}
         /\ FollowedSigned(call.prefix) /\ ChainedTo(call, call.prefix, call.owner, call.depth)
         /\ OwnerSigs \subseteq Heard /\ IsFiniteSet(Cnames)
         /\ Found # {} => IsRrset(Found, call.owner, call.type)
         /\ Cnames # {} => IsRrset(Cnames, call.owner, "CNAME") /\ call.type # "CNAME"
<1>1. Stage(call) = "walk" /\ Working /\ Holding /\ Following
  BY DEF Stage, Asks, CallInv
<1>2. call.response.answers \subseteq Heard /\ IsFiniteSet(call.response.answers)
  BY <1>1 DEF Holding, ReplyOk
<1>3. IsFiniteSet(Cnames)
  <2>1. Cnames \in SUBSET call.response.answers
    BY DEF Cnames, Records
  <2>. QED BY <1>2, <2>1, FS_Subset
<1>4. \A r \in Heard : r.owner \in Seq(Nat)
  BY ReplyAssumption
<1>5. Found # {} => IsRrset(Found, call.owner, call.type)
  BY <1>2, <1>4 DEF Found, IsRrset, Records
<1>6. Cnames # {} => IsRrset(Cnames, call.owner, "CNAME") /\ call.type # "CNAME"
  BY <1>2, <1>4 DEF Cnames, IsRrset, Records
<1>7. OwnerSigs \subseteq Heard
  BY <1>2 DEF OwnerSigs, SigsAt, Records
<1>. QED BY <1>1, <1>3, <1>5, <1>6, <1>7 DEF Following

(* A CNAME at the end of a chain, to a name in the zone, lengthens it.     *)
LEMMA ChainExtends ==
  ASSUME NEW links, NEW last, NEW depth \in Nat, ChainedTo(call, links, last, depth),
         NEW c, c.owner = last, AtOrBelow(c.data.target, Signer)
  PROVE  ChainedTo(call, links \cup {c}, c.data.target, depth + 1)
<1>1. PICK n \in 0 .. depth : \E chain \in [1 .. n -> links] : Leads(call, chain, n, links, last)
  BY DEF ChainedTo
<1>2. PICK chain \in [1 .. n -> links] : Leads(call, chain, n, links, last)
  BY <1>1
<1>. DEFINE longer == [i \in 1 .. (n + 1) |-> IF i = n + 1 THEN c ELSE chain[i]]
<1>3. n \in Nat /\ n + 1 \in 0 .. (depth + 1)
  OBVIOUS
<1>4. longer \in [1 .. (n + 1) -> links \cup {c}]
  BY <1>3
<1>5. longer[n + 1] = c /\ \A i \in 1 .. n : longer[i] = chain[i]
  BY <1>3
<1>. HIDE DEF longer
<1>6. \A i \in 0 .. n : At(call, longer, i) = At(call, chain, i)
  BY <1>3, <1>5 DEF At
<1>7. At(call, longer, n + 1) = c.data.target
  BY <1>3, <1>5 DEF At
<1>8. links \cup {c} = {longer[i] : i \in 1 .. (n + 1)}
  <2>1. links = {chain[i] : i \in 1 .. n}
    BY <1>2 DEF Leads
  <2>2. \A i : i \in 1 .. (n + 1) <=> i \in 1 .. n \/ i = n + 1
    BY <1>3
  <2>3. \A x \in links : \E i \in 1 .. (n + 1) : longer[i] = x
    BY <1>5, <2>1, <2>2
  <2>4. \A i \in 1 .. (n + 1) : longer[i] \in links \cup {c}
    BY <1>4
  <2>5. \E i \in 1 .. (n + 1) : longer[i] = c
    BY <1>5, <2>2
  <2>. QED BY <2>3, <2>4, <2>5
<1>9. ASSUME NEW i \in 1 .. (n + 1) PROVE longer[i].owner = At(call, longer, i - 1)
  <2>1. CASE i = n + 1
    <3>1. i - 1 = n /\ n \in 0 .. n
      BY <1>3, <2>1
    <3>2. At(call, chain, n) = last
      BY <1>2 DEF Leads
    <3>. QED BY <1>5, <1>6, <2>1, <3>1, <3>2
  <2>2. CASE i # n + 1
    <3>1. i \in 1 .. n /\ i - 1 \in 0 .. n
      BY <1>3, <2>2
    <3>2. chain[i].owner = At(call, chain, i - 1)
      BY <1>2, <3>1 DEF Leads
    <3>. QED BY <1>5, <1>6, <3>1, <3>2
  <2>. QED BY <2>1, <2>2
<1>10. ASSUME NEW i \in 0 .. (n + 1) PROVE AtOrBelow(At(call, longer, i), Signer)
  <2>1. CASE i = n + 1
    BY <1>7, <2>1
  <2>2. CASE i # n + 1
    <3>1. i \in 0 .. n
      BY <1>3, <2>2
    <3>2. AtOrBelow(At(call, chain, i), Signer)
      BY <1>2, <3>1 DEF Leads
    <3>. QED BY <1>6, <3>1, <3>2
  <2>. QED BY <2>1, <2>2
<1>11. Leads(call, longer, n + 1, links \cup {c}, c.data.target)
  BY <1>7, <1>8, <1>9, <1>10 DEF Leads
<1>. QED BY <1>3, <1>4, <1>11 DEF ChainedTo

(* A call that goes on walking, with the same name and child.              *)
LEMMA WalksOn ==
  ASSUME CallInv, call.pc = "walk", UNCHANGED clock, DOMAIN call' = CallFields,
         UNCHANGED <<call.name, call.type, call.records, call.target, call.response, call.keys, call.childKeys,
                     call.child, call.began>>,
         call'.pc = "walk" \/ (call'.pc = "udp" /\ call'.after = "walk"),
         call.type = "CNAME" => call'.prefix = {}, call'.depth \in Nat,
         FollowedSigned(call'.prefix), ChainedTo(call, call'.prefix, call'.owner, call'.depth)
  PROVE  CallInv'
<1>1. /\ Stage(call') = "walk" /\ Zone' = Zone /\ Signer' = Signer
      /\ call'.pc \in Pcs \ {"prove"} /\ (Asks(call') => call'.after \in Awaited)
  BY DEF Stage, Asks, Zone, Signer, Pcs, Awaited
<1>2. \A links, last, depth : ChainedTo(call, links, last, depth) => ChainedTo(call, links, last, depth)'
  BY ChainKept
<1>3. FollowedSigned(call.prefix)'
  BY <1>1, KeySetsKept DEF FollowedSigned, ValidDuring
<1>4. Following'
  BY <1>1, <1>2, <1>3 DEF Following
<1>5. ReplyOk(call.response)' /\ ChildOk(call, Zone)'
  BY <1>1 DEF CallInv, Holding, ReplyOk, ChildOk
<1>. QED BY <1>1, <1>4, <1>5, LocalStep

LEMMA WalkOnKeeps ==
  ASSUME CallInv, WalkOn
  PROVE  CallInv'
<1>1. call.pc = "walk" /\ UNCHANGED clock
  BY DEF WalkOn
<1>2. CASE ServerFails("DnssecFailed")
  BY <1>1, <1>2, FailsKeeps
<1>3. CASE call' = Asking([call EXCEPT !.depth = Deeper(@)], call.owner, call.type, "walk")
  <2>1. /\ DOMAIN call' = CallFields /\ call'.pc = "udp" /\ call'.after = "walk" /\ call'.depth = call.depth + 1
        /\ UNCHANGED <<call.name, call.type, call.records, call.target, call.response, call.keys,
                      call.childKeys, call.child, call.began, call.prefix, call.owner>>
    BY <1>3 DEF CallInv, CallFields, Asking, Deeper
  <2>2. /\ call.depth \in Nat /\ (call.type = "CNAME" => call.prefix = {})
        /\ FollowedSigned(call.prefix) /\ ChainedTo(call, call.prefix, call.owner, call.depth)
    BY <1>1, WalkFinds
  <2>3. ChainedTo(call, call.prefix, call.owner, call.depth + 1)
    <3>1. 0 .. call.depth \subseteq 0 .. (call.depth + 1)
      BY <2>2
    <3>. QED BY <2>2, <3>1 DEF ChainedTo
  <2>. QED BY <1>1, <2>1, <2>2, <2>3, WalksOn
<1>. QED BY <1>2, <1>3 DEF WalkOn

(* A CNAME that validates is followed if it is the only one and stays in.  *)
LEMMA FollowKeeps ==
  ASSUME CallInv, call.pc = "walk", UNCHANGED clock, Cnames # {}, Follow(Cnames),
         "Secure" \in SignerStatuses, "Secure" \in SignedStatus(Cnames, OwnerSigs)
  PROVE  CallInv'
<1>. DEFINE next == (CHOOSE r \in Cnames : TRUE).data.target
<1>1. CASE ServerFails("DnssecFailed")
  BY <1>1, FailsKeeps
<1>2. CASE /\ Cardinality(Cnames) = 1 /\ InZone(next)
           /\ call' = [call EXCEPT !.prefix = @ \cup Cnames, !.owner = next, !.depth = Deeper(@)]
  <2>1. PICK c : Cnames = {c}
    BY <1>2, WalkFinds, FS_Singleton
  <2>2. next = c.data.target /\ c.type = "CNAME" /\ c.owner = call.owner
    BY <2>1, WalkFinds DEF IsRrset
  <2>3. /\ DOMAIN call' = CallFields /\ call'.pc = "walk" /\ call'.depth = call.depth + 1
        /\ call'.prefix = call.prefix \cup {c} /\ call'.owner = c.data.target
        /\ UNCHANGED <<call.name, call.type, call.records, call.target, call.response, call.keys,
                      call.childKeys, call.child, call.began>>
    BY <1>2, <2>1, <2>2 DEF CallInv, CallFields, Deeper
  <2>4. FollowedSigned(call.prefix \cup {c})
    <3>1. ASSUME ~ForeignKeySet
          PROVE  \E p \in Published :
                   /\ p.zone = Signer /\ p.type = "CNAME" /\ ValidDuring(p) /\ SignedFor(p, c.owner)
                   /\ p.rdata = {c.data}
      <4>1. PICK p \in Published :
              /\ p.zone = Signer /\ p.type = "CNAME" /\ ValidDuring(p) /\ SignedFor(p, call.owner)
              /\ p.rdata = {r.data : r \in Cnames}
        BY <3>1, WalkFinds, TrustedRrset DEF CallInv
      <4>2. p.rdata = {c.data}
        BY <2>1, <4>1
      <4>. QED BY <2>2, <4>1, <4>2
    <3>. QED BY <2>2, <3>1, WalkFinds DEF FollowedSigned
  <2>5. ChainedTo(call, call.prefix \cup {c}, c.data.target, call.depth + 1)
    BY <1>2, <2>2, WalkFinds, ChainExtends DEF InZone
  <2>6. call.type # "CNAME" /\ call.depth \in Nat
    BY WalkFinds
  <2>. QED BY <2>3, <2>4, <2>5, <2>6, WalksOn
<1>. QED BY <1>1, <1>2 DEF Follow

(* The two walks differ in whom the signatures must lead back to.          *)
LEMMA WalkEnds ==
  ASSUME CallInv, call.pc = "walk", UNCHANGED clock, ~Stuck,
         \/ /\ Found # {} /\ "Secure" \in SignerStatuses /\ "Secure" \in SignedStatus(Found, OwnerSigs)
            /\ Return("answer", TRUE, call.prefix \cup Found, call.owner)
         \/ /\ Cnames # {} /\ "Secure" \in SignerStatuses /\ "Secure" \in SignedStatus(Cnames, OwnerSigs)
            /\ Follow(Cnames)
         \/ ServerFails("DnssecFailed")
         \/ \E status :
              /\ Denied(call.owner, AndThen(SignerStatuses, {status}))
              /\ status = "Secure" => Denial(call.owner, Sections(call.response))
  PROVE  CallInv'
<1>1. ChainedTo(call, call.prefix, call.owner, MaxCname)
  <2>1. call.depth \in Nat /\ call.depth <= MaxCname /\ MaxCname \in Nat
    BY WalkFinds, BoundAssumption DEF Stuck
  <2>2. 0 .. call.depth \subseteq 0 .. MaxCname
    BY <2>1
  <2>. QED BY <2>2, WalkFinds DEF ChainedTo
<1>2. /\ call.type = "CNAME" => call.prefix = {}
      /\ FollowedSigned(call.prefix) /\ call.pc # "idle"
  BY WalkFinds
<1>3. CASE /\ Found # {} /\ "Secure" \in SignerStatuses /\ "Secure" \in SignedStatus(Found, OwnerSigs)
           /\ Return("answer", TRUE, call.prefix \cup Found, call.owner)
  <2>1. ForeignKeySet \/ \E p \in Published :
          /\ p.zone = Signer /\ p.type = call.type /\ ValidDuring(p) /\ SignedFor(p, call.owner)
          /\ p.rdata = {r.data : r \in Found}
    <3>1. IsRrset(Found, call.owner, call.type) /\ OwnerSigs \subseteq Heard /\ Working /\ Holding
      BY <1>3, WalkFinds
    <3>2. clock \in Nat /\ call.began \in Nat /\ call.began <= clock
      BY DEF CallInv
    <3>. QED BY <1>3, <3>1, <3>2, TrustedRrset
  <2>2. \A r \in Found : r.owner = call.owner /\ r.type = call.type
    BY DEF Found, Records
  <2>3. EndSigned(Found, call.owner)
    BY <2>1 DEF EndSigned
  <2>. QED BY <1>1, <1>2, <1>3, <2>2, <2>3, AnswersKeeps
<1>4. CASE /\ Cnames # {} /\ "Secure" \in SignerStatuses /\ "Secure" \in SignedStatus(Cnames, OwnerSigs)
           /\ Follow(Cnames)
  BY <1>4, FollowKeeps
<1>5. CASE ServerFails("DnssecFailed")
  BY <1>2, <1>5, FailsKeeps
<1>6. ASSUME NEW status, Denied(call.owner, AndThen(SignerStatuses, {status})),
             status = "Secure" => Denial(call.owner, Sections(call.response))
      PROVE  CallInv'
  <2>1. Sections(call.response) \subseteq Heard
    BY WalkFinds DEF Sections, Holding, ReplyOk
  <2>. QED BY <1>1, <1>2, <1>6, <2>1, DeniedKeeps
<1>. QED BY <1>3, <1>4, <1>5, <1>6

LEMMA WalkZoneKeeps ==
  ASSUME CallInv, WalkZone
  PROVE  CallInv'
<1>1. call.pc = "walk" /\ UNCHANGED clock /\ ~Stuck /\ SignerStatuses = ZoneTrust
  BY DEF WalkZone, SignerStatuses
<1>2. CASE Found # {}
  <2>1. Validated(Found, OwnerSigs, AndThen(SignerStatuses, SignedStatus(Found, OwnerSigs)),
          Return("answer", TRUE, call.prefix \cup Found, call.owner))
    BY <1>1, <1>2 DEF WalkZone, ZoneRrset
  <2>2. \/ ServerFails("DnssecFailed")
        \/ /\ Return("answer", TRUE, call.prefix \cup Found, call.owner)
           /\ "Secure" \in SignerStatuses /\ "Secure" \in SignedStatus(Found, OwnerSigs)
    BY <2>1, SecureThen DEF Validated
  <2>. QED BY <1>1, <1>2, <2>2, WalkEnds
<1>3. CASE Found = {} /\ Cnames # {}
  <2>1. Validated(Cnames, OwnerSigs, AndThen(SignerStatuses, SignedStatus(Cnames, OwnerSigs)), Follow(Cnames))
    BY <1>1, <1>3 DEF WalkZone, ZoneRrset
  <2>2. \/ ServerFails("DnssecFailed")
        \/ Follow(Cnames) /\ "Secure" \in SignerStatuses /\ "Secure" \in SignedStatus(Cnames, OwnerSigs)
    BY <2>1, SecureThen DEF Validated
  <2>. QED BY <1>1, <1>3, <2>2, WalkEnds
<1>4. CASE Found = {} /\ Cnames = {}
  <2>1. \E status :
          /\ Denied(call.owner, AndThen(SignerStatuses, {status}))
          /\ status = "Secure" => Denial(call.owner, Sections(call.response))
    BY <1>1, <1>4 DEF WalkZone, ZoneDenies, ZoneNameError, ZoneNoData, Denial
  <2>. QED BY <1>1, <2>1, WalkEnds
<1>. QED BY <1>2, <1>3, <1>4

LEMMA WalkChildKeeps ==
  ASSUME CallInv, WalkChild
  PROVE  CallInv'
<1>1. call.pc = "walk" /\ UNCHANGED clock /\ ~Stuck /\ SignerStatuses = ChildTrust
  BY DEF WalkChild, SignerStatuses
<1>2. CASE Found # {}
  <2>1. Validated(Found, OwnerSigs, AndThen(SignerStatuses, SignedStatus(Found, OwnerSigs)),
          Return("answer", TRUE, call.prefix \cup Found, call.owner))
    BY <1>1, <1>2 DEF WalkChild, ChildRrset
  <2>2. \/ ServerFails("DnssecFailed")
        \/ /\ Return("answer", TRUE, call.prefix \cup Found, call.owner)
           /\ "Secure" \in SignerStatuses /\ "Secure" \in SignedStatus(Found, OwnerSigs)
    BY <2>1, SecureThen DEF Validated
  <2>. QED BY <1>1, <1>2, <2>2, WalkEnds
<1>3. CASE Found = {} /\ Cnames # {}
  <2>1. Validated(Cnames, OwnerSigs, AndThen(SignerStatuses, SignedStatus(Cnames, OwnerSigs)), Follow(Cnames))
    BY <1>1, <1>3 DEF WalkChild, ChildRrset
  <2>2. \/ ServerFails("DnssecFailed")
        \/ Follow(Cnames) /\ "Secure" \in SignerStatuses /\ "Secure" \in SignedStatus(Cnames, OwnerSigs)
    BY <2>1, SecureThen DEF Validated
  <2>. QED BY <1>1, <1>3, <2>2, WalkEnds
<1>4. CASE Found = {} /\ Cnames = {}
  <2>1. \E status :
          /\ Denied(call.owner, AndThen(SignerStatuses, {status}))
          /\ status = "Secure" => Denial(call.owner, Sections(call.response))
    BY <1>1, <1>4 DEF WalkChild, ChildDenies, ChildNameError, ChildNoData, Denial
  <2>. QED BY <1>1, <2>1, WalkEnds
<1>. QED BY <1>2, <1>3, <1>4

-----------------------------------------------------------------------------
(* A connected answer stays one while the call does not change.            *)
LEMMA ConnectedKept ==
  ASSUME UNCHANGED call, ChainsConnected
  PROVE  ChainsConnected'
<1>1. Signer' = Signer /\ SecureAnswer' = SecureAnswer
  BY DEF Signer, Zone, SecureAnswer, Delegated
<1>2. Links(call, call.answer.records)' = Links(call, call.answer.records)
  BY DEF Links
<1>3. \A chain, n, links, last : Leads(call, chain, n, links, last)' = Leads(call, chain, n, links, last)
  BY <1>1 DEF Leads, At
<1>4. CASE SecureAnswer
  <2>. DEFINE links == Links(call, call.answer.records)
  <2>1. PICK n \in 0 .. MaxCname : \E chain \in [1 .. n -> links] :
               Leads(call, chain, n, links, call.answer.last)
    BY <1>4 DEF ChainsConnected
  <2>2. PICK chain \in [1 .. n -> links] : Leads(call, chain, n, links, call.answer.last)
    BY <2>1
  <2>3. Leads(call, chain, n, links, call.answer.last)'
    BY <1>3, <2>2
  <2>4. \A r \in call.answer.records \ links : r.owner = call.answer.last /\ r.type = call.type
    BY <1>4 DEF ChainsConnected
  <2>5. links' = links
    BY <1>2
  <2>. HIDE DEF links
  <2>. QED BY <2>2, <2>3, <2>4, <2>5 DEF ChainsConnected, links
<1>5. CASE ~SecureAnswer
  BY <1>1, <1>5 DEF ChainsConnected
<1>. QED BY <1>4, <1>5

(* What was valid stays what was valid at some moment of the call. *)
LEMMA AdvanceKeeps ==
  ASSUME CallInv, Advance
  PROVE  CallInv'
<1>1. UNCHANGED call /\ clock' = clock + 1 /\ clock \in Nat /\ call.began \in Nat /\ call.began <= clock
  BY DEF Advance, CallInv
<1>2. Zone' = Zone /\ Ds' = Ds /\ Signer' = Signer /\ ForeignKeySet' = ForeignKeySet
  BY <1>1, KeySetsKept DEF Zone, Ds, Signer
<1>3. \A p \in Published : ValidDuring(p) => ValidDuring(p)'
  BY <1>1, PublishedAssumption DEF ValidDuring
<1>4. ASSUME NEW links, FollowedSigned(links) PROVE FollowedSigned(links)'
  BY <1>2, <1>3, <1>4 DEF FollowedSigned
<1>5. \A links, last, depth : ChainedTo(call, links, last, depth) => ChainedTo(call, links, last, depth)'
  BY <1>1, ChainKept
<1>6. call.pc # "idle" => (Working /\ Holding /\ Following)'
  <2>1. Working => Working'
    BY <1>1, <1>2 DEF Working
  <2>2. Holding => Holding'
    BY <1>1, <1>2 DEF Holding, ChildOk, ReplyOk
  <2>3. Following => Following'
    BY <1>1, <1>4, <1>5 DEF Following
  <2>. QED BY <2>1, <2>2, <2>3 DEF CallInv
<1>7. SecureIsSigned'
  <2>1. SecureAnswer' = SecureAnswer /\ Delegated' = Delegated
    BY <1>1 DEF SecureAnswer, Delegated
  <2>2. \A r : HoldersSigned(r) => HoldersSigned(r)'
    BY <1>1, <1>2, <1>3 DEF HoldersSigned
  <2>. QED BY <1>1, <1>2, <1>3, <2>1, <2>2 DEF CallInv, SecureIsSigned
<1>8. ChainsConnected'
  BY <1>1, ConnectedKept DEF CallInv
<1>9. LastAbsent'
  <2>1. DeniesLast' = DeniesLast
    BY <1>1 DEF DeniesLast, SecureAnswer, Delegated
  <2>2. Held' \subseteq Held
    BY <1>1, <1>2, PublishedAssumption DEF Held
  <2>3. CallMisled' = CallMisled
    BY <1>1, <1>2 DEF CallMisled, Misled
  <2>. QED BY <1>1, <2>1, <2>2, <2>3 DEF CallInv, LastAbsent, Absent
<1>. QED BY <1>1, <1>6, <1>7, <1>8, <1>9 DEF CallInv

LEMMA InitCall ==
  ASSUME Init
  PROVE  CallInv
<1>1. DOMAIN call = CallFields /\ call.pc = "idle" /\ call.began = 0 /\ call.answer.kind = "none" /\ clock = 1
  BY DEF Init, NoCall, NoAnswer, CallFields
<1>. QED BY <1>1 DEF CallInv, SecureIsSigned, ChainsConnected, LastAbsent, DeniesLast, SecureAnswer

LEMMA NextKeeps ==
  ASSUME CallInv, [Next]_vars
  PROVE  CallInv'
<1>1. CASE UNCHANGED vars
  <2>1. UNCHANGED <<clock, call>>
    BY <1>1 DEF vars
  <2>2. /\ Zone' = Zone /\ Ds' = Ds /\ Signer' = Signer /\ ForeignKeySet' = ForeignKeySet
        /\ \A p : ValidDuring(p)' = ValidDuring(p)
    BY <2>1, KeySetsKept DEF Zone, Ds, Signer, ValidDuring
  <2>3. Working' = Working /\ Holding' = Holding
    BY <2>1, <2>2 DEF Working, Holding, ChildOk, ReplyOk
  <2>4. Following => Following'
    <3>1. \A links, last, depth : ChainedTo(call, links, last, depth) => ChainedTo(call, links, last, depth)'
      BY <2>1, ChainKept
    <3>2. FollowedSigned(call.prefix) => FollowedSigned(call.prefix)'
      BY <2>1, <2>2 DEF FollowedSigned
    <3>. QED BY <2>1, <3>1, <3>2 DEF Following
  <2>5. SecureIsSigned'
    <3>1. \A r : HoldersSigned(r)' = HoldersSigned(r)
      BY <2>1, <2>2 DEF HoldersSigned
    <3>. QED BY <2>1, <2>2, <3>1 DEF CallInv, SecureIsSigned, SecureAnswer, Delegated
  <2>6. ChainsConnected'
    BY <2>1, ConnectedKept DEF CallInv
  <2>7. LastAbsent'
    <3>1. Held' = Held
      BY <2>1, <2>2 DEF Held
    <3>2. CallMisled' = CallMisled
      BY <2>1, <2>2 DEF CallMisled, Misled
    <3>. QED BY <2>1, <3>1, <3>2 DEF CallInv, LastAbsent, DeniesLast, Absent, SecureAnswer, Delegated
  <2>. QED BY <2>1, <2>3, <2>4, <2>5, <2>6, <2>7 DEF CallInv
<1>2. CASE Begin
  BY <1>2, BeginKeeps
<1>3. CASE Advance
  BY <1>3, AdvanceKeeps
<1>4. CASE Step
  BY <1>4, ProveKeeps, HydrateKeeps, DelegateKeeps, AskServerKeeps, UdpKeeps, TcpKeeps, TargetKeeps, KeysKeeps,
     TargetDenialKeeps, AskChildKeeps, ChildKeysKeeps, ChildTargetKeeps, WalkOnKeeps, WalkZoneKeeps, WalkChildKeeps
  DEF Step
<1>. QED BY <1>1, <1>2, <1>3, <1>4 DEF Next

(* The denials that the resolver does not ask for are true as well.        *)
LEMMA OthersAreTrue ==
  ASSUME CallInv, call.pc = "denial", "Secure" \in SignerStatuses, ~ForeignKeySet, NEW S, S \subseteq Heard
  PROVE  OtherDenialsTrue(S)
<1>. DEFINE name == call.name
            keys == KeySet(call.keys, Zone)
            closer == NextCloser(name, Zone)
            rrsets == {Records(S, r.owner, "NSEC3") : r \in OfType(S, "NSEC3")}
<1>1. /\ Working /\ Holding /\ Stage(call) = "denial" /\ call.child = NoChild
      /\ clock \in Nat /\ call.began \in Nat /\ call.began <= clock
  BY DEF CallInv, Stage, Asks, Holding
<1>2. Signer = Zone /\ name \in Seq(Nat) /\ Zone \in Seq(Nat) /\ AtOrBelow(name, Zone) /\ Len(Zone) \in Nat
  BY <1>1, ZoneIs, SignerIs, LenProperties
<1>3. KeysHeld(Zone, keys)
  BY <1>1, <1>2, Trusted DEF SignerKeys
<1>4. \A a \in rrsets : a # {} /\ DenialRrset(a, "NSEC3")
  BY DenialsAre DEF Records, OfType
<1>. HIDE DEF rrsets, keys
<1>5. ASSUME NEW a \in rrsets, Nsec3DsNoData(Zone, keys, name, a, Zone, {}, {}, S, clock) = "Secure"
      PROVE  Absent(name, {"DS", "CNAME"})
  <2>1. \A h \in HeldAt(Zone, clock) : h.owner = name => h.type \notin {"DS", "CNAME"}
    BY <1>1, <1>3, <1>4, <1>5, Nsec3DsNoDataIsTrue
  <2>. QED BY <1>1, <1>2, <2>1, HeldAbsent
<1>6. ASSUME NEW a \in rrsets, Nsec3UnsignedReferral(Zone, keys, name, a, Zone, {}, {}, S, clock) = "Insecure"
      PROVE  /\ \E p \in Published \cup Unsigned :
                   p.zone = Zone /\ p.owner = name /\ p.type = "NS" /\ ValidDuring(p)
             /\ Absent(name, {"DS", "SOA"})
  <2>1. /\ \A h \in HeldAt(Zone, clock) : h.owner = name => h.type \notin {"DS", "SOA"}
        /\ AtOrBelow(name, Zone) /\ (\E q \in Requests : name = q[1]) =>
             \E h \in HeldAt(Zone, clock) : h.owner = name /\ h.type = "NS"
    BY <1>1, <1>3, <1>4, <1>6, Nsec3UnsignedReferralIsTrue
  <2>2. \E q \in Requests : name = q[1]
    BY <1>1 DEF Working
  <2>3. PICK h \in HeldAt(Zone, clock) : h.owner = name /\ h.type = "NS"
    BY <1>2, <2>1, <2>2
  <2>4. h \in Published \cup Unsigned /\ h.zone = Zone /\ ValidDuring(h)
    BY <1>1, PublishedAssumption DEF HeldAt, Contents, ValidDuring
  <2>5. Absent(name, {"DS", "SOA"})
    BY <1>1, <1>2, <2>1, HeldAbsent
  <2>. QED BY <2>3, <2>4, <2>5
<1>7. ASSUME StrictlyBelow(name, Zone), \A h \in HeldAt(Zone, clock) : ~AtOrBelow(h.owner, closer)
      PROVE  ~ \E p \in Held : AtOrBelow(p.owner, closer)
  <2>1. ASSUME NEW p \in Held, AtOrBelow(p.owner, closer) PROVE FALSE
    <3>1. p.owner \in Seq(Nat)
      BY PublishedAssumption DEF Held
    <3>2. AtOrBelow(p.owner, Zone)
      BY <1>2, <1>7, <2>1, <3>1, BelowPrefix
    <3>3. p \in HeldAt(Zone, clock)
      BY <1>1, <1>2, <3>2, HeldNow
    <3>. QED BY <1>7, <2>1, <3>3
  <2>. QED BY <2>1
<1>8. ASSUME NEW a \in rrsets, Nsec3WildcardAnswer(Zone, keys, name, Zone, a, S, clock) = "Secure"
      PROVE  ~ \E p \in Held : AtOrBelow(p.owner, closer)
  <2>1. Len(Zone) <= Len(Zone) + 1
    BY <1>2
  <2>2. \A h \in HeldAt(Zone, clock) : ~AtOrBelow(h.owner, closer)
    BY <1>1, <1>2, <1>3, <1>4, <1>8, <2>1, Nsec3WildcardAnswerIsTrue
  <2>3. StrictlyBelow(name, Zone)
    BY <1>8 DEF Nsec3WildcardAnswer
  <2>. QED BY <1>7, <2>2, <2>3
<1>9. ASSUME NEW a \in rrsets, NEW b \in rrsets, NEW c \in rrsets,
             Nsec3WildcardNoData(Zone, keys, name, Zone, call.type, a, b, c, S, clock) = "Secure"
      PROVE  /\ ~ \E p \in Held : AtOrBelow(p.owner, closer)
             /\ Absent(WildcardChild(Zone), {call.type, "CNAME"})
  <2>1. Len(Zone) <= Len(Zone) + 1
    BY <1>2
  <2>2. /\ \A h \in HeldAt(Zone, clock) : ~AtOrBelow(h.owner, closer)
        /\ \A h \in HeldAt(Zone, clock) : h.owner = WildcardChild(Zone) => h.type \notin {call.type, "CNAME"}
    BY <1>1, <1>2, <1>3, <1>4, <1>9, <2>1, Nsec3WildcardNoDataIsTrue
  <2>3. StrictlyBelow(name, Zone)
    BY <1>9 DEF Nsec3WildcardNoData, IfEnclosed
  <2>4. AtOrBelow(WildcardChild(Zone), Signer)
    BY <1>2, WildcardBelow
  <2>. QED BY <1>1, <1>2, <1>7, <2>2, <2>3, <2>4, HeldAbsent
<1>. QED BY <1>5, <1>6, <1>8, <1>9 DEF OtherDenialsTrue, rrsets, keys

(* And the wildcard that a name error rules out is not there. *)
LEMMA NameErrorsAreTrue ==
  ASSUME CallInv, call.pc = "denial", "Secure" \in SignerStatuses, ~ForeignKeySet,
         NEW S, S \subseteq Heard, ~Replayed(S)
  PROVE  NameErrorTrue(call.name, S)
<1>. SUFFICES ASSUME NameErrorStatus(call.name, S) = "Secure"
              PROVE  \E k \in Len(Signer) .. Len(call.name) - 1 :
                       /\ ~ \E p \in Held : p.owner = WildcardChild(SubSeq(call.name, 1, k))
                       /\ OfType(S, "NSEC") = {} => ~ \E p \in Held : AtOrBelow(p.owner, SubSeq(call.name, 1, k + 1))
  BY DEF NameErrorTrue
<1>1. Working /\ Holding /\ clock \in Nat /\ call.began \in Nat /\ call.began <= clock
  BY DEF CallInv
<1>2. call.name \in Seq(Nat) /\ Signer \in Seq(Nat) /\ AtOrBelow(call.name, Signer) /\ KeysHeld(Signer, SignerKeys)
  BY <1>1, ZoneIs, SignerIs, Trusted
<1>3. PICK k \in Len(Signer) .. Len(call.name) - 1 :
        NameErrorStatusAt(call.name, SubSeq(call.name, 1, k), S) = "Secure"
  BY <1>2, NameErrorAt
<1>. DEFINE encloser == SubSeq(call.name, 1, k)
            closer == SubSeq(call.name, 1, k + 1)
<1>4. ASSUME NEW h \in HeldAt(Signer, clock)
      PROVE  /\ h.owner # WildcardChild(encloser)
             /\ OfType(S, "NSEC") = {} => ~AtOrBelow(h.owner, closer)
  BY <1>1, <1>2, <1>3, NameErrorAtIsTrue
<1>5. AtOrBelow(encloser, Signer) /\ AtOrBelow(closer, Signer)
  BY <1>2, AboveBelow
<1>6. encloser \in Seq(Nat) /\ closer \in Seq(Nat)
  BY <1>2, AboveBelow
<1>. HIDE DEF encloser, closer
<1>7. ASSUME NEW p \in Held, p.owner = WildcardChild(encloser) PROVE FALSE
  <2>1. AtOrBelow(p.owner, encloser) /\ p.owner \in Seq(Nat)
    BY <1>6, <1>7, WildcardBelow, PublishedAssumption DEF Held
  <2>2. AtOrBelow(p.owner, Signer)
    BY <1>2, <1>5, <1>6, <2>1, BelowTransitive
  <2>3. p \in HeldAt(Signer, clock)
    BY <1>1, <2>2, HeldNow
  <2>. QED BY <1>4, <1>7, <2>3
<1>8. ASSUME OfType(S, "NSEC") = {}, NEW p \in Held, AtOrBelow(p.owner, closer) PROVE FALSE
  <2>1. p.owner \in Seq(Nat)
    BY PublishedAssumption DEF Held
  <2>2. AtOrBelow(p.owner, Signer)
    BY <1>2, <1>5, <1>6, <1>8, <2>1, BelowTransitive
  <2>3. p \in HeldAt(Signer, clock)
    BY <1>1, <2>2, HeldNow
  <2>. QED BY <1>4, <1>8, <2>3
<1>. QED BY <1>7, <1>8 DEF encloser, closer

(* What every reachable state satisfies: the inductive invariant.          *)
THEOREM CallIsSound == Spec => []CallInv
<1>1. Init => CallInv
  BY InitCall
<1>2. CallInv /\ [Next]_vars => CallInv'
  BY NextKeeps
<1>. QED BY <1>1, <1>2, PTL DEF Spec

(* For any zones, requests and replies: a secure answer rests on key sets  *)
(* that hold a key named by DS records, and every rrset of it was signed   *)
(* by the key holders of the proven zone, or of the child that they signed *)
(* a DS record for, and was valid while the call ran; unless another's key *)
(* stands in one of these key sets and has signed it, which the two checks *)
(* of validate_signed_rrset do not tell apart.  A root proven with DS      *)
(* yields no answer that is not secure.                                    *)
THEOREM SignedAlways == Spec => []SecureIsSigned
<1>1. CallInv => SecureIsSigned
  BY DEF CallInv
<1>. QED BY <1>1, CallIsSound, PTL

(* For any zones, servers and requests, and any limit on the CNAMEs: the   *)
(* CNAMEs of a secure answer are one chain of at most MaxCname links from  *)
(* the name that was asked for, inside the zone, to the name of the other  *)
(* records, whatever resolve_secure_answer_records was told on the way.    *)
THEOREM ConnectedAlways == Spec => []ChainsConnected
<1>1. CallInv => ChainsConnected
  BY DEF CallInv
<1>. QED BY <1>1, CallIsSound, PTL

(* For any zones, requests and replies: what a secure answer leaves out    *)
(* the zone did not hold all through the call, whether NSEC or NSEC3 says  *)
(* so and with delegations below opt-out intervals counted in, what the    *)
(* validators of the other denials accept is true of the zone, and a name  *)
(* error rules out a wildcard; unless a key set is the exception above or  *)
(* an NSEC of a wildcard was replayed at another owner.                    *)
THEOREM DenialsAlways == Spec => []DenialsTrue
<1>1. CallInv => DenialsTrue
  <2>. SUFFICES ASSUME CallInv PROVE DenialsTrue
    OBVIOUS
  <2>1. DeniesLast /\ ~CallMisled => Absent(call.answer.last, {call.type, "CNAME"})
    BY DEF CallInv, LastAbsent
  <2>2. ASSUME call.pc = "denial", "Secure" \in SignerStatuses, ~ForeignKeySet
        PROVE  /\ OtherDenialsTrue(Sections(call.target))
               /\ ~Replayed(Sections(call.target)) => NameErrorTrue(call.name, Sections(call.target))
    <3>1. Sections(call.target) \subseteq Heard
      BY <2>2 DEF CallInv, Holding, ReplyOk, Sections
    <3>. QED BY <2>2, <3>1, OthersAreTrue, NameErrorsAreTrue
  <2>. QED BY <2>1, <2>2 DEF DenialsTrue, CallMisled, Misled
<1>. QED BY <1>1, CallIsSound, PTL
================================================================================
