-------------------------------- MODULE Resolver --------------------------------
(***************************************************************************)
(* Delegated resolution: DelegatingResolver and                            *)
(* AuthoritativeDnssecResolver of rust/crates/hns-resolver.  A root's      *)
(* proven resource delegates it to name servers; each answer of theirs is  *)
(* validated from the DS records of the proof down, through at most one    *)
(* child delegation and a bounded chain of CNAMEs.                         *)
(*                                                                         *)
(* One exchange with a server, or one validation, is a step; the clock     *)
(* may move in between.  A server may hold any version of its zone, leave  *)
(* records out, truncate, or not answer.                                   *)
(***************************************************************************)
EXTENDS DnssecRules

CONSTANTS
  Requests,     \* <<name, type>> that are asked for; the type "ALL" is u16::MAX
  Proofs,       \* Proofs[root]: what the proof of a root may hold
  Replies,      \* Replies[q]: the messages a server may send to <<name, type>>
  Published,    \* every rrset a zone's key holders signed, and its validity
  Unsigned,     \* delegations below an opt-out interval, which nobody signs
  MaxCname,     \* MAX_CNAME_CHAIN_LEN
  MaxClock      \* bound: the last value of the clock

(* What a proof of a root may hold, what a server may send to a question.  *)
Proved(root) == IF root \in DOMAIN Proofs THEN Proofs[root] ELSE {}
Replied(q) == IF q \in DOMAIN Replies THEN Replies[q] ELSE {}

(* Every record that a server may send to be validated. *)
Heard == UNION {r.answers \cup r.authorities : r \in UNION {Replied(q) : q \in DOMAIN Replies}}

(* The keys of a zone: those that proofs of it and the zones above name    *)
(* and those of the key sets that it has published.                        *)
DsRecords(zone) ==
  {d.data : d \in Records(UNION {p.records : p \in Proved(zone)}, zone, "DS")}
  \cup UNION {p.rdata : p \in {p \in Published : p.type = "DS" /\ p.owner = zone /\ StrictlyBelow(zone, p.zone)}}
KeysOf(zone) ==
  {d.digest[2] : d \in DsRecords(zone)}
  \cup {k.key : k \in UNION {p.rdata : p \in {p \in Published : p.type = "DNSKEY" /\ p.zone = zone}}}

ASSUME RequestAssumption == \A r \in Requests : r[1] \in Seq(Nat) \ {<< >>}

ASSUME BoundAssumption == MaxCname \in Nat /\ MaxClock \in Nat

(* Records have names for owners and signatures have numbers of labels and *)
(* a time to begin and to end; a message has finitely many records.        *)
ASSUME ReplyAssumption ==
  /\ \A x \in Heard :
       /\ x.owner \in Seq(Nat)
       /\ x.type = "RRSIG" => x.data.labels \in Nat /\ x.data.from \in Nat /\ x.data.until \in Nat
  /\ \A q \in DOMAIN Replies : \A r \in Replies[q] : IsFiniteSet(r.answers)

(* What a zone holds has a time to begin and to end, the digests of a      *)
(* delegation's keys are published with that delegation, and the label of  *)
(* an NSEC3 is a hash, which is not "*".                                   *)
ASSUME PublishedAssumption ==
  /\ \A p \in Published \cup Unsigned : p.owner \in Seq(Nat) /\ p.from \in Nat /\ p.until \in Nat
  /\ \A p \in Published :
       /\ p.owner # <<Wild>> /\ (p.type = "NSEC3" => p.owner[Len(p.owner)] # Wild)
       /\ p.type = "DS" => \A d \in p.rdata : d.digest[1] = p.owner

(* Signatures cannot be forged: a zone's keys have signed only what the    *)
(* zone published.                                                         *)
ASSUME SigningAssumption ==
  \A x \in OfType(Heard, "RRSIG") :
    LET s == x.data
    IN s.by \in KeysOf(s.signer) =>
         \E p \in Published :
           /\ p.zone = s.signer /\ p.type = s.covers /\ p.from = s.from /\ p.until = s.until
           /\ p.owner = s.over.owner /\ p.rdata = s.over.rdata

(* What zones hold beside the denials by hash, of names that are theirs.   *)
Contents == {h \in Published \cup Unsigned : h.type # "NSEC3" /\ AtOrBelow(h.owner, h.zone)}

(* A zone denies nothing that it holds meanwhile: the types at a name, a   *)
(* name in an interval, or one above it that is there for its sake.  Only  *)
(* an opt-out interval may leave out names.                                *)
DeniesNot(p, d, h) ==
  /\ p.type = "NSEC" =>
       (h.owner = p.owner => h.type \in d.types) /\ ~CoversName(p.owner, d.next, h.owner)
  /\ p.type = "NSEC3" =>
       /\ Hash[d.salt][h.owner] = OwnerHash(p) => h.type \in d.types
       /\ \A k \in Len(h.zone) .. Len(h.owner) :
            CoversHash(OwnerHash(p), d.next, Hash[d.salt][SubSeq(h.owner, 1, k)]) => d.optout

(* And a delegation that it names by hash is there. *)
NamesDelegation(p, d, name) ==
  \A now \in p.from .. p.until :
    p.type = "NSEC3" /\ "NS" \in d.types /\ AtOrBelow(name, p.zone) /\ Hash[d.salt][name] = OwnerHash(p) =>
      \E h \in Contents : h.zone = p.zone /\ h.owner = name /\ h.type = "NS" /\ h.from <= now /\ now <= h.until

ASSUME DenialAssumption ==
  \A p \in Published : \A d \in p.rdata :
    /\ \A h \in Contents : p.zone = h.zone /\ p.from <= h.until /\ h.from <= p.until => DeniesNot(p, d, h)
    /\ \A r \in Requests : NamesDelegation(p, d, r[1])

NoReply == [rcode |-> "NOERROR", answers |-> {}, authorities |-> {}, additionals |-> {}]
NoChild == [owner |-> << >>, ds |-> {}, sigs |-> {}, servers |-> {}]
NoAnswer == [kind |-> "none", secure |-> FALSE, records |-> {}, last |-> << >>]

VARIABLES
  clock,    \* the system time
  call      \* the resolve call

vars == <<clock, call>>

(* records: the delegation; hydrate: name servers still without address;   *)
(* servers: those not yet asked; q: the question under way; after: what    *)
(* its response is for; target, keys: the parent's responses; child,       *)
(* childKeys: the referral followed; response, question, owner, prefix,    *)
(* depth: the CNAME walk.  began is history.                               *)
NoCall ==
  [pc |-> "idle", name |-> << >>, type |-> "A", records |-> {}, hydrate |-> {}, servers |-> {},
   q |-> << << >>, "A">>, after |-> "none", target |-> NoReply, keys |-> {}, child |-> NoChild,
   childKeys |-> {}, response |-> NoReply, question |-> << >>, owner |-> << >>, prefix |-> {},
   depth |-> 0, began |-> 0, answer |-> NoAnswer]

Init == clock = 1 /\ call = NoCall

Zone == SubSeq(call.name, 1, 1)
Ds == Records(call.records, Zone, "DS")

Return(kind, secure, records, last) ==
  call' = [call EXCEPT !.pc = "idle",
             !.answer = [kind |-> kind, secure |-> secure, records |-> records, last |-> last]]
Error(kind) == Return(kind, FALSE, {}, call.name)

-----------------------------------------------------------------------------
(* DelegatingResolver *)
Begin ==
  /\ call.pc = "idle"
  /\ \E r \in Requests :
       call' = [NoCall EXCEPT !.pc = "prove", !.name = r[1], !.type = r[2], !.began = clock]
  /\ UNCHANGED clock

NsNames(S) == {r.data.target : r \in OfType(S, "NS")}
AddressesAt(S, name) == Records(S, name, "A") \cup Records(S, name, "AAAA")
Addresses(S, names) == {r.data.address : r \in UNION {AddressesAt(S, n) : n \in names}}

(* The proof itself answers: a record of the root, or no delegation.       *)
AnsweredByProof(S, direct) ==
  \/ call.name = Zone /\ (direct # {} \/ call.type \in {"DS", "NS", "TXT", "ALL"})
  \/ Records(S, Zone, "NS") = {}

Prove ==
  /\ call.pc = "prove"
  /\ \/ \E p \in Proved(Zone) :
          LET direct == IF call.type = "ALL" THEN p.records ELSE Records(p.records, call.name, call.type)
          IN IF ~p.exists THEN Error("NameNotFound")
             ELSE IF AnsweredByProof(p.records, direct) THEN Return("answer", TRUE, direct, call.name)
             ELSE call' = [call EXCEPT !.pc = "hydrate", !.records = p.records,
                      !.hydrate = {n \in NsNames(Records(p.records, Zone, "NS")) :
                                     AddressesAt(p.records, n) = {}}]
     \/ Error("ProofUnavailable")
  /\ UNCHANGED clock

(* A name server without address is looked up in its own root's proof.     *)
Hydrate ==
  /\ call.pc = "hydrate"
  /\ \E n \in call.hydrate :
       \/ \E p \in Proved(SubSeq(n, 1, 1)) :
            call' = [call EXCEPT !.hydrate = @ \ {n}, !.records = @ \cup AddressesAt(p.records, n)]
       \/ call' = [call EXCEPT !.hydrate = @ \ {n}]
       \/ Error("Storage")
  /\ UNCHANGED clock

Delegate ==
  LET servers == Addresses(call.records, NsNames(Records(call.records, Zone, "NS")))
  IN /\ call.pc = "hydrate" /\ call.hydrate = {}
     /\ IF call.type = "ALL" THEN Error("UnsupportedBackend")
        ELSE IF servers = {} THEN Error("NoNameserverAddress")
        ELSE call' = [call EXCEPT !.pc = "server", !.servers = servers]
     /\ UNCHANGED clock

-----------------------------------------------------------------------------
(* dns_query *)
Asking(c, name, type, after) == [c EXCEPT !.pc = "udp", !.q = <<name, type>>, !.after = after]

(* The next server of the child, then of the parent. *)
ServerFails(kind) ==
  IF call.child.servers # {} THEN call' = [call EXCEPT !.pc = "childserver"]
  ELSE IF call.servers # {} THEN call' = [call EXCEPT !.pc = "server"]
  ELSE Error(kind)

AskServer ==
  /\ call.pc = "server"
  /\ \E s \in call.servers :
       call' = Asking([call EXCEPT !.servers = @ \ {s}, !.keys = {}, !.child = NoChild, !.childKeys = {},
                         !.prefix = {}, !.depth = 0],
                      call.name, call.type, "target")
  /\ UNCHANGED clock

Received(r) == call' = [call EXCEPT !.pc = call.after, !.response = r, !.question = call.q[1]]

Got(r) == [error |-> "none", reply |-> r]
Lost(error) == [error |-> error, reply |-> NoReply]

(* dns_query_should_retry_tcp *)
RetriedOverTcp == {"DnsTransport", "InvalidDnsResponse"}

(* exchange_udp: a datagram, nothing in time, or one from elsewhere, which *)
(* stands also for one that is malformed, truncated, of another query or   *)
(* with another response code.                                             *)
UdpExchange(q) == {Got(r) : r \in Replied(q)} \cup {Lost("DnsTransport"), Lost("InvalidDnsResponse")}

(* exchange_tcp: likewise, and a length beyond the limit is refused. *)
TcpExchange(q) == {Got(r) : r \in Replied(q)} \cup {Lost("DnsTransport"), Lost("InvalidDnsResponse")}

Udp ==
  /\ call.pc = "udp"
  /\ \E x \in UdpExchange(call.q) :
       \/ x.error = "none" /\ Received(x.reply)
       \/ x.error \in RetriedOverTcp /\ call' = [call EXCEPT !.pc = "tcp"]
  /\ UNCHANGED clock

Tcp ==
  /\ call.pc = "tcp"
  /\ \E x \in TcpExchange(call.q) :
       \/ x.error = "none" /\ Received(x.reply)
       \/ x.error # "none" /\ ServerFails(x.error)
  /\ UNCHANGED clock

-----------------------------------------------------------------------------
(* Validation of what the zone, or the child followed, answered. *)
KeySet(S, zone) == Records(S, zone, "DNSKEY")
SigsAt(S, owner) == Records(S, owner, "RRSIG")
Complete(keys, zone) == KeySet(keys, zone) # {} /\ SigsAt(keys, zone) # {}

Signer == IF call.child = NoChild THEN Zone ELSE call.child.owner
SignerKeys == IF call.child = NoChild THEN KeySet(call.keys, Zone) ELSE KeySet(call.childKeys, Signer)

(* The chain of trust down to the zone's keys, and on to the child's. *)
ZoneTrust == ZoneStatuses(Zone, Ds, KeySet(call.keys, Zone), SigsAt(call.keys, Zone), clock)
ChildTrust ==
  ChildStatuses(Zone, Ds, KeySet(call.keys, Zone), SigsAt(call.keys, Zone),
    Signer, call.child.ds, call.child.sigs, SignerKeys, SigsAt(call.childKeys, Signer), clock)

SignerStatuses == IF call.child = NoChild THEN ZoneTrust ELSE ChildTrust

(* validate_secure_rrset, validate_secure_child_rrset *)
SignedStatus(rrset, sigs) == {RrsetStatus(Signer, SignerKeys, rrset, sigs, clock)}
ZoneRrset(rrset, sigs) == AndThen(ZoneTrust, SignedStatus(rrset, sigs))
ChildRrset(rrset, sigs) == AndThen(ChildTrust, SignedStatus(rrset, sigs))

(* The first of two denials that is Secure, or in error, decides. *)
FirstOf(a, b) == IF a \in {"Secure", "Error"} THEN a ELSE b

NoDataStatus(name, type, S) ==
  LET nsec == Records(S, name, "NSEC")
      nsec3 == OfType(S, "NSEC3")
  IN FirstOf(IF nsec = {} THEN "Bogus" ELSE NsecNoData(Signer, SignerKeys, name, type, nsec, S, clock),
             IF nsec3 = {} THEN "Bogus" ELSE Nsec3NoData(Signer, SignerKeys, name, type, nsec3, S, clock))

NameErrorStatusAt(name, encloser, S) ==
  LET nsec == OfType(S, "NSEC")
      nsec3 == OfType(S, "NSEC3")
  IN FirstOf(IF nsec = {} THEN "Bogus"
             ELSE NsecNameError(Signer, SignerKeys, name, encloser, nsec, nsec, S, clock),
             IF nsec3 = {} THEN "Bogus"
             ELSE Nsec3NameError(Signer, SignerKeys, name, encloser, nsec3, nsec3, nsec3, S, clock))

(* Each possible closest encloser, from the name upwards. *)
NameErrorStatus(name, S) ==
  LET at == [k \in Len(Signer) .. Len(name) - 1 |-> NameErrorStatusAt(name, SubSeq(name, 1, k), S)]
      decided == {k \in DOMAIN at : at[k] \in {"Secure", "Error"}}
  IN IF decided = {} THEN "Bogus" ELSE at[CHOOSE k \in decided : \A j \in decided : j <= k]

ZoneNoData(name, S) == AndThen(ZoneTrust, {NoDataStatus(name, call.type, S)})
ZoneNameError(name, S) == AndThen(ZoneTrust, {NameErrorStatus(name, S)})
ChildNoData(name, S) == AndThen(ChildTrust, {NoDataStatus(name, call.type, S)})
ChildNameError(name, S) == AndThen(ChildTrust, {NameErrorStatus(name, S)})

(* A denial that validates is an empty answer, after the CNAMEs so far. *)
Denied(owner, statuses) ==
  \E s \in statuses :
    IF s = "Secure" THEN Return("answer", TRUE, call.prefix, owner) ELSE ServerFails("DnssecFailed")

Sections(r) == r.answers \cup r.authorities
ZoneDenies(r, owner) ==
  Denied(owner, IF r.rcode = "NXDOMAIN" THEN ZoneNameError(owner, Sections(r)) ELSE ZoneNoData(owner, Sections(r)))
ChildDenies(r, owner) ==
  Denied(owner, IF r.rcode = "NXDOMAIN" THEN ChildNameError(owner, Sections(r)) ELSE ChildNoData(owner, Sections(r)))

-----------------------------------------------------------------------------
(* resolve_delegated_from_server *)
Target ==
  /\ call.pc = "target"
  /\ IF Ds = {}
     THEN Return("answer", FALSE, Records(call.response.answers, call.name, call.type), call.name)
     ELSE call' = Asking([call EXCEPT !.target = call.response], Zone, "DNSKEY", "keys")
  /\ UNCHANGED clock

(* child_referral: the deepest delegation towards the name, if signed.     *)
ReferralOwners(r) ==
  {n.owner : n \in {n \in OfType(r.authorities, "NS") :
                      StrictlyBelow(n.owner, Zone) /\ AtOrBelow(call.name, n.owner)}}

Referral(r) ==
  LET owner == CHOOSE o \in ReferralOwners(r) : \A p \in ReferralOwners(r) : Len(p) <= Len(o)
      ds == Records(r.authorities, owner, "DS")
      sigs == SigsAt(r.authorities, owner)
  IN IF ReferralOwners(r) = {} \/ ds = {} \/ sigs = {} THEN NoChild
     ELSE [owner |-> owner, ds |-> ds, sigs |-> sigs,
           servers |-> Addresses(r.additionals, NsNames(Records(r.authorities, owner, "NS")))]

Walking(c) == [c EXCEPT !.pc = "walk", !.owner = c.name]

Keys ==
  LET r == call.target
      keys == KeySet(call.response.answers, Zone) \cup SigsAt(call.response.answers, Zone)
      empty == Records(r.answers, call.name, call.type) \cup Records(r.answers, call.name, "CNAME") = {}
      ref == Referral(r)
  IN /\ call.pc = "keys"
     /\ IF ~Complete(keys, Zone) THEN ServerFails("DnssecFailed")
        ELSE IF r.rcode = "NXDOMAIN" \/ (ref = NoChild /\ empty)
        THEN call' = [call EXCEPT !.pc = "denial", !.keys = keys]
        ELSE IF ref = NoChild
        THEN call' = Walking([call EXCEPT !.keys = keys, !.response = r, !.question = call.name])
        ELSE IF ref.servers = {} THEN ServerFails("NoNameserverAddress")
        ELSE call' = [call EXCEPT !.pc = "childserver", !.keys = keys, !.child = ref]
     /\ UNCHANGED clock

TargetDenial ==
  /\ call.pc = "denial"
  /\ ZoneDenies(call.target, call.name)
  /\ UNCHANGED clock

(* resolve_secure_child_from_server *)
AskChild ==
  /\ call.pc = "childserver"
  /\ \E s \in call.child.servers :
       call' = Asking([call EXCEPT !.child.servers = @ \ {s}, !.prefix = {}, !.depth = 0],
                      call.child.owner, "DNSKEY", "childkeys")
  /\ UNCHANGED clock

ChildKeys ==
  LET keys == KeySet(call.response.answers, Signer) \cup SigsAt(call.response.answers, Signer)
  IN /\ call.pc = "childkeys"
     /\ IF ~Complete(keys, Signer) THEN ServerFails("DnssecFailed")
        ELSE call' = Asking([call EXCEPT !.childKeys = keys], call.name, call.type, "childtarget")
     /\ UNCHANGED clock

ChildTarget ==
  /\ call.pc = "childtarget"
  /\ call' = Walking(call)
  /\ UNCHANGED clock

-----------------------------------------------------------------------------
(* resolve_secure_answer_records: one turn of the loop. *)

(* Mutation of Deeper: turns are not counted. *)
DeeperNot(depth) == depth
Deeper(depth) == depth + 1

(* Mutation of InZone: a target may be anywhere. *)
InZoneAlways(name) == TRUE
InZone(name) == AtOrBelow(name, Signer)

(* The rrset validates with the signatures at its owner, and then. *)
Validated(rrset, sigs, statuses, next) ==
  IF sigs = {} THEN ServerFails("DnssecFailed")
  ELSE \E s \in statuses : IF s = "Secure" THEN next ELSE ServerFails("DnssecFailed")

Follow(cname) ==
  LET next == (CHOOSE r \in cname : TRUE).data.target
  IN IF Cardinality(cname) # 1 \/ ~InZone(next) THEN ServerFails("DnssecFailed")
     ELSE call' = [call EXCEPT !.prefix = @ \cup cname, !.owner = next, !.depth = Deeper(@)]

Found == Records(call.response.answers, call.owner, call.type)
Cnames == IF call.type = "CNAME" THEN {} ELSE Records(call.response.answers, call.owner, "CNAME")
OwnerSigs == SigsAt(call.response.answers, call.owner)

Stuck == call.depth > MaxCname \/ (Found # {} /\ Cnames # {})
AsksAgain == Found \cup Cnames = {} /\ call.owner # call.name /\ call.question # call.owner

WalkOn ==
  /\ call.pc = "walk"
  /\ \/ Stuck /\ ServerFails("DnssecFailed")
     \/ ~Stuck /\ AsksAgain /\ call' = Asking([call EXCEPT !.depth = Deeper(@)], call.owner, call.type, "walk")
  /\ UNCHANGED clock

WalkZone ==
  /\ call.pc = "walk" /\ call.child = NoChild /\ ~Stuck /\ ~AsksAgain
  /\ IF Found # {}
     THEN Validated(Found, OwnerSigs, ZoneRrset(Found, OwnerSigs),
            Return("answer", TRUE, call.prefix \cup Found, call.owner))
     ELSE IF Cnames # {}
     THEN Validated(Cnames, OwnerSigs, ZoneRrset(Cnames, OwnerSigs), Follow(Cnames))
     ELSE ZoneDenies(call.response, call.owner)
  /\ UNCHANGED clock

WalkChild ==
  /\ call.pc = "walk" /\ call.child # NoChild /\ ~Stuck /\ ~AsksAgain
  /\ IF Found # {}
     THEN Validated(Found, OwnerSigs, ChildRrset(Found, OwnerSigs),
            Return("answer", TRUE, call.prefix \cup Found, call.owner))
     ELSE IF Cnames # {}
     THEN Validated(Cnames, OwnerSigs, ChildRrset(Cnames, OwnerSigs), Follow(Cnames))
     ELSE ChildDenies(call.response, call.owner)
  /\ UNCHANGED clock

Advance ==
  /\ clock < MaxClock
  /\ clock' = clock + 1
  /\ UNCHANGED call

Step ==
  \/ Prove \/ Hydrate \/ Delegate \/ AskServer \/ Udp \/ Tcp
  \/ Target \/ Keys \/ TargetDenial \/ AskChild \/ ChildKeys \/ ChildTarget
  \/ WalkOn \/ WalkZone \/ WalkChild

Next == Begin \/ Step \/ Advance

Spec == Init /\ [][Next]_vars

(* Every exchange has a timeout and every other step is a computation.     *)
FairSpec == Spec /\ WF_vars(Step)

-----------------------------------------------------------------------------
Delegated == call.records # {}
SecureAnswer == call.pc = "idle" /\ call.answer.kind = "answer" /\ call.answer.secure /\ Delegated

(* Valid at some moment of the call. *)
ValidDuring(p) == p.from <= clock /\ call.began <= p.until

(* p was signed for owner, or for a wildcard above it. *)
SignedFor(p, owner) ==
  \/ p.owner = owner
  \/ \E k \in 1 .. Len(owner) - 1 : p.owner = WildcardChild(SubSeq(owner, 1, k))

(* A DS record names a key of the set. *)
Linked(owner, ds, keys) == \E d \in ds, k \in KeySet(keys, owner) : d.data.digest = <<owner, k.data.key>>

(* A signature over just the key set of the zone, by the holder of a key.  *)
OverKeySet(s, zone, keys, by) ==
  /\ s.data.covers = "DNSKEY" /\ s.data.signer = zone /\ s.data.by = by
  /\ s.data.over.rdata = {k.data : k \in KeySet(keys, zone)}

(* A key that is none of the zone's is in the key set, and has signed it.  *)
SignedByOther(zone, keys) ==
  \E s \in SigsAt(keys, zone), x \in KeySet(keys, zone) :
    x.data.key \notin KeysOf(zone) /\ OverKeySet(s, zone, keys, x.data.key)

(* The key set of the zone, or of the child followed, is such a one.       *)
ForeignKeySet ==
  SignedByOther(Zone, call.keys) \/ (call.child # NoChild /\ SignedByOther(Signer, call.childKeys))

(* The rrset of r was signed by the holders of the signer's keys.          *)
HoldersSigned(r) ==
  \E p \in Published :
    LET rrset == {s.data : s \in Records(call.answer.records, r.owner, r.type)}
    IN /\ p.zone = Signer /\ p.type = r.type /\ ValidDuring(p) /\ SignedFor(p, r.owner)
       /\ r.data \in p.rdata /\ p.rdata \subseteq rrset
       /\ r.type = call.type => p.rdata = rrset

(* "No RRset should be treated as DNSSEC-secure unless the delegation link *)
(* and a covering RRSIG both validate" (docs/security-model.md:83): a      *)
(* secure answer rests on key sets that hold a key the DS records name,    *)
(* the proof's and the child's; and, with the one exception below, every   *)
(* rrset of it was signed by the key holders of the proven zone, or of the *)
(* child they signed a DS for, and was valid while the call ran, when the  *)
(* servers mix versions, keys of the same tag and unsigned records.  A     *)
(* root proven with DS never yields an answer that is not secure.          *)
(* The exception is of the code: validate_delegation_link takes any key of *)
(* the set that the DS names and validate_dnskey_rrset any key of the set  *)
(* that signed it, so that a foreign key which signs a set of itself and a *)
(* named key is trusted, with every record it signs (KeySetLinked).        *)
(* A chain that comes back to a name may hold two versions of its CNAME.   *)
SecureIsSigned ==
  /\ SecureAnswer =>
       /\ Linked(Zone, Ds, call.keys)
       /\ Signer # Zone => Linked(Signer, call.child.ds, call.childKeys)
       /\ \/ ForeignKeySet
          \/ /\ Signer # Zone =>
                  \E p \in Published : p.zone = Zone /\ p.owner = Signer /\ p.type = "DS" /\ ValidDuring(p)
             /\ \A r \in call.answer.records : HoldersSigned(r)
  /\ call.pc = "idle" /\ call.answer.kind = "answer" /\ Delegated /\ Ds # {} => call.answer.secure

(* A key that a DS record names has signed the key set it is in.           *)
SelfSigned(owner, ds, keys) ==
  \E k \in KeySet(keys, owner), d \in ds :
    /\ d.data.digest = <<owner, k.data.key>>
    /\ \E s \in SigsAt(keys, owner) : OverKeySet(s, owner, keys, k.data.key)

(* "the child answer validates under a DS-matched self-signed child        *)
(* DNSKEY" (docs/security-model.md:88), and likewise the zone's own: the   *)
(* key sets a secure answer rests on were signed by a key that the DS      *)
(* records name, the proof's or those of the referral.                     *)
KeySetLinked ==
  SecureAnswer =>
    /\ SelfSigned(Zone, Ds, call.keys)
    /\ Signer # Zone => SelfSigned(Signer, call.child.ds, call.childKeys)

(* What the zone of the signer holds all through the call, beside NSEC3s,  *)
(* whose owners are no names of it.                                        *)
Held == {p \in Published \cup Unsigned :
           p.zone = Signer /\ p.type # "NSEC3" /\ p.from <= call.began /\ clock <= p.until}

Absent(name, types) == ~ \E p \in Held : p.owner = name /\ p.type \in types

DeniesLast ==
  SecureAnswer /\ Records(call.answer.records, call.answer.last, call.type) = {}

(* The other NSEC3 denials of hns-dnssec, which the resolver does not use, *)
(* on what it received: no DS, an unsigned delegation, a wildcard without  *)
(* the type, and a name that only the wildcard answers for.                *)
OtherDenialsTrue(S) ==
  LET keys == KeySet(call.keys, Zone)
      name == call.name
      exists == \E p \in Held : AtOrBelow(p.owner, NextCloser(name, Zone))
      rrsets == {Records(S, r.owner, "NSEC3") : r \in OfType(S, "NSEC3")}
  IN \A a, b \in rrsets :
       /\ Nsec3DsNoData(Zone, keys, name, a, Zone, {}, {}, S, clock) = "Secure" =>
            Absent(name, {"DS", "CNAME"})
       /\ Nsec3UnsignedReferral(Zone, keys, name, a, Zone, {}, {}, S, clock) = "Insecure" =>
            /\ \E p \in Published \cup Unsigned :
                 p.zone = Zone /\ p.owner = name /\ p.type = "NS" /\ ValidDuring(p)
            /\ Absent(name, {"DS", "SOA"})
       /\ Nsec3WildcardAnswer(Zone, keys, name, Zone, a, S, clock) = "Secure" => ~exists
       /\ \A c \in rrsets :
            Nsec3WildcardNoData(Zone, keys, name, Zone, call.type, a, b, c, S, clock) = "Secure" =>
              ~exists /\ Absent(WildcardChild(Zone), {call.type, "CNAME"})

(* An NSEC stands at another owner than the wildcard it was signed for:    *)
(* its signature's labels are not compared with the owner it denies from.  *)
Replayed(S) ==
  \E r \in OfType(S, "NSEC"), s \in OfType(S, "RRSIG") :
    /\ s.data.covers = "NSEC" /\ r.data \in s.data.over.rdata
    /\ SignedOwner(r.owner, s.data.labels) = s.data.over.owner /\ r.owner # s.data.over.owner

(* A name error shows also that the wildcard under a name above is not     *)
(* there; by NSEC3 that name is the closest, with nothing at or below the  *)
(* next closer one.  By NSEC it is any name above: the "closest encloser"  *)
(* of docs/security-model.md:98 is not asked for.                          *)
NameErrorTrue(name, S) ==
  NameErrorStatus(name, S) = "Secure" =>
    \E k \in Len(Signer) .. Len(name) - 1 :
      /\ ~ \E p \in Held : p.owner = WildcardChild(SubSeq(name, 1, k))
      /\ OfType(S, "NSEC") = {} => ~ \E p \in Held : AtOrBelow(p.owner, SubSeq(name, 1, k + 1))

(* "No empty delegated HNS DNS answer should be treated as secure unless   *)
(* an NSEC or NSEC3 no-data proof validates", and opt-out proves nothing:  *)
(* what a secure answer leaves out the zone of the signer did not hold,    *)
(* delegations below an opt-out interval and records added meanwhile       *)
(* included, and the wildcard that a name error rules out was not there.   *)
(* The exceptions are of the code: the key sets of SecureIsSigned, and an  *)
(* NSEC of a wildcard that a server replays elsewhere, which denies what   *)
(* is there.  An NSEC3 cannot be replayed, its owner being a hash.         *)
DenialsTrue ==
  /\ DeniesLast /\ ~ForeignKeySet /\ ~Replayed(Sections(call.target)) /\ ~Replayed(Sections(call.response)) =>
       Absent(call.answer.last, {call.type, "CNAME"})
  /\ call.pc = "denial" /\ "Secure" \in SignerStatuses /\ ~ForeignKeySet =>
       /\ OtherDenialsTrue(Sections(call.target))
       /\ ~Replayed(Sections(call.target)) => NameErrorTrue(call.name, Sections(call.target))

(* The CNAMEs that were followed to an answer, and the names of a chain of *)
(* them, from the one that was asked for.                                  *)
Links(c, S) == IF c.type = "CNAME" THEN {} ELSE OfType(S, "CNAME")
At(c, chain, i) == IF i = 0 THEN c.name ELSE chain[i].data.target

(* A chain of n CNAMEs, all there are, leads to the name, inside the zone. *)
Leads(c, chain, n, links, last) ==
  /\ At(c, chain, n) = last /\ links = {chain[i] : i \in 1 .. n}
  /\ \A i \in 1 .. n : chain[i].owner = At(c, chain, i - 1)
  /\ \A i \in 0 .. n : AtOrBelow(At(c, chain, i), Signer)

(* "No delegated CNAME chain should be followed outside the HNS-proven     *)
(* delegated zone or beyond the bounded CNAME-chain limit": the records of *)
(* a secure answer are one chain from the name that was asked, inside the  *)
(* zone, to the last name, across the repeated queries.                    *)
ChainsConnected ==
  SecureAnswer =>
    LET links == Links(call, call.answer.records)
    IN /\ \E n \in 0 .. MaxCname : \E chain \in [1 .. n -> links] :
            Leads(call, chain, n, links, call.answer.last)
       /\ \A r \in call.answer.records \ links : r.owner = call.answer.last /\ r.type = call.type

(* Every call returns, whatever servers lose, loop or leave out.           *)
Returns == call.pc # "idle" ~> call.pc = "idle"
================================================================================
