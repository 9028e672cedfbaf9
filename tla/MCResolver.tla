------------------------------- MODULE MCResolver -------------------------------
(* Zones for Resolver: <<1>> with NSEC and a signed child, <<2>> with NSEC3. *)
EXTENDS Resolver

Rr(owner, type, data) == [owner |-> owner, type |-> type, data |-> data]
Addr(a) == [address |-> a]
To(name) == [target |-> name]
Key(k, tag) == [key |-> k, tag |-> tag, zone |-> TRUE, known |-> TRUE]
DsOf(owner, k, tag, known) == [digest |-> <<owner, k>>, tag |-> tag, known |-> known]
Nsec(next, types) == [next |-> next, types |-> types \cup {"NSEC"}]
Nsec3(salt, next, types, optout) ==
  [salt |-> salt, next |-> next, types |-> types, optout |-> optout, usable |-> TRUE]

(* An rrset of one signing, as published. *)
Pub(zone, by, tag, owner, type, rdata, from, until) ==
  [zone |-> zone, by |-> by, tag |-> tag, owner |-> owner, type |-> type, rdata |-> rdata,
   from |-> from, until |-> until]

Labels(p) == IF p.owner[Len(p.owner)] = Wild THEN Len(p.owner) - 1 ELSE Len(p.owner)

(* The rrset and its signature, at owner when the zone expands a wildcard. *)
Plain(p, owner) == {Rr(owner, p.type, d) : d \in p.rdata}
SigOf(p, owner) ==
  Rr(owner, "RRSIG",
     [covers |-> p.type, labels |-> Labels(p), from |-> p.from, until |-> p.until, tag |-> p.tag,
      signer |-> p.zone, by |-> p.by, over |-> [owner |-> p.owner, rdata |-> p.rdata]])
SignedAt(p, owner) == Plain(p, owner) \cup {SigOf(p, owner)}
Signed(p) == SignedAt(p, p.owner)

Ex == <<1>>
Www == <<1, 2>>
Alias == <<1, 3>>
Loop == <<1, 4>>
Out == <<1, 5>>
Away == <<9, 2>>
Child == <<1, 6>>
New == <<1, 7>>
Host == <<1, 6, 2>>
Star == <<1, 0>>
Deep == <<1, 7, 2>>
Hs == <<2>>
HsWww == <<2, 2>>
HsGone == <<2, 5>>
HsCut == <<2, 8>>

(* Zone <<1>>, at time 1 and, with New, at time 2. *)
P(owner, type, rdata, from, until) == Pub(Ex, "k1", 1, owner, type, rdata, from, until)
ExKeys == P(Ex, "DNSKEY", {Key("k1", 1)}, 1, 2)
WwwOld == P(Www, "A", {Addr(1)}, 1, 1)
WwwNew == P(Www, "A", {Addr(2)}, 2, 2)
AliasP == P(Alias, "CNAME", {To(Www)}, 1, 2)
AliasNew == P(Alias, "CNAME", {To(New)}, 1, 2)
LoopP == P(Loop, "CNAME", {To(Loop)}, 1, 2)
OutP == P(Out, "CNAME", {To(Www \o <<1>>)}, 1, 2)
AwayP == P(Out, "CNAME", {To(Away)}, 1, 2)
AwayA == P(Away, "A", {Addr(7)}, 1, 2)
StarP == P(Star, "A", {Addr(3)}, 1, 2)
NewP == P(New, "A", {Addr(4)}, 2, 2)
CutDs == P(Child, "DS", {DsOf(Child, "c1", 2, TRUE)}, 1, 2)
NsecLast == P(Child, "NSEC", {Nsec(Ex, {"NS", "DS"})}, 1, 1)
NsecCut == P(Child, "NSEC", {Nsec(New, {"NS", "DS"})}, 2, 2)
NsecNew == P(New, "NSEC", {Nsec(Ex, {"A"})}, 2, 2)
NsecApex == P(Ex, "NSEC", {Nsec(Star, {"NS", "SOA", "DNSKEY"})}, 1, 2)
NsecStar == P(Star, "NSEC", {Nsec(Www, {"A"})}, 1, 2)
NsecWww == P(Www, "NSEC", {Nsec(Alias, {"A"})}, 1, 2)

(* The child zone, and its host key before a rollover. *)
C(by, owner, type, rdata, from, until) == Pub(Child, by, 2, owner, type, rdata, from, until)
ChildKeyset == C("c1", Child, "DNSKEY", {Key("c1", 2)}, 1, 2)
HostA == C("c1", Host, "A", {Addr(5)}, 1, 2)
ChildNsec == C("c1", Child, "NSEC", {Nsec(Host, {"NS", "SOA", "DNSKEY"})}, 1, 2)
HostNsec == C("c1", Host, "NSEC", {Nsec(Child, {"A"})}, 1, 2)

(* Zone <<2>>: two NSEC3 chains, the older one with opt-out over HsCut.    *)
H(owner, type, rdata) == Pub(Hs, "h1", 3, owner, type, rdata, 1, 2)
HsKeys == H(Hs, "DNSKEY", {Key("h1", 3)})
HsWwwP == H(HsWww, "A", {Addr(6)})
MCHash == [s \in {1, 2, 3} |-> [n \in {Hs, HsWww, HsGone, HsCut, <<2, 0>>} |->
             CASE n = Hs -> 20 [] n = <<2, 0>> -> 31 [] n = HsGone -> 32 [] n = HsCut -> 33 [] n = HsWww -> 10]]
OptOutApex == H(<<2, 20>>, "NSEC3", {Nsec3(1, 10, {"NS", "SOA", "DNSKEY"}, TRUE)})
OptOutWww == H(<<2, 10>>, "NSEC3", {Nsec3(1, 20, {"A"}, TRUE)})
ChainApex == H(<<2, 20>>, "NSEC3", {Nsec3(2, 33, {"NS", "SOA", "DNSKEY"}, FALSE)})
ChainCut == H(<<2, 33>>, "NSEC3", {Nsec3(2, 10, {"NS"}, FALSE)})
ChainWww == H(<<2, 10>>, "NSEC3", {Nsec3(2, 20, {"A"}, FALSE)})
OverLimit == H(<<2, 20>>, "NSEC3", {Nsec3(3, 33, {"NS", "SOA", "DNSKEY"}, FALSE)})

(* A rollover whose key set only the new key has signed. *)
Rolled == [P(Ex, "DNSKEY", {Key("k1", 1), Key("k2", 4)}, 1, 2) EXCEPT !.by = "k2", !.tag = 4]
WwwRolled == [WwwNew EXCEPT !.by = "k2", !.tag = 4]
MCPublished ==
  {ExKeys, WwwOld, WwwNew, AliasP, AliasNew, LoopP, OutP, AwayP, AwayA, StarP, NewP, CutDs, NsecLast, NsecCut,
   NsecNew, NsecApex, NsecStar, NsecWww, ChildKeyset, HostA, ChildNsec, HostNsec, HsKeys, HsWwwP,
   OptOutApex, OptOutWww, ChainApex, ChainCut, ChainWww, OverLimit, Rolled, WwwRolled}
MCUnsigned == {Pub(Hs, "h1", 3, HsCut, "NS", {To(<<9, 1>>)}, 1, 2)}

(* What was signed by a key that is none of the zone's, with its tag. *)
Foreign(p) == [p EXCEPT !.by = "kx", !.from = 1, !.until = 2]
ForeignWww == [Foreign(WwwOld) EXCEPT !.rdata = {Addr(7)}]
ForeignKeys == [Foreign(ExKeys) EXCEPT !.rdata = {Key("kx", 1)}]
MixedKeys == [Foreign(ExKeys) EXCEPT !.rdata = {Key("k1", 1), Key("kx", 1)}]

ForeignHost == [HostA EXCEPT !.by = "kx", !.rdata = {Addr(7)}]
ForeignChild == [ChildKeyset EXCEPT !.by = "kx", !.rdata = {Key("kx", 2)}]
MixedChild == [ChildKeyset EXCEPT !.by = "kx", !.rdata = {Key("c1", 2), Key("kx", 2)}]

UpTo2(S) == {{}} \cup {{a, b} : a \in S, b \in S}
Unions(S) == {UNION T : T \in UpTo2(S)}

(* Key sets come alone, or the right one with the foreign one. *)
KeyAnswers(S) == {{}, Signed(ExKeys) \cup Signed(ForeignKeys)} \cup S

(* What servers may have to say about a question, right or not. *)
AnswerPool(n, t) ==
  CASE t = "DNSKEY" /\ n = Ex -> {Signed(ExKeys), Plain(ExKeys, Ex), Signed(ForeignKeys), Signed(MixedKeys), Signed(Rolled)}
    [] t = "DNSKEY" /\ n = Child -> {Signed(ChildKeyset), Signed(ForeignChild), Signed(MixedChild)}
    [] t = "DNSKEY" /\ n = Hs -> {Signed(HsKeys)}
    [] n = Www -> {Signed(WwwOld), Signed(WwwNew), Signed(WwwRolled), Signed(ForeignWww), Plain(WwwNew, Www), SignedAt(StarP, Www)}
    [] n = Alias -> {Signed(AliasP), Signed(AliasNew), Signed(WwwOld), Signed(WwwNew)}
    [] n = Loop -> {Signed(LoopP)}
    [] n = Out -> {Signed(OutP), Signed(AwayP)}
    [] n = Away -> {Signed(AwayA)}
    [] n = New -> {Signed(NewP), SignedAt(StarP, New)}
    [] n = Deep -> {SignedAt(StarP, Deep)}
    [] n = Host -> {Signed(HostA), Signed(ForeignHost)}
    [] OTHER -> {}

DenialPool(n) ==
  IF n \in {Host, Away} THEN {Signed(ChildNsec), Signed(HostNsec), Signed(NsecLast)}
  ELSE IF n[1] = 1 THEN {Signed(NsecStar), SignedAt(NsecStar, Www), Signed(NsecWww), Signed(NsecLast), Signed(NsecNew), Signed(NsecCut)}
  ELSE {Signed(OptOutApex), Signed(OptOutWww), Signed(ChainApex), Signed(ChainCut), Signed(ChainWww),
        Signed(OverLimit)}

(* The two halves of a name error, as a server sends them. *)
BothOf(n) == IF n = New THEN {Signed(NsecStar) \cup Signed(NsecLast)}
             ELSE IF n = HsGone THEN {Signed(ChainApex) \cup Signed(ChainWww)} ELSE {}

Glue == {Rr(<<1, 6, 9>>, "A", Addr(8)), Rr(<<1, 6, 9>>, "AAAA", Addr(9))}
Referrals(n) ==
  IF n # Host THEN {}
  ELSE {[rcode |-> "NOERROR", answers |-> {}, additionals |-> g,
         authorities |-> {Rr(Child, "NS", To(<<1, 6, 9>>))} \cup ds] :
          g \in {Glue, {}},
          ds \in {{}, Signed(CutDs), Plain(CutDs, Child),
                  Signed([CutDs EXCEPT !.by = "kx", !.rdata = {DsOf(Child, "kx", 2, TRUE)}])}}

Messages(n, t) ==
  {[rcode |-> c, answers |-> a, authorities |-> d, additionals |-> {}] :
     c \in IF t = "DNSKEY" THEN {"NOERROR"} ELSE {"NOERROR", "NXDOMAIN"},
     a \in IF t = "DNSKEY" THEN KeyAnswers(AnswerPool(n, t)) ELSE Unions(AnswerPool(n, t)),
     d \in IF t = "DNSKEY" THEN {{}} ELSE {{}} \cup DenialPool(n) \cup BothOf(n)}

Questions == ({Www, Alias, Loop, Out, New, Deep, Host, HsGone, Away, Www \o <<1>>} \X {"A"})
             \cup ({Ex, Hs, Child} \X {"DNSKEY"}) \cup {<<HsCut, "NS">>, <<Host, "TXT">>}
MCReplies == [q \in Questions |-> Messages(q[1], q[2]) \cup Referrals(q[1])]

Proof(S) == [exists |-> TRUE, records |-> S]
NoProof == [exists |-> FALSE, records |-> {}]
NsGlue == {Rr(Ex, "NS", To(<<1, 9>>)), Rr(<<1, 9>>, "A", Addr(1))}
ExDs == {Rr(Ex, "DS", DsOf(Ex, "k1", 1, TRUE))}
MCProofs ==
  [r \in {<<1>>, <<2>>, <<9>>} |->
     CASE r = <<1>> -> {Proof(NsGlue \cup ExDs), Proof(NsGlue), NoProof, Proof({Rr(Ex, "TXT", [text |-> 1])}),
                        Proof({Rr(Ex, "NS", To(<<9, 1>>)), Rr(Ex, "NS", To(<<1, 9>>))})}
       [] r = <<2>> -> {Proof({Rr(Hs, "NS", To(<<2, 9>>)), Rr(<<2, 9>>, "A", Addr(2)), Rr(<<2, 9>>, "AAAA", Addr(3)),
                               Rr(Hs, "DS", DsOf(Hs, "h1", 3, TRUE)), Rr(Hs, "DS", DsOf(Hs, "h1", 3, FALSE))})}
       [] r = <<9>> -> {Proof({Rr(<<9, 1>>, "A", Addr(4))}), NoProof}]

MCRequests == {<<Www, "A">>, <<Alias, "A">>, <<Loop, "A">>, <<Out, "A">>, <<New, "A">>, <<Host, "A">>,
               <<Host, "TXT">>, <<HsGone, "A">>, <<HsCut, "NS">>, <<Ex, "TXT">>, <<Ex, "ALL">>, <<Www, "ALL">>}
================================================================================
