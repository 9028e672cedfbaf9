----------------------------- MODULE GatewayProofs -----------------------------
(***************************************************************************)
(* Proofs about the gateway, for any threads, requests, answers, servers   *)
(* and replies, in both stacks: an answer comes from an origin that the    *)
(* host's own answers allow, and is the reply to the request it is given   *)
(* to, also over pooled connections and resumed sessions; what the cache   *)
(* answers is in time and about the question; the labels of the app's      *)
(* responses say what happened.                                            *)
(*                                                                         *)
(* GatewayInv says what a job has heard at each of its steps, and that     *)
(* what the transport keeps was earned under the policy it is kept under.  *)
(* GatewayTypes, on top of it, says how a job may end and how full the     *)
(* pool and the cache may be, and that the cache's order lists its keys,   *)
(* each once.  Stories and OneServed are about the app: that a job's marks *)
(* and events tell what it has heard, and that the one request of a stack  *)
(* finds nothing in its transport that another has left there.             *)
(***************************************************************************)
EXTENDS Gateway, TLAPS, SequenceTheorems, FiniteSetTheorems, WellFoundedInduction

JobFields ==
  {"pc", "q", "r", "stage", "records", "pending", "fell", "heard", "lookups", "conn", "pooled", "spilt",
   "body", "reply", "out"}
RequestFields ==
  {"id", "scheme", "host", "connect", "port", "protocol", "tls", "valid", "upgrade", "tunnel", "head"}
ConnectionFields == {"host", "at", "port", "server", "resumed", "decision", "backlog", "interim"}
TransportFields == {"pool", "alt", "sessions", "last"}
CacheFields == {"entries", "order"}

\* x is a record with those fields, whatever their values are.
HasFields(x, fields) == x = [f \in fields |-> x[f]]

Asking == {"ask", "doh", "inner", "insert"}
Connected(j) == j.pc \in {"exchange", "finish"} \/ (Done(j) /\ Ok(j))
Fetching(j) == j.pc \in {"fetch", "connect"} \/ Connected(j)
Going(j) == j.pc \in Asking \/ Fetching(j)

Answers(j) == {h.outcome : h \in {h \in j.heard : IsAnswer(h.outcome)}}
TlsaQuestion(r) == [name |-> TlsaOwner(r.host, r.port), type |-> "TLSA"]

(* The host's answers gave the address to connect to. *)
AddressHeard(j) == j.r.connect \in UNION {ResolvedAddresses(o.records, j.q.host) : o \in Answers(j)}

(* The policy of the fetch is what the only answer about TLSA said. *)
PolicyHeard(j, s) ==
  \E o \in HeardOf(j, TlsaQuestion(j.r)) :
    /\ HeardOf(j, TlsaQuestion(j.r)) = {o}
    /\ \E list \in TlsaLists(o.records, TlsaQuestion(j.r).name) :
         /\ j.r.tls = [mode |-> s.https, secure |-> o.secure, tlsa |-> list]
         /\ \A i \in DOMAIN list : Parsable(list[i])

(* The server at the other end satisfies the policy, and the connection    *)
(* holds no reply that the transport would take for that of a request.     *)
Earned(c, host, at, port, tls, secured) ==
  /\ HasFields(c, ConnectionFields)
  /\ c.host = host /\ c.at = at /\ c.port = port
  /\ secured => Trusts(PolicyDecision(tls.mode, tls.secure, tls.tlsa, c.server.chain, c.server.webpki))
  /\ c.interim \in BOOLEAN
  /\ ~c.interim => c.backlog = << >>

EarnedBy(c, r) == Earned(c, r.host, r.connect, r.port, r.tls, Secured(r))

\* What holds of every job that is under way, in the stack s.
Basics(j, s) ==
  /\ HasFields(j, JobFields) /\ HasFields(j.r, RequestFields)
  /\ j.q \in Requests[s.app] /\ j.r.host = j.q.host
  /\ j.r.tunnel => j.r.protocol = 1
  /\ s.secure => \A o \in Answers(j) : o.secure

NoTlsaYet(j) == \A h \in j.heard : IsAnswer(h.outcome) => h.question.type # "TLSA"

AskingInv(j) ==
  /\ j.stage \in {"origin", "A", "AAAA", "https", "tlsa"}
  /\ j.stage \in {"https", "tlsa"} => AddressHeard(j)
  /\ NoTlsaYet(j)

FetchInv(j, s) == AddressHeard(j) /\ (Secured(j.r) => PolicyHeard(j, s))

(* Nothing of a body is written, or the part that a pooled connection had  *)
(* begun.                                                                  *)
Started(j) ==
  \/ j.body = << >> /\ j.spilt = FALSE
  \/ /\ j.spilt = TRUE /\ j.pooled = FALSE
     /\ \E id : j.body = <<<<id, 1>>>>

(* What OwnResponse says of a response, in both stacks. *)
Delivered(j) ==
  /\ j.reply.id = j.r.id \/ (j.pooled /\ j.conn.interim)
  /\ j.reply.reply.cut /\ ~NoBody(j.r.head, j.reply) =>
       ~Secured(j.r) /\ j.reply.reply.framing \notin {"length", "chunked"}
  /\ j.body = Begun(j) \o ReplyBody(j)
  /\ j.spilt => Head(j.body)[2] = 1

JobInv(j, s) ==
  /\ HasFields(j, JobFields)
  /\ Going(j) => Basics(j, s)
  /\ j.pc \in Asking => AskingInv(j)
  /\ j.pc = "insert" => j.pending \in Outcomes(Primary, Question(j))
  /\ Fetching(j) => FetchInv(j, s)
  /\ Connected(j) => EarnedBy(j.conn, j.r)
  /\ j.pc \in Asking \cup {"fetch"} => j.body = << >> /\ j.spilt = FALSE
  /\ j.pc \in {"connect", "exchange"} => Started(j)
  /\ j.pc = "exchange" => j.pooled \/ j.conn.interim = FALSE
  /\ j.pc = "finish" \/ (Done(j) /\ Ok(j)) => Delivered(j)

IsSequence(s) == s \in Seq({s[i] : i \in DOMAIN s})

TransportInv(T) ==
  /\ HasFields(T, TransportFields)
  /\ T.pool = [k \in DOMAIN T.pool |-> T.pool[k]]
  /\ \A k \in DOMAIN T.pool :
       /\ IsSequence(T.pool[k])
       /\ \A i \in DOMAIN T.pool[k] :
            Earned(T.pool[k][i], k[2], k[3], k[4], k[5], k[1] \in {"https", "wss"})
  /\ \A s \in T.sessions :
       Trusts(PolicyDecision(s.tls.mode, s.tls.secure, s.tls.tlsa, s.server.chain, s.server.webpki))

CacheInv(c) == \A k \in Keys(c) : c.entries[k].value \in Outcomes(Primary, k)

\* The order of a cache lists its keys, each once.
Listed(s) == {s[i] : i \in DOMAIN s}
Distinct(s) == \A i, j \in DOMAIN s : s[i] = s[j] => i = j
Orders(s, S) == IsSequence(s) /\ Listed(s) = S /\ Distinct(s)
Ordered(c) == HasFields(c, CacheFields) /\ Orders(c.order, Keys(c))

CacheTyped(c) ==
  /\ Ordered(c) /\ Cardinality(Keys(c)) <= MaxEntries
  /\ \A k \in Keys(c) : c.entries[k].expires \in Nat

PoolsTyped(T) == \A k \in DOMAIN T.pool : Len(T.pool[k]) <= PoolLimit

Typed(j) ==
  /\ HasFields(j, JobFields)
  /\ j.pc \in {"idle", "ask", "doh", "inner", "insert", "fetch", "connect", "exchange", "finish", "done"}
  /\ j.stage \in {"origin", "A", "AAAA", "https", "tlsa"}
  /\ j.out \in Errors /\ (Done(j) <=> j.out # "none")

GatewayTypes ==
  /\ clock \in 0 .. MaxClock /\ served \in 0 .. MaxRequests
  /\ \A t \in Threads : Typed(job[t])
  /\ PoolsTyped(transport) /\ CacheTyped(cache)

GatewayInv ==
  /\ stack \in Stacks
  /\ job = [t \in Threads |-> job[t]]
  /\ \A t \in Threads : JobInv(job[t], stack)
  /\ TransportInv(transport)
  /\ CacheInv(cache)

-----------------------------------------------------------------------------
(* What a trusting decision rests on. *)
LEMMA LeastNatural ==
  ASSUME NEW S \in SUBSET Nat, S # {}
  PROVE  \E n \in S : \A m \in S : n <= m
<1>1. IsWellFoundedOn(OpToRel(<, Nat), Nat)
  BY NatLessThanWellFounded
<1>2. PICK n \in S : \A m \in S : ~(<<m, n>> \in OpToRel(<, Nat))
  BY <1>1, WFMin
<1>3. \A m \in S : ~ (m < n)
  BY <1>2 DEF OpToRel
<1>. QED BY <1>3

(* A set of numbers up to n that has 0 and with each number the next has   *)
(* all of them.                                                            *)
LEMMA UpTo ==
  ASSUME NEW n \in Nat, NEW S, 0 \in S, \A m \in 1 .. n : m - 1 \in S => m \in S
  PROVE  \A m \in 0 .. n : m \in S
<1>. DEFINE B == {m \in 0 .. n : m \notin S}
<1>1. CASE B = {}
  BY <1>1
<1>2. CASE B # {}
  <2>1. B \in SUBSET Nat
    OBVIOUS
  <2>2. PICK m \in B : \A k \in B : m <= k
    BY <1>2, <2>1, LeastNatural
  <2>3. m \in 1 .. n /\ m - 1 \in 0 .. n /\ m - 1 \notin B
    BY <2>2
  <2>. QED BY <2>2, <2>3
<1>. QED BY <1>1, <1>2

LEMMA EmptyList ==
  ASSUME NEW n, NEW data, NEW list \in [1 .. n -> data], {list[i] : i \in 1 .. n} = data
  PROVE  list = << >> <=> data = {}
<1>1. ASSUME list = << >> PROVE data = {}
  <2>1. 1 .. n = {}
    BY <1>1
  <2>. QED BY <2>1
<1>2. ASSUME data = {} PROVE list = << >>
  <2>1. 1 .. n = 1 .. 0
    BY <1>2
  <2>2. list \in [1 .. 0 -> {}]
    BY <1>2, <2>1
  <2>. QED BY <2>2
<1>. QED BY <1>1, <1>2

(* A record that matches decided, or there was none and WebPKI stood in    *)
(* (evaluate_policy_with_certificate_chain).                               *)
LEMMA TrustRestsOnMatch ==
  ASSUME NEW mode, NEW secure, NEW records, NEW server, DOMAIN records \subseteq Nat,
         Trusts(PolicyDecision(mode, secure, records, server.chain, server.webpki))
  PROVE  IF records = << >> THEN mode # "strict" /\ server.webpki
         ELSE secure /\ \E i \in DOMAIN records : Matches(records[i], server)
<1>1. CASE records = << >>
  BY <1>1 DEF PolicyDecision, NoTlsaDecision, Trusts, Ee, Ta
<1>2. CASE records # << >>
  <2>1. secure /\ Trusts(ChainDecision(records, server.chain, server.webpki))
    BY <1>2 DEF PolicyDecision, Trusts, Ee, Ta
  <2>. DEFINE decides == {i \in DOMAIN records : Decides(records[i], server.chain, server.webpki)}
              first == CHOOSE i \in decides : \A j \in decides : i <= j
  <2>2. decides # {} /\ RecordMatch(records[first], server.chain) # "error"
    BY <2>1 DEF ChainDecision, Trusts, Ee, Ta
  <2>3. \E i \in decides : \A j \in decides : i <= j
    BY <2>2, LeastNatural
  <2>4. first \in decides
    BY <2>3
  <2>. QED BY <1>2, <2>1, <2>2, <2>4 DEF Decides, Matches
<1>. QED BY <1>1, <1>2

-----------------------------------------------------------------------------
(* Sequences whose elements are of no known set. *)
LEMMA SequencesAre ==
  ASSUME NEW S, NEW s \in Seq(S)
  PROVE  IsSequence(s)
<1>1. Len(s) \in Nat /\ DOMAIN s = 1 .. Len(s) /\ s = [i \in 1 .. Len(s) |-> s[i]]
  OBVIOUS
<1>. QED BY <1>1 DEF IsSequence

LEMMA PoolSequences ==
  ASSUME NEW s, IsSequence(s), NEW c
  PROVE  /\ IsSequence(Append(s, c))
         /\ \A i \in DOMAIN Append(s, c) : Append(s, c)[i] = c \/ \E n \in DOMAIN s : Append(s, c)[i] = s[n]
         /\ s # << >> => /\ IsSequence(Tail(s)) /\ 1 \in DOMAIN s /\ Head(s) = s[1]
                         /\ \A i \in DOMAIN Tail(s) : \E n \in DOMAIN s : Tail(s)[i] = s[n]
<1>. DEFINE S == {s[i] : i \in DOMAIN s}
<1>1. s \in Seq(S) /\ s \in Seq(S \cup {c}) /\ c \in S \cup {c}
  BY DEF IsSequence
<1>. HIDE DEF S
<1>2. Append(s, c) \in Seq(S \cup {c}) /\ Len(Append(s, c)) = Len(s) + 1 /\ Len(s) \in Nat
      /\ DOMAIN s = 1 .. Len(s) /\ DOMAIN Append(s, c) = 1 .. (Len(s) + 1)
      /\ \A i \in 1 .. Len(s) : Append(s, c)[i] = s[i]
      /\ Append(s, c)[Len(s) + 1] = c
  BY <1>1, AppendProperties
<1>3. \A i \in DOMAIN Append(s, c) : Append(s, c)[i] = c \/ \E n \in DOMAIN s : Append(s, c)[i] = s[n]
  BY <1>2
<1>4. ASSUME s # << >>
      PROVE  /\ IsSequence(Tail(s)) /\ 1 \in DOMAIN s /\ Head(s) = s[1]
             /\ \A i \in DOMAIN Tail(s) : \E n \in DOMAIN s : Tail(s)[i] = s[n]
  <2>1. /\ Tail(s) \in Seq(S) /\ Len(Tail(s)) = Len(s) - 1 /\ Len(s) \in Nat /\ Len(s) >= 1
        /\ \A i \in 1 .. (Len(s) - 1) : Tail(s)[i] = s[i + 1]
        /\ Head(s) = s[1] /\ DOMAIN s = 1 .. Len(s) /\ DOMAIN Tail(s) = 1 .. (Len(s) - 1)
    BY <1>1, <1>4, HeadTailProperties, EmptySeq, LenProperties
  <2>2. IsSequence(Tail(s))
    BY <2>1, SequencesAre
  <2>3. ASSUME NEW i \in DOMAIN Tail(s) PROVE \E n \in DOMAIN s : Tail(s)[i] = s[n]
    <3>1. i + 1 \in DOMAIN s /\ Tail(s)[i] = s[i + 1]
      BY <2>1
    <3>. QED BY <3>1
  <2>. QED BY <2>1, <2>2, <2>3
<1>. QED BY <1>2, <1>3, <1>4, SequencesAre

-----------------------------------------------------------------------------
(* What becomes of a job when it is told something. *)
LEMMA FailedKeeps ==
  ASSUME NEW s, NEW j, HasFields(j, JobFields), NEW error, error # "ok"
  PROVE  JobInv(Failed(j, error), s)
<1>. DEFINE k == Failed(j, error)
<1>1. HasFields(k, JobFields) /\ k.pc = "done" /\ k.out = error
  BY DEF Failed, HasFields, JobFields
<1>. HIDE DEF k
<1>2. JobInv(k, s)
  BY <1>1 DEF JobInv, Going, Fetching, Connected, Asking, Done, Ok
<1>. QED BY <1>2 DEF k

LEMMA AtStageKeeps ==
  ASSUME NEW s, NEW j, Basics(j, s), NoTlsaYet(j), j.body = << >>, j.spilt = FALSE,
         NEW stage \in {"origin", "A", "AAAA", "https", "tlsa"},
         stage \in {"https", "tlsa"} => AddressHeard(j)
  PROVE  JobInv(AtStage(j, stage), s)
<1>. DEFINE k == AtStage(j, stage)
<1>1. HasFields(k, JobFields) /\ k.pc = "ask" /\ k.stage = stage /\ k.r = j.r /\ k.q = j.q
      /\ k.heard = j.heard /\ k.body = j.body /\ k.spilt = j.spilt
  BY DEF AtStage, HasFields, JobFields, Basics
<1>. HIDE DEF k
<1>2. Basics(k, s) /\ NoTlsaYet(k) /\ (AddressHeard(j) => AddressHeard(k))
  BY <1>1 DEF Basics, NoTlsaYet, AddressHeard, Answers
<1>3. JobInv(k, s)
  BY <1>1, <1>2 DEF JobInv, AskingInv, Fetching, Connected, Asking, Done
<1>. QED BY <1>3 DEF k

(* A job that goes on with another request of the same host. *)
LEMMA BoundKeeps ==
  ASSUME NEW s, NEW j, Basics(j, s), NoTlsaYet(j), j.body = << >>, j.spilt = FALSE, AddressHeard(j),
         NEW service, service.kind # "ok",
         service.kind = "service" => service.protocol \in Supported(j)
  PROVE  JobInv(Bound(j, service), s)
<1>1. CASE service.kind = "none"
  BY <1>1, AtStageKeeps DEF Bound
<1>2. CASE service.kind \notin {"none", "service"}
  BY <1>2, FailedKeeps DEF Bound, Basics
<1>3. CASE service.kind = "service"
  <2>. DEFINE k == [j EXCEPT !.r.protocol = service.protocol,
                             !.r.port = IF service.port = 0 THEN @ ELSE service.port]
  <2>1. HasFields(k, JobFields) /\ HasFields(k.r, RequestFields)
    BY DEF HasFields, JobFields, RequestFields, Basics
  <2>2. k.q = j.q /\ k.heard = j.heard /\ k.body = j.body /\ k.spilt = j.spilt /\ k.r.host = j.r.host
        /\ k.r.connect = j.r.connect /\ k.r.tunnel = j.r.tunnel /\ k.r.protocol = service.protocol
    BY DEF HasFields, JobFields, RequestFields, Basics
  <2>. HIDE DEF k
  <2>3. k.r.tunnel => k.r.protocol = 1
    BY <1>3, <2>2 DEF Supported
  <2>4. Basics(k, s) /\ NoTlsaYet(k) /\ AddressHeard(k)
    BY <2>1, <2>2, <2>3 DEF Basics, NoTlsaYet, AddressHeard, Answers
  <2>5. JobInv(AtStage(k, "tlsa"), s)
    BY <2>2, <2>4, AtStageKeeps
  <2>. QED BY <1>3, <2>5 DEF Bound, k
<1>. QED BY <1>1, <1>2, <1>3

LEMMA ServiceKinds ==
  ASSUME NEW S, NEW host, NEW supported, NEW service \in HttpsServices(S, host, supported)
  PROVE  service.kind # "ok" /\ (service.kind = "service" => service.protocol \in supported)
<1>. DEFINE bindings == {r.data : r \in Of(S, host, "HTTPS")}
            errors == UNION {BindingError(b, host) : b \in bindings}
            usable == {b \in bindings : AlpnProtocol(b, supported) # 0}
            services == {[kind |-> "service", protocol |-> AlpnProtocol(b, supported), port |-> b.port] :
                           b \in Preferred(usable)}
<1>1. service \in IF errors # {} THEN {BadService(e) : e \in errors}
                 ELSE IF usable # {} THEN services
                 ELSE IF bindings # {} THEN {BadService("UnsupportedSvcb")}
                 ELSE {NoService}
  BY DEF HttpsServices
<1>2. \A e \in errors : e \notin {"ok", "service"}
  BY DEF BindingError
<1>3. ASSUME NEW x \in services PROVE x.kind = "service" /\ x.protocol \in supported
  <2>1. PICK b \in usable : x = [kind |-> "service", protocol |-> AlpnProtocol(b, supported), port |-> b.port]
    BY <1>3 DEF Preferred
  <2>2. AlpnProtocol(b, supported) \in supported
    BY <2>1 DEF AlpnProtocol
  <2>. HIDE DEF usable
  <2>. QED BY <2>1, <2>2
<1>. HIDE DEF bindings, errors, usable, services
<1>. QED BY <1>1, <1>2, <1>3 DEF BadService, NoService

LEMMA AddressedKeeps ==
  ASSUME NEW s, NEW j, Basics(j, s), NoTlsaYet(j), j.body = << >>, j.spilt = FALSE, AddressHeard(j),
         NEW k \in Addressed(j)
  PROVE  JobInv(k, s)
<1>1. CASE ~Secured(j.r)
  <2>1. k = [j EXCEPT !.pc = "fetch"]
    BY <1>1 DEF Addressed
  <2>2. HasFields(k, JobFields) /\ k.pc = "fetch" /\ k.r = j.r /\ k.q = j.q /\ k.heard = j.heard
        /\ k.body = j.body /\ k.spilt = j.spilt
    BY <2>1 DEF HasFields, JobFields, Basics
  <2>3. Basics(k, s) /\ FetchInv(k, s)
    BY <1>1, <2>2 DEF Basics, FetchInv, AddressHeard, Answers
  <2>. QED BY <2>2, <2>3 DEF JobInv, Fetching, Connected, Asking, Done
<1>2. CASE Secured(j.r)
  <2>1. PICK service \in HttpsServices(j.records, j.r.host, Supported(j)) :
          k = IF service = NoService THEN AtStage(j, "https") ELSE Bound(j, service)
    BY <1>2 DEF Addressed
  <2>2. service.kind # "ok" /\ (service.kind = "service" => service.protocol \in Supported(j))
    BY ServiceKinds
  <2>. QED BY <2>1, <2>2, AtStageKeeps, BoundKeeps
<1>. QED BY <1>1, <1>2

LEMMA WithAddressKeeps ==
  ASSUME NEW s, NEW j, Basics(j, s), NoTlsaYet(j), j.body = << >>, j.spilt = FALSE,
         NEW o \in Answers(j), NEW k \in WithAddress(j, ResolvedAddresses(o.records, j.q.host))
  PROVE  JobInv(k, s)
<1>1. PICK a \in ResolvedAddresses(o.records, j.q.host) : k \in Addressed([j EXCEPT !.r.connect = a])
  BY DEF WithAddress
<1>. DEFINE n == [j EXCEPT !.r.connect = a]
<1>2. HasFields(n, JobFields) /\ HasFields(n.r, RequestFields)
  BY DEF HasFields, JobFields, RequestFields, Basics
<1>3. /\ n.q = j.q /\ n.heard = j.heard /\ n.body = j.body /\ n.spilt = j.spilt
      /\ n.r.host = j.r.host /\ n.r.connect = a
      /\ n.r.tunnel = j.r.tunnel /\ n.r.protocol = j.r.protocol
  BY DEF HasFields, JobFields, RequestFields, Basics
<1>4. k \in Addressed(n)
  BY <1>1
<1>. HIDE DEF n
<1>5. Basics(n, s) /\ NoTlsaYet(n) /\ AddressHeard(n)
  BY <1>1, <1>2, <1>3 DEF Basics, NoTlsaYet, AddressHeard, Answers
<1>. QED BY <1>3, <1>4, <1>5, AddressedKeeps

(* The policy a job takes from the answer about TLSA. *)
LEMMA PolicyKeeps ==
  ASSUME NEW j, Basics(j, stack), j.body = << >>, j.spilt = FALSE, AddressHeard(j), j.stage = "tlsa", NEW o,
         HeardOf(j, TlsaQuestion(j.r)) = {o},
         NEW k \in After(j, o.records, o.secure)
  PROVE  JobInv(k, stack)
<1>1. Question(j).name = TlsaQuestion(j.r).name
  BY DEF Question, TlsaQuestion
<1>2. PICK list \in TlsaLists(o.records, TlsaQuestion(j.r).name) :
        k = IF \A i \in DOMAIN list : Parsable(list[i])
            THEN [j EXCEPT !.pc = "fetch",
                           !.r.tls = [mode |-> stack.https, secure |-> o.secure, tlsa |-> list]]
            ELSE Failed(j, "InvalidTlsa")
  BY <1>1 DEF After
<1>3. CASE k = Failed(j, "InvalidTlsa")
  BY <1>3, FailedKeeps DEF Basics
<1>4. CASE k # Failed(j, "InvalidTlsa")
  <2>. DEFINE policy == [mode |-> stack.https, secure |-> o.secure, tlsa |-> list]
  <2>1. k = [j EXCEPT !.pc = "fetch", !.r.tls = policy] /\ \A i \in DOMAIN list : Parsable(list[i])
    BY <1>2, <1>4
  <2>. HIDE DEF policy
  <2>2. /\ HasFields(k, JobFields) /\ HasFields(k.r, RequestFields) /\ k.pc = "fetch"
        /\ k.q = j.q /\ k.heard = j.heard /\ k.body = j.body /\ k.spilt = j.spilt
        /\ k.r.host = j.r.host /\ k.r.port = j.r.port /\ k.r.connect = j.r.connect /\ k.r.tls = policy
        /\ k.r.tunnel = j.r.tunnel /\ k.r.protocol = j.r.protocol
    BY <2>1 DEF HasFields, JobFields, RequestFields, Basics
  <2>3. Basics(k, stack) /\ AddressHeard(k)
    BY <2>2 DEF Basics, AddressHeard, Answers
  <2>4. TlsaQuestion(k.r) = TlsaQuestion(j.r) /\ HeardOf(k, TlsaQuestion(k.r)) = {o}
    BY <2>2 DEF TlsaQuestion, HeardOf
  <2>5. PolicyHeard(k, stack)
    BY <2>1, <2>2, <2>4 DEF PolicyHeard, policy
  <2>. QED BY <2>2, <2>3, <2>5 DEF JobInv, FetchInv, Fetching, Connected, Asking, Done
<1>. QED BY <1>3, <1>4

(* Before that the answers lead to an address and to a port. *)
LEMMA AfterKeeps ==
  ASSUME NEW j, Basics(j, stack), NoTlsaYet(j), j.body = << >>, j.spilt = FALSE,
         j.stage \in {"origin", "A", "AAAA", "https"}, j.stage = "https" => AddressHeard(j),
         NEW o \in Answers(j), NEW k \in After(j, o.records, o.secure)
  PROVE  JobInv(k, stack)
<1>. DEFINE addresses == ResolvedAddresses(o.records, j.r.host)
            n == [j EXCEPT !.records = o.records]
<1>1. HasFields(n, JobFields) /\ n.r = j.r /\ n.q = j.q /\ n.heard = j.heard /\ n.body = j.body /\ n.spilt = j.spilt
  BY DEF HasFields, JobFields, Basics
<1>. HIDE DEF n
<1>2. Basics(n, stack) /\ NoTlsaYet(n) /\ Answers(n) = Answers(j)
  BY <1>1 DEF Basics, NoTlsaYet, Answers
<1>3. j.r.host = j.q.host /\ n.q.host = j.q.host
  BY <1>1 DEF Basics
<1>4. CASE j.stage = "https"
  <2>1. PICK service \in HttpsServices(o.records, j.r.host, Supported(j)) : k = Bound(j, service)
    BY <1>4 DEF After
  <2>. QED BY <1>4, <2>1, ServiceKinds, BoundKeeps
<1>5. CASE j.stage = "origin" /\ addresses # {}
  <2>1. k \in WithAddress(n, addresses)
    BY <1>5 DEF After, n
  <2>. QED BY <1>1, <1>2, <1>3, <2>1, WithAddressKeeps
<1>6. CASE j.stage \in {"A", "AAAA"} /\ addresses # {}
  <2>1. k \in WithAddress(j, addresses)
    BY <1>6 DEF After
  <2>. QED BY <1>3, <2>1, WithAddressKeeps
<1>7. CASE j.stage = "origin" /\ addresses = {}
  <2>1. k = AtStage(n, "A")
    BY <1>7 DEF After, n
  <2>. QED BY <1>1, <1>2, <2>1, AtStageKeeps
<1>8. CASE j.stage = "A" /\ addresses = {}
  <2>1. k = AtStage(j, "AAAA")
    BY <1>8 DEF After
  <2>. QED BY <2>1, AtStageKeeps
<1>9. CASE j.stage = "AAAA" /\ addresses = {}
  <2>1. k = Failed(j, "NoResolvedAddress")
    BY <1>9 DEF After
  <2>. QED BY <2>1, FailedKeeps DEF Basics
<1>. QED BY <1>4, <1>5, <1>6, <1>7, <1>8, <1>9

LEMMA ResolvedKeeps ==
  ASSUME NEW j, Basics(j, stack), AskingInv(j), j.body = << >>, j.spilt = FALSE, NEW o, o.error # "ok", NEW age,
         NEW k \in Resolved(j, o, age)
  PROVE  JobInv(k, stack)
<1>. DEFINE h == [question |-> Question(j), age |-> age, outcome |-> o]
            n == [j EXCEPT !.heard = @ \cup {h}]
<1>1. /\ HasFields(n, JobFields) /\ n.r = j.r /\ n.q = j.q /\ n.heard = j.heard \cup {h}
      /\ n.body = j.body /\ n.spilt = j.spilt /\ n.stage = j.stage
  BY DEF HasFields, JobFields, Basics
<1>2. k \in IF ~IsAnswer(o) THEN {Failed(n, o.error)}
            ELSE IF stack.secure /\ ~o.secure THEN {Failed(n, "InsecureResolution")}
            ELSE After(n, o.records, o.secure)
  BY DEF Resolved
<1>3. h.question = Question(j) /\ h.outcome = o
  OBVIOUS
<1>. HIDE DEF n, h
<1>4. CASE ~IsAnswer(o) \/ (stack.secure /\ ~o.secure)
  BY <1>1, <1>2, <1>4, FailedKeeps
<1>5. CASE IsAnswer(o) /\ (stack.secure => o.secure)
  <2>1. k \in After(n, o.records, o.secure)
    BY <1>2, <1>5
  <2>2. Answers(n) = Answers(j) \cup {o}
    BY <1>1, <1>3, <1>5 DEF Answers
  <2>3. Basics(n, stack) /\ (AddressHeard(j) => AddressHeard(n))
    BY <1>1, <1>5, <2>2 DEF Basics, AddressHeard
  <2>4. CASE j.stage = "tlsa"
    <3>1. Question(j) = TlsaQuestion(j.r)
      BY <2>4 DEF Question, TlsaQuestion
    <3>2. TlsaQuestion(n.r).type = "TLSA"
      BY DEF TlsaQuestion
    <3>3. HeardOf(n, TlsaQuestion(n.r)) = {o}
      BY <1>1, <1>3, <1>5, <3>1, <3>2 DEF HeardOf, AskingInv, NoTlsaYet
    <3>. QED BY <1>1, <2>1, <2>3, <2>4, <3>3, PolicyKeeps DEF AskingInv
  <2>5. CASE j.stage # "tlsa"
    <3>1. Question(j).type # "TLSA"
      BY <2>5 DEF Question, AskingInv
    <3>2. NoTlsaYet(n)
      BY <1>1, <1>3, <3>1 DEF NoTlsaYet, AskingInv
    <3>. QED BY <1>1, <2>1, <2>2, <2>3, <2>5, <3>2, AfterKeeps DEF AskingInv
  <2>. QED BY <2>4, <2>5
<1>. QED BY <1>4, <1>5

-----------------------------------------------------------------------------
(* What the transport keeps. *)
LEMMA TakenKeeps ==
  ASSUME NEW T, TransportInv(T), NEW r, Pooled(T, PoolKey(r)) # << >>
  PROVE  TransportInv(Taken(T, PoolKey(r))) /\ EarnedBy(Head(Pooled(T, PoolKey(r))), r)
<1>. DEFINE k == PoolKey(r)
            U == Taken(T, k)
            p == T.pool[k]
<1>1. k \in DOMAIN T.pool /\ Pooled(T, k) = p /\ p # << >> /\ IsSequence(p)
      /\ \A i \in DOMAIN p : EarnedBy(p[i], r)
  BY DEF Pooled, TransportInv, PoolKey, EarnedBy, Secured
<1>2. /\ HasFields(U, TransportFields) /\ U.sessions = T.sessions
      /\ U.pool = [x \in DOMAIN T.pool |-> IF x = k THEN Tail(p) ELSE T.pool[x]]
  BY <1>1 DEF Taken, HasFields, TransportFields, TransportInv
<1>3. /\ IsSequence(Tail(p)) /\ 1 \in DOMAIN p /\ Head(p) = p[1]
      /\ \A i \in DOMAIN Tail(p) : \E n \in DOMAIN p : Tail(p)[i] = p[n]
  BY <1>1, PoolSequences
<1>4. EarnedBy(Head(p), r) /\ \A i \in DOMAIN Tail(p) : EarnedBy(Tail(p)[i], r)
  BY <1>1, <1>3
<1>5. \A i \in DOMAIN Tail(p) :
        Earned(Tail(p)[i], k[2], k[3], k[4], k[5], k[1] \in {"https", "wss"})
  BY <1>4 DEF EarnedBy, PoolKey, Secured
<1>. HIDE DEF k, U, p
<1>6. TransportInv(U)
  BY <1>1, <1>2, <1>3, <1>5 DEF TransportInv
<1>. QED BY <1>1, <1>4, <1>6 DEF U, k

LEMMA PutKeeps ==
  ASSUME NEW T, TransportInv(T), NEW r, NEW c, EarnedBy(c, r)
  PROVE  TransportInv(Put(T, PoolKey(r), c))
<1>. DEFINE k == PoolKey(r)
            U == Put(T, k, c)
            p == Pooled(T, k)
            q == IF Len(p) >= PoolLimit THEN Tail(p) ELSE p
<1>1. IsSequence(p) /\ \A i \in DOMAIN p : EarnedBy(p[i], r)
  <2>1. << >> \in Seq({})
    OBVIOUS
  <2>2. IsSequence(<< >>)
    BY <2>1, SequencesAre
  <2>. QED BY <2>2 DEF Pooled, TransportInv, PoolKey, EarnedBy, Secured
<1>2. /\ HasFields(U, TransportFields) /\ U.sessions = T.sessions
      /\ U.pool = [x \in DOMAIN T.pool \cup {k} |-> IF x = k THEN Append(q, c) ELSE T.pool[x]]
  <2>1. HasFields(T, TransportFields)
    BY DEF TransportInv
  <2>2. U = [T EXCEPT !.pool = With(T.pool, k, Append(q, c))]
    BY DEF Put
  <2>. HIDE DEF U, k, q
  <2>3. With(T.pool, k, Append(q, c)) =
          [x \in DOMAIN T.pool \cup {k} |-> IF x = k THEN Append(q, c) ELSE T.pool[x]]
    BY DEF With
  <2>. QED BY <2>1, <2>2, <2>3 DEF HasFields, TransportFields
<1>3. IsSequence(q) /\ \A i \in DOMAIN q : EarnedBy(q[i], r)
  <2>1. CASE Len(p) >= PoolLimit
    <3>1. p # << >>
      BY <2>1, PoolAssumption
    <3>. QED BY <1>1, <2>1, <3>1, PoolSequences
  <2>. QED BY <1>1, <2>1
<1>. HIDE DEF q
<1>4. IsSequence(Append(q, c)) /\ \A i \in DOMAIN Append(q, c) : EarnedBy(Append(q, c)[i], r)
  BY <1>3, PoolSequences
<1>5. \A i \in DOMAIN Append(q, c) :
        Earned(Append(q, c)[i], k[2], k[3], k[4], k[5], k[1] \in {"https", "wss"})
  BY <1>4 DEF EarnedBy, PoolKey, Secured
<1>. HIDE DEF k, U, p
<1>6. TransportInv(U)
  BY <1>2, <1>4, <1>5 DEF TransportInv
<1>. QED BY <1>6 DEF U, k

LEMMA CapturedKeeps ==
  ASSUME NEW T, TransportInv(T), NEW r, NEW server, Trusts(Verdict(r, server))
  PROVE  TransportInv(Captured(T, r, server))
<1>. DEFINE U == Captured(T, r, server)
            s == Session(r, server)
<1>1. /\ HasFields(U, TransportFields) /\ U.sessions = T.sessions \cup {s} /\ U.pool = T.pool
  BY DEF Captured, HasFields, TransportFields, TransportInv
<1>2. Trusts(PolicyDecision(s.tls.mode, s.tls.secure, s.tls.tlsa, s.server.chain, s.server.webpki))
  BY DEF Session, Verdict
<1>. HIDE DEF U, s
<1>. QED BY <1>1, <1>2 DEF TransportInv, U

LEMMA AltRecordedKeeps ==
  ASSUME NEW T, TransportInv(T), NEW r, NEW reply, NEW now
  PROVE  TransportInv(AltRecorded(T, r, reply, now))
<1>. DEFINE U == AltRecorded(T, r, reply, now)
<1>1. /\ HasFields(U, TransportFields) /\ U.sessions = T.sessions /\ U.pool = T.pool
  BY DEF AltRecorded, HasFields, TransportFields, TransportInv
<1>. HIDE DEF U
<1>. QED BY <1>1 DEF TransportInv, U

(* Alt-Svc changes the protocol only. *)
LEMMA AltSvcFields ==
  ASSUME NEW T, NEW r, HasFields(r, RequestFields), NEW now
  PROVE  LET n == ByAltSvc(T, r, now)
         IN /\ HasFields(n, RequestFields) /\ n.id = r.id /\ n.scheme = r.scheme /\ n.host = r.host
            /\ n.connect = r.connect /\ n.port = r.port /\ n.tls = r.tls
            /\ n.tunnel = r.tunnel /\ n.head = r.head
  BY DEF ByAltSvc, HasFields, RequestFields

-----------------------------------------------------------------------------
(* The steps of the fetch. *)

\* t's job becomes one of which JobInv holds, and the transport stays sound.
Keeps(t) ==
  /\ \E k : JobInv(k, stack) /\ Becomes(t, k)
  /\ TransportInv(transport')

(* A fetch goes on with the same answers and for the same origin. *)
LEMMA SameFetch ==
  ASSUME NEW s, NEW j, JobInv(j, s), Fetching(j), NEW k, HasFields(k, JobFields),
         k.q = j.q, k.heard = j.heard, HasFields(k.r, RequestFields), k.r.scheme = j.r.scheme,
         k.r.host = j.r.host, k.r.connect = j.r.connect, k.r.port = j.r.port, k.r.tls = j.r.tls,
         k.r.tunnel => k.r.protocol = 1
  PROVE  /\ Basics(k, s) /\ FetchInv(k, s)
         /\ \A c : EarnedBy(c, j.r) => EarnedBy(c, k.r)
<1>1. Basics(j, s) /\ FetchInv(j, s)
  BY DEF JobInv, Going
<1>2. Basics(k, s) /\ AddressHeard(k)
  BY <1>1 DEF Basics, FetchInv, AddressHeard, Answers
<1>3. TlsaQuestion(k.r) = TlsaQuestion(j.r) /\ \A q : HeardOf(k, q) = HeardOf(j, q)
  BY DEF TlsaQuestion, HeardOf
<1>4. Secured(k.r) = Secured(j.r) /\ (PolicyHeard(j, s) => PolicyHeard(k, s))
  BY <1>3 DEF Secured, PolicyHeard
<1>. QED BY <1>1, <1>2, <1>4 DEF FetchInv, EarnedBy

LEMMA StartKeeps ==
  ASSUME GatewayInv, NEW t \in Threads, Start(t)
  PROVE  Keeps(t)
<1>. DEFINE j == job[t]
            r == IF j.r.tunnel THEN j.r ELSE ByAltSvc(transport, j.r, clock)
            old == Pooled(transport, PoolKey(r))
<1>1. /\ JobInv(j, stack) /\ TransportInv(transport) /\ j.pc = "fetch" /\ Fetching(j)
      /\ HasFields(j, JobFields) /\ HasFields(j.r, RequestFields) /\ Basics(j, stack)
      /\ j.body = << >> /\ j.spilt = FALSE
  BY DEF GatewayInv, Start, JobInv, Going, Fetching, Basics
<1>2. /\ HasFields(r, RequestFields) /\ r.scheme = j.r.scheme /\ r.host = j.r.host
      /\ r.connect = j.r.connect /\ r.port = j.r.port /\ r.tls = j.r.tls
      /\ r.tunnel => r.protocol = 1
  BY <1>1, AltSvcFields DEF Basics
<1>3. \/ \E e : e # "ok" /\ Becomes(t, Failed(j, e)) /\ UNCHANGED transport
      \/ /\ old # << >> /\ transport' = Taken(transport, PoolKey(r))
         /\ Becomes(t, [j EXCEPT !.pc = "exchange", !.r = r, !.conn = Head(old), !.pooled = TRUE])
      \/ Becomes(t, [j EXCEPT !.pc = "connect", !.r = r]) /\ UNCHANGED transport
  BY DEF Start, RequestError
<1>. HIDE DEF j, r
<1>4. ASSUME NEW e, e # "ok", Becomes(t, Failed(j, e)), UNCHANGED transport PROVE Keeps(t)
  BY <1>1, <1>4, FailedKeeps DEF Keeps
<1>5. CASE /\ old # << >> /\ transport' = Taken(transport, PoolKey(r))
           /\ Becomes(t, [j EXCEPT !.pc = "exchange", !.r = r, !.conn = Head(old), !.pooled = TRUE])
  <2>. DEFINE k == [j EXCEPT !.pc = "exchange", !.r = r, !.conn = Head(old), !.pooled = TRUE]
  <2>1. /\ HasFields(k, JobFields) /\ k.pc = "exchange" /\ k.r = r /\ k.conn = Head(old) /\ k.pooled = TRUE
        /\ k.q = j.q /\ k.heard = j.heard /\ k.body = j.body /\ k.spilt = j.spilt
    BY <1>1 DEF HasFields, JobFields
  <2>2. Becomes(t, k)
    BY <1>5
  <2>. HIDE DEF k
  <2>3. TransportInv(transport') /\ EarnedBy(k.conn, k.r)
    BY <1>1, <1>5, <2>1, TakenKeeps
  <2>4. Basics(k, stack) /\ FetchInv(k, stack)
    BY <1>1, <1>2, <2>1, SameFetch
  <2>5. JobInv(k, stack)
    BY <1>1, <2>1, <2>3, <2>4 DEF JobInv, Fetching, Connected, Asking, Done, Started
  <2>. QED BY <2>2, <2>3, <2>5 DEF Keeps
<1>6. CASE Becomes(t, [j EXCEPT !.pc = "connect", !.r = r]) /\ UNCHANGED transport
  <2>. DEFINE k == [j EXCEPT !.pc = "connect", !.r = r]
  <2>1. /\ HasFields(k, JobFields) /\ k.pc = "connect" /\ k.r = r
        /\ k.q = j.q /\ k.heard = j.heard /\ k.body = j.body /\ k.spilt = j.spilt
    BY <1>1 DEF HasFields, JobFields
  <2>2. Becomes(t, k)
    BY <1>6
  <2>. HIDE DEF k
  <2>4. Basics(k, stack) /\ FetchInv(k, stack)
    BY <1>1, <1>2, <2>1, SameFetch
  <2>5. JobInv(k, stack)
    BY <1>1, <2>1, <2>4 DEF JobInv, Fetching, Connected, Asking, Done, Started
  <2>. QED BY <1>1, <1>6, <2>2, <2>5 DEF Keeps
<1>. QED BY <1>3, <1>4, <1>5, <1>6

LEMMA ConnectKeeps ==
  ASSUME GatewayInv, NEW t \in Threads, Connect(t)
  PROVE  Keeps(t)
<1>. DEFINE j == job[t]
<1>1. /\ JobInv(j, stack) /\ TransportInv(transport) /\ j.pc = "connect" /\ Fetching(j)
      /\ HasFields(j, JobFields) /\ HasFields(j.r, RequestFields)
      /\ Started(j) /\ (j.r.tunnel => j.r.protocol = 1)
  BY DEF GatewayInv, Connect, JobInv, Going, Fetching, Basics
<1>2. ASSUME NEW e, e # "ok", Becomes(t, Failed(j, e)), TransportInv(transport') PROVE Keeps(t)
  BY <1>1, <1>2, FailedKeeps DEF Keeps
<1>3. CASE Becomes(t, Failed(j, HandshakeError(j.r))) /\ UNCHANGED transport
  BY <1>1, <1>2, <1>3 DEF HandshakeError
<1>4. CASE ~(Becomes(t, Failed(j, HandshakeError(j.r))) /\ UNCHANGED transport)
  <2>1. PICK server, resumed :
          LET k == [j EXCEPT !.pc = "exchange", !.conn = Connection(j.r, server, resumed)]
          IN /\ resumed \in BOOLEAN
             /\ resumed => Secured(j.r) /\ Session(j.r, server) \in transport.sessions
             /\ Secured(j.r) /\ ~resumed => Trusts(Verdict(j.r, server))
             /\ transport' = IF Secured(j.r) /\ ~resumed THEN Captured(transport, j.r, server)
                             ELSE transport
             /\ Becomes(t, k) \/ Becomes(t, Failed(j, "UnsupportedTransport"))
    BY <1>4 DEF Connect
  <2>. DEFINE k == [j EXCEPT !.pc = "exchange", !.conn = Connection(j.r, server, resumed)]
              s == Session(j.r, server)
  <2>2. TransportInv(transport')
    BY <1>1, <2>1, CapturedKeeps
  <2>3. CASE Becomes(t, Failed(j, "UnsupportedTransport"))
    BY <1>2, <2>2, <2>3
  <2>4. CASE Becomes(t, k)
    <3>1. /\ HasFields(k, JobFields) /\ k.pc = "exchange" /\ k.r = j.r /\ k.q = j.q /\ k.heard = j.heard
          /\ k.body = j.body /\ k.spilt = j.spilt /\ k.pooled = j.pooled
          /\ k.conn = Connection(j.r, server, resumed)
      BY <1>1 DEF HasFields, JobFields
    <3>2. s \in transport.sessions =>
            Trusts(PolicyDecision(s.tls.mode, s.tls.secure, s.tls.tlsa, s.server.chain, s.server.webpki))
      BY <1>1 DEF TransportInv
    <3>3. Secured(j.r) => Trusts(Verdict(j.r, server))
      BY <2>1, <3>2 DEF Session, Verdict
    <3>4. EarnedBy(Connection(j.r, server, resumed), j.r)
      BY <3>3 DEF EarnedBy, Earned, Connection, HasFields, ConnectionFields, Verdict
    <3>. HIDE DEF k
    <3>5. Basics(k, stack) /\ FetchInv(k, stack)
      BY <1>1, <3>1, SameFetch
    <3>6. Started(k) /\ k.conn.interim = FALSE
      BY <1>1, <3>1 DEF Started, Connection
    <3>7. JobInv(k, stack)
      BY <1>1, <3>1, <3>4, <3>5, <3>6 DEF JobInv, Fetching, Connected, Asking, Done
    <3>. QED BY <2>2, <2>4, <3>7 DEF Keeps
  <2>. QED BY <2>1, <2>3, <2>4
<1>. QED BY <1>3, <1>4

LEMMA AfterNothing ==
  ASSUME NEW a, NEW b, NEW s \in {<< >>, <<a>>, <<a, b>>}
  PROVE  << >> \o s = s
<1>1. << >> \o << >> = << >>
  BY EmptySeq, ConcatEmptySeq
<1>2. << >> \o <<a>> = <<a>>
  OBVIOUS
<1>3. << >> \o <<a, b>> = <<a, b>>
  OBVIOUS
<1>. QED BY <1>1, <1>2, <1>3

(* What a failed exchange leaves (send_plain_http11, send_tls_http11). *)
LEMMA RetriedKeeps ==
  ASSUME NEW s, NEW j, JobInv(j, s), j.pc = "exchange", NEW error, error # "ok",
         NEW wrote, wrote = << >> \/ \E id : wrote = <<<<id, 1>>>>
  PROVE  JobInv(Retried(j, wrote, error), s)
<1>. DEFINE n == [j EXCEPT !.body = @ \o wrote, !.spilt = wrote # << >>]
<1>1. HasFields(n, JobFields)
  BY DEF HasFields, JobFields, JobInv
<1>2. CASE ~j.pooled
  <2>1. Retried(j, wrote, error) = Failed(n, error)
    BY <1>2 DEF Retried
  <2>. HIDE DEF n
  <2>. QED BY <1>1, <2>1, FailedKeeps
<1>3. CASE j.pooled
  <2>. DEFINE k == [n EXCEPT !.pc = "connect", !.pooled = FALSE]
  <2>1. Retried(j, wrote, error) = k
    BY <1>3 DEF Retried
  <2>2. /\ HasFields(k, JobFields) /\ k.pc = "connect" /\ k.r = j.r /\ k.q = j.q /\ k.heard = j.heard
        /\ k.body = j.body \o wrote /\ k.spilt = (wrote # << >>) /\ k.pooled = FALSE
    BY DEF HasFields, JobFields, JobInv
  <2>. HIDE DEF n, k
  <2>3. HasFields(j.r, RequestFields) /\ (j.r.tunnel => j.r.protocol = 1) /\ Fetching(j)
    BY DEF JobInv, Going, Fetching, Connected, Basics
  <2>4. Basics(k, s) /\ FetchInv(k, s)
    BY <2>2, <2>3, SameFetch
  <2>5. Started(k)
    <3>1. j.body = << >>
      BY <1>3 DEF JobInv, Started
    <3>2. CASE wrote = << >>
      BY <2>2, <3>1, <3>2, AfterNothing DEF Started
    <3>3. ASSUME NEW id, wrote = <<<<id, 1>>>> PROVE Started(k)
      <4>. DEFINE part == <<id, 1>>
      <4>1. << >> \o <<part>> = <<part>> /\ <<part>> # << >>
        BY AfterNothing
      <4>2. k.body = <<part>> /\ k.spilt = TRUE
        BY <2>2, <3>1, <3>3, <4>1
      <4>. QED BY <2>2, <4>2 DEF Started
    <3>. QED BY <3>2, <3>3
  <2>6. JobInv(k, s)
    BY <2>2, <2>4, <2>5 DEF JobInv, Fetching, Connected, Asking, Done
  <2>. QED BY <2>1, <2>6
<1>. QED BY <1>2, <1>3

LEMMA LostKeeps ==
  ASSUME GatewayInv, NEW t \in Threads, Lost(t)
  PROVE  Keeps(t)
<1>. DEFINE j == job[t]
<1>1. JobInv(j, stack) /\ TransportInv(transport) /\ j.pc = "exchange"
  BY DEF GatewayInv, Lost
<1>2. Becomes(t, Retried(j, << >>, HandshakeError(j.r))) /\ UNCHANGED transport
  BY DEF Lost
<1>3. HandshakeError(j.r) # "ok"
  BY DEF HandshakeError
<1>4. JobInv(Retried(j, << >>, HandshakeError(j.r)), stack)
  BY <1>1, <1>3, RetriedKeeps
<1>. QED BY <1>1, <1>2, <1>4 DEF Keeps

(* Of a connection that has no reply too many, the first reply is to the   *)
(* request, and the last unless it is an interim one.                      *)
LEMMA FirstReply ==
  ASSUME NEW id, NEW reply, reply.interim \in BOOLEAN,
         NEW own, own = [id |-> id, interim |-> FALSE, reply |-> reply],
         NEW backlog, backlog = << >> \o Items(id, reply)
  PROVE  /\ Head(backlog).interim \in BOOLEAN /\ Head(backlog).id = id
         /\ ~Head(backlog).interim => Head(backlog) = own /\ Tail(backlog) = << >>
<1>1. CASE ~reply.interim
  <2>1. backlog = << >> \o (<< >> \o <<own>>)
    BY <1>1 DEF Items
  <2>2. own.interim = FALSE /\ own.id = id
    OBVIOUS
  <2>3. backlog = <<own>> /\ Head(<<own>>) = own /\ Tail(<<own>>) = << >>
    BY <2>1
  <2>. QED BY <2>2, <2>3
<1>2. CASE reply.interim
  <2>. DEFINE early == [id |-> id, interim |-> TRUE, reply |-> reply]
  <2>1. backlog = << >> \o (<<early>> \o <<own>>)
    BY <1>2 DEF Items
  <2>2. early.interim = TRUE /\ early.id = id
    OBVIOUS
  <2>. HIDE DEF early
  <2>3. <<early>> \in Seq({early, own}) /\ <<own>> \in Seq({early, own}) /\ << >> \in Seq({early, own})
    OBVIOUS
  <2>4. Len(<<early>>) = 1 /\ <<early>>[1] = early /\ Len(<<own>>) = 1 /\ Len(<< >>) = 0
    OBVIOUS
  <2>. DEFINE S == {early, own}
              both == <<early>> \o <<own>>
  <2>5. both \in Seq(S) /\ Len(both) = 2 /\ both[1] = early
    BY <2>3, <2>4, ConcatProperties
  <2>6. backlog = << >> \o both
    BY <2>1
  <2>. HIDE DEF S, both
  <2>7. backlog = both /\ Head(both) = both[1]
    BY <2>5, <2>6, ConcatEmptySeq
  <2>. QED BY <2>2, <2>5, <2>7
<1>. QED BY <1>1, <1>2

(* What the requests of a stack may be replied. *)
LEMMA RepliesAre ==
  ASSUME GatewayInv, NEW t \in Threads, job[t].pc = "exchange", NEW reply \in Replies[job[t].q.host]
  PROVE  /\ reply.interim \in BOOLEAN /\ reply.cut \in BOOLEAN
         /\ reply.framing \in {"none", "length", "chunked", "eof", "ambiguous"}
         /\ reply.switches => reply.framing = "none"
<1>1. job[t].q \in Requests[stack.app] /\ stack \in Stacks
  BY DEF GatewayInv, JobInv, Going, Fetching, Connected, Basics
<1>. QED BY <1>1, GatewayAssumption

(* What is written to a body is nothing, a part or two. *)
LEMMA BodyIs ==
  ASSUME NEW head, NEW item
  PROVE  /\ Body(head, item) \in {<< >>, <<<<item.id, 1>>>>, <<<<item.id, 1>>, <<item.id, 2>>>>}
         /\ item.reply.cut => Body(head, item) \in {<< >>, <<<<item.id, 1>>>>}
BY DEF Body

(* What a response that is taken adds to its body makes it the whole of    *)
(* the reply, after what was begun.                                        *)
LEMMA TakenDelivers ==
  ASSUME NEW j, Started(j), NEW k, NEW item, NEW wrote, k.reply = item, k.r = j.r, k.spilt = j.spilt,
         k.body = j.body \o wrote, wrote = ReplyBody(k),
         item.id = j.r.id \/ (k.pooled /\ k.conn.interim),
         item.reply.cut /\ ~NoBody(j.r.head, item) =>
           ~Secured(j.r) /\ item.reply.framing \notin {"length", "chunked"}
  PROVE  Delivered(k)
<1>1. wrote \in {<< >>, <<<<item.id, 1>>>>, <<<<item.id, 1>>, <<item.id, 2>>>>}
  BY DEF ReplyBody
<1>2. CASE j.body = << >> /\ j.spilt = FALSE
  <2>1. << >> \o wrote = wrote
    BY <1>1, AfterNothing
  <2>2. k.body = << >> \o ReplyBody(k) /\ Begun(k) = << >>
    BY <1>2 DEF Begun
  <2>. QED BY <1>2, <2>2 DEF Delivered
<1>3. ASSUME NEW id, j.spilt = TRUE, j.body = <<<<id, 1>>>> PROVE Delivered(k)
  <2>. DEFINE part == <<id, 1>>
              one == <<item.id, 1>>
              two == <<item.id, 2>>
              S == {part, one, two}
  <2>1. part[2] = 1
    OBVIOUS
  <2>2. wrote \in {<< >>, <<one>>, <<one, two>>}
    BY <1>1
  <2>3. k.body = <<part>> \o wrote
    BY <1>3
  <2>. HIDE DEF part, one, two
  <2>4. <<part>> \in Seq(S) /\ Len(<<part>>) = 1 /\ <<part>>[1] = part
    OBVIOUS
  <2>5. wrote \in Seq(S)
    <3>1. << >> \in Seq(S) /\ <<one>> \in Seq(S) /\ <<one, two>> \in Seq(S)
      OBVIOUS
    <3>. QED BY <2>2, <3>1
  <2>. HIDE DEF S
  <2>6. k.body \in Seq(S) /\ Len(k.body) = 1 + Len(wrote) /\ Len(wrote) \in Nat /\ k.body[1] = part
    <3>. DEFINE begun == <<part>>
    <3>1. begun \in Seq(S) /\ Len(begun) = 1 /\ begun[1] = part /\ k.body = begun \o wrote
      BY <2>3, <2>4
    <3>. HIDE DEF begun
    <3>2. Len(wrote) \in Nat /\ 1 \in 1 .. Len(begun) + Len(wrote) /\ 1 <= Len(begun)
      BY <2>5, <3>1
    <3>3. /\ begun \o wrote \in Seq(S) /\ Len(begun \o wrote) = Len(begun) + Len(wrote)
          /\ \A i \in 1 .. Len(begun) + Len(wrote) :
               (begun \o wrote)[i] = IF i <= Len(begun) THEN begun[i] ELSE wrote[i - Len(begun)]
      BY <2>5, <3>1, ConcatProperties, SMTT(30)
    <3>4. (begun \o wrote)[1] = begun[1]
      BY <3>2, <3>3
    <3>. QED BY <3>1, <3>2, <3>3, <3>4
  <2>7. Head(k.body) = part
    BY <2>6
  <2>8. Begun(k) = <<part>>
    BY <1>3, <2>7 DEF Begun
  <2>. QED BY <2>1, <2>3, <2>7, <2>8 DEF Delivered
<1>. QED BY <1>2, <1>3 DEF Started

LEMMA ExchangeKeeps ==
  ASSUME GatewayInv, NEW t \in Threads, NEW reply \in Replies[job[t].q.host], Exchange(t, reply)
  PROVE  Keeps(t)
<1>. DEFINE j == job[t]
            backlog == j.conn.backlog \o Items(j.r.id, reply)
            item == Head(backlog)
            own == [id |-> j.r.id, interim |-> FALSE, reply |-> reply]
            wrote == Body(j.r.head, item)
<1>1. /\ JobInv(j, stack) /\ TransportInv(transport) /\ j.pc = "exchange" /\ Fetching(j)
      /\ HasFields(j, JobFields) /\ HasFields(j.r, RequestFields) /\ ~j.r.tunnel
      /\ EarnedBy(j.conn, j.r) /\ Started(j) /\ (j.pooled \/ j.conn.interim = FALSE)
  BY DEF GatewayInv, Exchange, JobInv, Going, Fetching, Connected, Basics
<1>2. ~j.conn.interim => /\ item.interim \in BOOLEAN /\ item.id = j.r.id
                         /\ ~item.interim => item = own /\ Tail(backlog) = << >>
  <2>1. reply.interim \in BOOLEAN
    BY <1>1, RepliesAre
  <2>2. ASSUME ~j.conn.interim PROVE backlog = << >> \o Items(j.r.id, reply)
    BY <1>1, <2>2 DEF EarnedBy, Earned
  <2>3. own = [id |-> j.r.id, interim |-> FALSE, reply |-> reply]
    OBVIOUS
  <2>. HIDE DEF backlog, own, j
  <2>. QED BY <2>1, <2>2, <2>3, FirstReply
<1>3. j.conn.interim \in BOOLEAN /\ Secured(j.r) \in BOOLEAN
  BY <1>1 DEF EarnedBy, Earned, Secured
<1>4. CASE ~Parses(j.r.head, Secured(j.r), item)
  <2>1. Becomes(t, Retried(j, wrote, "MalformedResponse")) /\ UNCHANGED transport
    BY <1>4 DEF Exchange
  <2>. HIDE DEF item
  <2>2. wrote = << >> \/ wrote = <<<<item.id, 1>>>>
    BY <1>4, BodyIs DEF Parses, Body
  <2>3. JobInv(Retried(j, wrote, "MalformedResponse"), stack)
    <3>. HIDE DEF wrote
    <3>. QED BY <1>1, <2>2, RetriedKeeps
  <2>. QED BY <1>1, <2>1, <2>3 DEF Keeps
<1>5. CASE Parses(j.r.head, Secured(j.r), item)
  <2>. DEFINE k == [j EXCEPT !.pc = "finish", !.body = @ \o wrote, !.reply = item,
                             !.conn.backlog = Tail(backlog), !.conn.interim = @ \/ item.interim]
  <2>1. Becomes(t, k) /\ transport' = AltRecorded(transport, j.r, item.reply, clock)
    BY <1>5 DEF Exchange
  <2>2. /\ HasFields(k, JobFields) /\ k.pc = "finish" /\ k.r = j.r /\ k.q = j.q /\ k.heard = j.heard
        /\ k.body = j.body \o wrote /\ k.spilt = j.spilt /\ k.reply = item /\ k.pooled = j.pooled
        /\ k.conn = [j.conn EXCEPT !.backlog = Tail(backlog), !.interim = @ \/ item.interim]
    BY <1>1 DEF HasFields, JobFields
  <2>. HIDE DEF k
  <2>3. Basics(k, stack) /\ FetchInv(k, stack)
    <3>1. j.r.tunnel => j.r.protocol = 1
      BY <1>1
    <3>. QED BY <1>1, <2>2, <3>1, SameFetch
  <2>4. k.conn.interim = (j.conn.interim \/ item.interim) /\ k.conn.backlog = Tail(backlog)
    BY <1>1, <2>2 DEF EarnedBy, Earned, HasFields, ConnectionFields
  <2>5. EarnedBy(k.conn, k.r)
    <3>1. k.conn.interim \in BOOLEAN /\ (~k.conn.interim => k.conn.backlog = << >>)
      BY <1>2, <1>3, <2>4
    <3>2. HasFields(k.conn, ConnectionFields) /\ k.conn.host = j.conn.host /\ k.conn.at = j.conn.at
          /\ k.conn.port = j.conn.port /\ k.conn.server = j.conn.server
      BY <1>1, <2>2 DEF EarnedBy, Earned, HasFields, ConnectionFields
    <3>. QED BY <1>1, <2>2, <3>1, <3>2 DEF EarnedBy, Earned
  <2>6. Delivered(k)
    <3>1. item.id = j.r.id \/ (k.pooled /\ k.conn.interim)
      BY <1>1, <1>2, <1>3, <2>2, <2>4
    <3>. HIDE DEF item
    <3>2. wrote = ReplyBody(k)
      BY <1>5, <2>2 DEF Parses, Body, ReplyBody
    <3>3. item.reply.cut /\ ~NoBody(j.r.head, item) =>
            ~Secured(j.r) /\ item.reply.framing \notin {"length", "chunked"}
      BY <1>3, <1>5 DEF Parses, Delimited
    <3>4. Started(j) /\ k.reply = item /\ k.r = j.r /\ k.spilt = j.spilt /\ k.body = j.body \o wrote
      BY <1>1, <2>2
    <3>. HIDE DEF wrote, j
    <3>. QED BY <3>1, <3>2, <3>3, <3>4, TakenDelivers
  <2>7. JobInv(k, stack)
    BY <2>2, <2>3, <2>5, <2>6 DEF JobInv, Fetching, Connected, Asking, Done
  <2>. QED BY <1>1, <2>1, <2>7, AltRecordedKeeps DEF Keeps
<1>. QED BY <1>4, <1>5

LEMMA ExchangeFramesKeeps ==
  ASSUME GatewayInv, NEW t \in Threads, NEW reply \in Replies[job[t].q.host], ExchangeFrames(t, reply)
  PROVE  Keeps(t)
<1>. DEFINE j == job[t]
            own == [id |-> j.r.id, interim |-> FALSE, reply |-> reply]
            wrote == FramesBody(j.r.head, own)
<1>1. /\ JobInv(j, stack) /\ TransportInv(transport) /\ j.pc = "exchange" /\ Fetching(j)
      /\ HasFields(j, JobFields) /\ HasFields(j.r, RequestFields) /\ ~j.r.tunnel
      /\ EarnedBy(j.conn, j.r) /\ Started(j)
  <2>1. j.r.tunnel => j.r.protocol = 1
    BY DEF GatewayInv, ExchangeFrames, JobInv, Going, Fetching, Connected, Basics
  <2>. QED BY <2>1 DEF GatewayInv, ExchangeFrames, JobInv, Going, Fetching, Connected, Basics
<1>2. own.id = j.r.id /\ own.reply = reply /\ own.interim = FALSE
  OBVIOUS
<1>3. CASE ~FramesParse(j.r.head, own)
  <2>1. Becomes(t, Retried(j, wrote, "MalformedResponse")) /\ UNCHANGED transport
    BY <1>3 DEF ExchangeFrames
  <2>2. reply.framing \in {"none", "length", "chunked", "eof", "ambiguous"}
    BY <1>1, RepliesAre
  <2>. HIDE DEF own
  <2>3. wrote = << >> \/ wrote = <<<<own.id, 1>>>>
    BY <1>2, <1>3, <2>2 DEF FramesParse, FramesBody, Body, Malformed
  <2>4. JobInv(Retried(j, wrote, "MalformedResponse"), stack)
    <3>. HIDE DEF wrote
    <3>. QED BY <1>1, <2>3, RetriedKeeps
  <2>. QED BY <1>1, <2>1, <2>4 DEF Keeps
<1>4. CASE FramesParse(j.r.head, own)
  <2>. DEFINE k == [j EXCEPT !.pc = "finish", !.body = j.body \o wrote, !.reply = own]
  <2>1. Becomes(t, k) /\ UNCHANGED transport
    BY <1>4 DEF ExchangeFrames
  <2>2. /\ HasFields(k, JobFields) /\ k.pc = "finish" /\ k.r = j.r /\ k.q = j.q /\ k.heard = j.heard
        /\ k.body = j.body \o wrote /\ k.spilt = j.spilt /\ k.reply = own /\ k.conn = j.conn
    BY <1>1 DEF HasFields, JobFields
  <2>. HIDE DEF k, own
  <2>3. Basics(k, stack) /\ FetchInv(k, stack) /\ EarnedBy(k.conn, k.r)
    BY <1>1, <2>2, SameFetch
  <2>4. wrote = ReplyBody(k)
    BY <1>4, <2>2 DEF FramesParse, FramesBody, Body, Malformed, ReplyBody
  <2>5. own.reply.cut => NoBody(j.r.head, own)
    BY <1>4 DEF FramesParse
  <2>6. Delivered(k)
    <3>. HIDE DEF wrote, j
    <3>. QED BY <1>1, <1>2, <2>2, <2>4, <2>5, TakenDelivers
  <2>7. JobInv(k, stack)
    BY <2>2, <2>3, <2>6 DEF JobInv, Fetching, Connected, Asking, Done
  <2>. QED BY <1>1, <2>1, <2>7 DEF Keeps
<1>. QED BY <1>3, <1>4

LEMMA UpgradeKeeps ==
  ASSUME GatewayInv, NEW t \in Threads, NEW reply \in Replies[job[t].q.host], Upgrade(t, reply)
  PROVE  Keeps(t)
<1>. DEFINE j == job[t]
            own == [id |-> j.r.id, interim |-> FALSE, reply |-> reply]
<1>1. /\ JobInv(j, stack) /\ TransportInv(transport) /\ j.pc = "exchange" /\ Fetching(j)
      /\ HasFields(j, JobFields) /\ HasFields(j.r, RequestFields) /\ j.r.tunnel
      /\ j.r.protocol = 1 /\ EarnedBy(j.conn, j.r) /\ Started(j)
  BY DEF GatewayInv, Upgrade, JobInv, Going, Fetching, Connected, Basics
<1>2. CASE ~(reply.switches /\ ~reply.interim)
  <2>1. Becomes(t, Failed(j, "MalformedResponse")) /\ UNCHANGED transport
    BY <1>2 DEF Upgrade
  <2>. QED BY <1>1, <2>1, FailedKeeps DEF Keeps
<1>3. CASE reply.switches /\ ~reply.interim
  <2>. DEFINE k == [j EXCEPT !.pc = "finish", !.reply = own]
  <2>1. Becomes(t, k) /\ UNCHANGED transport
    BY <1>3 DEF Upgrade
  <2>2. /\ HasFields(k, JobFields) /\ k.pc = "finish" /\ k.r = j.r /\ k.q = j.q /\ k.heard = j.heard
        /\ k.body = j.body /\ k.spilt = j.spilt /\ k.reply = own /\ k.conn = j.conn
    BY <1>1 DEF HasFields, JobFields
  <2>3. own.id = j.r.id /\ own.reply = reply
    OBVIOUS
  <2>. HIDE DEF k, own
  <2>4. Basics(k, stack) /\ FetchInv(k, stack) /\ EarnedBy(k.conn, k.r)
    BY <1>1, <2>2, SameFetch
  <2>5. NoBody(j.r.head, own)
    BY <1>1, <1>3, <2>3, RepliesAre DEF NoBody
  <2>6. ReplyBody(k) = << >>
    BY <2>2, <2>5 DEF ReplyBody
  <2>7. j.body \o << >> = j.body
    <3>1. << >> \o << >> = << >>
      BY AfterNothing
    <3>2. ASSUME NEW part PROVE <<part>> \o << >> = <<part>>
      OBVIOUS
    <3>. QED BY <1>1, <3>1, <3>2 DEF Started
  <2>8. Delivered(k)
    <3>. HIDE DEF j
    <3>. QED BY <1>1, <2>2, <2>3, <2>5, <2>6, <2>7, TakenDelivers
  <2>9. JobInv(k, stack)
    BY <2>2, <2>4, <2>8 DEF JobInv, Fetching, Connected, Asking, Done
  <2>. QED BY <1>1, <2>1, <2>9 DEF Keeps
<1>. QED BY <1>2, <1>3

LEMMA FinishKeeps ==
  ASSUME GatewayInv, NEW t \in Threads, Finish(t)
  PROVE  Keeps(t)
<1>. DEFINE j == job[t]
            decision == IF ~Secured(j.r) \/ j.pooled THEN j.conn.decision ELSE Decision(transport, j.r, j.conn)
            conn == [j.conn EXCEPT !.decision = decision]
            k == [j EXCEPT !.pc = "done", !.out = "ok", !.conn = conn]
<1>1. /\ JobInv(j, stack) /\ TransportInv(transport) /\ j.pc = "finish" /\ Fetching(j)
      /\ HasFields(j, JobFields) /\ HasFields(j.r, RequestFields) /\ (j.r.tunnel => j.r.protocol = 1)
      /\ EarnedBy(j.conn, j.r) /\ Delivered(j)
  BY DEF GatewayInv, Finish, JobInv, Going, Fetching, Connected, Basics
<1>2. /\ Becomes(t, k)
      /\ transport' = Put(transport, PoolKey(j.r), conn) \/ UNCHANGED transport
  BY DEF Finish
<1>3. /\ HasFields(conn, ConnectionFields) /\ conn.host = j.conn.host /\ conn.at = j.conn.at
      /\ conn.port = j.conn.port /\ conn.server = j.conn.server /\ conn.interim = j.conn.interim
      /\ conn.backlog = j.conn.backlog
  BY <1>1 DEF EarnedBy, Earned, HasFields, ConnectionFields
<1>4. /\ HasFields(k, JobFields) /\ k.pc = "done" /\ k.out = "ok" /\ k.conn = conn /\ k.r = j.r
      /\ k.q = j.q /\ k.heard = j.heard /\ k.body = j.body /\ k.spilt = j.spilt /\ k.reply = j.reply
      /\ k.pooled = j.pooled
  BY <1>1 DEF HasFields, JobFields
<1>. HIDE DEF j, conn, k
<1>5. EarnedBy(conn, j.r)
  BY <1>1, <1>3 DEF EarnedBy, Earned
<1>6. TransportInv(transport')
  BY <1>1, <1>2, <1>5, PutKeeps
<1>7. Basics(k, stack) /\ FetchInv(k, stack)
  BY <1>1, <1>4, SameFetch
<1>8. Delivered(k)
  BY <1>1, <1>3, <1>4 DEF Delivered, Begun, ReplyBody
<1>9. JobInv(k, stack)
  BY <1>1, <1>3, <1>4, <1>5, <1>7, <1>8 DEF JobInv, Going, Fetching, Connected, Asking, Done, Ok
<1>. QED BY <1>2, <1>6, <1>9 DEF Keeps

-----------------------------------------------------------------------------
(* The cache: its order lists its keys, each once, so that the cache never *)
(* holds more than it may.                                                 *)

(* The recursion of Retained has a solution. *)
LEMMA RetainedIs ==
  ASSUME NEW K, NEW order \in Seq(K), NEW S
  PROVE  \E kept :
           /\ kept[0] = << >>
           /\ \A i \in 1 .. Len(order) :
                kept[i] = IF order[i] \in S THEN Append(kept[i - 1], order[i]) ELSE kept[i - 1]
           /\ Retained(order, S) = kept[Len(order)]
<1>. DEFINE n == Len(order)
            More(s, i) == IF order[i] \in S THEN Append(s, order[i]) ELSE s
            KeptAt(f, i) == IF i = 0 THEN << >> ELSE More(f[i - 1], i)
            Solves(f, m) == f = [i \in 0 .. m |-> KeptAt(f, i)]
            Solved == {m \in 0 .. n : \E f : Solves(f, m)}
            kept == CHOOSE f : Solves(f, n)
<1>1. n \in Nat
  OBVIOUS
<1>2. 0 \in Solved
  <2>. DEFINE f == [i \in 0 .. 0 |-> << >>]
  <2>1. \A i \in 0 .. 0 : KeptAt(f, i) = << >>
    OBVIOUS
  <2>2. f = [i \in 0 .. 0 |-> KeptAt(f, i)]
    <3>. HIDE DEF KeptAt
    <3>. QED BY <2>1
  <2>3. Solves(f, 0)
    BY <2>2
  <2>. HIDE DEF f, Solves
  <2>. QED BY <1>1, <2>3
<1>3. ASSUME NEW m \in 1 .. n, m - 1 \in Solved PROVE m \in Solved
  <2>. HIDE DEF More
  <2>1. PICK f : Solves(f, m - 1)
    BY <1>3
  <2>0. f = [i \in 0 .. (m - 1) |-> KeptAt(f, i)]
    BY <2>1
  <2>. DEFINE g == [i \in 0 .. m |-> IF i = m THEN KeptAt(f, m) ELSE f[i]]
  <2>2. ASSUME NEW i \in 0 .. m PROVE g[i] = KeptAt(g, i)
    <3>0. m \in Nat /\ i \in Nat
      BY <1>1
    <3>1. CASE i = 0
      BY <2>0, <3>0, <3>1
    <3>2. CASE i # 0
      <4>1. g[i - 1] = f[i - 1]
        BY <3>0, <3>2
      <4>2. g[i] = KeptAt(f, i)
        <5>1. CASE i = m
          BY <5>1
        <5>2. CASE i # m
          <6>1. i \in 0 .. (m - 1) /\ g[i] = f[i]
            BY <3>0, <5>2
          <6>. HIDE DEF g, KeptAt
          <6>. QED BY <2>0, <6>1
        <5>. QED BY <5>1, <5>2
      <4>. HIDE DEF g
      <4>. QED BY <3>2, <4>1, <4>2
    <3>. QED BY <3>1, <3>2
  <2>3. Solves(g, m)
    <3>1. g = [i \in 0 .. m |-> g[i]]
      OBVIOUS
    <3>. HIDE DEF g, KeptAt
    <3>. QED BY <2>2, <3>1
  <2>. HIDE DEF g, Solves
  <2>. QED BY <1>1, <2>3
<1>4. n \in Solved
  <2>. HIDE DEF Solved, n
  <2>1. \A m \in 1 .. n : m - 1 \in Solved => m \in Solved
    BY <1>3
  <2>2. \A m \in 0 .. n : m \in Solved
    BY ONLY <1>1, <1>2, <2>1, UpTo
  <2>. QED BY <1>1, <2>2
<1>5. Solves(kept, n)
  <2>. HIDE DEF Solves
  <2>. QED BY <1>4
<1>6. Retained(order, S) = kept[n]
  BY DEF Retained
<1>. HIDE DEF kept
<1>7. kept = [i \in 0 .. n |-> KeptAt(kept, i)]
  BY <1>5
<1>8. \A i \in 0 .. n : kept[i] = KeptAt(kept, i)
  <2>. HIDE DEF KeptAt
  <2>. QED BY <1>7
<1>9. kept[0] = << >> /\ \A i \in 1 .. n : kept[i] = More(kept[i - 1], i)
  <2>. HIDE DEF More
  <2>. QED BY <1>1, <1>8
<1>. QED BY <1>6, <1>9

LEMMA AppendFacts ==
  ASSUME NEW K, NEW s \in Seq(K), NEW x \in K
  PROVE  /\ Append(s, x) \in Seq(K) /\ Listed(Append(s, x)) = Listed(s) \cup {x}
         /\ Distinct(s) /\ x \notin Listed(s) => Distinct(Append(s, x))
<1>. DEFINE n == Append(s, x)
<1>1. /\ n \in Seq(K) /\ Len(n) = Len(s) + 1 /\ Len(s) \in Nat /\ DOMAIN s = 1 .. Len(s)
      /\ DOMAIN n = 1 .. (Len(s) + 1) /\ \A i \in 1 .. Len(s) : n[i] = s[i]
      /\ n[Len(s) + 1] = x
  BY AppendProperties, LenProperties
<1>. HIDE DEF n
<1>2. Listed(n) \subseteq Listed(s) \cup {x}
  BY <1>1 DEF Listed
<1>3. Listed(s) \subseteq Listed(n) /\ x \in Listed(n)
  BY <1>1 DEF Listed
<1>4. ASSUME Distinct(s), x \notin Listed(s) PROVE Distinct(n)
  BY <1>1, <1>4 DEF Distinct, Listed
<1>. QED BY <1>1, <1>2, <1>3, <1>4 DEF n

(* What retain leaves of an order: its keys that are in S, and none of     *)
(* them more often than before.                                            *)
LEMMA RetainedFacts ==
  ASSUME NEW K, NEW order \in Seq(K), NEW S
  PROVE  /\ Retained(order, S) \in Seq(K)
         /\ Listed(Retained(order, S)) = Listed(order) \cap S
         /\ Distinct(order) => Distinct(Retained(order, S))
<1>1. PICK kept :
        /\ kept[0] = << >>
        /\ \A i \in 1 .. Len(order) :
             kept[i] = IF order[i] \in S THEN Append(kept[i - 1], order[i]) ELSE kept[i - 1]
        /\ Retained(order, S) = kept[Len(order)]
  BY RetainedIs
<1>. DEFINE n == Len(order)
            First(m) == {order[i] : i \in 1 .. m} \cap S
            Good(m) == /\ kept[m] \in Seq(K) /\ Listed(kept[m]) = First(m)
                       /\ Distinct(order) => Distinct(kept[m])
            G == {m \in 0 .. n : Good(m)}
<1>2. n \in Nat /\ DOMAIN order = 1 .. n /\ \A i \in 1 .. n : order[i] \in K
  BY LenProperties, ElementOfSeq
<1>3. 0 \in G
  <2>1. << >> \in Seq(K) /\ Listed(<< >>) = {} /\ Distinct(<< >>)
    BY DEF Listed, Distinct
  <2>2. First(0) = {}
    OBVIOUS
  <2>3. Good(0) /\ 0 \in 0 .. n
    BY <1>1, <1>2, <2>1, <2>2
  <2>. HIDE DEF Good
  <2>. QED BY <2>3
<1>4. ASSUME NEW m \in 1 .. n, m - 1 \in G PROVE m \in G
  <2>. DEFINE s == kept[m - 1]
              x == order[m]
  <2>1. s \in Seq(K) /\ Listed(s) = First(m - 1) /\ (Distinct(order) => Distinct(s)) /\ x \in K
    BY <1>2, <1>4
  <2>2. kept[m] = IF x \in S THEN Append(s, x) ELSE s
    BY <1>1
  <2>3. First(m) = First(m - 1) \cup (IF x \in S THEN {x} ELSE {})
    <3>1. m \in Nat /\ 1 .. m = (1 .. (m - 1)) \cup {m}
      BY <1>2
    <3>2. {order[i] : i \in 1 .. m} = {order[i] : i \in 1 .. (m - 1)} \cup {x}
      BY <3>1
    <3>. QED BY <3>2
  <2>4. Distinct(order) => x \notin First(m - 1)
    <3>1. \A i \in 1 .. (m - 1) : i \in 1 .. n /\ i # m
      BY <1>2
    <3>. QED BY <1>2, <3>1 DEF Distinct
  <2>. HIDE DEF s, x, First
  <2>5. CASE x \in S
    <3>1. kept[m] = Append(s, x)
      BY <2>2, <2>5
    <3>2. /\ Append(s, x) \in Seq(K) /\ Listed(Append(s, x)) = Listed(s) \cup {x}
          /\ Distinct(s) /\ x \notin Listed(s) => Distinct(Append(s, x))
      BY <2>1, AppendFacts
    <3>3. Good(m)
      BY <2>1, <2>3, <2>4, <2>5, <3>1, <3>2
    <3>. HIDE DEF Good
    <3>. QED BY <1>2, <3>3
  <2>6. CASE x \notin S
    <3>1. Good(m)
      BY <2>1, <2>2, <2>3, <2>6
    <3>. HIDE DEF Good
    <3>. QED BY <1>2, <3>1
  <2>. QED BY <2>5, <2>6
<1>5. n \in G
  <2>1. n \in Nat
    BY <1>2
  <2>2. \A m \in 1 .. n : m - 1 \in G => m \in G
    BY <1>4
  <2>. HIDE DEF n, G
  <2>3. \A m \in 0 .. n : m \in G
    BY <1>3, <2>1, <2>2, UpTo
  <2>. QED BY <2>1, <2>3
<1>6. {order[i] : i \in 1 .. n} = Listed(order)
  BY <1>2 DEF Listed
<1>. QED BY <1>1, <1>5, <1>6

LEMMA OrdersLength ==
  ASSUME NEW s, NEW S, Orders(s, S)
  PROVE  IsFiniteSet(S) /\ Len(s) \in Nat /\ Cardinality(S) = Len(s)
<1>. DEFINE n == Len(s)
            f == [i \in 1 .. n |-> s[i]]
<1>1. n \in Nat /\ DOMAIN s = 1 .. n
  BY LenProperties DEF Orders, IsSequence
<1>2. S = {s[i] : i \in 1 .. n}
  BY <1>1 DEF Orders, Listed
<1>3. f \in [1 .. n -> S] /\ \A y \in S : \E i \in 1 .. n : f[i] = y
  BY <1>2
<1>4. \A i, j \in 1 .. n : f[i] = f[j] => i = j
  BY <1>1 DEF Orders, Distinct
<1>. HIDE DEF f
<1>5. f \in Surjection(1 .. n, S) /\ f \in Injection(1 .. n, S)
  BY <1>3, <1>4 DEF Surjection, Injection, IsInjective
<1>6. IsFiniteSet(1 .. n) /\ Cardinality(1 .. n) = n
  <2>1. n \in Nat
    BY <1>1
  <2>. HIDE DEF n
  <2>2. 1 \in Int /\ n \in Int
    BY <2>1
  <2>3. IsFiniteSet(1 .. n) /\ Cardinality(1 .. n) = IF 1 > n THEN 0 ELSE n - 1 + 1
    BY <2>2, FS_Interval
  <2>. QED BY <2>1, <2>3
<1>. HIDE DEF n
<1>7. IsFiniteSet(S) /\ (Cardinality(S) = Cardinality(1 .. n) <=> f \in Injection(1 .. n, S))
  BY <1>5, <1>6, FS_Surjection
<1>. QED BY <1>1, <1>5, <1>6, <1>7 DEF n

LEMMA RetainedOrders ==
  ASSUME NEW s, NEW S, Orders(s, S), NEW R
  PROVE  Orders(Retained(s, R), S \cap R)
<1>1. s \in Seq(S)
  BY DEF Orders, IsSequence, Listed
<1>2. /\ Retained(s, R) \in Seq(S)
      /\ Listed(Retained(s, R)) = Listed(s) \cap R
      /\ Distinct(s) => Distinct(Retained(s, R))
  BY <1>1, RetainedFacts
<1>. QED BY <1>2, SequencesAre DEF Orders

(* promote, and the key at the end. *)
LEMMA PromotedOrders ==
  ASSUME NEW s, NEW S, Orders(s, S), NEW k
  PROVE  Orders(Append(Without(s, k), k), S \cup {k})
<1>. DEFINE w == Without(s, k)
            K == S \cup {k}
<1>1. Orders(w, S \ {k})
  <2>1. Orders(Retained(s, S \ {k}), S \cap (S \ {k}))
    BY RetainedOrders
  <2>2. {s[i] : i \in DOMAIN s} = S /\ S \cap (S \ {k}) = S \ {k}
    BY DEF Orders, Listed
  <2>. QED BY <2>1, <2>2 DEF Without
<1>. HIDE DEF w
<1>2. w \in Seq(S \ {k})
  BY <1>1 DEF Orders, IsSequence, Listed
<1>3. w \in Seq(K) /\ k \in K
  BY <1>2
<1>4. /\ Append(w, k) \in Seq(K) /\ Listed(Append(w, k)) = Listed(w) \cup {k}
      /\ Distinct(w) /\ k \notin Listed(w) => Distinct(Append(w, k))
  BY <1>3, AppendFacts
<1>5. (S \ {k}) \cup {k} = K
  OBVIOUS
<1>. HIDE DEF K
<1>6. Orders(Append(w, k), K)
  BY <1>1, <1>4, <1>5, SequencesAre DEF Orders
<1>. QED BY <1>6 DEF K, w

LEMMA KeepOrdered ==
  ASSUME NEW c, Ordered(c), NEW S \in SUBSET Keys(c)
  PROVE  Ordered(Keep(c, S)) /\ Keys(Keep(c, S)) = S
         /\ \A k \in S : Keep(c, S).entries[k] = c.entries[k]
<1>. DEFINE n == Keep(c, S)
<1>1. HasFields(n, CacheFields) /\ n.entries = [k \in S |-> c.entries[k]] /\ n.order = Retained(c.order, S)
  BY DEF Keep, HasFields, CacheFields
<1>. HIDE DEF n
<1>2. Keys(n) = S /\ Keys(c) \cap S = S
  BY <1>1 DEF Keys
<1>3. Orders(Retained(c.order, S), Keys(c) \cap S)
  BY RetainedOrders DEF Ordered
<1>. QED BY <1>1, <1>2, <1>3 DEF Ordered, n

LEMMA GotOrdered ==
  ASSUME NEW c, Ordered(c), NEW k, NEW now
  PROVE  LET n == Got(c, k, now)
         IN Ordered(n) /\ Keys(n) = Live(c, now) /\ \A x \in Keys(n) : n.entries[x] = c.entries[x]
<1>. DEFINE p == Pruned(c, now)
            n == [p EXCEPT !.order = Append(Without(@, k), k)]
            S == Live(c, now)
<1>1. Ordered(p) /\ Keys(p) = S /\ \A x \in S : p.entries[x] = c.entries[x]
  BY KeepOrdered DEF Pruned, Live
<1>2. Got(c, k, now) = IF k \in S THEN n ELSE p
  BY DEF Got, Promoted, Hit
<1>. HIDE DEF p, S
<1>3. CASE k \in S
  <2>1. HasFields(n, CacheFields) /\ n.entries = p.entries /\ n.order = Append(Without(p.order, k), k)
    BY <1>1 DEF Ordered, HasFields, CacheFields
  <2>. HIDE DEF n
  <2>2. Orders(n.order, S \cup {k}) /\ Keys(n) = S /\ S \cup {k} = S
    BY <1>1, <1>3, <2>1, PromotedOrders DEF Ordered, Keys
  <2>3. Ordered(n)
    BY <2>1, <2>2 DEF Ordered
  <2>4. \A x \in S : n.entries[x] = c.entries[x]
    BY <1>1, <2>1
  <2>. QED BY <1>2, <1>3, <2>2, <2>3, <2>4 DEF S
<1>. QED BY <1>1, <1>2, <1>3 DEF S

(* An insertion: the new entry is there, as are the live ones unless one   *)
(* has to go because the cache is full of them.                            *)
LEMMA InsertedOrdered ==
  ASSUME NEW c, Ordered(c), NEW max \in Nat, Cardinality(Keys(c)) <= max,
         NEW k, NEW value, NEW ttl, NEW now
  PROVE  LET n == Inserted(c, k, value, ttl, now, max)
         IN /\ Ordered(n) /\ Cardinality(Keys(n)) <= max
            /\ \A x \in Keys(n) : (x \in Live(c, now) /\ n.entries[x] = c.entries[x])
                                  \/ n.entries[x] = [value |-> value, expires |-> now + ttl]
            /\ \A x \in Live(c, now) \ Keys(n) : Cardinality(Live(c, now)) = max
<1>. DEFINE p == Pruned(c, now)
            S == Live(c, now)
            entry == [value |-> value, expires |-> now + ttl]
            entries == [x \in Keys(p) \cup {k} |-> IF x = k THEN entry ELSE p.entries[x]]
            n == [entries |-> entries, order |-> Append(Without(p.order, k), k)]
            left == Keys(n) \ {Head(n.order)}
            m == IF Cardinality(Keys(n)) > max THEN Keep(n, left) ELSE n
<1>1. /\ Ordered(p) /\ Keys(p) = S /\ S \subseteq Keys(c)
      /\ \A x \in S : p.entries[x] = c.entries[x]
  BY KeepOrdered DEF Pruned, Live
<1>2. Inserted(c, k, value, ttl, now, max) = m
  BY DEF Inserted, Evicted
<1>3. HasFields(n, CacheFields) /\ n.entries = entries /\ n.order = Append(Without(p.order, k), k)
  BY DEF HasFields, CacheFields
<1>. HIDE DEF p, S, entry, n
<1>4. Keys(n) = S \cup {k} /\ \A x \in Keys(n) : (x \in S /\ n.entries[x] = c.entries[x]) \/ n.entries[x] = entry
  BY <1>1, <1>3 DEF Keys
<1>5. Ordered(n)
  BY <1>1, <1>3, <1>4, PromotedOrders DEF Ordered
<1>6. IsFiniteSet(Keys(n)) /\ Cardinality(Keys(n)) = Len(n.order) /\ Len(n.order) \in Nat
  BY <1>5, OrdersLength DEF Ordered
<1>7. IsFiniteSet(Keys(c)) /\ IsFiniteSet(S) /\ Cardinality(S) \in Nat /\ Cardinality(S) <= max
      /\ Cardinality(Keys(n)) <= Cardinality(S) + 1
  <2>1. IsFiniteSet(Keys(c)) /\ Cardinality(Keys(c)) \in Nat
    BY OrdersLength DEF Ordered
  <2>2. IsFiniteSet(S) /\ Cardinality(S) <= Cardinality(Keys(c)) /\ Cardinality(S) \in Nat
    BY <1>1, <2>1, FS_Subset, FS_CardinalityType
  <2>3. Cardinality(S \cup {k}) = IF k \in S THEN Cardinality(S) ELSE Cardinality(S) + 1
    BY <2>2, FS_AddElement
  <2>. QED BY <1>4, <2>1, <2>2, <2>3
<1>8. CASE Cardinality(Keys(n)) > max
  <2>1. Head(n.order) \in Keys(n)
    <3>1. n.order \in Seq(Keys(n)) /\ n.order # << >>
      BY <1>5, <1>6, <1>8, LenProperties, EmptySeq DEF Ordered, Orders, IsSequence, Listed
    <3>. QED BY <3>1, HeadTailProperties
  <2>2. left \in SUBSET Keys(n) /\ Cardinality(left) = Cardinality(Keys(n)) - 1
    BY <1>6, <2>1, FS_RemoveElement
  <2>. HIDE DEF left
  <2>3. Ordered(Keep(n, left)) /\ Keys(Keep(n, left)) = left
        /\ \A x \in left : Keep(n, left).entries[x] = n.entries[x]
    BY <1>5, <2>2, KeepOrdered
  <2>4. m = Keep(n, left)
    BY <1>8
  <2>. HIDE DEF m
  <2>5. Cardinality(left) <= max /\ Cardinality(S) = max
    BY <1>6, <1>7, <1>8, <2>2
  <2>. QED BY <1>2, <1>4, <2>2, <2>3, <2>4, <2>5 DEF S, entry
<1>9. CASE ~(Cardinality(Keys(n)) > max)
  <2>1. m = n /\ Cardinality(Keys(n)) <= max
    BY <1>6, <1>9
  <2>. HIDE DEF m
  <2>. QED BY <1>2, <1>4, <1>5, <2>1 DEF S, entry
<1>. QED BY <1>8, <1>9

-----------------------------------------------------------------------------
(* The steps of the resolution. *)

(* What the invariant says of a job that asks or fetches an address. *)
LEMMA AskingHolds ==
  ASSUME NEW s, NEW j, JobInv(j, s), j.pc \in Asking
  PROVE  Basics(j, s) /\ AskingInv(j) /\ j.body = << >> /\ j.spilt = FALSE
BY DEF JobInv, Going

(* What a job has been answered is all that its further way depends on. *)
LEMMA SameAsk ==
  ASSUME NEW s, NEW j, JobInv(j, s), j.pc \in Asking, NEW k, HasFields(k, JobFields),
         k.q = j.q, k.r = j.r, k.stage = j.stage, k.body = j.body, k.spilt = j.spilt,
         {h \in k.heard : IsAnswer(h.outcome)} = {h \in j.heard : IsAnswer(h.outcome)}
  PROVE  Basics(k, s) /\ AskingInv(k) /\ k.body = << >> /\ k.spilt = FALSE /\ Question(k) = Question(j)
<1>1. Basics(j, s) /\ AskingInv(j) /\ j.body = << >> /\ j.spilt = FALSE
  BY AskingHolds
<1>2. Answers(k) = Answers(j)
  BY DEF Answers
<1>3. NoTlsaYet(j) => NoTlsaYet(k)
  BY DEF NoTlsaYet
<1>4. Basics(k, s) /\ (AddressHeard(j) => AddressHeard(k))
  BY <1>1, <1>2 DEF Basics, AddressHeard
<1>5. Question(k) = Question(j)
  BY DEF Question
<1>. QED BY <1>1, <1>3, <1>4, <1>5 DEF AskingInv

(* No error of a resolver is a success. *)
LEMMA OutcomeErrors ==
  ASSUME NEW resolver \in {Primary, Doh}, NEW q, NEW o \in Outcomes(resolver, q)
  PROVE  o.error # "ok"
BY ResolverAssumption DEF Outcomes, ResolverErrors, FallsBack

LEMMA GotKeeps ==
  ASSUME NEW c, CacheInv(c), NEW k, NEW now
  PROVE  CacheInv(Got(c, k, now))
<1>. DEFINE p == Pruned(c, now)
<1>1. p.entries = [x \in Live(c, now) |-> c.entries[x]] /\ Live(c, now) \subseteq Keys(c)
  BY DEF Pruned, Keep, Live
<1>. HIDE DEF p
<1>2. CacheInv(p)
  BY <1>1 DEF CacheInv, Keys
<1>3. Got(c, k, now) = p \/ Got(c, k, now) = [p EXCEPT !.order = Append(Without(@, k), k)]
  BY DEF Got, Promoted, p
<1>4. HasFields(p, {"entries", "order"})
  BY DEF p, Pruned, Keep, HasFields
<1>5. Keys(Got(c, k, now)) = Keys(p) /\ Got(c, k, now).entries = p.entries
  BY <1>3, <1>4 DEF HasFields, Keys
<1>. QED BY <1>2, <1>5 DEF CacheInv

LEMMA InsertedKeeps ==
  ASSUME NEW c, CacheInv(c), NEW k, NEW value \in Outcomes(Primary, k), NEW ttl, NEW now, NEW max
  PROVE  CacheInv(Inserted(c, k, value, ttl, now, max))
<1>. DEFINE p == Pruned(c, now)
            entry == [value |-> value, expires |-> now + ttl]
            entries == [x \in Keys(p) \cup {k} |-> IF x = k THEN entry ELSE p.entries[x]]
            n == [entries |-> entries, order |-> Append(Without(p.order, k), k)]
            left == Keys(n) \ {Head(n.order)}
<1>1. p.entries = [x \in Live(c, now) |-> c.entries[x]] /\ Live(c, now) \subseteq Keys(c)
  BY DEF Pruned, Keep, Live
<1>2. entry.value = value
  OBVIOUS
<1>3. n.entries = entries
  OBVIOUS
<1>4. Inserted(c, k, value, ttl, now, max) = IF Cardinality(Keys(n)) > max THEN Keep(n, left) ELSE n
  BY DEF Inserted, Evicted
<1>. HIDE DEF p, entry, n
<1>5. CacheInv(n)
  BY <1>1, <1>2, <1>3 DEF CacheInv, Keys
<1>6. Keep(n, left).entries = [x \in left |-> n.entries[x]] /\ left \subseteq Keys(n)
  BY DEF Keep
<1>. HIDE DEF left
<1>7. CacheInv(Keep(n, left))
  BY <1>5, <1>6 DEF CacheInv, Keys
<1>. QED BY <1>4, <1>5, <1>7

LEMMA AcceptKeeps ==
  ASSUME GatewayInv, NEW t \in Threads, NEW q \in Requests[stack.app], Accept(t, q)
  PROVE  Keeps(t)
<1>. DEFINE r == OriginOf(q, served + 1)
            j == [NoJob EXCEPT !.pc = "ask", !.q = q, !.r = r]
<1>1. /\ HasFields(r, RequestFields) /\ r.host = q.host /\ r.protocol = 1
  BY DEF OriginOf, HasFields, RequestFields
<1>2. PICK k \in Admitted(q) : Becomes(t, k)
  BY DEF Accept, Becomes
<1>. HIDE DEF r
<1>3. /\ HasFields(j, JobFields) /\ j.pc = "ask" /\ j.q = q /\ j.r = r /\ j.heard = {}
      /\ j.body = << >> /\ j.spilt = FALSE
      /\ j.stage = "origin"
  BY DEF NoJob, HasFields, JobFields
<1>4. k = j \/ \E e : e # "ok" /\ k = Failed(j, e)
  BY <1>2 DEF Admitted, r
<1>. HIDE DEF j
<1>5. Basics(j, stack) /\ AskingInv(j)
  BY <1>1, <1>3 DEF Basics, AskingInv, Answers, NoTlsaYet
<1>6. JobInv(j, stack)
  BY <1>3, <1>5 DEF JobInv, Fetching, Connected, Asking, Done
<1>7. JobInv(k, stack)
  BY <1>3, <1>4, <1>6, FailedKeeps
<1>8. TransportInv(transport')
  BY DEF Accept, GatewayInv
<1>. QED BY <1>2, <1>7, <1>8 DEF Keeps

LEMMA LookupKeeps ==
  ASSUME GatewayInv, NEW t \in Threads, Lookup(t)
  PROVE  Keeps(t)
<1>. DEFINE j == job[t]
            q == Question(j)
            o == cache.entries[q].value
<1>1. /\ JobInv(j, stack) /\ TransportInv(transport) /\ CacheInv(cache) /\ j.pc = "ask"
      /\ HasFields(j, JobFields) /\ j.pc \in Asking /\ UNCHANGED transport
  BY DEF GatewayInv, Lookup, Asks, JobInv, Asking
<1>2. Basics(j, stack) /\ AskingInv(j) /\ j.body = << >> /\ j.spilt = FALSE
  BY <1>1, AskingHolds
<1>3. CASE Hit(cache, q, clock)
  <2>1. PICK age : \E k \in Resolved(j, o, age) : Becomes(t, k)
    BY <1>3 DEF Lookup
  <2>2. o \in Outcomes(Primary, q)
    BY <1>1, <1>3 DEF Hit, Live, CacheInv
  <2>3. o.error # "ok"
    BY <2>2, OutcomeErrors
  <2>. HIDE DEF o
  <2>. QED BY <1>1, <1>2, <2>1, <2>3, ResolvedKeeps DEF Keeps
<1>4. CASE ~Hit(cache, q, clock)
  <2>. DEFINE k == [j EXCEPT !.pc = "inner"]
  <2>1. Becomes(t, k)
    BY <1>4 DEF Lookup
  <2>2. /\ HasFields(k, JobFields) /\ k.pc = "inner" /\ k.q = j.q /\ k.r = j.r /\ k.stage = j.stage
        /\ k.body = j.body /\ k.spilt = j.spilt /\ k.heard = j.heard
    BY <1>1 DEF HasFields, JobFields
  <2>. HIDE DEF k
  <2>3. Basics(k, stack) /\ AskingInv(k) /\ k.body = << >> /\ k.spilt = FALSE
    BY <1>1, <2>2, SameAsk
  <2>4. JobInv(k, stack)
    BY <2>2, <2>3 DEF JobInv, Fetching, Connected, Done
  <2>. QED BY <1>1, <2>1, <2>4 DEF Keeps
<1>. QED BY <1>3, <1>4

LEMMA InnerKeeps ==
  ASSUME GatewayInv, NEW t \in Threads, Inner(t)
  PROVE  Keeps(t)
<1>. DEFINE j == job[t]
            q == Question(j)
<1>1. /\ JobInv(j, stack) /\ TransportInv(transport) /\ j.pc = "inner"
      /\ HasFields(j, JobFields) /\ j.pc \in Asking /\ UNCHANGED transport
  BY DEF GatewayInv, Inner, JobInv, Asking
<1>2. Basics(j, stack) /\ AskingInv(j) /\ j.body = << >> /\ j.spilt = FALSE
  BY <1>1, AskingHolds
<1>3. PICK o \in Outcomes(Primary, q) :
        IF IsAnswer(o) \/ o.error = "NameNotFound"
        THEN Becomes(t, [j EXCEPT !.pc = "insert", !.pending = o])
        ELSE \E k \in Resolved(j, o, 0) : Becomes(t, k)
  BY DEF Inner
<1>4. o.error # "ok"
  BY OutcomeErrors
<1>5. CASE \E k \in Resolved(j, o, 0) : Becomes(t, k)
  BY <1>1, <1>2, <1>4, <1>5, ResolvedKeeps DEF Keeps
<1>6. CASE Becomes(t, [j EXCEPT !.pc = "insert", !.pending = o])
  <2>. DEFINE k == [j EXCEPT !.pc = "insert", !.pending = o]
  <2>1. /\ HasFields(k, JobFields) /\ k.pc = "insert" /\ k.q = j.q /\ k.r = j.r /\ k.stage = j.stage
        /\ k.body = j.body /\ k.spilt = j.spilt /\ k.heard = j.heard /\ k.pending = o
    BY <1>1 DEF HasFields, JobFields
  <2>2. Becomes(t, k)
    BY <1>6
  <2>. HIDE DEF k
  <2>3. Basics(k, stack) /\ AskingInv(k) /\ k.body = << >> /\ k.spilt = FALSE /\ Question(k) = q
    BY <1>1, <2>1, SameAsk
  <2>4. JobInv(k, stack)
    BY <2>1, <2>3 DEF JobInv, Fetching, Connected, Done
  <2>. QED BY <1>1, <2>2, <2>4 DEF Keeps
<1>. QED BY <1>3, <1>5, <1>6

LEMMA InsertKeeps ==
  ASSUME GatewayInv, NEW t \in Threads, Insert(t)
  PROVE  Keeps(t) /\ CacheInv(cache')
<1>. DEFINE j == [job[t] EXCEPT !.pending = << >>]
            o == job[t].pending
            q == Question(job[t])
<1>1. /\ JobInv(job[t], stack) /\ TransportInv(transport) /\ CacheInv(cache) /\ job[t].pc = "insert"
      /\ HasFields(job[t], JobFields) /\ job[t].pc \in Asking /\ UNCHANGED transport
      /\ o \in Outcomes(Primary, q)
  BY DEF GatewayInv, Insert, JobInv, Asking
<1>2. /\ cache' = Inserted(cache, Question(j), o, Ttl, clock, MaxEntries)
      /\ \E k \in Resolved(j, o, 0) : Becomes(t, k)
  BY DEF Insert
<1>3. /\ HasFields(j, JobFields) /\ j.q = job[t].q /\ j.r = job[t].r /\ j.stage = job[t].stage
      /\ j.body = job[t].body /\ j.spilt = job[t].spilt /\ j.heard = job[t].heard
  BY <1>1 DEF HasFields, JobFields
<1>. HIDE DEF j
<1>4. Basics(j, stack) /\ AskingInv(j) /\ j.body = << >> /\ j.spilt = FALSE /\ Question(j) = q
  BY <1>1, <1>3, SameAsk
<1>5. o.error # "ok"
  BY <1>1, OutcomeErrors
<1>6. CacheInv(cache')
  BY <1>1, <1>2, <1>4, InsertedKeeps
<1>. QED BY <1>1, <1>2, <1>4, <1>5, <1>6, ResolvedKeeps DEF Keeps

LEMMA LookedFields ==
  ASSUME NEW j, HasFields(j, JobFields), NEW o
  PROVE  LET k == Looked(j, o)
         IN /\ HasFields(k, JobFields) /\ k.q = j.q /\ k.r = j.r /\ k.stage = j.stage
            /\ k.body = j.body /\ k.spilt = j.spilt /\ k.heard = j.heard
  BY DEF Looked, HasFields, JobFields

LEMMA AskDohKeeps ==
  ASSUME GatewayInv, NEW t \in Threads, AskDoh(t)
  PROVE  Keeps(t)
<1>. DEFINE j == job[t]
<1>1. /\ JobInv(j, stack) /\ TransportInv(transport) /\ HasFields(j, JobFields)
      /\ j.pc \in Asking /\ UNCHANGED transport
  BY DEF GatewayInv, AskDoh, Asks, JobInv, Asking
<1>2. PICK o \in Outcomes(Doh, Question(j)) : \E k \in Resolved(Looked(j, o), o, 0) : Becomes(t, k)
  BY DEF AskDoh
<1>. DEFINE n == Looked(j, o)
<1>3. /\ HasFields(n, JobFields) /\ n.q = j.q /\ n.r = j.r /\ n.stage = j.stage
      /\ n.body = j.body /\ n.spilt = j.spilt /\ n.heard = j.heard
  BY <1>1, LookedFields
<1>4. \E k \in Resolved(n, o, 0) : Becomes(t, k)
  BY <1>2
<1>. HIDE DEF n
<1>5. Basics(n, stack) /\ AskingInv(n) /\ n.body = << >> /\ n.spilt = FALSE
  BY <1>1, <1>3, SameAsk
<1>6. o.error # "ok"
  BY OutcomeErrors
<1>. QED BY <1>1, <1>4, <1>5, <1>6, ResolvedKeeps DEF Keeps

LEMMA AskPrimaryKeeps ==
  ASSUME GatewayInv, NEW t \in Threads, AskPrimary(t)
  PROVE  Keeps(t)
<1>. DEFINE j == job[t]
<1>1. /\ JobInv(j, stack) /\ TransportInv(transport) /\ HasFields(j, JobFields)
      /\ j.pc \in Asking /\ UNCHANGED transport
  BY DEF GatewayInv, AskPrimary, Asks, JobInv, Asking
<1>2. PICK o \in Outcomes(Primary, Question(j)) :
        LET n == Looked(j, o)
            h == [question |-> Question(n), age |-> 0, outcome |-> o]
        IN IF o.error \in FallsBack /\ ~n.q.strict
           THEN Becomes(t, [Marked(n, o.error) EXCEPT !.pc = "doh", !.heard = @ \cup {h}])
           ELSE \E k \in Resolved(n, o, 0) : Becomes(t, k)
  BY DEF AskPrimary
<1>. DEFINE n == Looked(j, o)
            h == [question |-> Question(n), age |-> 0, outcome |-> o]
            k == [Marked(n, o.error) EXCEPT !.pc = "doh", !.heard = @ \cup {h}]
<1>3. /\ HasFields(n, JobFields) /\ n.q = j.q /\ n.r = j.r /\ n.stage = j.stage
      /\ n.body = j.body /\ n.spilt = j.spilt /\ n.heard = j.heard
  BY <1>1, LookedFields
<1>4. (o.error \in FallsBack /\ Becomes(t, k)) \/ \E m \in Resolved(n, o, 0) : Becomes(t, m)
  BY <1>2
<1>5. h.outcome = o
  OBVIOUS
<1>. HIDE DEF n, h
<1>6. CASE \E m \in Resolved(n, o, 0) : Becomes(t, m)
  <2>1. Basics(n, stack) /\ AskingInv(n) /\ n.body = << >> /\ n.spilt = FALSE
    BY <1>1, <1>3, SameAsk
  <2>2. o.error # "ok"
    BY OutcomeErrors
  <2>. QED BY <1>1, <1>6, <2>1, <2>2, ResolvedKeeps DEF Keeps
<1>7. CASE o.error \in FallsBack /\ Becomes(t, k)
  <2>1. /\ HasFields(k, JobFields) /\ k.pc = "doh" /\ k.q = j.q /\ k.r = j.r /\ k.stage = j.stage
        /\ k.body = j.body /\ k.spilt = j.spilt /\ k.heard = j.heard \cup {h}
    BY <1>3 DEF HasFields, JobFields, Marked
  <2>2. ~IsAnswer(h.outcome)
    BY <1>5, <1>7 DEF IsAnswer, FallsBack
  <2>3. Becomes(t, k)
    BY <1>7
  <2>. HIDE DEF k
  <2>4. {x \in k.heard : IsAnswer(x.outcome)} = {x \in j.heard : IsAnswer(x.outcome)}
    BY <2>1, <2>2
  <2>5. Basics(k, stack) /\ AskingInv(k) /\ k.body = << >> /\ k.spilt = FALSE
    BY <1>1, <2>1, <2>4, SameAsk
  <2>6. JobInv(k, stack)
    BY <2>1, <2>5 DEF JobInv, Fetching, Connected, Done
  <2>. QED BY <1>1, <2>3, <2>6 DEF Keeps
<1>. QED BY <1>4, <1>6, <1>7

-----------------------------------------------------------------------------
(* Every step of every thread keeps its job and what is shared sound, and  *)
(* touches no other thread's job.                                          *)
LEMMA StepKeeps ==
  ASSUME GatewayInv, NEW t \in Threads,
         Step(t) \/ \E q \in Requests[App] : AcceptHttp(t, q) \/ AcceptUpgrade(t, q)
  PROVE  Keeps(t) /\ CacheInv(cache') /\ UNCHANGED stack
<1>1. CASE \E q \in Requests[App] : AcceptHttp(t, q) \/ AcceptUpgrade(t, q)
  BY <1>1, AcceptKeeps DEF App, AcceptHttp, AcceptUpgrade, Accept, GatewayInv
<1>2. CASE Lookup(t)
  BY <1>2, LookupKeeps, GotKeeps DEF Lookup, GatewayInv
<1>3. CASE Inner(t)
  BY <1>3, InnerKeeps DEF Inner, GatewayInv
<1>4. CASE Insert(t)
  BY <1>4, InsertKeeps DEF Insert
<1>5. CASE AskPrimary(t)
  BY <1>5, AskPrimaryKeeps DEF AskPrimary, GatewayInv
<1>6. CASE AskDoh(t)
  BY <1>6, AskDohKeeps DEF AskDoh, GatewayInv
<1>7. CASE Start(t)
  BY <1>7, StartKeeps DEF Start, GatewayInv
<1>8. CASE Connect(t)
  BY <1>8, ConnectKeeps DEF Connect, GatewayInv
<1>9. CASE Lost(t)
  BY <1>9, LostKeeps DEF Lost, GatewayInv
<1>10. CASE Finish(t)
  BY <1>10, FinishKeeps DEF Finish, GatewayInv
<1>11. CASE \E reply \in Replies[job[t].q.host] : Reply(t, reply)
  <2>1. PICK reply \in Replies[job[t].q.host] : Reply(t, reply)
    BY <1>11
  <2>2. CASE Exchange(t, reply)
    BY <2>2, ExchangeKeeps DEF Exchange, GatewayInv
  <2>3. CASE ExchangeFrames(t, reply)
    BY <2>3, ExchangeFramesKeeps DEF ExchangeFrames, GatewayInv
  <2>4. CASE Upgrade(t, reply)
    BY <2>4, UpgradeKeeps DEF Upgrade, GatewayInv
  <2>. QED BY <2>1, <2>2, <2>3, <2>4 DEF Reply
<1>. QED BY <1>1, <1>2, <1>3, <1>4, <1>5, <1>6, <1>7, <1>8, <1>9, <1>10, <1>11 DEF Step

LEMMA InitSound ==
  ASSUME Init
  PROVE  GatewayInv
<1>1. HasFields(NoJob, JobFields) /\ NoJob.pc = "idle"
  BY DEF NoJob, HasFields, JobFields
<1>2. JobInv(NoJob, stack)
  BY <1>1 DEF JobInv, Going, Fetching, Connected, Asking, Done
<1>3. /\ HasFields(NewTransport, TransportFields) /\ NewTransport.pool = << >>
      /\ NewTransport.sessions = {}
  BY DEF NewTransport, HasFields, TransportFields
<1>4. TransportInv(NewTransport)
  BY <1>3 DEF TransportInv
<1>5. CacheInv(EmptyCache)
  BY DEF CacheInv, EmptyCache, Keys
<1>. QED BY <1>2, <1>4, <1>5 DEF Init, GatewayInv

LEMMA NextSound ==
  ASSUME GatewayInv, [Next]_vars
  PROVE  GatewayInv'
<1>1. ASSUME NEW t \in Threads,
             Step(t) \/ \E q \in Requests[App] : AcceptHttp(t, q) \/ AcceptUpgrade(t, q)
      PROVE  GatewayInv'
  <2>1. Keeps(t) /\ CacheInv(cache') /\ UNCHANGED stack
    BY <1>1, StepKeeps
  <2>2. PICK k : JobInv(k, stack) /\ Becomes(t, k)
    BY <2>1 DEF Keeps
  <2>3. job' = [u \in Threads |-> IF u = t THEN k ELSE job[u]]
    BY <2>2 DEF Becomes, GatewayInv
  <2>4. \A u \in Threads : JobInv(job'[u], stack')
    BY <2>1, <2>2, <2>3 DEF GatewayInv
  <2>5. job' = [u \in Threads |-> job'[u]]
    BY <2>3
  <2>. QED BY <2>1, <2>4, <2>5 DEF GatewayInv, Keeps
<1>2. ASSUME UNCHANGED <<stack, cache, transport, job>> PROVE GatewayInv'
  BY <1>2 DEF GatewayInv
<1>. QED BY <1>1, <1>2 DEF Next, Tick, Tunnelling, Closing, vars

(* What a job has heard, what a connection was opened for, what the pool   *)
(* and the cache hold, at every moment, in both stacks.                    *)
THEOREM GatewayInvariant == Spec => []GatewayInv
<1>1. Init => GatewayInv
  BY InitSound
<1>2. GatewayInv /\ [Next]_vars => GatewayInv'
  BY NextSound
<1>. QED BY <1>1, <1>2, PTL DEF Spec

(* The policy of an answer that came over TLS is what was heard of the     *)
(* host and port that it came from.                                        *)
LEMMA PolicyIs ==
  ASSUME GatewayInv, NEW t \in Threads, Done(job[t]), Ok(job[t]), Secured(job[t].r)
  PROVE  LET j == job[t]
         IN \E list :
              /\ DOMAIN list \subseteq Nat /\ \A i \in DOMAIN list : Parsable(list[i])
              /\ HeardTlsa(j) = {list[i] : i \in DOMAIN list} /\ (list = << >> <=> HeardTlsa(j) = {})
              /\ \E o : /\ HeardOf(j, TlsaQuestion(j.r)) = {o}
                        /\ j.r.tls = [mode |-> stack.https, secure |-> o.secure, tlsa |-> list]
<1>. DEFINE j == job[t]
            question == TlsaQuestion(j.r)
<1>1. Basics(j, stack) /\ FetchInv(j, stack) /\ EarnedBy(j.conn, j.r)
  BY DEF GatewayInv, JobInv, Going, Fetching, Connected
<1>2. question = [name |-> TlsaOwner(j.q.host, j.conn.port), type |-> "TLSA"]
  BY <1>1 DEF TlsaQuestion, Basics, EarnedBy, Earned
<1>3. PICK o \in HeardOf(j, question) :
        /\ HeardOf(j, question) = {o}
        /\ \E list \in TlsaLists(o.records, question.name) :
             /\ j.r.tls = [mode |-> stack.https, secure |-> o.secure, tlsa |-> list]
             /\ \A i \in DOMAIN list : Parsable(list[i])
  BY <1>1 DEF FetchInv, PolicyHeard
<1>4. PICK list \in TlsaLists(o.records, question.name) :
        /\ j.r.tls = [mode |-> stack.https, secure |-> o.secure, tlsa |-> list]
        /\ \A i \in DOMAIN list : Parsable(list[i])
  BY <1>3
<1>. DEFINE data == {r.data : r \in Of(o.records, question.name, "TLSA")}
<1>5. HeardTlsa(j) = data
  BY <1>2, <1>3 DEF HeardTlsa
<1>. HIDE DEF question
<1>6. PICK n : list \in [1 .. n -> data] /\ {list[i] : i \in 1 .. n} = data
  BY <1>4 DEF TlsaLists
<1>7. DOMAIN list \subseteq Nat /\ data = {list[i] : i \in DOMAIN list}
  BY <1>6
<1>. HIDE DEF data, j
<1>8. list = << >> <=> data = {}
  BY <1>6, EmptyList
<1>. QED BY <1>3, <1>4, <1>5, <1>7, <1>8 DEF j, question

(* An answer comes from an origin that the host's own answers allow: an    *)
(* address they gave, and a certificate that a TLSA record heard for that  *)
(* host and port matches, or WebPKI where none was and the gateway is not  *)
(* strict (resolve_origin_request, take_pooled_http11, verify_server_cert).*)
THEOREM OriginsAreTrusted == Spec => []TrustedOrigins
<1>1. ASSUME GatewayInv PROVE TrustedOrigins
  <2>1. SUFFICES ASSUME NEW t \in Threads, Done(job[t]), Ok(job[t])
                 PROVE  LET j == job[t]
                            answers == {h.outcome : h \in {h \in j.heard : IsAnswer(h.outcome)}}
                            tlsa == HeardTlsa(j)
                        IN /\ j.conn.at \in UNION {ResolvedAddresses(o.records, j.q.host) : o \in answers}
                           /\ stack.secure => \A o \in answers : o.secure
                           /\ Secured(j.r) =>
                                /\ tlsa # {} => /\ \E r \in tlsa : Matches(r, j.conn.server)
                                                /\ \A o \in HeardOf(j, [name |-> TlsaOwner(j.q.host, j.conn.port), type |-> "TLSA"]) : o.secure
                                /\ tlsa = {} => j.conn.server.webpki /\ stack.https = "compat"
    BY DEF TrustedOrigins
  <2>. DEFINE j == job[t]
              question == TlsaQuestion(j.r)
  <2>2. /\ Basics(j, stack) /\ FetchInv(j, stack) /\ EarnedBy(j.conn, j.r)
    BY <1>1, <2>1 DEF GatewayInv, JobInv, Going, Fetching, Connected
  <2>3. j.conn.at \in UNION {ResolvedAddresses(o.records, j.q.host) : o \in Answers(j)}
    BY <2>2 DEF FetchInv, AddressHeard, EarnedBy, Earned
  <2>4. stack.secure => \A o \in Answers(j) : o.secure
    BY <2>2 DEF Basics
  <2>5. question = [name |-> TlsaOwner(j.q.host, j.conn.port), type |-> "TLSA"]
    BY <2>2 DEF TlsaQuestion, Basics, EarnedBy, Earned
  <2>6. ASSUME Secured(j.r)
        PROVE  /\ HeardTlsa(j) # {} => /\ \E r \in HeardTlsa(j) : Matches(r, j.conn.server)
                                       /\ \A o \in HeardOf(j, question) : o.secure
               /\ HeardTlsa(j) = {} => j.conn.server.webpki /\ stack.https = "compat"
    <3>1. PICK list :
            /\ DOMAIN list \subseteq Nat
            /\ HeardTlsa(j) = {list[i] : i \in DOMAIN list} /\ (list = << >> <=> HeardTlsa(j) = {})
            /\ \E o : /\ HeardOf(j, question) = {o}
                      /\ j.r.tls = [mode |-> stack.https, secure |-> o.secure, tlsa |-> list]
      BY <1>1, <2>1, <2>6, PolicyIs
    <3>2. PICK o : /\ HeardOf(j, question) = {o}
                   /\ j.r.tls = [mode |-> stack.https, secure |-> o.secure, tlsa |-> list]
      BY <3>1
    <3>3. Trusts(PolicyDecision(stack.https, o.secure, list, j.conn.server.chain, j.conn.server.webpki))
      BY <2>2, <2>6, <3>2 DEF EarnedBy, Earned
    <3>4. IF list = << >> THEN stack.https # "strict" /\ j.conn.server.webpki
          ELSE o.secure /\ \E i \in DOMAIN list : Matches(list[i], j.conn.server)
      BY <3>1, <3>3, TrustRestsOnMatch
    <3>5. stack.https \in {"strict", "compat"}
      BY <1>1, GatewayAssumption DEF GatewayInv
    <3>. HIDE DEF j, question
    <3>. QED BY <3>1, <3>2, <3>4, <3>5
  <2>. QED BY <2>3, <2>4, <2>5, <2>6 DEF Answers
<1>. QED BY <1>1, GatewayInvariant, PTL

-----------------------------------------------------------------------------
(* What a step hears. *)

\* An answer as CacheSound has it of what is heard.
Fresh(h) == (h.age = 0 \/ h.age < Ttl) /\ h.outcome \in Outcomes(Primary, h.question)

(* What a job of the app has to tell.  It is marked by its first outcome    *)
(* that sends it to DNS over HTTPS, and from what that one records on      *)
(* lookups has an event of DNS over HTTPS just when it is marked.          *)
Event == [protocol : {"udp53", "tcp53", "doh"}, status : Statuses]
Recorded(lookups, o) == o.events # << >> => \E i \in DOMAIN lookups : lookups[i] = o.events[1]
ToDoh(j) == \E o \in Outcomes(Primary, Question(j)) : o.error \in FallsBack
SaysAbsent(h) == h.outcome.error = "NameNotFound" /\ h.outcome \in Outcomes(Primary, h.question)

Told(j) ==
  /\ j.lookups \in Seq(Event)
  /\ j.fell # "none" => ~j.q.strict
  /\ IF j.pc = "doh" THEN j.fell # "none" /\ ToDoh(j) ELSE j.fell # "none" <=> DohAsked(j)
  /\ j.pc \notin {"inner", "insert"}
  /\ j.out = "NameNotFound" => \E h \in j.heard : SaysAbsent(h)
  /\ \A h \in j.heard : Recorded(j.lookups, h.outcome)

\* t's job becomes one that has heard nothing more but what is fresh, and
\* in the app one that can tell what happened to it.
HearsFresh(t) ==
  \E k : /\ Becomes(t, k) /\ Typed(k)
         /\ \A h \in k.heard \ job[t].heard : ~App => Fresh(h)
         /\ App => Told(k)

Under(j) == Typed(j) /\ ~Done(j)

\* Every job of the app can tell.
Stories == App => \A t \in Threads : Told(job[t])

\* Errors that say nothing about what a resolver said.
Others == Errors \ {"none", "ok", "NameNotFound"}

(* A job that has moved on, told nothing in between; one that has not got  *)
(* to the fetch's connection, or failed.                                   *)
SameStory(j, k) == k.q = j.q /\ k.heard = j.heard /\ k.fell = j.fell /\ k.lookups = j.lookups
Moved(j, k) ==
  Typed(k) /\ SameStory(j, k) /\ k.out # "NameNotFound" /\ k.pc \notin {"doh", "inner", "insert"}
Same(j, k) ==
  /\ Moved(j, k) /\ k.pooled = j.pooled /\ k.out # "ok"
  /\ k.pc \notin {"idle", "connect", "exchange", "finish"}

(* What becomes of a job that fails. *)
LEMMA FailedIs ==
  ASSUME NEW j, Under(j), NEW error \in Errors \ {"none"}
  PROVE  LET k == Failed(j, error)
         IN Typed(k) /\ SameStory(j, k) /\ k.out = error /\ k.pc = "done" /\ k.pooled = j.pooled
<1>. DEFINE k == Failed(j, error)
<1>1. /\ HasFields(k, JobFields) /\ k.pc = "done" /\ k.out = error
      /\ k.stage = j.stage /\ k.pooled = j.pooled /\ SameStory(j, k)
  BY DEF Failed, HasFields, JobFields, Under, Typed, SameStory
<1>. HIDE DEF k
<1>2. Typed(k)
  BY <1>1 DEF Typed, Under, Done
<1>. QED BY <1>1, <1>2 DEF k

LEMMA FailedHears ==
  ASSUME NEW j, Under(j), NEW error \in Others
  PROVE  Same(j, Failed(j, error))
BY FailedIs DEF Others, Same, Moved

(* A job goes on, whatever else of it changes. *)
LEMMA GoingOn ==
  ASSUME NEW j, Under(j), NEW k, HasFields(k, JobFields), SameStory(j, k), k.stage = j.stage, k.out = j.out,
         k.pc \in {"ask", "fetch", "connect", "exchange", "finish"}
  PROVE  Moved(j, k) /\ Under(k)
BY DEF Moved, Typed, Under, Done

LEMMA AtStageHears ==
  ASSUME NEW j, Under(j), NEW stage \in {"origin", "A", "AAAA", "https", "tlsa"}
  PROVE  Same(j, AtStage(j, stage))
<1>. DEFINE k == AtStage(j, stage)
<1>1. /\ HasFields(k, JobFields) /\ k.pc = "ask" /\ k.out = j.out
      /\ k.stage = stage /\ SameStory(j, k) /\ k.pooled = j.pooled
  BY DEF SameStory, AtStage, HasFields, JobFields, Under, Typed
<1>. HIDE DEF k
<1>2. Same(j, k)
  BY <1>1 DEF Same, Moved, Typed, Under, Done
<1>. QED BY <1>2 DEF k

LEMMA BoundHears ==
  ASSUME NEW j, Under(j), NEW service, service.kind \in {"none", "service"} \cup Others
  PROVE  Same(j, Bound(j, service))
<1>. DEFINE k == [j EXCEPT !.r.protocol = service.protocol,
                           !.r.port = IF service.port = 0 THEN @ ELSE service.port]
<1>1. /\ HasFields(k, JobFields) /\ SameStory(j, k) /\ k.pooled = j.pooled
      /\ k.stage = j.stage /\ k.out = j.out /\ k.pc = j.pc
  BY DEF SameStory, HasFields, JobFields, Under, Typed
<1>2. \/ Bound(j, service) \in {AtStage(j, "tlsa"), AtStage(k, "tlsa")}
      \/ service.kind \in Others /\ Bound(j, service) = Failed(j, service.kind)
  BY DEF Bound
<1>. HIDE DEF k
<1>3. Under(k)
  BY <1>1 DEF Under, Typed, Done
<1>4. Same(j, AtStage(k, "tlsa"))
  BY <1>1, <1>3, AtStageHears DEF Same, Moved, SameStory
<1>. QED BY <1>2, <1>4, AtStageHears, FailedHears

LEMMA ServicesAre ==
  ASSUME NEW S, NEW host, NEW supported, NEW service \in HttpsServices(S, host, supported)
  PROVE  service.kind \in {"none", "service"} \cup Others
<1>. DEFINE errors == UNION {BindingError(b, host) : b \in {r.data : r \in Of(S, host, "HTTPS")}}
<1>1. \/ \E e \in errors : service = BadService(e)
      \/ \E n, p : service = [kind |-> "service", protocol |-> n, port |-> p]
      \/ service \in {BadService("UnsupportedSvcb"), NoService}
  BY DEF HttpsServices
<1>2. \A e \in errors : e \in Others
  BY DEF BindingError, Errors, Others, ResolverErrors, FallsBack, Untraced
<1>3. "UnsupportedSvcb" \in Others
  BY DEF Errors, Others
<1>. HIDE DEF errors
<1>. QED BY <1>1, <1>2, <1>3 DEF BadService, NoService

LEMMA AddressedHears ==
  ASSUME NEW j, Under(j), NEW k \in Addressed(j)
  PROVE  Same(j, k)
<1>1. CASE ~Secured(j.r)
  <2>1. k = [j EXCEPT !.pc = "fetch"]
    BY <1>1 DEF Addressed
  <2>2. /\ HasFields(k, JobFields) /\ SameStory(j, k) /\ k.pooled = j.pooled
        /\ k.stage = j.stage /\ k.out = j.out /\ k.pc = "fetch"
    BY <2>1 DEF SameStory, HasFields, JobFields, Under, Typed
  <2>3. k.out # "ok"
    BY <2>2 DEF Under, Typed, Done
  <2>. QED BY <2>2, <2>3, GoingOn DEF Same
<1>2. CASE Secured(j.r)
  <2>1. PICK service \in HttpsServices(j.records, j.r.host, Supported(j)) :
          k = AtStage(j, "https") \/ k = Bound(j, service)
    BY <1>2 DEF Addressed
  <2>2. service.kind \in {"none", "service"} \cup Others
    BY ServicesAre
  <2>. QED BY <2>1, <2>2, AtStageHears, BoundHears
<1>. QED BY <1>1, <1>2

LEMMA WithAddressHears ==
  ASSUME NEW j, Under(j), NEW addresses, NEW k \in WithAddress(j, addresses)
  PROVE  Same(j, k)
<1>1. PICK a : k \in Addressed([j EXCEPT !.r.connect = a])
  BY DEF WithAddress
<1>. DEFINE n == [j EXCEPT !.r.connect = a]
<1>2. /\ HasFields(n, JobFields) /\ SameStory(j, n) /\ n.pooled = j.pooled
      /\ n.stage = j.stage /\ n.out = j.out /\ n.pc = j.pc
  BY DEF SameStory, HasFields, JobFields, Under, Typed
<1>3. k \in Addressed(n)
  BY <1>1
<1>. HIDE DEF n
<1>4. Under(n)
  BY <1>2 DEF Under, Typed, Done
<1>. QED BY <1>2, <1>3, <1>4, AddressedHears DEF Same, Moved, SameStory

LEMMA AfterHears ==
  ASSUME NEW j, Under(j), NEW records, NEW secure, NEW k \in After(j, records, secure)
  PROVE  Same(j, k)
<1>. DEFINE addresses == ResolvedAddresses(records, j.r.host)
            n == [j EXCEPT !.records = records]
<1>1. /\ HasFields(n, JobFields) /\ SameStory(j, n) /\ n.pooled = j.pooled
      /\ n.stage = j.stage /\ n.out = j.out /\ n.pc = j.pc
  BY DEF SameStory, HasFields, JobFields, Under, Typed
<1>2. Under(n)
  <2>. HIDE DEF n
  <2>. QED BY <1>1 DEF Under, Typed, Done
<1>3. "InvalidTlsa" \in Others /\ "NoResolvedAddress" \in Others
  BY DEF Errors, Others
<1>4. CASE j.stage = "tlsa"
  <2>1. PICK list : k = Failed(j, "InvalidTlsa")
                    \/ k = [j EXCEPT !.pc = "fetch",
                                     !.r.tls = [mode |-> stack.https, secure |-> secure, tlsa |-> list]]
    BY <1>4 DEF After
  <2>2. CASE k = Failed(j, "InvalidTlsa")
    BY <1>3, <2>2, FailedHears
  <2>3. CASE k # Failed(j, "InvalidTlsa")
    <3>1. /\ HasFields(k, JobFields) /\ SameStory(j, k) /\ k.pooled = j.pooled
          /\ k.stage = j.stage /\ k.out = j.out /\ k.pc = "fetch"
      BY <2>1, <2>3 DEF SameStory, HasFields, JobFields, Under, Typed
    <3>2. k.out # "ok"
      BY <3>1 DEF Under, Typed, Done
    <3>. QED BY <3>1, <3>2, GoingOn DEF Same
  <2>. QED BY <2>2, <2>3
<1>5. CASE j.stage = "https"
  <2>1. PICK service \in HttpsServices(records, j.r.host, Supported(j)) : k = Bound(j, service)
    BY <1>5 DEF After
  <2>. QED BY <2>1, BoundHears, ServicesAre
<1>6. CASE j.stage \in {"origin", "A", "AAAA"} /\ addresses # {}
  <2>1. k \in WithAddress(n, addresses) \/ k \in WithAddress(j, addresses)
    BY <1>6 DEF After
  <2>. HIDE DEF n, addresses
  <2>. QED BY <1>1, <1>2, <2>1, WithAddressHears DEF Same, Moved, SameStory
<1>7. CASE j.stage \in {"origin", "A", "AAAA"} /\ addresses = {}
  <2>1. k \in {AtStage(n, "A"), AtStage(j, "AAAA"), Failed(j, "NoResolvedAddress")}
    BY <1>7 DEF After
  <2>. HIDE DEF n
  <2>2. Same(j, AtStage(n, "A"))
    BY <1>1, <1>2, AtStageHears DEF Same, Moved, SameStory
  <2>. QED BY <1>3, <2>1, <2>2, AtStageHears, FailedHears
<1>. QED BY <1>4, <1>5, <1>6, <1>7 DEF Under, Typed

LEMMA ResolvedHears ==
  ASSUME NEW j, Under(j), NEW o, o.error \in ResolverErrors \cup {"none"},
         NEW age, NEW k \in Resolved(j, o, age)
  PROVE  /\ Typed(k) /\ k.heard = j.heard \cup {[question |-> Question(j), age |-> age, outcome |-> o]}
         /\ k.q = j.q /\ k.fell = j.fell /\ k.lookups = j.lookups /\ k.pooled = j.pooled
         /\ k.pc \in {"ask", "fetch", "done"}
         /\ k.out # "ok" /\ (k.out = "NameNotFound" => o.error = "NameNotFound")
<1>. DEFINE h == [question |-> Question(j), age |-> age, outcome |-> o]
            n == [j EXCEPT !.heard = @ \cup {h}]
<1>1. /\ HasFields(n, JobFields) /\ n.stage = j.stage /\ n.out = j.out /\ n.pc = j.pc
      /\ n.heard = j.heard \cup {h} /\ n.q = j.q /\ n.fell = j.fell /\ n.lookups = j.lookups
      /\ n.pooled = j.pooled
  BY DEF HasFields, JobFields, Under, Typed
<1>2. \/ (~IsAnswer(o) /\ k = Failed(n, o.error)) \/ k = Failed(n, "InsecureResolution")
      \/ k \in After(n, o.records, o.secure)
  BY DEF Resolved
<1>. HIDE DEF n, h
<1>3. Under(n)
  BY <1>1 DEF Under, Typed, Done
<1>4. /\ "InsecureResolution" \in Others
      /\ ~IsAnswer(o) => o.error \in Errors \ {"none", "ok"}
  BY DEF Errors, Others, IsAnswer, ResolverErrors, FallsBack
<1>5. CASE ~IsAnswer(o) /\ k = Failed(n, o.error)
  BY <1>1, <1>3, <1>4, <1>5, FailedIs DEF SameStory, h
<1>6. CASE ~(~IsAnswer(o) /\ k = Failed(n, o.error))
  <2>1. Same(n, k)
    BY <1>2, <1>3, <1>4, <1>6, FailedHears, AfterHears
  <2>2. k.pc \in {"ask", "fetch", "done"}
    BY <2>1 DEF Same, Moved, Typed, Under
  <2>. QED BY <1>1, <2>1, <2>2 DEF Same, Moved, SameStory, h
<1>. QED BY <1>5, <1>6

(* What a job of the app is told, it can tell. *)
LEMMA MovedTells ==
  ASSUME NEW j, Told(j), j.pc # "doh", NEW k, Moved(j, k)
  PROVE  Told(k)
BY DEF Told, Moved, SameStory, DohAsked

(* A step of the fetch hears nothing. *)
LEMMA FetchHears ==
  ASSUME NEW t, Under(job[t]), App => Told(job[t]), job[t].pc # "doh",
         \/ Start(t) \/ Connect(t) \/ Lost(t) \/ Finish(t)
         \/ \E reply : Reply(t, reply)
  PROVE  HearsFresh(t)
<1>. DEFINE j == job[t]
<1>0. HasFields(j, JobFields)
  BY DEF Under, Typed
<1>1. SUFFICES \E k : Becomes(t, k) /\ Moved(j, k)
  BY MovedTells DEF HearsFresh, Moved, SameStory
<1>2. ASSUME NEW e \in Others, Becomes(t, Failed(j, e)) PROVE \E k : Becomes(t, k) /\ Moved(j, k)
  BY <1>2, FailedHears DEF Same
<1>3. ASSUME NEW wrote, NEW e \in Others, Becomes(t, Retried(j, wrote, e))
      PROVE  \E k : Becomes(t, k) /\ Moved(j, k)
  <2>. DEFINE n == [j EXCEPT !.body = @ \o wrote, !.spilt = wrote # << >>]
              k == [n EXCEPT !.pc = "connect", !.pooled = FALSE]
  <2>1. HasFields(n, JobFields) /\ SameStory(j, n) /\ n.stage = j.stage /\ n.out = j.out /\ n.pc = j.pc
    BY <1>0 DEF SameStory, HasFields, JobFields
  <2>2. HasFields(k, JobFields) /\ SameStory(j, k) /\ k.stage = j.stage /\ k.out = j.out /\ k.pc = "connect"
    BY <1>0 DEF SameStory, HasFields, JobFields
  <2>3. Retried(j, wrote, e) = IF j.pooled THEN k ELSE Failed(n, e)
    BY DEF Retried
  <2>. HIDE DEF n, k
  <2>4. Under(n)
    BY <2>1 DEF Under, Typed, Done
  <2>5. Moved(j, Failed(n, e)) /\ Moved(j, k)
    BY <2>1, <2>2, <2>4, FailedHears, GoingOn DEF Same, Moved, SameStory
  <2>. QED BY <1>3, <2>3, <2>5
<1>4. {"UnsupportedScheme", "InvalidRequest", "UnsupportedUpgrade", "UnsupportedTransport", "MalformedResponse",
       HandshakeError(j.r)} \subseteq Others
  BY DEF Errors, Others, HandshakeError, ResolverErrors, FallsBack, Untraced
<1>5. CASE Start(t)
  <2>1. \/ \E e \in {"UnsupportedScheme", "InvalidRequest", "UnsupportedUpgrade"} : Becomes(t, Failed(j, e))
        \/ \E r, c : Becomes(t, [j EXCEPT !.pc = "exchange", !.r = r, !.conn = c, !.pooled = TRUE])
        \/ \E r : Becomes(t, [j EXCEPT !.pc = "connect", !.r = r])
    BY <1>5 DEF Start, RequestError
  <2>2. ASSUME NEW r, NEW c
        PROVE  /\ Moved(j, [j EXCEPT !.pc = "exchange", !.r = r, !.conn = c, !.pooled = TRUE])
               /\ Moved(j, [j EXCEPT !.pc = "connect", !.r = r])
    <3>. DEFINE k == [j EXCEPT !.pc = "exchange", !.r = r, !.conn = c, !.pooled = TRUE]
                n == [j EXCEPT !.pc = "connect", !.r = r]
    <3>1. HasFields(k, JobFields) /\ SameStory(j, k) /\ k.stage = j.stage /\ k.out = j.out /\ k.pc = "exchange"
      BY <1>0 DEF SameStory, HasFields, JobFields
    <3>2. HasFields(n, JobFields) /\ SameStory(j, n) /\ n.stage = j.stage /\ n.out = j.out /\ n.pc = "connect"
      BY <1>0 DEF SameStory, HasFields, JobFields
    <3>. HIDE DEF k, n
    <3>3. Moved(j, k) /\ Moved(j, n)
      BY <3>1, <3>2, GoingOn
    <3>. QED BY <3>3 DEF k, n
  <2>. QED BY <1>2, <1>4, <2>1, <2>2
<1>6. CASE Connect(t)
  <2>1. \/ \E e \in {HandshakeError(j.r), "UnsupportedTransport"} : Becomes(t, Failed(j, e))
        \/ \E c : Becomes(t, [j EXCEPT !.pc = "exchange", !.conn = c])
    BY <1>6 DEF Connect
  <2>2. ASSUME NEW c PROVE Moved(j, [j EXCEPT !.pc = "exchange", !.conn = c])
    <3>. DEFINE k == [j EXCEPT !.pc = "exchange", !.conn = c]
    <3>1. HasFields(k, JobFields) /\ SameStory(j, k) /\ k.stage = j.stage /\ k.out = j.out /\ k.pc = "exchange"
      BY <1>0 DEF SameStory, HasFields, JobFields
    <3>. HIDE DEF k
    <3>2. Moved(j, k)
      BY <3>1, GoingOn
    <3>. QED BY <3>2 DEF k
  <2>. QED BY <1>2, <1>4, <2>1, <2>2
<1>7. CASE Lost(t)
  BY <1>3, <1>4, <1>7 DEF Lost
<1>8. CASE Finish(t)
  <2>1. PICK c : Becomes(t, [j EXCEPT !.pc = "done", !.out = "ok", !.conn = c])
    BY <1>8 DEF Finish
  <2>. DEFINE k == [j EXCEPT !.pc = "done", !.out = "ok", !.conn = c]
  <2>2. HasFields(k, JobFields) /\ SameStory(j, k) /\ k.stage = j.stage /\ k.out = "ok" /\ k.pc = "done"
    BY <1>0 DEF SameStory, HasFields, JobFields
  <2>3. Becomes(t, k) /\ "ok" \in Errors
    BY <2>1 DEF Errors
  <2>. HIDE DEF k
  <2>. QED BY <2>2, <2>3 DEF Moved, Typed, Under, Done
<1>9. ASSUME NEW body, NEW item, NEW conn
      PROVE  /\ Moved(j, [j EXCEPT !.pc = "finish", !.body = body, !.reply = item, !.conn = conn])
             /\ Moved(j, [j EXCEPT !.pc = "finish", !.body = body, !.reply = item])
             /\ Moved(j, [j EXCEPT !.pc = "finish", !.reply = item])
  <2>. DEFINE k == [j EXCEPT !.pc = "finish", !.body = body, !.reply = item, !.conn = conn]
              n == [j EXCEPT !.pc = "finish", !.body = body, !.reply = item]
              m == [j EXCEPT !.pc = "finish", !.reply = item]
  <2>1. HasFields(k, JobFields) /\ SameStory(j, k) /\ k.stage = j.stage /\ k.out = j.out /\ k.pc = "finish"
    BY <1>0 DEF SameStory, HasFields, JobFields
  <2>2. HasFields(n, JobFields) /\ SameStory(j, n) /\ n.stage = j.stage /\ n.out = j.out /\ n.pc = "finish"
    BY <1>0 DEF SameStory, HasFields, JobFields
  <2>3. HasFields(m, JobFields) /\ SameStory(j, m) /\ m.stage = j.stage /\ m.out = j.out /\ m.pc = "finish"
    BY <1>0 DEF SameStory, HasFields, JobFields
  <2>. HIDE DEF k, n, m
  <2>4. Moved(j, k) /\ Moved(j, n) /\ Moved(j, m)
    BY <2>1, <2>2, <2>3, GoingOn
  <2>. QED BY <2>4 DEF k, n, m
<1>10. ASSUME NEW reply, Reply(t, reply) PROVE \E k : Becomes(t, k) /\ Moved(j, k)
  <2>1. CASE Exchange(t, reply)
    <3>. DEFINE item == Head(j.conn.backlog \o Items(j.r.id, reply))
                rest == Tail(j.conn.backlog \o Items(j.r.id, reply))
                wrote == Body(j.r.head, item)
                conn == [j.conn EXCEPT !.backlog = rest, !.interim = @ \/ item.interim]
    <3>1. \/ Becomes(t, Retried(j, wrote, "MalformedResponse"))
          \/ Becomes(t, [j EXCEPT !.pc = "finish", !.body = @ \o wrote, !.reply = item,
                                  !.conn.backlog = rest, !.conn.interim = @ \/ item.interim])
      BY <2>1 DEF Exchange
    <3>. HIDE DEF item, rest, wrote
    <3>2. [j EXCEPT !.pc = "finish", !.body = @ \o wrote, !.reply = item,
                    !.conn.backlog = rest, !.conn.interim = @ \/ item.interim]
          = [j EXCEPT !.pc = "finish", !.body = j.body \o wrote, !.reply = item, !.conn = conn]
      BY <1>0 DEF SameStory, HasFields, JobFields
    <3>. HIDE DEF conn
    <3>. QED BY <1>3, <1>4, <1>9, <3>1, <3>2
  <2>2. CASE ExchangeFrames(t, reply)
    <3>1. \/ \E wrote : Becomes(t, Retried(j, wrote, "MalformedResponse"))
          \/ \E body, item : Becomes(t, [j EXCEPT !.pc = "finish", !.body = body, !.reply = item])
      BY <2>2 DEF ExchangeFrames
    <3>. QED BY <1>3, <1>4, <1>9, <3>1
  <2>3. CASE Upgrade(t, reply)
    <3>1. \/ Becomes(t, Failed(j, "MalformedResponse"))
          \/ \E item : Becomes(t, [j EXCEPT !.pc = "finish", !.reply = item])
      BY <2>3 DEF Upgrade
    <3>. QED BY <1>2, <1>4, <1>9, <3>1
  <2>. QED BY <1>10, <2>1, <2>2, <2>3 DEF Reply
<1>. QED BY <1>5, <1>6, <1>7, <1>8, <1>10

(* What is recorded stays, and the events of an outcome come with it.      *)
LEMMA Recording ==
  ASSUME NEW s \in Seq(Event), NEW o, o.events \in Seq(Event)
  PROVE  /\ s \o o.events \in Seq(Event)
         /\ \A x : Recorded(s, x) => Recorded(s \o o.events, x)
         /\ Recorded(s \o o.events, o)
         /\ \A i \in DOMAIN s : \E k \in DOMAIN (s \o o.events) : (s \o o.events)[k] = s[i]
         /\ \A i \in DOMAIN o.events : \E k \in DOMAIN (s \o o.events) : (s \o o.events)[k] = o.events[i]
         /\ \A k \in DOMAIN (s \o o.events) :
              (\E i \in DOMAIN s : (s \o o.events)[k] = s[i])
              \/ \E i \in DOMAIN o.events : (s \o o.events)[k] = o.events[i]
<1>. DEFINE e == o.events
            c == s \o e
<1>1. /\ c \in Seq(Event) /\ Len(s) \in Nat /\ Len(e) \in Nat /\ Len(c) = Len(s) + Len(e)
      /\ DOMAIN s = 1 .. Len(s) /\ DOMAIN e = 1 .. Len(e) /\ DOMAIN c = 1 .. Len(c)
      /\ \A k \in 1 .. Len(s) + Len(e) : c[k] = IF k <= Len(s) THEN s[k] ELSE e[k - Len(s)]
  BY ConcatProperties
<1>. HIDE DEF c, e
<1>2. \A i \in DOMAIN s : i \in DOMAIN c /\ c[i] = s[i]
  BY <1>1
<1>3. \A i \in DOMAIN e : i + Len(s) \in DOMAIN c /\ c[i + Len(s)] = e[i]
  BY <1>1
<1>4. \A k \in DOMAIN c : (\E i \in DOMAIN s : c[k] = s[i]) \/ \E i \in DOMAIN e : c[k] = e[i]
  <2>1. TAKE k \in DOMAIN c
  <2>2. CASE k <= Len(s)
    BY <1>1, <2>2
  <2>3. CASE ~(k <= Len(s))
    <3>1. k - Len(s) \in DOMAIN e /\ c[k] = e[k - Len(s)]
      BY <1>1, <2>3
    <3>. QED BY <3>1
  <2>. QED BY <2>2, <2>3
<1>5. ASSUME NEW x, Recorded(s, x) PROVE Recorded(c, x)
  BY <1>2, <1>5 DEF Recorded
<1>6. Recorded(c, o)
  <2>1. SUFFICES ASSUME e # << >> PROVE \E i \in DOMAIN c : c[i] = e[1]
    BY DEF Recorded, e
  <2>2. 1 \in DOMAIN e
    BY <1>1, <2>1, EmptySeq, e \in Seq(Event) DEF e
  <2>. QED BY <1>3, <2>2
<1>. QED BY <1>1, <1>2, <1>3, <1>4, <1>5, <1>6 DEF c, e

(* A job that asks, with what the answer's exchanges recorded. *)
LEMMA LookedUnder ==
  ASSUME NEW j, Under(j), NEW o
  PROVE  LET n == Looked(j, o)
         IN /\ Under(n) /\ n.heard = j.heard /\ n.q = j.q /\ n.fell = j.fell /\ n.pc = j.pc /\ n.out = j.out
            /\ n.stage = j.stage /\ n.pooled = j.pooled
            /\ n.lookups = j.lookups \o o.events /\ Question(n) = Question(j)
<1>. DEFINE n == Looked(j, o)
<1>1. /\ HasFields(n, JobFields) /\ n.heard = j.heard /\ n.stage = j.stage /\ n.q = j.q /\ n.r = j.r
      /\ n.out = j.out /\ n.pc = j.pc /\ n.fell = j.fell /\ n.lookups = j.lookups \o o.events
      /\ n.pooled = j.pooled
  BY DEF Looked, HasFields, JobFields, Under, Typed
<1>. HIDE DEF n
<1>2. Under(n) /\ Question(n) = Question(j)
  BY <1>1 DEF Under, Typed, Done, Question
<1>. QED BY <1>1, <1>2 DEF n

(* What a job of the app is told of, it records. *)
LEMMA AnswerTells ==
  ASSUME NEW j, Under(j), Told(j), NEW o, o.error \in ResolverErrors \cup {"none"}, o.events \in Seq(Event),
         j.fell # "none" <=> DohAsked(j) \/ \E i \in DOMAIN o.events : o.events[i].protocol = "doh",
         o.error = "NameNotFound" => o \in Outcomes(Primary, Question(j)),
         NEW k \in Resolved(Looked(j, o), o, 0)
  PROVE  Told(k)
<1>. DEFINE n == Looked(j, o)
            h == [question |-> Question(j), age |-> 0, outcome |-> o]
<1>1. /\ Under(n) /\ n.heard = j.heard /\ n.q = j.q
      /\ n.fell = j.fell /\ n.lookups = j.lookups \o o.events /\ Question(n) = Question(j)
  BY LookedUnder
<1>0. k \in Resolved(n, o, 0)
  OBVIOUS
<1>. HIDE DEF n
<1>2. /\ k.heard = j.heard \cup {h} /\ k.q = j.q /\ k.fell = j.fell /\ k.lookups = j.lookups \o o.events
      /\ k.pc \in {"ask", "fetch", "done"} /\ (k.out = "NameNotFound" => o.error = "NameNotFound")
  <2>1. /\ k.heard = n.heard \cup {[question |-> Question(n), age |-> 0, outcome |-> o]}
        /\ k.q = n.q /\ k.fell = n.fell /\ k.lookups = n.lookups
        /\ k.pc \in {"ask", "fetch", "done"} /\ (k.out = "NameNotFound" => o.error = "NameNotFound")
    <3>1. Under(n)
      BY <1>1
    <3>. QED BY ONLY <1>0, <3>1, ResolvedHears, o.error \in ResolverErrors \cup {"none"}
  <2>. QED BY <1>1, <2>1
<1>3. j.lookups \in Seq(Event)
  BY DEF Told
<1>4. k.fell # "none" <=> DohAsked(k)
  <2>. DEFINE c == j.lookups \o o.events
  <2>1. DohAsked(k) <=> \E i \in DOMAIN c : c[i].protocol = "doh"
    BY <1>2 DEF DohAsked
  <2>2. /\ \A i \in DOMAIN j.lookups : \E m \in DOMAIN c : c[m] = j.lookups[i]
        /\ \A i \in DOMAIN o.events : \E m \in DOMAIN c : c[m] = o.events[i]
        /\ \A m \in DOMAIN c : (\E i \in DOMAIN j.lookups : c[m] = j.lookups[i])
                               \/ \E i \in DOMAIN o.events : c[m] = o.events[i]
    BY <1>3, Recording
  <2>. HIDE DEF c
  <2>3. (\E i \in DOMAIN c : c[i].protocol = "doh")
        <=> DohAsked(j) \/ \E i \in DOMAIN o.events : o.events[i].protocol = "doh"
    <3>1. ASSUME NEW i \in DOMAIN c, c[i].protocol = "doh"
          PROVE  DohAsked(j) \/ \E m \in DOMAIN o.events : o.events[m].protocol = "doh"
      BY <2>2, <3>1 DEF DohAsked
    <3>2. ASSUME DohAsked(j) PROVE \E i \in DOMAIN c : c[i].protocol = "doh"
      BY <2>2, <3>2 DEF DohAsked
    <3>3. ASSUME NEW i \in DOMAIN o.events, o.events[i].protocol = "doh"
          PROVE  \E m \in DOMAIN c : c[m].protocol = "doh"
      BY <2>2, <3>3
    <3>. QED BY <3>1, <3>2, <3>3
  <2>. QED BY <1>2, <2>1, <2>3
<1>5. ASSUME NEW x \in k.heard PROVE Recorded(k.lookups, x.outcome)
  <2>1. x \in j.heard \/ x.outcome = o
    BY <1>2, <1>5
  <2>. QED BY <1>2, <1>3, <2>1, Recording DEF Told
<1>6. o.error = "NameNotFound" => SaysAbsent(h)
  BY DEF SaysAbsent
<1>. HIDE DEF h
<1>. QED BY <1>2, <1>3, <1>4, <1>5, <1>6, Recording DEF Told

LEMMA FreshAnswers ==
  ASSUME NEW t, NEW j, Under(j), j.heard = job[t].heard, NEW age,
         NEW o, o.error \in ResolverErrors \cup {"none"},
         App \/ ((age = 0 \/ age < Ttl) /\ o \in Outcomes(Primary, Question(j))),
         App => \A k \in Resolved(j, o, age) : Told(k),
         \E k \in Resolved(j, o, age) : Becomes(t, k)
  PROVE  HearsFresh(t)
<1>. DEFINE h == [question |-> Question(j), age |-> age, outcome |-> o]
<1>1. PICK k \in Resolved(j, o, age) : Becomes(t, k)
  OBVIOUS
<1>2. Typed(k) /\ k.heard = job[t].heard \cup {h}
  BY ResolvedHears
<1>3. App \/ Fresh(h)
  BY DEF Fresh
<1>. HIDE DEF h
<1>. QED BY <1>1, <1>2, <1>3 DEF HearsFresh

LEMMA AcceptHears ==
  ASSUME NEW t, NEW q, Accept(t, q)
  PROVE  HearsFresh(t)
<1>1. PICK k \in Admitted(q) : Becomes(t, k)
  BY DEF Accept, Becomes
<1>. DEFINE n == [NoJob EXCEPT !.pc = "ask", !.q = q, !.r = OriginOf(q, served + 1)]
<1>2. /\ HasFields(n, JobFields) /\ n.heard = {} /\ n.pc = "ask" /\ n.stage = "origin" /\ n.out = "none"
      /\ n.fell = "none" /\ n.lookups = << >>
  BY DEF NoJob, HasFields, JobFields
<1>3. k = n \/ \E e \in {"BadRequest", "HostResolutionMismatch", "StorageError"} : k = Failed(n, e)
  BY <1>1 DEF Admitted
<1>4. {"BadRequest", "HostResolutionMismatch", "StorageError"} \subseteq Others /\ "none" \in Errors
  BY DEF Errors, Others, Untraced
<1>. HIDE DEF n
<1>5. Under(n)
  BY <1>2, <1>4 DEF Under, Typed, Done
<1>6. k.heard = {} /\ Typed(k) /\ (k = n \/ Moved(n, k))
  BY <1>2, <1>3, <1>4, <1>5, FailedHears DEF Same, Moved, SameStory, Under
<1>7. Told(n)
  BY <1>2 DEF Told, DohAsked
<1>8. Told(k)
  BY <1>2, <1>6, <1>7, MovedTells
<1>. QED BY <1>1, <1>6, <1>8 DEF HearsFresh

(* The primary resolver records nothing of DNS over HTTPS. *)
LEMMA PrimaryEvents ==
  ASSUME NEW question, NEW o \in Outcomes(Primary, question)
  PROVE  o.events \in Seq(Event) /\ \A i \in DOMAIN o.events : o.events[i].protocol # "doh"
<1>. DEFINE S == [protocol : {"udp53", "tcp53"}, status : Statuses]
<1>1. o.events \in Seq(S)
  BY TraceAssumption DEF Outcomes
<1>2. S \subseteq Event
  BY DEF Event
<1>. DEFINE e == o.events
<1>3. e \in Seq(S)
  BY <1>1
<1>4. \A x \in S : x.protocol # "doh"
  OBVIOUS
<1>. HIDE DEF S, e
<1>5. e \in Seq(Event) /\ \A i \in DOMAIN e : e[i] \in S
  BY <1>2, <1>3
<1>. QED BY <1>4, <1>5 DEF e

LEMMA AskPrimaryHears ==
  ASSUME NEW t, AskPrimary(t), Typed(job[t]), Told(job[t]),
         \A o \in Outcomes(Primary, Question(job[t])) : o.error \in ResolverErrors \cup {"none"}
  PROVE  HearsFresh(t)
<1>. DEFINE j == job[t]
            q == Question(j)
<1>1. App /\ Under(j) /\ j.fell = "none" /\ j.pc = "ask" /\ ~DohAsked(j)
  BY DEF AskPrimary, Asks, Under, Done, Told
<1>2. PICK o \in Outcomes(Primary, q) :
        LET n == Looked(j, o)
            h == [question |-> Question(n), age |-> 0, outcome |-> o]
        IN IF o.error \in FallsBack /\ ~n.q.strict
           THEN Becomes(t, [Marked(n, o.error) EXCEPT !.pc = "doh", !.heard = @ \cup {h}])
           ELSE \E k \in Resolved(n, o, 0) : Becomes(t, k)
  BY DEF AskPrimary
<1>. DEFINE n == Looked(j, o)
            h == [question |-> Question(n), age |-> 0, outcome |-> o]
<1>3. /\ Under(n) /\ n.heard = j.heard /\ n.q = j.q /\ n.pc = j.pc /\ n.out = j.out /\ n.stage = j.stage
      /\ n.lookups = j.lookups \o o.events /\ Question(n) = q
  <2>1. Under(j)
    BY <1>1
  <2>. HIDE DEF j
  <2>. QED BY <2>1, LookedUnder
<1>4. o.events \in Seq(Event) /\ \A i \in DOMAIN o.events : o.events[i].protocol # "doh"
  BY PrimaryEvents
<1>5. CASE o.error \in FallsBack /\ ~n.q.strict
  <2>. DEFINE k == [Marked(n, o.error) EXCEPT !.pc = "doh", !.heard = @ \cup {h}]
  <2>1. Becomes(t, k)
    BY <1>2, <1>5
  <2>. HIDE DEF n, h
  <2>2. /\ HasFields(k, JobFields) /\ k.stage = n.stage /\ k.out = n.out /\ k.pc = "doh" /\ k.q = n.q
        /\ k.r = n.r /\ k.fell = o.error /\ k.lookups = n.lookups /\ k.heard = n.heard \cup {h}
    BY <1>3 DEF HasFields, JobFields, Under, Typed, Marked
  <2>. HIDE DEF k
  <2>3. Typed(k) /\ k.out = "none" /\ Question(k) = Question(n)
    BY <1>3, <2>2 DEF Under, Typed, Done, Question
  <2>4. ToDoh(k)
    BY <1>3, <1>5, <2>3 DEF ToDoh
  <2>5. o.error # "none"
    BY <1>5 DEF FallsBack
  <2>6. ASSUME NEW x \in k.heard PROVE Recorded(k.lookups, x.outcome)
    <3>1. x \in j.heard \/ x.outcome = o
      BY <1>3, <2>2, <2>6 DEF h
    <3>. QED BY <1>3, <1>4, <2>2, <3>1, Recording DEF Told
  <2>7. Told(k)
    BY <1>3, <1>4, <1>5, <2>2, <2>3, <2>4, <2>5, <2>6, Recording DEF Told
  <2>. QED BY <1>1, <2>1, <2>3, <2>7 DEF HearsFresh
<1>6. CASE ~(o.error \in FallsBack /\ ~n.q.strict)
  <2>1. \E k \in Resolved(n, o, 0) : Becomes(t, k)
    BY <1>2, <1>6
  <2>2. \A k \in Resolved(n, o, 0) : Told(k)
    BY <1>1, <1>4, AnswerTells
  <2>. HIDE DEF n
  <2>. QED BY <1>1, <1>3, <2>1, <2>2, FreshAnswers
<1>. QED BY <1>5, <1>6

(* DNS over HTTPS records that it was asked, where the job is not marked   *)
(* yet as well: that one asks what the primary resolver could read.        *)
LEMMA AskDohHears ==
  ASSUME NEW t, AskDoh(t), Typed(job[t]), Told(job[t]),
         \A o \in Outcomes(Doh, Question(job[t])) : o.error \in ResolverErrors \cup {"none"}
  PROVE  HearsFresh(t)
<1>. DEFINE j == job[t]
            q == Question(j)
<1>1. App /\ Under(j) /\ j.fell # "none"
  BY DEF AskDoh, Asks, Under, Done, Told
<1>2. PICK o \in Outcomes(Doh, q) : \E k \in Resolved(Looked(j, o), o, 0) : Becomes(t, k)
  BY DEF AskDoh
<1>3. /\ o.error # "NameNotFound" /\ o.events \in Seq(Event)
      /\ DohAsked(j) \/ \E i \in DOMAIN o.events : o.events[i].protocol = "doh"
  <2>1. q \in DOMAIN Doh /\ o \in Doh[q]
    BY DEF Outcomes
  <2>2. CASE /\ o.error \in {"none", "DnsTransport", "InvalidDnsResponse"}
             /\ \E status \in Statuses : o.events = <<[protocol |-> "doh", status |-> status]>>
    <3>1. PICK status \in Statuses : o.events = <<[protocol |-> "doh", status |-> status]>>
      BY <2>2
    <3>2. [protocol |-> "doh", status |-> status] \in Event
      BY DEF Event
    <3>. DEFINE e == [protocol |-> "doh", status |-> status]
    <3>3. o.events = <<e>> /\ e \in Event /\ e.protocol = "doh"
      BY <3>1, <3>2
    <3>. HIDE DEF e
    <3>4. o.events \in Seq(Event) /\ 1 \in DOMAIN o.events /\ o.events[1] = e
      BY <3>3
    <3>. QED BY <2>2, <3>3, <3>4
  <2>3. CASE /\ o.error = "UnsupportedBackend" /\ o.events = << >>
             /\ q \in DOMAIN Primary => \A p \in Primary[q] : p.error \notin FallsBack
    <3>1. ~ToDoh(j)
      BY <2>3 DEF ToDoh, Outcomes
    <3>2. DohAsked(j)
      BY <1>1, <3>1 DEF Told
    <3>. QED BY <2>3, <3>2
  <2>. QED BY <2>1, <2>2, <2>3, TraceAssumption
<1>4. \A k \in Resolved(Looked(j, o), o, 0) : Told(k)
  BY <1>1, <1>3, AnswerTells
<1>. DEFINE n == Looked(j, o)
<1>5. Under(n) /\ n.heard = j.heard
  BY <1>1, LookedUnder
<1>6. (\E k \in Resolved(n, o, 0) : Becomes(t, k)) /\ \A k \in Resolved(n, o, 0) : Told(k)
  BY <1>2, <1>4
<1>. HIDE DEF n
<1>. QED BY <1>1, <1>5, <1>6, FreshAnswers

LEMMA StepHears ==
  ASSUME GatewayInv, GatewayTypes, Stories, NEW t \in Threads,
         Step(t) \/ \E q \in Requests[App] : AcceptHttp(t, q) \/ AcceptUpgrade(t, q)
  PROVE  HearsFresh(t)
<1>. DEFINE j == job[t]
            q == Question(j)
<1>1. /\ JobInv(j, stack) /\ Typed(j) /\ HasFields(j, JobFields) /\ (j.pc # "done" => Under(j))
      /\ App => Told(j)
  BY DEF GatewayInv, GatewayTypes, Stories, Typed, Under, Done
<1>2. \A resolver \in {Primary, Doh} : \A o \in Outcomes(resolver, q) : o.error \in ResolverErrors \cup {"none"}
  BY ResolverAssumption DEF Outcomes
<1>3. CASE \E p \in Requests[App] : AcceptHttp(t, p) \/ AcceptUpgrade(t, p)
  BY <1>3, AcceptHears DEF AcceptHttp, AcceptUpgrade
\* The cache is not the app's.
<1>4. ASSUME ~App, NEW k, HasFields(k, JobFields), Becomes(t, k), Under(j), k.heard = j.heard,
             k.stage = j.stage, k.out = j.out, k.pc \in {"inner", "insert"}
      PROVE  HearsFresh(t)
  BY <1>4 DEF HearsFresh, Typed, Under, Done
<1>5. CASE Lookup(t)
  <2>. DEFINE entry == cache.entries[q]
              age == clock + Ttl - entry.expires
  <2>1. /\ ~App /\ Under(j)
        /\ IF Hit(cache, q, clock) THEN \E k \in Resolved(j, entry.value, age) : Becomes(t, k)
           ELSE Becomes(t, [j EXCEPT !.pc = "inner"])
    BY <1>1, <1>5 DEF Lookup, Asks
  <2>2. CASE Hit(cache, q, clock)
    <3>1. q \in Keys(cache) /\ entry.expires > clock
      BY <2>2 DEF Hit, Live
    <3>2. entry.expires \in Nat /\ clock \in Nat /\ Ttl \in Nat
      BY <3>1, CacheAssumption, BoundAssumption DEF GatewayTypes, CacheTyped
    <3>3. age < Ttl
      BY <3>1, <3>2
    <3>4. entry.value \in Outcomes(Primary, q)
      BY <3>1 DEF GatewayInv, CacheInv
    <3>. HIDE DEF age, entry
    <3>. QED BY <1>2, <2>1, <2>2, <3>3, <3>4, FreshAnswers
  <2>3. CASE ~Hit(cache, q, clock)
    <3>. DEFINE k == [j EXCEPT !.pc = "inner"]
    <3>1. HasFields(k, JobFields) /\ k.heard = j.heard /\ k.stage = j.stage /\ k.out = j.out /\ k.pc = "inner"
      BY <1>1 DEF HasFields, JobFields
    <3>2. Becomes(t, k)
      BY <2>1, <2>3
    <3>. HIDE DEF k
    <3>. QED BY <1>4, <2>1, <3>1, <3>2
  <2>. QED BY <2>2, <2>3
<1>6. CASE Inner(t)
  <2>1. PICK o \in Outcomes(Primary, q) : Becomes(t, [j EXCEPT !.pc = "insert", !.pending = o])
                                         \/ \E k \in Resolved(j, o, 0) : Becomes(t, k)
    BY <1>6 DEF Inner
  <2>2. ~App /\ Under(j)
    BY <1>1, <1>6 DEF Inner, Told
  <2>3. CASE \E k \in Resolved(j, o, 0) : Becomes(t, k)
    BY <1>2, <2>2, <2>3, FreshAnswers
  <2>4. CASE Becomes(t, [j EXCEPT !.pc = "insert", !.pending = o])
    <3>. DEFINE k == [j EXCEPT !.pc = "insert", !.pending = o]
    <3>1. HasFields(k, JobFields) /\ k.heard = j.heard /\ k.stage = j.stage /\ k.out = j.out /\ k.pc = "insert"
      BY <1>1 DEF HasFields, JobFields
    <3>2. Becomes(t, k)
      BY <2>4
    <3>. HIDE DEF k
    <3>. QED BY <1>4, <2>2, <3>1, <3>2
  <2>. QED BY <2>1, <2>3, <2>4
<1>7. CASE Insert(t)
  <2>. DEFINE n == [j EXCEPT !.pending = << >>]
              o == j.pending
  <2>1. /\ HasFields(n, JobFields) /\ n.heard = j.heard /\ n.stage = j.stage /\ n.q = j.q /\ n.r = j.r
        /\ n.out = j.out /\ n.pc = j.pc
    BY <1>1 DEF HasFields, JobFields
  <2>2. \E k \in Resolved(n, o, 0) : Becomes(t, k)
    BY <1>7 DEF Insert
  <2>3. ~App /\ Under(j)
    BY <1>1, <1>7 DEF Insert, Told
  <2>. HIDE DEF n
  <2>4. Question(n) = q /\ Under(n)
    BY <2>1, <2>3 DEF Question, Under, Typed, Done
  <2>5. o \in Outcomes(Primary, q)
    BY <1>1, <1>7 DEF Insert, JobInv
  <2>. QED BY <1>2, <2>1, <2>2, <2>3, <2>4, <2>5, FreshAnswers
<1>8. CASE AskPrimary(t)
  BY <1>1, <1>2, <1>8, AskPrimaryHears DEF AskPrimary
<1>9. CASE AskDoh(t)
  BY <1>1, <1>2, <1>9, AskDohHears DEF AskDoh
<1>10. CASE Start(t) \/ Connect(t) \/ Lost(t) \/ Finish(t) \/ (j.pc = "exchange" /\ \E reply : Reply(t, reply))
  <2>1. Under(j) /\ j.pc # "doh"
    BY <1>1, <1>10 DEF Start, Connect, Lost, Finish
  <2>. QED BY <1>1, <1>10, <2>1, FetchHears
<1>. QED BY <1>3, <1>5, <1>6, <1>7, <1>8, <1>9, <1>10 DEF Step

(* The cache stays within its limit, and gives up a live entry only where  *)
(* it is full of such.                                                     *)
LEMMA StepTimely ==
  ASSUME GatewayTypes, NEW t,
         Step(t) \/ \E q \in Requests[App] : AcceptHttp(t, q) \/ AcceptUpgrade(t, q)
  PROVE  /\ CacheTyped(cache')
         /\ \A k \in Live(cache, clock) \ Keys(cache') : Cardinality(Live(cache, clock)) = MaxEntries
<1>1. /\ Live(cache, clock) \subseteq Keys(cache)
      /\ IsFiniteSet(Keys(cache)) /\ Cardinality(Keys(cache)) \in Nat /\ clock \in Nat
      /\ CacheTyped(cache)
  BY OrdersLength, BoundAssumption DEF GatewayTypes, CacheTyped, Ordered, Live
<1>2. CASE Lookup(t)
  <2>. DEFINE n == Got(cache, Question(job[t]), clock)
  <2>1. cache' = n
    BY <1>2 DEF Lookup
  <2>2. Ordered(n) /\ Keys(n) = Live(cache, clock) /\ \A x \in Keys(n) : n.entries[x] = cache.entries[x]
    BY <1>1, GotOrdered DEF CacheTyped
  <2>. HIDE DEF n
  <2>3. Cardinality(Keys(n)) \in Nat /\ Cardinality(Keys(n)) <= Cardinality(Keys(cache))
    BY <1>1, <2>2, FS_Subset, FS_CardinalityType
  <2>4. Cardinality(Keys(n)) <= MaxEntries
    BY <1>1, <2>3, CacheAssumption DEF CacheTyped
  <2>. QED BY <1>1, <2>1, <2>2, <2>4 DEF CacheTyped
<1>3. CASE Insert(t)
  <2>. DEFINE n == Inserted(cache, Question([job[t] EXCEPT !.pending = << >>]), job[t].pending, Ttl, clock, MaxEntries)
  <2>1. cache' = n
    BY <1>3 DEF Insert
  <2>2. /\ Ordered(n) /\ Cardinality(Keys(n)) <= MaxEntries
        /\ \A x \in Keys(n) : (x \in Live(cache, clock) /\ n.entries[x] = cache.entries[x])
                              \/ n.entries[x] = [value |-> job[t].pending, expires |-> clock + Ttl]
        /\ \A x \in Live(cache, clock) \ Keys(n) : Cardinality(Live(cache, clock)) = MaxEntries
    BY <1>1, InsertedOrdered, CacheAssumption DEF CacheTyped
  <2>. HIDE DEF n
  <2>3. \A x \in Keys(n) : n.entries[x].expires \in Nat
    BY <1>1, <2>2, CacheAssumption DEF CacheTyped
  <2>. QED BY <2>1, <2>2, <2>3 DEF CacheTyped
<1>4. CASE UNCHANGED cache
  BY <1>1, <1>4
<1>5. Lookup(t) \/ Insert(t) \/ UNCHANGED cache
  BY DEF Step, Inner, AskPrimary, AskDoh, Start, Connect, Lost, Finish, Reply, Exchange, ExchangeFrames,
         Upgrade, AcceptHttp, AcceptUpgrade, Accept
<1>. QED BY <1>2, <1>3, <1>4, <1>5

(* A pool that is full makes way for the connection that comes back        *)
(* (put_pooled_http11).                                                    *)
LEMMA StepPools ==
  ASSUME GatewayInv, PoolsTyped(transport), NEW t,
         Step(t) \/ \E q \in Requests[App] : AcceptHttp(t, q) \/ AcceptUpgrade(t, q)
  PROVE  PoolsTyped(transport')
<1>1. HasFields(transport, TransportFields) /\ \A k \in DOMAIN transport.pool : IsSequence(transport.pool[k])
  BY DEF GatewayInv, TransportInv
<1>2. ASSUME NEW k \in DOMAIN transport.pool, transport.pool[k] # << >>, transport' = Taken(transport, k)
      PROVE  PoolsTyped(transport')
  <2>. DEFINE p == transport.pool[k]
  <2>1. transport'.pool = [x \in DOMAIN transport.pool |-> IF x = k THEN Tail(p) ELSE transport.pool[x]]
    BY <1>1, <1>2 DEF Taken, HasFields, TransportFields, GatewayInv, TransportInv
  <2>2. p \in Seq({p[i] : i \in DOMAIN p}) /\ p # << >> /\ Len(p) <= PoolLimit
    BY <1>1, <1>2 DEF IsSequence, PoolsTyped
  <2>. HIDE DEF p
  <2>3. Len(Tail(p)) = Len(p) - 1 /\ Len(p) \in Nat
    BY <2>2, HeadTailProperties, LenProperties
  <2>. QED BY <2>1, <2>2, <2>3, PoolAssumption DEF PoolsTyped
<1>3. ASSUME NEW k, NEW c, transport' = Put(transport, k, c) PROVE PoolsTyped(transport')
  <2>. DEFINE p == Pooled(transport, k)
              q == IF Len(p) >= PoolLimit THEN Tail(p) ELSE p
  <2>1. transport'.pool = [x \in DOMAIN transport.pool \cup {k} |->
                             IF x = k THEN Append(q, c) ELSE transport.pool[x]]
    BY <1>1, <1>3 DEF Put, With, HasFields, TransportFields
  <2>2. IsSequence(p) /\ Len(p) <= PoolLimit
    <3>1. << >> \in Seq({}) /\ Len(<< >>) = 0
      OBVIOUS
    <3>2. IsSequence(<< >>)
      BY <3>1, SequencesAre
    <3>. QED BY <1>1, <3>1, <3>2, PoolAssumption DEF Pooled, PoolsTyped
  <2>. HIDE DEF p
  <2>3. Len(p) \in Nat /\ p \in Seq({p[i] : i \in DOMAIN p})
    BY <2>2, LenProperties DEF IsSequence
  <2>4. IsSequence(q) /\ Len(q) \in Nat /\ Len(q) < PoolLimit
    <3>1. CASE Len(p) >= PoolLimit
      <4>1. p # << >> /\ Len(p) = PoolLimit
        BY <2>2, <2>3, <3>1, PoolAssumption
      <4>2. Len(Tail(p)) = Len(p) - 1
        BY <2>3, <4>1, HeadTailProperties
      <4>. QED BY <2>2, <2>3, <3>1, <4>1, <4>2, PoolSequences, PoolAssumption
    <3>2. CASE ~(Len(p) >= PoolLimit)
      BY <2>2, <2>3, <3>2, PoolAssumption
    <3>. QED BY <3>1, <3>2
  <2>. HIDE DEF q
  <2>. DEFINE S == {q[i] : i \in DOMAIN q} \cup {c}
  <2>5. q \in Seq(S) /\ c \in S
    BY <2>4 DEF IsSequence
  <2>. HIDE DEF S
  <2>6. Len(Append(q, c)) = Len(q) + 1
    BY <2>5, AppendProperties
  <2>7. Len(Append(q, c)) <= PoolLimit
    BY <2>4, <2>6, PoolAssumption
  <2>. QED BY <2>1, <2>7 DEF PoolsTyped
<1>4. CASE transport'.pool = transport.pool
  BY <1>4 DEF PoolsTyped
<1>5. \/ \E k \in DOMAIN transport.pool : transport.pool[k] # << >> /\ transport' = Taken(transport, k)
      \/ \E k, c : transport' = Put(transport, k, c)
      \/ \E r, server : transport' = Captured(transport, r, server)
      \/ \E r, reply, now : transport' = AltRecorded(transport, r, reply, now)
      \/ UNCHANGED transport
  <2>1. CASE Start(t)
    BY <2>1 DEF Start, Pooled
  <2>2. CASE Connect(t)
    BY <2>2 DEF Connect
  <2>3. CASE Finish(t)
    BY <2>3 DEF Finish
  <2>4. CASE \E reply : Reply(t, reply)
    BY <2>4 DEF Reply, Exchange, ExchangeFrames, Upgrade
  <2>5. CASE ~(Start(t) \/ Connect(t) \/ Finish(t) \/ \E reply : Reply(t, reply))
    BY <2>5 DEF Step, Lookup, Inner, Insert, AskPrimary, AskDoh, Lost, AcceptHttp, AcceptUpgrade, Accept
  <2>. QED BY <2>1, <2>2, <2>3, <2>4, <2>5
<1>6. \A r, server : Captured(transport, r, server).pool = transport.pool
  BY <1>1 DEF Captured, HasFields, TransportFields
<1>7. \A r, reply, now : AltRecorded(transport, r, reply, now).pool = transport.pool
  BY <1>1 DEF AltRecorded, HasFields, TransportFields
<1>. QED BY <1>2, <1>3, <1>4, <1>5, <1>6, <1>7

LEMMA NextTyped ==
  ASSUME GatewayInv, GatewayTypes, Stories, [Next]_vars
  PROVE  GatewayTypes' /\ Stories' /\ [CacheStep]_vars
<1>1. ASSUME NEW t \in Threads,
             Step(t) \/ \E q \in Requests[App] : AcceptHttp(t, q) \/ AcceptUpgrade(t, q)
      PROVE  GatewayTypes' /\ Stories' /\ CacheStep
  <2>1. /\ CacheTyped(cache')
        /\ \A k \in Live(cache, clock) \ Keys(cache') : Cardinality(Live(cache, clock)) = MaxEntries
    BY <1>1, StepTimely
  <2>2. PICK k : /\ Becomes(t, k) /\ Typed(k) /\ (App => Told(k))
                 /\ \A h \in k.heard \ job[t].heard : ~App => Fresh(h)
    BY <1>1, StepHears DEF HearsFresh
  <2>3. job' = [u \in Threads |-> IF u = t THEN k ELSE job[u]]
    BY <2>2 DEF Becomes, GatewayInv
  <2>4. ASSUME NEW u \in Threads, NEW h \in job'[u].heard \ job[u].heard, ~App PROVE Fresh(h)
    BY <2>2, <2>3, <2>4
  <2>5. \A h : Fresh(h) => (h.age = 0 \/ h.age < Ttl) /\ h.outcome \in Primary[h.question]
    BY DEF Fresh, Outcomes
  <2>6. \A u \in Threads : Typed(job'[u])
    BY <2>2, <2>3 DEF GatewayTypes
  <2>7. PoolsTyped(transport')
    BY <1>1, StepPools DEF GatewayTypes
  <2>8. UNCHANGED clock /\ served' \in 0 .. MaxRequests
    <3>1. CASE Step(t)
      <4>1. UNCHANGED <<clock, served>>
        BY <3>1 DEF Step, Lookup, Inner, Insert, AskPrimary, AskDoh, Start, Connect, Lost, Finish, Reply,
                    Exchange, ExchangeFrames, Upgrade
      <4>. QED BY <4>1 DEF GatewayTypes
    <3>2. CASE \E q \in Requests[App] : AcceptHttp(t, q) \/ AcceptUpgrade(t, q)
      <4>1. UNCHANGED clock /\ served < MaxRequests /\ served' = served + 1
        BY <3>2 DEF AcceptHttp, AcceptUpgrade, Accept
      <4>. QED BY <4>1, BoundAssumption DEF GatewayTypes
    <3>. QED BY <1>1, <3>1, <3>2
  <2>9. Stories'
    <3>1. UNCHANGED stack
      BY <1>1 DEF Step, Lookup, Inner, Insert, AskPrimary, AskDoh, Start, Connect, Lost, Finish, Reply,
                  Exchange, ExchangeFrames, Upgrade, AcceptHttp, AcceptUpgrade, Accept
    <3>2. ASSUME App, NEW u \in Threads PROVE Told(job'[u])
      BY <2>2, <2>3, <3>2 DEF Stories
    <3>. QED BY <3>1, <3>2 DEF Stories, App
  <2>. QED BY <2>1, <2>4, <2>5, <2>6, <2>7, <2>8, <2>9 DEF CacheStep, GatewayTypes
<1>2. ASSUME UNCHANGED <<stack, cache, job, transport, served>>, clock' \in 0 .. MaxClock
      PROVE  GatewayTypes' /\ Stories' /\ CacheStep
  BY <1>2 DEF GatewayTypes, Stories, App, CacheStep, Live, Keys
<1>3. CASE Tick
  BY <1>2, <1>3, BoundAssumption DEF Tick, GatewayTypes
<1>. QED BY <1>1, <1>2, <1>3 DEF Next, Tunnelling, Closing, vars, GatewayTypes

LEMMA InitTyped ==
  ASSUME Init
  PROVE  GatewayTypes /\ Stories
<1>1. Ordered(EmptyCache) /\ Keys(EmptyCache) = {}
  <2>1. << >> \in Seq({})
    OBVIOUS
  <2>2. IsSequence(<< >>)
    BY <2>1, SequencesAre
  <2>. QED BY <2>2 DEF EmptyCache, Ordered, HasFields, CacheFields, Orders, Listed, Distinct, Keys
<1>2. Cardinality({}) = 0
  BY FS_EmptySet
<1>3. CacheTyped(EmptyCache)
  BY <1>1, <1>2, CacheAssumption DEF CacheTyped
<1>4. Typed(NoJob)
  BY DEF NoJob, Typed, HasFields, JobFields, Done, Errors
<1>5. PoolsTyped(NewTransport)
  BY DEF NewTransport, PoolsTyped
<1>6. Told(NoJob)
  BY DEF NoJob, Told, DohAsked
<1>. QED BY <1>3, <1>4, <1>5, <1>6, BoundAssumption DEF Init, GatewayTypes, Stories

LEMMA Types == Spec => [](GatewayInv /\ GatewayTypes /\ Stories)
<1>1. Init => GatewayTypes /\ Stories
  BY InitTyped
<1>2. GatewayInv /\ GatewayTypes /\ Stories /\ [Next]_vars => GatewayTypes' /\ Stories'
  BY NextTyped
<1>. QED BY <1>1, <1>2, GatewayInvariant, PTL DEF Spec

(* Every job is somewhere on its way and ends with one of the errors the   *)
(* code names; a pool holds no more connections of an origin than it may,  *)
(* and the cache no more entries, whose keys its order lists once each     *)
(* (put_pooled_http11, prune_expired, evict_over_limit).                   *)
THEOREM TypeCorrect == Spec => []TypeOK
<1>1. GatewayInv /\ GatewayTypes => TypeOK
  <2>1. ASSUME GatewayTypes
        PROVE  /\ Len(cache.order) = Cardinality(Keys(cache)) /\ Len(cache.order) <= MaxEntries
               /\ Keys(cache) = {cache.order[i] : i \in DOMAIN cache.order}
    BY <2>1, OrdersLength DEF GatewayTypes, CacheTyped, Ordered, Orders, Listed
  <2>. QED BY <2>1 DEF TypeOK, GatewayInv, GatewayTypes, Typed, PoolsTyped
<1>. QED BY <1>1, Types, PTL

(* What a request is told was said just now, or put in the cache less than *)
(* its time to live ago as the answer to the same question; an entry that  *)
(* is alive leaves the cache only for a new one when the cache is full of  *)
(* such (TtlCache, CachedResolver).                                        *)
THEOREM CacheIsSound == Spec => CacheSound
<1>1. GatewayInv /\ GatewayTypes /\ Stories /\ [Next]_vars => [CacheStep]_vars
  BY NextTyped
<1>. QED BY <1>1, Types, PTL DEF Spec, CacheSound

-----------------------------------------------------------------------------
(* What the labels of the app's responses rest on. *)

(* The stack of the app serves one request: there is nothing in its        *)
(* transport before there is a connection, which is then a new one, and    *)
(* the decision it ends with is that of its own handshake.                 *)
Alone(j, T) ==
  /\ HasFields(j, JobFields) /\ ~j.pooled
  /\ j.pc \in {"ask", "doh", "fetch", "connect"} => T = NewTransport
  /\ j.pc \in {"exchange", "finish"} => ~j.conn.resumed /\ j.conn.decision = "NoTlsa"
  /\ Done(j) /\ Ok(j) =>
       j.conn.decision = IF Secured(j.r) THEN Verdict(j.r, j.conn.server) ELSE "NoTlsa"
  /\ j.pc \in {"connect", "exchange", "finish"} \/ (Done(j) /\ Ok(j)) => j.spilt = FALSE

OneServed ==
  App => /\ served = 0 => transport = NewTransport /\ \A t \in Threads : job[t].pc = "idle"
         /\ \A t, u \in Threads : job[t].pc # "idle" /\ job[u].pc # "idle" => t = u
         /\ \A t \in Threads : Alone(job[t], transport)

BecomesAlone(t) == \E k : Becomes(t, k) /\ k.pc # "idle" /\ Alone(k, transport')

LEMMA FailedAlone ==
  ASSUME NEW t, NEW j, HasFields(j, JobFields), ~j.pooled, NEW error, error # "ok", Becomes(t, Failed(j, error))
  PROVE  BecomesAlone(t)
<1>. DEFINE k == Failed(j, error)
<1>1. HasFields(k, JobFields) /\ k.pc = "done" /\ k.out = error /\ k.pooled = j.pooled /\ Becomes(t, k)
  BY DEF Failed, HasFields, JobFields
<1>. HIDE DEF k
<1>. QED BY <1>1 DEF BecomesAlone, Alone, Ok

LEMMA AcceptAlone ==
  ASSUME NEW t, NEW q, Accept(t, q), OneServed, App
  PROVE  BecomesAlone(t)
<1>. DEFINE n == [NoJob EXCEPT !.pc = "ask", !.q = q, !.r = OriginOf(q, served + 1)]
<1>1. HasFields(n, JobFields) /\ n.pc = "ask" /\ n.pooled = FALSE
  BY DEF NoJob, HasFields, JobFields
<1>2. transport' = NewTransport
  BY DEF Accept, OneServed
<1>3. Becomes(t, n) \/ \E e : e # "ok" /\ Becomes(t, Failed(n, e))
  BY DEF Accept, Admitted, Becomes
<1>. HIDE DEF n
<1>. QED BY <1>1, <1>2, <1>3, FailedAlone DEF BecomesAlone, Alone, Done

LEMMA AskAlone ==
  ASSUME NEW t \in Threads, OneServed, Typed(job[t]), App, AskPrimary(t) \/ AskDoh(t)
  PROVE  BecomesAlone(t)
<1>. DEFINE j == job[t]
            q == Question(j)
<1>1. Under(j) /\ ~j.pooled /\ transport' = NewTransport
  BY DEF AskPrimary, AskDoh, Asks, Under, Done, OneServed, Alone
<1>2. ASSUME NEW o, o.error \in ResolverErrors \cup {"none"}, NEW k \in Resolved(Looked(j, o), o, 0), Becomes(t, k)
      PROVE  BecomesAlone(t)
  <2>. DEFINE n == Looked(j, o)
  <2>1. Under(n) /\ n.pooled = j.pooled
    BY <1>1, LookedUnder
  <2>2. k \in Resolved(n, o, 0)
    BY <1>2
  <2>. HIDE DEF n
  <2>3. Typed(k) /\ k.pooled = n.pooled /\ k.pc \in {"ask", "fetch", "done"} /\ k.out # "ok"
    BY <1>2, <2>1, <2>2, ResolvedHears
  <2>. QED BY <1>1, <1>2, <2>1, <2>3 DEF BecomesAlone, Alone, Ok, Typed
<1>3. \A resolver \in {Primary, Doh} : \A o \in Outcomes(resolver, q) : o.error \in ResolverErrors \cup {"none"}
  BY ResolverAssumption DEF Outcomes
<1>4. CASE AskDoh(t)
  BY <1>2, <1>3, <1>4 DEF AskDoh
<1>5. CASE AskPrimary(t)
  <2>1. PICK o \in Outcomes(Primary, q) :
          \/ \E h : Becomes(t, [Marked(Looked(j, o), o.error) EXCEPT !.pc = "doh", !.heard = @ \cup {h}])
          \/ \E k \in Resolved(Looked(j, o), o, 0) : Becomes(t, k)
    BY <1>5 DEF AskPrimary
  <2>2. ASSUME NEW h, Becomes(t, [Marked(Looked(j, o), o.error) EXCEPT !.pc = "doh", !.heard = @ \cup {h}])
        PROVE  BecomesAlone(t)
    <3>. DEFINE n == Looked(j, o)
                k == [Marked(n, o.error) EXCEPT !.pc = "doh", !.heard = @ \cup {h}]
    <3>1. Under(n) /\ n.pooled = j.pooled
      BY <1>1, LookedUnder
    <3>2. Becomes(t, k)
      BY <2>2
    <3>. HIDE DEF n
    <3>3. HasFields(k, JobFields) /\ k.pc = "doh" /\ k.pooled = n.pooled
      BY <3>1 DEF HasFields, JobFields, Under, Typed, Marked
    <3>. HIDE DEF k
    <3>. QED BY <1>1, <3>1, <3>2, <3>3 DEF BecomesAlone, Alone, Done
  <2>. QED BY <1>2, <1>3, <2>1, <2>2
<1>. QED BY <1>4, <1>5

LEMMA FetchAlone ==
  ASSUME GatewayInv, NEW t \in Threads, OneServed, App,
         Start(t) \/ Connect(t) \/ Lost(t) \/ Finish(t) \/ (job[t].pc = "exchange" /\ \E reply : Reply(t, reply))
  PROVE  BecomesAlone(t)
<1>. DEFINE j == job[t]
<1>1. Alone(j, transport) /\ HasFields(j, JobFields) /\ ~j.pooled
  BY DEF OneServed, Alone
<1>2. ASSUME NEW e, e # "ok", Becomes(t, Failed(j, e)) PROVE BecomesAlone(t)
  BY <1>1, <1>2, FailedAlone
<1>3. ASSUME NEW wrote, NEW e, e # "ok", Becomes(t, Retried(j, wrote, e)) PROVE BecomesAlone(t)
  <2>. DEFINE n == [j EXCEPT !.body = @ \o wrote, !.spilt = wrote # << >>]
  <2>1. HasFields(n, JobFields) /\ ~n.pooled
    BY <1>1 DEF HasFields, JobFields
  <2>2. Becomes(t, Failed(n, e))
    BY <1>1, <1>3 DEF Retried
  <2>. HIDE DEF n
  <2>. QED BY <1>3, <2>1, <2>2, FailedAlone
<1>4. HandshakeError(j.r) # "ok"
  BY DEF HandshakeError
<1>5. CASE Start(t)
  <2>1. transport = NewTransport /\ j.spilt = FALSE
    BY <1>1, <1>5 DEF Start, Alone, GatewayInv, JobInv
  <2>2. \A k : Pooled(transport, k) = << >>
    BY <2>1 DEF NewTransport, Pooled
  <2>3. \/ \E e : e # "ok" /\ Becomes(t, Failed(j, e))
        \/ \E r : Becomes(t, [j EXCEPT !.pc = "connect", !.r = r]) /\ UNCHANGED transport
    BY <1>5, <2>2 DEF Start, RequestError
  <2>4. ASSUME NEW r, Becomes(t, [j EXCEPT !.pc = "connect", !.r = r]), UNCHANGED transport PROVE BecomesAlone(t)
    <3>. DEFINE k == [j EXCEPT !.pc = "connect", !.r = r]
    <3>1. HasFields(k, JobFields) /\ k.pc = "connect" /\ k.pooled = j.pooled /\ k.spilt = j.spilt /\ Becomes(t, k)
      BY <1>1, <2>4 DEF HasFields, JobFields
    <3>. HIDE DEF k
    <3>. QED BY <1>1, <2>1, <2>4, <3>1 DEF BecomesAlone, Alone, Done
  <2>. QED BY <1>2, <2>3, <2>4
<1>6. CASE Connect(t)
  <2>0. transport = NewTransport /\ j.spilt = FALSE
    BY <1>1, <1>6 DEF Connect, Alone
  <2>1. transport.sessions = {}
    BY <2>0 DEF NewTransport
  <2>2. \/ \E e : e # "ok" /\ Becomes(t, Failed(j, e))
        \/ \E server : Becomes(t, [j EXCEPT !.pc = "exchange", !.conn = Connection(j.r, server, FALSE)])
    BY <1>4, <1>6, <2>1 DEF Connect
  <2>3. ASSUME NEW server, Becomes(t, [j EXCEPT !.pc = "exchange", !.conn = Connection(j.r, server, FALSE)])
        PROVE  BecomesAlone(t)
    <3>. DEFINE c == Connection(j.r, server, FALSE)
                k == [j EXCEPT !.pc = "exchange", !.conn = c]
    <3>1. c.resumed = FALSE /\ c.decision = "NoTlsa" /\ Becomes(t, k)
      BY <2>3 DEF Connection
    <3>. HIDE DEF c
    <3>2. HasFields(k, JobFields) /\ k.pc = "exchange" /\ k.pooled = j.pooled /\ k.spilt = j.spilt /\ k.conn = c
      BY <1>1 DEF HasFields, JobFields
    <3>. HIDE DEF k
    <3>. QED BY <1>1, <2>0, <3>1, <3>2 DEF BecomesAlone, Alone, Done
  <2>. QED BY <1>2, <2>2, <2>3
<1>7. CASE Lost(t)
  BY <1>3, <1>4, <1>7 DEF Lost
<1>8. ASSUME NEW k, Becomes(t, k), HasFields(k, JobFields), k.pc = "finish", k.pooled = j.pooled, k.spilt = j.spilt,
             k.conn.resumed = j.conn.resumed, k.conn.decision = j.conn.decision, j.pc = "exchange"
      PROVE  BecomesAlone(t)
  BY <1>1, <1>8 DEF BecomesAlone, Alone, Done
<1>9. CASE j.pc = "exchange" /\ \E reply : Reply(t, reply)
  <2>1. HasFields(j.conn, ConnectionFields)
    BY <1>9 DEF GatewayInv, JobInv, Connected, EarnedBy, Earned
  <2>2. PICK reply : Exchange(t, reply) \/ ExchangeFrames(t, reply) \/ Upgrade(t, reply)
    BY <1>9 DEF Reply
  <2>3. CASE Exchange(t, reply)
    <3>1. \/ \E wrote : Becomes(t, Retried(j, wrote, "MalformedResponse"))
          \/ \E wrote, item, rest :
               Becomes(t, [j EXCEPT !.pc = "finish", !.body = @ \o wrote, !.reply = item,
                                    !.conn.backlog = rest, !.conn.interim = @ \/ item.interim])
      BY <2>3 DEF Exchange
    <3>2. ASSUME NEW wrote, NEW item, NEW rest,
                 Becomes(t, [j EXCEPT !.pc = "finish", !.body = @ \o wrote, !.reply = item,
                                      !.conn.backlog = rest, !.conn.interim = @ \/ item.interim])
          PROVE  BecomesAlone(t)
      <4>. DEFINE c == [j.conn EXCEPT !.backlog = rest, !.interim = @ \/ item.interim]
                  k == [j EXCEPT !.pc = "finish", !.body = j.body \o wrote, !.reply = item, !.conn = c]
      <4>1. c.resumed = j.conn.resumed /\ c.decision = j.conn.decision
        BY <2>1 DEF HasFields, ConnectionFields
      <4>2. [j EXCEPT !.pc = "finish", !.body = @ \o wrote, !.reply = item,
                      !.conn.backlog = rest, !.conn.interim = @ \/ item.interim] = k
        BY <1>1 DEF HasFields, JobFields
      <4>3. Becomes(t, k)
        BY <3>2, <4>2
      <4>. HIDE DEF c
      <4>4. HasFields(k, JobFields) /\ k.pc = "finish" /\ k.pooled = j.pooled /\ k.spilt = j.spilt /\ k.conn = c
        BY <1>1 DEF HasFields, JobFields
      <4>. HIDE DEF k
      <4>. QED BY <1>8, <1>9, <4>1, <4>3, <4>4
    <3>. QED BY <1>3, <3>1, <3>2
  <2>4. CASE ExchangeFrames(t, reply)
    <3>1. \/ \E wrote : Becomes(t, Retried(j, wrote, "MalformedResponse"))
          \/ \E body, item : Becomes(t, [j EXCEPT !.pc = "finish", !.body = body, !.reply = item])
      BY <2>4 DEF ExchangeFrames
    <3>2. ASSUME NEW body, NEW item, Becomes(t, [j EXCEPT !.pc = "finish", !.body = body, !.reply = item])
          PROVE  BecomesAlone(t)
      <4>. DEFINE k == [j EXCEPT !.pc = "finish", !.body = body, !.reply = item]
      <4>1. HasFields(k, JobFields) /\ k.pc = "finish" /\ k.pooled = j.pooled /\ k.spilt = j.spilt
            /\ k.conn = j.conn /\ Becomes(t, k)
        BY <1>1, <3>2 DEF HasFields, JobFields
      <4>. HIDE DEF k
      <4>. QED BY <1>8, <1>9, <4>1
    <3>. QED BY <1>3, <3>1, <3>2
  <2>5. CASE Upgrade(t, reply)
    <3>1. \/ Becomes(t, Failed(j, "MalformedResponse"))
          \/ \E item : Becomes(t, [j EXCEPT !.pc = "finish", !.reply = item])
      BY <2>5 DEF Upgrade
    <3>2. ASSUME NEW item, Becomes(t, [j EXCEPT !.pc = "finish", !.reply = item]) PROVE BecomesAlone(t)
      <4>. DEFINE k == [j EXCEPT !.pc = "finish", !.reply = item]
      <4>1. HasFields(k, JobFields) /\ k.pc = "finish" /\ k.pooled = j.pooled /\ k.spilt = j.spilt
            /\ k.conn = j.conn /\ Becomes(t, k)
        BY <1>1, <3>2 DEF HasFields, JobFields
      <4>. HIDE DEF k
      <4>. QED BY <1>8, <1>9, <4>1
    <3>. QED BY <1>2, <3>1, <3>2
  <2>. QED BY <2>2, <2>3, <2>4, <2>5
<1>10. CASE Finish(t)
  <2>. DEFINE decision == IF ~Secured(j.r) THEN "NoTlsa" ELSE Verdict(j.r, j.conn.server)
              c == [j.conn EXCEPT !.decision = decision]
              k == [j EXCEPT !.pc = "done", !.out = "ok", !.conn = c]
  <2>1. HasFields(j.conn, ConnectionFields) /\ j.pc = "finish" /\ ~j.conn.resumed /\ j.conn.decision = "NoTlsa"
        /\ j.spilt = FALSE
    BY <1>1, <1>10 DEF GatewayInv, JobInv, Connected, EarnedBy, Earned, Finish, Alone
  <2>2. Becomes(t, k)
    BY <1>1, <1>10, <2>1 DEF Finish, Decision
  <2>3. c.decision = decision /\ c.server = j.conn.server
    BY <2>1 DEF HasFields, ConnectionFields
  <2>. HIDE DEF c
  <2>4. HasFields(k, JobFields) /\ k.pc = "done" /\ k.pooled = j.pooled /\ k.spilt = j.spilt /\ k.conn = c /\ k.r = j.r
    BY <1>1 DEF HasFields, JobFields
  <2>. HIDE DEF k
  <2>. QED BY <1>1, <2>1, <2>2, <2>3, <2>4 DEF BecomesAlone, Alone
<1>. QED BY <1>5, <1>6, <1>7, <1>9, <1>10

LEMMA NextAlone ==
  ASSUME GatewayInv, GatewayTypes, Stories, OneServed, [Next]_vars
  PROVE  OneServed'
<1>1. ASSUME App, NEW t \in Threads,
             Step(t) \/ \E q \in Requests[App] : AcceptHttp(t, q) \/ AcceptUpgrade(t, q)
      PROVE  OneServed'
  <2>1. Typed(job[t]) /\ Told(job[t])
    BY <1>1 DEF GatewayTypes, Stories
  <2>2. BecomesAlone(t)
    <3>1. CASE \E q \in Requests[App] : AcceptHttp(t, q) \/ AcceptUpgrade(t, q)
      BY <1>1, <3>1, AcceptAlone DEF AcceptHttp, AcceptUpgrade
    <3>2. CASE AskPrimary(t) \/ AskDoh(t)
      BY <1>1, <2>1, <3>2, AskAlone
    <3>3. ~Lookup(t) /\ ~Inner(t) /\ ~Insert(t)
      BY <1>1, <2>1 DEF Lookup, Inner, Insert, Told
    <3>. QED BY <1>1, <3>1, <3>2, <3>3, FetchAlone DEF Step
  <2>3. PICK k : Becomes(t, k) /\ k.pc # "idle" /\ Alone(k, transport')
    BY <2>2 DEF BecomesAlone
  <2>4. job' = [u \in Threads |-> IF u = t THEN k ELSE job[u]]
    BY <2>3 DEF Becomes, GatewayInv
  <2>5. \A u \in Threads \ {t} : job[u].pc = "idle" /\ Alone(job[u], transport)
    <3>1. CASE \E q \in Requests[App] : AcceptHttp(t, q) \/ AcceptUpgrade(t, q)
      BY <1>1, <3>1 DEF AcceptHttp, AcceptUpgrade, Accept, OneServed
    <3>2. CASE Step(t)
      <4>1. job[t].pc # "idle"
        BY <3>2 DEF Step, Lookup, Inner, Insert, AskPrimary, AskDoh, Asks, Start, Connect, Lost, Finish
      <4>. QED BY <1>1, <4>1 DEF OneServed
    <3>. QED BY <1>1, <3>1, <3>2
  <2>6. served' # 0
    <3>1. CASE \E q \in Requests[App] : AcceptHttp(t, q) \/ AcceptUpgrade(t, q)
      BY <1>1, <3>1 DEF AcceptHttp, AcceptUpgrade, Accept, OneServed
    <3>2. CASE Step(t)
      <4>1. job[t].pc # "idle" /\ UNCHANGED served
        BY <3>2 DEF Step, Lookup, Inner, Insert, AskPrimary, AskDoh, Asks, Start, Connect, Lost, Finish,
                    Reply, Exchange, ExchangeFrames, Upgrade
      <4>. QED BY <1>1, <4>1 DEF OneServed
    <3>. QED BY <1>1, <3>1, <3>2
  <2>7. \A u \in Threads \ {t} : Alone(job[u], transport')
    BY <2>5 DEF Alone, Done
  <2>. QED BY <2>3, <2>4, <2>5, <2>6, <2>7 DEF OneServed
<1>2. CASE UNCHANGED <<stack, transport, job, served>>
  BY <1>2 DEF OneServed, App
<1>3. UNCHANGED stack
  <2>1. ASSUME NEW t, Step(t) PROVE UNCHANGED stack
    BY <2>1 DEF Step, Lookup, Inner, Insert, AskPrimary, AskDoh, Start, Connect, Lost, Finish, Reply, Exchange,
           ExchangeFrames, Upgrade
  <2>2. ASSUME NEW t, NEW q, AcceptHttp(t, q) \/ AcceptUpgrade(t, q) PROVE UNCHANGED stack
    BY <2>2 DEF AcceptHttp, AcceptUpgrade, Accept
  <2>. QED BY <2>1, <2>2 DEF Next, Tick, Tunnelling, Closing, vars
<1>4. ~App => OneServed'
  BY <1>3 DEF OneServed, App
<1>. QED BY <1>1, <1>2, <1>4 DEF Next, Tick, Tunnelling, Closing, vars

LEMMA AppServesOne == Spec => [](GatewayInv /\ GatewayTypes /\ Stories /\ OneServed)
<1>1. Init => OneServed
  <2>1. HasFields(NoJob, JobFields) /\ NoJob.pc = "idle" /\ NoJob.pooled = FALSE
    BY DEF NoJob, HasFields, JobFields
  <2>. QED BY <2>1 DEF Init, OneServed, Alone, Done
<1>2. GatewayInv /\ GatewayTypes /\ Stories /\ OneServed /\ [Next]_vars => OneServed'
  BY NextAlone
<1>. QED BY <1>1, <1>2, Types, PTL DEF Spec

(* A client gets one reply, with the whole of its body, whichever          *)
(* connection it came over; in the app it is the reply to the client's own *)
(* request, with nothing of another's before it, and so it is in the       *)
(* library, but for a pooled connection that an interim head came over or  *)
(* that failed when it had begun a body                                    *)
(* (parse_http_response_to_writer_reusable, fetch_http11_to_writer).       *)
THEOREM ResponsesAreOwn == Spec => []OwnResponse
<1>1. ASSUME GatewayInv, OneServed PROVE OwnResponse
  <2>1. \A t \in Threads : Done(job[t]) /\ Ok(job[t]) => Delivered(job[t])
    BY <1>1 DEF GatewayInv, JobInv
  <2>2. \A t \in Threads : App => ~job[t].pooled /\ (Done(job[t]) /\ Ok(job[t]) => ~job[t].spilt)
    BY <1>1 DEF OneServed, Alone
  <2>. QED BY <2>1, <2>2 DEF OwnResponse, Delivered
<1>. QED BY <1>1, AppServesOne, PTL

(* The decision is the one that the labels name: a list of records that    *)
(* can be read has a record that decides, an empty one leaves it to WebPKI *)
(* (evaluate_policy_with_certificate_chain).                               *)
LEMMA TrustIsNamed ==
  ASSUME NEW mode, NEW secure, NEW records, NEW chain, NEW webpki, DOMAIN records \subseteq Nat,
         \A i \in DOMAIN records : Parsable(records[i]),
         Trusts(PolicyDecision(mode, secure, records, chain, webpki))
  PROVE  IF records = << >> THEN PolicyDecision(mode, secure, records, chain, webpki) = "WebPkiFallback"
         ELSE PolicyDecision(mode, secure, records, chain, webpki) \in Ee \cup Ta
<1>1. CASE records = << >>
  BY <1>1 DEF PolicyDecision, NoTlsaDecision, Trusts, Ee, Ta
<1>2. CASE records # << >>
  <2>1. /\ PolicyDecision(mode, secure, records, chain, webpki) = ChainDecision(records, chain, webpki)
        /\ Trusts(ChainDecision(records, chain, webpki))
    BY <1>2 DEF PolicyDecision, Trusts, Ee, Ta
  <2>. DEFINE decides == {i \in DOMAIN records : Decides(records[i], chain, webpki)}
              first == CHOOSE i \in decides : \A j \in decides : i <= j
  <2>2. decides # {} /\ ChainDecision(records, chain, webpki) = records[first].usage
    BY <2>1 DEF ChainDecision, Trusts, Ee, Ta
  <2>3. \E i \in decides : \A j \in decides : i <= j
    BY <2>2, LeastNatural
  <2>4. first \in decides
    BY <2>3
  <2>5. records[first].usage \in Ee \cup Ta
    BY <2>4 DEF Parsable
  <2>. QED BY <1>2, <2>1, <2>2, <2>5
<1>. QED BY <1>1, <1>2

(* The headers that say how the origin was reached are the gateway's own   *)
(* (suppressed_origin_response_header).                                    *)
LEMMA LabelsOf ==
  ASSUME NEW j, j.out \notin Untraced
  PROVE  /\ Named(j, "tls-policy") = IF Ok(j) THEN PolicyLabel(j.conn.decision) ELSE {}
         /\ Named(j, "resolver-policy") = IF Ok(j) /\ j.fell # "none" THEN {"hns-doh-compat"} ELSE {}
         /\ Named(j, "doh-fallback") = {IF j.fell # "none" THEN "yes" ELSE "no"}
         /\ Named(j, "mode") = {IF j.q.strict THEN "strict" ELSE "compatibility"}
<1>. DEFINE own == IF Ok(j) THEN {h \in j.reply.reply.headers : h.name \notin Suppressed} ELSE {}
            policies == IF Ok(j) THEN PolicyLabel(j.conn.decision) ELSE {}
            resolvers == IF Ok(j) /\ j.fell # "none" THEN {"hns-doh-compat"} ELSE {}
            mode == IF j.q.strict THEN "strict" ELSE "compatibility"
            fallback == IF j.fell # "none" THEN "yes" ELSE "no"
            Says(name, v) == [name |-> name, value |-> v]
<1>1. \A h : h \in Headers(j) <=> \/ h \in own
                                  \/ \E v \in policies : h = Says("tls-policy", v)
                                  \/ \E v \in resolvers : h = Says("resolver-policy", v)
                                  \/ h = Says("mode", mode) \/ h = Says("doh-fallback", fallback)
  BY DEF Headers, OkHeaders, TraceHeaders
<1>2. \A h \in own : h.name \notin {"tls-policy", "resolver-policy", "doh-fallback", "mode"}
  BY DEF Suppressed
<1>3. \A name, v : Says(name, v).name = name /\ Says(name, v).value = v
  OBVIOUS
<1>4. \A name, v : v \in Named(j, name) <=> \E h \in Headers(j) : h.name = name /\ h.value = v
  BY Zenon DEF Named
<1>. HIDE DEF own, policies, resolvers, mode, fallback, Says
<1>5. Named(j, "tls-policy") = policies
  <2>1. \A v : v \in Named(j, "tls-policy") <=> v \in policies
    BY <1>1, <1>2, <1>3, <1>4
  <2>. QED BY <2>1
<1>6. Named(j, "resolver-policy") = resolvers
  <2>1. \A v : v \in Named(j, "resolver-policy") <=> v \in resolvers
    BY <1>1, <1>2, <1>3, <1>4
  <2>. QED BY <2>1
<1>7. Named(j, "doh-fallback") = {fallback}
  <2>1. \A v : v \in Named(j, "doh-fallback") <=> v = fallback
    BY <1>1, <1>2, <1>3, <1>4
  <2>. QED BY <2>1
<1>8. Named(j, "mode") = {mode}
  <2>1. \A v : v \in Named(j, "mode") <=> v = mode
    BY <1>1, <1>2, <1>3, <1>4
  <2>. QED BY <2>1
<1>. QED BY <1>5, <1>6, <1>7, <1>8 DEF policies, resolvers, mode, fallback

(* The trace of a protocol says that it was not attempted when there is no *)
(* event of it (dns_protocol_status).                                      *)
LEMMA NotAttempted ==
  ASSUME NEW j, j.lookups \in Seq(Event), NEW protocol, ProtocolTrace(j, protocol) = "not_attempted"
  PROVE  \A i \in DOMAIN j.lookups : j.lookups[i].protocol # protocol
<1>. DEFINE events == {i \in DOMAIN j.lookups : j.lookups[i].protocol = protocol}
            last == CHOOSE i \in events : \A k \in events : k <= i
            n == Len(j.lookups)
<1>1. n \in Nat /\ DOMAIN j.lookups = 1 .. n /\ \A i \in 1 .. n : j.lookups[i] \in Event
  OBVIOUS
<1>2. ASSUME events # {} PROVE FALSE
  <2>. DEFINE S == {n - i : i \in events}
  <2>1. S \in SUBSET Nat /\ S # {}
    <3>1. \A i \in events : i \in 1 .. n /\ n - i \in Nat
      BY <1>1
    <3>. HIDE DEF events
    <3>. QED BY <1>2, <3>1
  <2>2. PICK m \in S : \A x \in S : m <= x
    BY <2>1, LeastNatural
  <2>3. \E i \in events : \A k \in events : k <= i
    <3>1. PICK i \in events : m = n - i
      BY <2>2
    <3>2. ASSUME NEW k \in events PROVE k <= i
      <4>1. n - k \in S
        BY <3>2
      <4>2. n - i <= n - k /\ i \in Int /\ k \in Int
        BY <1>1, <2>2, <3>1, <4>1
      <4>. QED BY <1>1, <4>2
    <3>. QED BY <3>2
  <2>4. last \in events
    BY <2>3
  <2>5. j.lookups[last].status \in Statuses
    BY <1>1, <2>4 DEF Event
  <2>6. "not_attempted" \notin Statuses
    BY DEF Statuses
  <2>7. ProtocolTrace(j, protocol) \in {"ok", "timeout", j.lookups[last].status}
    BY <1>2 DEF ProtocolTrace
  <2>. QED BY <2>5, <2>6, <2>7
<1>. QED BY <1>2

(* The labels of the app's responses say what happened                     *)
(* (hns_tls_policy_header, trace_doh_fallback, map_gateway_error,          *)
(* hns_proof_trace_status, dnssec_trace_status, dns_protocol_status).      *)
THEOREM LabelsAreTrue == Spec => []LabelsTrue
<1>1. ASSUME GatewayInv, GatewayTypes, Stories, OneServed PROVE LabelsTrue
  <2>1. SUFFICES ASSUME App, NEW t \in Threads, Done(job[t]), job[t].out \notin Untraced
                 PROVE  LET j == job[t]
                        IN /\ Named(j, "tls-policy") =
                                IF ~Ok(j) \/ ~Secured(j.r) THEN {}
                                ELSE IF HeardTlsa(j) # {} THEN {"dane"} ELSE {"webpki-fallback"}
                           /\ Named(j, "resolver-policy") # {} <=> Ok(j) /\ DohAsked(j)
                           /\ Named(j, "doh-fallback") = {IF DohAsked(j) THEN "yes" ELSE "no"}
                           /\ DohAsked(j) => Named(j, "mode") = {"compatibility"}
                           /\ (Status(j.out) = 404 /\ ~Ok(j)) \/ ProofTrace(j) = {"not_found"} =>
                                \E h \in j.heard :
                                  h.outcome.error = "NameNotFound" /\ h.outcome \in Primary[h.question]
                           /\ DnssecTrace(j) = "secure" =>
                                \A h \in j.heard : IsAnswer(h.outcome) => h.outcome.secure
                           /\ (TlsTraced(j) /\ DaneTrace(j).match = "pass") <=> "dane" \in Named(j, "tls-policy")
                           /\ ProtocolTrace(j, "udp53") = "not_attempted"
                              /\ ProtocolTrace(j, "tcp53") = "not_attempted" =>
                                \A h \in j.heard : h.outcome.events = << >> \/ h.outcome.events[1].protocol = "doh"
    BY DEF LabelsTrue
  <2>. DEFINE j == job[t]
  <2>2. /\ Told(j) /\ Alone(j, transport) /\ JobInv(j, stack) /\ stack.secure /\ j.pc = "done"
    BY <1>1, <2>1, GatewayAssumption DEF Stories, OneServed, GatewayInv, App, Done
  <2>3. j.fell # "none" <=> DohAsked(j)
    BY <2>2 DEF Told
  <2>4. /\ Named(j, "tls-policy") = IF Ok(j) THEN PolicyLabel(j.conn.decision) ELSE {}
        /\ Named(j, "resolver-policy") = IF Ok(j) /\ j.fell # "none" THEN {"hns-doh-compat"} ELSE {}
        /\ Named(j, "doh-fallback") = {IF j.fell # "none" THEN "yes" ELSE "no"}
        /\ Named(j, "mode") = {IF j.q.strict THEN "strict" ELSE "compatibility"}
    BY <2>1, LabelsOf
  <2>5. Named(j, "tls-policy") = IF ~Ok(j) \/ ~Secured(j.r) THEN {}
                                 ELSE IF HeardTlsa(j) # {} THEN {"dane"} ELSE {"webpki-fallback"}
    <3>1. CASE ~Ok(j)
      BY <2>4, <3>1
    <3>2. CASE Ok(j) /\ ~Secured(j.r)
      <4>1. j.conn.decision = "NoTlsa"
        BY <2>1, <2>2, <3>2 DEF Alone
      <4>. QED BY <2>4, <3>2, <4>1 DEF PolicyLabel, Ee, Ta
    <3>3. CASE Ok(j) /\ Secured(j.r)
      <4>1. PICK list : /\ DOMAIN list \subseteq Nat /\ \A i \in DOMAIN list : Parsable(list[i])
                        /\ list = << >> <=> HeardTlsa(j) = {}
                        /\ \E secure : j.r.tls = [mode |-> stack.https, secure |-> secure, tlsa |-> list]
        BY <1>1, <2>1, <3>3, PolicyIs
      <4>2. PICK secure : j.r.tls = [mode |-> stack.https, secure |-> secure, tlsa |-> list]
        BY <4>1
      <4>. DEFINE d == PolicyDecision(stack.https, secure, list, j.conn.server.chain, j.conn.server.webpki)
      <4>3. Trusts(d)
        BY <2>1, <2>2, <3>3, <4>2 DEF JobInv, Connected, EarnedBy, Earned
      <4>4. j.conn.decision = d
        BY <2>1, <2>2, <3>3, <4>2 DEF Alone, Verdict
      <4>5. IF list = << >> THEN d = "WebPkiFallback" ELSE d \in Ee \cup Ta
        BY <4>1, <4>3, TrustIsNamed
      <4>. HIDE DEF d, j
      <4>. QED BY <2>4, <3>3, <4>1, <4>4, <4>5 DEF PolicyLabel, Ee, Ta
    <3>. QED BY <3>1, <3>2, <3>3
  <2>6. (Status(j.out) = 404 /\ ~Ok(j)) \/ ProofTrace(j) = {"not_found"} =>
          \E h \in j.heard : h.outcome.error = "NameNotFound" /\ h.outcome \in Primary[h.question]
    <3>1. Status(j.out) = 404 => j.out = "NameNotFound"
      BY DEF Status
    <3>2. ProofTrace(j) = {"not_found"} => j.out = "NameNotFound"
      <4>1. {"verified"} # {"not_found"} /\ {"unavailable"} # {"not_found"} /\ {"stale"} # {"not_found"}
            /\ {"failed"} # {"not_found"} /\ CachedProof # {"not_found"}
        BY DEF CachedProof
      <4>. QED BY <4>1 DEF ProofTrace
    <3>. QED BY <2>2, <3>1, <3>2 DEF Told, SaysAbsent, Outcomes
  <2>7. DnssecTrace(j) = "secure" => \A h \in j.heard : IsAnswer(h.outcome) => h.outcome.secure
    <3>1. SUFFICES ASSUME Ok(j) PROVE \A h \in j.heard : IsAnswer(h.outcome) => h.outcome.secure
      BY DEF DnssecTrace
    <3>. QED BY <2>1, <2>2, <3>1 DEF JobInv, Going, Fetching, Connected, Basics, Answers
  <2>8. (TlsTraced(j) /\ DaneTrace(j).match = "pass") <=> "dane" \in Named(j, "tls-policy")
    <3>1. CASE ~Ok(j)
      <4>1. DaneTrace(j).match \in {"failed", "unknown"}
        BY <3>1 DEF DaneTrace
      <4>. QED BY <2>4, <3>1, <4>1
    <3>2. CASE Ok(j)
      <4>1. DaneTrace(j).match = "pass" <=> j.conn.decision \in Ee \cup Ta
        BY <3>2 DEF DaneTrace
      <4>. QED BY <2>4, <3>2, <4>1 DEF PolicyLabel, TlsTraced
    <3>. QED BY <3>1, <3>2
  <2>9. ASSUME ProtocolTrace(j, "udp53") = "not_attempted", ProtocolTrace(j, "tcp53") = "not_attempted",
               NEW h \in j.heard, h.outcome.events # << >>
        PROVE  h.outcome.events[1].protocol = "doh"
    <3>1. PICK i \in DOMAIN j.lookups : j.lookups[i] = h.outcome.events[1]
      BY <2>2, <2>9 DEF Told, Recorded
    <3>2. j.lookups \in Seq(Event) /\ j.lookups[i].protocol \notin {"udp53", "tcp53"}
      BY <2>2, <2>9, NotAttempted DEF Told
    <3>3. j.lookups[i] \in Event
      BY <3>2
    <3>. QED BY <3>1, <3>2, <3>3 DEF Event
  <2>10. DohAsked(j) => ~j.q.strict
    BY <2>2, <2>3 DEF Told
  <2>. HIDE DEF j
  <2>. QED BY <2>3, <2>4, <2>5, <2>6, <2>7, <2>8, <2>9, <2>10 DEF j
<1>. QED BY <1>1, AppServesOne, PTL

================================================================================
