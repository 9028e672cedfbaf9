--------------------------------- MODULE Gateway --------------------------------
(***************************************************************************)
(* A request through rust/crates/hns-gateway, in the two stacks the        *)
(* repository builds around it.                                            *)
(*                                                                         *)
(*   the app (rust/crates/android-ffi): every request has a transport and  *)
(*   a resolver of its own, the delegating resolver and, unless it is      *)
(*   strict, DNS over HTTPS behind it; an upgraded request goes on as a    *)
(*   tunnel;                                                               *)
(*   the crates as libraries: threads share one Gateway, the cache of a    *)
(*   CachedResolver and a transport.                                       *)
(*                                                                         *)
(* What resolvers may say is a parameter: the module Resolver is about     *)
(* what they do say.                                                       *)
(***************************************************************************)
EXTENDS OriginTransport, OriginPolicy, TtlCache, Tunnel

CONSTANTS
  Threads,
  Stacks,           \* app or not, and of the GatewayConfig: https, secure
  Requests,         \* what clients ask of the app and of the library
  Primary,          \* the outcomes of the validating resolver, by question
  Doh,              \* those of DNS over HTTPS
  Origins,          \* the servers at an address and a port, by these
  Replies,          \* what the origins of a host may reply
  MaxEntries,       \* of the cache
  Ttl,
  MaxRequests,      \* bound
  MaxClock          \* bound

(* doh_fallback_reason: the errors of the primary resolver that the        *)
(* compatibility mode takes to DNS over HTTPS.                             *)
FallsBack ==
  {"ProofUnavailable", "LocalChainNotCurrent", "NoNameserverAddress", "DnsTransport",
   "InvalidDnsResponse", "DnssecFailed"}

(* ResolverError *)
ResolverErrors ==
  FallsBack \cup
  {"InvalidName", "ProofNameMismatch", "NameNotFound", "InvalidResource", "UnsupportedBackend",
   "CachePoisoned", "Storage"}

(* A resolver answers or has an error; a reply has the framing that the    *)
(* transport parses, and a 101 has no body.                                *)
ASSUME ResolverAssumption ==
  \A resolver \in {Primary, Doh} : \A q \in DOMAIN resolver : \A o \in resolver[q] :
    o.error \in ResolverErrors \cup {"none"}
ASSUME CacheAssumption == MaxEntries \in Nat /\ Ttl \in Nat
ASSUME BoundAssumption == MaxRequests \in Nat /\ MaxClock \in Nat
ASSUME GatewayAssumption ==
  \A s \in Stacks :
    /\ s.https \in {"strict", "compat"}
    /\ s.app => s.secure
    /\ \A q \in Requests[s.app] : \A reply \in Replies[q.host] :
         /\ reply.interim \in BOOLEAN /\ reply.cut \in BOOLEAN
         /\ reply.framing \in {"none", "length", "chunked", "eof", "ambiguous"}
         /\ reply.switches => reply.framing = "none"

(* dns_trace_event, doh_trace_event *)
Statuses ==
  {"ok", "timeout", "transport_error", "invalid_response", "dnssec_failed", "error", "http_error"}

(* The primary resolver records its exchanges over UDP and TCP.  DNS over  *)
(* HTTPS records each question that it can put, finds no name absent, and  *)
(* cannot put the names that the primary one refuses to read as well.      *)
ASSUME TraceAssumption ==
  /\ \A q \in DOMAIN Primary : \A o \in Primary[q] :
       o.events \in Seq([protocol : {"udp53", "tcp53"}, status : Statuses])
  /\ \A q \in DOMAIN Doh : \A o \in Doh[q] :
       \/ /\ o.error \in {"none", "DnsTransport", "InvalidDnsResponse"}
          /\ \E status \in Statuses : o.events = <<[protocol |-> "doh", status |-> status]>>
       \/ /\ o.error = "UnsupportedBackend" /\ o.events = << >>
          /\ q \in DOMAIN Primary => \A p \in Primary[q] : p.error \notin FallsBack

VARIABLES clock, stack, cache, transport, job, served

vars == <<clock, stack, cache, transport, job, served, tunnel>>

App == stack.app

-----------------------------------------------------------------------------
(* Outcomes *)

IsAnswer(o) == o.error = "none"

(* map_gateway_error: the status of a failed request. *)
Status(error) ==
  CASE error \in {"BadRequest", "InvalidName", "HostResolutionMismatch", "InvalidRequest"} -> 400
    [] error = "NameNotFound" -> 404
    [] error = "RequestTooLarge" -> 413
    [] error \in {"StorageError", "Storage", "CachePoisoned"} -> 500
    [] error \in {"UnsupportedTransport", "UnsupportedScheme", "UnsupportedUpgrade"} -> 501
    [] error \in {"ProofUnavailable", "LocalChainNotCurrent", "UnsupportedBackend"} -> 503
    [] OTHER -> 502

NoTls == [mode |-> "none", secure |-> FALSE, tlsa |-> << >>]
NoConnection == [decision |-> "NoTlsa", interim |-> FALSE]

(* What a resolver may say to a question. *)
Outcomes(resolver, question) == IF question \in DOMAIN resolver THEN resolver[question] ELSE {}

(* gateway_request *)
OriginOf(q, id) ==
  [id |-> id, scheme |-> q.scheme, host |-> q.host, connect |-> "none", port |-> q.port, protocol |-> 1,
   tls |-> NoTls, valid |-> q.valid, upgrade |-> q.upgrade, tunnel |-> q.tunnel, head |-> q.head]

(* heard and lookups are history: what was answered, what was asked on the *)
(* wire; fell is the fallback root's reason, reply the last one read.      *)
NoJob ==
  [pc |-> "idle", q |-> << >>, r |-> << >>, stage |-> "origin", records |-> {}, pending |-> << >>,
   fell |-> "none", heard |-> {}, lookups |-> << >>, conn |-> NoConnection, pooled |-> FALSE, spilt |-> FALSE,
   body |-> << >>, reply |-> << >>, out |-> "none"]

Failed(j, error) == [j EXCEPT !.pc = "done", !.out = error]

-----------------------------------------------------------------------------
(* resolve_origin_request: which question a stage asks *)
Question(j) ==
  CASE j.stage = "origin" -> [name |-> j.q.qname, type |-> "A"]
    [] j.stage \in {"A", "AAAA"} -> [name |-> j.r.host, type |-> j.stage]
    [] j.stage = "https" -> [name |-> j.r.host, type |-> "HTTPS"]
    [] j.stage = "tlsa" -> [name |-> TlsaOwner(j.r.host, j.r.port), type |-> "TLSA"]

AtStage(j, stage) == [j EXCEPT !.pc = "ask", !.stage = stage]

(* apply_https_service_policy, and the TLSA lookup that follows it. *)
Bound(j, service) ==
  IF service.kind = "none" THEN AtStage(j, "tlsa")
  ELSE IF service.kind # "service" THEN Failed(j, service.kind)
  ELSE AtStage([j EXCEPT !.r.protocol = service.protocol,
                         !.r.port = IF service.port = 0 THEN @ ELSE service.port], "tlsa")

Supported(j) == IF j.r.tunnel THEN {1} ELSE {1, 2, 3}

(* Once there is an address: the HTTPS service of the first answer, else   *)
(* of a lookup of its own.                                                 *)
Addressed(j) ==
  IF ~Secured(j.r) THEN {[j EXCEPT !.pc = "fetch"]}
  ELSE {IF s = NoService THEN AtStage(j, "https") ELSE Bound(j, s) :
          s \in HttpsServices(j.records, j.r.host, Supported(j))}

WithAddress(j, addresses) == UNION {Addressed([j EXCEPT !.r.connect = a]) : a \in addresses}

(* What becomes of a job with an answer's records. *)
After(j, records, secure) ==
  LET addresses == ResolvedAddresses(records, j.r.host)
  IN CASE j.stage \in {"origin", "A", "AAAA"} /\ addresses # {} ->
            WithAddress(IF j.stage = "origin" THEN [j EXCEPT !.records = records] ELSE j, addresses)
       [] j.stage = "origin" /\ addresses = {} -> {AtStage([j EXCEPT !.records = records], "A")}
       [] j.stage = "A" /\ addresses = {} -> {AtStage(j, "AAAA")}
       [] j.stage = "AAAA" /\ addresses = {} -> {Failed(j, "NoResolvedAddress")}
       [] j.stage = "https" -> {Bound(j, s) : s \in HttpsServices(records, j.r.host, Supported(j))}
       [] j.stage = "tlsa" ->
            {IF \A i \in DOMAIN list : Parsable(list[i])
             THEN [j EXCEPT !.pc = "fetch",
                            !.r.tls = [mode |-> stack.https, secure |-> secure, tlsa |-> list]]
             ELSE Failed(j, "InvalidTlsa") : list \in TlsaLists(records, Question(j).name)}

(* What a resolver's outcome makes of the job: require_secure_resolution.  *)
Resolved(j, o, age) ==
  LET k == [j EXCEPT !.heard = @ \cup {[question |-> Question(j), age |-> age, outcome |-> o]}]
  IN IF ~IsAnswer(o) THEN {Failed(k, o.error)}
     ELSE IF stack.secure /\ ~o.secure THEN {Failed(k, "InsecureResolution")}
     ELSE After(k, o.records, o.secure)

-----------------------------------------------------------------------------
(* Accepting a request *)
Init ==
  /\ stack \in Stacks
  /\ clock = 0 /\ served = 0
  /\ cache = EmptyCache /\ transport = NewTransport
  /\ job = [t \in Threads |-> NoJob]
  /\ tunnel = Closed

(* What becomes of a request before anything is asked for it: its headers  *)
(* have to be readable (parse_gateway_headers), the app's stores to open,  *)
(* and the origin has to be the name resolved.                             *)
Admitted(q) ==
  LET j == [NoJob EXCEPT !.pc = "ask", !.q = q, !.r = OriginOf(q, served + 1)]
  IN IF ~q.readable THEN {Failed(j, "BadRequest")}
     ELSE {IF q.host # q.qname THEN Failed(j, "HostResolutionMismatch") ELSE j}
          \cup (IF App THEN {Failed(j, "StorageError")} ELSE {})

(* The app makes a stack for the request. *)
Accept(t, q) ==
  /\ job[t].pc \in {"idle", "done"} /\ served < MaxRequests
  /\ App => served = 0
  /\ served' = served + 1
  /\ \E j \in Admitted(q) : job' = [job EXCEPT ![t] = j]
  /\ UNCHANGED <<clock, stack, cache, transport, tunnel>>

AcceptHttp(t, q) == ~q.tunnel /\ Accept(t, q)
AcceptUpgrade(t, q) == q.tunnel /\ Accept(t, q)

Asks(t) == job[t].pc = "ask"
Becomes(t, j) == job' = [job EXCEPT ![t] = j]

-----------------------------------------------------------------------------
(* CachedResolver: the lock is held for the look-up and again for the      *)
(* insertion, not over the question to the resolver behind it.  The age of *)
(* what is heard is history.                                               *)
Lookup(t) ==
  LET q == Question(job[t])
      hit == Hit(cache, q, clock)
      entry == cache.entries[q]
  IN /\ Asks(t) /\ ~App
     /\ cache' = Got(cache, q, clock)
     /\ IF hit THEN \E j \in Resolved(job[t], entry.value, clock + Ttl - entry.expires) : Becomes(t, j)
        ELSE Becomes(t, [job[t] EXCEPT !.pc = "inner"])
     /\ UNCHANGED <<clock, stack, transport, served, tunnel>>

Inner(t) ==
  /\ job[t].pc = "inner"
  /\ \E o \in Outcomes(Primary, Question(job[t])) :
       IF IsAnswer(o) \/ o.error = "NameNotFound"
       THEN Becomes(t, [job[t] EXCEPT !.pc = "insert", !.pending = o])
       ELSE \E j \in Resolved(job[t], o, 0) : Becomes(t, j)
  /\ UNCHANGED <<clock, stack, cache, transport, served, tunnel>>

Insert(t) ==
  LET j == [job[t] EXCEPT !.pending = << >>]
      o == job[t].pending
  IN /\ job[t].pc = "insert"
     /\ cache' = Inserted(cache, Question(j), o, Ttl, clock, MaxEntries)
     /\ \E k \in Resolved(j, o, 0) : Becomes(t, k)
     /\ UNCHANGED <<clock, stack, transport, served, tunnel>>

-----------------------------------------------------------------------------
(* AndroidGatewayResolver: FallbackResolver, or the primary one alone.     *)
Looked(j, o) == [j EXCEPT !.lookups = @ \o o.events]

(* Mutation of Marked: what is answered at once is not marked. *)
MarkedNot(j, reason) == j
Marked(j, reason) == [j EXCEPT !.fell = reason]

AskPrimary(t) ==
  /\ Asks(t) /\ App /\ job[t].fell = "none"
  /\ \E o \in Outcomes(Primary, Question(job[t])) :
       LET j == Looked(job[t], o)
           h == [question |-> Question(j), age |-> 0, outcome |-> o]
       IN IF o.error \in FallsBack /\ ~j.q.strict
          THEN Becomes(t, [Marked(j, o.error) EXCEPT !.pc = "doh", !.heard = @ \cup {h}])
          ELSE \E k \in Resolved(j, o, 0) : Becomes(t, k)
  /\ UNCHANGED <<clock, stack, cache, transport, served, tunnel>>

(* doh_answer_from_body: secure is the AD bit of a response that matches.  *)
AskDoh(t) ==
  /\ App /\ (job[t].pc = "doh" \/ (Asks(t) /\ job[t].fell # "none"))
  /\ \E o \in Outcomes(Doh, Question(job[t])) :
       \E k \in Resolved(Looked(job[t], o), o, 0) : Becomes(t, k)
  /\ UNCHANGED <<clock, stack, cache, transport, served, tunnel>>

-----------------------------------------------------------------------------
(* The fetch: fetch_to_writer and open_tunnel.                             *)
SchemeError(r) == ~r.tunnel /\ r.scheme \notin {"http", "https"}

Start(t) ==
  LET j == job[t]
      r == IF j.r.tunnel THEN j.r ELSE ByAltSvc(transport, j.r, clock)
      k == PoolKey(r)
      old == Pooled(transport, k)
  IN /\ j.pc = "fetch"
     /\ IF SchemeError(r) THEN Becomes(t, Failed(j, "UnsupportedScheme")) /\ UNCHANGED transport
        ELSE IF RequestError(r) # "none" THEN Becomes(t, Failed(j, RequestError(r))) /\ UNCHANGED transport
        ELSE IF r.protocol = 1 /\ ~r.tunnel /\ old # << >>
        THEN /\ transport' = Taken(transport, k)
             /\ Becomes(t, [j EXCEPT !.pc = "exchange", !.r = r, !.conn = Head(old), !.pooled = TRUE])
        ELSE Becomes(t, [j EXCEPT !.pc = "connect", !.r = r]) /\ UNCHANGED transport
     /\ UNCHANGED <<clock, stack, cache, served, tunnel>>

(* A failed handshake shows as an error of the stream. *)
HandshakeError(r) == IF r.protocol = 3 THEN "Quic" ELSE "Io"

Connect(t) ==
  LET j == job[t]
  IN /\ j.pc = "connect"
     /\ \/ Becomes(t, Failed(j, HandshakeError(j.r))) /\ UNCHANGED transport
        \/ \E server \in Origins[<<j.r.connect, j.r.port>>], resumed \in BOOLEAN :
             LET k == [j EXCEPT !.pc = "exchange", !.conn = Connection(j.r, server, resumed)]
             IN /\ resumed => Secured(j.r) /\ Session(j.r, server) \in transport.sessions
                /\ IF Secured(j.r) /\ ~resumed /\ ~Trusts(Verdict(j.r, server))
                   THEN Becomes(t, Failed(j, HandshakeError(j.r))) /\ UNCHANGED transport
                   ELSE /\ transport' = IF Secured(j.r) /\ ~resumed THEN Captured(transport, j.r, server)
                                        ELSE transport
                        /\ Becomes(t, IF j.r.protocol = 1 \/ j.r.protocol \in server.protocols THEN k
                                      ELSE Failed(j, "UnsupportedTransport"))
     /\ UNCHANGED <<clock, stack, cache, served, tunnel>>

(* After a failed exchange: a pooled connection is replaced by a new one,  *)
(* which appends to the same body.                                         *)
Retried(j, wrote, error) ==
  LET k == [j EXCEPT !.body = @ \o wrote, !.spilt = wrote # << >>]
  IN IF j.pooled THEN [k EXCEPT !.pc = "connect", !.pooled = FALSE] ELSE Failed(k, error)

(* send_plain_http11, send_tls_http11 *)
Exchange(t, reply) ==
  LET j == job[t]
      backlog == j.conn.backlog \o Items(j.r.id, reply)
      item == Head(backlog)
      wrote == Body(j.r.head, item)
  IN /\ j.pc = "exchange" /\ j.r.protocol = 1 /\ ~j.r.tunnel
     /\ IF Parses(j.r.head, Secured(j.r), item)
        THEN /\ transport' = AltRecorded(transport, j.r, item.reply, clock)
             /\ Becomes(t, [j EXCEPT !.pc = "finish", !.body = @ \o wrote, !.reply = item,
                                     !.conn.backlog = Tail(backlog), !.conn.interim = @ \/ item.interim])
        ELSE Becomes(t, Retried(j, wrote, "MalformedResponse")) /\ UNCHANGED transport
     /\ UNCHANGED <<clock, stack, cache, served, tunnel>>

Lost(t) ==
  /\ job[t].pc = "exchange"
  /\ Becomes(t, Retried(job[t], << >>, HandshakeError(job[t].r)))
  /\ UNCHANGED <<clock, stack, cache, transport, served, tunnel>>

(* fetch_https_http2_to_writer, fetch_https_http3_to_writer *)
ExchangeFrames(t, reply) ==
  LET j == job[t]
      item == [id |-> j.r.id, interim |-> FALSE, reply |-> reply]
      wrote == FramesBody(j.r.head, item)
  IN /\ j.pc = "exchange" /\ j.r.protocol # 1
     /\ Becomes(t, IF FramesParse(j.r.head, item)
                   THEN [j EXCEPT !.pc = "finish", !.body = j.body \o wrote, !.reply = item]
                   ELSE Retried(j, wrote, "MalformedResponse"))
     /\ UNCHANGED <<clock, stack, cache, transport, served, tunnel>>

(* send_http11_upgrade: a head other than the 101 asked for is refused,    *)
(* and so is an interim one before it.                                     *)
Upgrade(t, reply) ==
  LET j == job[t]
      item == [id |-> j.r.id, interim |-> FALSE, reply |-> reply]
  IN /\ j.pc = "exchange" /\ j.r.tunnel
     /\ Becomes(t, IF reply.switches /\ ~reply.interim THEN [j EXCEPT !.pc = "finish", !.reply = item]
                   ELSE Failed(j, "MalformedResponse"))
     /\ UNCHANGED <<clock, stack, cache, transport, served, tunnel>>

(* finish_handshake, and the connection goes to the pool; a tunnel opens,  *)
(* if the client can be told.                                              *)
Finish(t) ==
  LET j == job[t]
      decision == IF ~Secured(j.r) \/ j.pooled THEN j.conn.decision ELSE Decision(transport, j.r, j.conn)
      conn == [j.conn EXCEPT !.decision = decision]
      kept == j.r.protocol = 1 /\ ~j.r.tunnel /\ Reusable(j.r.head, j.reply)
  IN /\ j.pc = "finish"
     /\ transport' = IF kept THEN Put(transport, PoolKey(j.r), conn) ELSE transport
     /\ Becomes(t, [j EXCEPT !.pc = "done", !.out = "ok", !.conn = conn])
     /\ IF j.r.tunnel THEN tunnel' \in {Opened, Closed} ELSE UNCHANGED tunnel
     /\ UNCHANGED <<clock, stack, cache, served>>

-----------------------------------------------------------------------------
Tick ==
  /\ ~App /\ clock < MaxClock
  /\ clock' = clock + 1
  /\ UNCHANGED <<stack, cache, transport, job, served, tunnel>>

Tunnelling == TunnelStep /\ UNCHANGED <<clock, stack, cache, transport, job, served>>
Closing == OriginCloses /\ UNCHANGED <<clock, stack, cache, transport, job, served>>

Reply(t, reply) == Exchange(t, reply) \/ ExchangeFrames(t, reply) \/ Upgrade(t, reply)

Step(t) ==
  \/ Lookup(t) \/ Inner(t) \/ Insert(t) \/ AskPrimary(t) \/ AskDoh(t)
  \/ Start(t) \/ Connect(t) \/ Lost(t) \/ Finish(t)
  \/ /\ job[t].pc = "exchange"
     /\ \E reply \in Replies[job[t].q.host] : Reply(t, reply)

Next ==
  \/ \E t \in Threads : Step(t) \/ \E q \in Requests[App] : AcceptHttp(t, q) \/ AcceptUpgrade(t, q)
  \/ Tick \/ Tunnelling \/ Closing

Spec == Init /\ [][Next]_vars

(* A request waits for parties that it may have to wait for without end:   *)
(* peers are asked for proofs, and each of their packets is awaited anew;  *)
(* DNS over HTTPS and HTTP/1.1 origins may send trailers for ever.  HTTP/2 *)
(* and HTTP/3 exchanges and upgrades are bounded, as is each connection.   *)
Awaits(t) ==
  \/ App /\ job[t].pc \in {"ask", "doh"}
  \/ job[t].pc = "exchange" /\ job[t].r.protocol = 1 /\ ~job[t].r.tunnel

(* Every other step is taken.  A half of a tunnel has the lock once it     *)
(* stays free: nobody says in which order those that wait have it.  The    *)
(* origin of a tunnel may take nothing for ever.                           *)
InTunnel(A) == A /\ UNCHANGED <<clock, stack, cache, transport, job, served>>
Fairness ==
  /\ \A t \in Threads : WF_vars(Step(t) /\ ~Awaits(t))
  /\ WF_vars(InTunnel(UpLocks)) /\ WF_vars(InTunnel(DownLocks))
  /\ WF_vars(InTunnel(UpWrites \/ UpTimesOut))
  /\ WF_vars(InTunnel(DownReads)) /\ WF_vars(InTunnel(DownWrites))

FairSpec == Spec /\ Fairness

-----------------------------------------------------------------------------
(* What the app's response says of a request that is done.                 *)
Done(j) == j.pc = "done"
Ok(j) == j.out = "ok"

(* hns_tls_policy_header *)
PolicyLabel(decision) ==
  IF decision \in Ee \cup Ta THEN {"dane"} ELSE IF decision = "WebPkiFallback" THEN {"webpki-fallback"} ELSE {}

(* suppressed_origin_response_header, of the headers that say something    *)
(* about how the origin was reached.                                       *)
Suppressed == {"tls-policy", "resolver-policy", "mode", "doh-fallback", "trace"}

(* origin_response_head and upgrade_response_head, with policy and trace.  *)
OkHeaders(j) ==
  {h \in j.reply.reply.headers : h.name \notin Suppressed}
  \cup {[name |-> "tls-policy", value |-> v] : v \in PolicyLabel(j.conn.decision)}
  \cup IF j.fell # "none" THEN {[name |-> "resolver-policy", value |-> "hns-doh-compat"]} ELSE {}

(* trace_mode, trace_doh_fallback: a failed response carries these too,    *)
(* unless it failed before anything was resolved.                          *)
TraceHeaders(j) ==
  {[name |-> "mode", value |-> IF j.q.strict THEN "strict" ELSE "compatibility"],
   [name |-> "doh-fallback", value |-> IF j.fell # "none" THEN "yes" ELSE "no"]}

Untraced == {"BadRequest", "StorageError"}
Headers(j) ==
  (IF Ok(j) THEN OkHeaders(j) ELSE {}) \cup (IF j.out \in Untraced THEN {} ELSE TraceHeaders(j))

(* The resolution that a trace is about: the answer to the first question. *)
FirstAnswers(j) ==
  {h.outcome : h \in {h \in j.heard : /\ IsAnswer(h.outcome)
                                      /\ h.question = [name |-> j.q.qname, type |-> "A"]}}

(* hns_proof_trace_status; what is cached of the root is anything.         *)
CachedProof == {"unavailable", "failed", "verified", "stale", "not_found", "unknown"}
ProofTrace(j) ==
  IF Ok(j) /\ (\A o \in FirstAnswers(j) : o.secure) THEN {"verified"}
  ELSE CASE j.out = "ProofUnavailable" -> {"unavailable"}
         [] j.out = "NameNotFound" -> {"not_found"}
         [] j.out = "LocalChainNotCurrent" -> {"stale"}
         [] j.out = "ProofNameMismatch" -> {"failed"}
         [] OTHER -> CachedProof

(* dnssec_trace_status *)
DnssecTrace(j) ==
  IF j.out = "DnssecFailed" THEN "bogus"
  ELSE IF ~Ok(j) THEN "unknown"
  ELSE IF \A o \in FirstAnswers(j) : o.secure THEN "secure" ELSE "unsigned"

(* dns_protocol_status *)
ProtocolTrace(j, protocol) ==
  LET events == {i \in DOMAIN j.lookups : j.lookups[i].protocol = protocol}
      statuses == {j.lookups[i].status : i \in events}
      last == CHOOSE i \in events : \A k \in events : k <= i
  IN IF events = {} THEN "not_attempted"
     ELSE IF "ok" \in statuses THEN "ok"
     ELSE IF "timeout" \in statuses THEN "timeout"
     ELSE j.lookups[last].status

(* dane_trace_decision, dane_certificate_match *)
DaneTrace(j) ==
  IF Ok(j)
  THEN IF j.conn.decision \in Ee \cup Ta THEN [decision |-> "verified", match |-> "pass"]
       ELSE IF j.conn.decision = "WebPkiFallback" THEN [decision |-> "webpki_fallback", match |-> "webpki_valid"]
       ELSE [decision |-> "no_tlsa", match |-> "not_checked"]
  ELSE IF j.out = "InvalidTlsa" THEN [decision |-> "failed", match |-> "failed"]
  ELSE [decision |-> "not_evaluated", match |-> "unknown"]

(* tls_trace_json: null for a failed request of a scheme other than https. *)
TlsTraced(j) == Ok(j) \/ j.q.scheme = "https"

-----------------------------------------------------------------------------
(* Properties *)

Errors ==
  ResolverErrors \cup Untraced \cup
  {"none", "ok", "HostResolutionMismatch", "InsecureResolution", "NoResolvedAddress", "InvalidTlsa",
   "InvalidSvcb", "UnsupportedSvcb", "UnsupportedScheme", "UnsupportedTransport", "UnsupportedUpgrade",
   "InvalidRequest", "Io", "Quic", "MalformedResponse"}

(* Each job is somewhere on its way, the pool holds no more connections of *)
(* an origin than it may, and the cache's order lists its keys once each,  *)
(* no more of them than it may hold.                                       *)
TypeOK ==
  /\ clock \in 0 .. MaxClock /\ stack \in Stacks /\ served \in 0 .. MaxRequests
  /\ \A t \in Threads :
       /\ job[t].pc \in {"idle", "ask", "doh", "inner", "insert", "fetch", "connect", "exchange", "finish", "done"}
       /\ job[t].stage \in {"origin", "A", "AAAA", "https", "tlsa"}
       /\ job[t].out \in Errors /\ (Done(job[t]) <=> job[t].out # "none")
  /\ \A k \in DOMAIN transport.pool : Len(transport.pool[k]) <= PoolLimit
  /\ Len(cache.order) = Cardinality(Keys(cache)) /\ Len(cache.order) <= MaxEntries
  /\ Keys(cache) = {cache.order[i] : i \in DOMAIN cache.order}

HeardOf(j, question) == {h.outcome : h \in {h \in j.heard : h.question = question /\ IsAnswer(h.outcome)}}

(* The TLSA records heard for the very port and host of a request. *)
HeardTlsa(j) ==
  UNION {{r.data : r \in Of(o.records, TlsaOwner(j.q.host, j.conn.port), "TLSA")} :
           o \in HeardOf(j, [name |-> TlsaOwner(j.q.host, j.conn.port), type |-> "TLSA"])}

(* TrustedOrigins: an answer to an https request came over a connection to *)
(* an address that answers to the host's questions gave, from a server     *)
(* whose certificate one of the TLSA records heard for that host and port  *)
(* matches; if none was heard, the server's path was valid and the gateway *)
(* is not in strict mode.  With secure resolution required, everything     *)
(* heard that was used was secure; without, no TLSA record that was not    *)
(* secure let a server pass.  Pooled connections, resumed sessions and     *)
(* cached answers are where another request's policy could slip in.        *)
Matches(record, server) ==
  RecordMatch(record, server.chain) = "yes" /\ (record.usage \in Pkix => server.webpki)

TrustedOrigins ==
  \A t \in Threads :
    LET j == job[t]
        answers == {h.outcome : h \in {h \in j.heard : IsAnswer(h.outcome)}}
        tlsa == HeardTlsa(j)
    IN Done(j) /\ Ok(j) =>
         /\ j.conn.at \in UNION {ResolvedAddresses(o.records, j.q.host) : o \in answers}
         /\ stack.secure => \A o \in answers : o.secure
         /\ Secured(j.r) =>
              /\ tlsa # {} => /\ \E r \in tlsa : Matches(r, j.conn.server)
                              /\ \A o \in HeardOf(j, [name |-> TlsaOwner(j.q.host, j.conn.port), type |-> "TLSA"]) : o.secure
              /\ tlsa = {} => j.conn.server.webpki /\ stack.https = "compat"

(* LabelsTrue: the labels of the app's responses say what happened: the    *)
(* TLS policy is the transport's, not the origin's; the resolver policy    *)
(* and the fallback show exactly when DNS over HTTPS was asked, which a    *)
(* strict request never does; 404 is for names proved absent; and a trace  *)
(* that says verified, secure or pass is of a request that was.            *)
Named(j, name) == {h.value : h \in {h \in Headers(j) : h.name = name}}
DohAsked(j) == \E i \in DOMAIN j.lookups : j.lookups[i].protocol = "doh"

LabelsTrue ==
  App => \A t \in Threads :
    LET j == job[t]
    IN Done(j) /\ j.out \notin Untraced =>
         /\ Named(j, "tls-policy") =
              IF ~Ok(j) \/ ~Secured(j.r) THEN {} ELSE IF HeardTlsa(j) # {} THEN {"dane"} ELSE {"webpki-fallback"}
         /\ Named(j, "resolver-policy") # {} <=> Ok(j) /\ DohAsked(j)
         /\ Named(j, "doh-fallback") = {IF DohAsked(j) THEN "yes" ELSE "no"}
         /\ DohAsked(j) => Named(j, "mode") = {"compatibility"}
         /\ (Status(j.out) = 404 /\ ~Ok(j)) \/ ProofTrace(j) = {"not_found"} =>
              \E h \in j.heard : h.outcome.error = "NameNotFound" /\ h.outcome \in Primary[h.question]
         /\ DnssecTrace(j) = "secure" => \A h \in j.heard : IsAnswer(h.outcome) => h.outcome.secure
         /\ (TlsTraced(j) /\ DaneTrace(j).match = "pass") <=> "dane" \in Named(j, "tls-policy")
         /\ ProtocolTrace(j, "udp53") = "not_attempted" /\ ProtocolTrace(j, "tcp53") = "not_attempted" =>
              \A h \in j.heard : h.outcome.events = << >> \/ h.outcome.events[1].protocol = "doh"

(* CacheSound: what is heard was said just now, or put in the cache less   *)
(* than the time to live ago, about the same question, and a live entry    *)
(* leaves the cache only for a new one when it is full of such.            *)
CacheStep ==
  /\ \A t \in Threads :
       \A h \in job'[t].heard \ job[t].heard :
         ~App => (h.age = 0 \/ h.age < Ttl) /\ h.outcome \in Primary[h.question]
  /\ \A k \in Live(cache, clock) \ Keys(cache') : Cardinality(Live(cache, clock)) = MaxEntries
CacheSound == [][CacheStep]_vars

(* OwnResponse: what a client gets is one reply, with the whole of its     *)
(* body: an end of the connection counts as the end only without TLS and   *)
(* without a length, and an interim head counts as a reply with no body.   *)
(* In the app it is the reply to the client's own request, or the interim  *)
(* head before it.  So it is in the library, unless the request took a     *)
(* pooled connection on which such a head had been taken for the reply;    *)
(* and there, what comes first may be the one part that a pooled           *)
(* connection had begun when it failed.                                    *)
ReplyBody(j) ==
  IF NoBody(j.r.head, j.reply) THEN << >>
  ELSE IF j.reply.reply.cut THEN <<<<j.reply.id, 1>>>> ELSE <<<<j.reply.id, 1>>, <<j.reply.id, 2>>>>

Begun(j) == IF j.spilt THEN <<Head(j.body)>> ELSE << >>

OwnResponse ==
  \A t \in Threads :
    LET j == job[t]
    IN Done(j) /\ Ok(j) =>
         /\ j.reply.id = j.r.id \/ (j.pooled /\ j.conn.interim)
         /\ j.reply.reply.cut /\ ~NoBody(j.r.head, j.reply) =>
              ~Secured(j.r) /\ j.reply.reply.framing \notin {"length", "chunked"}
         /\ j.body = Begun(j) \o ReplyBody(j)
         /\ j.spilt => Head(j.body)[2] = 1
         /\ App => ~j.pooled /\ ~j.spilt

(* Progress: every request ends, or waits for ever in one place for one    *)
(* that it has to wait for, however it was sent on, asked again or retried *)
(* before.  A message that waits for the lock of a tunnel goes out or the  *)
(* tunnel's half ends, unless the other half has the lock time and again:  *)
(* neither keeps it for ever, also when the origin takes nothing more.     *)
Progress ==
  /\ \A t \in Threads :
       \/ []<>(job[t].pc \in {"idle", "done"})
       \/ <>[]Awaits(t) /\ <>[][UNCHANGED job[t]]_vars
  /\ (Up("lock") ~> (Up("read") \/ Up("off"))) \/ []<><<DownLocks>>_vars
================================================================================
