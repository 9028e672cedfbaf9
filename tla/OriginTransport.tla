----------------------------- MODULE OriginTransport ----------------------------
(***************************************************************************)
(* TcpHttpTransport of rust/crates/hns-transport: one request is fetched   *)
(* over a pooled or a new connection, and what the transport keeps between *)
(* requests.  The transport is a value: pool, Alt-Svc entries, the TLS     *)
(* sessions that may be resumed and the last decision of each verifier.    *)
(*                                                                         *)
(* A connection carries replies in order.  A reply has two parts of body;  *)
(* one that is cut ends after the first.                                   *)
(***************************************************************************)
EXTENDS DaneRules

CONSTANTS
  PoolLimit,      \* MAX_HTTP11_POOL_PER_ORIGIN
  MaxAltSvcAge    \* MAX_ALT_SVC_AGE_SECS

ASSUME PoolAssumption == PoolLimit \in Nat \ {0}

NewTransport == [pool |-> << >>, alt |-> << >>, sessions |-> {}, last |-> << >>]

\* A map with one entry more, or another value in one.
With(f, k, value) == [x \in DOMAIN f \cup {k} |-> IF x = k THEN value ELSE f[x]]

Secured(r) == r.scheme \in {"https", "wss"}

(* validate_request, validate_tunnel_request *)
RequestError(r) ==
  IF ~r.valid THEN "InvalidRequest"
  ELSE IF r.upgrade # r.tunnel THEN "UnsupportedUpgrade"
  ELSE "none"

-----------------------------------------------------------------------------
(* The pool *)

(* Mutation of PoolKey: connections are shared across TLS policies. *)
PoolKeyWithoutTls(r) == <<r.scheme, r.host, r.connect, r.port>>
PoolKey(r) == <<r.scheme, r.host, r.connect, r.port, r.tls>>

Pooled(T, k) == IF k \in DOMAIN T.pool THEN T.pool[k] ELSE << >>
Taken(T, k) == [T EXCEPT !.pool[k] = Tail(@)]
Put(T, k, c) ==
  LET p == Pooled(T, k)
  IN [T EXCEPT !.pool = With(@, k, Append(IF Len(p) >= PoolLimit THEN Tail(p) ELSE p, c))]

-----------------------------------------------------------------------------
(* Alt-Svc: an entry may be learnt over HTTP/1.1 and raises the protocol.  *)
AltKey(r) == <<r.host, r.port>>

(* promoted_request *)
ByAltSvc(T, r, now) ==
  LET k == AltKey(r)
  IN IF r.scheme = "https" /\ r.protocol # 3 /\ k \in DOMAIN T.alt
        /\ T.alt[k].expires > now /\ T.alt[k].port = r.port
     THEN [r EXCEPT !.protocol = T.alt[k].protocol] ELSE r

(* selected_alt_svc_endpoint: of those on the same port that may be kept   *)
(* at all, the best protocol, for a day at most.                           *)
AltEndpoint(alts, port, now) ==
  LET usable == {a \in alts : a.protocol \in {2, 3} /\ a.port = port /\ a.age # 0}
      best == CHOOSE a \in usable : \A b \in usable : b.protocol <= a.protocol
      age == IF best.age > MaxAltSvcAge THEN MaxAltSvcAge ELSE best.age
  IN IF usable = {} THEN {} ELSE {[protocol |-> best.protocol, port |-> port, expires |-> now + age]}

(* record_alt_svc *)
AltRecorded(T, r, reply, now) ==
  LET k == AltKey(r)
      e == AltEndpoint(reply.alt, r.port, now)
  IN IF r.scheme # "https" THEN T
     ELSE IF reply.clear THEN [T EXCEPT !.alt = [x \in DOMAIN @ \ {k} |-> @[x]]]
     ELSE IF e = {} THEN T
     ELSE [T EXCEPT !.alt = With(@, k, CHOOSE x \in e : TRUE)]

-----------------------------------------------------------------------------
(* TLS *)

(* verify_server_cert: what the policy makes of the chain presented. *)
Verdict(r, server) == PolicyDecision(r.tls.mode, r.tls.secure, r.tls.tlsa, server.chain, server.webpki)

(* What a ticket is kept under, and the server that gave it. *)
Session(r, server) == [tls |-> r.tls, alpn |-> r.protocol, host |-> r.host, server |-> server]

(* store_capture: the verifier of a policy remembers its last decision. *)
Captured(T, r, server) ==
  [T EXCEPT !.last = With(@, <<r.tls, r.host>>, Verdict(r, server)),
            !.sessions = @ \cup {Session(r, server)}]

(* finish_handshake: the decision of this handshake, or, when a session    *)
(* was resumed and no certificate was verified, the verifier's last one.   *)
Decision(T, r, c) == IF c.resumed THEN T.last[<<r.tls, r.host>>] ELSE Verdict(r, c.server)

Connection(r, server, resumed) ==
  [host |-> r.host, at |-> r.connect, port |-> r.port, server |-> server, resumed |-> resumed,
   decision |-> "NoTlsa", backlog |-> << >>, interim |-> FALSE]

-----------------------------------------------------------------------------
(* HTTP/1.1 framing *)

(* What a request puts on the connection's way back. *)
Items(id, reply) ==
  (IF reply.interim THEN <<[id |-> id, interim |-> TRUE, reply |-> reply]>> ELSE << >>)
  \o <<[id |-> id, interim |-> FALSE, reply |-> reply]>>

NoBody(head, item) == head \/ item.interim \/ item.reply.framing = "none"

Delimited(head, item) == NoBody(head, item) \/ item.reply.framing \in {"length", "chunked"}
Malformed(head, item) == ~NoBody(head, item) /\ item.reply.framing = "ambiguous"

Body(head, item) ==
  IF NoBody(head, item) \/ Malformed(head, item) THEN << >>
  ELSE IF item.reply.cut THEN <<<<item.id, 1>>>> ELSE <<<<item.id, 1>>, <<item.id, 2>>>>

(* Mutation of Parses: the announced length is not insisted on. *)
ParsesShort(head, secured, item) == ~Malformed(head, item)

(* parse_http_response_to_writer_reusable: a body that ends with the       *)
(* connection is taken as it is, over TLS when the end is announced.       *)
Parses(head, secured, item) ==
  ~Malformed(head, item) /\ (item.reply.cut => NoBody(head, item) \/ ~(secured \/ Delimited(head, item)))

Reusable(head, item) == Delimited(head, item) /\ ~item.reply.close

-----------------------------------------------------------------------------
(* HTTP/2 and HTTP/3: a transfer coding is an error, before the body is    *)
(* read; so is a body that is cut, or of another length than announced, as *)
(* the empty one of a HEAD request is.  A body of no announced length is   *)
(* whole at its end of stream.  Interim responses are the library's affair.*)
FramesBody(head, item) == IF item.reply.framing = "chunked" THEN << >> ELSE Body(head, item)

FramesParse(head, item) ==
  /\ item.reply.framing \notin {"chunked", "ambiguous"}
  /\ IF NoBody(head, item) THEN item.reply.framing # "length" ELSE ~item.reply.cut
================================================================================
