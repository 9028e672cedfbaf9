-------------------------------- MODULE MCGateway -------------------------------
(* Host "h" for the app and "g" for the library, at addresses of their own.*)
EXTENDS Gateway

H == <<"h">>
G == <<"g">>
C == <<"c">>
Rec(owner, type, data) == [owner |-> owner, type |-> type, data |-> data]
Ans(S) == [error |-> "none", secure |-> TRUE, records |-> S, events |-> << >>]
Err(e) == [error |-> e, secure |-> FALSE, records |-> {}, events |-> << >>]
Asked(o, events) == [o EXCEPT !.events = events]
Ev(protocol, status) == [protocol |-> protocol, status |-> status]
Insecure(o) == [o EXCEPT !.secure = FALSE]

(* Servers: the one whose key is e1, its successor, one that is unknown.   *)
Cert(i) == [id |-> i, key |-> 10 + i, readable |-> TRUE]
One == [chain |-> <<Cert(1), Cert(5)>>, webpki |-> FALSE, protocols |-> {2}]
Two == [chain |-> <<Cert(2)>>, webpki |-> TRUE, protocols |-> {}]
Other == [chain |-> <<Cert(3)>>, webpki |-> TRUE, protocols |-> {2, 3}]

Ee1 == [usage |-> "DANE-EE", selector |-> "spki", data |-> 11]
Ee2 == [usage |-> "PKIX-EE", selector |-> "cert", data |-> 2]
Ta5 == [usage |-> "DANE-TA", selector |-> "cert", data |-> 5]
Bad == [usage |-> "none", selector |-> "cert", data |-> 1]

Svc(priority, alpn, default, port) ==
  [readable |-> TRUE, priority |-> priority, target |-> H, mandatory |-> {}, alpn |-> alpn,
   default |-> default, port |-> port]

Tlsa(port, host, S) == {Rec(host \o <<port>>, "TLSA", d) : d \in S}
Q(name, type) == [name |-> name, type |-> type]
AppNames == {Q(H, "A"), Q(H, "AAAA"), Q(H, "HTTPS"), Q((H \o <<443>>), "TLSA"), Q((H \o <<8443>>), "TLSA")}
LibNames == {Q(G, "A"), Q((G \o <<443>>), "TLSA")}

At(host) == {Rec(host, "A", [address |-> IF host = G THEN "g" ELSE "a"])}
Alias(S) == {Rec(H, "CNAME", [target |-> C])} \cup S

Udp(status) == <<Ev("udp53", status)>>
Both(status) == <<Ev("udp53", "ok"), Ev("tcp53", status)>>

MCPrimary ==
  [q \in AppNames \cup LibNames |->
     CASE q = Q(H, "A") ->
            {Asked(Ans(At(H)), Udp("ok")), Ans(Alias(At(C))), Ans(Alias({})), Err("NameNotFound"), Err("ProofUnavailable"),
             Asked(Err("DnssecFailed"), Both("ok")), Err("ProofNameMismatch"), Insecure(Ans(At(H))),
             Ans(At(H) \cup {Rec(H, "HTTPS", Svc(1, {2}, TRUE, 8443))})}
       [] q = Q(H, "AAAA") -> {Ans({}), Ans({Rec(H, "AAAA", [address |-> "b"])})}
       [] q = Q(H, "HTTPS") ->
            {Ans({}), Ans({Rec(H, "HTTPS", Svc(1, {3}, TRUE, 8443)), Rec(H, "HTTPS", Svc(2, {}, TRUE, 0))}),
             Ans({Rec(H, "HTTPS", Svc(0, {}, TRUE, 0))}), Ans({Rec(H, "HTTPS", Svc(1, {}, FALSE, 0))}),
             Asked(Err("DnsTransport"), Udp("timeout"))}
       [] q = Q(G, "A") -> {Ans(At(G) \cup {Rec(G, "HTTPS", [Svc(1, {}, TRUE, 0) EXCEPT !.target = G])})}
       [] q = Q((G \o <<443>>), "TLSA") -> {Ans(Tlsa(443, G, {Ee1})), Ans(Tlsa(443, G, {Ee2})), Insecure(Ans(Tlsa(443, G, {Ee1})))}
       [] q.type = "TLSA" /\ q.name[1] = "h" ->
            {Ans(Tlsa(q.name[2], H, {Ee1, Ee2})), Ans({}), Ans(Tlsa(q.name[2], H, {Ta5})), Ans(Tlsa(q.name[2], H, {Bad, Ee1}))}]

Over(o) == [o EXCEPT !.events = <<Ev("doh", "ok")>>]
MCDoh ==
  [q \in AppNames |->
     {Over(o) : o \in {Ans(At(H)), Insecure(Ans(At(H))), Err("InvalidDnsResponse")}}
     \cup IF q.type = "TLSA" THEN {Over(Ans(Tlsa(q.name[2], H, {Ee1})))} ELSE {}]

MCOrigins == [p \in {"a", "b", "g"} \X {80, 443, 8443} |-> IF p[1] = "g" THEN {One, Two} ELSE {One, Two, Other}]

Plain == [interim |-> FALSE, framing |-> "length", cut |-> FALSE, close |-> FALSE, alt |-> {}, clear |-> FALSE,
          headers |-> {}, switches |-> FALSE]
Whole2 == [Plain EXCEPT !.framing = "chunked"]
MCReplies ==
  [h \in {H, G} |->
     IF h = H
     THEN {Plain, [Plain EXCEPT !.headers = {[name |-> "tls-policy", value |-> "dane"], [name |-> "server", value |-> "x"]}],
           [Plain EXCEPT !.framing = "ambiguous"], [Plain EXCEPT !.framing = "eof"],
           [Plain EXCEPT !.framing = "eof", !.cut = TRUE], [Plain EXCEPT !.interim = TRUE],
           [Plain EXCEPT !.framing = "none", !.switches = TRUE]}
     ELSE {Whole2, [Plain EXCEPT !.interim = TRUE], [Plain EXCEPT !.cut = TRUE],
           [Plain EXCEPT !.alt = {[protocol |-> 2, port |-> 443, age |-> 5]}]}]

Get(scheme, host, port) ==
  [scheme |-> scheme, host |-> host, qname |-> host, port |-> port, strict |-> FALSE, readable |-> TRUE,
   valid |-> TRUE, upgrade |-> FALSE, tunnel |-> FALSE, head |-> FALSE]
AppRequests ==
  {Get("https", H, 443), [Get("https", H, 443) EXCEPT !.strict = TRUE], Get("http", H, 80),
   [Get("https", H, 443) EXCEPT !.head = TRUE], [Get("http", H, 80) EXCEPT !.readable = FALSE],
   [Get("http", H, 80) EXCEPT !.upgrade = TRUE], Get("ws", H, 80),
   [Get("wss", H, 443) EXCEPT !.upgrade = TRUE, !.tunnel = TRUE]}
LibraryRequests == {Get("https", G, 443), [Get("http", G, 80) EXCEPT !.qname = H]}
MCRequests == [app \in BOOLEAN |-> IF app THEN AppRequests ELSE LibraryRequests]

Stack(app, https, secure) == [app |-> app, https |-> https, secure |-> secure]
MCStacks == {Stack(TRUE, "compat", TRUE), Stack(FALSE, "strict", TRUE), Stack(FALSE, "compat", FALSE)}
================================================================================
