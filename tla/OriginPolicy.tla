------------------------------ MODULE OriginPolicy ------------------------------
(***************************************************************************)
(* What rust/crates/hns-gateway reads out of resolved records: the address *)
(* to connect to, the HTTPS service binding, the TLSA records.  A record   *)
(* is its owner, type and data; a set of records stands for a list of them *)
(* in any order, so a choice by position is a set of outcomes.             *)
(***************************************************************************)
EXTENDS Naturals, Sequences, FiniteSets

CONSTANT MaxCnameDepth      \* MAX_CNAME_CHAIN_LEN

Of(S, owner, type) == {r \in S : r.owner = owner /\ r.type = type}
AddressRecords(S, owner) == Of(S, owner, "A") \cup Of(S, owner, "AAAA")

(* resolved_address_for_owner: the addresses at the end of the CNAMEs, the *)
(* only one of each owner, from host on.                                   *)
ResolvedAddresses(S, host) ==
  LET at[d \in 0 .. MaxCnameDepth + 1, owner \in {host} \cup {r.data.target : r \in {r \in S : r.type = "CNAME"}}] ==
        LET cname == Of(S, owner, "CNAME")
        IN IF d > MaxCnameDepth THEN {}
           ELSE IF AddressRecords(S, owner) # {} THEN {r.data.address : r \in AddressRecords(S, owner)}
           ELSE IF Cardinality(cname) = 1 THEN at[d + 1, (CHOOSE r \in cname : TRUE).data.target] ELSE {}
  IN at[0, host]

-----------------------------------------------------------------------------
(* HTTPS service bindings: priority (0 is alias mode), the target's owner, *)
(* the mandatory keys, the ALPN ids, whether the default ALPN holds, the   *)
(* port (0 when there is none).                                            *)
Understood == {"alpn", "no-default-alpn", "port"}

(* from_record, is_alias_mode, validate_supported_mandatory_params *)
BindingError(b, host) ==
  IF ~b.readable THEN {"InvalidSvcb"}
  ELSE IF b.priority = 0 \/ b.target # host \/ ~(b.mandatory \subseteq Understood) THEN {"UnsupportedSvcb"}
  ELSE {}

(* selected_alpn_protocol: 3, 2 or 1, and 0 for none. *)
AlpnProtocol(b, supported) ==
  IF 3 \in supported \cap b.alpn THEN 3
  ELSE IF 2 \in supported \cap b.alpn THEN 2
  ELSE IF 1 \in supported /\ (1 \in b.alpn \/ b.default) THEN 1
  ELSE 0

Preferred(S) == {b \in S : \A c \in S : b.priority <= c.priority}

NoService == [kind |-> "none", protocol |-> 0, port |-> 0]
BadService(error) == [kind |-> error, protocol |-> 0, port |-> 0]

(* selected_https_service *)
HttpsServices(S, host, supported) ==
  LET bindings == {r.data : r \in Of(S, host, "HTTPS")}
      errors == UNION {BindingError(b, host) : b \in bindings}
      usable == {b \in bindings : AlpnProtocol(b, supported) # 0}
  IN IF errors # {} THEN {BadService(e) : e \in errors}
     ELSE IF usable # {}
     THEN {[kind |-> "service", protocol |-> AlpnProtocol(b, supported), port |-> b.port] : b \in Preferred(usable)}
     ELSE IF bindings # {} THEN {BadService("UnsupportedSvcb")}
     ELSE {NoService}

(* tlsa_resolution_request: the owner the records of a port are under.     *)
(* Names are sequences.                                                    *)
TlsaOwner(host, port) == host \o <<port>>

(* tlsa_records: those of the exact owner; one that is malformed spoils    *)
(* them all.  A set of sequences, one for each order.                      *)
TlsaLists(S, owner) ==
  LET data == {r.data : r \in Of(S, owner, "TLSA")}
      n == Cardinality(data)
  IN {s \in [1 .. n -> data] : {s[i] : i \in 1 .. n} = data}
================================================================================
