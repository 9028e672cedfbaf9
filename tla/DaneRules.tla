-------------------------------- MODULE DaneRules -------------------------------
(***************************************************************************)
(* The decisions of rust/crates/hns-dane.  A certificate is an id, a key   *)
(* and whether its DER can be read; a TLSA record its usage, selector and  *)
(* what it associates: the value itself for every matching type, since a   *)
(* digest is taken to be injective.                                        *)
(***************************************************************************)
EXTENDS Naturals, Sequences, FiniteSets

Ee == {"PKIX-EE", "DANE-EE"}
Ta == {"PKIX-TA", "DANE-TA"}
Pkix == {"PKIX-TA", "PKIX-EE"}

(* parse_rdata: a usage, selector or matching type that is not known makes *)
(* the record an error.                                                    *)
Parsable(record) == record.usage \in Ee \cup Ta

Selected(record, cert) == IF record.selector = "cert" THEN cert.id ELSE cert.key
MatchesDer(record, cert) == record.data = Selected(record, cert)

(* The key of a certificate is asked for, and its DER cannot be read. *)
Unreadable(record, cert) == record.selector = "spki" /\ ~cert.readable

(* record_matches_chain: an end-entity usage against the leaf, a trust     *)
(* anchor usage against the intermediates, in order.                       *)
AnchorMatch(record, chain) ==
  LET decides == {i \in 2 .. Len(chain) : Unreadable(record, chain[i]) \/ MatchesDer(record, chain[i])}
      first == CHOOSE i \in decides : \A j \in decides : i <= j
  IN IF decides = {} THEN "no" ELSE IF Unreadable(record, chain[first]) THEN "error" ELSE "yes"

RecordMatch(record, chain) ==
  IF record.usage \in Ta THEN AnchorMatch(record, chain)
  ELSE IF MatchesDer(record, chain[1]) THEN "yes" ELSE "no"

(* evaluate_tlsa_for_chain: the first record that matches, of a PKIX usage *)
(* only with a valid WebPKI path, or is in error, decides.                 *)
Decides(record, chain, webpki) ==
  \/ RecordMatch(record, chain) = "error"
  \/ RecordMatch(record, chain) = "yes" /\ (record.usage \in Pkix => webpki)

ChainDecision(records, chain, webpki) ==
  LET decides == {i \in DOMAIN records : Decides(records[i], chain, webpki)}
      first == CHOOSE i \in decides : \A j \in decides : i <= j
  IN IF decides # {}
     THEN IF RecordMatch(records[first], chain) = "error" THEN "Error" ELSE records[first].usage
     ELSE IF \E i \in DOMAIN records : RecordMatch(records[i], chain) = "yes" THEN "WebPkiFailed"
     ELSE "Failed"

(* evaluate_no_tlsa_policy, with WebPKI evaluated. *)
NoTlsaDecision(mode, webpki) ==
  IF mode = "strict" THEN "MissingRequiredTlsa"
  ELSE IF webpki THEN "WebPkiFallback" ELSE "WebPkiFailed"

(* evaluate_policy_with_certificate_chain: the leaf's key is read before   *)
(* anything else when a record needs it.                                   *)
PolicyDecision(mode, secure, records, chain, webpki) ==
  IF \E i \in DOMAIN records : records[i].usage \in Ee /\ Unreadable(records[i], chain[1]) THEN "Error"
  ELSE IF records = << >> THEN NoTlsaDecision(mode, webpki)
  ELSE IF ~secure THEN "InsecureTlsa"
  ELSE ChainDecision(records, chain, webpki)

Trusts(decision) == decision \in Ee \cup Ta \cup {"WebPkiFallback"}
================================================================================
