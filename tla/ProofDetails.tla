------------------------------ MODULE ProofDetails ------------------------------
(***************************************************************************)
(* The proof details the app shows of a name: hns_proof_details of         *)
(* rust/crates/android-ffi reads the cached row, then the best header for  *)
(* how the row is anchored, then the best header again to show it.  It     *)
(* asks no peer and, unlike cached_records, no canonical header.           *)
(***************************************************************************)
EXTENDS ResourceCache

CONSTANT Garbled  \* values that are no resource

ASSUME GarbledAssumption == Garbled \subseteq Value

(* What is typed: a host of a root name, one whose root is no HNS name, or *)
(* no host at all (hns_proof_host_and_root).                               *)
Typed == {[host |-> TRUE, valid |-> TRUE, name |-> n] : n \in Name}
         \cup {[host |-> h, valid |-> FALSE, name |-> 0] : h \in BOOLEAN}

(* hns_proof_details_base_json; value is NoAnswer where no row is shown.   *)
Shown(proof, cache, row, value, current) ==
  [proof |-> proof, cache |-> cache, root |-> row.root, height |-> row.height, value |-> value,
   current |-> current]

NotShown(proof, cache, current) == Shown(proof, cache, NoRow, NoAnswer, current)

(* Mutation of CacheStatus: any height the chain has reached will do. *)
CacheStatusBelowTip(row, best) ==
  IF row.root = NoRoot THEN "no_anchor"
  ELSE IF best = Genesis THEN "anchored_no_current_tip"
  ELSE IF row.height <= Len(best) THEN "anchored_to_current_tip"
  ELSE "anchored_to_height"

(* proof_cache_status; there is no best header before the first sync.      *)
CacheStatus(row, best) ==
  IF row.root = NoRoot THEN "no_anchor"
  ELSE IF best = Genesis THEN "anchored_no_current_tip"
  ELSE IF Len(best) = row.height /\ Root[best] = row.root THEN "anchored_to_current_tip"
  ELSE "anchored_to_height"

ProofStatus(value) ==
  IF value \in Garbled THEN "invalid_resource" ELSE IF value = Absent THEN "not_found" ELSE "verified"

(* hns_proof_details of what is typed, with the rows of one moment, the    *)
(* best header of a later and that of a last one.                          *)
ProofDetails(typed, table, best, current) ==
  CASE ~typed.host -> NotShown("error", "invalid_input", Genesis)
    [] typed.host /\ ~typed.valid -> NotShown("failed", "invalid_name", Genesis)
    [] typed.valid /\ typed.name \notin DOMAIN table -> NotShown("unavailable", "not_cached", current)
    [] typed.valid /\ typed.name \in DOMAIN table ->
         LET row == table[typed.name]
         IN Shown(ProofStatus(row.value), CacheStatus(row, best), row, row.value, current)

(* DetailsTrue: when the tip moves between the reads, an anchored value or *)
(* absence that is shown was still committed to by the shown tree root at  *)
(* the shown height of some branch, and a row said to be anchored to the   *)
(* current tip is what the tip that was compared with commits to.          *)
DetailsTrue ==
  [][tip' # tip =>
       \A typed \in Typed, best \in {tip, tip'} :
         LET d == ProofDetails(typed, rows, best, tip')
         IN /\ d.root # NoRoot =>
                 /\ d.value = Truth[d.root][typed.name]
                 /\ \E h \in Header : Len(h) = d.height /\ Root[h] = d.root
            /\ d.cache = "anchored_to_current_tip" =>
                 d.height = Len(best) /\ d.value = Truth[Root[best]][typed.name]]_vars
================================================================================
