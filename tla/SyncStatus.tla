------------------------------- MODULE SyncStatus -------------------------------
(***************************************************************************)
(* What rust/crates/android-ffi reads out of headers.sqlite and            *)
(* peers.sqlite beside the ticks of HeaderSync: the status the app shows,  *)
(* whether the chain is current enough to believe that a name does not     *)
(* exist, and which peers the gateway asks for a proof.                    *)
(***************************************************************************)
EXTENDS HeaderSync

CONSTANTS
  AllowedLag,    \* LOCAL_CHAIN_CURRENTNESS_ALLOWED_LAG
  EstimatedTip,  \* estimated_mainnet_tip_height
  ProofAsks      \* preferred_peers of a live proof

ASSUME StatusAssumption == AllowedLag \in Nat /\ EstimatedTip \in Nat /\ ProofAsks \in Nat

Unknown == -1
BestHeight == IF best = NoHash THEN Unknown ELSE headers[best].height

(* best_peer_height: banned peers and whatever peers claim count too. *)
BestPeerHeight ==
  LET heights == {table[a].height : a \in DOMAIN table} \ {0}
  IN IF heights = {} THEN Unknown ELSE CHOOSE h \in heights : \A g \in heights : g <= h

(* Mutation of CachedStatus: the store has to be ahead of its peers. *)
CachedStatusAhead == IF BestHeight > 0 /\ BestPeerHeight < BestHeight THEN "up_to_date" ELSE "syncing"

(* classify_cached_sync_status *)
CachedStatus ==
  CASE BestHeight > 0 /\ BestPeerHeight \in 0 .. BestHeight -> "up_to_date"
    [] BestHeight # Unknown /\ BestPeerHeight > BestHeight -> "syncing"
    [] BestHeight > 0 /\ BestPeerHeight = Unknown -> "syncing"
    [] OTHER -> "idle"

Target == IF BestPeerHeight # Unknown THEN BestPeerHeight ELSE EstimatedTip
ChainStale == BestHeight # Unknown /\ Target - BestHeight > AllowedLag

(* best_synced_header: there is no proof at the genesis. *)
ProofHeight == IF BestHeight > 0 THEN BestHeight ELSE Unknown

LiveProofPeers ==
  LET able == {a \in Unbanned(table, 0) : table[a].height >= ProofHeight}
  IN IF ProofHeight = Unknown THEN << >>
     ELSE Take(ProofAsks, Sorted(able, Preference(able, table)))

(* ServesAgain: after forks, lies, bans and failed races the app comes to  *)
(* rest where it says it is up to date, believes a denial, and has an      *)
(* honest peer to ask for a proof at its best header (read_sync_status,    *)
(* local_chain_currentness, select_live_proof_peers).                      *)
ServesAgain ==
  <>[](/\ CachedStatus = "up_to_date"
       /\ ~ChainStale
       /\ Members(LiveProofPeers) \cap Honest # {})
================================================================================
