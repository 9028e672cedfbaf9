----------------------------- MODULE HeaderChain -----------------------------
(***************************************************************************)
(* The header store and best-tip selection of rust/crates/hns-chain.       *)
(*                                                                         *)
(* Three SQLite tables (headers_by_hash, hash_by_height, chain_state) are  *)
(* shared by every thread that has opened headers.sqlite; each thread runs *)
(* insert_genesis, insert_header or insert_headers, whose reads and two    *)
(* write transactions (put, then promote) interleave with the others and   *)
(* with process death.                                                     *)
(*                                                                         *)
(* A header's hash commits to its whole ancestry, so a header is modelled  *)
(* as the sequence of labels from the genesis header to it: the genesis is *)
(* the empty sequence and prev_block is the sequence without its last      *)
(* label.                                                                  *)
(***************************************************************************)
EXTENDS Naturals, Sequences, FiniteSets

CONSTANTS
  Worker,     \* threads that may be inside a HeaderChain call
  Label,      \* labels that tell the children of one header apart
  Header,     \* the headers anybody may ever send
  ValidBits,  \* those whose bits match expected_mainnet_bits_with_pending
  ValidPow,   \* those whose hash satisfies the target of their bits
  Work,       \* Chainwork::from_bits of each header
  Singles,    \* the headers insert_header may be called with
  Batches,    \* the batches insert_headers may be called with
  NoHash,     \* "no best_hash row"
  Faults      \* which of "crash", "storage" and "read" may happen

Genesis == << >>

ASSUME HeaderAssumption ==
  /\ Header \subseteq Seq(Label)
  /\ Genesis \in Header
  /\ NoHash \notin Header
ASSUME WorkAssumption == Work \in [Header -> Nat \ {0}]
ASSUME ValidityAssumption == ValidBits \subseteq Header /\ ValidPow \subseteq Header
ASSUME InputAssumption == Singles \subseteq Header /\ Batches \subseteq Seq(Header)
ASSUME FaultAssumption == Faults \subseteq {"crash", "storage", "read"}

VARIABLES
  headers,    \* headers_by_hash: hash -> [height, chainwork]
  canonical,  \* hash_by_height: height -> hash
  best,       \* chain_state['best_hash']
  call        \* call[w]: the local variables of worker w's call

vars == <<headers, canonical, best, call>>

(* BlockHeader.prev_block; the genesis names no known block. *)
Parent(h) == SubSeq(h, 1, Len(h) - 1)
HasParentIn(h, S) == h # Genesis /\ Parent(h) \in S

Row == [hash : Header, height : Nat, work : Nat]
HashesOf(rows) == {rows[i].hash : i \in 1 .. Len(rows)}

Idle == [op |-> "none", pc |-> "idle", batch |-> << >>, next |-> 1,
         accepted |-> << >>, promote |-> "none", upto |-> 0, result |-> "none"]

Result == {"none", "Ok", "UnknownParent", "InvalidDifficultyBits", "InvalidProofOfWork",
           "DuplicateHeader", "MissingBestHeader", "Storage"}

Call ==
  [op : {"none", "genesis", "header", "batch"},
   pc : {"idle", "validate", "decide", "put", "promote"},
   batch : Seq(Header), next : Nat \ {0}, accepted : Seq(Row),
   promote : {"none", "tips", "replace"}, upto : Nat, result : Result]

Init ==
  /\ headers = [h \in {} |-> [height |-> 0, work |-> 0]]
  /\ canonical = [n \in {} |-> Genesis]
  /\ best = NoHash
  /\ call = [w \in Worker |-> Idle]

(* The call of w returns r; its local variables are gone. *)
Return(w, r) == call' = [call EXCEPT ![w] = [Idle EXCEPT !.result = r]]

GenesisRow == [hash |-> Genesis, height |-> 0, work |-> Work[Genesis]]

(* A row for header h whose parent is stored or pending. *)
ParentRow(h, rows) ==
  IF Parent(h) \in HashesOf(rows)
  THEN rows[CHOOSE i \in 1 .. Len(rows) : rows[i].hash = Parent(h)]
  ELSE [hash |-> Parent(h), height |-> headers[Parent(h)].height,
        work |-> headers[Parent(h)].work]

RowFor(h, rows) ==
  [hash |-> h, height |-> ParentRow(h, rows).height + 1,
   work |-> ParentRow(h, rows).work + Work[h]]

(* Mutation of Verdict: verify_pow is never called. *)
VerdictWithoutPow(h, known) ==
  CASE ~HasParentIn(h, known) -> "UnknownParent"
    [] HasParentIn(h, known) /\ h \notin ValidBits -> "InvalidDifficultyBits"
    [] OTHER -> "Ok"

(* The checks of one header, in the code's order. *)
Verdict(h, known) ==
  CASE ~HasParentIn(h, known) -> "UnknownParent"
    [] HasParentIn(h, known) /\ h \notin ValidBits -> "InvalidDifficultyBits"
    [] HasParentIn(h, known) /\ h \in ValidBits /\ h \notin ValidPow -> "InvalidProofOfWork"
    [] OTHER -> "Ok"

(* get_header and best_hash turn an SQLite error into "no such row", so a  *)
(* read of a row that exists may find none.                                *)
ReadMayFail == "read" \in Faults
BestReads == {best} \cup (IF ReadMayFail THEN {NoHash} ELSE {})

-----------------------------------------------------------------------------
(* insert_genesis, called by run_sync_once only when no best header is     *)
(* read; the put and the replacement of the canonical chain come later.    *)
BeginGenesis(w) ==
  /\ call[w].pc = "idle"
  /\ NoHash \in BestReads
  /\ call' = [call EXCEPT ![w] =
       [Idle EXCEPT !.op = "genesis", !.pc = "put", !.accepted = <<GenesisRow>>,
                    !.promote = "replace", !.upto = 1]]
  /\ UNCHANGED <<headers, canonical, best>>

(* insert_header up to put_header: validate against the stored parent. *)
BeginHeader(w, h) ==
  /\ call[w].pc = "idle"
  /\ LET verdict == Verdict(h, DOMAIN headers)
     IN IF verdict = "Ok"
        THEN call' = [call EXCEPT ![w] =
               [Idle EXCEPT !.op = "header", !.pc = "put",
                            !.accepted = <<RowFor(h, << >>)>>]]
        ELSE Return(w, verdict)
  /\ UNCHANGED <<headers, canonical, best>>

(* insert_headers; run_sync_once calls it only after it read a best header  *)
(* or inserted the genesis.                                                *)
BeginBatch(w, b) ==
  /\ call[w].pc = "idle"
  /\ best # NoHash
  /\ call' = [call EXCEPT ![w] =
       [Idle EXCEPT !.op = "batch", !.pc = "validate", !.batch = b]]
  /\ UNCHANGED <<headers, canonical, best>>

Seen(w, h) == \E i \in 1 .. (call[w].next - 1) : call[w].batch[i] = h

(* Mutation of ValidateSkip: a header that is stored already is an error. *)
ValidateDuplicate(w) ==
  /\ call[w].pc = "validate"
  /\ call[w].next <= Len(call[w].batch)
  /\ Seen(w, call[w].batch[call[w].next]) \/ call[w].batch[call[w].next] \in DOMAIN headers
  /\ Return(w, "DuplicateHeader")
  /\ UNCHANGED <<headers, canonical, best>>

(* One iteration of insert_headers' loop. *)
ValidateSkip(w) ==
  /\ call[w].pc = "validate"
  /\ call[w].next <= Len(call[w].batch)
  /\ Seen(w, call[w].batch[call[w].next]) \/ call[w].batch[call[w].next] \in DOMAIN headers
  /\ call' = [call EXCEPT ![w].next = @ + 1]
  /\ UNCHANGED <<headers, canonical, best>>

ValidateNew(w) ==
  /\ call[w].pc = "validate"
  /\ call[w].next <= Len(call[w].batch)
  /\ LET h == call[w].batch[call[w].next]
         rows == call[w].accepted
         verdict == Verdict(h, DOMAIN headers \cup HashesOf(rows))
     IN /\ ~Seen(w, h)
        /\ h \in DOMAIN headers => ReadMayFail
        /\ IF verdict = "Ok"
           THEN call' = [call EXCEPT ![w].next = @ + 1,
                                     ![w].accepted = Append(@, RowFor(h, rows))]
           ELSE Return(w, verdict)
  /\ UNCHANGED <<headers, canonical, best>>

ValidateEnd(w) ==
  /\ call[w].pc = "validate"
  /\ call[w].next > Len(call[w].batch)
  /\ IF call[w].accepted = << >>
     THEN Return(w, "Ok")
     ELSE call' = [call EXCEPT ![w].pc = "decide"]
  /\ UNCHANGED <<headers, canonical, best>>

(* Mutation of BestIndex: the last accepted header is taken for the best.  *)
LastIndex(rows) == Len(rows)

(* Iterator::max_by returns the last of several maximal elements. *)
BestIndex(rows) ==
  CHOOSE i \in 1 .. Len(rows) :
    \A j \in 1 .. Len(rows) :
      rows[j].work < rows[i].work \/ (rows[j].work = rows[i].work /\ j <= i)

Contiguous(rows, n) ==
  \A k \in 1 .. (n - 1) : HasParentIn(rows[k + 1].hash, {rows[k].hash})

(* Mutation of ExtendsBest: only the first row is compared. *)
FirstExtendsBest(b, rows, n) == b # NoHash /\ HasParentIn(rows[1].hash, {b})

ExtendsBest(b, rows, n) ==
  b # NoHash /\ HasParentIn(rows[1].hash, {b}) /\ Contiguous(rows, n)

(* Mutation of Promotion: a tie moves the tip. *)
PromotionOnTie(b, rows) ==
  LET n == BestIndex(rows)
  IN IF b # NoHash /\ rows[n].work < headers[b].work THEN "none"
     ELSE IF ExtendsBest(b, rows, n) THEN "tips" ELSE "replace"

(* How, and whether, the heaviest row is promoted over the best header b.  *)
Promotion(b, rows) ==
  LET n == BestIndex(rows)
  IN IF b # NoHash /\ rows[n].work <= headers[b].work THEN "none"
     ELSE IF ExtendsBest(b, rows, n) THEN "tips" ELSE "replace"

(* Read the best header and decide about the promotion:                    *)
(* insert_headers decides before its put, insert_header after it.          *)
Decide(w) ==
  /\ call[w].pc = "decide"
  /\ \E b \in BestReads :
       LET rows == call[w].accepted
           how == Promotion(b, rows)
           n == BestIndex(rows)
       IN IF call[w].op = "batch"
          THEN call' = [call EXCEPT ![w].pc = "put", ![w].promote = how, ![w].upto = n]
          ELSE IF how = "none"
          THEN Return(w, "Ok")
          ELSE call' = [call EXCEPT ![w].pc = "promote", ![w].promote = how, ![w].upto = n]
  /\ UNCHANGED <<headers, canonical, best>>

(* put_header / put_headers: one transaction, rolled back when a row is    *)
(* already there.                                                          *)
RowOf(rows, h) == rows[CHOOSE i \in 1 .. Len(rows) : rows[i].hash = h]

(* Mutation of StoreRows: the transaction is dropped without a commit. *)
StoreNothing(rows) == UNCHANGED headers

StoreRows(rows) ==
  headers' = [h \in DOMAIN headers \cup HashesOf(rows) |->
    IF h \in HashesOf(rows)
    THEN [height |-> RowOf(rows, h).height, work |-> RowOf(rows, h).work]
    ELSE headers[h]]

Put(w) ==
  /\ call[w].pc = "put"
  /\ IF HashesOf(call[w].accepted) \cap DOMAIN headers # {}
     THEN Return(w, "DuplicateHeader") /\ UNCHANGED headers
     ELSE /\ StoreRows(call[w].accepted)
          /\ IF call[w].op = "header"
             THEN call' = [call EXCEPT ![w].pc = "decide"]
             ELSE IF call[w].promote = "none"
             THEN Return(w, "Ok")
             ELSE call' = [call EXCEPT ![w].pc = "promote"]
  /\ UNCHANGED <<canonical, best>>

(* promote_canonical_tips: upsert the new heights, then best_hash, in one  *)
(* transaction.                                                            *)
PromoteTips(w) ==
  /\ call[w].pc = "promote"
  /\ call[w].promote = "tips"
  /\ LET rows == call[w].accepted
         n == call[w].upto
         heights == {rows[i].height : i \in 1 .. n}
     IN /\ canonical' = [k \in DOMAIN canonical \cup heights |->
             IF k \in heights
             THEN rows[CHOOSE i \in 1 .. n : rows[i].height = k].hash
             ELSE canonical[k]]
        /\ best' = rows[n].hash
  /\ Return(w, "Ok")
  /\ UNCHANGED headers

(* Mutation of ChainTo: the walk stops before the genesis. *)
ChainWithoutGenesis(h) == [k \in 1 .. Len(h) |-> SubSeq(h, 1, k)]

(* canonical_chain_to *)
ChainTo(h) == [k \in 0 .. Len(h) |-> SubSeq(h, 1, k)]

(* promote_best_hash: walk to the new tip, then one transaction that       *)
(* deletes every canonical row and inserts the walked ones.                *)
PromoteReplace(w) ==
  /\ call[w].pc = "promote"
  /\ call[w].promote = "replace"
  /\ LET tip == call[w].accepted[call[w].upto].hash
     IN canonical' = ChainTo(tip) /\ best' = tip
  /\ Return(w, "Ok")
  /\ UNCHANGED headers

(* A write transaction fails (busy, disk full) and rolls back. *)
StorageError(w) ==
  /\ "storage" \in Faults
  /\ call[w].pc \in {"put", "promote"}
  /\ Return(w, "Storage")
  /\ UNCHANGED <<headers, canonical, best>>

(* A parent, an ancestor or the best header's row is not found because its *)
(* read failed.                                                            *)
ReadError(w) ==
  /\ ReadMayFail
  /\ \/ call[w].pc = "validate" /\ Return(w, "UnknownParent")
     \/ call[w].pc = "decide" /\ Return(w, "MissingBestHeader")
     \/ /\ call[w].pc = "promote"
        /\ call[w].promote = "replace"
        /\ Return(w, "MissingBestHeader")
  /\ UNCHANGED <<headers, canonical, best>>

(* The process dies: committed rows stay, every call is forgotten. *)
Crash ==
  /\ "crash" \in Faults
  /\ \E w \in Worker : call[w].pc # "idle"
  /\ call' = [w \in Worker |-> Idle]
  /\ UNCHANGED <<headers, canonical, best>>

Step(w) ==
  \/ ValidateSkip(w)
  \/ ValidateNew(w)
  \/ ValidateEnd(w)
  \/ Decide(w)
  \/ Put(w)
  \/ PromoteTips(w)
  \/ PromoteReplace(w)

Begin(w) ==
  \/ BeginGenesis(w)
  \/ \E h \in Singles : BeginHeader(w, h)
  \/ \E b \in Batches : BeginBatch(w, b)

Next ==
  \/ \E w \in Worker : Begin(w) \/ Step(w) \/ StorageError(w) \/ ReadError(w)
  \/ Crash

Spec == Init /\ [][Next]_vars

-----------------------------------------------------------------------------
(* Every table, and every local of a call, has the type of its column or   *)
(* variable; best_hash always names a stored header.                       *)
TypeOK ==
  /\ DOMAIN headers \subseteq Header
  /\ headers \in [DOMAIN headers -> [height : Nat, work : Nat]]
  /\ DOMAIN canonical \subseteq Nat
  /\ canonical \in [DOMAIN canonical -> DOMAIN headers]
  /\ best \in DOMAIN headers \cup {NoHash}
  /\ call \in [Worker -> Call]

(* Stored headers form one valid tree: apart from the genesis, a stored    *)
(* header passed both checks, its parent is stored, and its height and     *)
(* chainwork are its parent's plus its own.  canonical_chain_to,           *)
(* suitable_block and ancestor walk prev_block and rely on it; puts of     *)
(* other threads and rolled back transactions must not break it.           *)
StoreSound ==
  \A h \in DOMAIN headers :
    IF h = Genesis
    THEN headers[h] = [height |-> 0, work |-> Work[h]]
    ELSE /\ h \in ValidBits \cap ValidPow
         /\ Parent(h) \in DOMAIN headers
         /\ headers[h] = [height |-> headers[Parent(h)].height + 1,
                          work |-> headers[Parent(h)].work + Work[h]]

(* However calls interleave, a row of hash_by_height names a stored header *)
(* of that height, and the best header is the row at its own height        *)
(* (canonical_header trusts both).                                         *)
TipOnCanonical ==
  /\ \A k \in DOMAIN canonical : headers[canonical[k]].height = k
  /\ best # NoHash => /\ headers[best].height \in DOMAIN canonical
                      /\ canonical[headers[best].height] = best

(* With one writer, hash_by_height is exactly the path from the genesis to *)
(* the best header: appended tips and reorganisations leave no row of an   *)
(* abandoned branch, below or above the tip.                               *)
CanonicalIsBestPath ==
  IF best = NoHash THEN DOMAIN canonical = {} ELSE canonical = ChainTo(best)

(* An insertion that returns Ok leaves no header it accepted heavier than  *)
(* the best one, in whatever order the batch held them and whatever calls  *)
(* were interrupted before it ("best-chain selection by chainwork").       *)
Succeeds(w) == call[w].pc # "idle" /\ call'[w].pc = "idle" /\ call'[w].result = "Ok"

AcceptedNotHeavier ==
  [][\A w \in Worker : Succeeds(w) =>
       \A i \in 1 .. Len(call[w].accepted) :
         best' # NoHash /\ call[w].accepted[i].work <= headers'[best'].work]_vars

(* The best header is replaced only by a strictly heavier one: a tie or a  *)
(* lighter branch never moves the tip, whatever is interrupted.            *)
BestWorkRises ==
  [][best' # best =>
       /\ best' # NoHash
       /\ best # NoHash => headers'[best'].work > headers'[best].work]_vars

-----------------------------------------------------------------------------
(* With one writer the store is a BestChain, whatever interrupts it.       *)
BC == INSTANCE BestChain WITH
  Valid <- ValidBits \cap ValidPow,
  known <- [h \in DOMAIN headers |-> headers[h].work],
  index <- canonical,
  tip <- best

ImplementsBestChain == BC!Spec

-----------------------------------------------------------------------------
(* The inductive invariant: what the locals of a call know of the store.   *)

(* Row i may be stored: it is the genesis, or valid on a parent that is    *)
(* stored or is an earlier row.                                            *)
RowSound(rows, i) ==
  LET h == rows[i].hash
  IN /\ rows[i].height = Len(h)
     /\ h = Genesis => rows[i].work = Work[h]
     /\ h # Genesis =>
          /\ h \in ValidBits \cap ValidPow
          /\ \/ /\ Parent(h) \in DOMAIN headers
                /\ rows[i].work = headers[Parent(h)].work + Work[h]
             \/ \E j \in 1 .. (i - 1) :
                  rows[j].hash = Parent(h) /\ rows[i].work = rows[j].work + Work[h]

RowsSound(rows) ==
  /\ \A i \in 1 .. Len(rows) : RowSound(rows, i)
  /\ \A i, j \in 1 .. Len(rows) : rows[i].hash = rows[j].hash => i = j

Stored(rows) ==
  \A i \in 1 .. Len(rows) :
    /\ rows[i].hash \in DOMAIN headers
    /\ headers[rows[i].hash] = [height |-> rows[i].height, work |-> rows[i].work]

(* Every accepted row comes from the part of the batch already read.       *)
FromBatch(c) ==
  \A i \in 1 .. Len(c.accepted) :
    \E j \in 1 .. (c.next - 1) : c.accepted[i].hash = c.batch[j]

CallSound(c) ==
  /\ RowsSound(c.accepted)
  /\ c.pc = "validate" => c.op = "batch" /\ FromBatch(c)
  /\ c.pc \in {"decide", "put", "promote"} => c.accepted # << >>
  /\ c.pc \in {"put", "promote"} /\ c.promote # "none" => c.upto \in 1 .. Len(c.accepted)
  /\ c.pc \in {"put", "promote"} /\ c.promote = "tips" => Contiguous(c.accepted, c.upto)
  /\ c.pc = "promote" \/ (c.pc = "decide" /\ c.op # "batch") => Stored(c.accepted)
  /\ c.pc = "promote" => c.promote # "none"

HeightIsDepth == \A h \in DOMAIN headers : headers[h].height = Len(h)

IInv ==
  /\ TypeOK
  /\ HeightIsDepth
  /\ StoreSound
  /\ \A w \in Worker : CallSound(call[w])

(* With one writer the decision to promote cannot go stale.                *)
PlanFresh(c) ==
  c.pc \in {"put", "promote"} /\ c.promote # "none" =>
    /\ best # NoHash => c.accepted[c.upto].work > headers[best].work
    /\ c.promote = "tips" => best # NoHash /\ HasParentIn(c.accepted[1].hash, {best})

OneWriterInv ==
  /\ CanonicalIsBestPath
  /\ \A w \in Worker : PlanFresh(call[w])

(* Nor does the row that is promoted, or the best header that stays, turn  *)
(* out lighter than an accepted row, even when reads fail.                 *)
NoHeavier(rows, work) == \A i \in 1 .. Len(rows) : rows[i].work <= work

HeaviestKept(c) ==
  /\ c.pc \in {"put", "promote"} /\ c.promote # "none" =>
       NoHeavier(c.accepted, c.accepted[c.upto].work)
  /\ c.pc = "put" /\ c.op # "header" /\ c.promote = "none" =>
       best # NoHash /\ NoHeavier(c.accepted, headers[best].work)

HeaviestInv == \A w \in Worker : HeaviestKept(call[w])

=============================================================================
