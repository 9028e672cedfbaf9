----------------------------- MODULE SyncSession -----------------------------
(***************************************************************************)
(* One connection to a peer, as hns-sync and android-ffi use it: connect,  *)
(* shake hands, and then ask for addresses, for headers or for the proof   *)
(* of a name (HeaderSyncSession and PeerConnection of hns-p2p,             *)
(* ProofScheduler and ProofSyncCoordinator of hns-sync).                   *)
(*                                                                         *)
(* The peer may send any frames at any time and close at any time.  TCP    *)
(* keeps their order and may deliver any part of what is on the wire.      *)
(***************************************************************************)
EXTENDS Frames, UrkelProof

CONSTANTS
  Jobs,         \* what connections are for, with the name to prove and the
                \* tree root of the best synced header
  Frame,        \* the frames a peer may send, for each kind of job
  MaxFrames,    \* how many it sends while the stream is not empty
  MaxUnread,    \* how many cells the wire holds
  ChunkCells,   \* how many of them one read takes
  MaxBatches,   \* max_header_batches_per_peer
  BestHeight,   \* height of that header
  NameHash,     \* each name's hash
  Committed     \* for each root that is one, the values its tree has

ASSUME SessionAssumption ==
  /\ Jobs \subseteq [kind : {"sync", "race", "probe", "proof"}, name : DOMAIN NameHash,
               root : DOMAIN Committed]
  /\ {MaxFrames, MaxUnread, ChunkCells, BestHeight} \subseteq Nat
  /\ MaxBatches \in Nat \ {0}     \* (1 where the configuration says 0)
  /\ \A n \in DOMAIN NameHash : NameHash[n] \in Key
  /\ \A r \in DOMAIN Committed : r = RootOf(Committed[r]) /\ DOMAIN Committed[r] \subseteq Key

\* The numbers in frames are unsigned.
ASSUME FrameAssumption ==
  \A j \in Jobs : \A f \in Frame[j.kind] :
    /\ f.length \in Nat
    /\ f.packet.type = "version" => f.packet.height \in Nat
    /\ f.packet.type = "proof" => Shaped(f.packet.proof)

VARIABLES
  job,       \* what the connection is for
  call,      \* the call that is running, and the header batches asked for
  session,   \* HeaderSyncSession
  decoder,   \* FrameDecoder's buffer
  pending,   \* packets decoded and not handled
  wire,      \* cells sent and not read
  open,      \* the peer has not closed
  tracked,   \* ProofSyncCoordinator's pending requests
  stored,    \* rows the proof scheduler stored
  sent,      \* history: the frames sent since the stream was last empty
  taken,     \* history: the packets handled since then
  torn       \* history: a chunk was dropped

vars == <<job, call, session, decoder, pending, wire, open, tracked, stored, sent, taken, torn>>

NoRemote == [height |-> 0, serves |-> FALSE]

Init ==
  /\ job \in Jobs
  /\ call = [at |-> "connect", batches |-> 0]
  /\ session = [state |-> "awaiting_version", acked |-> FALSE, remote |-> NoRemote]
  /\ decoder = << >> /\ pending = << >> /\ wire = << >> /\ open = TRUE
  /\ tracked = {} /\ stored = {}
  /\ sent = << >> /\ taken = << >> /\ torn = FALSE

-----------------------------------------------------------------------------
(* What a packet does to the session, in the order of on_packet's arms: the
   session after it, how many packets it answers, and what it reports. *)

Says(s, answers, report) == [session |-> s, answers |-> answers, report |-> report]

OnVersion(s, p) ==
  IF ~p.serves \/ p.version < 1 THEN Says([s EXCEPT !.state = "closed"], 0, "disconnect")
  ELSE LET known == [s EXCEPT !.remote = [height |-> p.height, serves |-> TRUE]]
       IN IF s.acked THEN Says([known EXCEPT !.state = "ready"], 1, "ready")
                     ELSE Says([known EXCEPT !.state = "awaiting_verack"], 1, "none")

OnPacket(s, p) ==
  CASE s.state = "awaiting_version" /\ p.type = "version" -> OnVersion(s, p)
    [] s.state = "awaiting_version" /\ p.type = "verack" ->
         Says([s EXCEPT !.acked = TRUE], 0, "none")
    [] s.state = "awaiting_verack" /\ p.type = "verack" ->
         Says([s EXCEPT !.acked = TRUE, !.state = "ready"], 0, "ready")
    [] s.state = "headers_requested" /\ p.type = "headers" ->
         Says([s EXCEPT !.state = "ready"], 0, "headers")
    [] s.state = "proof_requested" /\ p.type = "proof" ->
         Says([s EXCEPT !.state = "ready"], 0, "proof")
    [] s.state = "closed" -> Says(s, 0, "disconnect")
    [] s.state # "closed" /\ p.type \in {"getaddr", "addr", "sendheaders", "unknown", "pong"} ->
         Says(s, 0, "none")
    [] s.state # "closed" /\ p.type = "ping" -> Says(s, 1, "none")
    [] OTHER -> Says(s, 0, "disconnect")

\* request_addresses looks at packets itself, whatever the session's state.
OnAddressPacket(s, p) ==
  CASE p.type = "addr" -> Says(s, 0, "addresses")
    [] p.type = "ping" -> Says(s, 1, "none")
    [] p.type \in {"getaddr", "pong", "sendheaders", "unknown", "verack"} -> Says(s, 0, "none")
    [] OTHER -> Says(s, 0, "disconnect")

Reading == {"handshake", "addresses", "headers", "proof"}
Awaited(at) == CASE at = "handshake" -> "ready" [] OTHER -> at

-----------------------------------------------------------------------------
(* What a job does next: after a call that succeeded, and after one that
   failed.  Only the addresses may fail without ending the job. *)

Ended(result) == [call EXCEPT !.at = result]

Then(at) == [call EXCEPT !.at = at]

AfterHandshake(remote) ==
  CASE job.kind \in {"sync", "probe"} -> Then("ask_addresses")
    [] job.kind = "race" -> Then("ask_headers")
    [] job.kind = "proof" -> IF remote.height < BestHeight THEN Ended("failed") ELSE Then("ask_proof")

AfterAddresses ==
  IF job.kind = "sync" /\ session.remote.height > BestHeight THEN Then("ask_headers")
                                                        ELSE Ended("done")

\* A page is the last one when it is not full, has nothing new or was refused.
AfterHeaders(last) ==
  IF job.kind = "sync" /\ ~last /\ call.batches < MaxBatches THEN Then("ask_headers") ELSE Ended("done")

AfterFailure == IF call.at \in {"ask_addresses", "addresses"} THEN AfterAddresses ELSE Ended("failed")

-----------------------------------------------------------------------------
(* The proof scheduler. *)

Asked == <<job.root, NameHash[job.name]>>

\* The resource value inside the name state a tree has for a name.
NameStateValue(value) == IF value.name # job.name THEN "mismatch" ELSE value.data

RowFor(proof) ==
  [name |-> job.name, root |-> job.root, height |-> BestHeight,
   value |-> IF Inclusion(proof) THEN NameStateValue(proof.body.value) ELSE "absent"]

IngestAnyKey(p) ==
  IF <<p.root, NameHash[job.name]>> \notin tracked \/ ~Decodes(p.proof) \/ ~Verify(p.proof, p.root, p.key)
  THEN {} ELSE {RowFor(p.proof)}

\* The row that a proof packet stores, if it stores one.
Ingest(p) ==
  IF <<p.root, p.key>> \notin tracked \/ ~Decodes(p.proof) \/ ~Verify(p.proof, p.root, p.key)
  THEN {} ELSE {r \in {RowFor(p.proof)} : r.value # "mismatch"}

-----------------------------------------------------------------------------
(* The steps of the connection. *)

\* A packet can be written until the peer has closed, and may be after that.
Writes == {TRUE} \cup {b \in {FALSE} : ~open}

Network == <<wire, open, sent>>
Stream == <<decoder, pending, taken, torn>>
Store == <<tracked, stored>>

Connect ==
  /\ call.at = "connect"
  /\ \E wrote \in BOOLEAN : call' = IF wrote THEN Then("handshake") ELSE Ended("failed")
  /\ UNCHANGED <<job, session, Network, Stream, Store>>

AskAddresses ==
  /\ call.at = "ask_addresses"
  /\ \E wrote \in Writes : call' = IF wrote THEN Then("addresses") ELSE AfterFailure
  /\ UNCHANGED <<job, session, Network, Stream, Store>>

AskHeaders ==
  /\ call.at = "ask_headers"
  /\ IF session.state # "ready" THEN call' = Ended("failed") /\ UNCHANGED session
     ELSE /\ session' = [session EXCEPT !.state = "headers_requested"]
          /\ \E wrote \in Writes :
               call' = IF wrote THEN [at |-> "headers", batches |-> call.batches + 1]
                                ELSE Ended("failed")
  /\ UNCHANGED <<job, Network, Stream, Store>>

AskProof ==
  /\ call.at = "ask_proof"
  /\ IF session.state # "ready" THEN call' = Ended("failed") /\ UNCHANGED <<session, tracked>>
     ELSE /\ session' = [session EXCEPT !.state = "proof_requested"]
          /\ \E wrote \in Writes :
               /\ call' = IF wrote THEN Then("proof") ELSE Ended("failed")
               /\ tracked' = IF wrote THEN tracked \cup {Asked} ELSE tracked
  /\ UNCHANGED <<job, Network, Stream, stored>>

\* One read: receive_packet reads only when no packet is waiting.
Read ==
  /\ call.at \in Reading /\ pending = << >> /\ wire # << >>
  /\ \E n \in 1 .. ChunkCells :
       /\ n <= Len(wire)
       /\ wire' = SubSeq(wire, n + 1, Len(wire))
       /\ LET data == SubSeq(wire, 1, n)
              fed == Feed(decoder, data)
          IN /\ decoder' = fed.buffer /\ pending' = fed.packets
             /\ torn' = (torn \/ TooLarge(decoder, data))
             /\ IF fed.ok THEN UNCHANGED <<call, tracked>>
                ELSE call' = AfterFailure /\ tracked' = tracked \ {Asked}
  /\ UNCHANGED <<job, session, open, stored, sent, taken>>

\* (The end of the stream taken for a short read.)
ReadFailsOpen ==
  /\ call.at \in Reading /\ pending = << >> /\ open
  /\ call' = AfterFailure /\ tracked' = tracked \ {Asked}
  /\ UNCHANGED <<job, session, Network, Stream, stored>>

\* The peer has closed or the read times out, whatever is still on its way.
ReadFails ==
  /\ call.at \in Reading /\ pending = << >>
  /\ call' = AfterFailure /\ tracked' = tracked \ {Asked}
  /\ UNCHANGED <<job, session, Network, Stream, stored>>

Handle ==
  /\ call.at \in Reading /\ pending # << >>
  /\ LET p == pending[1]
         says == IF call.at = "addresses" THEN OnAddressPacket(session, p) ELSE OnPacket(session, p)
     IN /\ session' = says.session
        /\ \E wrote \in IF says.answers = 0 THEN {TRUE} ELSE Writes :
             LET failed == ~wrote \/ says.report \notin {"none", Awaited(call.at)}
                 rows == IF ~failed /\ says.report = "proof" THEN Ingest(p) ELSE {}
             IN /\ \E kept \in SUBSET rows :         \* the store may refuse the row
                     /\ stored' = stored \cup kept
                     /\ CASE failed -> call' = AfterFailure
                          [] ~failed /\ says.report = "none" -> UNCHANGED call
                          [] ~failed /\ says.report = "ready" ->
                               call' = AfterHandshake(says.session.remote)
                          [] ~failed /\ says.report = "addresses" -> call' = AfterAddresses
                          [] ~failed /\ says.report = "headers" ->
                               \E last \in BOOLEAN : call' = AfterHeaders(last)
                          [] ~failed /\ says.report = "proof" ->
                               call' = Ended(IF kept = {} THEN "failed" ELSE "done")
                /\ tracked' = CASE failed -> tracked \ {Asked}
                                [] ~failed /\ says.report = "proof" -> tracked \ {<<p.root, p.key>>}
                                [] OTHER -> tracked
  /\ pending' = Tail(pending) /\ taken' = Append(taken, pending[1])
  /\ UNCHANGED <<job, decoder, torn, Network>>

\* What is on the wire shows only in a read: earlier is not different.
Empty == wire = << >> /\ decoder = << >>

PeerSends ==
  /\ open /\ call.at \in Reading /\ pending = << >> /\ (Len(sent) < MaxFrames \/ Empty)
  /\ \E f \in Frame[job.kind] :
       /\ Len(wire) + f.length + HeaderCells <= MaxUnread
       /\ wire' = wire \o Cells(f)
       /\ IF Empty THEN sent' = <<f>> /\ taken' = << >>
                   ELSE sent' = Append(sent, f) /\ UNCHANGED taken
  /\ UNCHANGED <<job, call, session, open, decoder, pending, torn, Store>>

PeerCloses ==
  /\ open /\ call.at \notin {"connect", "failed", "done"} /\ open' = FALSE
  /\ UNCHANGED <<job, call, session, wire, sent, Stream, Store>>

Client == Connect \/ AskAddresses \/ AskHeaders \/ AskProof \/ Read \/ ReadFails \/ Handle

Next == Client \/ PeerSends \/ PeerCloses

Spec == Init /\ [][Next]_vars

\* Threads run, and every read of the socket has a timeout.
Fairness == WF_vars(Client)

FairSpec == Spec /\ Fairness
-----------------------------------------------------------------------------
(* Properties. *)

CallAt == {"connect", "ask_addresses", "ask_headers", "ask_proof", "failed", "done"} \cup Reading

States == {"awaiting_version", "awaiting_verack", "ready", "headers_requested",
           "proof_requested", "closed"}

\* Types; the decoder's buffer never outgrows the longest frame, the session
\* waits for an answer only inside the call that asked for it or after that call
\* failed, and a request is tracked only while its proof is awaited or after an
\* answer to another one (FrameDecoder::feed, HeaderSyncSession, and
\* ProofScheduler, which forgets the request after every other failure).
SessionTypeOK ==
  /\ job \in Jobs
  /\ call \in [at : CallAt, batches : 0 .. MaxBatches]
  /\ session \in [state : States, acked : BOOLEAN, remote : [height : Nat, serves : BOOLEAN]]
  /\ Len(decoder) <= MaxMessage + HeaderCells
  /\ open \in BOOLEAN /\ torn \in BOOLEAN
  /\ session.state = "headers_requested" => call.at \in {"headers", "failed"}
  /\ session.state = "proof_requested" => call.at \in {"proof", "failed"}
  /\ tracked # {} => /\ tracked = {Asked}
                     /\ call.at = "proof" \/ (call.at = "failed" /\ session.state = "ready")

\* The packets of frames and the cells that carry them.
PacketsOf(frames) == [i \in DOMAIN frames |-> frames[i].packet]
CellsOf(frames) == FlattenSeq([i \in DOMAIN frames |-> Cells(frames[i])])

\* However the stream is cut into reads, and whatever call failed before, the
\* packets handled are those the peer sent, each once and in order, and no byte
\* of the others is lost (FrameDecoder::feed drains what it decoded and keeps a
\* refused frame; receive_packet keeps what a read decoded beyond one packet).
\* The histories begin again when the stream is empty: all sent so far was handled.
OrderKept ==
  torn \/ LET n == Len(taken) + Len(pending)
          IN /\ n <= Len(sent)
             /\ taken \o pending = PacketsOf(SubSeq(sent, 1, n))
             /\ decoder \o wire = CellsOf(SubSeq(sent, n + 1, Len(sent)))

\* What is stored for a name is what the tree with the best header's root has
\* for it, or that it has nothing, whatever proofs peers answer with; and the
\* peer it came from had shaken hands as a node at least that high
\* (docs/security-model.md:65, "No TCP proof response should be stored for
\* resolver use unless it matches a tracked getproof request and passes Urkel
\* verification.").
StoredIsProved ==
  \A r \in stored :
    LET tree == Committed[job.root]
        key == NameHash[r.name]
    IN /\ r.name = job.name /\ r.root = job.root /\ r.height = BestHeight
       /\ r.value = IF key \in DOMAIN tree THEN tree[key].data ELSE "absent"
       /\ session.remote.serves /\ session.remote.height >= BestHeight

\* A job ends, or one of its calls goes on for as long as the peer sends
\* packets it ignores: no call waits for a peer that has closed or is silent, and
\* no answer, awaited or not, makes a job begin its calls again and again (the
\* loops of PeerConnection::handshake, request_addresses, request_headers and
\* request_proof have a timeout for each read and none of their own).
JobsEnd ==
  \/ <>(call.at \in {"failed", "done"})
  \/ (\E loop \in Reading : <>[](call.at = loop)) /\ []<><<PeerSends>>_vars
=============================================================================
