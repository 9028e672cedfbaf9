--------------------------------- MODULE Tunnel ---------------------------------
(***************************************************************************)
(* The WebSocket tunnel of rust/crates/android-ffi: one thread copies from *)
(* the client to the origin, another back, and a lock on the one stream to *)
(* the origin, held over each read and each write, keeps them apart.       *)
(* Reads time out, and so do writes that the origin does not take.         *)
(***************************************************************************)
EXTENDS Naturals, Sequences

CONSTANTS
  Room,         \* bound: messages the network holds in each direction
  Messages      \* bound: messages the client sends

VARIABLE tunnel

(* up: the thread client to origin; down: the thread back.  outward,       *)
(* inward: the stream; sent, got: what the client gave and the origin took.*)
Closed ==
  [up |-> "off", down |-> "off", lock |-> "none", done |-> FALSE, outward |-> << >>, inward |-> << >>,
   echo |-> 0, sent |-> 0, got |-> 0, eof |-> FALSE]
Opened == [Closed EXCEPT !.up = "read", !.down = "lock"]

Up(pc) == tunnel.up = pc
Down(pc) == tunnel.down = pc

(* copy_client_to_origin *)
UpReads ==
  /\ Up("read")
  /\ \/ /\ tunnel.sent < Messages
        /\ tunnel' = [tunnel EXCEPT !.sent = @ + 1, !.up = "lock"]
     \/ tunnel' = [tunnel EXCEPT !.up = "off", !.done = TRUE]

UpLocks ==
  /\ Up("lock") /\ tunnel.lock = "none"
  /\ tunnel' = [tunnel EXCEPT !.lock = "up", !.up = "write"]

UpWrites ==
  /\ Up("write") /\ Len(tunnel.outward) < Room
  /\ tunnel' = [tunnel EXCEPT !.outward = Append(@, tunnel.sent), !.lock = "none", !.up = "read"]

(* Mutation of UpTimesOut: writes do not time out. *)
UpWaits == Up("write") /\ UNCHANGED tunnel
UpTimesOut ==
  /\ Up("write") /\ Len(tunnel.outward) >= Room
  /\ tunnel' = [tunnel EXCEPT !.lock = "none", !.up = "off", !.done = TRUE]

(* copy_origin_to_client *)
DownLocks ==
  /\ Down("lock") /\ tunnel.lock = "none"
  /\ tunnel' = [tunnel EXCEPT !.lock = "down", !.down = "read"]

DownReads ==
  /\ Down("read")
  /\ IF tunnel.inward # << >>
     THEN tunnel' = [tunnel EXCEPT !.inward = Tail(@), !.lock = "none", !.down = "write"]
     ELSE IF tunnel.eof THEN tunnel' = [tunnel EXCEPT !.lock = "none", !.down = "off", !.done = TRUE]
     ELSE tunnel' = [tunnel EXCEPT !.lock = "none", !.down = IF tunnel.done THEN "off" ELSE "lock"]

DownWrites ==
  /\ Down("write")
  /\ \/ tunnel' = [tunnel EXCEPT !.down = "lock"]
     \/ tunnel' = [tunnel EXCEPT !.down = "off", !.done = TRUE]

(* An origin that answers each message before it takes the next. *)
OriginTakes ==
  /\ tunnel.outward # << >> /\ tunnel.echo = 0 /\ ~tunnel.eof
  /\ tunnel' = [tunnel EXCEPT !.got = Head(tunnel.outward), !.outward = Tail(@), !.echo = 1]

OriginAnswers ==
  /\ tunnel.echo = 1 /\ Len(tunnel.inward) < Room
  /\ tunnel' = [tunnel EXCEPT !.inward = Append(@, tunnel.got), !.echo = 0]

OriginCloses ==
  /\ ~Up("off") /\ ~tunnel.eof
  /\ tunnel' = [tunnel EXCEPT !.eof = TRUE]

TunnelStep ==
  \/ UpReads \/ UpLocks \/ UpWrites \/ UpTimesOut
  \/ DownLocks \/ DownReads \/ DownWrites
  \/ OriginTakes \/ OriginAnswers

================================================================================
