------------------------------- MODULE Frames -------------------------------
(***************************************************************************)
(* The wire format of rust/crates/hns-p2p: a frame is a header, which      *)
(* holds the network's magic, a type and a length, and then a payload.     *)
(* What travels is a sequence of cells: <<f, 0>> for the header of frame f *)
(* and <<f, 1>> .. <<f, f.length>> for its payload.                        *)
(*                                                                         *)
(* f.packet is what the payload encodes; the rest of f is how.  Counts are *)
(* those of a packet with a list, and 0 otherwise.                         *)
(***************************************************************************)
EXTENDS Naturals, Sequences, SequencesExt

CONSTANTS
  MaxMessage,                   \* cells in the longest payload
  MaxInv, MaxAddr, MaxHeaders   \* entries in the longest lists

ASSUME FramesAssumption ==
  {MaxMessage, MaxInv, MaxAddr, MaxHeaders} \subseteq Nat \ {0}

ListLimit(type) ==
  CASE type = "addr" -> MaxAddr [] type = "getheaders" -> MaxInv [] type = "headers" -> MaxHeaders

\* Bytes of the shortest varint.
VarintWidth(n) == IF n <= 252 THEN 1 ELSE IF n <= 65535 THEN 3 ELSE 5

\* count is what the payload says, width the bytes it says it in, items how many
\* entries follow, and rest what follows them.
ReadsCount(f) == f.width = VarintWidth(f.count)

ReadsList(f) ==
  ReadsCount(f) /\ f.count <= ListLimit(f.packet.type) /\ f.items >= f.count

DecodesPayload(f) ==
  CASE f.packet.type = "unknown" -> TRUE
    [] f.packet.type \in {"addr", "getheaders", "headers"} ->
         ReadsList(f) /\ f.items = f.count /\ f.rest = 0
    [] OTHER -> f.items = f.count /\ f.rest = 0

HeaderCells == 1
Cells(f) == [i \in 1 .. f.length + HeaderCells |-> <<f, i - 1>>]
Wait == [step |-> "wait", used |-> 0]
Refused == [step |-> "error", used |-> 0]

\* The first frame of a buffer.  After a dropped chunk a header's place may hold
\* payload, which is not the magic, and a payload may hold cells of other frames:
\* only an unknown packet is long enough for that, and any bytes are one.
DecodeFrame(cells) ==
  IF cells = << >> THEN Wait
  ELSE LET f == cells[1][1] IN
       IF cells[1][2] # 0 \/ f.magic # "ours" \/ f.length > MaxMessage THEN Refused
       ELSE IF Len(cells) < f.length + HeaderCells THEN Wait
       ELSE IF DecodesPayload(f)
            THEN [step |-> "packet", packet |-> f.packet, used |-> f.length + HeaderCells]
            ELSE Refused

\* Every whole frame of a buffer from a cell on, given those from a later one
\* on, unless one of them is refused.
DecodedFrom(cells, after, from) ==
  LET first == DecodeFrame(SubSeq(cells, from, Len(cells)))
  IN CASE first.step = "wait" -> [ok |-> TRUE, packets |-> << >>, used |-> from - 1]
       [] first.step = "error" -> [ok |-> FALSE, packets |-> << >>, used |-> 0]
       [] first.step = "packet" ->
            LET rest == after[from + first.used]
            IN [rest EXCEPT !.packets = <<first.packet>> \o rest.packets]

DecodeFrames(cells) ==
  LET after[from \in 1 .. Len(cells) + 1] == DecodedFrom(cells, after, from) IN after[1]

TooLargeAlone(buffer, data) == Len(data) > MaxMessage + HeaderCells
TooLarge(buffer, data) == Len(buffer) + Len(data) > MaxMessage + HeaderCells

FeedClears(buffer, data) ==
  LET all == buffer \o data
      decoded == DecodeFrames(all)
  IN IF TooLarge(buffer, data) THEN [ok |-> FALSE, packets |-> << >>, buffer |-> buffer]
     ELSE IF ~decoded.ok THEN [ok |-> FALSE, packets |-> << >>, buffer |-> all]
     ELSE [ok |-> TRUE, packets |-> decoded.packets,
           buffer |-> IF decoded.used > 0 THEN << >> ELSE all]

\* A chunk that would overflow is dropped; one with a refused frame is kept,
\* and so are the frames before that one.
Feed(buffer, data) ==
  LET all == buffer \o data
      decoded == DecodeFrames(all)
  IN IF TooLarge(buffer, data) THEN [ok |-> FALSE, packets |-> << >>, buffer |-> buffer]
     ELSE IF ~decoded.ok THEN [ok |-> FALSE, packets |-> << >>, buffer |-> all]
     ELSE [ok |-> TRUE, packets |-> decoded.packets,
           buffer |-> SubSeq(all, decoded.used + 1, Len(all))]
=============================================================================
