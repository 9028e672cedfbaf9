------------------------------ MODULE Difficulty ------------------------------
(***************************************************************************)
(* What bits a header must have: the retarget of rust/crates/hns-chain and *)
(* the compact targets and chainwork of rust/crates/hns-core.  HeaderChain *)
(* takes its outcome as a set of headers; here headers are what it is made *)
(* of, on one branch.  A number has Size digits of base Base, where the    *)
(* code has 32 bytes; the mantissa of a compact target has three of them.  *)
(***************************************************************************)
EXTENDS Integers, Sequences, FiniteSets

CONSTANTS
  Base, Size,
  PowBits,      \* MAINNET_POW_BITS
  Day,          \* MAINNET_BLOCKS_PER_DAY
  Spacing,      \* MAINNET_TARGET_SPACING
  Times,        \* the times miners may write into a header
  MaxLength     \* bound on the branch

ASSUME DifficultyAssumption ==
  /\ Base \in {2 * n : n \in 1 .. 128} /\ Size \in Nat /\ Size > 3
  /\ Day \in {4 * n : n \in 1 .. 36} /\ Spacing \in Nat \ {0}
  /\ Times \subseteq Nat /\ MaxLength \in Nat

VARIABLE chain          \* rows from the genesis on, the one of height h at h + 1

Ceiling == Base ^ Size
Sign == Base ^ 3 \div 2

-----------------------------------------------------------------------------
(* Compact targets.  0 stands for what has no target.                      *)

Shifted(bits) ==
  IF bits.exponent <= 3 THEN bits.mantissa \div Base ^ (3 - bits.exponent)
                        ELSE bits.mantissa * Base ^ (bits.exponent - 3)

CompactToTarget(bits) ==
  IF bits.mantissa >= Sign \/ Shifted(bits) >= Ceiling THEN 0 ELSE Shifted(bits)

Digits(n) == CHOOSE d \in 1 .. Size : Base ^ (d - 1) <= n /\ n < Base ^ d

(* Mutation of Normal: the mantissa may run into the sign. *)
NormalUnsigned(exponent, mantissa) == [exponent |-> exponent, mantissa |-> mantissa]
Normal(exponent, mantissa) ==
  IF mantissa >= Sign THEN [exponent |-> exponent + 1, mantissa |-> mantissa \div Base]
                      ELSE [exponent |-> exponent, mantissa |-> mantissa]

TargetToCompact(target) ==
  IF target = 0 THEN [exponent |-> 0, mantissa |-> 0]
  ELSE LET d == Digits(target)
       IN Normal(d, IF d <= 3 THEN target * Base ^ (3 - d) ELSE target \div Base ^ (d - 3))

WorkForTarget(target) == Ceiling \div (target + 1)
TargetForWork(work) == Ceiling \div work - 1      \* -1 is its error

(* verify_pow: the hash against the target's bytes. *)
VerifyPow(hash, bits) == CompactToTarget(bits) # 0 /\ hash <= CompactToTarget(bits)

-----------------------------------------------------------------------------
(* The retarget. *)

MinTimespan == (Day \div 4) * Spacing
MaxTimespan == 4 * Day * Spacing
Height == Len(chain) - 1
Row(height) == chain[height + 1]

(* suitable_block: of a row and its two parents the one in the middle when *)
(* they are sorted by time, the older first where times are equal.         *)
Suitable(height) ==
  LET three == height - 2 .. height
      before(g, h) == Row(g).time < Row(h).time \/ (Row(g).time = Row(h).time /\ g < h)
  IN CHOOSE h \in three : Cardinality({g \in three : before(g, h)}) = 1

Clamped(timespan) ==
  IF timespan < MinTimespan THEN MinTimespan ELSE IF timespan > MaxTimespan THEN MaxTimespan ELSE timespan

(* Mutation of Timespan: the saturated difference is not clamped below. *)
TimespanUnclamped(first, last) ==
  LET t == Row(last).time - Row(first).time IN IF t < 1 THEN 1 ELSE IF t > MaxTimespan THEN MaxTimespan ELSE t
Timespan(first, last) == Clamped(Row(last).time - Row(first).time)

NoBits == [exponent |-> -1, mantissa |-> 0]       \* InvalidDifficultyWindow, ZeroTarget

Retarget(first, last) ==
  LET work == ((Row(last).work - Row(first).work) * Spacing) \div Timespan(first, last)
      target == TargetForWork(work)
  IN IF last <= first THEN NoBits
     ELSE IF work = 0 THEN PowBits
     ELSE IF target < 0 THEN NoBits
     ELSE IF target > CompactToTarget(PowBits) THEN PowBits ELSE TargetToCompact(target)

(* expected_mainnet_bits, of the child of the last row *)
Expected ==
  IF Height < Day + 2 THEN PowBits ELSE Retarget(Suitable(Height - Day), Suitable(Height))

-----------------------------------------------------------------------------
Genesis == [time |-> 0, bits |-> PowBits, work |-> WorkForTarget(CompactToTarget(PowBits))]

Init == chain = <<Genesis>>

(* A header is stored whose bits are the expected ones and whose hash      *)
(* meets them, the lowest one if no other; nothing limits its time.        *)
Insert(time) ==
  /\ Len(chain) < MaxLength
  /\ VerifyPow(0, Expected)
  /\ chain' = Append(chain, [time |-> time, bits |-> Expected,
                             work |-> Row(Height).work + WorkForTarget(CompactToTarget(Expected))])

Next == \E time \in Times : Insert(time)

Spec == Init /\ [][Next]_chain

-----------------------------------------------------------------------------
(* BitsSound: whatever times miners write, the next header's bits exist,   *)
(* name a target no easier than the limit, and are the one compact form of *)
(* it, so that a hash that meets them is worth the work they count for     *)
(* (retarget_bits, target_to_compact): no branch ends in a header that     *)
(* nobody can mine or whose work cannot be counted.                        *)
BitsSound ==
  /\ CompactToTarget(Expected) \in 1 .. CompactToTarget(PowBits)
  /\ TargetToCompact(CompactToTarget(Expected)) = Expected

(* The work a header adds. *)
WorkAt(height) == Row(height).work - Row(height - 1).work
Largest(S) == CHOOSE n \in S : \A k \in S : k <= n
Smallest(S) == CHOOSE n \in S : \A k \in S : n <= k

(* WorkSteered: no choice of times, however far back or ahead, moves the   *)
(* work of a header out of four times the most and a quarter of the least  *)
(* of the window it is computed from, but for the two rows by which the    *)
(* window may be longer or shorter than a day, the digits that a compact   *)
(* target drops, and the limit (retarget_bits, suitable_block).            *)
WorkSteered ==
  LET window == {WorkAt(h) : h \in Height - Day - 1 .. Height}
      next == WorkForTarget(CompactToTarget(Expected))
      easiest == WorkForTarget(CompactToTarget(PowBits))
  IN Height >= Day + 2 =>
       /\ next * Day * (Sign \div Base - 1) <= (4 * (Day + 2) * Largest(window) + Day) * (Sign \div Base)
       /\ next >= easiest
       /\ next = easiest \/ 4 * Day * (next + 1) >= (Day - 2) * Smallest(window)
================================================================================
