------------------------------ MODULE FixedPoint ------------------------------
(***************************************************************************)
(* Numbers on their way from a register to a dashboard: the word orders,   *)
(* the float in between and the saturating fixed-point fields of           *)
(* components/device_profile/device_profile.c, and the readers of the      *)
(* decoder that device-profiles/profile_to_decoder.py generates.           *)
(*                                                                         *)
(* A byte is a digit below Base.  A float is a multiple of 1/Unit, given   *)
(* as an integer; below Exact its fractions are exact, and from there on   *)
(* it keeps as many bits as Exact has.                                     *)
(***************************************************************************)
EXTENDS Integers, Sequences, SequencesExt

CONSTANTS
    Base,   \* 256
    Exact,  \* 2^24, up to which every integer is a float
    Unit,   \* resolution of the fractions that occur
    NaN

(* What a digit counts for, from the last one on. *)
Weight == [e \in 0..4 |-> <<1, Base, Base * Base, Base * Base * Base, Base * Base * Base * Base>>[e + 1]]

(* Powers of two: a field's limits are below Exact or far beyond it. *)
ASSUME FixedPointAssumption ==
    /\ Base \in Nat /\ Base > 1 /\ Base % 2 = 0
    /\ Exact \in Nat /\ Exact > 3 /\ Exact % 2 = 0
    /\ Unit \in Nat /\ Unit > 0 /\ Unit % 2 = 0
    /\ NaN \notin Int
    /\ \A e \in {1, 2, 4} : /\ Weight[e] <= Exact \/ Weight[e] >= 2 * Exact
                            /\ Weight[e] <= 2 * Exact \/ Weight[e] >= 4 * Exact

-----------------------------------------------------------------------------
(* Digit strings, most significant first *)

Number(digits) == FoldLeft(LAMBDA n, d : n * Base + d, 0, digits)
Digits(n, size) == [k \in 1..size |-> (n \div Weight[size - k]) % Base]
Signed(n, size) == IF 2 * n >= Weight[size] THEN n - Weight[size] ELSE n

ByteOrder == [ABCD |-> <<1, 2, 3, 4>>, CDAB |-> <<3, 4, 1, 2>>,
              BADC |-> <<2, 1, 4, 3>>, DCBA |-> <<4, 3, 2, 1>>]
Unswapped == [o \in DOMAIN ByteOrder |-> <<1, 2, 3, 4>>]
Assembled(regs, order) ==
    LET bytes == Digits(regs[1], 2) \o Digits(regs[2], 2)
    IN  Number([k \in 1..4 |-> bytes[ByteOrder[order][k]]])

-----------------------------------------------------------------------------
(* Floats *)

Magnitude(x) == IF x < 0 THEN -x ELSE x

(* The step from one float to the next, at a magnitude. *)
Ulp[m \in Nat] == IF m < Unit * Exact THEN 1 ELSE 2 * Ulp[m \div 2]
HalfEven(n, d) ==
    LET q == n \div d  r == n % d
    IN  IF 2 * r > d \/ (2 * r = d /\ q % 2 = 1) THEN q + 1 ELSE q
Single(x) ==
    LET step == Unit * Ulp[Magnitude(x)]
    IN  IF Magnitude(x) < Unit * Exact THEN x ELSE HalfEven(x, step) * step
Times(x, scale) == Single((x * scale) \div Unit)

(* IEEE 754: the bits of a float in two registers, here halves. *)
FloatOf(n) == IF 2 * n = Weight[4] THEN NaN ELSE (Signed(n, 4) * Unit) \div 2

-----------------------------------------------------------------------------
Types == {"u16", "i16", "u32", "i32", "float32"}
Registers(type) == IF type \in {"u32", "i32", "float32"} THEN 2 ELSE 1

RawAs(regs, type, order) ==
    IF type = "float32" THEN FloatOf(Assembled(regs, order))
    ELSE LET n == IF Registers(type) = 2 THEN Assembled(regs, order) ELSE regs[1]
         IN  Single(Unit * (IF type \in {"i16", "i32"} THEN Signed(n, 2 * Registers(type)) ELSE n))

(* dp_decode *)
Decoded(regs, type, order, scale, offset) ==
    LET raw == RawAs(regs, type, order)
    IN  IF raw = NaN THEN NaN ELSE Single(Times(raw, scale) + offset)

-----------------------------------------------------------------------------
(* Fields of a payload *)

EncSize == [u8 |-> 1, i8 |-> 1, u16 |-> 2, i16 |-> 2, u32 |-> 4, i32 |-> 4]
SignedEncodings == {"i8", "i16", "i32"}
Lo(enc) == IF enc \in SignedEncodings THEN -(Weight[EncSize[enc]] \div 2) ELSE 0
Hi(enc) == IF enc \in SignedEncodings THEN Weight[EncSize[enc]] \div 2 - 1 ELSE Weight[EncSize[enc]] - 1

Half == Unit \div 2
Truncated(x) == IF x >= 0 THEN x \div Unit ELSE -((-x) \div Unit)

SatUWraps(v, scale, max) ==
    IF v <= 0 THEN 0 ELSE (Single(v * scale + Half) \div Unit) % (max + 1)
SatU(v, scale, max) ==
    IF v <= 0 THEN 0
    ELSE LET s == Single(Single(v * scale) + Half)
         IN  IF s >= Single(max * Unit) THEN max ELSE s \div Unit
SatI(v, scale, lo, hi) ==
    LET s == Single(Single(v * scale) + (IF v >= 0 THEN Half ELSE -Half))
    IN  IF s >= Single(hi * Unit) THEN hi ELSE IF s <= lo * Unit THEN lo ELSE Truncated(s)

(* put_field.  A NaN becomes whatever the conversion gives. *)
Wire(v, enc, scale, junk) ==
    IF v = NaN THEN junk
    ELSE IF enc \in SignedEncodings THEN SatI(v, scale, Lo(enc), Hi(enc))
    ELSE SatU(v, scale, Hi(enc))

(* The decoder's readers. *)
Unsigned(bytes, enc) == Number(bytes)
Reader(bytes, enc) ==
    IF enc \in SignedEncodings THEN Signed(Number(bytes), EncSize[enc]) ELSE Number(bytes)
=============================================================================
