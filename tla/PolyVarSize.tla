----------------------------- MODULE PolyVarSize ------------------------------
(***************************************************************************)
(* The variable-size numbers of poly_field.c: little-endian digits, one    *)
(* per byte, the upper half of the byte values marking that another byte   *)
(* follows.  The source has Base = 128; a byte is a number below 2 * Base. *)
(***************************************************************************)
EXTENDS Integers, Sequences, FiniteSetsExt

CONSTANT Base  \* digits in a byte

ASSUME BaseAssumption == Base \in Nat /\ Base > 1

Byte == 0 .. 2 * Base - 1

(* A uint32_t takes at most five bytes, of which a reader takes four.      *)
MaxWidth == 5
MaxRead == 4

(* What the digits are worth: a number below Weight[n + 1] has n digits.   *)
Weight ==
  <<1, Base, Base * Base, Base * Base * Base, Base * Base * Base * Base>>

Width(val) == Min({n \in 1..MaxWidth : n = MaxWidth \/ val < Weight[n + 1]})

(* poly_var_size_pack *)
BugMarksLast(val) == [i \in 1..Width(val) |-> ((val \div Weight[i]) % Base) + Base]
VarSizePack(val) ==
  [i \in 1..Width(val) |->
     ((val \div Weight[i]) % Base) + (IF i < Width(val) THEN Base ELSE 0)]

(* poly_var_size_read from position at of a buffer on; whatever lies       *)
(* behind the end of the buffer is read as 0.                              *)
ByteAt(buf, i) == IF i \in DOMAIN buf THEN buf[i] ELSE 0

LastRead(buf, at) ==
  Min({i \in 0 .. MaxRead - 1 : ByteAt(buf, at + i) < Base} \cup {MaxRead})

VarSizeValue(buf, at) ==
  LET digit(i) ==
        IF i <= LastRead(buf, at) THEN (ByteAt(buf, at + i) % Base) * Weight[i + 1] ELSE 0
  IN  digit(0) + digit(1) + digit(2) + digit(3)

(* The loop index when the loop ends, plus one: five if every byte says    *)
(* that another one follows.                                               *)
VarSizeLength(buf, at) == LastRead(buf, at) + 1
=============================================================================
