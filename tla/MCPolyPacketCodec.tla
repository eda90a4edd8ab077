--------------------------- MODULE MCPolyPacketCodec ---------------------------
(***************************************************************************)
(* Instances of PolyPacketCodec for TLC: a packet with a byte printed in   *)
(* hexadecimal, a string of up to sixteen characters, so that its size     *)
(* takes up to three bytes, an array of up to two words of two bytes, and  *)
(* a signed number wider than a long; and a packet of two fields.  One     *)
(* string has a character that JSON would have to escape.                  *)
(***************************************************************************)
EXTENDS PolyPacketCodec

FourFields ==
  <<FieldDesc("UINT8", 1, "HEX"), FieldDesc("STRING", 16, "DEFAULT"),
    FieldDesc("UINT16", 2, "DEFAULT"), FieldDesc("INT64", 1, "DEFAULT")>>
TwoFields == <<FieldDesc("UINT8", 1, "DEFAULT"), FieldDesc("UINT16", 2, "DEFAULT")>>

Text(n) == [k \in 1..n |-> 1 + (k % Base)]

MCContents(i) ==
  IF Fields[i].mDataType = "UINT8" THEN {<<0>>, <<2 * Base - 1>>}
  ELSE IF Fields[i].mDataType = "STRING" THEN {Text(n) : n \in {0, 1, 5, 16}} \cup {<<3, 7>>}
  ELSE IF Fields[i].mVarLen THEN {<<1, Base>>, <<1, Base, 0, 3>>}
  ELSE {<<2, 5, 0, 0, 7, 7, 0, 7>>}
=============================================================================
