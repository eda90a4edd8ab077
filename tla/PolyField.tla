------------------------------- MODULE PolyField -------------------------------
(***************************************************************************)
(* The fields of a packet (poly_field.c) and the descriptors of fields and *)
(* packets: what a field holds, how a frame and a JSON text show it, and   *)
(* what reading these makes of it.  A field has a block mData of memory,   *)
(* of which mSize bytes are its content; the rest is what was there.       *)
(*                                                                         *)
(* Numbers are least significant byte first, as on the targets of the      *)
(* library.  Signed ones are told by the bytes of their two's complement:  *)
(* printing and reading them back goes through the same bytes.  Floating   *)
(* point is left out.                                                      *)
(*                                                                         *)
(* The definitions named Bug... are slips the properties must detect; the  *)
(* specification uses none of them.                                        *)
(***************************************************************************)
EXTENDS PolyVarSize, SequencesExt

CONSTANTS
  MustEscape,   \* bytes JSON escapes in a string: the quote and the backslash
  LongBytes     \* sizeof(long), the width of what strtoul and strtol return

(* A long of C has at least four bytes.                                    *)
ASSUME FieldAssumption == MustEscape \subseteq Byte /\ LongBytes \in Nat /\ LongBytes >= 4

(* poly_field_desc_init *)
ObjSize ==
  [UINT8 |-> 1, UINT16 |-> 2, UINT32 |-> 4, UINT64 |-> 8,
   INT8 |-> 1, INT16 |-> 2, INT32 |-> 4, INT |-> 4, INT64 |-> 8,
   CHAR |-> 1, STRING |-> 1]

DefaultFormat(type) == IF type \in {"STRING", "CHAR"} THEN "ASCII" ELSE "DEC"

FieldDesc(type, len, format) ==
  [mDataType |-> type, mLen |-> len, mObjSize |-> ObjSize[type],
   mVarLen |-> len > 1 \/ type = "STRING",
   mNullTerm |-> type = "STRING",
   mFormat |-> IF format = "DEFAULT" THEN DefaultFormat(type) ELSE format]

FullSize(desc) == desc.mObjSize * desc.mLen
IsText(desc) == desc.mNullTerm \/ desc.mDataType = "CHAR"
IsSigned(desc) == desc.mDataType \in {"INT8", "INT16", "INT32", "INT", "INT64"}

(* poly_packet_desc_init and poly_packet_desc_add_field, which counts a    *)
(* byte for the length of a field but none for its identifier, and drops   *)
(* a field for which there is no room.                                     *)
PacketDesc(headerSize, maxFields) ==
  [mFields |-> <<>>, mMaxFields |-> maxFields, mMaxPacketSize |-> headerSize]

AddField(desc, field) ==
  IF Len(desc.mFields) >= desc.mMaxFields THEN desc
  ELSE [desc EXCEPT !.mFields = Append(@, field),
                    !.mMaxPacketSize = @ + IF field.mLen > 1 THEN FullSize(field) + 1
                                           ELSE field.mObjSize]

-----------------------------------------------------------------------------
(* poly_field_init, poly_field_set, poly_field_get                         *)

Zeros(n) == [k \in 1..n |-> 0]

FieldInit(desc) ==
  [mPresent |-> FALSE, mSize |-> FullSize(desc), mData |-> Zeros(FullSize(desc))]

(* memcpy of data to the start of the block                                *)
Over(block, data) == data \o SubSeq(block, Len(data) + 1, Len(block))

FieldSet(f, desc, data) ==
  LET size == IF desc.mVarLen THEN Len(data) ELSE f.mSize
      copied == [k \in 1..size |-> ByteAt(data, k)]
  IN  [mPresent |-> TRUE, mSize |-> size, mData |-> Over(f.mData, copied)]

Content(f) == SubSeq(f.mData, 1, f.mSize)

-----------------------------------------------------------------------------
(* JSON.  A text is a number, a string of hexadecimal bytes, a string of   *)
(* characters, or an array of the first two.                               *)

NumberOf(bytes) ==
  LET last[n \in 0..Len(bytes)] ==  \* the number the last n bytes are
        IF n = 0 THEN 0 ELSE last[n - 1] * (2 * Base) + bytes[Len(bytes) - n + 1]
  IN  last[Len(bytes)]

BytesOf(n, width) ==
  LET rest[k \in 0..width] == IF k = 0 THEN n ELSE rest[k - 1] \div (2 * Base)
  IN  [k \in 1..width |-> rest[k - 1] % (2 * Base)]

(* poly_field_print_val: in hexadecimal the bytes appear as they lie in    *)
(* memory, the least significant first.                                    *)
PrintVal(desc, object) ==
  IF desc.mFormat = "HEX" THEN [kind |-> "hex", bytes |-> object]
                          ELSE [kind |-> "number", value |-> NumberOf(object)]

(* The characters "%s" prints: up to the first zero.                       *)
CString(bytes) ==
  SubSeq(bytes, 1, Min({k \in 1 .. Len(bytes) + 1 : ByteAt(bytes, k) = 0}) - 1)

(* poly_field_print_json; "behind" is what lies behind the block in memory.*)
PrintJson(f, desc, behind) ==
  LET n == f.mSize \div desc.mObjSize
      object(e) == SubSeq(f.mData, (e - 1) * desc.mObjSize + 1, e * desc.mObjSize)
  IN  IF desc.mFormat = "ASCII"
      THEN [kind |-> "string", bytes |-> CString(f.mData \o behind)]
      ELSE IF n = 1 THEN PrintVal(desc, object(1))
      ELSE [kind |-> "array", values |-> [e \in 1..n |-> PrintVal(desc, object(e))]]

(* poly_field.c:331 escapes nothing: a quote ends the string early and a   *)
(* backslash takes the next character with it, in any string of characters.*)
Misprinted(t) ==
  t.kind = "string" /\ \E k \in DOMAIN t.bytes : t.bytes[k] \in MustEscape

(* strtoul with the base of the format.  In base 10 it stops at the x of   *)
(* 0x; in base 16 the first byte is the most significant.  What the JSON   *)
(* library hands over of an array is not in this repository: "found" is    *)
(* the number strtoul finds there, or in characters.                       *)
BugReadsDecimal(desc, text, found) ==
  CASE text.kind = "number" -> text.value
    [] text.kind \in {"array", "string"} -> found
    [] OTHER -> 0
ReadNumber(desc, text, found) ==
  IF text.kind = "number" THEN text.value
  ELSE IF text.kind \in {"array", "string"} THEN found
  ELSE IF desc.mFormat = "HEX" THEN NumberOf(Reverse(text.bytes))
  ELSE 0

(* strtoul and strtol return the largest or the smallest long for a number *)
(* beyond it, which is then converted to the type of the field.  A number  *)
(* in hexadecimal has no sign.                                             *)
Saturated(desc, bytes) ==
  LET last == 2 * Base - 1
      signed(k) == IsSigned(desc) /\ bytes[k] >= Base
      negative == desc.mFormat # "HEX" /\ signed(desc.mObjSize)
      fill == IF negative THEN last ELSE 0
      high == IF IsSigned(desc) THEN Base - 1 ELSE last
      farthest(k) == IF k > LongBytes THEN fill
                     ELSE IF negative THEN (IF k < LongBytes THEN 0 ELSE Base)
                     ELSE IF k < LongBytes THEN last ELSE high
      fits == /\ \A k \in LongBytes + 1 .. desc.mObjSize : bytes[k] = fill
              /\ LongBytes <= desc.mObjSize => (signed(LongBytes) <=> negative)
  IN  IF fits THEN bytes ELSE [k \in 1..desc.mObjSize |-> farthest(k)]

(* poly_field_parse_str: a string is taken as it is, of anything else one  *)
(* number is read.                                                         *)
ParseStr(f, desc, text, found) ==
  FieldSet(f, desc,
    IF IsText(desc) THEN text.bytes
    ELSE Saturated(desc, BytesOf(ReadNumber(desc, text, found), desc.mObjSize)))
=============================================================================
