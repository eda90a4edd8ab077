---------------------------- MODULE PolyPacketCodec ----------------------------
(***************************************************************************)
(* A packet from the application that sets its fields, through the frame   *)
(* poly_packet_pack makes of it and whatever the line does to that frame,  *)
(* to poly_packet_parse_buffer on the other side (poly_packet.c and        *)
(* poly_field.c).  The identifier of a field is its index minus one.       *)
(* Instead of being packed the packet may be printed as JSON and fed to    *)
(* the service in this form.                                               *)
(*                                                                         *)
(* A frame is its header and its data.  Of the header only the length and  *)
(* the checksum matter here: type, token and mSeq are not covered by the   *)
(* checksum.  Both sides agree on byte order, so copying a header or a     *)
(* fixed field with memcpy keeps it.                                       *)
(*                                                                         *)
(* The definitions named Bug... are slips the properties must detect; the  *)
(* specification uses none of them.                                        *)
(***************************************************************************)
EXTENDS PolyField

CONSTANTS
  Added,        \* field descriptors added to the packet's, in order
  MaxFields,    \* fields it was initialised for
  Contents(_),  \* contents the application gives a field
  OtherSizes,   \* mMaxPacketSize of the other packet types of the service
  HeaderSize,   \* sizeof(poly_packet_hdr_t), PACKET_METADATA_SIZE
  Seed,         \* CHECKSUM_SEED
  CobsBytes,    \* bytes cobs_encode adds
  WordMod       \* range of the uint16_t mDataLen and mCheckSum

Descriptor == FoldLeft(AddField, PacketDesc(HeaderSize, MaxFields), Added)
Fields == Descriptor.mFields

(* poly_service_start, of a service in static memory: the largest of all   *)
ServiceMaxPacketSize == Max(OtherSizes \cup {0, Descriptor.mMaxPacketSize})

FieldIds == DOMAIN Fields
Word == 0 .. WordMod - 1

ASSUME CodecAssumption ==
  /\ OtherSizes \subseteq Nat /\ IsFiniteSet(OtherSizes) /\ CobsBytes \in Nat
  /\ HeaderSize \in Nat /\ Seed \in Word /\ WordMod \in Nat /\ WordMod >= 2 * Base
  /\ Fields \in Seq([mDataType : DOMAIN ObjSize, mLen : Nat, mObjSize : Nat \ {0},
                     mVarLen : BOOLEAN, mNullTerm : BOOLEAN, mFormat : STRING])
  /\ \A i \in FieldIds : IsText(Fields[i]) => Fields[i].mFormat = "ASCII"
  /\ \A i \in FieldIds : Contents(i) \subseteq Seq(Byte)
  /\ \A i \in FieldIds : \A c \in Contents(i) :
       IF Fields[i].mVarLen THEN Len(c) % Fields[i].mObjSize = 0
                            ELSE Len(c) = FullSize(Fields[i])

VARIABLES
  sent,      \* fields of the packet the application fills
  frame,     \* the packed packet, on the line
  text,      \* the JSON message: the value of every field it has
  pc,        \* "build", "text", "line", "parsed", "overrun" or "misread"
  journey,   \* how the packet travels: as a frame, as text, or damaged
  received,  \* fields of the packet the frame is parsed into
  status     \* result of poly_packet_parse_buffer

vars == <<sent, text, frame, pc, journey, received, status>>

(* poly_packet_build: all fields absent, zeroed and of their full size.    *)
Built == [i \in FieldIds |-> FieldInit(Fields[i])]

NoFrame == [mDataLen |-> 0, mCheckSum |-> 0, data |-> <<>>]

Init ==
  /\ sent = Built /\ received = Built
  /\ text = <<>> /\ frame = NoFrame /\ pc = "build" /\ journey = "none" /\ status = "PACKET_NONE"

-----------------------------------------------------------------------------
(* poly_packet_pack *)

PackedField(i, f) ==
  IF f.mPresent
  THEN VarSizePack(i - 1)
         \o (IF Fields[i].mVarLen THEN VarSizePack(f.mSize) ELSE <<>>)
         \o Content(f)
  ELSE <<>>

PackedData(fields) == FlattenSeq([i \in FieldIds |-> PackedField(i, fields[i])])

BugUnwrapped(data) == FoldSeq(+, Seed, data)
BugSkipsFirstByte(data) == FoldSeq(+, Seed, SubSeq(data, 2, Len(data))) % WordMod
CheckSum(data) ==
  LET sum[n \in 0..Len(data)] ==
        IF n = 0 THEN Seed ELSE (sum[n - 1] + data[n]) % WordMod
  IN  sum[Len(data)]

PackedFrame(fields) ==
  LET data == PackedData(fields)
  IN  [mDataLen |-> Len(data) % WordMod, mCheckSum |-> CheckSum(data), data |-> data]

PackedLength(fields) == HeaderSize + Len(PackedData(fields))

(* poly_packet_max_packed_size: "for field header and size"                *)
BugOneLess == 3
FieldOverhead == 4

MaxPackedSize(fields) ==
  LET room(f) == IF f.mPresent THEN f.mSize + FieldOverhead ELSE 0
      size[n \in 0..Len(Fields)] ==
        IF n = 0 THEN HeaderSize ELSE size[n - 1] + room(fields[n])
  IN  size[Len(Fields)]

-----------------------------------------------------------------------------
(* poly_packet_parse_buffer and poly_field_parse                           *)

(* The bytes of field i that lie from position at on, and where they end.  *)
(* mSize is what the field has from poly_packet_build unless its           *)
(* descriptor says that the frame gives it.                                *)
ReadSize(i, data, at) ==
  IF Fields[i].mVarLen THEN VarSizeValue(data, at) ELSE FullSize(Fields[i])

ContentAt(i, data, at) ==
  IF Fields[i].mVarLen THEN at + VarSizeLength(data, at) ELSE at

Bytes(data, at, size) == [k \in 1..size |-> ByteAt(data, at + k - 1)]

(* A size the field does not have gets a new block, with a terminator.     *)
Parsed(f, bytes) ==
  [mPresent |-> TRUE, mSize |-> Len(bytes),
   mData |-> IF Len(bytes) # f.mSize THEN bytes \o <<0>> ELSE Over(f.mData, bytes)]

(* One turn of the loop over the fields of the descriptor: r holds the     *)
(* fields read so far, the cursor, and whether the loop goes on.  A field  *)
(* that ends beyond the data is an error, whatever was read there.         *)
ReadField(r, data, len) ==
  LET i == VarSizeValue(data, r.at) + 1
      at == r.at + VarSizeLength(data, r.at)
      size == ReadSize(i, data, at)
      end == ContentAt(i, data, at) + size
  IN  IF r.result # "reading" THEN r
      ELSE IF i \notin FieldIds THEN [r EXCEPT !.result = "error"]
      ELSE IF end > len + 1 THEN [r EXCEPT !.result = "error"]
      ELSE [fields |-> [r.fields EXCEPT ![i] =
                          Parsed(@, Bytes(data, ContentAt(i, data, at), size))],
            at |-> end,
            result |-> IF end = len + 1 THEN "read" ELSE "reading"]

FieldsRead(data, len) ==
  LET turn[n \in 0..Len(Fields)] ==
        IF n = 0 THEN [fields |-> Built, at |-> 1, result |-> "reading"]
        ELSE ReadField(turn[n - 1], data, len)
  IN  turn[Len(Fields)]

Checked(f) == SubSeq(f.data, 1, f.mDataLen)

ParseStatus(f) ==
  IF Len(f.data) < f.mDataLen THEN "PACKET_INCOMPLETE"
  ELSE IF FieldsRead(f.data, f.mDataLen).result = "error" THEN "PACKET_PARSING_ERROR"
  ELSE IF CheckSum(Checked(f)) # f.mCheckSum THEN "PACKET_BAD_CHECKSUM"
  ELSE "PACKET_VALID"

-----------------------------------------------------------------------------
(* poly_field_set, as often as the application likes.                      *)
Set(i, content) ==
  /\ pc = "build"
  /\ sent' = [sent EXCEPT ![i] = FieldSet(@, Fields[i], content)]
  /\ UNCHANGED <<text, frame, pc, journey, received, status>>

Pack ==
  /\ pc = "build"
  /\ frame' = PackedFrame(sent)
  /\ pc' = "line" /\ journey' = "frame"
  /\ UNCHANGED <<sent, text, received, status>>

Present(fields) == {i \in FieldIds : fields[i].mPresent}

(* What lies in memory behind a block that has no terminator.              *)
Behind == {<<>>} \cup {<<b>> : b \in MustEscape \cup {1}}

(* poly_packet_print_json of a packet that was never packed: it first      *)
(* packs it into a buffer of mMaxPacketSize bytes (update_header), beyond  *)
(* which nothing can be said.  Without a field the text is not JSON.       *)
PrintedText(behind) ==
  [i \in Present(sent) |-> PrintJson(sent[i], Fields[i], behind)]

PrintPacket(behind) ==
  /\ pc = "build" /\ Present(sent) # {}
  /\ IF PackedLength(sent) > Descriptor.mMaxPacketSize
     THEN pc' = "overrun" /\ UNCHANGED text
     ELSE pc' = "text" /\ text' = PrintedText(behind)
  /\ journey' = "text"
  /\ UNCHANGED <<sent, frame, received, status>>

(* With an unescaped string the text is not the message of the packet, nor *)
(* need it be JSON: what the JSON library finds in it, and so whether      *)
(* feed_json_msg and tp_handle_json have a packet, is beyond this model.   *)
Garbled == \E i \in DOMAIN text : Misprinted(text[i])

Misread ==
  /\ pc = "text" /\ Garbled
  /\ pc' = "misread"
  /\ UNCHANGED <<sent, text, frame, journey, received, status>>

(* poly_packet_parse_json_obj: an attribute sets the field of its name.    *)
FieldsOfText(found) ==
  [i \in FieldIds |-> IF i \in DOMAIN text
                      THEN ParseStr(Built[i], Fields[i], text[i], found) ELSE Built[i]]

(* poly_service_feed_json_msg, with a message of the descriptor's type: it *)
(* encodes the packet into a buffer of the service's mMaxPacketSize bytes, *)
(* which takes CobsBytes more than the packet.                             *)
FeedJson(found) ==
  LET fields == FieldsOfText(found)
  IN  /\ pc = "text" /\ ~Garbled
      /\ IF PackedLength(fields) + CobsBytes > ServiceMaxPacketSize
         THEN pc' = "overrun" /\ UNCHANGED frame
         ELSE pc' = "line" /\ frame' = PackedFrame(fields)
      /\ UNCHANGED <<sent, text, journey, received, status>>

(* tp_handle_json: the message goes to the handler without a frame; a      *)
(* response would be printed in turn.                                      *)
HandleJson(found) ==
  /\ pc = "text" /\ ~Garbled
  /\ received' = FieldsOfText(found)
  /\ status' = "PACKET_VALID" /\ pc' = "parsed"
  /\ UNCHANGED <<sent, text, frame, journey>>

(* The line: one byte of the data, the length or the checksum changes, the *)
(* end of the frame is cut off, or a delimiter is missed and bytes of the  *)
(* next frame follow.                                                      *)
Damage(kind, broken) ==
  /\ pc = "line" /\ journey = "frame"
  /\ broken # frame
  /\ frame' = broken /\ journey' = kind
  /\ UNCHANGED <<sent, text, pc, received, status>>

DamageByte ==
  \E k \in DOMAIN frame.data, b \in Byte :
    Damage("changed", [frame EXCEPT !.data[k] = b])

DamageHeader ==
  \E w \in Word : \/ Damage("changed", [frame EXCEPT !.mDataLen = w])
                  \/ Damage("changed", [frame EXCEPT !.mCheckSum = w])

CutOff ==
  \E n \in 0 .. Len(frame.data) - 1 :
    Damage("cut", [frame EXCEPT !.data = SubSeq(@, 1, n)])

RunsOn ==
  \E b \in Byte : Damage("longer", [frame EXCEPT !.data = Append(@, b)])

(* The fields of a packet that does not parse are never looked at.         *)
Parse ==
  /\ pc = "line"
  /\ status' = ParseStatus(frame)
  /\ received' = IF status' = "PACKET_VALID"
                 THEN FieldsRead(frame.data, frame.mDataLen).fields ELSE Built
  /\ pc' = "parsed"
  /\ UNCHANGED <<sent, text, frame, journey>>

Next ==
  \/ \E i \in FieldIds : \E content \in Contents(i) : Set(i, content)
  \/ \E behind \in Behind : PrintPacket(behind)
  \/ \E found \in Byte : FeedJson(found) \/ HandleJson(found)
  \/ Misread \/ Pack \/ DamageByte \/ DamageHeader \/ CutOff \/ RunsOn \/ Parse

Spec == Init /\ [][Next]_vars
-----------------------------------------------------------------------------
FieldsType ==
  [FieldIds -> [mPresent : BOOLEAN, mSize : Nat, mData : Seq(Byte)]]

TypeOK ==
  /\ sent \in FieldsType /\ received \in FieldsType
  /\ \A i \in FieldIds : /\ sent[i].mSize <= Len(sent[i].mData)
                         /\ received[i].mSize <= Len(received[i].mData)
  /\ DOMAIN text \subseteq FieldIds
  /\ frame \in [mDataLen : Word, mCheckSum : Word, data : Seq(Byte)]
  /\ pc \in {"build", "text", "line", "parsed", "overrun", "misread"}
  /\ journey \in {"none", "frame", "text", "changed", "cut", "longer"}
  /\ status \in {"PACKET_NONE", "PACKET_VALID", "PACKET_INCOMPLETE",
                 "PACKET_PARSING_ERROR", "PACKET_BAD_CHECKSUM"}

Nonempty == Fields = <<>> \/ Present(sent) # {}
SameField(i) == Content(received[i]) = Content(sent[i])
Agrees == /\ Present(received) = Present(sent)
          /\ \A i \in Present(sent) : SameField(i)
Intact == pc = "parsed" /\ journey = "frame"

(* A frame that arrives as it was sent parses into the packet it was made  *)
(* of: the same fields are present, with the same contents and sizes.      *)
RoundTrip == Intact /\ Nonempty => status = "PACKET_VALID" /\ Agrees

(* "likely bit error": a frame with one altered byte of data, an altered   *)
(* length or checksum, or a lost end is never taken for a packet; one that *)
(* lost its end is reported as incomplete.                                 *)
DamageDetected ==
  pc = "parsed" =>
    /\ journey \in {"changed", "cut"} => status # "PACKET_VALID"
    /\ journey = "cut" => status = "PACKET_INCOMPLETE"

(* The comments of poly_packet_parse_buffer and of the service promise an  *)
(* error "if len is longer than it should be (missed delimiter)".          *)
ExcessIsRefused ==
  pc = "parsed" /\ journey = "longer" => status = "PACKET_PARSING_ERROR"

(* What the code does: the bytes behind the packet do not change it, and   *)
(* nothing tells the caller of them.                                       *)
ExcessIsIgnored ==
  pc = "parsed" /\ journey = "longer" /\ Nonempty => status = "PACKET_VALID" /\ Agrees

(* poly_packet_pack_encoded packs into a buffer of max_packed_size bytes.  *)
PackedFits == PackedLength(sent) <= MaxPackedSize(sent)

(* What JSON can carry: a single number, of one byte or in decimal and no  *)
(* wider than a long; and a string without zeros that ends where its block *)
(* has a zero, which it does not if it fills the block or a longer one was *)
(* there before it.  A number printed as characters is not read back.      *)
Legible(i) ==
  IF IsText(Fields[i])
  THEN CString(sent[i].mData) = Content(sent[i]) /\ sent[i].mSize < Len(sent[i].mData)
  ELSE /\ Fields[i].mFormat # "ASCII" /\ sent[i].mSize = Fields[i].mObjSize
       /\ \/ Fields[i].mFormat = "DEC" /\ Fields[i].mObjSize <= LongBytes
          \/ Fields[i].mObjSize = 1

(* A packet printed as JSON and read back, as a frame or directly, has all *)
(* its fields and no others; one that JSON can carry is unchanged,         *)
(* whatever happened to the others.  This is of packets whose strings, as  *)
(* printed, have no quote and no backslash: one such byte anywhere, and    *)
(* nothing is promised of any field.                                       *)
JsonRoundTrip ==
  pc = "parsed" /\ journey = "text" /\ ~Garbled =>
    /\ status = "PACKET_VALID" /\ Present(received) = Present(sent)
    /\ \A i \in Present(sent) : Legible(i) => SameField(i)

(* "If a packet contains no fields there is no data section and the Data   *)
(* Len is 0": also such a packet arrives.                                  *)
EmptyArrives == Intact => status = "PACKET_VALID"
=============================================================================
