---------------------------- MODULE PolyPacketMemory ---------------------------
(***************************************************************************)
(* Who owns the memory of a packet's fields.  poly_packet_build allocates  *)
(* an array of fields and a block for each; a packet structure is copied   *)
(* into the spool byte by byte, so that the array is then reached from two *)
(* places, and the flags mBuilt, mSpooled and mReusable say who may free   *)
(* it.  A reusable packet keeps a deep copy of its own (poly_packet_reset).*)
(*                                                                         *)
(* The spool's entries are kept with their trash marks, since these decide *)
(* how often a packet is cleaned; which entry a packet of higher priority  *)
(* takes over, and when an entry is popped, acknowledged or given up, is   *)
(* left open.  All packets have one type.  poly_field_bind and fields      *)
(* without allocated memory are left out: nothing here uses them.          *)
(*                                                                         *)
(* The definitions named Bug... are slips the properties must detect; the  *)
(* specification uses none of them.                                        *)
(***************************************************************************)
EXTENDS Integers, FiniteSets, FiniteSetsExt, Sequences

CONSTANTS
  Fields,      \* sequence of [size : mObjSize * mLen, mVarLen : BOOLEAN]
  Contents(_), \* byte sequences set or received for a field
  Packets,     \* packet structures of the application
  MaxEntries,  \* entries of the spool
  MaxArrays    \* arrays that exist at one time; what leaks is never given back

FieldIds == DOMAIN Fields
NULL == 0
Arrays == 1 .. MaxArrays
Slots == 0 .. MaxEntries - 1

ASSUME MemoryAssumption ==
  /\ Fields \in Seq([size : Nat \ {0}, mVarLen : BOOLEAN])
  /\ \A i \in FieldIds : \A c \in Contents(i) :
       c \in Seq(Nat) /\ (Fields[i].mVarLen \/ Len(c) = Fields[i].size)
  /\ MaxEntries \in Nat \ {0} /\ MaxArrays \in Nat

VARIABLES
  heap,     \* [Arrays -> array of fields], live or freed, and what the spool did to it
  packet,   \* [Packets -> poly_packet_t of the application]
  mutex,    \* [Packets -> BOOLEAN], the mMutex of the packet has not been deleted
  entry,    \* [Slots -> entry of the spool: in use or FREE, trash mark, and the
            \* array and origin of the packet last copied into it, with the
            \* content to be sent]
  written   \* [Packets -> contents the application has put into the packet]

vars == <<heap, packet, mutex, entry, written>>

-----------------------------------------------------------------------------
(* poly_field.c.  mData is the block of the field: its bytes, and whether  *)
(* it has been freed.  fault collects what an operation did wrong to it.   *)

Junk(n) == [k \in 1..n |-> -1]
Zeros(n) == [k \in 1..n |-> 0]

FieldInit(i) ==
  [mSize |-> Fields[i].size, mPresent |-> FALSE, mAllocated |-> Fields[i].size,
   mData |-> [live |-> TRUE, bytes |-> Zeros(Fields[i].size)], fault |-> {}]

FreeData(f) ==
  IF f.mData.live THEN [f EXCEPT !.mData = [live |-> FALSE, bytes |-> <<>>]]
                  ELSE [f EXCEPT !.fault = @ \cup {"freedTwice"}]

Malloc(f, n) ==
  [f EXCEPT !.mData = [live |-> TRUE, bytes |-> Junk(n)],
            !.fault = IF f.mData.live THEN @ \cup {"leaked"} ELSE @]

(* memcpy to the start of the block.                                       *)
MemCpy(f, data) ==
  IF ~f.mData.live THEN [f EXCEPT !.fault = @ \cup {"usedAfterFree"}]
  ELSE IF Len(data) > Len(f.mData.bytes) THEN [f EXCEPT !.fault = @ \cup {"overrun"}]
  ELSE [f EXCEPT !.mData.bytes =
          [k \in DOMAIN @ |-> IF k <= Len(data) THEN data[k] ELSE @[k]]]

(* poly_field_destroy, and the first half of every reallocation            *)
Destroyed(f) == IF f.mAllocated > 0 THEN FreeData(f) ELSE f

Reallocated(f, n) == [Malloc(Destroyed(f), n) EXCEPT !.mAllocated = n]

FieldSet(f, i, data) ==
  LET roomy == IF Fields[i].mVarLen /\ Len(data) > f.mAllocated
               THEN Reallocated(f, Len(data)) ELSE f
      sized == IF Fields[i].mVarLen THEN [roomy EXCEPT !.mSize = Len(data)] ELSE roomy
  IN  MemCpy([sized EXCEPT !.mPresent = TRUE], data)

BugCopiesInPlace(dst, src) ==
  IF ~src.mPresent THEN dst
  ELSE MemCpy([dst EXCEPT !.mSize = src.mSize, !.mPresent = TRUE], src.mData.bytes)

FieldCopy(dst, src) ==
  LET roomy == IF dst.mAllocated < src.mAllocated
               THEN Reallocated(dst, src.mAllocated) ELSE dst
  IN  IF ~src.mPresent THEN dst
      ELSE MemCpy([roomy EXCEPT !.mSize = src.mSize, !.mPresent = TRUE],
                  SubSeq(src.mData.bytes, 1, src.mAllocated))

(* poly_field_parse of a field the parser has marked as present; a new     *)
(* size gets a block with room for a terminator.                           *)
FieldParse(f, i, data) ==
  LET n == Len(data)
      resized == [Reallocated(f, n + 1) EXCEPT !.mSize = n, !.mData.bytes[n + 1] = 0]
  IN  MemCpy([(IF Fields[i].mVarLen /\ n # f.mSize THEN resized ELSE f)
                EXCEPT !.mPresent = TRUE], data)

-----------------------------------------------------------------------------
(* poly_packet.c                                                           *)

FreeArrays == {a \in Arrays : ~heap[a].live}
NewArray == CHOOSE a \in FreeArrays : TRUE

BuiltFields == [i \in FieldIds |-> FieldInit(i)]
WithArray(h, a, fields) ==
  [h EXCEPT ![a] = [live |-> TRUE, fate |-> "none", fields |-> fields]]

(* poly_packet_clean: the blocks, then the array.  Of a freed array only   *)
(* that it is freed matters, and what went wrong.                          *)
FreedField(i, fault) ==
  [FieldInit(i) EXCEPT !.mData = [live |-> FALSE, bytes |-> <<>>], !.fault = fault]
Freed(fields, fate) ==
  [live |-> FALSE, fate |-> fate,
   fields |-> [i \in FieldIds |-> FreedField(i, Destroyed(fields[i]).fault)]]

Cleaned(a) == [heap EXCEPT ![a] = Freed(@.fields, "none")]

(* poly_packet_copy between packets of one type                            *)
Copied(dst, src) == [i \in FieldIds |-> FieldCopy(dst[i], src[i])]

(* poly_packet_parse_buffer: the fields of the frame one after the other,  *)
(* perhaps one of them twice.                                              *)
Parsed(frame) ==
  LET read[n \in 0..Len(frame)] ==
        IF n = 0 THEN BuiltFields
        ELSE [read[n - 1] EXCEPT ![frame[n].id] = FieldParse(@, frame[n].id, frame[n].data)]
  IN  read[Len(frame)]

Parts == UNION {[id : {i}, data : Contents(i)] : i \in FieldIds}
Frames == UNION {[1..n -> Parts] : n \in 0 .. Len(Fields)}

(* What a packet holds: for each field its content, or nothing.            *)
Content(fields) ==
  [i \in FieldIds |->
     IF fields[i].mPresent THEN {SubSeq(fields[i].mData.bytes, 1, fields[i].mSize)}
     ELSE {}]

Nothing == [i \in FieldIds |-> {}]

(* The application may use a packet it has built and still has: one it has *)
(* not handed to the spool, or one that keeps fields of its own.           *)
Owns(p) == packet[p].mBuilt /\ (~packet[p].mSpooled \/ packet[p].mReusable)

Init ==
  /\ heap = [a \in Arrays |-> [live |-> FALSE,
                               fate |-> "none",
                               fields |-> [i \in FieldIds |-> FreedField(i, {})]]]
  /\ packet = [p \in Packets |-> [mBuilt |-> FALSE, mSpooled |-> FALSE,
                                  mReusable |-> FALSE, mFields |-> NULL]]
  /\ mutex = [p \in Packets |-> FALSE]
  /\ entry = [i \in Slots |-> [used |-> FALSE, mTrash |-> FALSE, mFields |-> NULL,
                              from |-> {}, content |-> Nothing]]
  /\ written = [p \in Packets |-> Nothing]

(* A structure that is built anew has a mutex of its own, whatever copy of *)
(* it the spool may still hold.                                            *)
Disowned(p) == [i \in Slots |-> [entry[i] EXCEPT !.from = @ \ {p}]]

(* tp_packet_build, and mReusable set by the application                   *)
Build(p, reusable) ==
  /\ ~Owns(p) /\ FreeArrays # {}
  /\ heap' = WithArray(heap, NewArray, BuiltFields)
  /\ packet' = [packet EXCEPT ![p] = [mBuilt |-> TRUE, mSpooled |-> FALSE,
                                      mReusable |-> reusable, mFields |-> NewArray]]
  /\ mutex' = [mutex EXCEPT ![p] = TRUE]
  /\ entry' = Disowned(p)
  /\ written' = [written EXCEPT ![p] = Nothing]

(* poly_service_try_parse_interface: the packet is built, parsed into, and *)
(* cleaned again if the frame turns out to be wrong after all.             *)
Receive(p, frame, valid) ==
  /\ ~Owns(p) /\ FreeArrays # {}
  /\ heap' = IF valid THEN WithArray(heap, NewArray, Parsed(frame))
             ELSE [heap EXCEPT ![NewArray] = Freed(Parsed(frame), "none")]
  /\ packet' = [packet EXCEPT ![p] = [mBuilt |-> valid, mSpooled |-> FALSE,
                                      mReusable |-> FALSE,
                                      mFields |-> IF valid THEN NewArray ELSE NULL]]
  /\ mutex' = [mutex EXCEPT ![p] = valid]
  /\ entry' = Disowned(p)
  /\ written' = [written EXCEPT ![p] = IF valid THEN Content(Parsed(frame)) ELSE Nothing]

(* poly_packet_set_field                                                   *)
SetField(p, i, data) ==
  /\ Owns(p)
  /\ heap' = [heap EXCEPT ![packet[p].mFields].fields[i] = FieldSet(@, i, data)]
  /\ written' = [written EXCEPT ![p][i] = {data}]
  /\ UNCHANGED <<packet, mutex, entry>>

(* tp_packet_copy; fields src does not have stay what they were in dst     *)
Copy(dst, src) ==
  /\ Owns(dst) /\ Owns(src) /\ dst # src
  /\ heap' = [heap EXCEPT ![packet[dst].mFields].fields =
                Copied(@, heap[packet[src].mFields].fields)]
  /\ written' = [written EXCEPT ![dst] =
                   [i \in FieldIds |-> IF written[src][i] # {} THEN written[src][i]
                                                               ELSE @[i]]]
  /\ UNCHANGED <<packet, mutex, entry>>

(* poly_packet_reset, called by poly_spool_push: the packet gets an array  *)
(* of its own; it keeps its mutex, which the copy in the spool has too.    *)
BugResetEmpties(a) == BuiltFields
ResetFields(a) == Copied(BuiltFields, heap[a].fields)

BugMarksSpooled(p) == packet[p]
Handed(p) ==
  [packet[p] EXCEPT !.mSpooled = TRUE,
                    !.mFields = IF packet[p].mReusable THEN NewArray ELSE NULL]

FreeSlots == {i \in Slots : ~entry[i].used}

(* The entry poly_spool_get_next_free finds: the first FREE one, or, when  *)
(* there is none, one that holds a packet of lower priority.               *)
Fillable(i) == FreeSlots # {} => i = Min(FreeSlots)

(* What poly_spool_push cleans to make room: an entry still in use is      *)
(* evicted by get_next_free, and what the entry held is cleaned, perhaps   *)
(* for the second time, if it carries a trash mark.                        *)
Evicted(h, i) ==
  IF entry[i].used THEN [h EXCEPT ![entry[i].mFields] = Freed(@.fields, "none")] ELSE h
Uncluttered(h, i) ==
  IF entry[i].mTrash
  THEN [h EXCEPT ![entry[i].mFields] =
          Freed(@.fields, IF entry[i].used THEN "evicted" ELSE "none")]
  ELSE h
Vacated(i) == Uncluttered(Evicted(heap, i), i)

(* poly_packet_clean deletes the mutex of the structure it cleans, which   *)
(* is that of the packet the structure was copied from.                    *)
MutexesLeft(i) ==
  [p \in Packets |->
     mutex[p] /\ ~(p \in entry[i].from /\ (entry[i].used \/ entry[i].mTrash))]

(* The structure is copied into the entry, whose trash mark stays.         *)
Filled(i, a, from, fields) ==
  [entry EXCEPT ![i] = [used |-> TRUE, mTrash |-> @.mTrash, mFields |-> a,
                        from |-> from, content |-> Content(fields)]]

(* tp_send of a packet the spool takes; one it refuses stays as it is      *)
Send(p, i) ==
  LET a == packet[p].mFields
  IN  /\ Owns(p) /\ Fillable(i) /\ (packet[p].mReusable => FreeArrays # {})
      /\ entry' = Filled(i, a, {p}, heap[a].fields)
      /\ mutex' = MutexesLeft(i)
      /\ packet' = [packet EXCEPT ![p] = Handed(p)]
      /\ IF packet[p].mReusable
         THEN /\ heap' = WithArray(Vacated(i), NewArray, ResetFields(a))
              /\ UNCHANGED written
         ELSE /\ heap' = Vacated(i)
              /\ written' = [written EXCEPT ![p] = Nothing]

(* tp_sendPing and the like, of a packet of their own: built, a field set  *)
(* or none, and sent.                                                      *)
QuickSend(fields, i) ==
  /\ FreeArrays # {} /\ Fillable(i)
  /\ heap' = WithArray(Vacated(i), NewArray, fields)
  /\ entry' = Filled(i, NewArray, {}, fields)
  /\ mutex' = MutexesLeft(i)
  /\ UNCHANGED <<packet, written>>

(* They clean their packet if the full spool does not take it.             *)
QuickSendRefused(fields) ==
  /\ FreeArrays # {} /\ FreeSlots = {}
  /\ heap' = [heap EXCEPT ![NewArray] = Freed(fields, "none")]
  /\ UNCHANGED <<packet, mutex, entry, written>>

QuickPackets ==
  {BuiltFields} \cup UNION {{[BuiltFields EXCEPT ![i] = FieldSet(@, i, data)] :
                               data \in Contents(i)} : i \in FieldIds}

(* poly_spool_pop of a packet that needs no acknowledgement, and           *)
(* poly_spool_tick when one is given up: the entry is FREE and marked.     *)
Finish(i) ==
  /\ entry[i].used
  /\ entry' = [entry EXCEPT ![i].used = FALSE, ![i].content = Nothing, ![i].mTrash = TRUE]
  /\ UNCHANGED <<heap, packet, mutex, written>>

(* poly_spool_ack marks entry 0, whatever entry it makes FREE.             *)
BugTrashesLast(i) == MaxEntries - 1
TrashedByAck(i) == 0

Forgotten(i) == i # TrashedByAck(i) /\ ~entry[i].mTrash

Ack(i) ==
  /\ entry[i].used
  /\ entry' = [entry EXCEPT ![i].used = FALSE, ![i].content = Nothing,
                            ![TrashedByAck(i)].mTrash = TRUE]
  /\ heap' = IF Forgotten(i)
             THEN [heap EXCEPT ![entry[i].mFields].fate = "forgotten"] ELSE heap
  /\ UNCHANGED <<packet, mutex, written>>

(* The pointers of a structure that is not built are never looked at.      *)
Unbuilt(p) ==
  [packet EXCEPT ![p] = [mBuilt |-> FALSE, mSpooled |-> FALSE, mReusable |-> FALSE,
                         mFields |-> NULL]]

(* tp_clean, at any time                                                   *)
Clean(p) ==
  /\ packet[p].mBuilt /\ ~packet[p].mSpooled
  /\ heap' = Cleaned(packet[p].mFields)
  /\ packet' = Unbuilt(p)
  /\ mutex' = [mutex EXCEPT ![p] = FALSE]
  /\ entry' = Disowned(p)
  /\ written' = [written EXCEPT ![p] = Nothing]

(* tp_clean leaves a reusable packet alone once it was sent: its owner has *)
(* to call poly_packet_clean, as a destructor would.                       *)
Destruct(p) ==
  /\ Owns(p) /\ packet[p].mReusable
  /\ heap' = Cleaned(packet[p].mFields)
  /\ packet' = Unbuilt(p)
  /\ mutex' = [mutex EXCEPT ![p] = FALSE]
  /\ entry' = Disowned(p)
  /\ written' = [written EXCEPT ![p] = Nothing]

Next ==
  \/ \E p \in Packets :
       \/ \E reusable \in BOOLEAN : Build(p, reusable)
       \/ \E frame \in Frames, valid \in BOOLEAN : Receive(p, frame, valid)
       \/ \E i \in FieldIds : \E data \in Contents(i) : SetField(p, i, data)
       \/ \E src \in Packets : Copy(p, src)
       \/ \E i \in Slots : Send(p, i)
       \/ Clean(p)
       \/ Destruct(p)
  \/ \E fields \in QuickPackets :
       \/ \E i \in Slots : QuickSend(fields, i)
       \/ QuickSendRefused(fields)
  \/ \E i \in Slots : Finish(i) \/ Ack(i)

Spec == Init /\ [][Next]_vars
-----------------------------------------------------------------------------
Faults == {"freedTwice", "leaked", "usedAfterFree", "overrun"}
ContentType == [FieldIds -> SUBSET Seq(Int)]
FieldType == [mSize : Nat, mPresent : BOOLEAN, mAllocated : Nat \ {0},
              mData : [live : BOOLEAN, bytes : Seq(Int)], fault : SUBSET Faults]

TypeOK ==
  /\ \A a \in Arrays : /\ heap[a].live \in BOOLEAN
                       /\ heap[a].fate \in {"none", "evicted", "forgotten"}
                       /\ heap[a].fields \in [FieldIds -> FieldType]
  /\ \A p \in Packets : /\ packet[p].mFields \in Arrays \cup {NULL}
                        /\ Owns(p) => packet[p].mFields \in Arrays
  /\ mutex \in [Packets -> BOOLEAN]
  /\ \A i \in Slots : /\ entry[i].mFields \in Arrays \cup {NULL}
                      /\ entry[i].from \subseteq Packets
                      /\ entry[i].used \/ entry[i].mTrash => entry[i].mFields \in Arrays

(* No operation on a field frees its block twice, loses it, uses it after  *)
(* it was freed or writes or reads beyond it, whatever sizes follow one    *)
(* another through set, copy and parse, and in whatever order application  *)
(* and spool let go of a packet; but for a packet that was evicted, which  *)
(* poly_spool_push may clean a second time on a trash mark left over.      *)
MemorySafe ==
  \A a \in Arrays : \A i \in FieldIds :
    heap[a].fields[i].fault \subseteq
      IF heap[a].fate = "evicted" THEN {"freedTwice"} ELSE {}

(* Who will free an array: the application, or the spool, which comes back *)
(* to the packets it still has to send and to those marked as trash.       *)
HeldByApplication(a) == {p \in Packets : Owns(p) /\ packet[p].mFields = a}
HeldBySpool(a) ==
  {i \in Slots : (entry[i].used \/ entry[i].mTrash) /\ entry[i].mFields = a}
Holders(a) == Cardinality(HeldByApplication(a)) + Cardinality(HeldBySpool(a))

(* No array is held twice, none is held after it was freed, and every one  *)
(* allocated is held, but for those poly_spool_ack forgets, whose mark it  *)
(* gave to entry 0.  The blocks live and die with their array; a block is  *)
(* as large as the field remembers and the content fits it.                *)
OneOwner ==
  \A a \in Arrays :
    /\ Holders(a) = IF heap[a].live /\ heap[a].fate # "forgotten" THEN 1 ELSE 0
    /\ \A i \in FieldIds :
         LET f == heap[a].fields[i]
         IN  /\ f.mData.live = heap[a].live
             /\ f.mData.live => f.mAllocated = Len(f.mData.bytes) /\ f.mSize <= f.mAllocated

(* A packet holds what was last written into it, and the spool sends what  *)
(* the packet held when it was handed over, although a reusable packet is  *)
(* written to again, copied over or destroyed meanwhile.                   *)
ContentsKept ==
  /\ \A p \in Packets : Owns(p) =>
       Content(heap[packet[p].mFields].fields) = written[p]
  /\ \A i \in Slots : entry[i].used =>
       Content(heap[entry[i].mFields].fields) = entry[i].content

(* "indicates if packet is reusable": the mutex poly_packet_set_field will *)
(* lock exists as long as the application has the packet.                  *)
ReusableKeepsMutex == \A p \in Packets : Owns(p) => mutex[p]
=============================================================================
