------------------------ MODULE PolyPacketMemoryProofs ------------------------
(***************************************************************************)
(* What holds of the memory of packets for any fields, any contents, any   *)
(* packets and any size of the spool: which arrays have an owner, that no  *)
(* block is misused but where poly_spool_push cleans a packet twice, and   *)
(* that contents are kept.                                                 *)
(***************************************************************************)
EXTENDS PolyPacketMemory, FiniteSetTheorems, WellFoundedInduction, TLAPS

-----------------------------------------------------------------------------
(* Operations on a field                                                   *)

(* The field i in an array that is allocated: nothing went wrong, and the  *)
(* block is as large as the field remembers.                               *)
Fit(i, f) ==
  /\ f \in FieldType /\ f.fault = {} /\ f.mData.live
  /\ Len(f.mData.bytes) = f.mAllocated /\ f.mSize <= f.mAllocated
  /\ ~Fields[i].mVarLen => f.mSize = Fields[i].size

Held(f) == IF f.mPresent THEN {SubSeq(f.mData.bytes, 1, f.mSize)} ELSE {}

(* The blocks malloc and calloc return.                                    *)
LEMMA NewBlocks ==
  ASSUME NEW n \in Nat
  PROVE  /\ Junk(n) \in Seq(Int) /\ Len(Junk(n)) = n
         /\ Zeros(n) \in Seq(Int) /\ Len(Zeros(n)) = n
BY DEF Junk, Zeros

(* What the type of the packet says of a field.                            *)
LEMMA FieldDescribed ==
  ASSUME NEW i \in FieldIds
  PROVE  /\ Fields[i].size \in Nat \ {0} /\ Fields[i].mVarLen \in BOOLEAN
         /\ \A c \in Contents(i) : /\ c \in Seq(Int) /\ Len(c) \in Nat
                                   /\ Fields[i].mVarLen \/ Len(c) = Fields[i].size
<1>1. Fields[i] \in [size : Nat \ {0}, mVarLen : BOOLEAN]
  <2> DEFINE D == [size : Nat \ {0}, mVarLen : BOOLEAN]
  <2>1. Fields \in Seq(D) /\ i \in DOMAIN Fields
    BY MemoryAssumption DEF FieldIds
  <2> HIDE DEF D
  <2>2. Fields[i] \in D
    BY <2>1
  <2> QED  BY <2>2 DEF D
<1>2. \A c \in Contents(i) : c \in Seq(Nat) /\ (Fields[i].mVarLen \/ Len(c) = Fields[i].size)
  BY MemoryAssumption
<1>3. \A c \in Seq(Nat) : c \in Seq(Int) /\ Len(c) \in Nat
  OBVIOUS
<1> QED
  BY <1>1, <1>2, <1>3

(* A field that was just built fits and holds nothing.                     *)
LEMMA FieldInitFits ==
  ASSUME NEW i \in FieldIds
  PROVE  Fit(i, FieldInit(i)) /\ Held(FieldInit(i)) = {}
BY FieldDescribed, NewBlocks DEF FieldInit, Fit, FieldType, Held, Faults

(* A reallocation frees the old block, once, and allocates the new one.    *)
LEMMA ReallocatedFits ==
  ASSUME NEW f \in FieldType, f.mData.live, f.fault = {}, NEW n \in Nat \ {0}
  PROVE  LET r == Reallocated(f, n)
         IN  /\ r \in FieldType /\ r.mData.live /\ r.fault = {}
             /\ Len(r.mData.bytes) = n /\ r.mAllocated = n
             /\ r.mSize = f.mSize /\ r.mPresent = f.mPresent
<1> DEFINE freed == [f EXCEPT !.mData = [live |-> FALSE, bytes |-> <<>>]]
           block == [live |-> TRUE, bytes |-> Junk(n)]
           r == [freed EXCEPT !.mData = block, !.mAllocated = n]
<1>1. f.mAllocated > 0
  BY DEF FieldType
<1>2. freed \in FieldType /\ freed.fault = {} /\ ~freed.mData.live
  <2> DEFINE dead == [live |-> FALSE, bytes |-> <<>>]
  <2>1. dead \in [live : BOOLEAN, bytes : Seq(Int)] /\ ~dead.live
    OBVIOUS
  <2> HIDE DEF dead
  <2>2. LET g == [f EXCEPT !.mData = dead]
        IN  g \in FieldType /\ g.fault = {} /\ g.mData = dead
    BY <2>1 DEF FieldType
  <2> QED  BY <2>1, <2>2 DEF dead
<1>3. Destroyed(f) = freed
  BY <1>1 DEF Destroyed, FreeData
<1>4. block \in [live : BOOLEAN, bytes : Seq(Int)] /\ Len(block.bytes) = n /\ block.live
  BY NewBlocks
<1>5. Malloc(freed, n) = [freed EXCEPT !.mData = block]
  <2>1. freed = [freed EXCEPT !.fault = freed.fault]
    BY <1>2 DEF FieldType
  <2> QED  BY <1>2 DEF Malloc, FieldType
<1>6. Reallocated(f, n) = r
  BY <1>3, <1>5 DEF Reallocated
<1> HIDE DEF block
<1> QED
  BY <1>2, <1>4, <1>6 DEF FieldType

(* The bytes of a block that lives are replaced.                           *)
LEMMA BytesReplaced ==
  ASSUME NEW f \in FieldType, f.mData.live, NEW bytes \in Seq(Int)
  PROVE  LET r == [f EXCEPT !.mData.bytes = bytes]
         IN  /\ r \in FieldType /\ r.mData.live /\ r.mData.bytes = bytes
             /\ r.fault = f.fault /\ r.mAllocated = f.mAllocated
             /\ r.mSize = f.mSize /\ r.mPresent = f.mPresent
<1> DEFINE block == [f.mData EXCEPT !.bytes = bytes]
<1>1. f.mData \in [live : BOOLEAN, bytes : Seq(Int)]
  BY DEF FieldType
<1>2. block \in [live : BOOLEAN, bytes : Seq(Int)] /\ block.live /\ block.bytes = bytes
  BY <1>1
<1>3. [f EXCEPT !.mData.bytes = bytes] = [f EXCEPT !.mData = block]
  OBVIOUS
<1> HIDE DEF block
<1> QED
  BY <1>2, <1>3 DEF FieldType

(* A copy into a block that is large enough changes its first bytes.       *)
LEMMA MemCpyFits ==
  ASSUME NEW f \in FieldType, f.mData.live, NEW data \in Seq(Int),
         Len(data) <= Len(f.mData.bytes)
  PROVE  LET r == MemCpy(f, data)
         IN  /\ r \in FieldType /\ r.mData.live /\ r.fault = f.fault
             /\ Len(r.mData.bytes) = Len(f.mData.bytes)
             /\ r.mAllocated = f.mAllocated /\ r.mSize = f.mSize
             /\ r.mPresent = f.mPresent
             /\ \A m \in 0..Len(data) : SubSeq(r.mData.bytes, 1, m) = SubSeq(data, 1, m)
<1> DEFINE bytes == f.mData.bytes
           new == [k \in 1..Len(bytes) |-> IF k <= Len(data) THEN data[k] ELSE bytes[k]]
           r == [f EXCEPT !.mData.bytes = new]
<1>1. bytes \in Seq(Int) /\ Len(bytes) \in Nat /\ DOMAIN bytes = 1..Len(bytes)
  BY DEF FieldType
<1>2. MemCpy(f, data) = r
  BY <1>1 DEF MemCpy
<1>3. new \in Seq(Int) /\ Len(new) = Len(bytes)
  <2>1. \A k \in 1..Len(bytes) : (IF k <= Len(data) THEN data[k] ELSE bytes[k]) \in Int
    BY <1>1
  <2> QED  BY <1>1, <2>1
<1>4. \A m \in 0..Len(data) : SubSeq(new, 1, m) = SubSeq(data, 1, m)
  <2> TAKE m \in 0..Len(data)
  <2>1. /\ SubSeq(new, 1, m) = [k \in 1..m |-> new[k]]
        /\ SubSeq(data, 1, m) = [k \in 1..m |-> data[k]]
    BY <1>1, <1>3
  <2>2. \A k \in 1..m : new[k] = data[k]
    BY <1>1
  <2> HIDE DEF new
  <2> QED  BY <2>1, <2>2
<1> HIDE DEF new
<1>5. /\ r \in FieldType /\ r.mData.live /\ r.fault = f.fault /\ r.mData.bytes = new
      /\ r.mAllocated = f.mAllocated /\ r.mSize = f.mSize /\ r.mPresent = f.mPresent
  BY <1>3, BytesReplaced
<1> HIDE DEF r
<1> QED
  BY <1>2, <1>3, <1>4, <1>5

(* poly_packet_set_field leaves a field that fits and holds the content.   *)
LEMMA FieldSetFits ==
  ASSUME NEW i \in FieldIds, NEW f, Fit(i, f), NEW data \in Contents(i)
  PROVE  Fit(i, FieldSet(f, i, data)) /\ Held(FieldSet(f, i, data)) = {data}
<1> DEFINE roomy == IF Fields[i].mVarLen /\ Len(data) > f.mAllocated
                    THEN Reallocated(f, Len(data)) ELSE f
           sized == IF Fields[i].mVarLen THEN [roomy EXCEPT !.mSize = Len(data)] ELSE roomy
           marked == [sized EXCEPT !.mPresent = TRUE]
<1>1. /\ Fields[i].mVarLen \in BOOLEAN /\ data \in Seq(Int) /\ Len(data) \in Nat
      /\ Fields[i].mVarLen \/ Len(data) = Fields[i].size
  BY FieldDescribed
<1>2. /\ f \in FieldType /\ f.mData.live /\ f.fault = {} /\ f.mAllocated \in Nat
      /\ Len(f.mData.bytes) = f.mAllocated /\ f.mSize <= f.mAllocated
      /\ ~Fields[i].mVarLen => f.mSize = Fields[i].size
  BY DEF Fit, FieldType
<1>3. /\ roomy \in FieldType /\ roomy.mData.live /\ roomy.fault = {}
      /\ Len(roomy.mData.bytes) = roomy.mAllocated /\ roomy.mSize = f.mSize
      /\ Len(data) <= roomy.mAllocated
  BY <1>1, <1>2, ReallocatedFits
<1> HIDE DEF roomy
<1>4. /\ marked \in FieldType /\ marked.mData.live /\ marked.fault = {}
      /\ Len(marked.mData.bytes) = marked.mAllocated /\ marked.mSize = Len(data)
      /\ marked.mPresent /\ Len(data) <= marked.mAllocated
  BY <1>1, <1>2, <1>3 DEF FieldType
<1>5. FieldSet(f, i, data) = MemCpy(marked, data)
  BY DEF FieldSet, roomy
<1> HIDE DEF marked
<1> DEFINE r == MemCpy(marked, data)
<1>6. /\ r \in FieldType /\ r.mData.live /\ r.fault = {} /\ r.mPresent
      /\ Len(r.mData.bytes) = r.mAllocated /\ r.mSize = Len(data)
      /\ Len(data) <= r.mAllocated
      /\ SubSeq(r.mData.bytes, 1, Len(data)) = SubSeq(data, 1, Len(data))
  BY <1>1, <1>4, MemCpyFits
<1>7. SubSeq(data, 1, Len(data)) = data
  BY <1>1
<1> HIDE DEF r
<1> QED
  BY <1>1, <1>5, <1>6, <1>7 DEF Fit, Held, r

(* poly_field_copy: what the source holds, or what was there before.       *)
LEMMA FieldCopyFits ==
  ASSUME NEW i \in FieldIds, NEW dst, Fit(i, dst), NEW src, Fit(i, src)
  PROVE  /\ Fit(i, FieldCopy(dst, src))
         /\ Held(FieldCopy(dst, src)) = IF src.mPresent THEN Held(src) ELSE Held(dst)
<1> DEFINE roomy == IF dst.mAllocated < src.mAllocated
                    THEN Reallocated(dst, src.mAllocated) ELSE dst
           marked == [roomy EXCEPT !.mSize = src.mSize, !.mPresent = TRUE]
           data == SubSeq(src.mData.bytes, 1, src.mAllocated)
           r == MemCpy(marked, data)
<1>1. CASE ~src.mPresent
  BY <1>1 DEF FieldCopy
<1>2. CASE src.mPresent
  <2>1. FieldCopy(dst, src) = r
    BY <1>2 DEF FieldCopy
  <2>2. /\ src \in FieldType /\ src.mAllocated \in Nat \ {0} /\ src.mSize \in Nat
        /\ src.mSize <= src.mAllocated /\ src.mData.bytes \in Seq(Int)
        /\ Len(src.mData.bytes) = src.mAllocated
        /\ ~Fields[i].mVarLen => src.mSize = Fields[i].size
    BY DEF Fit, FieldType
  <2>3. data = src.mData.bytes
    BY <2>2
  <2>4. /\ roomy \in FieldType /\ roomy.mData.live /\ roomy.fault = {}
        /\ Len(roomy.mData.bytes) = roomy.mAllocated
        /\ src.mAllocated <= roomy.mAllocated /\ roomy.mAllocated \in Nat
    BY SMTT(30), <2>2, ReallocatedFits DEF Fit, FieldType
  <2> HIDE DEF roomy
  <2>5. /\ marked \in FieldType /\ marked.mData.live /\ marked.fault = {}
        /\ Len(marked.mData.bytes) = marked.mAllocated /\ marked.mSize = src.mSize
        /\ marked.mPresent /\ src.mAllocated <= marked.mAllocated
        /\ marked.mAllocated \in Nat
    BY <2>2, <2>4 DEF FieldType
  <2> HIDE DEF marked, data
  <2>6. /\ r \in FieldType /\ r.mData.live /\ r.fault = {} /\ r.mPresent
        /\ Len(r.mData.bytes) = r.mAllocated /\ r.mSize = src.mSize
        /\ src.mAllocated <= r.mAllocated /\ r.mAllocated \in Nat
        /\ \A m \in 0..Len(data) : SubSeq(r.mData.bytes, 1, m) = SubSeq(data, 1, m)
    BY <2>2, <2>3, <2>5, MemCpyFits
  <2>7. SubSeq(r.mData.bytes, 1, src.mSize) = SubSeq(src.mData.bytes, 1, src.mSize)
    BY <2>2, <2>3, <2>6
  <2> HIDE DEF r
  <2> QED  BY <1>2, <2>1, <2>2, <2>6, <2>7 DEF Fit, Held
<1> QED
  BY <1>1, <1>2

(* poly_field_parse: a new size gets a block of its own.                   *)
LEMMA FieldParseFits ==
  ASSUME NEW i \in FieldIds, NEW f, Fit(i, f), NEW data \in Contents(i)
  PROVE  Fit(i, FieldParse(f, i, data))
<1> DEFINE n == Len(data)
           fresh == Reallocated(f, n + 1)
           resized == [fresh EXCEPT !.mSize = n, !.mData.bytes[n + 1] = 0]
           chosen == IF Fields[i].mVarLen /\ n # f.mSize THEN resized ELSE f
           marked == [chosen EXCEPT !.mPresent = TRUE]
           r == MemCpy(marked, data)
<1>1. /\ Fields[i].mVarLen \in BOOLEAN /\ data \in Seq(Int) /\ n \in Nat
      /\ Fields[i].mVarLen \/ n = Fields[i].size
  BY FieldDescribed
<1>2. /\ f \in FieldType /\ f.mData.live /\ f.fault = {} /\ f.mAllocated \in Nat
      /\ Len(f.mData.bytes) = f.mAllocated /\ f.mSize <= f.mAllocated
      /\ ~Fields[i].mVarLen => f.mSize = Fields[i].size
  BY DEF Fit, FieldType
<1>3. /\ fresh \in FieldType /\ fresh.mData.live /\ fresh.fault = {}
      /\ Len(fresh.mData.bytes) = n + 1 /\ fresh.mAllocated = n + 1
  BY <1>1, <1>2, ReallocatedFits
<1> HIDE DEF fresh
<1>4. /\ resized \in FieldType /\ resized.mData.live /\ resized.fault = {}
      /\ Len(resized.mData.bytes) = n + 1 /\ resized.mAllocated = n + 1
      /\ resized.mSize = n
  <2> DEFINE bytes == [fresh.mData.bytes EXCEPT ![n + 1] = 0]
  <2>1. bytes \in Seq(Int) /\ Len(bytes) = n + 1
    BY <1>1, <1>3 DEF FieldType
  <2> DEFINE sized == [fresh EXCEPT !.mSize = n]
             new == [sized EXCEPT !.mData.bytes = bytes]
  <2>2. /\ sized \in FieldType /\ sized.mData = fresh.mData /\ sized.fault = {}
        /\ sized.mAllocated = n + 1 /\ sized.mSize = n
    BY <1>1, <1>3 DEF FieldType
  <2>3. resized = new
    BY <2>2 DEF resized
  <2> HIDE DEF bytes, sized
  <2>4. /\ new \in FieldType /\ new.mData.live /\ new.mData.bytes = bytes
        /\ new.fault = {} /\ new.mAllocated = n + 1 /\ new.mSize = n
    BY <1>3, <2>1, <2>2, BytesReplaced
  <2> HIDE DEF new, resized
  <2> QED  BY <2>1, <2>3, <2>4
<1> HIDE DEF resized
<1>5. /\ chosen \in FieldType /\ chosen.mData.live /\ chosen.fault = {}
      /\ Len(chosen.mData.bytes) = chosen.mAllocated /\ chosen.mSize = n
      /\ n <= chosen.mAllocated
  BY <1>1, <1>2, <1>4
<1> HIDE DEF chosen
<1>6. /\ marked \in FieldType /\ marked.mData.live /\ marked.fault = {}
      /\ Len(marked.mData.bytes) = marked.mAllocated /\ marked.mSize = n
      /\ n <= marked.mAllocated
  BY <1>5 DEF FieldType
<1>7. FieldParse(f, i, data) = r
  BY DEF FieldParse, marked, chosen, resized, fresh
<1> HIDE DEF marked
<1>8. /\ r \in FieldType /\ r.mData.live /\ r.fault = {}
      /\ Len(r.mData.bytes) = r.mAllocated /\ r.mSize = n /\ n <= r.mAllocated
  BY <1>1, <1>6, MemCpyFits
<1> HIDE DEF r
<1> QED
  BY <1>1, <1>7, <1>8 DEF Fit

-----------------------------------------------------------------------------
(* The parser of a frame                                                   *)

Good(fields) == fields \in [FieldIds -> FieldType] /\ \A i \in FieldIds : Fit(i, fields[i])

(* Induction over the naturals, for a set instead of a predicate.          *)
LEMMA InductionSet ==
  ASSUME NEW S, 0 \in S, \A n \in Nat : n \in S => n + 1 \in S
  PROVE  Nat \subseteq S
<1> DEFINE R == {ss \in Nat \X Nat : ss[1] < ss[2]}
           T == Nat \ S
<1>1. IsWellFoundedOn(R, Nat)
  BY NatLessThanWellFounded DEF OpToRel
<1>2. ASSUME T # {} PROVE FALSE
  <2>1. PICK x \in T : \A y \in T : ~(<<y, x>> \in R)
    <3> HIDE DEF R
    <3> QED  BY <1>1, <1>2, WFMin
  <2>2. x \in Nat \ {0} /\ x \notin S
    OBVIOUS
  <2>3. x - 1 \in Nat /\ (x - 1) + 1 = x
    BY <2>2
  <2>4. <<x - 1, x>> \in R
    BY <2>2, <2>3
  <2>5. x - 1 \in S
    BY <2>1, <2>3, <2>4
  <2> QED  BY <2>2, <2>3, <2>5
<1> QED
  BY <1>2

(* A packet that was just built.                                           *)
LEMMA BuiltGood == Good(BuiltFields) /\ Content(BuiltFields) = Nothing
BY FieldInitFits DEF Good, BuiltFields, Content, Nothing, Held, Fit

(* One field of the frame.                                                 *)
LEMMA ParseGood ==
  ASSUME NEW fields, Good(fields), NEW part \in Parts
  PROVE  Good([fields EXCEPT ![part.id] = FieldParse(@, part.id, part.data)])
<1>1. part.id \in FieldIds /\ part.data \in Contents(part.id)
  BY DEF Parts
<1>2. Fit(part.id, FieldParse(fields[part.id], part.id, part.data))
  BY <1>1, FieldParseFits DEF Good
<1> QED
  BY <1>1, <1>2 DEF Good, Fit

(* Whatever the frame says, the parser leaves fields that fit: the fields  *)
(* read so far do, by induction over the fields of the frame.              *)
LEMMA ParsedGood ==
  ASSUME NEW frame \in Frames
  PROVE  Good(Parsed(frame))
<1> DEFINE L == Len(frame)
           Step(g, n) == [g[n - 1] EXCEPT ![frame[n].id] =
                            FieldParse(@, frame[n].id, frame[n].data)]
           Body(g, n) == IF n = 0 THEN BuiltFields ELSE Step(g, n)
           read[n \in 0..L] ==
             IF n = 0 THEN BuiltFields
             ELSE [read[n - 1] EXCEPT ![frame[n].id] =
                     FieldParse(@, frame[n].id, frame[n].data)]
<1>1. L \in Nat /\ \A n \in 1..L : frame[n] \in Parts
  BY DEF Frames
<1>2. Parsed(frame) = read[L]
  BY DEF Parsed
<1>3. \E g : g = [n \in 0..L |-> Body(g, n)]
  <2> HIDE DEF L
  <2> DEFINE Upto(m, h) == h = [n \in 0..m |-> Body(h, n)]
             S == {m \in Nat : \E h : Upto(m, h)}
  <2>1. 0 \in S
    <3>1. Upto(0, [n \in {0} |-> BuiltFields])
      <4> HIDE DEF Step
      <4> QED  OBVIOUS
    <3> QED  BY <3>1
  <2>2. ASSUME NEW m \in Nat, m \in S PROVE m + 1 \in S
    <3>1. PICK h : Upto(m, h)
      BY <2>2
    <3> DEFINE k == [n \in 0..m + 1 |-> IF n = m + 1 THEN Step(h, m + 1) ELSE h[n]]
    <3>2. \A n \in 1..m + 1 : k[n - 1] = h[n - 1]
      OBVIOUS
    <3>3. \A n \in 1..m + 1 : Step(k, n) = Step(h, n)
      BY <3>2
    <3>4. \A n \in 0..m : h[n] = Body(h, n)
      BY <3>1
    <3> HIDE DEF Step, Upto
    <3>5. ASSUME NEW n \in 0..m + 1 PROVE k[n] = Body(k, n)
      <4>1. CASE n = m + 1
        BY <3>3, <4>1
      <4>2. CASE n = 0
        BY <3>4, <4>2
      <4>3. CASE n \in 1..m
        BY <3>3, <3>4, <4>3
      <4> QED  BY <4>1, <4>2, <4>3
    <3> HIDE DEF Body
    <3>6. k = [n \in 0..m + 1 |-> Body(k, n)]
      BY <3>5
    <3>7. Upto(m + 1, k)
      BY <3>6 DEF Upto
    <3> HIDE DEF k
    <3> QED  BY <3>7
  <2> HIDE DEF S
  <2>3. L \in S
    BY <1>1, <2>1, <2>2, InductionSet
  <2> QED  BY <2>3 DEF S
<1>4. read = [n \in 0..L |-> Body(read, n)]
  BY <1>3
<1> HIDE DEF read
<1> DEFINE G == {n \in Nat : n \in 0..L => Good(read[n])}
<1>5. 0 \in G
  BY <1>1, <1>4, BuiltGood
<1>6. ASSUME NEW n \in Nat, n \in G PROVE n + 1 \in G
  <2> SUFFICES ASSUME n + 1 \in 0..L PROVE Good(read[n + 1])
    OBVIOUS
  <2>1. Good(read[n]) /\ frame[n + 1] \in Parts
    BY <1>1, <1>6
  <2>2. read[n + 1] = [read[n] EXCEPT ![frame[n + 1].id] =
                         FieldParse(@, frame[n + 1].id, frame[n + 1].data)]
    <3>1. n + 1 # 0 /\ (n + 1) - 1 = n
      OBVIOUS
    <3>2. read[n + 1] = Body(read, n + 1)
      <4> HIDE DEF Body
      <4> QED  BY <1>4
    <3>3. Body(read, n + 1) = Step(read, n + 1)
      BY <3>1
    <3> QED  BY <3>1, <3>2, <3>3
  <2> HIDE DEF L
  <2> QED  BY <2>1, <2>2, ParseGood
<1>7. L \in G
  <2> HIDE DEF G
  <2> QED  BY <1>1, <1>5, <1>6, InductionSet
<1> QED
  BY <1>1, <1>2, <1>7

-----------------------------------------------------------------------------
(* Arrays of fields                                                        *)

ArrayType == [live : BOOLEAN, fate : {"none", "evicted", "forgotten"},
              fields : [FieldIds -> FieldType]]

(* A freed array: nothing was wrong when it was freed, but for the array   *)
(* of an evicted packet, which may have been freed again.                  *)
Gone(x) ==
  /\ x \in ArrayType /\ ~x.live
  /\ \A i \in FieldIds :
       /\ ~x.fields[i].mData.live
       /\ x.fields[i].fault \subseteq IF x.fate = "evicted" THEN {"freedTwice"} ELSE {}

(* poly_packet_copy, and so poly_packet_reset, copies what the source      *)
(* holds and leaves the rest.                                              *)
LEMMA CopiedGood ==
  ASSUME NEW dst, Good(dst), NEW src, Good(src)
  PROVE  /\ Good(Copied(dst, src))
         /\ Content(Copied(dst, src)) =
              [i \in FieldIds |-> IF Content(src)[i] # {} THEN Content(src)[i]
                                                          ELSE Content(dst)[i]]
<1>1. \A i \in FieldIds : Copied(dst, src)[i] = FieldCopy(dst[i], src[i])
  BY DEF Copied
<1>2. Good(Copied(dst, src))
  <2>1. \A i \in FieldIds : Fit(i, FieldCopy(dst[i], src[i]))
    BY FieldCopyFits DEF Good
  <2>2. \A i \in FieldIds : FieldCopy(dst[i], src[i]) \in FieldType
    BY <2>1 DEF Fit
  <2> QED  BY <2>1, <2>2 DEF Good, Copied
<1>3. \A fields : Content(fields) = [i \in FieldIds |-> Held(fields[i])]
  BY DEF Content, Held
<1>4. \A i \in FieldIds : Held(Copied(dst, src)[i]) =
                            IF Held(src[i]) # {} THEN Held(src[i]) ELSE Held(dst[i])
  <2> TAKE i \in FieldIds
  <2>1. Held(FieldCopy(dst[i], src[i])) = IF src[i].mPresent THEN Held(src[i]) ELSE Held(dst[i])
    BY FieldCopyFits DEF Good
  <2>2. src[i].mPresent <=> Held(src[i]) # {}
    BY DEF Held
  <2> QED  BY <1>1, <2>1, <2>2
<1> QED
  BY <1>2, <1>3, <1>4

(* A packet with one field set.                                            *)
LEMMA SetGood ==
  ASSUME NEW fields, Good(fields), NEW i \in FieldIds, NEW data \in Contents(i)
  PROVE  LET set == [fields EXCEPT ![i] = FieldSet(@, i, data)]
         IN  Good(set) /\ Content(set) = [Content(fields) EXCEPT ![i] = {data}]
<1> DEFINE f == FieldSet(fields[i], i, data)
           set == [fields EXCEPT ![i] = f]
<1>1. Fit(i, f) /\ Held(f) = {data} /\ f \in FieldType
  BY FieldSetFits DEF Good, Fit
<1> HIDE DEF f
<1>2. /\ set \in [FieldIds -> FieldType] /\ set[i] = f
      /\ \A j \in FieldIds \ {i} : set[j] = fields[j]
  BY <1>1 DEF Good
<1>3. Good(set)
  BY <1>1, <1>2 DEF Good
<1>4. \A x : Content(x) = [j \in FieldIds |-> Held(x[j])]
  BY DEF Content, Held
<1>5. \A j \in FieldIds : Held(set[j]) = IF j = i THEN {data} ELSE Held(fields[j])
  BY <1>1, <1>2
<1> HIDE DEF set
<1>6. Content(set) = [Content(fields) EXCEPT ![i] = {data}]
  BY <1>4, <1>5
<1> QED
  BY <1>3, <1>6 DEF set, f

(* A content is one per field, or nothing.                                 *)
LEMMA ContentTypes ==
  /\ Nothing \in ContentType
  /\ \A fields : Good(fields) => Content(fields) \in ContentType
<1>1. Nothing \in ContentType
  BY DEF Nothing, ContentType
<1>2. ASSUME NEW fields, Good(fields) PROVE Content(fields) \in ContentType
  <2>1. ASSUME NEW i \in FieldIds PROVE Held(fields[i]) \in SUBSET Seq(Int)
    <3>1. /\ fields[i].mData.bytes \in Seq(Int) /\ fields[i].mSize \in Nat
          /\ fields[i].mSize <= Len(fields[i].mData.bytes)
      BY <1>2 DEF Good, Fit, FieldType
    <3>2. SubSeq(fields[i].mData.bytes, 1, fields[i].mSize) \in Seq(Int)
      BY <3>1
    <3> QED  BY <3>2 DEF Held
  <2> QED  BY <2>1 DEF Content, Held, ContentType
<1> QED
  BY <1>1, <1>2

(* A field whose block is freed.                                           *)
LEMMA FreedFieldGone ==
  ASSUME NEW i \in FieldIds, NEW fault \in SUBSET Faults
  PROVE  /\ FreedField(i, fault) \in FieldType /\ FreedField(i, fault).fault = fault
         /\ ~FreedField(i, fault).mData.live /\ FreedField(i, fault).mAllocated > 0
<1> DEFINE dead == [live |-> FALSE, bytes |-> <<>>]
           f == FieldInit(i)
<1>1. dead \in [live : BOOLEAN, bytes : Seq(Int)] /\ ~dead.live
  OBVIOUS
<1>2. f \in FieldType
  BY FieldInitFits DEF Fit
<1>3. FreedField(i, fault) = [f EXCEPT !.mData = dead, !.fault = fault]
  BY DEF FreedField
<1> HIDE DEF dead, f
<1>4. LET r == [f EXCEPT !.mData = dead, !.fault = fault]
      IN  /\ r \in FieldType /\ r.fault = fault
          /\ r.mData = dead /\ r.mAllocated \in Nat \ {0}
  BY <1>1, <1>2 DEF FieldType
<1>5. \A n \in Nat \ {0} : n > 0
  OBVIOUS
<1> QED
  BY <1>1, <1>3, <1>4, <1>5

(* poly_packet_clean frees every block of an array that is allocated, and  *)
(* cleaning it again frees every block again.                              *)
LEMMA FreedGone ==
  ASSUME NEW fields, Good(fields)
  PROVE  /\ Gone(Freed(fields, "none"))
         /\ Gone(Freed(Freed(fields, "none").fields, "evicted"))
<1> DEFINE once == Freed(fields, "none")
           twice == Freed(once.fields, "evicted")
<1>1. \A i \in FieldIds : \A fault \in SUBSET Faults :
        /\ FreedField(i, fault) \in FieldType /\ FreedField(i, fault).fault = fault
        /\ ~FreedField(i, fault).mData.live /\ FreedField(i, fault).mAllocated > 0
  BY FreedFieldGone
<1>2. {} \in SUBSET Faults /\ {"freedTwice"} \in SUBSET Faults
  BY DEF Faults
<1>3. ASSUME NEW i \in FieldIds PROVE Destroyed(fields[i]).fault = {}
  BY DEF Good, Fit, Destroyed, FreeData, FieldType
<1>4. once = [live |-> FALSE, fate |-> "none",
              fields |-> [i \in FieldIds |-> FreedField(i, {})]]
  BY <1>3 DEF Freed
<1>5. ASSUME NEW i \in FieldIds PROVE Destroyed(FreedField(i, {})).fault = {"freedTwice"}
  <2>1. /\ FreedField(i, {}) \in FieldType /\ FreedField(i, {}).fault = {}
        /\ ~FreedField(i, {}).mData.live /\ FreedField(i, {}).mAllocated > 0
    BY Zenon, <1>1, <1>2
  <2> HIDE DEF once, twice
  <2> QED  BY <2>1 DEF Destroyed, FreeData, FieldType
<1>6. twice = [live |-> FALSE, fate |-> "evicted",
               fields |-> [i \in FieldIds |-> FreedField(i, {"freedTwice"})]]
  BY <1>4, <1>5 DEF Freed
<1> HIDE DEF once, twice
<1>7. ASSUME NEW fault \in SUBSET Faults, NEW fate \in {"none", "evicted"},
             fault \subseteq IF fate = "evicted" THEN {"freedTwice"} ELSE {}
      PROVE  Gone([live |-> FALSE, fate |-> fate,
                   fields |-> [i \in FieldIds |-> FreedField(i, fault)]])
  <2> DEFINE gone == [i \in FieldIds |-> FreedField(i, fault)]
             x == [live |-> FALSE, fate |-> fate, fields |-> gone]
  <2>1. /\ gone \in [FieldIds -> FieldType]
        /\ \A i \in FieldIds : ~gone[i].mData.live /\ gone[i].fault = fault
    BY <1>1
  <2> HIDE DEF gone
  <2>2. /\ x \in ArrayType /\ ~x.live /\ x.fields = gone /\ x.fate = fate
    BY <2>1 DEF ArrayType
  <2> HIDE DEF x
  <2>3. Gone(x)
    BY <1>7, <2>1, <2>2 DEF Gone
  <2> QED  BY <2>3 DEF x, gone
<1>8. Gone(once)
  BY <1>2, <1>4, <1>7
<1>9. Gone(twice)
  BY <1>2, <1>6, <1>7
<1> QED
  BY <1>8, <1>9 DEF once, twice

-----------------------------------------------------------------------------
(* The invariant: who holds which array.  A holder is a packet of the      *)
(* application or an entry of the spool; what it wants is the content the  *)
(* array should have, if there is one.                                     *)

Holder == ({"packet"} \X Packets) \cup ({"slot"} \X Slots)

Holds(i) == entry[i].used \/ entry[i].mTrash

PacketHolds(p) == IF Owns(p) THEN packet[p].mFields ELSE NULL
SlotHolds(i) == IF Holds(i) THEN entry[i].mFields ELSE NULL
SlotWants(i) == IF entry[i].used THEN {entry[i].content} ELSE {}

Hold == [k \in Holder |-> IF k[1] = "packet" THEN PacketHolds(k[2]) ELSE SlotHolds(k[2])]
Want == [k \in Holder |-> IF k[1] = "packet" THEN {written[k[2]]} ELSE SlotWants(k[2])]

(* Whoever holds an array holds one that is allocated and not forgotten,   *)
(* nobody else does, and every array that is neither is held.              *)
Sane(h, hold, want) ==
  /\ h \in [Arrays -> ArrayType]
  /\ \A a \in Arrays : IF h[a].live THEN Good(h[a].fields) ELSE Gone(h[a])
  /\ \A k \in Holder : hold[k] # NULL =>
       /\ hold[k] \in Arrays /\ h[hold[k]].live /\ h[hold[k]].fate # "forgotten"
       /\ want[k] \subseteq {Content(h[hold[k]].fields)}
  /\ \A k, l \in Holder : hold[k] # NULL /\ hold[k] = hold[l] => k = l
  /\ \A a \in Arrays : h[a].live /\ h[a].fate # "forgotten" =>
       \E k \in Holder : hold[k] = a

PacketType == [mBuilt : BOOLEAN, mSpooled : BOOLEAN, mReusable : BOOLEAN,
               mFields : Arrays \cup {NULL}]
EntryType == [used : BOOLEAN, mTrash : BOOLEAN, mFields : Arrays \cup {NULL},
              from : SUBSET Packets, content : ContentType]

(* Entry 0 is filled first and from then on in use or marked, so that the  *)
(* mark poly_spool_ack gives it finds an array there.                      *)
Shape ==
  /\ packet \in [Packets -> PacketType]
  /\ \A p \in Packets : Owns(p) => packet[p].mFields \in Arrays
  /\ mutex \in [Packets -> BOOLEAN]
  /\ written \in [Packets -> ContentType]
  /\ entry \in [Slots -> EntryType]
  /\ \A i \in Slots : Holds(i) => entry[i].mFields \in Arrays
  /\ \A i \in Slots : entry[i].used => Holds(0)

MemoryInv == Shape /\ Sane(heap, Hold, Want)

(* The holders, one by one.                                                *)
LEMMA HolderKinds ==
  /\ \A p \in Packets : <<"packet", p>> \in Holder
  /\ \A i \in Slots : <<"slot", i>> \in Holder
  /\ \A k \in Holder : \/ \E p \in Packets : k = <<"packet", p>>
                       \/ \E i \in Slots : k = <<"slot", i>>
  /\ \A p, i : <<"packet", p>> # <<"slot", i>>
  /\ \A p, q : <<"packet", p>> = <<"packet", q>> => p = q
  /\ \A i, j : <<"slot", i>> = <<"slot", j>> => i = j
<1>1. \A k \in Holder : \/ \E p \in Packets : k = <<"packet", p>>
                       \/ \E i \in Slots : k = <<"slot", i>>
  BY DEF Holder
<1>2. /\ \A p \in Packets : <<"packet", p>> \in Holder
      /\ \A i \in Slots : <<"slot", i>> \in Holder
  BY DEF Holder
<1>3. /\ \A p, i : <<"packet", p>> # <<"slot", i>>
      /\ \A p, q : <<"packet", p>> = <<"packet", q>> => p = q
      /\ \A i, j : <<"slot", i>> = <<"slot", j>> => i = j
  OBVIOUS
<1> QED
  BY Zenon, <1>1, <1>2, <1>3

(* What each holds and wants, before a step and after it.                  *)
LEMMA HoldAt ==
  /\ \A p \in Packets : /\ Hold[<<"packet", p>>] = PacketHolds(p)
                       /\ Want[<<"packet", p>>] = {written[p]}
                       /\ Hold'[<<"packet", p>>] = PacketHolds(p)'
                       /\ Want'[<<"packet", p>>] = {written'[p]}
  /\ \A i \in Slots : /\ Hold[<<"slot", i>>] = SlotHolds(i)
                     /\ Want[<<"slot", i>>] = SlotWants(i)
                     /\ Hold'[<<"slot", i>>] = SlotHolds(i)'
                     /\ Want'[<<"slot", i>>] = SlotWants(i)'
<1>1. \A x : <<"packet", x>>[1] = "packet" /\ <<"packet", x>>[2] = x
             /\ <<"slot", x>>[1] = "slot" /\ <<"slot", x>>[2] = x /\ "packet" # "slot"
  OBVIOUS
<1>2. ASSUME NEW p \in Packets
      PROVE  /\ Hold[<<"packet", p>>] = PacketHolds(p)
             /\ Want[<<"packet", p>>] = {written[p]}
             /\ Hold'[<<"packet", p>>] = PacketHolds(p)'
             /\ Want'[<<"packet", p>>] = {written'[p]}
  <2>1. <<"packet", p>> \in Holder
    BY HolderKinds
  <2> QED  BY <1>1, <2>1 DEF Hold, Want
<1>3. ASSUME NEW i \in Slots
      PROVE  /\ Hold[<<"slot", i>>] = SlotHolds(i)
             /\ Want[<<"slot", i>>] = SlotWants(i)
             /\ Hold'[<<"slot", i>>] = SlotHolds(i)'
             /\ Want'[<<"slot", i>>] = SlotWants(i)'
  <2>1. <<"slot", i>> \in Holder
    BY HolderKinds
  <2> QED  BY <1>1, <2>1 DEF Hold, Want
<1> QED
  BY Zenon, <1>2, <1>3

(* Where neither packet nor entry changes, nothing is held or wanted anew. *)
LEMMA SameElsewhere ==
  ASSUME NEW K,
         \A p \in Packets : <<"packet", p>> \notin K =>
           packet'[p] = packet[p] /\ written'[p] = written[p],
         \A i \in Slots : <<"slot", i>> \notin K =>
           /\ entry'[i].used = entry[i].used /\ entry'[i].mTrash = entry[i].mTrash
           /\ entry'[i].mFields = entry[i].mFields
           /\ entry'[i].content = entry[i].content
  PROVE  \A k \in Holder : k \notin K => Hold'[k] = Hold[k] /\ Want'[k] = Want[k]
<1> SUFFICES ASSUME NEW k \in Holder, k \notin K
             PROVE  Hold'[k] = Hold[k] /\ Want'[k] = Want[k]
  OBVIOUS
<1>1. CASE \E p \in Packets : k = <<"packet", p>>
  <2>1. PICK p \in Packets : k = <<"packet", p>>
    BY <1>1
  <2>2. packet'[p] = packet[p] /\ written'[p] = written[p]
    BY <2>1
  <2>3. PacketHolds(p)' = PacketHolds(p)
    BY <2>2 DEF PacketHolds, Owns
  <2> QED  BY <2>1, <2>2, <2>3, HoldAt
<1>2. CASE \E i \in Slots : k = <<"slot", i>>
  <2>1. PICK i \in Slots : k = <<"slot", i>>
    BY <1>2
  <2>2. /\ entry'[i].used = entry[i].used /\ entry'[i].mTrash = entry[i].mTrash
        /\ entry'[i].mFields = entry[i].mFields /\ entry'[i].content = entry[i].content
    BY <2>1
  <2>3. SlotHolds(i)' = SlotHolds(i) /\ SlotWants(i)' = SlotWants(i)
    BY <2>2 DEF SlotHolds, SlotWants, Holds
  <2> QED  BY <2>1, <2>3, HoldAt
<1> QED
  BY <1>1, <1>2, HolderKinds

-----------------------------------------------------------------------------
(* What can happen to an array                                             *)

(* Its holder frees it.                                                    *)
LEMMA Released ==
  ASSUME NEW h, NEW hold, NEW want, Sane(h, hold, want),
         NEW k \in Holder, hold[k] # NULL, NEW x, Gone(x),
         NEW hold2, NEW want2, hold2[k] = NULL,
         \A l \in Holder : l # k => hold2[l] = hold[l] /\ want2[l] = want[l]
  PROVE  Sane([h EXCEPT ![hold[k]] = x], hold2, want2)
<1> DEFINE a == hold[k]
           h2 == [h EXCEPT ![a] = x]
<1>1. /\ a \in Arrays /\ h \in [Arrays -> ArrayType] /\ x \in ArrayType /\ ~x.live
      /\ \A l \in Holder : l # k => hold[l] # a
  BY DEF Sane, Gone
<1>2. h2 \in [Arrays -> ArrayType] /\ h2[a] = x /\ \A b \in Arrays : b # a => h2[b] = h[b]
  BY <1>1
<1> HIDE DEF h2, a
<1>3. \A b \in Arrays : IF h2[b].live THEN Good(h2[b].fields) ELSE Gone(h2[b])
  BY <1>1, <1>2 DEF Sane
<1>4. \A l \in Holder : hold2[l] # NULL =>
        /\ hold2[l] \in Arrays /\ h2[hold2[l]].live /\ h2[hold2[l]].fate # "forgotten"
        /\ want2[l] \subseteq {Content(h2[hold2[l]].fields)}
  <2> TAKE l \in Holder
  <2> HAVE hold2[l] # NULL
  <2>1. l # k /\ hold2[l] = hold[l] /\ want2[l] = want[l] /\ hold[l] # a
    BY <1>1
  <2>2. /\ hold[l] \in Arrays /\ h[hold[l]].live /\ h[hold[l]].fate # "forgotten"
        /\ want[l] \subseteq {Content(h[hold[l]].fields)}
    BY <2>1 DEF Sane
  <2>3. h2[hold[l]] = h[hold[l]]
    BY <1>2, <2>1, <2>2
  <2> QED  BY <2>1, <2>2, <2>3
<1>5. \A l, m \in Holder : hold2[l] # NULL /\ hold2[l] = hold2[m] => l = m
  BY DEF Sane
<1>6. \A b \in Arrays : h2[b].live /\ h2[b].fate # "forgotten" =>
        \E l \in Holder : hold2[l] = b
  BY <1>1, <1>2 DEF Sane, a
<1> QED
  BY <1>2, <1>3, <1>4, <1>5, <1>6 DEF Sane, h2, a

(* One that is free is allocated to whoever holds none.                    *)
LEMMA Allocated ==
  ASSUME NEW h, NEW hold, NEW want, Sane(h, hold, want),
         NEW k \in Holder, hold[k] = NULL,
         NEW a \in Arrays, ~h[a].live, NEW fields, Good(fields),
         NEW hold2, NEW want2, hold2[k] = a, want2[k] \subseteq {Content(fields)},
         \A l \in Holder : l # k => hold2[l] = hold[l] /\ want2[l] = want[l]
  PROVE  Sane(WithArray(h, a, fields), hold2, want2)
<1> DEFINE x == [live |-> TRUE, fate |-> "none", fields |-> fields]
           h2 == [h EXCEPT ![a] = x]
<1>1. /\ h \in [Arrays -> ArrayType] /\ \A l \in Holder : hold[l] # a
      /\ x \in ArrayType /\ x.live /\ x.fate = "none" /\ x.fields = fields
  <2>1. a # NULL
    BY DEF Arrays, NULL
  <2> QED  BY <2>1 DEF Sane, Good, ArrayType
<1>2. h2 \in [Arrays -> ArrayType] /\ h2[a] = x /\ \A b \in Arrays : b # a => h2[b] = h[b]
  BY <1>1
<1>3. WithArray(h, a, fields) = h2
  BY DEF WithArray
<1> HIDE DEF h2, x
<1>4. \A b \in Arrays : IF h2[b].live THEN Good(h2[b].fields) ELSE Gone(h2[b])
  BY <1>1, <1>2 DEF Sane
<1>5. \A l \in Holder : hold2[l] # NULL =>
        /\ hold2[l] \in Arrays /\ h2[hold2[l]].live /\ h2[hold2[l]].fate # "forgotten"
        /\ want2[l] \subseteq {Content(h2[hold2[l]].fields)}
  <2> TAKE l \in Holder
  <2> HAVE hold2[l] # NULL
  <2>1. CASE l = k
    BY <1>1, <1>2, <2>1
  <2>2. CASE l # k
    <3>1. hold2[l] = hold[l] /\ want2[l] = want[l] /\ hold[l] # a
      BY <1>1, <2>2
    <3>2. /\ hold[l] \in Arrays /\ h[hold[l]].live /\ h[hold[l]].fate # "forgotten"
          /\ want[l] \subseteq {Content(h[hold[l]].fields)}
      BY <3>1 DEF Sane
    <3>3. h2[hold[l]] = h[hold[l]]
      BY <1>2, <3>1, <3>2
    <3> QED  BY <3>1, <3>2, <3>3
  <2> QED  BY <2>1, <2>2
<1>6. \A l, m \in Holder : hold2[l] # NULL /\ hold2[l] = hold2[m] => l = m
  BY <1>1 DEF Sane
<1>7. \A b \in Arrays : h2[b].live /\ h2[b].fate # "forgotten" =>
        \E l \in Holder : hold2[l] = b
  <2> TAKE b \in Arrays
  <2> HAVE h2[b].live /\ h2[b].fate # "forgotten"
  <2>1. CASE b = a
    BY <2>1
  <2>2. CASE b # a
    <3>1. PICK l \in Holder : hold[l] = b
      BY <1>2, <2>2 DEF Sane
    <3>2. l # k
      BY <3>1 DEF Arrays, NULL
    <3> QED  BY <3>1, <3>2
  <2> QED  BY <2>1, <2>2
<1> QED
  BY <1>2, <1>3, <1>4, <1>5, <1>6, <1>7 DEF Sane

(* It passes from one holder to another, who held none.                    *)
LEMMA Passed ==
  ASSUME NEW h, NEW hold, NEW want, Sane(h, hold, want),
         NEW k \in Holder, hold[k] # NULL, NEW l \in Holder, hold[l] = NULL,
         NEW hold2, NEW want2, hold2[k] = NULL, hold2[l] = hold[k],
         want2[l] \subseteq {Content(h[hold[k]].fields)},
         \A m \in Holder : m # k /\ m # l => hold2[m] = hold[m] /\ want2[m] = want[m]
  PROVE  Sane(h, hold2, want2)
<1>1. \A m \in Holder : hold2[m] # NULL =>
        /\ hold2[m] \in Arrays /\ h[hold2[m]].live /\ h[hold2[m]].fate # "forgotten"
        /\ want2[m] \subseteq {Content(h[hold2[m]].fields)}
  <2> TAKE m \in Holder
  <2> HAVE hold2[m] # NULL
  <2>1. CASE m = l
    BY <2>1 DEF Sane
  <2>2. CASE m # l
    <3>1. m # k /\ hold2[m] = hold[m] /\ want2[m] = want[m]
      BY <2>2
    <3> QED  BY <3>1 DEF Sane
  <2> QED  BY <2>1, <2>2
<1>2. \A m, n \in Holder : hold2[m] # NULL /\ hold2[m] = hold2[n] => m = n
  BY DEF Sane
<1>3. \A b \in Arrays : h[b].live /\ h[b].fate # "forgotten" =>
        \E m \in Holder : hold2[m] = b
  <2> TAKE b \in Arrays
  <2> HAVE h[b].live /\ h[b].fate # "forgotten"
  <2>1. PICK m \in Holder : hold[m] = b
    BY DEF Sane
  <2>2. b # NULL
    BY DEF Arrays, NULL
  <2> QED  BY <2>1, <2>2
<1> QED
  BY <1>1, <1>2, <1>3 DEF Sane

(* An array whose holder may use it.                                       *)
Sound(x) == x \in ArrayType /\ x.live /\ x.fate # "forgotten" /\ Good(x.fields)

(* Its holder writes to its fields.                                        *)
LEMMA Rewritten ==
  ASSUME NEW h, NEW hold, NEW want, Sane(h, hold, want),
         NEW k \in Holder, hold[k] # NULL,
         NEW x, Sound(x),
         NEW hold2, NEW want2, hold2[k] = hold[k], want2[k] \subseteq {Content(x.fields)},
         \A l \in Holder : l # k => hold2[l] = hold[l] /\ want2[l] = want[l]
  PROVE  Sane([h EXCEPT ![hold[k]] = x], hold2, want2)
<1> DEFINE a == hold[k]
           h2 == [h EXCEPT ![a] = x]
<1>1. /\ a \in Arrays /\ h \in [Arrays -> ArrayType]
      /\ \A l \in Holder : l # k => hold[l] # a
      /\ x \in ArrayType /\ x.live /\ x.fate # "forgotten" /\ Good(x.fields)
  BY DEF Sane, Sound
<1>2. h2 \in [Arrays -> ArrayType] /\ h2[a] = x /\ \A b \in Arrays : b # a => h2[b] = h[b]
  BY <1>1
<1> HIDE DEF h2, a
<1>3. \A b \in Arrays : IF h2[b].live THEN Good(h2[b].fields) ELSE Gone(h2[b])
  BY <1>1, <1>2 DEF Sane
<1>4. \A l \in Holder : hold2[l] # NULL =>
        /\ hold2[l] \in Arrays /\ h2[hold2[l]].live /\ h2[hold2[l]].fate # "forgotten"
        /\ want2[l] \subseteq {Content(h2[hold2[l]].fields)}
  <2> TAKE l \in Holder
  <2> HAVE hold2[l] # NULL
  <2>1. CASE l = k
    BY <1>1, <1>2, <2>1 DEF a
  <2>2. CASE l # k
    <3>1. hold2[l] = hold[l] /\ want2[l] = want[l] /\ hold[l] # a
      BY <1>1, <2>2
    <3>2. /\ hold[l] \in Arrays /\ h[hold[l]].live /\ h[hold[l]].fate # "forgotten"
          /\ want[l] \subseteq {Content(h[hold[l]].fields)}
      BY <3>1 DEF Sane
    <3>3. h2[hold[l]] = h[hold[l]]
      BY <1>2, <3>1, <3>2
    <3> QED  BY <3>1, <3>2, <3>3
  <2> QED  BY <2>1, <2>2
<1>5. \A l, m \in Holder : hold2[l] # NULL /\ hold2[l] = hold2[m] => l = m
  BY DEF Sane
<1>6. \A b \in Arrays : h2[b].live /\ h2[b].fate # "forgotten" =>
        \E l \in Holder : hold2[l] = b
  <2> TAKE b \in Arrays
  <2> HAVE h2[b].live /\ h2[b].fate # "forgotten"
  <2>1. CASE b = a
    BY <2>1 DEF a
  <2>2. CASE b # a
    <3>1. PICK l \in Holder : hold[l] = b
      BY <1>2, <2>2 DEF Sane
    <3>2. hold2[l] = hold[l]
      OBVIOUS
    <3> QED  BY <3>1, <3>2
  <2> QED  BY <2>1, <2>2
<1> QED
  BY <1>2, <1>3, <1>4, <1>5, <1>6 DEF Sane, h2, a

(* Its holder forgets it.                                                  *)
LEMMA Abandoned ==
  ASSUME NEW h, NEW hold, NEW want, Sane(h, hold, want),
         NEW k \in Holder, hold[k] # NULL,
         NEW hold2, NEW want2, hold2[k] = NULL,
         \A l \in Holder : l # k => hold2[l] = hold[l] /\ want2[l] = want[l]
  PROVE  Sane([h EXCEPT ![hold[k]].fate = "forgotten"], hold2, want2)
<1> DEFINE a == hold[k]
           h2 == [h EXCEPT ![a].fate = "forgotten"]
<1>1. /\ a \in Arrays /\ h \in [Arrays -> ArrayType] /\ h[a] \in ArrayType /\ h[a].live
      /\ \A l \in Holder : l # k => hold[l] # a
  BY DEF Sane
<1>2. /\ h2 \in [Arrays -> ArrayType] /\ h2[a].live /\ h2[a].fate = "forgotten"
      /\ h2[a].fields = h[a].fields /\ \A b \in Arrays : b # a => h2[b] = h[b]
  <2> DEFINE x == [h[a] EXCEPT !.fate = "forgotten"]
  <2>1. /\ x \in ArrayType /\ x.live /\ x.fate = "forgotten" /\ x.fields = h[a].fields
    BY <1>1 DEF ArrayType
  <2>2. h2 = [h EXCEPT ![a] = x]
    OBVIOUS
  <2> HIDE DEF x
  <2> QED  BY <1>1, <2>1, <2>2
<1> HIDE DEF h2, a
<1>3. \A b \in Arrays : IF h2[b].live THEN Good(h2[b].fields) ELSE Gone(h2[b])
  BY <1>1, <1>2 DEF Sane
<1>4. \A l \in Holder : hold2[l] # NULL =>
        /\ hold2[l] \in Arrays /\ h2[hold2[l]].live /\ h2[hold2[l]].fate # "forgotten"
        /\ want2[l] \subseteq {Content(h2[hold2[l]].fields)}
  <2> TAKE l \in Holder
  <2> HAVE hold2[l] # NULL
  <2>1. l # k /\ hold2[l] = hold[l] /\ want2[l] = want[l] /\ hold[l] # a
    BY <1>1
  <2>2. /\ hold[l] \in Arrays /\ h[hold[l]].live /\ h[hold[l]].fate # "forgotten"
        /\ want[l] \subseteq {Content(h[hold[l]].fields)}
    BY <2>1 DEF Sane
  <2>3. h2[hold[l]] = h[hold[l]]
    BY <1>2, <2>1, <2>2
  <2> QED  BY <2>1, <2>2, <2>3
<1>5. \A l, m \in Holder : hold2[l] # NULL /\ hold2[l] = hold2[m] => l = m
  BY DEF Sane
<1>6. \A b \in Arrays : h2[b].live /\ h2[b].fate # "forgotten" =>
        \E l \in Holder : hold2[l] = b
  BY <1>1, <1>2 DEF Sane, a
<1> QED
  BY <1>2, <1>3, <1>4, <1>5, <1>6 DEF Sane, h2, a

(* One that is free is replaced by another freed one.                      *)
LEMMA Replaced ==
  ASSUME NEW h, NEW hold, NEW want, Sane(h, hold, want),
         NEW a \in Arrays, ~h[a].live, NEW x, Gone(x)
  PROVE  Sane([h EXCEPT ![a] = x], hold, want)
<1> DEFINE h2 == [h EXCEPT ![a] = x]
<1>1. /\ h \in [Arrays -> ArrayType] /\ x \in ArrayType /\ ~x.live
      /\ \A l \in Holder : hold[l] # a
  <2>1. a # NULL
    BY DEF Arrays, NULL
  <2> QED  BY <2>1 DEF Sane, Gone
<1>2. h2 \in [Arrays -> ArrayType] /\ h2[a] = x /\ \A b \in Arrays : b # a => h2[b] = h[b]
  BY <1>1
<1> HIDE DEF h2
<1>3. \A b \in Arrays : IF h2[b].live THEN Good(h2[b].fields) ELSE Gone(h2[b])
  BY <1>1, <1>2 DEF Sane
<1>4. \A l \in Holder : hold[l] # NULL => h2[hold[l]] = h[hold[l]]
  BY <1>1, <1>2 DEF Sane
<1>5. \A l \in Holder : hold[l] # NULL =>
        /\ hold[l] \in Arrays /\ h2[hold[l]].live /\ h2[hold[l]].fate # "forgotten"
        /\ want[l] \subseteq {Content(h2[hold[l]].fields)}
  BY <1>4 DEF Sane
<1>6. \A b \in Arrays : h2[b].live /\ h2[b].fate # "forgotten" =>
        \E l \in Holder : hold[l] = b
  BY <1>1, <1>2 DEF Sane
<1> QED
  BY <1>2, <1>3, <1>5, <1>6 DEF Sane, h2

(* Nothing changes but that less is wanted.                                *)
LEMMA Relaxed ==
  ASSUME NEW h, NEW hold, NEW want, Sane(h, hold, want), NEW hold2, NEW want2,
         \A l \in Holder : /\ hold2[l] = hold[l]
                           /\ hold[l] # NULL => want2[l] \subseteq want[l]
  PROVE  Sane(h, hold2, want2)
<1>1. \A l \in Holder : hold2[l] # NULL =>
        /\ hold2[l] \in Arrays /\ h[hold2[l]].live /\ h[hold2[l]].fate # "forgotten"
        /\ want2[l] \subseteq {Content(h[hold2[l]].fields)}
  <2> TAKE l \in Holder
  <2> HAVE hold2[l] # NULL
  <2>1. hold2[l] = hold[l] /\ want2[l] \subseteq want[l] /\ hold[l] # NULL
    OBVIOUS
  <2>2. /\ hold[l] \in Arrays /\ h[hold[l]].live /\ h[hold[l]].fate # "forgotten"
        /\ want[l] \subseteq {Content(h[hold[l]].fields)}
    BY <2>1 DEF Sane
  <2> QED  BY <2>1, <2>2
<1> QED
  BY <1>1 DEF Sane

-----------------------------------------------------------------------------
(* The steps                                                               *)

(* What the invariant says of one holder.                                  *)
LEMMA HeldArray ==
  ASSUME MemoryInv
  PROVE  /\ \A p \in Packets : Owns(p) =>
              /\ packet[p].mFields \in Arrays /\ heap[packet[p].mFields].live
              /\ Good(heap[packet[p].mFields].fields)
              /\ Content(heap[packet[p].mFields].fields) = written[p]
         /\ \A i \in Slots : Holds(i) =>
              /\ entry[i].mFields \in Arrays /\ heap[entry[i].mFields].live
              /\ Good(heap[entry[i].mFields].fields)
              /\ entry[i].used =>
                   Content(heap[entry[i].mFields].fields) = entry[i].content
<1>1. Shape /\ Sane(heap, Hold, Want) /\ NULL \notin Arrays
  BY DEF MemoryInv, Arrays, NULL
<1>2. ASSUME NEW k \in Holder, Hold[k] # NULL
      PROVE  /\ Hold[k] \in Arrays /\ heap[Hold[k]].live /\ Good(heap[Hold[k]].fields)
             /\ \A c \in Want[k] : Content(heap[Hold[k]].fields) = c
  BY <1>1, <1>2 DEF Sane
<1>3. ASSUME NEW p \in Packets, Owns(p)
      PROVE  /\ packet[p].mFields \in Arrays /\ heap[packet[p].mFields].live
             /\ Good(heap[packet[p].mFields].fields)
             /\ Content(heap[packet[p].mFields].fields) = written[p]
  <2>1. <<"packet", p>> \in Holder
    BY HolderKinds
  <2>2. Hold[<<"packet", p>>] = PacketHolds(p) /\ Want[<<"packet", p>>] = {written[p]}
    BY HoldAt
  <2>3. PacketHolds(p) = packet[p].mFields /\ packet[p].mFields \in Arrays
    BY <1>1, <1>3 DEF PacketHolds, Owns, Shape
  <2> QED  BY <1>1, <1>2, <2>1, <2>2, <2>3
<1>4. ASSUME NEW i \in Slots, Holds(i)
      PROVE  /\ entry[i].mFields \in Arrays /\ heap[entry[i].mFields].live
             /\ Good(heap[entry[i].mFields].fields)
             /\ entry[i].used =>
                  Content(heap[entry[i].mFields].fields) = entry[i].content
  <2>1. <<"slot", i>> \in Holder
    BY HolderKinds
  <2>2. Hold[<<"slot", i>>] = SlotHolds(i) /\ Want[<<"slot", i>>] = SlotWants(i)
    BY HoldAt
  <2>3. SlotHolds(i) = entry[i].mFields /\ entry[i].mFields \in Arrays
    BY <1>1, <1>4 DEF SlotHolds, Shape
  <2> QED  BY <1>1, <1>2, <2>1, <2>2, <2>3 DEF SlotWants
<1> QED
  BY <1>3, <1>4

(* The array an allocation returns.                                        *)
LEMMA NewArrayFree ==
  ASSUME FreeArrays # {}
  PROVE  NewArray \in Arrays /\ ~heap[NewArray].live
BY DEF FreeArrays, NewArray

(* An entry forgets which packet it was copied from, and nothing else.     *)
LEMMA DisownedSame ==
  ASSUME Shape, NEW p \in Packets
  PROVE  /\ Disowned(p) \in [Slots -> EntryType]
         /\ \A i \in Slots :
              /\ Disowned(p)[i].used = entry[i].used
              /\ Disowned(p)[i].mTrash = entry[i].mTrash
              /\ Disowned(p)[i].mFields = entry[i].mFields
              /\ Disowned(p)[i].content = entry[i].content
BY DEF Shape, Disowned, EntryType

(* A packet is built or let go of.                                         *)
LEMMA ShapeKept ==
  ASSUME Shape, NEW p \in Packets, NEW x \in PacketType,
         x.mBuilt /\ (~x.mSpooled \/ x.mReusable) => x.mFields \in Arrays,
         packet' = [packet EXCEPT ![p] = x], entry' = Disowned(p),
         mutex' \in [Packets -> BOOLEAN],
         NEW c \in ContentType, written' = [written EXCEPT ![p] = c]
  PROVE  Shape'
<1>1. /\ packet' \in [Packets -> PacketType] /\ written' \in [Packets -> ContentType]
      /\ \A q \in Packets : packet'[q] = IF q = p THEN x ELSE packet[q]
  BY DEF Shape
<1>2. /\ entry' \in [Slots -> EntryType]
      /\ \A i \in Slots : /\ entry'[i].used = entry[i].used
                          /\ entry'[i].mTrash = entry[i].mTrash
                          /\ entry'[i].mFields = entry[i].mFields
  BY DisownedSame
<1>3. \A q \in Packets : Owns(q)' => packet'[q].mFields \in Arrays
  BY <1>1 DEF Owns, Shape
<1>4. 0 \in Slots
  BY MemoryAssumption DEF Slots
<1>5. \A i \in Slots : Holds(i)' <=> Holds(i)
  BY <1>2 DEF Holds
<1> QED
  BY <1>1, <1>2, <1>3, <1>4, <1>5 DEF Shape

(* Holders other than those of K keep what they hold and want.             *)
LEMMA PacketElsewhere ==
  ASSUME Shape, NEW p \in Packets, NEW x, NEW c,
         packet' = [packet EXCEPT ![p] = x], written' = [written EXCEPT ![p] = c],
         \A i \in Slots :
           /\ entry'[i].used = entry[i].used /\ entry'[i].mTrash = entry[i].mTrash
           /\ entry'[i].mFields = entry[i].mFields /\ entry'[i].content = entry[i].content
  PROVE  \A l \in Holder : l # <<"packet", p>> =>
           /\ Hold'[l] = Hold[l]
           /\ Want'[l] = Want[l]
<1> DEFINE K == {<<"packet", p>>}
<1>1. \A q \in Packets : <<"packet", q>> \notin K =>
        packet'[q] = packet[q] /\ written'[q] = written[q]
  <2> TAKE q \in Packets
  <2> HAVE <<"packet", q>> \notin K
  <2>1. q # p
    OBVIOUS
  <2> QED  BY <2>1 DEF Shape
<1>2. \A i \in Slots : <<"slot", i>> \notin K =>
        /\ entry'[i].used = entry[i].used /\ entry'[i].mTrash = entry[i].mTrash
        /\ entry'[i].mFields = entry[i].mFields /\ entry'[i].content = entry[i].content
  OBVIOUS
<1> HIDE DEF K
<1>3. \A l \in Holder : l \notin K =>
        /\ Hold'[l] = Hold[l]
        /\ Want'[l] = Want[l]
  BY <1>1, <1>2, SameElsewhere
<1> QED
  BY <1>3 DEF K

(* A packet of the application gets a new array.                           *)
LEMMA Gained ==
  ASSUME MemoryInv, NEW p \in Packets, ~Owns(p), FreeArrays # {},
         NEW fields, Good(fields), NEW reusable \in BOOLEAN,
         heap' = WithArray(heap, NewArray, fields),
         packet' = [packet EXCEPT ![p] = [mBuilt |-> TRUE, mSpooled |-> FALSE,
                                          mReusable |-> reusable, mFields |-> NewArray]],
         entry' = Disowned(p), mutex' \in [Packets -> BOOLEAN],
         written' = [written EXCEPT ![p] = Content(fields)]
  PROVE  MemoryInv'
<1> DEFINE k == <<"packet", p>>
           x == [mBuilt |-> TRUE, mSpooled |-> FALSE, mReusable |-> reusable,
                 mFields |-> NewArray]
<1>1. Shape /\ Sane(heap, Hold, Want) /\ NewArray \in Arrays /\ ~heap[NewArray].live
  BY NewArrayFree DEF MemoryInv
<1>2. x \in PacketType /\ x.mBuilt /\ ~x.mSpooled /\ x.mFields = NewArray
  BY <1>1 DEF PacketType
<1>3. Content(fields) \in ContentType
  BY ContentTypes
<1>4. packet'[p] = x /\ written'[p] = Content(fields) /\ k \in Holder
  BY <1>1, HolderKinds DEF Shape
<1>5. packet' = [packet EXCEPT ![p] = x]
  OBVIOUS
<1> HIDE DEF x
<1>6. Shape'
  BY <1>1, <1>2, <1>3, <1>5, ShapeKept
<1>7. \A l \in Holder : l # k => Hold'[l] = Hold[l] /\ Want'[l] = Want[l]
  <2>1. \A i \in Slots :
          /\ entry'[i].used = entry[i].used /\ entry'[i].mTrash = entry[i].mTrash
          /\ entry'[i].mFields = entry[i].mFields /\ entry'[i].content = entry[i].content
    BY <1>1, DisownedSame
  <2> QED  BY <1>1, <1>5, <2>1, PacketElsewhere
<1>8. Hold[k] = NULL
  <2>1. Hold[<<"packet", p>>] = PacketHolds(p)
    BY HoldAt
  <2> QED  BY <2>1 DEF PacketHolds, Owns
<1>9. Hold'[k] = NewArray /\ Want'[k] = {Content(fields)}
  <2>1. Hold'[k] = PacketHolds(p)' /\ Want'[k] = {written'[p]}
    BY HoldAt
  <2> QED  BY <1>2, <1>4, <2>1 DEF PacketHolds, Owns
<1> HIDE DEF k
<1>10. Sane(heap', Hold', Want')
  BY <1>1, <1>4, <1>7, <1>8, <1>9, Allocated
<1> QED
  BY <1>6, <1>10 DEF MemoryInv

(* tp_packet_build                                                         *)
LEMMA BuildKeeps ==
  ASSUME MemoryInv, NEW p \in Packets, NEW reusable \in BOOLEAN, Build(p, reusable)
  PROVE  MemoryInv'
<1>1. Good(BuiltFields) /\ Content(BuiltFields) = Nothing
  BY BuiltGood
<1>2. mutex' \in [Packets -> BOOLEAN]
  BY DEF MemoryInv, Shape, Build
<1>3. /\ ~Owns(p) /\ FreeArrays # {} /\ heap' = WithArray(heap, NewArray, BuiltFields)
      /\ packet' = [packet EXCEPT ![p] = [mBuilt |-> TRUE, mSpooled |-> FALSE,
                                          mReusable |-> reusable, mFields |-> NewArray]]
      /\ entry' = Disowned(p)
      /\ written' = [written EXCEPT ![p] = Content(BuiltFields)]
  BY <1>1 DEF Build
<1> QED
  BY <1>1, <1>2, <1>3, Gained

(* A packet the application does not have holds nothing.                   *)
LEMMA Unowned ==
  ASSUME NEW p \in Packets
  PROVE  /\ ~Owns(p) => Hold[<<"packet", p>>] = NULL
         /\ ~Owns(p)' => Hold'[<<"packet", p>>] = NULL
BY HoldAt DEF PacketHolds

LEMMA UnbuiltPacket ==
  ASSUME Shape, NEW p \in Packets, packet' = Unbuilt(p), entry' = Disowned(p),
         mutex' \in [Packets -> BOOLEAN], written' = [written EXCEPT ![p] = Nothing]
  PROVE  /\ Shape' /\ Hold'[<<"packet", p>>] = NULL
         /\ \A l \in Holder : l # <<"packet", p>> =>
              Hold'[l] = Hold[l] /\ Want'[l] = Want[l]
<1> DEFINE x == [mBuilt |-> FALSE, mSpooled |-> FALSE, mReusable |-> FALSE,
                 mFields |-> NULL]
<1>1. x \in PacketType /\ ~x.mBuilt
  BY DEF PacketType
<1>2. packet' = [packet EXCEPT ![p] = x]
  BY DEF Unbuilt
<1> HIDE DEF x
<1>3. Shape'
  BY <1>1, <1>2, ShapeKept, ContentTypes
<1>4. ~Owns(p)'
  BY <1>1, <1>2 DEF Owns, Shape
<1>5. \A i \in Slots :
        /\ entry'[i].used = entry[i].used /\ entry'[i].mTrash = entry[i].mTrash
        /\ entry'[i].mFields = entry[i].mFields /\ entry'[i].content = entry[i].content
  BY DisownedSame
<1> QED
  BY <1>2, <1>3, <1>4, <1>5, Unowned, PacketElsewhere

(* A packet that was received, or turned out to be none.                   *)
LEMMA ReceiveKeeps ==
  ASSUME MemoryInv, NEW p \in Packets, NEW frame \in Frames, NEW valid \in BOOLEAN,
         Receive(p, frame, valid)
  PROVE  MemoryInv'
<1> DEFINE fields == Parsed(frame)
<1>1. Good(fields)
  BY ParsedGood
<1>2. /\ mutex' \in [Packets -> BOOLEAN] /\ ~Owns(p) /\ FreeArrays # {}
      /\ entry' = Disowned(p)
  BY DEF MemoryInv, Shape, Receive
<1>3. CASE valid
  <2>1. /\ heap' = WithArray(heap, NewArray, fields)
        /\ packet' = [packet EXCEPT ![p] = [mBuilt |-> TRUE, mSpooled |-> FALSE,
                                            mReusable |-> FALSE, mFields |-> NewArray]]
        /\ written' = [written EXCEPT ![p] = Content(fields)]
    BY <1>3 DEF Receive
  <2> HIDE DEF fields
  <2> QED  BY <1>1, <1>2, <2>1, Gained
<1>4. CASE ~valid
  <2> DEFINE x == Freed(fields, "none")
  <2>1. /\ heap' = [heap EXCEPT ![NewArray] = x]
        /\ packet' = Unbuilt(p)
        /\ written' = [written EXCEPT ![p] = Nothing]
    BY <1>4 DEF Receive, Unbuilt
  <2>2. NewArray \in Arrays /\ ~heap[NewArray].live
    BY <1>2, NewArrayFree
  <2> HIDE DEF fields
  <2>3. Gone(x)
    BY <1>1, FreedGone
  <2> HIDE DEF x
  <2>4. Shape /\ Sane(heap, Hold, Want) /\ Hold[<<"packet", p>>] = NULL
    BY <1>2, Unowned DEF MemoryInv
  <2>5. Sane(heap', Hold, Want)
    BY <2>1, <2>2, <2>3, <2>4, Replaced
  <2>6. /\ Shape' /\ Hold'[<<"packet", p>>] = NULL
        /\ \A l \in Holder : l # <<"packet", p>> =>
             Hold'[l] = Hold[l] /\ Want'[l] = Want[l]
    BY <1>2, <2>1, <2>4, UnbuiltPacket
  <2>7. \A l \in Holder : /\ Hold'[l] = Hold[l]
                          /\ Hold[l] # NULL => Want'[l] \subseteq Want[l]
    BY <2>4, <2>6
  <2>8. Sane(heap', Hold', Want')
    BY <2>5, <2>7, Relaxed
  <2> QED  BY <2>6, <2>8 DEF MemoryInv
<1> QED
  BY <1>3, <1>4

(* What the application writes into a packet of its own.                   *)
LEMMA WrittenInto ==
  ASSUME MemoryInv, NEW p \in Packets, Owns(p), NEW fields, Good(fields),
         heap' = [heap EXCEPT ![packet[p].mFields].fields = fields],
         written' = [written EXCEPT ![p] = Content(fields)],
         UNCHANGED <<packet, mutex, entry>>
  PROVE  MemoryInv'
<1> DEFINE k == <<"packet", p>>
<1>1. /\ Shape /\ Sane(heap, Hold, Want) /\ k \in Holder
      /\ Hold[k] = packet[p].mFields /\ packet[p].mFields # NULL
  <2>1. packet[p].mFields # NULL
    BY HeldArray DEF Arrays, NULL
  <2> QED  BY <2>1, HoldAt, HolderKinds DEF MemoryInv, PacketHolds
<1>2. Content(fields) \in ContentType
  BY ContentTypes
<1>3. Shape'
  BY <1>1, <1>2 DEF Shape, Owns, Holds
<1>4. packet' = [packet EXCEPT ![p] = packet[p]]
  BY <1>1 DEF Shape
<1>5. \A l \in Holder : l # k => Hold'[l] = Hold[l] /\ Want'[l] = Want[l]
  BY <1>1, <1>4, PacketElsewhere
<1>6. Hold'[k] = Hold[k] /\ Want'[k] = {Content(fields)}
  <2>1. PacketHolds(p)' = PacketHolds(p) /\ written'[p] = Content(fields)
    BY <1>1 DEF PacketHolds, Owns, Shape
  <2> QED  BY <2>1, HoldAt
<1> HIDE DEF k
<1> DEFINE x == [heap[packet[p].mFields] EXCEPT !.fields = fields]
<1>7. x \in ArrayType /\ x.live /\ x.fate # "forgotten" /\ x.fields = fields
  <2> DEFINE y == heap[packet[p].mFields]
  <2>1. y \in ArrayType /\ y.live /\ y.fate # "forgotten"
    BY <1>1 DEF Sane
  <2>2. fields \in [FieldIds -> FieldType]
    BY DEF Good
  <2> HIDE DEF y
  <2>3. LET z == [y EXCEPT !.fields = fields]
        IN  z \in ArrayType /\ z.live = y.live /\ z.fate = y.fate /\ z.fields = fields
    BY <2>1, <2>2 DEF ArrayType
  <2> QED  BY <2>1, <2>3 DEF y
<1>8. heap' = [heap EXCEPT ![packet[p].mFields] = x]
  OBVIOUS
<1> HIDE DEF x
<1>9. Sane(heap', Hold', Want')
  <2>1. heap' = [heap EXCEPT ![Hold[k]] = x]
    BY <1>1, <1>8
  <2>2. Want'[k] \subseteq {Content(x.fields)} /\ Sound(x)
    BY <1>6, <1>7 DEF Sound
  <2>3. Sane([heap EXCEPT ![Hold[k]] = x], Hold', Want')
    BY <1>1, <1>5, <1>6, <2>2, Rewritten
  <2> QED  BY <2>1, <2>3
<1> QED
  BY <1>3, <1>9 DEF MemoryInv

(* poly_packet_set_field                                                   *)
LEMMA SetFieldKeeps ==
  ASSUME MemoryInv, NEW p \in Packets, NEW i \in FieldIds, NEW data \in Contents(i),
         SetField(p, i, data)
  PROVE  MemoryInv'
<1> DEFINE a == packet[p].mFields
           set == [heap[a].fields EXCEPT ![i] = FieldSet(@, i, data)]
<1>1. /\ Owns(p) /\ Good(heap[a].fields) /\ Content(heap[a].fields) = written[p]
  BY HeldArray DEF SetField
<1>2. Good(set) /\ Content(set) = [written[p] EXCEPT ![i] = {data}]
  BY <1>1, SetGood
<1>3. heap' = [heap EXCEPT ![a].fields = set]
  BY DEF SetField
<1>4. written' = [written EXCEPT ![p] = Content(set)]
  BY <1>2 DEF SetField
<1>5. UNCHANGED <<packet, mutex, entry>>
  BY DEF SetField
<1> HIDE DEF set
<1> QED
  BY <1>1, <1>2, <1>3, <1>4, <1>5, WrittenInto

(* poly_packet_copy                                                        *)
LEMMA CopyKeeps ==
  ASSUME MemoryInv, NEW p \in Packets, NEW src \in Packets, Copy(p, src)
  PROVE  MemoryInv'
<1> DEFINE a == packet[p].mFields
           b == packet[src].mFields
           copy == Copied(heap[a].fields, heap[b].fields)
<1>1. /\ Owns(p) /\ Good(heap[a].fields) /\ Good(heap[b].fields)
      /\ Content(heap[a].fields) = written[p] /\ Content(heap[b].fields) = written[src]
  BY HeldArray DEF Copy
<1>2. /\ Good(copy)
      /\ Content(copy) = [i \in FieldIds |-> IF written[src][i] # {} THEN written[src][i]
                                                                   ELSE written[p][i]]
  BY <1>1, CopiedGood
<1>3. heap' = [heap EXCEPT ![a].fields = copy]
  BY DEF Copy
<1>4. written' = [written EXCEPT ![p] = Content(copy)]
  BY <1>2 DEF Copy
<1>5. UNCHANGED <<packet, mutex, entry>>
  BY DEF Copy
<1> HIDE DEF copy
<1> QED
  BY <1>1, <1>2, <1>3, <1>4, <1>5, WrittenInto

(* tp_clean, and the destructor of a reusable packet                       *)
LEMMA CleanKeeps ==
  ASSUME MemoryInv, NEW p \in Packets, Clean(p) \/ Destruct(p)
  PROVE  MemoryInv'
<1> DEFINE a == packet[p].mFields
           k == <<"packet", p>>
           x == Freed(heap[a].fields, "none")
<1>1. Owns(p) /\ Shape /\ Sane(heap, Hold, Want)
  BY DEF MemoryInv, Owns, Clean, Destruct
<1>2. a \in Arrays /\ Good(heap[a].fields)
  BY <1>1, HeldArray
<1>3. /\ heap' = [heap EXCEPT ![a] = x] /\ packet' = Unbuilt(p) /\ entry' = Disowned(p)
      /\ mutex' \in [Packets -> BOOLEAN] /\ written' = [written EXCEPT ![p] = Nothing]
  BY <1>1 DEF Clean, Destruct, Shape, Cleaned
<1>4. k \in Holder /\ Hold[k] = a /\ a # NULL
  BY <1>1, <1>2, HoldAt, HolderKinds DEF PacketHolds, Arrays, NULL
<1>5. /\ Shape' /\ Hold'[k] = NULL
      /\ \A l \in Holder : l # k => Hold'[l] = Hold[l] /\ Want'[l] = Want[l]
  BY <1>1, <1>3, UnbuiltPacket
<1>6. Gone(x)
  BY <1>2, FreedGone
<1> HIDE DEF a, k, x
<1>7. Sane(heap', Hold', Want')
  BY <1>1, <1>3, <1>4, <1>5, <1>6, Released
<1> QED
  BY <1>5, <1>7 DEF MemoryInv

(* What poly_spool_push cleans to make room leaves the rest as it was.     *)
LEMMA VacatedSane ==
  ASSUME MemoryInv, NEW i \in Slots, NEW hold2, hold2[<<"slot", i>>] = NULL,
         \A l \in Holder : l # <<"slot", i>> => hold2[l] = Hold[l]
  PROVE  /\ Sane(Vacated(i), hold2, Want)
         /\ \A b \in Arrays : ~heap[b].live => ~Vacated(i)[b].live
         /\ \A l \in Holder : l # <<"slot", i>> /\ Hold[l] # NULL =>
              Vacated(i)[Hold[l]] = heap[Hold[l]]
<1> DEFINE a == entry[i].mFields
           k == <<"slot", i>>
           once == Freed(heap[a].fields, "none")
           twice == Freed(once.fields, "evicted")
<1>1. Shape /\ Sane(heap, Hold, Want) /\ k \in Holder /\ Hold[k] = SlotHolds(i)
  BY HoldAt, HolderKinds DEF MemoryInv
<1>2. ASSUME Holds(i), NEW x, Gone(x), Vacated(i) = [heap EXCEPT ![a] = x]
      PROVE  /\ Sane(Vacated(i), hold2, Want)
             /\ \A b \in Arrays : ~heap[b].live => ~Vacated(i)[b].live
             /\ \A l \in Holder : l # k /\ Hold[l] # NULL =>
                  Vacated(i)[Hold[l]] = heap[Hold[l]]
  <2>1. Hold[k] = a /\ a \in Arrays /\ a # NULL
    BY <1>1, <1>2 DEF SlotHolds, Shape, Arrays, NULL
  <2>2. heap \in [Arrays -> ArrayType] /\ ~x.live
    BY <1>1, <1>2 DEF Sane, Gone
  <2>3. \A l \in Holder : l # k => Hold[l] # a
    BY <1>1, <2>1 DEF Sane
  <2> HIDE DEF k, a, once, twice
  <2>4. Sane(Vacated(i), hold2, Want)
    <3>1. hold2[k] = NULL /\ \A l \in Holder : l # k => hold2[l] = Hold[l] /\ Want[l] = Want[l]
      BY DEF k
    <3>2. Sane([heap EXCEPT ![Hold[k]] = x], hold2, Want)
      BY <1>1, <1>2, <2>1, <3>1, Released
    <3> QED  BY <1>2, <2>1, <3>2
  <2>5. \A b \in Arrays : ~heap[b].live => ~Vacated(i)[b].live
    BY <1>2, <2>1, <2>2
  <2>6. \A b \in Arrays : b # a => Vacated(i)[b] = heap[b]
    BY <1>2, <2>1, <2>2
  <2>7. \A l \in Holder : Hold[l] # NULL => Hold[l] \in Arrays
    BY <1>1 DEF Sane
  <2> QED  BY <2>3, <2>4, <2>5, <2>6, <2>7
<1>3. ASSUME Holds(i)
      PROVE  /\ heap \in [Arrays -> ArrayType] /\ a \in Arrays
             /\ Gone(once) /\ Gone(twice)
  <2>1. a \in Arrays /\ Good(heap[a].fields) /\ heap \in [Arrays -> ArrayType]
    BY <1>1, <1>3, HeldArray DEF Sane
  <2> QED  BY <2>1, FreedGone
<1>4. CASE entry[i].used /\ entry[i].mTrash
  <2>1. Holds(i)
    BY <1>4 DEF Holds
  <2>2. Evicted(heap, i) = [heap EXCEPT ![a] = once]
    BY <1>4 DEF Evicted
  <2>3. Uncluttered(Evicted(heap, i), i) =
          [Evicted(heap, i) EXCEPT ![a] = Freed(Evicted(heap, i)[a].fields, "evicted")]
    BY <1>4 DEF Uncluttered
  <2> HIDE DEF once, a
  <2>4. Evicted(heap, i)[a] = once
    BY <1>3, <2>1, <2>2
  <2> HIDE DEF twice
  <2>5. Freed(Evicted(heap, i)[a].fields, "evicted") = twice
    BY <2>4 DEF twice
  <2>6. Vacated(i) = [heap EXCEPT ![a] = twice]
    BY <2>2, <2>3, <2>5, <1>3, <2>1 DEF Vacated
  <2> QED  BY <1>2, <1>3, <2>1, <2>6
<1>5. CASE entry[i].used /\ ~entry[i].mTrash
  <2>1. Holds(i)
    BY <1>5 DEF Holds
  <2>2. Vacated(i) = [heap EXCEPT ![a] = once]
    BY <1>5 DEF Vacated, Evicted, Uncluttered
  <2> HIDE DEF once, a
  <2> QED  BY <1>2, <1>3, <2>1, <2>2
<1>6. CASE ~entry[i].used /\ entry[i].mTrash
  <2>1. Holds(i)
    BY <1>6 DEF Holds
  <2>2. Vacated(i) = [heap EXCEPT ![a] = once]
    BY <1>6 DEF Vacated, Evicted, Uncluttered
  <2> HIDE DEF once, a
  <2> QED  BY <1>2, <1>3, <2>1, <2>2
<1>7. CASE ~entry[i].used /\ ~entry[i].mTrash
  <2>1. Vacated(i) = heap
    BY <1>7 DEF Vacated, Evicted, Uncluttered
  <2>2. Hold[k] = NULL
    BY <1>1, <1>7 DEF SlotHolds, Holds
  <2>3. \A l \in Holder : hold2[l] = Hold[l] /\ (Hold[l] # NULL => Want[l] \subseteq Want[l])
    BY <2>2
  <2>4. Sane(heap, hold2, Want)
    BY <1>1, <2>3, Relaxed
  <2> QED  BY <2>1, <2>4
<1> QED
  BY <1>4, <1>5, <1>6, <1>7

(* Entry 0 is filled first.                                                *)
LEMMA ZeroFirst ==
  ASSUME Shape, NEW i \in Slots, Fillable(i)
  PROVE  0 \in Slots /\ (i = 0 \/ Holds(0))
<1>1. 0 \in Slots /\ \A j \in Slots : j \in Int /\ j >= 0
  BY MemoryAssumption DEF Slots
<1>2. CASE entry[0].used
  BY <1>1, <1>2 DEF Holds
<1>3. CASE ~entry[0].used
  <2>1. 0 \in FreeSlots /\ \A j \in FreeSlots : j >= 0 /\ j \in Int
    BY <1>1, <1>3 DEF FreeSlots
  <2>2. Min(FreeSlots) = CHOOSE x \in FreeSlots : \A y \in FreeSlots : x <= y
    BY DEF Min
  <2>3. \E x \in FreeSlots : \A y \in FreeSlots : x <= y
    BY <2>1
  <2>4. Min(FreeSlots) \in FreeSlots /\ \A y \in FreeSlots : Min(FreeSlots) <= y
    BY <2>2, <2>3
  <2>5. Min(FreeSlots) = 0
    BY <2>1, <2>4
  <2> QED  BY <1>1, <2>1, <2>5 DEF Fillable
<1> QED
  BY <1>1, <1>2, <1>3

(* An entry is filled.                                                     *)
LEMMA FilledShape ==
  ASSUME Shape, NEW i \in Slots, Fillable(i), NEW a \in Arrays,
         NEW from \in SUBSET Packets, NEW fields, Good(fields),
         entry' = Filled(i, a, from, fields), mutex' = MutexesLeft(i)
  PROVE  /\ entry' \in [Slots -> EntryType] /\ mutex' \in [Packets -> BOOLEAN]
         /\ \A j \in Slots : Holds(j)' => entry'[j].mFields \in Arrays
         /\ \A j \in Slots : entry'[j].used => Holds(0)'
         /\ \A j \in Slots : j # i => entry'[j] = entry[j]
         /\ entry'[i].used /\ entry'[i].mFields = a /\ entry'[i].content = Content(fields)
<1> DEFINE e == [used |-> TRUE, mTrash |-> entry[i].mTrash, mFields |-> a,
                 from |-> from, content |-> Content(fields)]
<1>1. entry \in [Slots -> EntryType] /\ entry[i] \in EntryType
  BY DEF Shape
<1>2. Content(fields) \in ContentType
  BY ContentTypes
<1>3. e \in EntryType /\ e.used /\ e.mFields = a /\ e.content = Content(fields)
  BY <1>1, <1>2 DEF EntryType
<1>4. entry' = [entry EXCEPT ![i] = e]
  BY DEF Filled
<1> HIDE DEF e
<1>5. /\ entry' \in [Slots -> EntryType] /\ entry'[i] = e
      /\ \A j \in Slots : j # i => entry'[j] = entry[j]
  BY <1>1, <1>3, <1>4
<1>6. mutex' \in [Packets -> BOOLEAN]
  BY DEF MutexesLeft, Shape
<1>7. \A j \in Slots : Holds(j)' => entry'[j].mFields \in Arrays
  BY <1>3, <1>5 DEF Holds, Shape
<1>8. Holds(0)'
  BY <1>3, <1>5, ZeroFirst DEF Holds
<1> QED
  BY <1>3, <1>5, <1>6, <1>7, <1>8

(* What an entry holds that was filled, and who is left alone.             *)
LEMMA FilledHold ==
  ASSUME NEW i \in Slots, NEW K, <<"slot", i>> \in K,
         \A j \in Slots : j # i => entry'[j] = entry[j], entry'[i].used,
         \A q \in Packets : <<"packet", q>> \notin K =>
           packet'[q] = packet[q] /\ written'[q] = written[q]
  PROVE  /\ Hold'[<<"slot", i>>] = entry'[i].mFields
         /\ Want'[<<"slot", i>>] = {entry'[i].content}
         /\ \A l \in Holder : l \notin K => Hold'[l] = Hold[l] /\ Want'[l] = Want[l]
<1>1. SlotHolds(i)' = entry'[i].mFields /\ SlotWants(i)' = {entry'[i].content}
  BY DEF SlotHolds, SlotWants, Holds
<1>2. \A j \in Slots : <<"slot", j>> \notin K =>
        /\ entry'[j].used = entry[j].used /\ entry'[j].mTrash = entry[j].mTrash
        /\ entry'[j].mFields = entry[j].mFields /\ entry'[j].content = entry[j].content
  OBVIOUS
<1>3. \A l \in Holder : l \notin K => Hold'[l] = Hold[l] /\ Want'[l] = Want[l]
  BY <1>2, SameElsewhere
<1> QED
  BY <1>1, <1>3, HoldAt

(* A packet of the library's own is sent, or cleaned if it is refused.     *)
LEMMA QuickSendKeeps ==
  ASSUME MemoryInv, NEW fields, Good(fields), NEW i \in Slots, QuickSend(fields, i)
  PROVE  MemoryInv'
<1> DEFINE k == <<"slot", i>>
           a == NewArray
           mid == [l \in Holder |-> IF l = k THEN NULL ELSE Hold[l]]
<1>1. /\ Shape /\ k \in Holder /\ a \in Arrays /\ ~heap[a].live /\ Fillable(i)
      /\ {} \in SUBSET Packets
  BY NewArrayFree, HolderKinds DEF MemoryInv, QuickSend
<1>2. /\ heap' = WithArray(Vacated(i), a, fields) /\ entry' = Filled(i, a, {}, fields)
      /\ mutex' = MutexesLeft(i) /\ UNCHANGED <<packet, written>>
  BY DEF QuickSend
<1> HIDE DEF a
<1>3. /\ entry' \in [Slots -> EntryType] /\ mutex' \in [Packets -> BOOLEAN]
      /\ \A j \in Slots : Holds(j)' => entry'[j].mFields \in Arrays
      /\ \A j \in Slots : entry'[j].used => Holds(0)'
      /\ \A j \in Slots : j # i => entry'[j] = entry[j]
      /\ entry'[i].used /\ entry'[i].mFields = a /\ entry'[i].content = Content(fields)
  BY <1>1, <1>2, FilledShape
<1>4. Shape'
  BY <1>1, <1>2, <1>3 DEF Shape, Owns
<1>5. /\ Hold'[k] = a /\ Want'[k] = {Content(fields)}
      /\ \A l \in Holder : l # k => Hold'[l] = Hold[l] /\ Want'[l] = Want[l]
  <2> DEFINE K == {k}
  <2>1. <<"slot", i>> \in K
    OBVIOUS
  <2>2. \A q \in Packets : packet'[q] = packet[q] /\ written'[q] = written[q]
    BY <1>2
  <2> HIDE DEF K
  <2>3. \A l \in Holder : l \notin K => Hold'[l] = Hold[l] /\ Want'[l] = Want[l]
    BY <1>3, <2>1, <2>2, FilledHold
  <2>4. Hold'[<<"slot", i>>] = entry'[i].mFields /\ Want'[<<"slot", i>>] = {entry'[i].content}
    BY <1>3, <2>1, <2>2, FilledHold
  <2> QED  BY <1>3, <2>3, <2>4 DEF K
<1>6. mid[k] = NULL /\ \A l \in Holder : l # k => mid[l] = Hold[l]
  BY <1>1
<1> HIDE DEF mid
<1>7. /\ Sane(Vacated(i), mid, Want) /\ ~Vacated(i)[a].live
  BY <1>1, <1>6, VacatedSane
<1>8. /\ Hold'[k] = a /\ Want'[k] \subseteq {Content(fields)}
      /\ \A l \in Holder : l # k => Hold'[l] = mid[l] /\ Want'[l] = Want[l]
  BY <1>5, <1>6
<1> HIDE DEF k
<1>9. Sane(WithArray(Vacated(i), a, fields), Hold', Want')
  BY <1>1, <1>6, <1>7, <1>8, Allocated
<1> QED
  BY <1>2, <1>4, <1>9 DEF MemoryInv

LEMMA QuickSendRefusedKeeps ==
  ASSUME MemoryInv, NEW fields, Good(fields), QuickSendRefused(fields)
  PROVE  MemoryInv'
<1> DEFINE x == Freed(fields, "none")
<1>1. /\ NewArray \in Arrays /\ ~heap[NewArray].live
      /\ heap' = [heap EXCEPT ![NewArray] = x] /\ UNCHANGED <<packet, mutex, entry, written>>
  BY NewArrayFree DEF QuickSendRefused
<1>2. Gone(x)
  BY FreedGone
<1> HIDE DEF x
<1>3. Sane(heap', Hold, Want)
  BY <1>1, <1>2, Replaced DEF MemoryInv
<1>4. Hold' = Hold /\ Want' = Want
  BY <1>1 DEF Hold, Want, PacketHolds, SlotHolds, SlotWants, Owns, Holds
<1>5. Shape'
  BY <1>1 DEF MemoryInv, Shape, Owns, Holds
<1> QED
  BY <1>3, <1>4, <1>5 DEF MemoryInv

(* A packet is handed to the spool: its array passes to the entry, and a   *)
(* reusable packet gets a copy.                                            *)
LEMMA SendKeeps ==
  ASSUME MemoryInv, NEW p \in Packets, NEW i \in Slots, Send(p, i)
  PROVE  MemoryInv'
<1> DEFINE k == <<"slot", i>>
           kp == <<"packet", p>>
           a == packet[p].mFields
           fields == heap[a].fields
           x == Handed(p)
           mid == [l \in Holder |-> IF l = k THEN NULL ELSE Hold[l]]
<1>1. /\ Shape /\ k \in Holder /\ kp \in Holder /\ k # kp /\ Fillable(i) /\ Owns(p)
      /\ {p} \in SUBSET Packets
  BY HolderKinds DEF MemoryInv, Send
<1>2. a \in Arrays /\ Good(fields) /\ Content(fields) = written[p]
  BY <1>1, HeldArray
<1>3. /\ entry' = Filled(i, a, {p}, fields) /\ mutex' = MutexesLeft(i)
      /\ packet' = [packet EXCEPT ![p] = x]
  BY DEF Send
<1> HIDE DEF x, fields, a
<1>4. /\ entry' \in [Slots -> EntryType] /\ mutex' \in [Packets -> BOOLEAN]
      /\ \A j \in Slots : Holds(j)' => entry'[j].mFields \in Arrays
      /\ \A j \in Slots : entry'[j].used => Holds(0)'
      /\ \A j \in Slots : j # i => entry'[j] = entry[j]
      /\ entry'[i].used /\ entry'[i].mFields = a /\ entry'[i].content = Content(fields)
  BY <1>1, <1>2, <1>3, FilledShape
<1>5. mid[k] = NULL /\ \A l \in Holder : l # k => mid[l] = Hold[l]
  BY <1>1
<1>6. Hold[kp] = a /\ a # NULL
  BY <1>1, <1>2, HoldAt DEF PacketHolds, Arrays, NULL, a
<1> HIDE DEF mid
<1>7. /\ Sane(Vacated(i), mid, Want)
      /\ \A b \in Arrays : ~heap[b].live => ~Vacated(i)[b].live
      /\ Vacated(i)[a] = heap[a]
  BY <1>1, <1>5, <1>6, VacatedSane
<1>8. /\ x = [packet[p] EXCEPT !.mSpooled = TRUE,
                               !.mFields = IF packet[p].mReusable THEN NewArray ELSE NULL]
      /\ packet[p] \in PacketType /\ packet[p].mBuilt
  BY <1>1 DEF x, Handed, Shape, Owns
<1>9. /\ packet'[p] = x /\ \A q \in Packets : q # p => packet'[q] = packet[q]
  BY <1>1, <1>3 DEF Shape
<1>10. Hold'[k] = a /\ Want'[k] = {Content(fields)}
  <2> DEFINE K == {k, kp}
  <2>1. <<"slot", i>> \in K
    OBVIOUS
  <2>2. \A q \in Packets : <<"packet", q>> \notin K =>
          packet'[q] = packet[q] /\ written'[q] = written[q]
    <3>1. \A q \in Packets : <<"packet", q>> \notin K => q # p
      OBVIOUS
    <3>2. \A q \in Packets : q # p => written'[q] = written[q]
      BY <1>1 DEF Send, Shape
    <3> QED  BY <1>9, <3>1, <3>2
  <2> HIDE DEF K
  <2>3. Hold'[<<"slot", i>>] = entry'[i].mFields /\ Want'[<<"slot", i>>] = {entry'[i].content}
    BY <1>4, <2>1, <2>2, FilledHold
  <2> QED  BY <1>4, <2>3
<1>11. \A l \in Holder : l # k /\ l # kp => Hold'[l] = Hold[l] /\ Want'[l] = Want[l]
  <2> DEFINE K == {k, kp}
  <2>1. <<"slot", i>> \in K
    OBVIOUS
  <2>2. \A q \in Packets : <<"packet", q>> \notin K =>
          packet'[q] = packet[q] /\ written'[q] = written[q]
    <3>1. \A q \in Packets : <<"packet", q>> \notin K => q # p
      OBVIOUS
    <3>2. \A q \in Packets : q # p => written'[q] = written[q]
      BY <1>1 DEF Send, Shape
    <3> QED  BY <1>9, <3>1, <3>2
  <2> HIDE DEF K
  <2>3. \A l \in Holder : l \notin K => Hold'[l] = Hold[l] /\ Want'[l] = Want[l]
    BY <1>4, <2>1, <2>2, FilledHold
  <2> QED  BY <2>3 DEF K
<1>12. CASE ~packet[p].mReusable
  <2>1. heap' = Vacated(i) /\ written' = [written EXCEPT ![p] = Nothing]
    BY <1>12 DEF Send
  <2>2. x \in PacketType /\ ~(~x.mSpooled \/ x.mReusable)
    BY <1>8, <1>12 DEF PacketType
  <2>3. ~Owns(p)' /\ Hold'[kp] = NULL
    BY <1>9, <2>2, Unowned DEF Owns
  <2>4. /\ packet' \in [Packets -> PacketType] /\ written' \in [Packets -> ContentType]
        /\ \A q \in Packets : Owns(q)' => packet'[q].mFields \in Arrays
    BY <1>1, <1>3, <1>9, <2>1, <2>2, <2>3, ContentTypes DEF Shape, Owns
  <2>5. Shape'
    BY <1>4, <2>4 DEF Shape
  <2>6. /\ Hold'[kp] = NULL /\ Hold'[k] = mid[kp] /\ mid[kp] # NULL /\ mid[k] = NULL
        /\ Want'[k] \subseteq {Content(Vacated(i)[mid[kp]].fields)}
        /\ \A l \in Holder : l # kp /\ l # k => Hold'[l] = mid[l] /\ Want'[l] = Want[l]
    BY <1>1, <1>5, <1>6, <1>7, <1>10, <1>11, <2>3 DEF fields
  <2> HIDE DEF k, kp
  <2>7. Sane(Vacated(i), Hold', Want')
    BY <1>1, <1>7, <2>6, Passed
  <2> QED  BY <2>1, <2>5, <2>7 DEF MemoryInv
<1>13. CASE packet[p].mReusable
  <2> DEFINE b == NewArray
             copy == ResetFields(a)
             hold == [l \in Holder |-> IF l = k THEN a ELSE IF l = kp THEN NULL ELSE Hold[l]]
             want == [l \in Holder |-> IF l = k THEN {Content(fields)} ELSE Want[l]]
  <2>1. /\ heap' = WithArray(Vacated(i), b, copy) /\ UNCHANGED written
        /\ b \in Arrays /\ ~heap[b].live
    BY <1>13, NewArrayFree DEF Send, a
  <2>2. Good(copy) /\ Content(copy) = written[p]
    <3>1. /\ Good(BuiltFields) /\ Content(BuiltFields) = Nothing
          /\ copy = Copied(BuiltFields, fields)
      BY BuiltGood DEF ResetFields, fields
    <3>2. /\ Good(copy)
          /\ Content(copy) = [j \in FieldIds |-> IF Content(fields)[j] # {}
                                                 THEN Content(fields)[j]
                                                 ELSE Content(BuiltFields)[j]]
      BY <1>2, <3>1, CopiedGood
    <3>3. Content(fields) \in ContentType
      BY <1>2, ContentTypes
    <3>4. Content(copy) = Content(fields)
      BY <3>1, <3>2, <3>3 DEF Nothing, ContentType
    <3> QED  BY <1>2, <3>2, <3>4
  <2> HIDE DEF b, copy
  <2>3. x \in PacketType /\ x.mFields = b /\ x.mBuilt /\ x.mReusable
    BY <1>8, <1>13, <2>1 DEF PacketType, b
  <2>4. Owns(p)' /\ Hold'[kp] = b /\ Want'[kp] = {Content(copy)}
    <3>1. Owns(p)' /\ packet'[p].mFields = b /\ written'[p] = written[p]
      BY <1>9, <2>1, <2>3 DEF Owns
    <3> QED  BY <2>2, <3>1, HoldAt DEF PacketHolds
  <2>5. /\ packet' \in [Packets -> PacketType] /\ written' \in [Packets -> ContentType]
        /\ \A q \in Packets : Owns(q)' => packet'[q].mFields \in Arrays
    BY <1>1, <1>3, <1>9, <2>1, <2>3 DEF Shape, Owns
  <2>6. Shape'
    BY <1>4, <2>5 DEF Shape
  <2>7. /\ hold[kp] = NULL /\ hold[k] = mid[kp] /\ mid[kp] # NULL /\ mid[k] = NULL
        /\ want[k] \subseteq {Content(Vacated(i)[mid[kp]].fields)}
        /\ \A l \in Holder : l # kp /\ l # k => hold[l] = mid[l] /\ want[l] = Want[l]
    BY <1>1, <1>5, <1>6, <1>7 DEF fields
  <2>8. /\ Want'[kp] \subseteq {Content(copy)} /\ ~Vacated(i)[b].live
        /\ \A l \in Holder : l # kp => Hold'[l] = hold[l] /\ Want'[l] = want[l]
    BY <1>1, <1>7, <1>10, <1>11, <2>1, <2>4
  <2> HIDE DEF k, kp, hold, want
  <2>9. Sane(Vacated(i), hold, want)
    BY <1>1, <1>7, <2>7, Passed
  <2>10. Sane(WithArray(Vacated(i), b, copy), Hold', Want')
    BY <1>1, <2>1, <2>2, <2>4, <2>7, <2>8, <2>9, Allocated
  <2> QED  BY <2>1, <2>6, <2>10 DEF MemoryInv
<1> QED
  BY <1>12, <1>13

(* An entry that is made FREE and marked as trash is still held.           *)
LEMMA FinishKeeps ==
  ASSUME MemoryInv, NEW i \in Slots, Finish(i)
  PROVE  MemoryInv'
<1> DEFINE k == <<"slot", i>>
           e == [entry[i] EXCEPT !.used = FALSE, !.content = Nothing, !.mTrash = TRUE]
<1>1. Shape /\ Sane(heap, Hold, Want) /\ entry[i] \in EntryType /\ entry[i].used
  BY DEF MemoryInv, Shape, Finish
<1>2. /\ e \in EntryType /\ ~e.used /\ e.mTrash /\ e.mFields = entry[i].mFields
  BY <1>1, ContentTypes DEF EntryType
<1>3. entry' = [entry EXCEPT ![i] = e] /\ UNCHANGED <<heap, packet, mutex, written>>
  BY DEF Finish
<1> HIDE DEF e
<1>4. /\ entry' \in [Slots -> EntryType] /\ entry'[i] = e
      /\ \A j \in Slots : j # i => entry'[j] = entry[j]
  BY <1>1, <1>2, <1>3 DEF Shape
<1>5. \A j \in Slots : /\ Holds(j)' <=> Holds(j)
                       /\ entry'[j].mFields = entry[j].mFields
                       /\ entry'[j].used => entry[j].used
  BY <1>1, <1>2, <1>4 DEF Holds
<1>6. Shape'
  <2>1. 0 \in Slots
    BY MemoryAssumption DEF Slots
  <2> QED  BY <1>1, <1>3, <1>4, <1>5, <2>1 DEF Shape, Owns
<1>7. /\ \A l \in Holder : l # k => Hold'[l] = Hold[l] /\ Want'[l] = Want[l]
      /\ Hold'[k] = Hold[k] /\ Want'[k] = {}
  <2> DEFINE K == {k}
  <2>1. \A q \in Packets : packet'[q] = packet[q] /\ written'[q] = written[q]
    BY <1>3
  <2>2. \A j \in Slots : <<"slot", j>> \notin K => entry'[j] = entry[j]
    BY <1>4
  <2> HIDE DEF K
  <2>3. \A l \in Holder : l \notin K => Hold'[l] = Hold[l] /\ Want'[l] = Want[l]
    BY <2>1, <2>2, SameElsewhere
  <2>4. SlotHolds(i)' = SlotHolds(i) /\ SlotWants(i)' = {}
    BY <1>2, <1>4, <1>5 DEF SlotHolds, SlotWants
  <2> QED  BY <2>3, <2>4, HoldAt DEF K
<1>8. \A l \in Holder : Hold'[l] = Hold[l] /\ (Hold[l] # NULL => Want'[l] \subseteq Want[l])
  BY <1>7
<1>9. Sane(heap, Hold', Want')
  BY <1>1, <1>8, Relaxed
<1> QED
  BY <1>3, <1>6, <1>9 DEF MemoryInv

(* poly_spool_ack marks entry 0, which holds a packet already or is the    *)
(* one that is made FREE.                                                  *)
LEMMA AckKeeps ==
  ASSUME MemoryInv, NEW i \in Slots, Ack(i)
  PROVE  MemoryInv'
<1> DEFINE k == <<"slot", i>>
           a == entry[i].mFields
           e == [entry[i] EXCEPT !.used = FALSE, !.content = Nothing]
           mid == [entry EXCEPT ![i] = e]
           z == [mid[0] EXCEPT !.mTrash = TRUE]
<1>1. /\ Shape /\ Sane(heap, Hold, Want) /\ k \in Holder /\ entry[i] \in EntryType
      /\ entry[i].used /\ 0 \in Slots /\ Holds(0) /\ Holds(i)
  <2>1. 0 \in Slots
    BY MemoryAssumption DEF Slots
  <2> QED  BY <2>1, HolderKinds DEF MemoryInv, Shape, Ack, Holds
<1>2. /\ e \in EntryType /\ ~e.used /\ e.mTrash = entry[i].mTrash
      /\ e.mFields = entry[i].mFields
  BY <1>1, ContentTypes DEF EntryType
<1>3. /\ entry' = [mid EXCEPT ![0] = z] /\ UNCHANGED <<packet, mutex, written>>
  BY DEF Ack, TrashedByAck
<1>4. /\ mid \in [Slots -> EntryType] /\ mid[i] = e
      /\ \A j \in Slots : j # i => mid[j] = entry[j]
  BY <1>1, <1>2 DEF Shape
<1> HIDE DEF mid, e
<1>5. /\ z \in EntryType /\ z.mTrash /\ z.used = mid[0].used
      /\ z.mFields = mid[0].mFields /\ z.content = mid[0].content
  BY <1>1, <1>4 DEF EntryType
<1> HIDE DEF z
<1>6. /\ entry' \in [Slots -> EntryType] /\ entry'[0] = z
      /\ \A j \in Slots : j # 0 => entry'[j] = mid[j]
  BY <1>1, <1>3, <1>4, <1>5
<1>7. /\ \A j \in Slots : /\ entry'[j].mFields = entry[j].mFields
                          /\ entry'[j].used <=> (j # i /\ entry[j].used)
                          /\ entry'[j].mTrash <=> (j = 0 \/ entry[j].mTrash)
                          /\ j # i => entry'[j].content = entry[j].content
  BY <1>1, <1>2, <1>4, <1>5, <1>6 DEF EntryType
<1>8. Shape'
  <2>1. \A j \in Slots : Holds(j)' => Holds(j)
    BY <1>1, <1>7 DEF Holds
  <2>2. Holds(0)'
    BY <1>1, <1>7 DEF Holds
  <2> QED  BY <1>1, <1>3, <1>6, <1>7, <2>1, <2>2 DEF Shape, Owns
<1>9. \A l \in Holder : l # k => Hold'[l] = Hold[l] /\ Want'[l] = Want[l]
  <2> SUFFICES ASSUME NEW l \in Holder, l # k
               PROVE  Hold'[l] = Hold[l] /\ Want'[l] = Want[l]
    OBVIOUS
  <2>1. CASE \E q \in Packets : l = <<"packet", q>>
    <3>1. PICK q \in Packets : l = <<"packet", q>>
      BY <2>1
    <3>2. PacketHolds(q)' = PacketHolds(q) /\ written'[q] = written[q]
      BY <1>3 DEF PacketHolds, Owns
    <3> QED  BY <3>1, <3>2, HoldAt
  <2>2. CASE \E j \in Slots : l = <<"slot", j>>
    <3>1. PICK j \in Slots : l = <<"slot", j>>
      BY <2>2
    <3>2. j # i
      BY <3>1
    <3>3. /\ entry'[j].mFields = entry[j].mFields /\ (entry'[j].used <=> entry[j].used)
          /\ entry'[j].content = entry[j].content /\ (Holds(j)' <=> Holds(j))
      BY <1>1, <1>7, <3>2 DEF Holds
    <3>4. SlotHolds(j)' = SlotHolds(j) /\ SlotWants(j)' = SlotWants(j)
      BY <3>3 DEF SlotHolds, SlotWants
    <3> QED  BY <3>1, <3>4, HoldAt
  <2> QED  BY <2>1, <2>2, HolderKinds
<1>10. Want'[k] = {} /\ Hold[k] = a /\ a # NULL
  <2>1. SlotWants(i)' = {} /\ SlotHolds(i) = a /\ a \in Arrays
    BY <1>1, <1>7 DEF SlotWants, SlotHolds, Shape
  <2> QED  BY <2>1, HoldAt DEF Arrays, NULL
<1>11. CASE Forgotten(i)
  <2>1. heap' = [heap EXCEPT ![a].fate = "forgotten"]
    BY <1>11 DEF Ack
  <2>2. ~Holds(i)'
    BY <1>7, <1>11 DEF Forgotten, TrashedByAck, Holds
  <2>3. Hold'[k] = NULL
    BY <2>2, HoldAt DEF SlotHolds
  <2> HIDE DEF k
  <2>4. Sane([heap EXCEPT ![Hold[k]].fate = "forgotten"], Hold', Want')
    BY <1>1, <1>9, <1>10, <2>3, Abandoned
  <2> QED  BY <1>8, <1>10, <2>1, <2>4 DEF MemoryInv
<1>12. CASE ~Forgotten(i)
  <2>1. heap' = heap
    BY <1>12 DEF Ack
  <2>2. Holds(i)'
    BY <1>7, <1>12 DEF Forgotten, TrashedByAck, Holds
  <2>3. SlotHolds(i)' = SlotHolds(i)
    BY <1>1, <1>7, <2>2 DEF SlotHolds
  <2>4. Hold'[k] = Hold[k]
    BY <2>3, HoldAt
  <2>5. \A l \in Holder : Hold'[l] = Hold[l] /\ (Hold[l] # NULL => Want'[l] \subseteq Want[l])
    BY <1>9, <1>10, <2>4
  <2>6. Sane(heap, Hold', Want')
    BY <1>1, <2>5, Relaxed
  <2> QED  BY <1>8, <2>1, <2>6 DEF MemoryInv
<1> QED
  BY <1>11, <1>12

-----------------------------------------------------------------------------
(* At first nothing is allocated, and nothing held.                        *)
LEMMA MemoryInit == Init => MemoryInv
<1> SUFFICES ASSUME Init PROVE MemoryInv
  OBVIOUS
<1> DEFINE gone == [i \in FieldIds |-> FreedField(i, {})]
           x == [live |-> FALSE, fate |-> "none", fields |-> gone]
           pk == [mBuilt |-> FALSE, mSpooled |-> FALSE, mReusable |-> FALSE,
                  mFields |-> NULL]
           en == [used |-> FALSE, mTrash |-> FALSE, mFields |-> NULL,
                  from |-> {}, content |-> Nothing]
<1>1. /\ heap = [a \in Arrays |-> x] /\ packet = [p \in Packets |-> pk]
      /\ mutex = [p \in Packets |-> FALSE] /\ entry = [i \in Slots |-> en]
      /\ written = [p \in Packets |-> Nothing]
  BY DEF Init
<1>2. Gone(x)
  <2>1. {} \in SUBSET Faults
    OBVIOUS
  <2>2. \A i \in FieldIds : gone[i] = FreedField(i, {})
    OBVIOUS
  <2>3. /\ gone \in [FieldIds -> FieldType]
        /\ \A i \in FieldIds : ~gone[i].mData.live /\ gone[i].fault = {}
    BY <2>1, <2>2, FreedFieldGone
  <2> HIDE DEF gone
  <2>4. x \in ArrayType /\ ~x.live /\ x.fields = gone
    BY <2>3 DEF ArrayType
  <2> HIDE DEF x
  <2> QED  BY <2>3, <2>4 DEF Gone
<1>3. pk \in PacketType /\ ~pk.mBuilt /\ en \in EntryType /\ ~en.used /\ ~en.mTrash
  BY ContentTypes DEF PacketType, EntryType
<1> HIDE DEF x, pk, en
<1>4. Shape
  BY <1>1, <1>3, ContentTypes DEF Shape, Owns, Holds
<1>5. \A k \in Holder : Hold[k] = NULL
  <2>1. ASSUME NEW p \in Packets PROVE PacketHolds(p) = NULL
    BY <1>1, <1>3 DEF PacketHolds, Owns
  <2>2. ASSUME NEW i \in Slots PROVE SlotHolds(i) = NULL
    BY <1>1, <1>3 DEF SlotHolds, Holds
  <2>3. ASSUME NEW p \in Packets PROVE Hold[<<"packet", p>>] = NULL
    BY <2>1, HoldAt
  <2>4. ASSUME NEW i \in Slots PROVE Hold[<<"slot", i>>] = NULL
    BY <2>2, HoldAt
  <2> QED  BY <2>3, <2>4, HolderKinds
<1>6. Sane(heap, Hold, Want)
  BY <1>1, <1>2, <1>5 DEF Sane, Gone
<1> QED
  BY <1>4, <1>6 DEF MemoryInv

(* Every step keeps the invariant.                                         *)
LEMMA MemoryStep == MemoryInv /\ [Next]_vars => MemoryInv'
<1> SUFFICES ASSUME MemoryInv, [Next]_vars PROVE MemoryInv'
  OBVIOUS
<1>1. ASSUME NEW p \in Packets, NEW reusable \in BOOLEAN, Build(p, reusable)
      PROVE  MemoryInv'
  BY <1>1, BuildKeeps
<1>2. ASSUME NEW p \in Packets, NEW frame \in Frames, NEW valid \in BOOLEAN,
             Receive(p, frame, valid)
      PROVE  MemoryInv'
  BY <1>2, ReceiveKeeps
<1>3. ASSUME NEW p \in Packets, NEW i \in FieldIds, NEW data \in Contents(i),
             SetField(p, i, data)
      PROVE  MemoryInv'
  BY <1>3, SetFieldKeeps
<1>4. ASSUME NEW p \in Packets, NEW src \in Packets, Copy(p, src) PROVE MemoryInv'
  BY <1>4, CopyKeeps
<1>5. ASSUME NEW p \in Packets, NEW i \in Slots, Send(p, i) PROVE MemoryInv'
  BY <1>5, SendKeeps
<1>6. ASSUME NEW p \in Packets, Clean(p) \/ Destruct(p) PROVE MemoryInv'
  BY <1>6, CleanKeeps
<1>7. ASSUME NEW fields \in QuickPackets,
             (\E i \in Slots : QuickSend(fields, i)) \/ QuickSendRefused(fields)
      PROVE  MemoryInv'
  <2>1. Good(fields)
    <3>1. CASE fields = BuiltFields
      BY <3>1, BuiltGood
    <3>2. ASSUME NEW i \in FieldIds, NEW data \in Contents(i),
                 fields = [BuiltFields EXCEPT ![i] = FieldSet(@, i, data)]
          PROVE  Good(fields)
      BY <3>2, BuiltGood, SetGood
    <3> QED  BY <3>1, <3>2 DEF QuickPackets
  <2> QED  BY <1>7, <2>1, QuickSendKeeps, QuickSendRefusedKeeps
<1>8. ASSUME NEW i \in Slots, Finish(i) \/ Ack(i) PROVE MemoryInv'
  BY <1>8, FinishKeeps, AckKeeps
<1>9. CASE UNCHANGED vars
  <2>1. UNCHANGED <<heap, packet, mutex, entry, written>>
    BY <1>9 DEF vars
  <2>2. Hold' = Hold /\ Want' = Want
    BY <2>1 DEF Hold, Want, PacketHolds, SlotHolds, SlotWants, Owns, Holds
  <2>3. Shape'
    BY <2>1 DEF MemoryInv, Shape, Owns, Holds
  <2> QED  BY <2>1, <2>2, <2>3 DEF MemoryInv
<1> QED
  BY <1>1, <1>2, <1>3, <1>4, <1>5, <1>6, <1>7, <1>8, <1>9 DEF Next

(* The invariant holds throughout.                                         *)
LEMMA MemoryInvCorrect == Spec => []MemoryInv
BY MemoryInit, MemoryStep, PTL DEF Spec

(* Every state has its type: an array the application may write to, or an  *)
(* entry that is in use or marked as trash, names an array.                *)
THEOREM MemoryTypeCorrect == Spec => []TypeOK
<1>1. ASSUME MemoryInv PROVE TypeOK
  <2>1. /\ \A a \in Arrays : heap[a] \in ArrayType
        /\ packet \in [Packets -> PacketType] /\ entry \in [Slots -> EntryType]
        /\ mutex \in [Packets -> BOOLEAN]
        /\ \A p \in Packets : Owns(p) => packet[p].mFields \in Arrays
        /\ \A i \in Slots : Holds(i) => entry[i].mFields \in Arrays
    BY <1>1 DEF MemoryInv, Shape, Sane
  <2> QED  BY <2>1 DEF TypeOK, ArrayType, PacketType, EntryType, Holds
<1> QED
  BY <1>1, MemoryInvCorrect, PTL

(* For any fields, any contents and any size of the spool, with its        *)
(* entries and their trash marks as poly_spool.c keeps them: no operation  *)
(* on a field loses a block, uses one after it was freed or reaches beyond *)
(* it, and none frees a block twice except that poly_spool_push may free   *)
(* once more what it has just evicted.                                     *)
THEOREM MemorySafeCorrect == Spec => []MemorySafe
<1>1. MemoryInv => MemorySafe
  <2> SUFFICES ASSUME MemoryInv, NEW a \in Arrays, NEW i \in FieldIds
               PROVE  heap[a].fields[i].fault \subseteq
                        IF heap[a].fate = "evicted" THEN {"freedTwice"} ELSE {}
    BY DEF MemorySafe
  <2>1. IF heap[a].live THEN Good(heap[a].fields) ELSE Gone(heap[a])
    BY DEF MemoryInv, Sane
  <2>2. CASE heap[a].live
    BY <2>1, <2>2 DEF Good, Fit
  <2>3. CASE ~heap[a].live
    BY <2>1, <2>3 DEF Gone
  <2> QED  BY <2>2, <2>3
<1> QED
  BY <1>1, MemoryInvCorrect, PTL

(* With the spool as it is: an array is never held twice nor held once it  *)
(* is freed, and one that is allocated is held by the application or by an *)
(* entry of the spool, unless it is one of those poly_spool_ack forgets by *)
(* marking entry 0 in place of their own.                                  *)
THEOREM OneOwnerCorrect == Spec => []OneOwner
<1>1. ASSUME MemoryInv, NEW a \in Arrays
      PROVE  Holders(a) = IF heap[a].live /\ heap[a].fate # "forgotten" THEN 1 ELSE 0
  <2>1. Sane(heap, Hold, Want) /\ a # NULL
    BY <1>1 DEF MemoryInv, Arrays, NULL
  <2>2. Cardinality({}) = 0 /\ \A x : Cardinality({x}) = 1
    BY FS_EmptySet, FS_Singleton
  <2>3. ASSUME NEW p \in Packets
        PROVE  /\ p \in HeldByApplication(a) <=> Hold[<<"packet", p>>] = a
               /\ <<"packet", p>> \in Holder
    BY <2>1, HoldAt, HolderKinds DEF HeldByApplication, PacketHolds
  <2>4. ASSUME NEW i \in Slots
        PROVE  /\ i \in HeldBySpool(a) <=> Hold[<<"slot", i>>] = a
               /\ <<"slot", i>> \in Holder
    BY <2>1, HoldAt, HolderKinds DEF HeldBySpool, SlotHolds, Holds
  <2>5. HeldByApplication(a) \subseteq Packets /\ HeldBySpool(a) \subseteq Slots
    BY DEF HeldByApplication, HeldBySpool
  <2>6. \A k, l \in Holder : Hold[k] = a /\ Hold[l] = a => k = l
    BY <2>1 DEF Sane
  <2>7. heap[a].live /\ heap[a].fate # "forgotten" <=> \E k \in Holder : Hold[k] = a
    BY <2>1 DEF Sane
  <2>8. CASE \E p \in Packets : Hold[<<"packet", p>>] = a
    <3>1. PICK p \in Packets : Hold[<<"packet", p>>] = a
      BY <2>8
    <3>2. ASSUME NEW q \in Packets, Hold[<<"packet", q>>] = a PROVE q = p
      <4>1. <<"packet", q>> = <<"packet", p>>
        BY Zenon, <2>3, <2>6, <3>1, <3>2
      <4> QED  BY <4>1
    <3>3. ASSUME NEW i \in Slots, Hold[<<"slot", i>>] = a PROVE FALSE
      <4>1. <<"slot", i>> = <<"packet", p>>
        BY Zenon, <2>3, <2>4, <2>6, <3>1, <3>3
      <4> QED  BY <4>1
    <3>4. HeldByApplication(a) = {p} /\ HeldBySpool(a) = {}
      BY <2>3, <2>4, <2>5, <3>1, <3>2, <3>3
    <3>5. heap[a].live /\ heap[a].fate # "forgotten"
      BY <2>3, <2>7, <3>1
    <3>6. Cardinality({p}) = 1 /\ Cardinality({}) = 0
      BY <2>2
    <3>7. Holders(a) = 1
      BY <3>4, <3>6 DEF Holders
    <3> QED  BY <3>5, <3>7
  <2>9. CASE \E i \in Slots : Hold[<<"slot", i>>] = a
    <3>1. PICK i \in Slots : Hold[<<"slot", i>>] = a
      BY <2>9
    <3>2. ASSUME NEW j \in Slots, Hold[<<"slot", j>>] = a PROVE j = i
      <4>1. <<"slot", j>> = <<"slot", i>>
        BY Zenon, <2>4, <2>6, <3>1, <3>2
      <4> QED  BY <4>1
    <3>3. ASSUME NEW p \in Packets, Hold[<<"packet", p>>] = a PROVE FALSE
      <4>1. <<"packet", p>> = <<"slot", i>>
        BY Zenon, <2>3, <2>4, <2>6, <3>1, <3>3
      <4> QED  BY <4>1
    <3>4. HeldByApplication(a) = {} /\ HeldBySpool(a) = {i}
      BY <2>3, <2>4, <2>5, <3>1, <3>2, <3>3
    <3>5. heap[a].live /\ heap[a].fate # "forgotten"
      BY <2>4, <2>7, <3>1
    <3>6. Cardinality({i}) = 1 /\ Cardinality({}) = 0
      BY <2>2
    <3>7. Holders(a) = 1
      BY <3>4, <3>6 DEF Holders
    <3> QED  BY <3>5, <3>7
  <2>10. CASE ~(\E k \in Holder : Hold[k] = a)
    <3>1. HeldByApplication(a) = {} /\ HeldBySpool(a) = {}
      BY <2>3, <2>4, <2>5, <2>10
    <3> QED  BY <2>2, <2>7, <2>10, <3>1 DEF Holders
  <2> QED  BY <2>8, <2>9, <2>10, HolderKinds
<1>2. MemoryInv => OneOwner
  <2> SUFFICES ASSUME MemoryInv, NEW a \in Arrays, NEW i \in FieldIds
               PROVE  LET f == heap[a].fields[i]
                      IN  /\ f.mData.live = heap[a].live
                          /\ f.mData.live => /\ f.mAllocated = Len(f.mData.bytes)
                                             /\ f.mSize <= f.mAllocated
    BY <1>1 DEF OneOwner
  <2>1. /\ heap[a].live \in BOOLEAN /\ heap[a].fields[i] \in FieldType
        /\ IF heap[a].live THEN Good(heap[a].fields) ELSE Gone(heap[a])
    BY DEF MemoryInv, Sane, ArrayType
  <2>2. CASE heap[a].live
    BY <2>1, <2>2 DEF Good, Fit, FieldType
  <2>3. CASE ~heap[a].live
    BY <2>1, <2>3 DEF Gone, FieldType
  <2> QED  BY <2>2, <2>3
<1> QED
  BY <1>2, MemoryInvCorrect, PTL

(* A packet holds what was last written into it, and the spool what the    *)
(* packet held when it was sent.                                           *)
THEOREM ContentsCorrect == Spec => []ContentsKept
<1>1. MemoryInv => ContentsKept
  BY HeldArray DEF ContentsKept, Holds
<1> QED
  BY <1>1, MemoryInvCorrect, PTL
=============================================================================
