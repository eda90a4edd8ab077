-------------------------- MODULE PolySpoolOpsProofs --------------------------
(***************************************************************************)
(* What the spool operations do to any well-formed spool: they keep its    *)
(* type and they keep the counters equal to the numbers of entries they    *)
(* count.  Stated for one operation at a time, so that every module that   *)
(* applies the operations can use the lemmas.                              *)
(***************************************************************************)
EXTENDS PolySpoolOps, FiniteSetTheorems, WellFoundedInduction, TLAPS

-----------------------------------------------------------------------------
(* Entries and minima                                                      *)

(* A set of naturals that is not empty has a least element, the one Min    *)
(* (used by the scans of the spool) denotes.                               *)
LEMMA MinNat ==
  ASSUME NEW S \in SUBSET Nat, S # {}
  PROVE  Min(S) \in S /\ \A y \in S : Min(S) <= y
<1> DEFINE R == {ss \in Nat \X Nat : ss[1] < ss[2]}
<1>1. IsWellFoundedOn(R, Nat)
  BY NatLessThanWellFounded DEF OpToRel
<1>2. PICK x \in S : \A y \in S : ~(<<y, x>> \in R)
  <2> HIDE DEF R
  <2> QED  BY <1>1, WFMin
<1>3. ASSUME NEW y \in S PROVE x <= y
  <2>1. <<y, x>> \notin R
    BY <1>2
  <2>2. <<y, x>> \in Nat \X Nat
    OBVIOUS
  <2> QED  BY <2>1, <2>2
<1> QED
  BY <1>3 DEF Min

(* The same for integers with a lower bound, as the priorities are.        *)
LEMMA MinBounded ==
  ASSUME NEW b \in Int, NEW S \in SUBSET Int, S # {}, \A x \in S : b <= x
  PROVE  Min(S) \in S /\ \A y \in S : Min(S) <= y
<1> DEFINE T == {x - b : x \in S}
<1>1. T \in SUBSET Nat /\ T # {}
  <2>1. \A x \in S : x - b \in Nat
    OBVIOUS
  <2>2. T # {}
    OBVIOUS
  <2> QED  BY <2>1, <2>2
<1>2. Min(T) \in T /\ \A y \in T : Min(T) <= y
  <2> HIDE DEF T
  <2> QED  BY <1>1, MinNat
<1>3. PICK x \in S : Min(T) = x - b
  BY <1>2
<1>4. \A y \in S : x <= y
  <2>1. \A y \in S : y - b \in T
    OBVIOUS
  <2>2. \A y \in S : x - b <= y - b
    <3> HIDE DEF T
    <3> QED  BY <2>1, <1>2, <1>3
  <2> QED  BY <2>2
<1> QED
  BY <1>4 DEF Min

(* The entries a scan selects among are finitely many.                     *)
LEMMA SlotsFinite ==
  ASSUME NEW S \in SUBSET Slots
  PROVE  IsFiniteSet(S) /\ Cardinality(S) \in 0..MaxEntries
<1>1. IsFiniteSet(Slots) /\ Cardinality(Slots) = MaxEntries
  BY FS_Interval, MaxEntriesAssumption DEF Slots
<1>2. IsFiniteSet(S) /\ Cardinality(S) <= MaxEntries
  BY <1>1, FS_Subset
<1>3. Cardinality(S) \in Nat
  BY <1>2, FS_CardinalityType
<1> QED
  BY <1>2, <1>3, MaxEntriesAssumption

(* poly_spool_get_next: -1 when nothing qualifies, else one that does.     *)
LEMMA FirstOfSlots ==
  ASSUME NEW S \in SUBSET Slots
  PROVE  /\ S = {} => FirstOf(S) = ENTRY_NONE
         /\ S # {} => /\ FirstOf(S) \in S
                      /\ FirstOf(S) # ENTRY_NONE
                      /\ \A i \in S : FirstOf(S) <= i
<1>1. ASSUME S # {}
      PROVE  FirstOf(S) = Min(S) /\ Min(S) \in S /\ \A i \in S : Min(S) <= i
  <2>1. S \in SUBSET Nat
    BY MaxEntriesAssumption DEF Slots
  <2> QED  BY <1>1, <2>1, MinNat DEF FirstOf
<1>2. ENTRY_NONE \notin S
  BY DEF ENTRY_NONE, Slots
<1> QED
  BY <1>1, <1>2 DEF FirstOf

-----------------------------------------------------------------------------
(* Well-formed spools                                                      *)

WellFormed(s) == s \in SpoolType /\ CountsMatch(s)

(* The type without the ranges of the counters.                            *)
SpoolShape ==
  [mState : [Slots -> EntryState], mTimer : [Slots -> Int],
   mAttempts : [Slots -> Nat], mTrash : [Slots -> BOOLEAN],
   mPacket : [Slots -> Packets \cup {NoPacket}],
   mCount : Int, mReadyCount : Int, mWaitingCount : Int,
   mTimeOut : Int, mMaxRetries : Nat, mFailedMessages : Nat]

(* The ranges of the counters come with the counting.                      *)
LEMMA CountsInRange ==
  ASSUME NEW s \in SpoolShape, CountsMatch(s)
  PROVE  WellFormed(s)
<1>1. InUse(s) \in SUBSET Slots
  BY DEF InUse
<1>2. \A st : InState(s, st) \in SUBSET Slots
  BY DEF InState
<1>3. /\ s.mCount \in 0..MaxEntries
      /\ s.mReadyCount \in 0..MaxEntries
      /\ s.mWaitingCount \in 0..MaxEntries
  BY <1>1, <1>2, SlotsFinite DEF CountsMatch
<1> QED
  BY <1>3 DEF WellFormed, SpoolType, SpoolShape

(* A well-formed spool has the shape and the type, and exact counters.     *)
LEMMA WellFormedShape ==
  ASSUME NEW s, WellFormed(s)
  PROVE  s \in SpoolShape /\ s \in SpoolType /\ CountsMatch(s)
<1>1. 0..MaxEntries \subseteq Int
  OBVIOUS
<1> QED
  BY <1>1 DEF WellFormed, SpoolType, SpoolShape

(* A record with the fields of a spool is one: the form in which updates   *)
(* of several fields are shown to keep the shape.                          *)
IsRecord(t) ==
  /\ DOMAIN t = {"mState", "mTimer", "mAttempts", "mTrash", "mPacket", "mCount",
                 "mReadyCount", "mWaitingCount", "mTimeOut", "mMaxRetries",
                 "mFailedMessages"}
  /\ t = [x \in DOMAIN t |-> t[x]]

FieldsTyped(t) ==
  /\ t.mState \in [Slots -> EntryState] /\ t.mTimer \in [Slots -> Int]
  /\ t.mAttempts \in [Slots -> Nat] /\ t.mTrash \in [Slots -> BOOLEAN]
  /\ t.mPacket \in [Slots -> Packets \cup {NoPacket}]
  /\ t.mCount \in Int /\ t.mReadyCount \in Int /\ t.mWaitingCount \in Int
  /\ t.mTimeOut \in Int /\ t.mMaxRetries \in Nat /\ t.mFailedMessages \in Nat

(* A record with the fields of a spool, each of its type, has the shape.   *)
LEMMA ShapeByFields ==
  ASSUME NEW t, IsRecord(t), FieldsTyped(t)
  PROVE  t \in SpoolShape
BY DEF IsRecord, FieldsTyped, SpoolShape

(* The operations on one entry, and an eviction, keep the shape.           *)
LEMMA EntryShape ==
  ASSUME NEW s \in SpoolShape, NEW i \in Slots
  PROVE  /\ \A p \in Packets : Filled(s, i, p) \in SpoolShape
         /\ SentAwaitingAck(s, i) \in SpoolShape
         /\ SentForGood(s, i) \in SpoolShape
         /\ Released(s, i) \in SpoolShape
<1>1. ASSUME NEW p \in Packets PROVE Filled(s, i, p) \in SpoolShape
  <2> DEFINE t == Filled(s, i, p)
  <2>1. IsRecord(t)
    BY DEF Filled, IsRecord, SpoolShape
  <2>2. FieldsTyped(t)
    BY DEF Filled, FieldsTyped, SpoolShape, EntryState
  <2> HIDE DEF t
  <2>3. t \in SpoolShape
    BY <2>1, <2>2, ShapeByFields
  <2> QED  BY <2>3 DEF t
<1>2. SentAwaitingAck(s, i) \in SpoolShape
  <2> DEFINE t == SentAwaitingAck(s, i)
  <2>1. IsRecord(t)
    BY DEF SentAwaitingAck, IsRecord, SpoolShape
  <2>2. FieldsTyped(t)
    BY DEF SentAwaitingAck, FieldsTyped, SpoolShape, EntryState
  <2> HIDE DEF t
  <2>3. t \in SpoolShape
    BY <2>1, <2>2, ShapeByFields
  <2> QED  BY <2>3 DEF t
<1>3. SentForGood(s, i) \in SpoolShape
  <2> DEFINE t == SentForGood(s, i)
  <2>1. IsRecord(t)
    BY DEF SentForGood, IsRecord, SpoolShape
  <2>2. FieldsTyped(t)
    BY DEF SentForGood, FieldsTyped, SpoolShape, EntryState
  <2> HIDE DEF t
  <2>3. t \in SpoolShape
    BY <2>1, <2>2, ShapeByFields
  <2> QED  BY <2>3 DEF t
<1>4. Released(s, i) \in SpoolShape
  <2> DEFINE t == Released(s, i)
  <2>1. 0 \in Slots
    BY MaxEntriesAssumption DEF Slots
  <2>2. IsRecord(t)
    BY DEF Released, IsRecord, SpoolShape
  <2>3. FieldsTyped(t)
    BY <2>1 DEF Released, TrashedByAck, FieldsTyped, SpoolShape, EntryState
  <2> HIDE DEF t
  <2>4. t \in SpoolShape
    BY <2>2, <2>3, ShapeByFields
  <2> QED  BY <2>4 DEF t
<1> QED
  BY <1>1, <1>2, <1>3, <1>4

(* An eviction leaves a spool of the right shape.                          *)
LEMMA EvictionShape ==
  ASSUME NEW s \in SpoolShape, NEW p
  PROVE  AfterNextFree(s, p) \in SpoolShape
<1> DEFINE t == AfterNextFree(s, p)
<1>1. CASE ~Evicts(s, p)
  BY <1>1 DEF AfterNextFree
<1>2. CASE Evicts(s, p)
  <2>1. IsRecord(t)
    BY <1>2 DEF AfterNextFree, IsRecord, SpoolShape
  <2>2. FieldsTyped(t)
    BY <1>2 DEF AfterNextFree, FieldsTyped, SpoolShape
  <2> HIDE DEF t
  <2>3. t \in SpoolShape
    BY <2>1, <2>2, ShapeByFields
  <2> QED  BY <2>3 DEF t
<1> QED
  BY <1>1, <1>2

(* Changing the state of one entry changes the numbers of used, READY and  *)
(* WAITING entries by what that entry was and what it becomes.             *)
LEMMA MoveEntry ==
  ASSUME NEW s, s.mState \in [Slots -> EntryState],
         NEW t, NEW i \in Slots, NEW st \in EntryState,
         t.mState = [s.mState EXCEPT ![i] = st]
  PROVE  /\ Cardinality(InUse(t)) =
              Cardinality(InUse(s)) - (IF s.mState[i] = "FREE" THEN 0 ELSE 1)
                                    + (IF st = "FREE" THEN 0 ELSE 1)
         /\ Cardinality(InState(t, "READY")) =
              Cardinality(InState(s, "READY")) - (IF s.mState[i] = "READY" THEN 1 ELSE 0)
                                               + (IF st = "READY" THEN 1 ELSE 0)
         /\ Cardinality(InState(t, "WAITING")) =
              Cardinality(InState(s, "WAITING")) - (IF s.mState[i] = "WAITING" THEN 1 ELSE 0)
                                                 + (IF st = "WAITING" THEN 1 ELSE 0)
<1>1. ASSUME NEW A \in SUBSET Slots, NEW B,
             B = A \ {i} \/ B = A \cup {i}
      PROVE  Cardinality(B) = Cardinality(A) - (IF i \in A THEN 1 ELSE 0)
                                             + (IF i \in B THEN 1 ELSE 0)
  <2>1. IsFiniteSet(A) /\ Cardinality(A) \in Nat
    BY SlotsFinite
  <2>2. CASE B = A \ {i}
    <3>1. Cardinality(A \ {i}) = IF i \in A THEN Cardinality(A) - 1 ELSE Cardinality(A)
      BY <2>1, FS_RemoveElement
    <3>2. i \notin B
      BY <2>2
    <3> QED  BY <2>1, <2>2, <3>1, <3>2
  <2>3. CASE B = A \cup {i}
    <3>1. Cardinality(A \cup {i}) = IF i \in A THEN Cardinality(A) ELSE Cardinality(A) + 1
      BY <2>1, FS_AddElement
    <3>2. i \in B
      BY <2>3
    <3> QED  BY <2>1, <2>3, <3>1, <3>2
  <2> QED  BY <1>1, <2>2, <2>3
<1>2. InUse(s) \in SUBSET Slots /\ (i \in InUse(s) <=> s.mState[i] # "FREE")
  BY DEF InUse
<1>3. /\ InUse(t) = InUse(s) \ {i} \/ InUse(t) = InUse(s) \cup {i}
      /\ i \in InUse(t) <=> st # "FREE"
  BY DEF InUse
<1>4. ASSUME NEW x
      PROVE  /\ InState(s, x) \in SUBSET Slots /\ (i \in InState(s, x) <=> s.mState[i] = x)
             /\ InState(t, x) = InState(s, x) \ {i} \/ InState(t, x) = InState(s, x) \cup {i}
             /\ i \in InState(t, x) <=> st = x
  BY DEF InState
<1>5. Cardinality(InUse(t)) =
        Cardinality(InUse(s)) - (IF s.mState[i] = "FREE" THEN 0 ELSE 1)
                              + (IF st = "FREE" THEN 0 ELSE 1)
  BY <1>1, <1>2, <1>3
<1>6. ASSUME NEW x
      PROVE  Cardinality(InState(t, x)) =
               Cardinality(InState(s, x)) - (IF s.mState[i] = x THEN 1 ELSE 0)
                                          + (IF st = x THEN 1 ELSE 0)
  BY <1>1, <1>4
<1> QED
  BY <1>5, <1>6

-----------------------------------------------------------------------------
(* poly_spool_init                                                         *)

(* poly_spool_init leaves a well-formed spool.                             *)
LEMMA InitialWellFormed ==
  ASSUME NEW retries \in Nat, NEW timeOut \in Int
  PROVE  WellFormed(InitialSpool(retries, timeOut))
<1> DEFINE s == InitialSpool(retries, timeOut)
<1>1. InUse(s) = {} /\ InState(s, "READY") = {} /\ InState(s, "WAITING") = {}
  BY DEF InitialSpool, InUse, InState
<1>2. CountsMatch(s)
  BY <1>1, FS_EmptySet DEF InitialSpool, CountsMatch
<1>3. s \in SpoolType
  BY MaxEntriesAssumption DEF InitialSpool, SpoolType, EntryState
<1> QED
  BY <1>2, <1>3 DEF WellFormed

-----------------------------------------------------------------------------
(* poly_spool_push                                                         *)

(* get_next_free: a FREE entry if there is one; otherwise an entry of      *)
(* lower priority than p, and of the lowest priority of all, or none.      *)
LEMMA NextFreeChoice ==
  ASSUME NEW s \in SpoolType, NEW p \in Packets
  PROVE  /\ NextFree(s, p) \in Slots \cup {ENTRY_NONE}
         /\ Evicts(s, p) => NextFree(s, p) \in Outranked(s, p)
         /\ Evicts(s, p) => \A j \in Slots :
              PriorityOf(s.mPacket[NextFree(s, p)]) <= PriorityOf(s.mPacket[j])
         /\ InState(s, "FREE") # {} => ~Evicts(s, p) /\ NextFree(s, p) \in InState(s, "FREE")
         /\ NextFree(s, p) # ENTRY_NONE /\ ~Evicts(s, p) =>
              NextFree(s, p) \in InState(s, "FREE")
         /\ ~Evicts(s, p) /\ InState(s, "FREE") = {} => Outranked(s, p) = {}
<1>1. /\ InState(s, "FREE") \in SUBSET Slots
      /\ Outranked(s, p) \in SUBSET Slots
  BY DEF InState, Outranked
<1>2. \A j \in Slots : PriorityOf(s.mPacket[j]) \in -128..127
  BY PacketsAssumption DEF PriorityOf, SpoolType
<1>3. ASSUME Outranked(s, p) # {}
      PROVE  /\ LowestPriorityIdx(s, p) \in Outranked(s, p)
             /\ LowestPriorityIdx(s, p) # ENTRY_NONE
             /\ \A j \in Slots : PriorityOf(s.mPacket[LowestPriorityIdx(s, p)])
                                   <= PriorityOf(s.mPacket[j])
  <2> DEFINE P == {PriorityOf(s.mPacket[i]) : i \in Outranked(s, p)}
             L == {i \in Outranked(s, p) : PriorityOf(s.mPacket[i]) = Min(P)}
  <2>1. P \in SUBSET Int /\ P # {} /\ \A x \in P : -128 <= x
    BY <1>1, <1>2, <1>3
  <2>2. Min(P) \in P /\ \A y \in P : Min(P) <= y
    <3> HIDE DEF P
    <3>1. -128 \in Int
      OBVIOUS
    <3> QED  BY <2>1, <3>1, MinBounded
  <2>3. L # {} /\ L \in SUBSET Slots
    BY <1>1, <2>2
  <2>4. FirstOf(L) \in L /\ FirstOf(L) # ENTRY_NONE
    <3> HIDE DEF L
    <3> QED  BY <2>3, FirstOfSlots
  <2>5. LowestPriorityIdx(s, p) = FirstOf(L)
    BY DEF LowestPriorityIdx
  <2>6. ASSUME NEW j \in Slots
        PROVE  Min(P) <= PriorityOf(s.mPacket[j])
    <3>1. CASE j \in Outranked(s, p)
      <4>1. PriorityOf(s.mPacket[j]) \in P
        BY <3>1
      <4> QED  BY <2>2, <4>1
    <3>2. CASE j \notin Outranked(s, p)
      <4>1. Priority[p] <= PriorityOf(s.mPacket[j])
        <5>1. ~(PriorityOf(s.mPacket[j]) < Priority[p])
          BY <3>2 DEF Outranked
        <5>2. PriorityOf(s.mPacket[j]) \in Int /\ Priority[p] \in Int
          BY <1>2, PacketsAssumption
        <5> QED  BY <5>1, <5>2
      <4>2. PICK k \in Outranked(s, p) : Min(P) = PriorityOf(s.mPacket[k])
        BY <2>2
      <4>3. Min(P) < Priority[p]
        BY <4>2 DEF Outranked
      <4>4. Min(P) \in Int /\ Priority[p] \in Int
        BY <2>1, <2>2, PacketsAssumption
      <4> QED  BY <1>2, <4>1, <4>3, <4>4
    <3> QED  BY <3>1, <3>2
  <2> QED  BY <2>4, <2>5, <2>6
<1>4. ASSUME Outranked(s, p) = {}
      PROVE  LowestPriorityIdx(s, p) = ENTRY_NONE
  BY <1>4 DEF LowestPriorityIdx, FirstOf
<1>5. InState(s, "FREE") # {} => FirstOf(InState(s, "FREE")) \in InState(s, "FREE")
  BY <1>1, FirstOfSlots
<1> QED
  BY <1>1, <1>3, <1>4, <1>5 DEF NextFree, Evicts

(* What push does: it changes nothing, or fills one entry, which was FREE  *)
(* (the first such) or is the one evicted.  An eviction is never wasted.   *)
LEMMA PushEffect ==
  ASSUME NEW s, WellFormed(s), NEW p \in Packets
  PROVE  LET i == NextFree(s, p)
             t == Pushed(s, p)
         IN
         /\ Evicts(s, p) => Stores(s, p)
         /\ ~Stores(s, p) => t = s
         /\ Stores(s, p) =>
              /\ i \in Slots
              /\ Evicts(s, p) => s.mState[i] # "FREE" /\ InState(s, "FREE") = {}
              /\ ~Evicts(s, p) => /\ s.mState[i] = "FREE"
                                  /\ \A j \in InState(s, "FREE") : i <= j
              /\ t \in SpoolShape
              /\ t.mState = [s.mState EXCEPT ![i] = "READY"]
              /\ t.mPacket = [s.mPacket EXCEPT ![i] = p]
              /\ t.mAttempts = [s.mAttempts EXCEPT ![i] = 0]
              /\ t.mTrash = s.mTrash /\ t.mMaxRetries = s.mMaxRetries
              /\ t.mCount = s.mCount - (IF s.mState[i] = "FREE" THEN 0 ELSE 1) + 1
              /\ t.mReadyCount = s.mReadyCount
                                  - (IF s.mState[i] = "READY" THEN 1 ELSE 0) + 1
              /\ t.mWaitingCount = s.mWaitingCount
                                    - (IF s.mState[i] = "WAITING" THEN 1 ELSE 0)
<1> DEFINE i == NextFree(s, p)
           t == Pushed(s, p)
<1>1. s \in SpoolShape /\ s \in SpoolType /\ CountsMatch(s)
  BY WellFormedShape
<1>2. /\ i \in Slots \cup {ENTRY_NONE}
      /\ Evicts(s, p) => i \in Slots /\ s.mState[i] # "FREE" /\ InState(s, "FREE") = {}
      /\ ~Evicts(s, p) /\ i # ENTRY_NONE =>
           i \in Slots /\ s.mState[i] = "FREE" /\ \A j \in InState(s, "FREE") : i <= j
  <2>1. Evicts(s, p) => InState(s, "FREE") = {} /\ i \in Outranked(s, p)
    BY <1>1, NextFreeChoice DEF Evicts
  <2>2. InState(s, "FREE") \in SUBSET Slots
    BY DEF InState
  <2>3. InState(s, "FREE") # {} =>
          i = FirstOf(InState(s, "FREE")) /\ \A j \in InState(s, "FREE") : i <= j
    BY <2>2, FirstOfSlots DEF NextFree
  <2> QED  BY <1>1, <2>1, <2>3, NextFreeChoice DEF InState, Outranked
<1>3. Evicts(s, p) => Stores(s, p)
  <2>1. Evicts(s, p) => AfterNextFree(s, p).mCount = s.mCount - 1
    BY <1>1 DEF AfterNextFree, SpoolType
  <2>2. s.mCount \in 0..MaxEntries
    BY <1>1 DEF SpoolType
  <2>3. Evicts(s, p) => ~Overflows(s, p)
    BY <2>1, <2>2, MaxEntriesAssumption DEF Overflows
  <2>4. Evicts(s, p) => i # ENTRY_NONE
    BY <1>2 DEF Slots, ENTRY_NONE
  <2> QED  BY <2>3, <2>4 DEF Stores
<1>4. ~Stores(s, p) => t = s
  BY <1>3 DEF Pushed, AfterNextFree
<1>5. ASSUME Stores(s, p)
      PROVE  /\ i \in Slots
             /\ Evicts(s, p) => s.mState[i] # "FREE" /\ InState(s, "FREE") = {}
             /\ ~Evicts(s, p) => /\ s.mState[i] = "FREE"
                                 /\ \A j \in InState(s, "FREE") : i <= j
  BY <1>2, <1>5 DEF Stores
<1>6. ASSUME Stores(s, p), NEW u, u = AfterNextFree(s, p)
      PROVE  /\ u \in SpoolShape /\ t = Filled(u, i, p) /\ t \in SpoolShape
             /\ u.mState = s.mState /\ u.mPacket = s.mPacket
             /\ u.mAttempts = s.mAttempts /\ u.mTrash = s.mTrash
             /\ u.mMaxRetries = s.mMaxRetries
             /\ u.mCount = s.mCount - (IF s.mState[i] = "FREE" THEN 0 ELSE 1)
             /\ u.mReadyCount = s.mReadyCount - (IF s.mState[i] = "READY" THEN 1 ELSE 0)
             /\ u.mWaitingCount = s.mWaitingCount
                                   - (IF s.mState[i] = "WAITING" THEN 1 ELSE 0)
  <2>1. u \in SpoolShape /\ t = Filled(u, i, p)
    BY <1>1, <1>6, EvictionShape DEF Pushed
  <2>2. t \in SpoolShape
    BY <1>5, <1>6, <2>1, EntryShape
  <2>3. CASE Evicts(s, p)
    BY SMTT(30), <1>1, <1>5, <1>6, <2>1, <2>2, <2>3 DEF AfterNextFree, SpoolShape
  <2>4. CASE ~Evicts(s, p)
    BY <1>1, <1>5, <1>6, <2>1, <2>2, <2>4 DEF AfterNextFree, SpoolShape
  <2> QED  BY <2>3, <2>4
<1>7. ASSUME Stores(s, p)
      PROVE  /\ t \in SpoolShape
             /\ t.mState = [s.mState EXCEPT ![i] = "READY"]
             /\ t.mPacket = [s.mPacket EXCEPT ![i] = p]
             /\ t.mAttempts = [s.mAttempts EXCEPT ![i] = 0]
             /\ t.mTrash = s.mTrash /\ t.mMaxRetries = s.mMaxRetries
             /\ t.mCount = s.mCount - (IF s.mState[i] = "FREE" THEN 0 ELSE 1) + 1
             /\ t.mReadyCount = s.mReadyCount
                                 - (IF s.mState[i] = "READY" THEN 1 ELSE 0) + 1
             /\ t.mWaitingCount = s.mWaitingCount
                                   - (IF s.mState[i] = "WAITING" THEN 1 ELSE 0)
  <2> DEFINE u == AfterNextFree(s, p)
  <2> HIDE DEF u
  <2>1. /\ u \in SpoolShape /\ t = Filled(u, i, p) /\ t \in SpoolShape
        /\ u.mState = s.mState /\ u.mPacket = s.mPacket
        /\ u.mAttempts = s.mAttempts /\ u.mTrash = s.mTrash
        /\ u.mMaxRetries = s.mMaxRetries
        /\ u.mCount = s.mCount - (IF s.mState[i] = "FREE" THEN 0 ELSE 1)
        /\ u.mReadyCount = s.mReadyCount - (IF s.mState[i] = "READY" THEN 1 ELSE 0)
        /\ u.mWaitingCount = s.mWaitingCount
                              - (IF s.mState[i] = "WAITING" THEN 1 ELSE 0)
    BY <1>6, <1>7 DEF u
  <2>2. /\ t.mState = [u.mState EXCEPT ![i] = "READY"]
        /\ t.mPacket = [u.mPacket EXCEPT ![i] = p]
        /\ t.mAttempts = [u.mAttempts EXCEPT ![i] = 0]
        /\ t.mTrash = u.mTrash /\ t.mMaxRetries = u.mMaxRetries
        /\ t.mCount = u.mCount + 1 /\ t.mReadyCount = u.mReadyCount + 1
        /\ t.mWaitingCount = u.mWaitingCount
    BY <2>1 DEF Filled, SpoolShape
  <2> QED  BY <2>1, <2>2
<1> QED
  BY <1>3, <1>4, <1>5, <1>7

(* push keeps the spool well-formed: what an eviction takes out of the     *)
(* counts is what the evicted entry contributed to them.                   *)
LEMMA PushWellFormed ==
  ASSUME NEW s, WellFormed(s), NEW p \in Packets
  PROVE  WellFormed(Pushed(s, p))
<1> DEFINE i == NextFree(s, p)
           t == Pushed(s, p)
<1>1. CASE ~Stores(s, p)
  BY <1>1, PushEffect
<1>2. CASE Stores(s, p)
  <2>1. /\ i \in Slots /\ t \in SpoolShape
        /\ t.mState = [s.mState EXCEPT ![i] = "READY"]
        /\ t.mCount = s.mCount - (IF s.mState[i] = "FREE" THEN 0 ELSE 1) + 1
        /\ t.mReadyCount = s.mReadyCount - (IF s.mState[i] = "READY" THEN 1 ELSE 0) + 1
        /\ t.mWaitingCount = s.mWaitingCount - (IF s.mState[i] = "WAITING" THEN 1 ELSE 0)
    BY ZenonT(40), <1>2, PushEffect
  <2>2. "READY" \in EntryState /\ s.mState \in [Slots -> EntryState]
    BY WellFormedShape DEF SpoolShape, EntryState
  <2> HIDE DEF i, t
  <2>3. /\ Cardinality(InUse(t)) =
             Cardinality(InUse(s)) - (IF s.mState[i] = "FREE" THEN 0 ELSE 1) + 1
        /\ Cardinality(InState(t, "READY")) =
             Cardinality(InState(s, "READY")) - (IF s.mState[i] = "READY" THEN 1 ELSE 0) + 1
        /\ Cardinality(InState(t, "WAITING")) =
             Cardinality(InState(s, "WAITING"))
               - (IF s.mState[i] = "WAITING" THEN 1 ELSE 0) + 0
    BY <2>1, <2>2, MoveEntry
  <2>4. CountsMatch(t)
    BY <2>1, <2>3, WellFormedShape DEF CountsMatch, SpoolShape
  <2>5. WellFormed(t)
    BY <2>1, <2>4, CountsInRange
  <2> QED  BY <2>5 DEF t
<1> QED
  BY <1>1, <1>2

-----------------------------------------------------------------------------
(* poly_spool_pop, poly_spool_ack, poly_service_set_retry                  *)

(* What pop does: nothing without a READY entry; otherwise the first one   *)
(* becomes WAITING, with one more attempt, or FREE and marked for cleaning.*)
LEMMA PopEffect ==
  ASSUME NEW s, WellFormed(s)
  PROVE  LET i == NextReady(s)
             t == Popped(s)
         IN
         /\ i = ENTRY_NONE => t = s
         /\ i # ENTRY_NONE =>
              /\ i \in Slots /\ s.mState[i] = "READY"
              /\ t \in SpoolShape
              /\ t.mPacket = s.mPacket /\ t.mMaxRetries = s.mMaxRetries
              /\ t.mReadyCount = s.mReadyCount - 1
              /\ AwaitsAck(s, s.mPacket[i]) =>
                   /\ t.mState = [s.mState EXCEPT ![i] = "WAITING"]
                   /\ t.mAttempts = [s.mAttempts EXCEPT ![i] = @ + 1]
                   /\ t.mTrash = s.mTrash
                   /\ t.mCount = s.mCount /\ t.mWaitingCount = s.mWaitingCount + 1
              /\ ~AwaitsAck(s, s.mPacket[i]) =>
                   /\ t.mState = [s.mState EXCEPT ![i] = "FREE"]
                   /\ t.mAttempts = s.mAttempts
                   /\ t.mTrash = [s.mTrash EXCEPT ![i] = TRUE]
                   /\ t.mCount = s.mCount - 1 /\ t.mWaitingCount = s.mWaitingCount
<1> DEFINE i == NextReady(s)
           t == Popped(s)
<1>1. i = ENTRY_NONE => t = s
  BY DEF Popped
<1>2. ASSUME i # ENTRY_NONE
      PROVE  i \in Slots /\ s.mState[i] = "READY"
  <2>1. InState(s, "READY") \in SUBSET Slots
    BY DEF InState
  <2>2. i \in InState(s, "READY")
    BY <1>2, <2>1, FirstOfSlots DEF NextReady
  <2> QED  BY <2>2 DEF InState
<1>3. ASSUME i # ENTRY_NONE, AwaitsAck(s, s.mPacket[i])
      PROVE  /\ t \in SpoolShape
             /\ t.mPacket = s.mPacket /\ t.mMaxRetries = s.mMaxRetries
             /\ t.mReadyCount = s.mReadyCount - 1
             /\ t.mState = [s.mState EXCEPT ![i] = "WAITING"]
             /\ t.mAttempts = [s.mAttempts EXCEPT ![i] = @ + 1]
             /\ t.mTrash = s.mTrash
             /\ t.mCount = s.mCount /\ t.mWaitingCount = s.mWaitingCount + 1
  <2>1. t = SentAwaitingAck(s, i)
    BY <1>3 DEF Popped
  <2>2. s \in SpoolShape /\ t \in SpoolShape
    BY <1>2, <1>3, <2>1, WellFormedShape, EntryShape
  <2> HIDE DEF i, t
  <2> QED  BY <2>1, <2>2 DEF SentAwaitingAck, SpoolShape
<1>4. ASSUME i # ENTRY_NONE, ~AwaitsAck(s, s.mPacket[i])
      PROVE  /\ t \in SpoolShape
             /\ t.mPacket = s.mPacket /\ t.mMaxRetries = s.mMaxRetries
             /\ t.mReadyCount = s.mReadyCount - 1
             /\ t.mState = [s.mState EXCEPT ![i] = "FREE"]
             /\ t.mAttempts = s.mAttempts
             /\ t.mTrash = [s.mTrash EXCEPT ![i] = TRUE]
             /\ t.mCount = s.mCount - 1 /\ t.mWaitingCount = s.mWaitingCount
  <2>1. t = SentForGood(s, i)
    BY <1>4 DEF Popped
  <2>2. s \in SpoolShape /\ t \in SpoolShape
    BY <1>2, <1>4, <2>1, WellFormedShape, EntryShape
  <2> HIDE DEF i, t
  <2> QED  BY <2>1, <2>2 DEF SentForGood, SpoolShape
<1> QED
  BY <1>1, <1>2, <1>3, <1>4

(* Whether the packet waits for an acknowledgement or is done with, pop    *)
(* moves its entry and its share of the counters together.                 *)
LEMMA PopWellFormed ==
  ASSUME NEW s, WellFormed(s)
  PROVE  WellFormed(Popped(s))
<1> DEFINE i == NextReady(s)
           t == Popped(s)
           st == IF AwaitsAck(s, s.mPacket[i]) THEN "WAITING" ELSE "FREE"
<1>1. CASE i = ENTRY_NONE
  BY <1>1, PopEffect
<1>2. CASE i # ENTRY_NONE
  <2>1. /\ i \in Slots /\ s.mState[i] = "READY" /\ t \in SpoolShape
        /\ t.mState = [s.mState EXCEPT ![i] = st]
        /\ t.mCount = s.mCount - 1 + (IF st = "FREE" THEN 0 ELSE 1)
        /\ t.mReadyCount = s.mReadyCount - 1
        /\ t.mWaitingCount = s.mWaitingCount + (IF st = "WAITING" THEN 1 ELSE 0)
    <3>1. CASE AwaitsAck(s, s.mPacket[i])
      <4>1. /\ i \in Slots /\ s.mState[i] = "READY" /\ t \in SpoolShape
            /\ t.mState = [s.mState EXCEPT ![i] = "WAITING"]
            /\ t.mCount = s.mCount /\ t.mReadyCount = s.mReadyCount - 1
            /\ t.mWaitingCount = s.mWaitingCount + 1
        BY <1>2, <3>1, PopEffect, Zenon
      <4>2. st = "WAITING" /\ s.mCount \in Int /\ s.mWaitingCount \in Int
        BY <3>1, WellFormedShape DEF SpoolShape
      <4> HIDE DEF i, t, st
      <4> QED  BY <4>1, <4>2
    <3>2. CASE ~AwaitsAck(s, s.mPacket[i])
      <4>1. /\ i \in Slots /\ s.mState[i] = "READY" /\ t \in SpoolShape
            /\ t.mState = [s.mState EXCEPT ![i] = "FREE"]
            /\ t.mCount = s.mCount - 1 /\ t.mReadyCount = s.mReadyCount - 1
            /\ t.mWaitingCount = s.mWaitingCount
        BY <1>2, <3>2, PopEffect, Zenon
      <4>2. st = "FREE" /\ s.mCount \in Int /\ s.mWaitingCount \in Int
        BY <3>2, WellFormedShape DEF SpoolShape
      <4> HIDE DEF i, t, st
      <4> QED  BY <4>1, <4>2
    <3> QED  BY <3>1, <3>2
  <2>2. st \in EntryState /\ st # "READY" /\ s.mState \in [Slots -> EntryState]
    BY WellFormedShape DEF SpoolShape, EntryState
  <2> HIDE DEF i, t, st
  <2>3. /\ Cardinality(InUse(t)) =
             Cardinality(InUse(s)) - 1 + (IF st = "FREE" THEN 0 ELSE 1)
        /\ Cardinality(InState(t, "READY")) = Cardinality(InState(s, "READY")) - 1 + 0
        /\ Cardinality(InState(t, "WAITING")) =
             Cardinality(InState(s, "WAITING")) - 0 + (IF st = "WAITING" THEN 1 ELSE 0)
    BY <2>1, <2>2, MoveEntry
  <2>4. CountsMatch(t)
    BY <2>1, <2>3, WellFormedShape DEF CountsMatch, SpoolShape
  <2>5. WellFormed(t)
    BY <2>1, <2>4, CountsInRange
  <2> QED  BY <2>5 DEF t
<1> QED
  BY <1>1, <1>2

(* What an acknowledgement that matches does: it releases one WAITING      *)
(* entry, and marks entry 0 for cleaning.                                  *)
LEMMA AckEffect ==
  ASSUME NEW s, WellFormed(s), NEW token, AckMatch(s, token) # ENTRY_NONE
  PROVE  LET i == AckMatch(s, token)
             t == Released(s, i)
         IN
         /\ i \in Slots /\ s.mState[i] = "WAITING"
         /\ t \in SpoolShape
         /\ t.mState = [s.mState EXCEPT ![i] = "FREE"]
         /\ t.mTrash = [s.mTrash EXCEPT ![0] = TRUE]
         /\ t.mPacket = s.mPacket /\ t.mMaxRetries = s.mMaxRetries
         /\ t.mAttempts = s.mAttempts
         /\ t.mCount = s.mCount - 1 /\ t.mReadyCount = s.mReadyCount
         /\ t.mWaitingCount = s.mWaitingCount - 1
<1> DEFINE i == AckMatch(s, token)
           t == Released(s, i)
<1>1. i \in Slots /\ s.mState[i] = "WAITING"
  <2> DEFINE M == {j \in InState(s, "WAITING") :
                     ~AckFlag[s.mPacket[j]] /\ Token[s.mPacket[j]] = token}
  <2>1. M \in SUBSET Slots
    BY DEF InState
  <2>2. i \in M
    <3> HIDE DEF M
    <3>1. i = FirstOf(M)
      BY DEF AckMatch, M
    <3> QED  BY <2>1, <3>1, FirstOfSlots
  <2> QED  BY <2>2 DEF InState
<1>2. s \in SpoolShape /\ t \in SpoolShape
  BY <1>1, WellFormedShape, EntryShape
<1> HIDE DEF i
<1> QED
  BY <1>1, <1>2 DEF Released, TrashedByAck, SpoolShape, i

(* poly_spool_ack keeps a spool well-formed, whatever token it is given.   *)
LEMMA AckWellFormed ==
  ASSUME NEW s, WellFormed(s), NEW token, NEW flag
  PROVE  WellFormed(Acked(s, token, flag))
<1> DEFINE i == AckMatch(s, token)
           t == Released(s, i)
<1>1. CASE ~AckMatches(s, token, flag)
  BY <1>1 DEF Acked
<1>2. CASE AckMatches(s, token, flag)
  <2>1. /\ i \in Slots /\ s.mState[i] = "WAITING" /\ t \in SpoolShape
        /\ t.mState = [s.mState EXCEPT ![i] = "FREE"]
        /\ t.mCount = s.mCount - 1 /\ t.mReadyCount = s.mReadyCount
        /\ t.mWaitingCount = s.mWaitingCount - 1
    <3>1. i # ENTRY_NONE
      BY <1>2 DEF AckMatches
    <3> QED  BY ZenonT(40), <3>1, AckEffect
  <2>2. "FREE" \in EntryState /\ s.mState \in [Slots -> EntryState]
    BY WellFormedShape DEF SpoolShape, EntryState
  <2> HIDE DEF i, t
  <2>3. /\ Cardinality(InUse(t)) = Cardinality(InUse(s)) - 1 + 0
        /\ Cardinality(InState(t, "READY")) = Cardinality(InState(s, "READY")) - 0 + 0
        /\ Cardinality(InState(t, "WAITING")) = Cardinality(InState(s, "WAITING")) - 1 + 0
    BY <2>1, <2>2, MoveEntry
  <2>4. CountsMatch(t)
    BY <2>1, <2>3, WellFormedShape DEF CountsMatch, SpoolShape
  <2>5. WellFormed(t)
    BY <2>1, <2>4, CountsInRange
  <2> QED  BY <1>2, <2>5 DEF t, i, Acked
<1> QED
  BY <1>1, <1>2

(* An unsigned number stored in an int is an integer, perhaps negative.    *)
LEMMA ToIntType ==
  ASSUME NEW u \in Nat
  PROVE  ToInt(u) \in Int
BY IntMaxAssumption DEF ToInt

(* poly_service_set_retry keeps a spool well-formed.                       *)
LEMMA ConfigureWellFormed ==
  ASSUME NEW s, WellFormed(s), NEW retries \in Nat, NEW timeoutMs \in Nat
  PROVE  WellFormed(Configured(s, retries, timeoutMs))
<1>1. Configured(s, retries, timeoutMs) \in SpoolType
  BY ToIntType DEF WellFormed, Configured, SpoolType
<1>2. CountsMatch(Configured(s, retries, timeoutMs))
  BY DEF WellFormed, Configured, SpoolType, CountsMatch, InUse, InState
<1> QED
  BY <1>1, <1>2 DEF WellFormed

-----------------------------------------------------------------------------
(* poly_spool_tick                                                         *)

(* Removing some elements of a finite set, and adding others, counts.      *)
LEMMA CountDifference ==
  ASSUME NEW A \in SUBSET Slots, NEW B \in SUBSET A
  PROVE  Cardinality(A \ B) = Cardinality(A) - Cardinality(B)
<1>1. IsFiniteSet(A) /\ A \cap B = B
  BY SlotsFinite
<1> QED
  BY <1>1, FS_Difference

(* The union of disjoint sets of entries counts as much as both.           *)
LEMMA CountUnion ==
  ASSUME NEW A \in SUBSET Slots, NEW B \in SUBSET Slots, A \cap B = {}
  PROVE  Cardinality(A \cup B) = Cardinality(A) + Cardinality(B)
<1>1. IsFiniteSet(A) /\ IsFiniteSet(B)
  BY SlotsFinite
<1>2. Cardinality(A \cup B) = Cardinality(A) + Cardinality(B) - Cardinality(A \cap B)
  BY <1>1, FS_Union
<1>3. Cardinality(A) \in Nat /\ Cardinality(B) \in Nat
  BY SlotsFinite
<1> QED
  BY <1>2, <1>3, FS_EmptySet

(* What a tick does: of the WAITING entries that expire, some become READY *)
(* again and the others FREE and marked for cleaning.                      *)
LEMMA TickEffect ==
  ASSUME NEW s, WellFormed(s), NEW ms \in Int
  PROVE  LET t == Ticked(s, ms)
             R == Retried(s, ms)
             G == GivenUp(s, ms)
         IN
         /\ Expired(s, ms) \in SUBSET InState(s, "WAITING")
         /\ R \in SUBSET Expired(s, ms) /\ G = Expired(s, ms) \ R
         /\ \A i \in R : s.mAttempts[i] < s.mMaxRetries
         /\ \A i \in G : ~(s.mAttempts[i] < s.mMaxRetries)
         /\ t.mState = [i \in Slots |-> IF i \in R THEN "READY"
                                       ELSE IF i \in G THEN "FREE" ELSE s.mState[i]]
         /\ t.mTrash = [i \in Slots |-> s.mTrash[i] \/ i \in G]
         /\ t.mPacket = s.mPacket /\ t.mAttempts = s.mAttempts
         /\ t.mMaxRetries = s.mMaxRetries
         /\ t.mReadyCount = s.mReadyCount + Cardinality(R)
         /\ t.mWaitingCount = s.mWaitingCount - Cardinality(Expired(s, ms))
         /\ t.mCount = s.mCount - Cardinality(G)
<1>1. s \in SpoolShape
  BY WellFormedShape
<1>2. /\ Expired(s, ms) \in SUBSET InState(s, "WAITING")
      /\ Retried(s, ms) \in SUBSET Expired(s, ms)
      /\ GivenUp(s, ms) = Expired(s, ms) \ Retried(s, ms)
      /\ \A i \in Retried(s, ms) : s.mAttempts[i] < s.mMaxRetries
      /\ \A i \in GivenUp(s, ms) : ~(s.mAttempts[i] < s.mMaxRetries)
  BY DEF Expired, Retried, GivenUp
<1> QED
  BY <1>1, <1>2 DEF Ticked, SpoolShape

(* One tick expires some WAITING entries; each of them is counted out of   *)
(* mWaitingCount and either into mReadyCount or out of mCount.             *)
LEMMA TickWellFormed ==
  ASSUME NEW s, WellFormed(s), NEW ms \in Int
  PROVE  WellFormed(Ticked(s, ms))
<1> DEFINE t == Ticked(s, ms)
           E == Expired(s, ms)
           R == Retried(s, ms)
           G == GivenUp(s, ms)
           W == InState(s, "WAITING")
<1>1. s \in SpoolShape /\ CountsMatch(s)
  BY WellFormedShape
<1>2. W \in SUBSET Slots /\ E \in SUBSET W /\ R \in SUBSET E /\ G = E \ R
  BY TickEffect DEF InState
<1>3. /\ Cardinality(R) \in Nat /\ Cardinality(E) \in Nat /\ Cardinality(G) \in Nat
      /\ Cardinality(G) = Cardinality(E) - Cardinality(R)
  <2>1. E \in SUBSET Slots /\ R \in SUBSET Slots /\ G \in SUBSET Slots
    BY <1>2
  <2> HIDE DEF E, R, G, W
  <2> QED  BY <1>2, <2>1, SlotsFinite, CountDifference
<1>4. /\ t.mState = [i \in Slots |-> IF i \in R THEN "READY"
                                    ELSE IF i \in G THEN "FREE" ELSE s.mState[i]]
      /\ t.mReadyCount = s.mReadyCount + Cardinality(R)
      /\ t.mWaitingCount = s.mWaitingCount - Cardinality(E)
      /\ t.mCount = s.mCount - Cardinality(G)
  BY <1>1 DEF Ticked, SpoolShape
<1>5. t \in SpoolShape
  <2>1. IsRecord(t)
    BY <1>1 DEF Ticked, IsRecord, SpoolShape
  <2>2. FieldsTyped(t)
    <3>1. t.mTimer \in [Slots -> Int]
      BY <1>1 DEF Ticked, SpoolShape
    <3>2. t.mState \in [Slots -> EntryState]
      BY <1>1, <1>4 DEF SpoolShape, EntryState
    <3>3. t.mTrash \in [Slots -> BOOLEAN]
      BY <1>1 DEF Ticked, SpoolShape
    <3>4. /\ t.mCount \in Int /\ t.mReadyCount \in Int /\ t.mWaitingCount \in Int
          /\ t.mFailedMessages = s.mFailedMessages + Cardinality(G)
          /\ t.mFailedMessages \in Nat
      BY <1>1, <1>3, <1>4 DEF Ticked, SpoolShape
    <3>5. /\ t.mAttempts = s.mAttempts /\ t.mPacket = s.mPacket
          /\ t.mTimeOut = s.mTimeOut /\ t.mMaxRetries = s.mMaxRetries
      BY <1>1 DEF Ticked, SpoolShape
    <3> HIDE DEF t
    <3> QED  BY <1>1, <3>1, <3>2, <3>3, <3>4, <3>5 DEF FieldsTyped, SpoolShape
  <2> HIDE DEF t
  <2> QED  BY <2>1, <2>2, ShapeByFields
<1>6. /\ InUse(t) = InUse(s) \ G
      /\ InState(t, "READY") = InState(s, "READY") \cup R
      /\ InState(t, "WAITING") = W \ E
  <2> HIDE DEF t, E, R, G
  <2> QED  BY <1>2, <1>4 DEF InUse, InState
<1>7. /\ InUse(s) \in SUBSET Slots /\ W \in SUBSET InUse(s)
      /\ InState(s, "READY") \in SUBSET Slots /\ InState(s, "READY") \cap W = {}
  BY DEF InUse, InState
<1>8. /\ Cardinality(InUse(t)) = Cardinality(InUse(s)) - Cardinality(G)
      /\ Cardinality(InState(t, "WAITING")) = Cardinality(W) - Cardinality(E)
      /\ Cardinality(InState(t, "READY")) = Cardinality(InState(s, "READY")) + Cardinality(R)
  <2>1. /\ G \in SUBSET InUse(s) /\ R \in SUBSET Slots
        /\ InState(s, "READY") \cap R = {}
    BY <1>2, <1>7
  <2> HIDE DEF t, E, R, G, W
  <2> QED  BY <1>2, <1>6, <1>7, <2>1, CountDifference, CountUnion
<1>9. CountsMatch(t)
  <2> HIDE DEF t, E, R, G
  <2> QED  BY <1>1, <1>4, <1>8 DEF CountsMatch
<1> QED
  BY <1>5, <1>9, CountsInRange

-----------------------------------------------------------------------------
(* What the operations do to the packets in a spool, as its users see     *)
(* it: all but push leave every packet in its entry or let it go.          *)

Keeps(s, t) == t.mPacket = s.mPacket /\ InUse(t) \subseteq InUse(s)

Waiting(s) == InState(s, "WAITING")

(* pop makes the entry it chose wait, or lets it go.                       *)
LEMMA PopKeeps ==
  ASSUME NEW s, WellFormed(s), NextReady(s) # ENTRY_NONE
  PROVE  /\ Keeps(s, Popped(s)) /\ NextReady(s) \in InUse(s)
         /\ Waiting(Popped(s)) \subseteq Waiting(s) \cup {NextReady(s)}
<1> DEFINE i == NextReady(s)
           st == IF AwaitsAck(s, s.mPacket[i]) THEN "WAITING" ELSE "FREE"
<1>1. /\ i \in Slots /\ s.mState[i] = "READY" /\ Popped(s).mPacket = s.mPacket
      /\ Popped(s).mState = [s.mState EXCEPT ![i] = st]
  BY PopEffect
<1>2. s.mState \in [Slots -> EntryState]
  BY WellFormedShape DEF SpoolShape
<1> HIDE DEF i, st
<1>3. i \in InUse(s)
  BY <1>1 DEF InUse
<1>4. \A j \in Slots \ {i} : Popped(s).mState[j] = s.mState[j]
  BY <1>1, <1>2
<1> QED
  BY <1>1, <1>3, <1>4 DEF Keeps, Waiting, InUse, InState, i

(* ack lets the entry it matches go.                                       *)
LEMMA AckKeeps ==
  ASSUME NEW s, WellFormed(s), NEW token, NEW flag
  PROVE  /\ Keeps(s, Acked(s, token, flag))
         /\ Waiting(Acked(s, token, flag)) \subseteq Waiting(s)
         /\ AckMatches(s, token, flag) =>
              /\ AckMatch(s, token) \in Waiting(s)
              /\ AckMatch(s, token) \notin InUse(Acked(s, token, flag))
              /\ ~AckFlag[s.mPacket[AckMatch(s, token)]]
<1>1. CASE ~AckMatches(s, token, flag)
  BY <1>1 DEF Acked, Keeps
<1>2. CASE AckMatches(s, token, flag)
  <2> DEFINE i == AckMatch(s, token)
             M == {j \in Waiting(s) : ~AckFlag[s.mPacket[j]] /\ Token[s.mPacket[j]] = token}
  <2>1. i # ENTRY_NONE /\ Acked(s, token, flag) = Released(s, i)
    BY <1>2 DEF AckMatches, Acked
  <2>2. /\ i \in Slots /\ s.mState[i] = "WAITING"
        /\ Released(s, i).mPacket = s.mPacket
        /\ Released(s, i).mState = [s.mState EXCEPT ![i] = "FREE"]
    <3> HIDE DEF M
    <3> QED  BY ZenonT(40), <2>1, AckEffect
  <2>3. i \in M
    BY <2>1, FirstOfSlots DEF AckMatch, Waiting, InState
  <2>4. s.mState \in [Slots -> EntryState]
    BY WellFormedShape DEF SpoolShape
  <2>5. i \in Waiting(s) /\ ~AckFlag[s.mPacket[i]]
    BY <2>3
  <2> HIDE DEF i, M
  <2>6. /\ Keeps(s, Released(s, i)) /\ Waiting(Released(s, i)) \subseteq Waiting(s)
        /\ i \notin InUse(Released(s, i))
    BY <2>2, <2>4 DEF Keeps, Waiting, InUse, InState
  <2> QED  BY <2>1, <2>5, <2>6 DEF i
<1> QED
  BY <1>1, <1>2

(* tick lets some waiting entries go and makes others ready.               *)
LEMMA TickKeeps ==
  ASSUME NEW s, WellFormed(s), NEW ms \in Int
  PROVE  Keeps(s, Ticked(s, ms)) /\ Waiting(Ticked(s, ms)) \subseteq Waiting(s)
<1> DEFINE R == Retried(s, ms)
           G == GivenUp(s, ms)
<1>1. /\ R \subseteq Waiting(s) /\ Ticked(s, ms).mPacket = s.mPacket
      /\ Ticked(s, ms).mState = [i \in Slots |-> IF i \in R THEN "READY"
                                                ELSE IF i \in G THEN "FREE" ELSE s.mState[i]]
  BY TickEffect DEF Waiting
<1> HIDE DEF R, G
<1> QED
  BY <1>1 DEF Keeps, Waiting, InUse, InState

(* push puts the packet into one entry, ready to be sent, or changes       *)
(* nothing.                                                                *)
LEMMA PushKeeps ==
  ASSUME NEW s, WellFormed(s), NEW p \in Packets
  PROVE  LET i == NextFree(s, p)
             t == Pushed(s, p)
         IN
         /\ ~Stores(s, p) => t = s
         /\ Stores(s, p) =>
              /\ i \in Slots /\ t.mPacket[i] = p
              /\ InUse(t) \subseteq InUse(s) \cup {i}
              /\ Waiting(t) \subseteq Waiting(s) \ {i}
              /\ \A j \in InUse(t) \ {i} : t.mPacket[j] = s.mPacket[j]
<1>1. CASE ~Stores(s, p)
  BY <1>1, PushEffect
<1>2. CASE Stores(s, p)
  <2> DEFINE i == NextFree(s, p)
             t == Pushed(s, p)
  <2>1. /\ i \in Slots /\ t.mState = [s.mState EXCEPT ![i] = "READY"]
        /\ t.mPacket = [s.mPacket EXCEPT ![i] = p]
    BY ZenonT(40), <1>2, PushEffect
  <2>2. /\ s.mState \in [Slots -> EntryState]
        /\ s.mPacket \in [Slots -> Packets \cup {NoPacket}]
    BY WellFormedShape DEF SpoolShape
  <2> HIDE DEF i, t
  <2>3. /\ i \in Slots /\ t.mPacket[i] = p /\ t.mState[i] = "READY"
        /\ \A j \in Slots \ {i} : t.mState[j] = s.mState[j] /\ t.mPacket[j] = s.mPacket[j]
    BY <2>1, <2>2
  <2>4. /\ i \in Slots /\ t.mPacket[i] = p
        /\ InUse(t) \subseteq InUse(s) \cup {i}
        /\ Waiting(t) \subseteq Waiting(s) \ {i}
        /\ \A j \in InUse(t) \ {i} : t.mPacket[j] = s.mPacket[j]
    BY <2>3 DEF InUse, Waiting, InState
  <2> QED  BY <1>2, <2>4 DEF i, t
<1> QED
  BY <1>1, <1>2

(* A spool is sound if it is well-formed and its used entries hold packets *)
(* of the application or of the service, as every operation keeps it.      *)
Sound(s) == WellFormed(s) /\ \A j \in InUse(s) : s.mPacket[j] \in Packets

(* Every operation of the spool keeps it sound.                            *)
LEMMA OperationsKeepSound ==
  ASSUME NEW s, Sound(s)
  PROVE  /\ \A p \in Packets : Sound(Pushed(s, p))
         /\ NextReady(s) # ENTRY_NONE => Sound(Popped(s))
         /\ \A token, flag : Sound(Acked(s, token, flag))
         /\ \A ms \in Int : Sound(Ticked(s, ms))
<1>1. WellFormed(s)
  BY DEF Sound
<1>2. \A t : Keeps(s, t) /\ WellFormed(t) => Sound(t)
  BY DEF Keeps, Sound
<1>3. ASSUME NEW p \in Packets PROVE Sound(Pushed(s, p))
  <2>1. CASE Stores(s, p)
    BY <1>1, <2>1, PushWellFormed, PushKeeps DEF Sound
  <2>2. CASE ~Stores(s, p)
    BY <1>1, <2>2, PushKeeps
  <2> QED  BY <2>1, <2>2
<1>4. NextReady(s) # ENTRY_NONE => Sound(Popped(s))
  BY <1>1, <1>2, PopWellFormed, PopKeeps
<1>5. \A token, flag : Sound(Acked(s, token, flag))
  BY <1>1, <1>2, AckWellFormed, AckKeeps
<1>6. \A ms \in Int : Sound(Ticked(s, ms))
  BY <1>1, <1>2, TickWellFormed, TickKeeps
<1> QED
  BY <1>3, <1>4, <1>5, <1>6
=============================================================================
