---------------------------- MODULE PolySpoolProofs ----------------------------
(***************************************************************************)
(* What holds of PolySpool for any number of entries, any packets with any *)
(* tokens, priorities and acknowledgement types, and any timeouts, retry   *)
(* limits and ticks.                                                       *)
(***************************************************************************)
EXTENDS PolySpool, PolySpoolOpsProofs

-----------------------------------------------------------------------------
(* Type correctness and the counters.  Neither is inductive alone: the     *)
(* ranges of the counters come from what they count, and the counting of   *)
(* push needs the range of mCount.                                         *)

SpoolInv == TypeOK /\ CountsExact

(* poly_spool_init establishes the types and exact counters.               *)
LEMMA SpoolInvInit == Init => SpoolInv
<1> SUFFICES ASSUME Init PROVE SpoolInv
  OBVIOUS
<1>1. PICK retries \in RetryLimits, timeOut \in TimeOuts :
        spool = InitialSpool(retries, ToInt(timeOut)) /\ requested = timeOut
  BY DEF Init
<1>2. WellFormed(spool)
  BY <1>1, InputsAssumption, ToIntType, InitialWellFormed
<1> QED
  BY <1>1, <1>2 DEF Init, SpoolInv, TypeOK, CountsExact, WellFormed, Results, Fate

(* The calls of poly_packet_clean in one push are a number.                *)
LEMMA CleanCallsType ==
  ASSUME NEW s, NEW p, NEW q
  PROVE  CleanCalls(s, p, q) \in Nat
BY DEF CleanCalls, CleansOnEvict

(* Every operation keeps the types and exact counters.                     *)
LEMMA SpoolInvStep == SpoolInv /\ [Next]_vars => SpoolInv'
<1> SUFFICES ASSUME SpoolInv, [Next]_vars PROVE SpoolInv'
  OBVIOUS
<1>1. WellFormed(spool) /\ TypeOK
  BY DEF SpoolInv, TypeOK, CountsExact, WellFormed
<1>2. SUFFICES WellFormed(spool') /\ TypeOK'
  BY DEF SpoolInv, TypeOK, CountsExact, WellFormed
<1>3. ASSUME NEW p \in Packets, Push(p)
      PROVE  WellFormed(spool') /\ TypeOK'
  <2>1. WellFormed(spool')
    BY <1>1, <1>3, PushWellFormed DEF Push
  <2>2. result' \in Results
    BY <1>3 DEF Push, PushStatus, Results
  <2>3. fate' \in [Packets -> Fate]
    BY <1>1, <1>3 DEF Push, TypeOK, Fate, Final
  <2>4. cleans' \in [Packets -> Nat]
    BY <1>1, <1>3, CleanCallsType DEF Push, TypeOK
  <2>5. wild' \in BOOLEAN
    BY <1>1, <1>3 DEF Push, TypeOK
  <2> QED  BY <1>1, <1>3, <2>1, <2>2, <2>3, <2>4, <2>5 DEF Push, TypeOK, WellFormed
<1>4. ASSUME Pop
      PROVE  WellFormed(spool') /\ TypeOK'
  <2>1. WellFormed(spool')
    BY <1>1, <1>4, PopWellFormed DEF Pop
  <2>2. result' \in Results /\ fate' \in [Packets -> Fate] /\ sent' \in [Packets -> Nat]
    BY <1>1, <1>4 DEF Pop, TypeOK, Results, Fate, Final
  <2> QED  BY <1>1, <1>4, <2>1, <2>2 DEF Pop, TypeOK, WellFormed
<1>5. ASSUME NEW token \in Tokens, NEW flag \in BOOLEAN, Ack(token, flag)
      PROVE  WellFormed(spool') /\ TypeOK'
  <2>1. WellFormed(spool')
    BY <1>1, <1>5, AckWellFormed DEF Ack
  <2>2. result' \in Results /\ fate' \in [Packets -> Fate]
    BY <1>1, <1>5 DEF Ack, TypeOK, Results, Fate, Final
  <2> QED  BY <1>1, <1>5, <2>1, <2>2 DEF Ack, TypeOK, WellFormed
<1>6. ASSUME NEW ms \in TickSizes, Tick(ms)
      PROVE  WellFormed(spool') /\ TypeOK'
  <2>1. ToInt(ms) \in Int
    BY InputsAssumption, ToIntType
  <2>2. WellFormed(spool')
    BY <1>1, <1>6, <2>1, TickWellFormed DEF Tick
  <2>3. result' \in Results /\ fate' \in [Packets -> Fate]
    BY <1>1, <1>6 DEF Tick, TypeOK, Results, Fate, Final
  <2> QED  BY <1>1, <1>6, <2>2, <2>3 DEF Tick, TypeOK, WellFormed
<1>7. ASSUME NEW retries \in RetryLimits, NEW timeoutMs \in TimeOuts,
             SetRetry(retries, timeoutMs)
      PROVE  WellFormed(spool') /\ TypeOK'
  <2>1. WellFormed(spool')
    BY <1>1, <1>7, InputsAssumption, ConfigureWellFormed DEF SetRetry
  <2> QED  BY <1>1, <1>7, <2>1 DEF SetRetry, TypeOK, WellFormed, Results
<1>8. ASSUME Deinit
      PROVE  WellFormed(spool') /\ TypeOK'
  <2> DEFINE N(q) == Cardinality({i \in CleanedByDeinit(spool) : spool.mPacket[i] = q})
  <2>1. \A q : {i \in CleanedByDeinit(spool) : spool.mPacket[i] = q} \in SUBSET Slots
    BY DEF CleanedByDeinit
  <2>2. \A q : N(q) \in Nat
    BY <2>1, SlotsFinite
  <2>3. cleans' \in [Packets -> Nat]
    <3>1. cleans' = [q \in Packets |-> cleans[q] + N(q)]
      BY <1>8 DEF Deinit
    <3> HIDE DEF N
    <3> QED  BY <1>1, <2>2, <3>1 DEF TypeOK
  <2> QED  BY <1>1, <1>8, <2>3 DEF Deinit, TypeOK, Results, WellFormed
<1>9. CASE UNCHANGED vars
  BY <1>1, <1>9 DEF vars, TypeOK, WellFormed
<1> QED
  BY <1>3, <1>4, <1>5, <1>6, <1>7, <1>8, <1>9 DEF Next

(* So they hold in every reachable state.                                  *)
LEMMA SpoolInvCorrect == Spec => []SpoolInv
BY SpoolInvInit, SpoolInvStep, PTL DEF Spec

(* Every reachable state has its type, the counters within the number of   *)
(* entries among it.                                                       *)
THEOREM TypeCorrect == Spec => []TypeOK
<1>1. SpoolInv => TypeOK
  BY DEF SpoolInv
<1> QED
  BY <1>1, SpoolInvCorrect, PTL

(* mCount, mReadyCount and mWaitingCount always agree with the entries.    *)
THEOREM CountersCorrect == Spec => []CountsExact
<1>1. SpoolInv => CountsExact
  BY DEF SpoolInv
<1> QED
  BY <1>1, SpoolInvCorrect, PTL

-----------------------------------------------------------------------------
(* The entries and the packets in them.  A packet is in an entry exactly   *)
(* while it is spooled, so a step that fills or releases an entry must     *)
(* change the fate of exactly the packets concerned.                       *)

(* A new spool holds nothing, and nothing is spooled.                      *)
LEMMA EntriesInit == Init => EntriesHoldSpooled
<1> SUFFICES ASSUME Init PROVE EntriesHoldSpooled
  OBVIOUS
<1>1. InUse(spool) = {}
  BY DEF Init, InitialSpool, InUse
<1>2. \A p \in Packets : fate[p] # "spooled"
  BY DEF Init
<1> QED
  BY <1>1, <1>2 DEF EntriesHoldSpooled

(* Releasing the entries of a set D and settling the packets in them.      *)
LEMMA ReleaseKeepsEntries ==
  ASSUME EntriesHoldSpooled, NEW D \in SUBSET InUse(spool),
         spool'.mPacket = spool.mPacket,
         InUse(spool') = InUse(spool) \ D,
         \A q \in Packets : IF \E i \in D : spool.mPacket[i] = q
                            THEN fate'[q] \in Final ELSE fate'[q] = fate[q]
  PROVE  EntriesHoldSpooled'
<1>1. ASSUME NEW i \in InUse(spool')
      PROVE  spool'.mPacket[i] \in Packets /\ fate'[spool'.mPacket[i]] = "spooled"
  <2>1. i \in InUse(spool) /\ i \notin D
    OBVIOUS
  <2>2. ~\E j \in D : spool.mPacket[j] = spool.mPacket[i]
    BY <2>1 DEF EntriesHoldSpooled
  <2> QED  BY <2>1, <2>2 DEF EntriesHoldSpooled
<1>2. \A i, j \in InUse(spool') : spool'.mPacket[i] = spool'.mPacket[j] => i = j
  BY DEF EntriesHoldSpooled
<1>3. ASSUME NEW p \in Packets, fate'[p] = "spooled"
      PROVE  \E i \in InUse(spool') : spool'.mPacket[i] = p
  <2>1. ~\E i \in D : spool.mPacket[i] = p
    BY <1>3 DEF Final
  <2>2. PICK i \in InUse(spool) : spool.mPacket[i] = p
    BY <1>3, <2>1 DEF EntriesHoldSpooled
  <2> QED  BY <2>1, <2>2
<1> QED
  BY <1>1, <1>2, <1>3 DEF EntriesHoldSpooled

(* A push fills a free entry, or takes over the entry of the packet it     *)
(* evicts.                                                                 *)
LEMMA PushKeepsEntries ==
  ASSUME SpoolInv, EntriesHoldSpooled, NEW p \in Packets, Push(p)
  PROVE  EntriesHoldSpooled'
<1> DEFINE i == NextFree(spool, p)
           t == Pushed(spool, p)
<1>1. WellFormed(spool) /\ spool' = t /\ fate[p] = "caller"
  BY DEF SpoolInv, TypeOK, CountsExact, WellFormed, Push
<1>2. CASE ~Stores(spool, p)
  <2>1. spool' = spool /\ ~Evicts(spool, p)
    BY <1>1, <1>2, PushEffect
  <2>2. fate' = fate
    BY <1>2, <2>1 DEF Push, SpoolInv, TypeOK
  <2> QED  BY <2>1, <2>2 DEF EntriesHoldSpooled
<1>3. CASE Stores(spool, p)
  <2>1. /\ i \in Slots
        /\ Evicts(spool, p) => i \in InUse(spool)
        /\ ~Evicts(spool, p) => i \notin InUse(spool)
        /\ t.mState = [spool.mState EXCEPT ![i] = "READY"]
        /\ t.mPacket = [spool.mPacket EXCEPT ![i] = p]
    BY ZenonT(40), <1>1, <1>3, PushEffect DEF InUse
  <2>2. spool \in SpoolShape
    BY <1>1, WellFormedShape
  <2>3. InUse(spool') = InUse(spool) \cup {i}
    BY <1>1, <2>1, <2>2 DEF InUse, SpoolShape
  <2>4. /\ spool'.mPacket[i] = p
        /\ \A j \in Slots \ {i} : spool'.mPacket[j] = spool.mPacket[j]
    BY <1>1, <2>1, <2>2 DEF SpoolShape
  <2>5. \A q \in Packets : fate'[q] =
           IF q = p THEN "spooled"
           ELSE IF Evicts(spool, p) /\ q = spool.mPacket[i] THEN "evicted" ELSE fate[q]
    BY <1>3 DEF Push
  <2>6. InUse(spool) \in SUBSET Slots
    BY DEF InUse
  <2> HIDE DEF i, t
  <2>7. ASSUME NEW j \in InUse(spool), j # i
        PROVE  /\ spool'.mPacket[j] = spool.mPacket[j] /\ spool.mPacket[j] \in Packets
               /\ spool.mPacket[j] # p /\ fate'[spool.mPacket[j]] = "spooled"
    <3>1. /\ spool'.mPacket[j] = spool.mPacket[j] /\ spool.mPacket[j] \in Packets
          /\ fate[spool.mPacket[j]] = "spooled"
      BY <2>4, <2>6, <2>7 DEF EntriesHoldSpooled
    <3>2. ~(Evicts(spool, p) /\ spool.mPacket[j] = spool.mPacket[i])
      BY <2>1, <2>7 DEF EntriesHoldSpooled
    <3>3. spool.mPacket[j] # p
      BY <1>1, <3>1
    <3> QED  BY <2>5, <3>1, <3>2, <3>3
  <2>8. ASSUME NEW j \in InUse(spool')
        PROVE  spool'.mPacket[j] \in Packets /\ fate'[spool'.mPacket[j]] = "spooled"
    <3>1. CASE j = i
      BY <2>4, <2>5, <3>1
    <3>2. CASE j # i
      BY <2>3, <2>7, <3>2
    <3> QED  BY <3>1, <3>2
  <2>9. ASSUME NEW j \in InUse(spool'), NEW k \in InUse(spool'),
               spool'.mPacket[j] = spool'.mPacket[k]
        PROVE  j = k
    <3>1. CASE j = i \/ k = i
      BY <2>3, <2>4, <2>7, <2>9, <3>1
    <3>2. CASE j # i /\ k # i
      BY <2>3, <2>7, <2>9, <3>2 DEF EntriesHoldSpooled
    <3> QED  BY <3>1, <3>2
  <2>10. ASSUME NEW q \in Packets, fate'[q] = "spooled"
         PROVE  \E j \in InUse(spool') : spool'.mPacket[j] = q
    <3>1. CASE q = p
      BY <2>3, <2>4, <3>1
    <3>2. CASE q # p
      <4>1. fate[q] = "spooled" /\ ~(Evicts(spool, p) /\ q = spool.mPacket[i])
        BY <2>5, <2>10, <3>2
      <4>2. PICK j \in InUse(spool) : spool.mPacket[j] = q
        BY <4>1 DEF EntriesHoldSpooled
      <4>3. j # i
        BY <2>1, <4>1, <4>2
      <4> QED  BY <2>3, <2>7, <4>2, <4>3
    <3> QED  BY <3>1, <3>2
  <2> QED  BY <2>8, <2>9, <2>10 DEF EntriesHoldSpooled
<1> QED
  BY <1>2, <1>3

(* pop settles the packet of the entry it frees, if it frees one.          *)
LEMMA PopKeepsEntries ==
  ASSUME SpoolInv, EntriesHoldSpooled, Pop
  PROVE  EntriesHoldSpooled'
<1> DEFINE i == NextReady(spool)
           D == IF i = ENTRY_NONE \/ AwaitsAck(spool, spool.mPacket[i]) THEN {} ELSE {i}
<1>1. /\ WellFormed(spool) /\ spool' = Popped(spool) /\ spool \in SpoolShape
      /\ fate \in [Packets -> Fate]
  BY WellFormedShape DEF SpoolInv, TypeOK, CountsExact, WellFormed, Pop
<1>2. D \in SUBSET InUse(spool)
  <2>1. i # ENTRY_NONE => i \in Slots /\ spool.mState[i] = "READY"
    BY <1>1, PopEffect
  <2> HIDE DEF i
  <2> QED  BY <2>1 DEF InUse
<1>3. spool'.mPacket = spool.mPacket /\ InUse(spool') = InUse(spool) \ D
  <2>1. CASE i = ENTRY_NONE
    BY <1>1, <2>1, PopEffect
  <2>2. CASE i # ENTRY_NONE /\ AwaitsAck(spool, spool.mPacket[i])
    <3>1. /\ i \in Slots /\ spool.mState[i] = "READY"
          /\ spool'.mPacket = spool.mPacket
          /\ spool'.mState = [spool.mState EXCEPT ![i] = "WAITING"]
      BY <1>1, <2>2, PopEffect
    <3>2. spool.mState \in [Slots -> EntryState] /\ D = {}
      BY <1>1, <2>2 DEF SpoolShape
    <3> HIDE DEF i, D
    <3> QED  BY <3>1, <3>2 DEF InUse
  <2>3. CASE i # ENTRY_NONE /\ ~AwaitsAck(spool, spool.mPacket[i])
    <3>1. /\ i \in Slots /\ spool.mState[i] = "READY"
          /\ spool'.mPacket = spool.mPacket
          /\ spool'.mState = [spool.mState EXCEPT ![i] = "FREE"]
      BY <1>1, <2>3, PopEffect
    <3>2. spool.mState \in [Slots -> EntryState] /\ D = {i}
      BY <1>1, <2>3 DEF SpoolShape
    <3> HIDE DEF i, D
    <3> QED  BY <3>1, <3>2 DEF InUse
  <2> QED  BY <2>1, <2>2, <2>3
<1>4. \A q \in Packets : IF \E j \in D : spool.mPacket[j] = q
                         THEN fate'[q] \in Final ELSE fate'[q] = fate[q]
  BY <1>1 DEF Pop, Final
<1> HIDE DEF D
<1> QED
  BY <1>2, <1>3, <1>4, ReleaseKeepsEntries

(* An acknowledgement settles the packet of the WAITING entry it frees,    *)
(* although the trash mark goes to another entry.                          *)
LEMMA AckKeepsEntries ==
  ASSUME SpoolInv, EntriesHoldSpooled, NEW token, NEW flag, Ack(token, flag)
  PROVE  EntriesHoldSpooled'
<1> DEFINE i == AckMatch(spool, token)
           D == IF AckMatches(spool, token, flag) THEN {i} ELSE {}
<1>1. /\ WellFormed(spool) /\ spool' = Acked(spool, token, flag)
      /\ spool \in SpoolShape /\ fate \in [Packets -> Fate]
  BY WellFormedShape DEF SpoolInv, TypeOK, CountsExact, WellFormed, Ack
<1>2. CASE ~AckMatches(spool, token, flag)
  <2>1. spool' = spool /\ fate' = fate
    BY <1>1, <1>2 DEF Ack, Acked
  <2> QED  BY <2>1 DEF EntriesHoldSpooled
<1>3. CASE AckMatches(spool, token, flag)
  <2>1. /\ i \in Slots /\ spool.mState[i] = "WAITING"
        /\ spool'.mState = [spool.mState EXCEPT ![i] = "FREE"]
        /\ spool'.mPacket = spool.mPacket
    <3>1. i # ENTRY_NONE /\ spool' = Released(spool, i)
      BY <1>1, <1>3 DEF AckMatches, Acked
    <3>2. /\ i \in Slots /\ spool.mState[i] = "WAITING"
          /\ Released(spool, i).mState = [spool.mState EXCEPT ![i] = "FREE"]
          /\ Released(spool, i).mPacket = spool.mPacket
      BY ZenonT(40), <1>1, <3>1, AckEffect
    <3> QED  BY <3>1, <3>2
  <2>2. spool.mState \in [Slots -> EntryState] /\ D = {i}
    BY <1>1, <1>3 DEF SpoolShape
  <2>3. \A q \in Packets : IF \E j \in {i} : spool.mPacket[j] = q
                           THEN fate'[q] \in Final ELSE fate'[q] = fate[q]
    BY <1>1, <1>3 DEF Ack, Final
  <2> HIDE DEF i, D
  <2>4. {i} \in SUBSET InUse(spool) /\ InUse(spool') = InUse(spool) \ {i}
    BY <2>1, <2>2 DEF InUse
  <2> QED  BY <2>1, <2>3, <2>4, ReleaseKeepsEntries
<1> QED
  BY <1>2, <1>3

(* A tick settles exactly the packets it gives up; those it retries stay.  *)
LEMMA TickKeepsEntries ==
  ASSUME SpoolInv, EntriesHoldSpooled, NEW ms \in TickSizes, Tick(ms)
  PROVE  EntriesHoldSpooled'
<1> DEFINE u == ToInt(ms)
           R == Retried(spool, u)
           D == GivenUp(spool, u)
<1>1. /\ WellFormed(spool) /\ spool' = Ticked(spool, u) /\ u \in Int
      /\ fate \in [Packets -> Fate]
  BY InputsAssumption, ToIntType DEF SpoolInv, TypeOK, CountsExact, WellFormed, Tick
<1>2. /\ R \in SUBSET InState(spool, "WAITING") /\ D \in SUBSET InState(spool, "WAITING")
      /\ R \cap D = {}
      /\ spool'.mState = [i \in Slots |-> IF i \in R THEN "READY"
                                         ELSE IF i \in D THEN "FREE" ELSE spool.mState[i]]
      /\ spool'.mPacket = spool.mPacket
  <2> HIDE DEF u
  <2>1. /\ Expired(spool, u) \in SUBSET InState(spool, "WAITING")
        /\ R \in SUBSET Expired(spool, u) /\ D = Expired(spool, u) \ R
        /\ Ticked(spool, u).mState =
             [i \in Slots |-> IF i \in R THEN "READY"
                              ELSE IF i \in D THEN "FREE" ELSE spool.mState[i]]
        /\ Ticked(spool, u).mPacket = spool.mPacket
    BY <1>1, TickEffect
  <2> QED  BY <1>1, <2>1
<1>3. \A q \in Packets : IF \E j \in D : spool.mPacket[j] = q
                         THEN fate'[q] \in Final ELSE fate'[q] = fate[q]
  BY <1>1 DEF Tick, Final
<1> HIDE DEF D, R
<1>4. D \in SUBSET InUse(spool) /\ InUse(spool') = InUse(spool) \ D
  BY <1>2 DEF InUse, InState
<1> QED
  BY <1>2, <1>3, <1>4, ReleaseKeepsEntries

(* Every operation keeps entries and spooled packets in agreement.         *)
LEMMA EntriesStep == SpoolInv /\ EntriesHoldSpooled /\ [Next]_vars => EntriesHoldSpooled'
<1> SUFFICES ASSUME SpoolInv, EntriesHoldSpooled, [Next]_vars
             PROVE  EntriesHoldSpooled'
  OBVIOUS
<1>1. ASSUME NEW p \in Packets, Push(p) PROVE EntriesHoldSpooled'
  BY <1>1, PushKeepsEntries
<1>2. ASSUME Pop PROVE EntriesHoldSpooled'
  BY <1>2, PopKeepsEntries
<1>3. ASSUME NEW token \in Tokens, NEW flag \in BOOLEAN, Ack(token, flag)
      PROVE  EntriesHoldSpooled'
  BY <1>3, AckKeepsEntries
<1>4. ASSUME NEW ms \in TickSizes, Tick(ms) PROVE EntriesHoldSpooled'
  BY <1>4, TickKeepsEntries
<1>5. ASSUME NEW retries \in RetryLimits, NEW timeoutMs \in TimeOuts,
             SetRetry(retries, timeoutMs)
      PROVE  EntriesHoldSpooled'
  <2>1. /\ spool'.mState = spool.mState /\ spool'.mPacket = spool.mPacket
        /\ fate' = fate
    BY <1>5 DEF SetRetry, Configured, SpoolInv, TypeOK, SpoolType
  <2> QED  BY <2>1 DEF EntriesHoldSpooled, InUse
<1>6. ASSUME Deinit \/ UNCHANGED vars PROVE EntriesHoldSpooled'
  <2>1. spool' = spool /\ fate' = fate
    BY <1>6 DEF Deinit, vars
  <2> QED  BY <2>1 DEF EntriesHoldSpooled
<1> QED
  BY <1>1, <1>2, <1>3, <1>4, <1>5, <1>6 DEF Next

(* No accepted packet is ever lost from the spool, held twice, or replaced *)
(* by one that was already cleaned.                                        *)
THEOREM EntriesCorrect == Spec => []EntriesHoldSpooled
BY EntriesInit, EntriesStep, SpoolInvCorrect, PTL DEF Spec

-----------------------------------------------------------------------------
(* The trash mark.  poly_spool_ack puts it on entry 0 whichever entry it   *)
(* releases; that entry 0 held a packet by then follows from the order in  *)
(* which entries are filled, which is the strengthening.                   *)

FirstFilled ==
  (\E i \in Slots : spool.mPacket[i] \in Packets) => spool.mPacket[0] \in Packets

TrashInv == TrashHoldsPacket /\ FirstFilled

(* A new spool has no trash marks and no packets.                          *)
LEMMA TrashInit == Init => TrashInv
<1> SUFFICES ASSUME Init PROVE TrashInv
  OBVIOUS
<1>1. \A i \in Slots : spool.mTrash[i] = FALSE /\ spool.mPacket[i] = NoPacket
  BY DEF Init, InitialSpool
<1>2. wild = FALSE
  BY DEF Init
<1> QED
  BY <1>1, <1>2, PacketsAssumption DEF TrashInv, TrashHoldsPacket, FirstFilled

(* Marking entries that hold packets, with no packet moved.                *)
LEMMA MarkingKeepsTrashInv ==
  ASSUME TrashInv, NEW D \in SUBSET Slots, \A i \in D : spool.mPacket[i] \in Packets,
         spool'.mPacket = spool.mPacket, wild' = wild,
         \A i \in Slots : spool'.mTrash[i] => spool.mTrash[i] \/ i \in D
  PROVE  TrashInv'
BY DEF TrashInv, TrashHoldsPacket, FirstFilled

(* push fills entry 0 before any other, and cleans only an entry that held *)
(* a packet: one it evicts, or one that carries the mark.                  *)
LEMMA PushKeepsTrashInv ==
  ASSUME SpoolInv, EntriesHoldSpooled, TrashInv, NEW p \in Packets, Push(p)
  PROVE  TrashInv'
<1> DEFINE i == NextFree(spool, p)
           t == Pushed(spool, p)
<1>1. WellFormed(spool) /\ spool' = t /\ spool \in SpoolShape
  BY WellFormedShape DEF SpoolInv, TypeOK, CountsExact, WellFormed, Push
<1>2. CASE ~Stores(spool, p)
  <2>1. spool' = spool /\ ~Evicts(spool, p)
    BY <1>1, <1>2, PushEffect
  <2>2. wild' = wild
    BY <1>2, <2>1 DEF Push, SpoolInv, TypeOK, CleanCalls, CleansOnEvict, CleansTrash
  <2> QED  BY <2>1, <2>2 DEF TrashInv, TrashHoldsPacket, FirstFilled
<1>3. CASE Stores(spool, p)
  <2>1. /\ i \in Slots
        /\ Evicts(spool, p) => spool.mState[i] # "FREE" /\ InState(spool, "FREE") = {}
        /\ ~Evicts(spool, p) => \A j \in InState(spool, "FREE") : i <= j
        /\ t.mPacket = [spool.mPacket EXCEPT ![i] = p] /\ t.mTrash = spool.mTrash
    BY <1>1, <1>3, PushEffect
  <2>2. Evicts(spool, p) => spool.mPacket[i] \in Packets
    BY <2>1 DEF EntriesHoldSpooled, InUse
  <2>3. spool.mTrash[i] => spool.mPacket[i] \in Packets
    BY <2>1 DEF TrashInv, TrashHoldsPacket
  <2>4. CleanCalls(spool, p, NoPacket) = 0
    BY <2>2, <2>3, PacketsAssumption DEF CleanCalls, CleansOnEvict, CleansTrash
  <2>5. ~wild'
    <3>1. ~(CleanCalls(spool, p, NoPacket) > 0)
      BY <2>4
    <3>2. wild' = (wild \/ CleanCalls(spool, p, NoPacket) > 0)
      BY DEF Push
    <3>3. ~wild
      BY DEF TrashInv, TrashHoldsPacket
    <3> QED  BY <3>1, <3>2, <3>3, Zenon
  <2>6. i = 0 \/ 0 \notin InState(spool, "FREE")
    BY <2>1, MaxEntriesAssumption DEF Slots
  <2>7. 0 \in Slots /\ (0 \in InState(spool, "FREE") \/ 0 \in InUse(spool))
    BY MaxEntriesAssumption DEF Slots, InState, InUse
  <2>8. i = 0 \/ spool.mPacket[0] \in Packets
    BY <2>6, <2>7 DEF EntriesHoldSpooled
  <2>9. /\ spool'.mTrash = spool.mTrash
        /\ spool'.mPacket = [spool.mPacket EXCEPT ![i] = p]
        /\ spool.mPacket \in [Slots -> Packets \cup {NoPacket}]
    BY <1>1, <2>1 DEF SpoolShape
  <2> HIDE DEF i, t
  <2> QED  BY <2>1, <2>5, <2>7, <2>8, <2>9 DEF TrashInv, TrashHoldsPacket, FirstFilled
<1> QED
  BY <1>2, <1>3

(* pop marks the entry of the packet it sends for good.                    *)
LEMMA PopKeepsTrashInv ==
  ASSUME SpoolInv, EntriesHoldSpooled, TrashInv, Pop
  PROVE  TrashInv'
<1> DEFINE i == NextReady(spool)
<1>1. /\ WellFormed(spool) /\ spool' = Popped(spool) /\ spool \in SpoolShape
      /\ wild' = wild
  BY WellFormedShape DEF SpoolInv, TypeOK, CountsExact, WellFormed, Pop
<1>2. CASE i = ENTRY_NONE
  <2>1. spool' = spool
    BY <1>1, <1>2, PopEffect
  <2> QED  BY <1>1, <2>1 DEF TrashInv, TrashHoldsPacket, FirstFilled
<1>3. CASE i # ENTRY_NONE
  <2>1. /\ i \in Slots /\ spool.mState[i] = "READY"
        /\ spool'.mPacket = spool.mPacket
        /\ spool'.mTrash = spool.mTrash \/ spool'.mTrash = [spool.mTrash EXCEPT ![i] = TRUE]
    BY <1>1, <1>3, PopEffect
  <2>2. spool.mTrash \in [Slots -> BOOLEAN]
    BY <1>1 DEF SpoolShape
  <2>3. spool.mPacket[i] \in Packets
    BY <2>1 DEF EntriesHoldSpooled, InUse
  <2> HIDE DEF i
  <2>4. \A j \in Slots : spool'.mTrash[j] => spool.mTrash[j] \/ j \in {i}
    BY <2>1, <2>2
  <2>5. {i} \in SUBSET Slots /\ \A j \in {i} : spool.mPacket[j] \in Packets
    BY <2>1, <2>3
  <2> QED  BY <1>1, <2>1, <2>4, <2>5, MarkingKeepsTrashInv
<1> QED
  BY <1>2, <1>3

(* ack marks entry 0, which held a packet since another entry does.        *)
LEMMA AckKeepsTrashInv ==
  ASSUME SpoolInv, EntriesHoldSpooled, TrashInv, NEW token, NEW flag, Ack(token, flag)
  PROVE  TrashInv'
<1> DEFINE i == AckMatch(spool, token)
<1>1. /\ WellFormed(spool) /\ spool' = Acked(spool, token, flag)
      /\ spool \in SpoolShape /\ wild' = wild
  BY WellFormedShape DEF SpoolInv, TypeOK, CountsExact, WellFormed, Ack
<1>2. CASE ~AckMatches(spool, token, flag)
  <2>1. spool' = spool
    BY <1>1, <1>2 DEF Acked
  <2> QED  BY <1>1, <2>1 DEF TrashInv, TrashHoldsPacket, FirstFilled
<1>3. CASE AckMatches(spool, token, flag)
  <2>1. i # ENTRY_NONE /\ spool' = Released(spool, i)
    BY <1>1, <1>3 DEF AckMatches, Acked
  <2>2. /\ i \in Slots /\ spool.mState[i] = "WAITING"
        /\ Released(spool, i).mTrash = [spool.mTrash EXCEPT ![0] = TRUE]
        /\ Released(spool, i).mPacket = spool.mPacket
    BY <1>1, <2>1, AckEffect
  <2>3. spool.mPacket[i] \in Packets
    BY <2>2 DEF EntriesHoldSpooled, InUse
  <2>4. 0 \in Slots /\ spool.mPacket[0] \in Packets
    BY <2>2, <2>3, MaxEntriesAssumption DEF TrashInv, FirstFilled, Slots
  <2>5. spool.mTrash \in [Slots -> BOOLEAN]
    BY <1>1 DEF SpoolShape
  <2> HIDE DEF i
  <2>6. \A j \in Slots : spool'.mTrash[j] => spool.mTrash[j] \/ j \in {0}
    BY <2>1, <2>2, <2>5
  <2>7. {0} \in SUBSET Slots /\ \A j \in {0} : spool.mPacket[j] \in Packets
    BY <2>4
  <2>8. spool'.mPacket = spool.mPacket
    BY <2>1, <2>2
  <2> QED  BY <1>1, <2>6, <2>7, <2>8, MarkingKeepsTrashInv
<1> QED
  BY <1>2, <1>3

(* A tick marks the entries of the packets it gives up.                    *)
LEMMA TickKeepsTrashInv ==
  ASSUME SpoolInv, EntriesHoldSpooled, TrashInv, NEW ms \in TickSizes, Tick(ms)
  PROVE  TrashInv'
<1> DEFINE u == ToInt(ms)
           D == GivenUp(spool, u)
<1>1. /\ WellFormed(spool) /\ spool' = Ticked(spool, u) /\ u \in Int /\ wild' = wild
  BY InputsAssumption, ToIntType DEF SpoolInv, TypeOK, CountsExact, WellFormed, Tick
<1>2. /\ D \in SUBSET InState(spool, "WAITING")
      /\ spool'.mTrash = [i \in Slots |-> spool.mTrash[i] \/ i \in D]
      /\ spool'.mPacket = spool.mPacket
  <2> HIDE DEF u
  <2>1. /\ Expired(spool, u) \in SUBSET InState(spool, "WAITING")
        /\ D = Expired(spool, u) \ Retried(spool, u)
        /\ Ticked(spool, u).mTrash = [i \in Slots |-> spool.mTrash[i] \/ i \in D]
        /\ Ticked(spool, u).mPacket = spool.mPacket
    BY <1>1, TickEffect
  <2> QED  BY <1>1, <2>1
<1> HIDE DEF D
<1>3. D \in SUBSET Slots /\ \A i \in D : spool.mPacket[i] \in Packets
  BY <1>2 DEF EntriesHoldSpooled, InUse, InState
<1>4. \A i \in Slots : spool'.mTrash[i] => spool.mTrash[i] \/ i \in D
  BY <1>2
<1> QED
  BY <1>1, <1>2, <1>3, <1>4, MarkingKeepsTrashInv

(* Every operation keeps the trash marks on entries that held a packet.    *)
LEMMA TrashStep ==
  SpoolInv /\ EntriesHoldSpooled /\ TrashInv /\ [Next]_vars => TrashInv'
<1> SUFFICES ASSUME SpoolInv, EntriesHoldSpooled, TrashInv, [Next]_vars
             PROVE  TrashInv'
  OBVIOUS
<1>1. ASSUME NEW p \in Packets, Push(p) PROVE TrashInv'
  BY <1>1, PushKeepsTrashInv
<1>2. ASSUME Pop PROVE TrashInv'
  BY <1>2, PopKeepsTrashInv
<1>3. ASSUME NEW token \in Tokens, NEW flag \in BOOLEAN, Ack(token, flag) PROVE TrashInv'
  BY <1>3, AckKeepsTrashInv
<1>4. ASSUME NEW ms \in TickSizes, Tick(ms) PROVE TrashInv'
  BY <1>4, TickKeepsTrashInv
<1>5. ASSUME NEW retries \in RetryLimits, NEW timeoutMs \in TimeOuts,
             SetRetry(retries, timeoutMs)
      PROVE  TrashInv'
  <2>1. /\ spool'.mTrash = spool.mTrash /\ spool'.mPacket = spool.mPacket
        /\ wild' = wild
    BY <1>5 DEF SetRetry, Configured, SpoolInv, TypeOK, SpoolType
  <2> QED  BY <2>1 DEF TrashInv, TrashHoldsPacket, FirstFilled
<1>6. ASSUME Deinit \/ UNCHANGED vars PROVE TrashInv'
  <2>1. spool' = spool /\ wild' = wild
    BY <1>6 DEF Deinit, vars
  <2> QED  BY <2>1 DEF TrashInv, TrashHoldsPacket, FirstFilled
<1> QED
  BY <1>1, <1>2, <1>3, <1>4, <1>5, <1>6 DEF Next

(* push never cleans the empty packet of an entry that was never filled,   *)
(* although poly_spool_ack marks an entry it did not look at.              *)
THEOREM TrashCorrect == Spec => []TrashHoldsPacket
<1>1. TrashInv => TrashHoldsPacket
  BY DEF TrashInv
<1> QED
  BY <1>1, TrashInit, TrashStep, SpoolInvCorrect, EntriesCorrect, PTL DEF Spec

-----------------------------------------------------------------------------
(* What a packet became in the end it stays.  Every operation touches only *)
(* packets in entries it looks at, and those are spooled.                  *)

Settled(q) == fate'[q] = fate[q] /\ sent'[q] = sent[q]

(* No operation changes a packet that has reached a final fate.            *)
LEMMA FinalStep ==
  ASSUME SpoolInv, EntriesHoldSpooled, [Next]_vars, NEW q \in Packets, fate[q] \in Final
  PROVE  Settled(q)
<1>1. WellFormed(spool) /\ fate \in [Packets -> Fate] /\ sent \in [Packets -> Nat]
  BY DEF SpoolInv, TypeOK, CountsExact, WellFormed
<1>2. \A i \in InUse(spool) : spool.mPacket[i] # q
  BY DEF EntriesHoldSpooled, Final
<1>3. ASSUME NEW p \in Packets, Push(p) PROVE Settled(q)
  <2>1. fate[p] = "caller" /\ q # p
    BY <1>3 DEF Push, Final
  <2>2. ~(Evicts(spool, p) /\ q = spool.mPacket[NextFree(spool, p)])
    <3>1. Evicts(spool, p) =>
            /\ NextFree(spool, p) \in Slots
            /\ spool.mState[NextFree(spool, p)] # "FREE"
      BY <1>1, PushEffect
    <3>2. Evicts(spool, p) => NextFree(spool, p) \in InUse(spool)
      BY <3>1 DEF InUse
    <3> QED  BY <1>2, <3>2
  <2> QED  BY <1>3, <2>1, <2>2 DEF Push, Settled
<1>4. ASSUME Pop PROVE Settled(q)
  <2> DEFINE i == NextReady(spool)
  <2>1. i # ENTRY_NONE => i \in Slots /\ spool.mState[i] = "READY"
    BY <1>1, PopEffect
  <2>2. i # ENTRY_NONE => spool.mPacket[i] # q
    BY <1>2, <2>1 DEF InUse
  <2> QED  BY <1>1, <1>4, <2>2 DEF Pop, Settled
<1>5. ASSUME NEW token \in Tokens, NEW flag \in BOOLEAN, Ack(token, flag) PROVE Settled(q)
  <2> DEFINE i == AckMatch(spool, token)
  <2>1. AckMatches(spool, token, flag) => i \in Slots /\ spool.mState[i] = "WAITING"
    BY <1>1, AckEffect DEF AckMatches
  <2>2. AckMatches(spool, token, flag) => spool.mPacket[i] # q
    BY <1>2, <2>1 DEF InUse
  <2> QED  BY <1>1, <1>5, <2>2 DEF Ack, Settled
<1>6. ASSUME NEW ms \in TickSizes, Tick(ms) PROVE Settled(q)
  <2>1. \A i \in GivenUp(spool, ToInt(ms)) : spool.mPacket[i] # q
    BY <1>2 DEF GivenUp, Expired, InState, InUse
  <2> QED  BY <1>6, <2>1 DEF Tick, Settled
<1>7. ASSUME NEW retries \in RetryLimits, NEW timeoutMs \in TimeOuts,
             SetRetry(retries, timeoutMs)
      PROVE  Settled(q)
  BY <1>7 DEF SetRetry, Settled
<1>8. ASSUME Deinit \/ UNCHANGED vars PROVE Settled(q)
  BY <1>8 DEF Deinit, vars, Settled
<1> QED
  BY <1>3, <1>4, <1>5, <1>6, <1>7, <1>8 DEF Next

(* No retry, late response or tick revives a packet that was acknowledged, *)
(* given up, evicted or sent for good: it is never transmitted again.      *)
THEOREM FinalCorrect == Spec => FinalIsFinal
<1>1. SpoolInv /\ EntriesHoldSpooled /\ [Next]_vars =>
        [\A p \in Packets : fate[p] \in Final =>
           fate'[p] = fate[p] /\ sent'[p] = sent[p]]_vars
  BY FinalStep DEF Settled
<1> QED
  BY <1>1, SpoolInvCorrect, EntriesCorrect, PTL DEF Spec, FinalIsFinal

-----------------------------------------------------------------------------
(* Retries.  The strengthening: a packet that was not accepted was not     *)
(* sent, a WAITING packet was sent at least once, and a packet that is     *)
(* READY for another attempt still had attempts left.                      *)

AttemptsCounted == \A i \in InUse(spool) : spool.mAttempts[i] = sent[spool.mPacket[i]]

AttemptsLeft ==
  /\ spool.mMaxRetries \in RetryLimits
  /\ \A p \in Packets : fate[p] = "caller" => sent[p] = 0
  /\ \A i \in InState(spool, "WAITING") : spool.mAttempts[i] >= 1
  /\ \A i \in InState(spool, "READY") :
       spool.mAttempts[i] = 0 \/ \E r \in RetryLimits : spool.mAttempts[i] < r

WithinLimits(p) ==
  /\ fate[p] = "failed" => \E r \in RetryLimits : sent[p] >= r /\ sent[p] >= 1
  /\ sent[p] <= 1 \/ \E r \in RetryLimits : sent[p] <= r

BudgetInv == AttemptsCounted /\ AttemptsLeft /\ \A p \in Packets : WithinLimits(p)

(* A new spool has counted no attempts.                                    *)
LEMMA BudgetInit == Init => BudgetInv
<1> SUFFICES ASSUME Init PROVE BudgetInv
  OBVIOUS
<1>1. PICK retries \in RetryLimits, timeOut \in TimeOuts :
        spool = InitialSpool(retries, ToInt(timeOut))
  BY DEF Init
<1>2. /\ InUse(spool) = {} /\ InState(spool, "READY") = {}
      /\ InState(spool, "WAITING") = {} /\ spool.mMaxRetries = retries
  BY <1>1 DEF InitialSpool, InUse, InState
<1>3. \A p \in Packets : fate[p] = "caller" /\ sent[p] = 0
  BY DEF Init
<1> QED
  BY <1>2, <1>3 DEF BudgetInv, AttemptsCounted, AttemptsLeft, WithinLimits

(* Entries are released or wait on, and the packets of a set P fail.       *)
LEMMA ReleaseKeepsBudget ==
  ASSUME BudgetInv, NEW P \in SUBSET Packets,
         spool'.mPacket = spool.mPacket, spool'.mAttempts = spool.mAttempts,
         spool'.mMaxRetries = spool.mMaxRetries, sent' = sent,
         InUse(spool') \in SUBSET InUse(spool),
         InState(spool', "WAITING") \in SUBSET InState(spool, "WAITING"),
         \A i \in InState(spool', "READY") \ InState(spool, "READY") :
           spool.mAttempts[i] < spool.mMaxRetries,
         \A p \in P : sent[p] >= spool.mMaxRetries /\ sent[p] >= 1,
         \A p \in Packets : /\ fate'[p] = "failed" => p \in P \/ fate[p] = "failed"
                            /\ fate'[p] = "caller" => fate[p] = "caller"
  PROVE  BudgetInv'
<1>1. AttemptsCounted'
  BY DEF BudgetInv, AttemptsCounted
<1>2. AttemptsLeft'
  BY DEF BudgetInv, AttemptsLeft
<1>3. ASSUME NEW p \in Packets PROVE WithinLimits(p)'
  <2>1. CASE p \in P
    BY <2>1 DEF BudgetInv, AttemptsLeft, WithinLimits
  <2>2. CASE p \notin P
    BY <2>2 DEF BudgetInv, WithinLimits
  <2> QED  BY <2>1, <2>2
<1> QED
  BY <1>1, <1>2, <1>3 DEF BudgetInv

(* push starts the packet it accepts at attempt 0, in whatever entry.      *)
LEMMA PushKeepsBudget ==
  ASSUME SpoolInv, EntriesHoldSpooled, BudgetInv, NEW p \in Packets, Push(p)
  PROVE  BudgetInv'
<1> DEFINE i == NextFree(spool, p)
           t == Pushed(spool, p)
<1>1. /\ WellFormed(spool) /\ spool' = t /\ spool \in SpoolShape
      /\ fate[p] = "caller" /\ sent' = sent /\ sent[p] = 0
  BY WellFormedShape
  DEF SpoolInv, TypeOK, CountsExact, WellFormed, Push, BudgetInv, AttemptsLeft
<1>2. \A q \in Packets : /\ fate'[q] = "failed" => fate[q] = "failed"
                         /\ fate'[q] = "caller" => fate[q] = "caller"
  BY DEF Push
<1>3. CASE ~Stores(spool, p)
  <2>1. spool' = spool
    BY <1>1, <1>3, PushEffect
  <2> QED  BY <1>1, <1>2, <2>1 DEF BudgetInv, AttemptsCounted, AttemptsLeft, WithinLimits
<1>4. CASE Stores(spool, p)
  <2>1. /\ i \in Slots
        /\ t.mState = [spool.mState EXCEPT ![i] = "READY"]
        /\ t.mPacket = [spool.mPacket EXCEPT ![i] = p]
        /\ t.mAttempts = [spool.mAttempts EXCEPT ![i] = 0]
        /\ t.mMaxRetries = spool.mMaxRetries
    BY <1>1, <1>4, PushEffect
  <2>2. /\ spool.mState \in [Slots -> EntryState] /\ spool.mAttempts \in [Slots -> Nat]
        /\ spool.mPacket \in [Slots -> Packets \cup {NoPacket}]
    BY <1>1 DEF SpoolShape
  <2> HIDE DEF i, t
  <2>3. /\ spool'.mState[i] = "READY" /\ spool'.mPacket[i] = p /\ spool'.mAttempts[i] = 0
        /\ \A j \in Slots \ {i} : /\ spool'.mState[j] = spool.mState[j]
                                  /\ spool'.mPacket[j] = spool.mPacket[j]
                                  /\ spool'.mAttempts[j] = spool.mAttempts[j]
    BY <1>1, <2>1, <2>2
  <2>4. AttemptsCounted'
    BY <1>1, <2>3 DEF BudgetInv, AttemptsCounted, InUse
  <2>5. AttemptsLeft'
    <3>1. spool'.mMaxRetries \in RetryLimits
      BY <1>1, <2>1 DEF BudgetInv, AttemptsLeft
    <3>2. \A q \in Packets : fate'[q] = "caller" => sent'[q] = 0
      BY <1>1, <1>2 DEF BudgetInv, AttemptsLeft
    <3>3. \A j \in InState(spool', "WAITING") : spool'.mAttempts[j] >= 1
      BY <2>3 DEF BudgetInv, AttemptsLeft, InState
    <3>4. \A j \in InState(spool', "READY") :
            spool'.mAttempts[j] = 0 \/ \E r \in RetryLimits : spool'.mAttempts[j] < r
      BY <2>3 DEF BudgetInv, AttemptsLeft, InState
    <3> QED  BY <3>1, <3>2, <3>3, <3>4 DEF AttemptsLeft
  <2>6. \A q \in Packets : WithinLimits(q)'
    BY <1>1, <1>2 DEF BudgetInv, WithinLimits
  <2> QED  BY <2>4, <2>5, <2>6 DEF BudgetInv
<1> QED
  BY <1>3, <1>4

(* pop counts one more attempt of the packet it hands out, and one more in *)
(* the entry if the packet stays there.                                    *)
LEMMA PopKeepsBudget ==
  ASSUME SpoolInv, EntriesHoldSpooled, BudgetInv, Pop
  PROVE  BudgetInv'
<1> DEFINE i == NextReady(spool)
           q == spool.mPacket[i]
<1>1. /\ WellFormed(spool) /\ spool' = Popped(spool) /\ spool \in SpoolShape
      /\ fate \in [Packets -> Fate] /\ sent \in [Packets -> Nat]
  BY WellFormedShape DEF SpoolInv, TypeOK, CountsExact, WellFormed, Pop
<1>2. CASE i = ENTRY_NONE
  <2>1. spool' = spool
    BY <1>1, <1>2, PopEffect
  <2>2. fate' = fate /\ sent' = sent
    BY <1>2 DEF Pop
  <2> QED  BY <2>1, <2>2 DEF BudgetInv, AttemptsCounted, AttemptsLeft, WithinLimits
<1>3. CASE i # ENTRY_NONE
  <2>1. /\ i \in Slots /\ spool.mState[i] = "READY"
        /\ spool'.mPacket = spool.mPacket /\ spool'.mMaxRetries = spool.mMaxRetries
        /\ \/ /\ spool'.mState = [spool.mState EXCEPT ![i] = "WAITING"]
              /\ spool'.mAttempts = [spool.mAttempts EXCEPT ![i] = @ + 1]
           \/ spool'.mState = [spool.mState EXCEPT ![i] = "FREE"]
              /\ spool'.mAttempts = spool.mAttempts
    BY <1>1, <1>3, PopEffect
  <2>2. /\ sent' = [sent EXCEPT ![q] = @ + 1]
        /\ fate' = fate \/ fate' = [fate EXCEPT ![q] = "sent"]
    BY <1>3 DEF Pop
  <2>3. /\ i \in InUse(spool) /\ q \in Packets /\ fate[q] = "spooled"
        /\ spool.mAttempts[i] = sent[q]
        /\ sent[q] = 0 \/ \E r \in RetryLimits : sent[q] < r
    <3>1. i \in InUse(spool) /\ i \in InState(spool, "READY")
      BY <2>1 DEF InUse, InState
    <3> QED  BY <3>1 DEF EntriesHoldSpooled, BudgetInv, AttemptsCounted, AttemptsLeft
  <2>4. \A j \in InUse(spool) : j # i => spool.mPacket[j] # q
    BY <2>3 DEF EntriesHoldSpooled
  <2>5. /\ spool.mState \in [Slots -> EntryState] /\ spool.mAttempts \in [Slots -> Nat]
    BY <1>1 DEF SpoolShape
  <2> HIDE DEF i, q
  <2>6. /\ \A j \in Slots \ {i} : /\ spool'.mState[j] = spool.mState[j]
                                  /\ spool'.mAttempts[j] = spool.mAttempts[j]
        /\ \/ spool'.mState[i] = "WAITING" /\ spool'.mAttempts[i] = sent[q] + 1
           \/ spool'.mState[i] = "FREE"
    BY <2>1, <2>3, <2>5
  <2>7. /\ sent'[q] = sent[q] + 1 /\ sent[q] \in Nat
        /\ \A p \in Packets \ {q} : sent'[p] = sent[p] /\ fate'[p] = fate[p]
        /\ fate'[q] \in {"spooled", "sent"}
    BY <1>1, <2>2, <2>3
  <2>8. AttemptsCounted'
    <3>1. ASSUME NEW j \in InUse(spool')
          PROVE  spool'.mAttempts[j] = sent'[spool'.mPacket[j]]
      <4>1. CASE j = i
        BY <2>1, <2>3, <2>6, <2>7, <4>1 DEF InUse, q
      <4>2. CASE j # i
        <5>1. j \in InUse(spool)
          BY <2>6, <4>2 DEF InUse
        <5>2. spool.mPacket[j] \in Packets \ {q} /\ j \in Slots
          BY <2>4, <4>2, <5>1 DEF EntriesHoldSpooled, InUse
        <5> QED  BY <2>1, <2>6, <2>7, <4>2, <5>1, <5>2 DEF BudgetInv, AttemptsCounted
      <4> QED  BY <4>1, <4>2
    <3> QED  BY <3>1 DEF AttemptsCounted
  <2>9. AttemptsLeft'
    <3>1. spool'.mMaxRetries \in RetryLimits
      BY <2>1 DEF BudgetInv, AttemptsLeft
    <3>2. \A p \in Packets : fate'[p] = "caller" => sent'[p] = 0
      BY <2>7 DEF BudgetInv, AttemptsLeft
    <3>3. \A j \in InState(spool', "WAITING") : spool'.mAttempts[j] >= 1
      BY <2>6, <2>7 DEF BudgetInv, AttemptsLeft, InState
    <3>4. \A j \in InState(spool', "READY") :
            spool'.mAttempts[j] = 0 \/ \E r \in RetryLimits : spool'.mAttempts[j] < r
      BY <2>6 DEF BudgetInv, AttemptsLeft, InState
    <3> QED  BY <3>1, <3>2, <3>3, <3>4 DEF AttemptsLeft
  <2>10. ASSUME NEW p \in Packets PROVE WithinLimits(p)'
    <3>1. CASE p = q
      BY <2>3, <2>7, <3>1, InputsAssumption DEF WithinLimits
    <3>2. CASE p # q
      BY <2>7, <3>2 DEF BudgetInv, WithinLimits
    <3> QED  BY <3>1, <3>2
  <2> QED  BY <2>8, <2>9, <2>10 DEF BudgetInv
<1> QED
  BY <1>2, <1>3

(* An acknowledgement neither transmits a packet nor gives one up.         *)
LEMMA AckKeepsBudget ==
  ASSUME SpoolInv, EntriesHoldSpooled, BudgetInv, NEW token, NEW flag, Ack(token, flag)
  PROVE  BudgetInv'
<1> DEFINE i == AckMatch(spool, token)
<1>1. /\ WellFormed(spool) /\ spool' = Acked(spool, token, flag)
      /\ spool \in SpoolShape /\ sent' = sent /\ fate \in [Packets -> Fate]
  BY WellFormedShape DEF SpoolInv, TypeOK, CountsExact, WellFormed, Ack
<1>2. \A p \in Packets : fate'[p] = fate[p] \/ fate'[p] = "acked"
  BY <1>1 DEF Ack
<1>3. CASE ~AckMatches(spool, token, flag)
  <2>1. spool' = spool
    BY <1>1, <1>3 DEF Acked
  <2> QED  BY <1>1, <1>2, <2>1 DEF BudgetInv, AttemptsCounted, AttemptsLeft, WithinLimits
<1>4. CASE AckMatches(spool, token, flag)
  <2>1. i # ENTRY_NONE /\ spool' = Released(spool, i)
    BY <1>1, <1>4 DEF AckMatches, Acked
  <2>2. /\ i \in Slots
        /\ Released(spool, i).mState = [spool.mState EXCEPT ![i] = "FREE"]
        /\ Released(spool, i).mPacket = spool.mPacket
        /\ Released(spool, i).mMaxRetries = spool.mMaxRetries
        /\ Released(spool, i).mAttempts = spool.mAttempts
    BY ZenonT(40), <1>1, <2>1, AckEffect
  <2>3. spool.mState \in [Slots -> EntryState]
    BY <1>1 DEF SpoolShape
  <2> HIDE DEF i
  <2>4. /\ InUse(spool') \in SUBSET InUse(spool)
        /\ InState(spool', "WAITING") \in SUBSET InState(spool, "WAITING")
        /\ InState(spool', "READY") \in SUBSET InState(spool, "READY")
    BY <2>1, <2>2, <2>3 DEF InUse, InState
  <2>5. {} \in SUBSET Packets
    OBVIOUS
  <2> QED  BY ZenonT(40), <1>1, <1>2, <2>1, <2>2, <2>4, <2>5, ReleaseKeepsBudget
<1> QED
  BY <1>3, <1>4

(* A tick makes READY again only what has attempts left, and gives up only *)
(* what has used them all.                                                 *)
LEMMA TickKeepsBudget ==
  ASSUME SpoolInv, EntriesHoldSpooled, BudgetInv, NEW ms \in TickSizes, Tick(ms)
  PROVE  BudgetInv'
<1> DEFINE u == ToInt(ms)
           R == Retried(spool, u)
           G == GivenUp(spool, u)
           P == {spool.mPacket[i] : i \in G}
<1>1. /\ WellFormed(spool) /\ spool' = Ticked(spool, u) /\ u \in Int /\ sent' = sent
      /\ spool \in SpoolShape
  BY InputsAssumption, ToIntType, WellFormedShape
  DEF SpoolInv, TypeOK, CountsExact, WellFormed, Tick
<1>2. \A p \in Packets : /\ fate'[p] = "failed" => p \in P \/ fate[p] = "failed"
                         /\ fate'[p] = "caller" => fate[p] = "caller"
  BY DEF Tick
<1> HIDE DEF u
<1>3. /\ R \in SUBSET InState(spool, "WAITING") /\ G \in SUBSET InState(spool, "WAITING")
      /\ R \cap G = {}
      /\ \A i \in R : spool.mAttempts[i] < spool.mMaxRetries
      /\ \A i \in G : ~(spool.mAttempts[i] < spool.mMaxRetries)
      /\ spool'.mState = [i \in Slots |-> IF i \in R THEN "READY"
                                         ELSE IF i \in G THEN "FREE" ELSE spool.mState[i]]
      /\ spool'.mPacket = spool.mPacket /\ spool'.mAttempts = spool.mAttempts
      /\ spool'.mMaxRetries = spool.mMaxRetries
  <2>1. /\ Expired(spool, u) \in SUBSET InState(spool, "WAITING")
        /\ R \in SUBSET Expired(spool, u) /\ G = Expired(spool, u) \ R
        /\ \A i \in R : spool.mAttempts[i] < spool.mMaxRetries
        /\ \A i \in G : ~(spool.mAttempts[i] < spool.mMaxRetries)
        /\ Ticked(spool, u).mState =
             [i \in Slots |-> IF i \in R THEN "READY"
                              ELSE IF i \in G THEN "FREE" ELSE spool.mState[i]]
        /\ Ticked(spool, u).mPacket = spool.mPacket
        /\ Ticked(spool, u).mAttempts = spool.mAttempts
        /\ Ticked(spool, u).mMaxRetries = spool.mMaxRetries
    BY <1>1, TickEffect
  <2> QED  BY <1>1, <2>1
<1> HIDE DEF R, G
<1>4. /\ InUse(spool') \in SUBSET InUse(spool)
      /\ InState(spool', "WAITING") \in SUBSET InState(spool, "WAITING")
      /\ InState(spool', "READY") \ InState(spool, "READY") \in SUBSET R
  BY <1>3 DEF InUse, InState
<1>5. P \in SUBSET Packets
  BY <1>3 DEF EntriesHoldSpooled, InUse, InState
<1>6. ASSUME NEW i \in G
      PROVE  /\ sent[spool.mPacket[i]] >= spool.mMaxRetries
             /\ sent[spool.mPacket[i]] >= 1
  <2>1. i \in InUse(spool) /\ i \in InState(spool, "WAITING") /\ i \in Slots
    BY <1>3, <1>6 DEF InUse, InState
  <2>2. spool.mAttempts[i] = sent[spool.mPacket[i]] /\ spool.mAttempts[i] >= 1
    BY <2>1 DEF BudgetInv, AttemptsCounted, AttemptsLeft
  <2>3. spool.mAttempts[i] \in Nat /\ spool.mMaxRetries \in Nat
    BY <1>1, <2>1 DEF SpoolShape
  <2> QED  BY <1>3, <2>2, <2>3
<1>7. \A p \in P : sent[p] >= spool.mMaxRetries /\ sent[p] >= 1
  BY <1>6
<1> HIDE DEF P
<1> QED
  BY <1>1, <1>2, <1>3, <1>4, <1>5, <1>7, ReleaseKeepsBudget

(* Every operation keeps the attempts counted and within the limits.       *)
LEMMA BudgetStep ==
  SpoolInv /\ EntriesHoldSpooled /\ BudgetInv /\ [Next]_vars => BudgetInv'
<1> SUFFICES ASSUME SpoolInv, EntriesHoldSpooled, BudgetInv, [Next]_vars
             PROVE  BudgetInv'
  OBVIOUS
<1>1. ASSUME NEW p \in Packets, Push(p) PROVE BudgetInv'
  BY <1>1, PushKeepsBudget
<1>2. ASSUME Pop PROVE BudgetInv'
  BY <1>2, PopKeepsBudget
<1>3. ASSUME NEW token \in Tokens, NEW flag \in BOOLEAN, Ack(token, flag) PROVE BudgetInv'
  BY <1>3, AckKeepsBudget
<1>4. ASSUME NEW ms \in TickSizes, Tick(ms) PROVE BudgetInv'
  BY <1>4, TickKeepsBudget
<1>5. ASSUME NEW retries \in RetryLimits, NEW timeoutMs \in TimeOuts,
             SetRetry(retries, timeoutMs)
      PROVE  BudgetInv'
  <2>1. /\ spool'.mState = spool.mState /\ spool'.mPacket = spool.mPacket
        /\ spool'.mAttempts = spool.mAttempts /\ spool'.mMaxRetries = retries
        /\ fate' = fate /\ sent' = sent
    BY <1>5 DEF SetRetry, Configured, SpoolInv, TypeOK, SpoolType
  <2> QED  BY <2>1
           DEF BudgetInv, AttemptsCounted, AttemptsLeft, WithinLimits, InUse, InState
<1>6. ASSUME Deinit \/ UNCHANGED vars PROVE BudgetInv'
  <2>1. spool' = spool /\ fate' = fate /\ sent' = sent
    BY <1>6 DEF Deinit, vars
  <2> QED  BY <2>1 DEF BudgetInv, AttemptsCounted, AttemptsLeft, WithinLimits
<1> QED
  BY <1>1, <1>2, <1>3, <1>4, <1>5, <1>6 DEF Next

(* The attempts an entry has counted are the transmissions of the packet   *)
(* in it, and no packet is given up too early or sent too often.           *)
THEOREM RetriesCorrect == Spec => []RetryBudget
<1>1. BudgetInv => RetryBudget
  BY DEF BudgetInv, AttemptsCounted, WithinLimits, RetryBudget
<1> QED
  BY <1>1, BudgetInit, BudgetStep, SpoolInvCorrect, EntriesCorrect, PTL DEF Spec
-----------------------------------------------------------------------------
(* Timeouts.  The spool always works with the timeout last asked for,      *)
(* converted to an int: no operation but set_retry touches it.             *)

TimeoutKept == spool.mTimeOut = ToInt(requested)

(* The operations that leave the configuration alone.                      *)
LEMMA OperationsKeepTimeout ==
  ASSUME NEW s, WellFormed(s)
  PROVE  /\ \A p \in Packets : Pushed(s, p).mTimeOut = s.mTimeOut
         /\ Popped(s).mTimeOut = s.mTimeOut
         /\ \A token, flag : Acked(s, token, flag).mTimeOut = s.mTimeOut
         /\ \A ms : Ticked(s, ms).mTimeOut = s.mTimeOut
<1>1. s \in SpoolShape
  BY WellFormedShape
<1>2. ASSUME NEW p \in Packets
      PROVE  Pushed(s, p).mTimeOut = s.mTimeOut
  <2>1. AfterNextFree(s, p) \in SpoolShape
    BY <1>1, EvictionShape
  <2>2. AfterNextFree(s, p).mTimeOut = s.mTimeOut
    <3>1. CASE ~Evicts(s, p)
      BY <3>1 DEF AfterNextFree
    <3>2. CASE Evicts(s, p)
      <4>1. \A a, b, c :
              [s EXCEPT !.mCount = a, !.mReadyCount = b, !.mWaitingCount = c].mTimeOut = s.mTimeOut
        BY <1>1 DEF SpoolShape
      <4> QED  BY <3>2, <4>1 DEF AfterNextFree
    <3> QED  BY <3>1, <3>2
  <2>3. \A t \in SpoolShape : \A i : Filled(t, i, p).mTimeOut = t.mTimeOut
    BY DEF Filled, SpoolShape
  <2> QED  BY <2>1, <2>2, <2>3 DEF Pushed
<1>3. Popped(s).mTimeOut = s.mTimeOut
  BY <1>1 DEF Popped, SentAwaitingAck, SentForGood, SpoolShape
<1>4. \A token, flag : Acked(s, token, flag).mTimeOut = s.mTimeOut
  BY <1>1 DEF Acked, Released, SpoolShape
<1>5. \A ms : Ticked(s, ms).mTimeOut = s.mTimeOut
  BY <1>1 DEF Ticked, SpoolShape
<1> QED
  BY <1>2, <1>3, <1>4, <1>5

(* What poly_spool_init is given is what was asked for.                    *)
LEMMA TimeoutInit == Init => TimeoutKept
BY DEF Init, InitialSpool, TimeoutKept

(* Only set_retry changes either, and it changes both.                     *)
LEMMA TimeoutStep == SpoolInv /\ TimeoutKept /\ [Next]_vars => TimeoutKept'
<1> SUFFICES ASSUME SpoolInv, TimeoutKept, [Next]_vars PROVE TimeoutKept'
  OBVIOUS
<1>1. WellFormed(spool)
  BY DEF SpoolInv, TypeOK, CountsExact, WellFormed
<1>2. ASSUME NEW p \in Packets, Push(p) PROVE TimeoutKept'
  BY <1>1, <1>2, OperationsKeepTimeout DEF Push, TimeoutKept
<1>3. ASSUME Pop PROVE TimeoutKept'
  BY <1>1, <1>3, OperationsKeepTimeout DEF Pop, TimeoutKept
<1>4. ASSUME NEW token \in Tokens, NEW flag \in BOOLEAN, Ack(token, flag)
      PROVE  TimeoutKept'
  BY <1>1, <1>4, OperationsKeepTimeout DEF Ack, TimeoutKept
<1>5. ASSUME NEW ms \in TickSizes, Tick(ms) PROVE TimeoutKept'
  BY <1>1, <1>5, OperationsKeepTimeout DEF Tick, TimeoutKept
<1>6. ASSUME NEW retries \in RetryLimits, NEW timeoutMs \in TimeOuts,
             SetRetry(retries, timeoutMs)
      PROVE  TimeoutKept'
  BY <1>1, <1>6, WellFormedShape DEF SetRetry, Configured, SpoolShape, TimeoutKept
<1>7. ASSUME Deinit \/ UNCHANGED vars PROVE TimeoutKept'
  BY <1>7 DEF Deinit, vars, TimeoutKept
<1> QED
  BY <1>2, <1>3, <1>4, <1>5, <1>6, <1>7 DEF Next

(* A packet leaves the spool as "sent" only through pop, which lets it go  *)
(* for good only when the timeout in force is not positive.                *)
LEMMA SentOnlyByPop ==
  ASSUME SpoolInv, TimeoutKept, [Next]_vars, NEW p \in Packets,
         fate[p] = "spooled", fate'[p] = "sent", requested \in 1..IntMax
  PROVE  AckType[p] # "TOKEN" \/ AckFlag[p]
<1>1. fate \in [Packets -> Fate]
  BY DEF SpoolInv, TypeOK
<1>2. Pop
  <2>1. \A q \in Packets : ~Push(q)
    BY DEF Push
  <2>2. \A token \in Tokens, flag \in BOOLEAN : ~Ack(token, flag)
    BY <1>1 DEF Ack
  <2>3. \A ms \in TickSizes : ~Tick(ms)
    BY DEF Tick
  <2>4. ~Deinit /\ ~UNCHANGED vars
    BY DEF Deinit, vars
  <2>5. \A retries \in RetryLimits, timeoutMs \in TimeOuts : ~SetRetry(retries, timeoutMs)
    BY DEF SetRetry
  <2> QED  BY <2>1, <2>2, <2>3, <2>4, <2>5 DEF Next
<1>3. ~AwaitsAck(spool, p)
  <2> DEFINE q == spool.mPacket[NextReady(spool)]
  <2>1. ~AwaitsAck(spool, q) /\ fate' = [fate EXCEPT ![q] = "sent"]
    BY <1>2 DEF Pop
  <2>2. q = p
    BY <1>1, <2>1
  <2> QED  BY <2>1, <2>2
<1>4. spool.mTimeOut > 0
  BY IntMaxAssumption DEF TimeoutKept, ToInt
<1> QED
  BY <1>3, <1>4 DEF AwaitsAck

(* The inductive form of the promise about timeouts holds throughout.      *)
LEMMA TimeoutKeptCorrect == Spec => []TimeoutKept
BY SpoolInvCorrect, TimeoutInit, TimeoutStep, PTL DEF Spec

(* A packet that asks for an acknowledgement is not let go at its first    *)
(* transmission while a timeout is configured, however often the           *)
(* application changes it.                                                 *)
THEOREM TimeoutsCorrect == Spec => TimeoutHonoured
<1>1. SpoolInv /\ TimeoutKept /\ [Next]_vars =>
        [\A p \in Packets :
           fate[p] = "spooled" /\ fate'[p] = "sent" /\ requested \in 1..IntMax
             => AckType[p] # "TOKEN" \/ AckFlag[p]]_vars
  BY SentOnlyByPop
<1> QED
  BY <1>1, TimeoutKeptCorrect, SpoolInvCorrect, PTL DEF Spec, TimeoutHonoured

-----------------------------------------------------------------------------
(* Cleaning.  A packet gets into one entry once and leaves it when another *)
(* packet is put there; as long as it is in an entry it has not been       *)
(* cleaned, in use or not.  The mark on the entry decides whether it is    *)
(* cleaned when it leaves.                                                 *)

OnceInEntries ==
  /\ \A i \in Slots : spool.mPacket[i] \in Packets =>
       /\ fate[spool.mPacket[i]] \notin {"caller", "evicted"}
       /\ cleans[spool.mPacket[i]] = 0
  /\ \A i, j \in Slots :
       spool.mPacket[i] \in Packets /\ spool.mPacket[i] = spool.mPacket[j] => i = j

Marked(p) == \E i \in Slots : spool.mPacket[i] = p /\ spool.mTrash[i]

CleanedAsMarked(p) ==
  /\ fate[p] = "caller" => cleans[p] = 0
  /\ fate[p] # "evicted" => cleans[p] <= 1
  /\ fate[p] = "spooled" => cleans[p] = 0
  /\ fate[p] \in {"sent", "failed"} => cleans[p] = 1 \/ Marked(p)

CleanInv == OnceInEntries /\ \A p \in Packets : CleanedAsMarked(p)

(* Nothing is in the entries, nothing was cleaned.                         *)
LEMMA CleanInit == Init => CleanInv
<1> SUFFICES ASSUME Init PROVE CleanInv
  OBVIOUS
<1>1. \A i \in Slots : spool.mPacket[i] \notin Packets
  BY PacketsAssumption DEF Init, InitialSpool
<1>2. \A p \in Packets : fate[p] = "caller" /\ cleans[p] = 0
  BY DEF Init
<1> QED
  BY <1>1, <1>2 DEF CleanInv, OnceInEntries, CleanedAsMarked

(* A step that moves no packet and cleans none, and marks the entry of     *)
(* every packet it sends for good or gives up.                             *)
LEMMA MarkingKeepsCleanInv ==
  ASSUME CleanInv, cleans \in [Packets -> Nat], cleans' = cleans,
         spool'.mPacket = spool.mPacket,
         \A i \in Slots : spool.mTrash[i] => spool'.mTrash[i],
         \A p \in Packets :
           \/ fate'[p] = fate[p]
           \/ fate[p] = "spooled" /\ fate'[p] = "acked"
           \/ /\ fate[p] = "spooled" /\ fate'[p] \in {"sent", "failed"}
              /\ \E i \in Slots : spool.mPacket[i] = p /\ spool'.mTrash[i]
  PROVE  CleanInv'
<1>1. OnceInEntries'
  BY DEF CleanInv, OnceInEntries
<1>2. ASSUME NEW p \in Packets PROVE CleanedAsMarked(p)'
  <2>1. Marked(p) => Marked(p)'
    BY DEF Marked
  <2>2. CleanedAsMarked(p)
    BY DEF CleanInv
  <2>3. CASE fate'[p] = fate[p]
    BY <2>1, <2>2, <2>3 DEF CleanedAsMarked
  <2>4. CASE fate[p] = "spooled" /\ fate'[p] = "acked"
    BY <2>2, <2>4 DEF CleanedAsMarked
  <2>5. CASE /\ fate[p] = "spooled" /\ fate'[p] \in {"sent", "failed"}
             /\ \E i \in Slots : spool.mPacket[i] = p /\ spool'.mTrash[i]
    BY <2>2, <2>5 DEF CleanedAsMarked, Marked
  <2> QED  BY <2>3, <2>4, <2>5
<1> QED
  BY <1>1, <1>2 DEF CleanInv

(* push puts a packet that was in no entry into one; the packet that was   *)
(* there is cleaned if it was marked, and has been evicted if it was still *)
(* in use.                                                                 *)
LEMMA PushKeepsCleanInv ==
  ASSUME SpoolInv, EntriesHoldSpooled, CleanInv, NEW p \in Packets, Push(p)
  PROVE  CleanInv'
<1> DEFINE i == NextFree(spool, p)
           t == Pushed(spool, p)
           q == spool.mPacket[i]
<1>1. /\ WellFormed(spool) /\ spool' = t /\ spool \in SpoolShape
      /\ fate[p] = "caller" /\ fate \in [Packets -> Fate] /\ cleans \in [Packets -> Nat]
  BY WellFormedShape DEF SpoolInv, TypeOK, CountsExact, WellFormed, Push
<1>2. CASE ~Stores(spool, p)
  <2>1. spool' = spool /\ ~Evicts(spool, p)
    BY <1>1, <1>2, PushEffect
  <2>2. fate' = fate /\ cleans' = cleans
    BY <1>1, <1>2, <2>1 DEF Push, CleanCalls, CleansOnEvict, CleansTrash
  <2> QED  BY <2>1, <2>2 DEF CleanInv, OnceInEntries, CleanedAsMarked, Marked
<1>3. CASE Stores(spool, p)
  <2>1. /\ i \in Slots /\ t.mTrash = spool.mTrash
        /\ t.mPacket = [spool.mPacket EXCEPT ![i] = p]
        /\ Evicts(spool, p) => spool.mState[i] # "FREE"
        /\ ~Evicts(spool, p) => spool.mState[i] = "FREE"
    BY <1>1, <1>3, PushEffect
  <2>2. /\ spool'.mTrash = spool.mTrash
        /\ spool'.mPacket = [spool.mPacket EXCEPT ![i] = p]
        /\ spool.mPacket \in [Slots -> Packets \cup {NoPacket}]
    BY <1>1, <2>1 DEF SpoolShape
  <2>3. \A r \in Packets :
          /\ fate'[r] = IF r = p THEN "spooled"
                        ELSE IF Evicts(spool, p) /\ r = q THEN "evicted" ELSE fate[r]
          /\ r # q => cleans'[r] = cleans[r]
          /\ ~Evicts(spool, p) =>
               cleans'[r] = cleans[r] + (IF spool.mTrash[i] /\ q = r THEN 1 ELSE 0)
    BY <1>1, <1>3 DEF Push, CleanCalls, CleansOnEvict, CleansTrash
  <2>4. \A j \in Slots : spool.mPacket[j] # p
    BY <1>1 DEF CleanInv, OnceInEntries
  <2> HIDE DEF t
  <2>5. OnceInEntries'
    <3>1. \A j \in Slots \ {i} : spool'.mPacket[j] = spool.mPacket[j]
      BY <2>1, <2>2
    <3>2. spool'.mPacket[i] = p
      BY <2>1, <2>2
    <3>3. cleans'[p] = 0 /\ fate'[p] = "spooled"
      BY <1>1, <2>1, <2>3, <2>4 DEF CleanInv, CleanedAsMarked
    <3>4. ASSUME NEW j \in Slots \ {i}, spool.mPacket[j] \in Packets
          PROVE  /\ fate'[spool.mPacket[j]] \notin {"caller", "evicted"}
                 /\ cleans'[spool.mPacket[j]] = 0
      <4>1. spool.mPacket[j] # q /\ spool.mPacket[j] # p
        BY <2>1, <2>4, <3>4 DEF CleanInv, OnceInEntries
      <4> QED  BY <2>3, <3>4, <4>1 DEF CleanInv, OnceInEntries
    <3> HIDE DEF i
    <3> QED  BY <2>1, <2>4, <3>1, <3>2, <3>3, <3>4 DEF CleanInv, OnceInEntries
  <2>6. ASSUME NEW r \in Packets PROVE CleanedAsMarked(r)'
    <3>1. CleanedAsMarked(r)
      BY DEF CleanInv
    <3>2. CASE r = p
      <4>1. fate'[r] = "spooled" /\ cleans'[r] = 0
        BY <1>1, <2>1, <2>3, <2>4, <3>1, <3>2 DEF CleanedAsMarked
      <4> QED  BY <4>1 DEF CleanedAsMarked
    <3>3. CASE r # p /\ r # q
      <4>1. fate'[r] = fate[r] /\ cleans'[r] = cleans[r]
        BY <2>3, <3>3
      <4>2. Marked(r) => Marked(r)'
        BY <2>1, <2>2, <3>3 DEF Marked
      <4> QED  BY <3>1, <4>1, <4>2 DEF CleanedAsMarked
    <3>4. CASE r # p /\ r = q /\ Evicts(spool, p)
      BY <2>3, <3>4 DEF CleanedAsMarked
    <3>5. CASE r # p /\ r = q /\ ~Evicts(spool, p)
      <4>1. fate'[r] = fate[r] /\ cleans[r] = 0
        BY <2>1, <2>3, <3>5 DEF CleanInv, OnceInEntries
      <4>2. fate[r] # "spooled" /\ fate[r] # "caller"
        <5>1. \A j \in InUse(spool) : spool.mPacket[j] # r
          BY <2>1, <3>5 DEF CleanInv, OnceInEntries, InUse
        <5> QED  BY <2>1, <3>5, <5>1 DEF CleanInv, OnceInEntries, EntriesHoldSpooled
      <4>3. Marked(r) => spool.mTrash[i]
        BY <2>1, <3>5 DEF Marked, CleanInv, OnceInEntries
      <4>4. cleans'[r] = IF spool.mTrash[i] THEN 1 ELSE 0
        BY <2>3, <3>5, <4>1
      <4> QED  BY <3>1, <4>1, <4>2, <4>3, <4>4 DEF CleanedAsMarked
    <3> QED  BY <3>2, <3>3, <3>4, <3>5
  <2> QED  BY <2>5, <2>6 DEF CleanInv
<1> QED
  BY <1>2, <1>3

(* Every operation keeps the invariant.                                    *)
LEMMA CleanStep ==
  SpoolInv /\ EntriesHoldSpooled /\ CleanInv /\ [Next]_vars => CleanInv'
<1> SUFFICES ASSUME SpoolInv, EntriesHoldSpooled, CleanInv, [Next]_vars
             PROVE  CleanInv'
  OBVIOUS
<1>1. /\ WellFormed(spool) /\ spool \in SpoolShape
      /\ fate \in [Packets -> Fate] /\ cleans \in [Packets -> Nat]
  BY WellFormedShape DEF SpoolInv, TypeOK, CountsExact, WellFormed
<1>2. ASSUME NEW p \in Packets, Push(p) PROVE CleanInv'
  BY <1>2, PushKeepsCleanInv
<1>3. ASSUME Pop PROVE CleanInv'
  <2> DEFINE i == NextReady(spool)
             q == spool.mPacket[i]
  <2>1. CASE i = ENTRY_NONE
    <3>1. spool' = spool /\ fate' = fate /\ cleans' = cleans
      BY <1>1, <1>3, <2>1, PopEffect DEF Pop
    <3> QED  BY <3>1 DEF CleanInv, OnceInEntries, CleanedAsMarked, Marked
  <2>2. CASE i # ENTRY_NONE
    <3>1. /\ i \in Slots /\ spool.mState[i] = "READY"
          /\ spool'.mPacket = spool.mPacket /\ cleans' = cleans
      BY <1>1, <1>3, <2>2, PopEffect DEF Pop
    <3>2. q \in Packets /\ fate[q] = "spooled"
      BY <3>1 DEF EntriesHoldSpooled, InUse
    <3>3. CASE AwaitsAck(spool, q)
      <4>1. spool'.mTrash = spool.mTrash /\ fate' = fate
        BY <1>1, <1>3, <2>2, <3>3, PopEffect DEF Pop
      <4> QED  BY <1>1, <3>1, <4>1, MarkingKeepsCleanInv
    <3>4. CASE ~AwaitsAck(spool, q)
      <4>1. /\ spool'.mTrash = [spool.mTrash EXCEPT ![i] = TRUE]
            /\ fate' = [fate EXCEPT ![q] = "sent"]
            /\ spool.mTrash \in [Slots -> BOOLEAN]
        BY <1>1, <1>3, <2>2, <3>4, PopEffect DEF Pop, SpoolShape
      <4> HIDE DEF i
      <4>2. \A j \in Slots : spool.mTrash[j] => spool'.mTrash[j]
        BY <3>1, <4>1
      <4>3. spool'.mTrash[i] /\ spool.mPacket[i] = q
        BY <3>1, <4>1
      <4>4. \A p \in Packets : p # q => fate'[p] = fate[p]
        BY <1>1, <4>1
      <4>5. fate'[q] = "sent"
        BY <1>1, <3>2, <4>1
      <4> HIDE DEF q
      <4> QED  BY <1>1, <3>1, <3>2, <4>2, <4>3, <4>4, <4>5, MarkingKeepsCleanInv
    <3> QED  BY <3>3, <3>4
  <2> QED  BY <2>1, <2>2
<1>4. ASSUME NEW token \in Tokens, NEW flag \in BOOLEAN, Ack(token, flag)
      PROVE  CleanInv'
  <2> DEFINE i == AckMatch(spool, token)
             q == spool.mPacket[i]
  <2>1. CASE ~AckMatches(spool, token, flag)
    <3>1. spool' = spool /\ fate' = fate /\ cleans' = cleans
      BY <1>4, <2>1 DEF Ack, Acked
    <3> QED  BY <3>1 DEF CleanInv, OnceInEntries, CleanedAsMarked, Marked
  <2>2. CASE AckMatches(spool, token, flag)
    <3>1. /\ i \in Slots /\ spool.mState[i] = "WAITING"
          /\ spool'.mPacket = spool.mPacket
          /\ spool'.mTrash = [spool.mTrash EXCEPT ![0] = TRUE]
      <4>1. i # ENTRY_NONE /\ spool' = Released(spool, i)
        BY <1>4, <2>2 DEF AckMatches, Ack, Acked
      <4> QED  BY <1>1, <4>1, AckEffect
    <3>2. fate' = [fate EXCEPT ![q] = "acked"] /\ cleans' = cleans
      BY <1>4, <2>2 DEF Ack
    <3>3. q \in Packets /\ fate[q] = "spooled"
      BY <3>1 DEF EntriesHoldSpooled, InUse
    <3>4. \A j \in Slots : spool.mTrash[j] => spool'.mTrash[j]
      BY <1>1, <3>1 DEF SpoolShape
    <3>5. \A p \in Packets : p # q => fate'[p] = fate[p]
      BY <1>1, <3>2
    <3>6. fate'[q] = "acked"
      BY <1>1, <3>2, <3>3
    <3> HIDE DEF i, q
    <3> QED  BY <1>1, <3>1, <3>2, <3>3, <3>4, <3>5, <3>6, MarkingKeepsCleanInv
  <2> QED  BY <2>1, <2>2
<1>5. ASSUME NEW ms \in TickSizes, Tick(ms) PROVE CleanInv'
  <2> DEFINE G == GivenUp(spool, ToInt(ms))
  <2>1. ToInt(ms) \in Int
    BY InputsAssumption, ToIntType
  <2>2. /\ spool'.mTrash = [i \in Slots |-> spool.mTrash[i] \/ i \in G]
        /\ spool'.mPacket = spool.mPacket /\ cleans' = cleans
    BY <1>1, <1>5, <2>1, TickEffect DEF Tick
  <2>3. \A i \in G : i \in InUse(spool)
    BY DEF GivenUp, Expired, InState, InUse
  <2>4. ASSUME NEW p \in Packets
        PROVE  \/ fate'[p] = fate[p]
               \/ /\ fate[p] = "spooled" /\ fate'[p] = "failed"
                  /\ \E i \in Slots : spool.mPacket[i] = p /\ spool'.mTrash[i]
    <3>1. CASE \E i \in G : spool.mPacket[i] = p
      <4>1. PICK i \in G : spool.mPacket[i] = p
        BY <3>1
      <4>2. i \in Slots /\ spool'.mTrash[i] /\ fate[p] = "spooled"
        BY <2>2, <2>3, <4>1 DEF InUse, EntriesHoldSpooled
      <4>3. fate'[p] = "failed"
        BY <1>5, <3>1 DEF Tick
      <4> QED  BY <4>1, <4>2, <4>3
    <3>2. CASE ~\E i \in G : spool.mPacket[i] = p
      BY <1>5, <3>2 DEF Tick
    <3> QED  BY <3>1, <3>2
  <2>5. \A i \in Slots : spool.mTrash[i] => spool'.mTrash[i]
    BY <2>2
  <2> QED  BY <1>1, <2>2, <2>4, <2>5, MarkingKeepsCleanInv
<1>6. ASSUME NEW retries \in RetryLimits, NEW timeoutMs \in TimeOuts,
             SetRetry(retries, timeoutMs)
      PROVE  CleanInv'
  <2>1. /\ spool'.mPacket = spool.mPacket /\ spool'.mTrash = spool.mTrash
        /\ fate' = fate /\ cleans' = cleans
    BY <1>1, <1>6 DEF SetRetry, Configured, SpoolShape
  <2> QED  BY <1>1, <2>1, MarkingKeepsCleanInv
<1>7. ASSUME Deinit PROVE CleanInv'
  <2>1. \A q : {i \in CleanedByDeinit(spool) : spool.mPacket[i] = q} = {}
    BY DEF CleanedByDeinit, DeinitBound, Slots
  <2>2. Cardinality({}) = 0
    BY FS_EmptySet
  <2>3. cleans' = [q \in Packets |-> cleans[q] + 0]
    BY <1>7, <2>1, <2>2 DEF Deinit
  <2>4. cleans' = cleans /\ spool' = spool /\ fate' = fate
    BY <1>1, <1>7, <2>3 DEF Deinit
  <2> QED  BY <2>4 DEF CleanInv, OnceInEntries, CleanedAsMarked, Marked
<1>8. CASE UNCHANGED vars
  BY <1>8 DEF vars, CleanInv, OnceInEntries, CleanedAsMarked, Marked
<1> QED
  BY <1>2, <1>3, <1>4, <1>5, <1>6, <1>7, <1>8 DEF Next

(* The inductive form of the promise about cleaning holds throughout.      *)
LEMMA CleanInvCorrect == Spec => []CleanInv
BY SpoolInvCorrect, EntriesCorrect, CleanInit, CleanStep, PTL DEF Spec

(* What the trash mark achieves: unless a packet was evicted, the spool    *)
(* cleans it at most once and never while it is spooled, and one sent for  *)
(* good or given up was cleaned or is marked for it.                       *)
THEOREM CleaningCorrect == Spec => []CleanedOnce
<1>1. CleanInv => CleanedOnce
  BY DEF CleanInv, CleanedAsMarked, Marked, CleanedOnce
<1> QED
  BY <1>1, CleanInvCorrect, PTL
=============================================================================
