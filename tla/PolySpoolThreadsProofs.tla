------------------------- MODULE PolySpoolThreadsProofs -------------------------
(***************************************************************************)
(* What holds of the spool between its threads, for any number of entries  *)
(* and any packets.  Seen from the spool the threads only ever take steps  *)
(* of PolySpool, so its invariants carry over; on them rests what the      *)
(* thread of tp_service_process may rely on outside the mutex.             *)
(***************************************************************************)
EXTENDS PolySpoolThreads, PolySpoolProofs

-----------------------------------------------------------------------------
(* The threads implement PolySpool.  Of the two halves of set_retry, the   *)
(* first is a set_retry with the timeout already in force.                 *)

SharedInv ==
  /\ SpoolInv /\ EntriesHoldSpooled /\ BudgetInv /\ TimeoutKept /\ alive = TRUE
  /\ pending \in TimeOuts \cup {NotPending}

(* The spool starts empty, and no thread holds anything.                   *)
LEMMA SharedInit == ThreadInit => SharedInv
<1>1. ThreadInit => Init /\ alive = TRUE /\ pending = NotPending
  BY DEF ThreadInit, Init
<1> QED
  BY <1>1, SpoolInvInit, EntriesInit, BudgetInit, TimeoutInit DEF SharedInv

(* Every step of a thread is an operation of the spool or leaves it alone. *)
LEMMA ThreadStepOfSpool ==
  ASSUME SharedInv, [ThreadNext]_threadVars
  PROVE  [Next]_vars /\ alive' = TRUE /\ pending' \in TimeOuts \cup {NotPending}
<1>1. /\ alive = TRUE /\ pending \in TimeOuts \cup {NotPending}
      /\ requested \in TimeOuts /\ spool.mTimeOut = ToInt(requested)
      /\ spool \in SpoolShape
  BY WellFormedShape DEF SharedInv, SpoolInv, TypeOK, CountsExact, WellFormed, TimeoutKept
<1>2. CASE Process
  <2>1. UNCHANGED <<alive, pending>>
    BY <1>2 DEF Process, NoResponse, Response, Callback, CheckReady, PopReady, Transmit,
       Ack, Pop, vars
  <2>2. CASE NoResponse \/ Callback \/ CheckReady \/ Transmit
    BY <1>1, <2>1, <2>2 DEF NoResponse, Callback, CheckReady, Transmit
  <2>3. ASSUME NEW token \in Tokens, Response(token)
        PROVE  Ack(token, TRUE)
    BY <2>3 DEF Response
  <2>4. CASE PopReady
    BY <1>1, <2>1, <2>4 DEF PopReady, Next
  <2> QED  BY <1>1, <1>2, <2>1, <2>2, <2>3, <2>4 DEF Process, Next
<1>3. ASSUME NEW p \in Packets, PushBeside(p)
      PROVE  Push(p) /\ UNCHANGED <<alive, pending>>
  BY <1>3 DEF PushBeside, Push
<1>4. ASSUME NEW ms \in TickSizes, TickBeside(ms)
      PROVE  Tick(ms) /\ UNCHANGED <<alive, pending>>
  BY <1>4 DEF TickBeside, Tick, process
<1>5. ASSUME NEW retries \in RetryLimits, NEW timeoutMs \in TimeOuts,
             SetMaxRetries(retries, timeoutMs)
      PROVE  SetRetry(retries, requested) /\ alive' = alive /\ pending' \in TimeOuts
  <2>1. [spool EXCEPT !.mMaxRetries = retries] = Configured(spool, retries, requested)
    BY <1>1 DEF Configured, SpoolShape
  <2> QED  BY <1>5, <2>1 DEF SetMaxRetries, SetRetry
<1>6. ASSUME SetTimeOut
      PROVE  /\ SetRetry(spool.mMaxRetries, pending) /\ alive' = alive
             /\ pending \in TimeOuts /\ pending' = NotPending
  BY <1>1, <1>6 DEF SetTimeOut, SetRetry
<1>7. SetTimeOut => [Next]_vars
  <2>1. spool.mMaxRetries \in RetryLimits
    BY DEF SharedInv, BudgetInv, AttemptsLeft
  <2> QED  BY <1>1, <1>6, <2>1 DEF Next
<1>8. CASE UNCHANGED threadVars
  BY <1>1, <1>8 DEF threadVars, vars
<1> QED
  BY <1>1, <1>2, <1>3, <1>4, <1>5, <1>6, <1>7, <1>8 DEF ThreadNext, Others, Next

(* The invariant of the shared spool holds throughout.                     *)
LEMMA SharedInvCorrect == ThreadSpec => []SharedInv
<1>1. SharedInv /\ [ThreadNext]_threadVars => SharedInv'
  <2> SUFFICES ASSUME SharedInv, [ThreadNext]_threadVars PROVE SharedInv'
    OBVIOUS
  <2>1. [Next]_vars /\ alive' = TRUE /\ pending' \in TimeOuts \cup {NotPending}
    BY ThreadStepOfSpool
  <2>2. SpoolInv /\ EntriesHoldSpooled /\ BudgetInv /\ TimeoutKept
    BY DEF SharedInv
  <2>3. SpoolInv' /\ EntriesHoldSpooled' /\ BudgetInv' /\ TimeoutKept'
    BY <2>1, <2>2, SpoolInvStep, EntriesStep, BudgetStep, TimeoutStep
  <2> QED  BY <2>1, <2>3 DEF SharedInv
<1> QED
  BY <1>1, SharedInit, PTL DEF ThreadSpec

(* Whatever the threads interleave, callbacks, packing and the two writes  *)
(* of poly_service_set_retry included, the spool goes through steps of     *)
(* PolySpool only: all that is proved of that holds here.                  *)
THEOREM ThreadsImplementSpool == ThreadSpec => Spec
<1>1. ThreadInit => Init
  BY DEF ThreadInit
<1>2. SharedInv /\ [ThreadNext]_threadVars => [Next]_vars
  BY ThreadStepOfSpool
<1> QED
  BY <1>1, <1>2, SharedInvCorrect, PTL DEF ThreadSpec, Spec

(* Attempts are transmissions also between threads, and no packet is given *)
(* up too early or sent too often.                                         *)
THEOREM ThreadRetriesCorrect == ThreadSpec => []RetryBudget
BY ThreadsImplementSpool, RetriesCorrect, PTL

-----------------------------------------------------------------------------
(* What the steps of other threads do to the entries: they may change the  *)
(* packet of one entry, by a push into it, and never take away the last    *)
(* ready packet.                                                           *)

(* What a push leaves alone beside the entry it fills.                     *)
LEMMA PushBesideEffect ==
  ASSUME SharedInv, NEW p \in Packets, PushBeside(p)
  PROVE  /\ \A i \in Slots : spool'.mPacket[i] # spool.mPacket[i] =>
                              Stores(spool, p) /\ NextFree(spool, p) = i
         /\ InState(spool, "READY") # {} => InState(spool', "READY") # {}
<1> DEFINE n == NextFree(spool, p)
<1>1. /\ WellFormed(spool) /\ spool' = Pushed(spool, p) /\ spool \in SpoolShape
  BY WellFormedShape
     DEF SharedInv, SpoolInv, TypeOK, CountsExact, WellFormed, PushBeside, Push
<1>2. CASE ~Stores(spool, p)
  BY <1>1, <1>2, PushEffect
<1>3. CASE Stores(spool, p)
  <2>1. /\ n \in Slots /\ spool'.mState = [spool.mState EXCEPT ![n] = "READY"]
        /\ spool'.mPacket = [spool.mPacket EXCEPT ![n] = p]
    BY ZenonT(40), <1>1, <1>3, PushEffect
  <2>2. /\ spool.mState \in [Slots -> EntryState]
        /\ spool.mPacket \in [Slots -> Packets \cup {NoPacket}]
    BY <1>1 DEF SpoolShape
  <2>3. n \in InState(spool', "READY")
    BY <2>1, <2>2 DEF InState
  <2> QED  BY <1>3, <2>1, <2>2, <2>3
<1> QED
  BY <1>2, <1>3

(* Every other step leaves the packets where they are.                     *)
LEMMA PacketsStay ==
  ASSUME SharedInv, [ThreadNext]_threadVars, \A p \in Packets : ~PushBeside(p)
  PROVE  spool'.mPacket = spool.mPacket
<1>1. WellFormed(spool) /\ spool \in SpoolShape
  BY WellFormedShape DEF SharedInv, SpoolInv, TypeOK, CountsExact, WellFormed
<1>2. ASSUME NEW token \in Tokens, Response(token)
      PROVE  spool'.mPacket = spool.mPacket
  <2>1. spool' = Acked(spool, token, TRUE)
    BY <1>2 DEF Response, Ack
  <2>2. CASE AckMatches(spool, token, TRUE)
    <3>1. AckMatch(spool, token) # ENTRY_NONE
      BY <2>2 DEF AckMatches
    <3> QED  BY <1>1, <2>1, <2>2, <3>1, AckEffect DEF Acked
  <2>3. CASE ~AckMatches(spool, token, TRUE)
    BY <2>1, <2>3 DEF Acked
  <2> QED  BY <2>2, <2>3
<1>3. CASE PopReady
  <2>1. spool' = Popped(spool)
    BY <1>3 DEF PopReady, Pop
  <2> QED  BY <1>1, <2>1, PopEffect
<1>4. ASSUME NEW ms \in TickSizes, TickBeside(ms)
      PROVE  spool'.mPacket = spool.mPacket
  <2>1. spool' = Ticked(spool, ToInt(ms)) /\ ToInt(ms) \in Int
    BY <1>4, InputsAssumption, ToIntType DEF TickBeside, Tick
  <2> QED  BY <1>1, <2>1, TickEffect
<1>5. ASSUME NEW retries, NEW timeoutMs, SetMaxRetries(retries, timeoutMs)
      PROVE  spool'.mPacket = spool.mPacket
  BY <1>1, <1>5 DEF SetMaxRetries, SpoolShape
<1>6. CASE SetTimeOut
  BY <1>1, <1>6 DEF SetTimeOut, SetRetry, Configured, SpoolShape
<1>7. CASE NoResponse \/ Callback \/ CheckReady \/ Transmit \/ UNCHANGED threadVars
  BY <1>7 DEF NoResponse, Callback, CheckReady, Transmit, threadVars, vars
<1> QED
  BY <1>2, <1>3, <1>4, <1>5, <1>6, <1>7 DEF ThreadNext, Process, Others

(* Every other thread's step but a push leaves a ready packet ready.       *)
LEMMA ReadyStay ==
  ASSUME SharedInv, Others, \A p \in Packets : ~PushBeside(p)
  PROVE  InState(spool, "READY") \subseteq InState(spool', "READY")
<1>1. WellFormed(spool) /\ spool \in SpoolShape
  BY WellFormedShape DEF SharedInv, SpoolInv, TypeOK, CountsExact, WellFormed
<1>2. ASSUME NEW ms \in TickSizes, TickBeside(ms)
      PROVE  InState(spool, "READY") \subseteq InState(spool', "READY")
  <2>1. spool' = Ticked(spool, ToInt(ms)) /\ ToInt(ms) \in Int
    BY <1>2, InputsAssumption, ToIntType DEF TickBeside, Tick
  <2>2. GivenUp(spool, ToInt(ms)) \subseteq InState(spool, "WAITING")
    BY DEF GivenUp, Expired
  <2>3. spool'.mState = [i \in Slots |->
          IF i \in Retried(spool, ToInt(ms)) THEN "READY"
          ELSE IF i \in GivenUp(spool, ToInt(ms)) THEN "FREE" ELSE spool.mState[i]]
    BY <1>1, <2>1, TickEffect
  <2> QED  BY <2>2, <2>3 DEF InState
<1>3. ASSUME NEW retries, NEW timeoutMs, SetMaxRetries(retries, timeoutMs)
      PROVE  spool'.mState = spool.mState
  BY <1>1, <1>3 DEF SetMaxRetries, SpoolShape
<1>4. CASE SetTimeOut
  BY <1>1, <1>4 DEF SetTimeOut, SetRetry, Configured, SpoolShape, InState
<1> QED
  BY <1>2, <1>3, <1>4 DEF Others, InState

-----------------------------------------------------------------------------
(* What despool relies on.  A ready packet seen without the mutex may be   *)
(* evicted before pop locks, but the packet it made room for is ready.     *)

(* A count of ready packets read outside the mutex as positive is backed   *)
(* by an entry that is ready.                                              *)
LEMMA ReadableCountFound ==
  ASSUME SharedInv, NEW n \in ReadableCounts, n > 0
  PROVE  InState(spool, "READY") # {}
<1>1. /\ spool \in SpoolShape /\ spool.mReadyCount = Cardinality(InState(spool, "READY"))
  BY WellFormedShape
     DEF SharedInv, SpoolInv, TypeOK, CountsExact, WellFormed, CountsMatch
<1>2. n <= spool.mReadyCount
  <2>1. ASSUME NEW p \in Packets
        PROVE  AfterNextFree(spool, p).mReadyCount <= spool.mReadyCount
    BY <1>1 DEF AfterNextFree, SpoolShape
  <2> QED  BY <1>1, <2>1 DEF ReadableCounts, SpoolShape
<1>3. n \in Int /\ Cardinality({}) = 0
  <2>1. ASSUME NEW p \in Packets
        PROVE  AfterNextFree(spool, p).mReadyCount \in Int
    BY <1>1 DEF AfterNextFree, SpoolShape
  <2> QED  BY <1>1, <2>1, FS_EmptySet DEF ReadableCounts, SpoolShape
<1> QED
  BY <1>1, <1>2, <1>3 DEF SpoolShape

(* No other thread takes a ready packet away between the read and the pop. *)
LEMMA PopFindsReadyStep ==
  ASSUME SharedInv, PopFindsReady, [ThreadNext]_threadVars
  PROVE  PopFindsReady'
<1> DEFINE Ready(s) == InState(s, "READY")
<1>1. NextReady(spool) # ENTRY_NONE => Ready(spool) # {}
  BY FirstOfSlots DEF NextReady, InState
<1>2. Ready(spool') # {} => NextReady(spool') # ENTRY_NONE
  BY FirstOfSlots DEF NextReady, InState
<1>3. CASE CheckReady
  <2>1. PICK n \in ReadableCounts : Proceed(IF n > 0 THEN "pop" ELSE "parse")
    BY <1>3 DEF CheckReady
  <2>2. pc' = "pop" => n > 0
    BY <2>1 DEF Proceed
  <2>3. spool' = spool
    BY <1>3 DEF CheckReady, vars
  <2> QED  BY <1>2, <2>2, <2>3, ReadableCountFound DEF PopFindsReady
<1>4. CASE Process /\ ~CheckReady
  <2>1. pc' # "pop"
    BY <1>4 DEF Process, NoResponse, Response, Callback, PopReady, Transmit, Proceed, LeaveWith
  <2> QED  BY <2>1 DEF PopFindsReady
<1>5. CASE Others
  <2>1. pc' = pc
    BY <1>5 DEF Others, PushBeside, TickBeside, SetMaxRetries, SetTimeOut, process
  <2>2. Ready(spool) # {} => Ready(spool') # {}
    BY <1>5, PushBesideEffect, ReadyStay
  <2> QED  BY <1>1, <1>2, <2>1, <2>2 DEF PopFindsReady
<1>6. CASE UNCHANGED threadVars
  BY <1>6 DEF threadVars, vars, process, PopFindsReady
<1> QED
  BY <1>3, <1>4, <1>5, <1>6 DEF ThreadNext

(* mReadyCount, read without the mutex while a push may be half done,      *)
(* never sends poly_service_despool_interface to a spool with nothing      *)
(* ready.                                                                  *)
THEOREM ReadyCountReliable == ThreadSpec => []PopFindsReady
<1>1. ThreadInit => PopFindsReady
  BY DEF ThreadInit, PopFindsReady
<1> QED
  BY <1>1, PopFindsReadyStep, SharedInvCorrect, PTL DEF ThreadSpec

-----------------------------------------------------------------------------
(* What the thread holds after the unlock.  The entry it came from keeps   *)
(* its packet until a push refills it, and a packet in an entry has not    *)
(* been cleaned (CleanInv).                                                *)

HeldInv ==
  /\ pc \in {"parse", "callback", "check", "pop", "pack"}
  /\ at \in Slots /\ refilled \in BOOLEAN
  /\ IF pc \in {"callback", "pack"}
     THEN held \in Packets /\ (~refilled => spool.mPacket[at] = held)
     ELSE held = NoPacket

(* Nothing is held at the start.                                           *)
LEMMA HeldInit == ThreadInit => HeldInv
<1>1. 0 \in Slots
  BY MaxEntriesAssumption DEF Slots
<1> QED
  BY <1>1 DEF ThreadInit, HeldInv

(* Every step keeps what is said of the held entry.                        *)
LEMMA HeldStep ==
  ASSUME SharedInv, HeldInv, [ThreadNext]_threadVars
  PROVE  HeldInv'
<1>1. WellFormed(spool) /\ 0 \in Slots
  BY MaxEntriesAssumption
     DEF SharedInv, SpoolInv, TypeOK, CountsExact, WellFormed, Slots
<1>2. CASE NoResponse \/ Callback \/ CheckReady \/ Transmit
  BY <1>1, <1>2 DEF NoResponse, Callback, CheckReady, Transmit, Proceed, HeldInv
<1>3. ASSUME NEW i \in InUse(spool), NEW next \in {"callback", "pack"},
             LeaveWith(next, i), spool'.mPacket = spool.mPacket
      PROVE  HeldInv'
  <2>1. i \in Slots /\ spool.mPacket[i] \in Packets
    BY DEF SharedInv, EntriesHoldSpooled, InUse
  <2> QED  BY <1>3, <2>1 DEF LeaveWith, HeldInv
<1>4. ASSUME NEW token \in Tokens, Response(token) PROVE HeldInv'
  <2>1. CASE AckMatches(spool, token, TRUE)
    <3>1. AckMatch(spool, token) \in InUse(spool)
      <4>1. AckMatch(spool, token) # ENTRY_NONE
        BY <2>1 DEF AckMatches
      <4>2. AckMatch(spool, token) \in Slots /\ spool.mState[AckMatch(spool, token)] = "WAITING"
        BY <1>1, <4>1, AckEffect
      <4> QED  BY <4>2 DEF InUse
    <3>2. spool'.mPacket = spool.mPacket
      BY <1>1, <1>4, <2>1, <3>1, AckEffect DEF Response, Ack, Acked, AckMatches
    <3> QED  BY <1>3, <1>4, <2>1, <3>1, <3>2 DEF Response
  <2>2. CASE ~AckMatches(spool, token, TRUE)
    BY <1>1, <1>4, <2>2 DEF Response, Proceed, HeldInv
  <2> QED  BY <2>1, <2>2
<1>5. CASE PopReady
  <2>1. CASE NextReady(spool) # ENTRY_NONE
    <3>1. /\ NextReady(spool) \in InUse(spool) /\ spool' = Popped(spool)
          /\ Popped(spool).mPacket = spool.mPacket
      BY <1>1, <1>5, <2>1, PopEffect DEF InUse, PopReady, Pop
    <3> QED  BY <1>3, <1>5, <2>1, <3>1 DEF PopReady
  <2>2. CASE NextReady(spool) = ENTRY_NONE
    BY <1>1, <1>5, <2>2 DEF PopReady, Proceed, HeldInv
  <2> QED  BY <2>1, <2>2
<1>6. ASSUME NEW p \in Packets, PushBeside(p) PROVE HeldInv'
  <2>1. /\ refilled' = (refilled \/ /\ pc \in {"callback", "pack"}
                                    /\ Stores(spool, p) /\ NextFree(spool, p) = at)
        /\ UNCHANGED <<pc, at, held>>
    BY <1>6 DEF PushBeside
  <2>2. \A i \in Slots : spool'.mPacket[i] # spool.mPacket[i] =>
                          Stores(spool, p) /\ NextFree(spool, p) = i
    BY <1>6, PushBesideEffect
  <2> QED  BY <2>1, <2>2 DEF HeldInv
<1>7. CASE Others /\ \A p \in Packets : ~PushBeside(p)
  <2>1. UNCHANGED process
    BY <1>7 DEF Others, TickBeside, SetMaxRetries, SetTimeOut, process
  <2>2. spool'.mPacket = spool.mPacket
    BY <1>7, PacketsStay
  <2> QED  BY <2>1, <2>2 DEF process, HeldInv
<1>8. CASE UNCHANGED threadVars
  BY <1>8 DEF threadVars, vars, process, HeldInv
<1> QED
  BY <1>2, <1>4, <1>5, <1>6, <1>7, <1>8 DEF ThreadNext, Process, Others

(* What is said of the held entry holds throughout.                        *)
LEMMA HeldInvCorrect == ThreadSpec => []HeldInv
BY HeldInit, HeldStep, SharedInvCorrect, PTL DEF ThreadSpec

(* Every state of the threads has its type.                                *)
THEOREM ThreadTypeCorrect == ThreadSpec => []ThreadTypeOK
<1>1. SharedInv /\ HeldInv => ThreadTypeOK
  BY PacketsAssumption DEF SharedInv, SpoolInv, HeldInv, ThreadTypeOK
<1> QED
  BY <1>1, SharedInvCorrect, HeldInvCorrect, PTL

(* Unless a push has refilled the entry it works on, the thread runs the   *)
(* callback of the packet that was answered and packs fields that nobody   *)
(* has cleaned.                                                            *)
THEOREM HeldUndisturbed == ThreadSpec => []OnlyRefillDisturbs
<1>1. HeldInv /\ CleanInv => OnlyRefillDisturbs
  BY DEF HeldInv, CleanInv, OnceInEntries, OnlyRefillDisturbs, Called
<1>2. ThreadSpec => []CleanInv
  BY ThreadsImplementSpool, CleanInvCorrect, PTL
<1> QED
  BY <1>1, <1>2, HeldInvCorrect, PTL
=============================================================================
