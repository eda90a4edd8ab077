-------------------------- MODULE PolySpoolRefinement --------------------------
(***************************************************************************)
(* PolySpool implements SpoolContract, for any number of entries and any   *)
(* packets: every call on the spool does to the packets what one operation *)
(* of the contract does.  The contract knows neither entries nor counters, *)
(* so the proof reads the status of a packet from its entry and the number *)
(* of packets held from the number of entries in use.                      *)
(***************************************************************************)
EXTENDS PolySpoolProofs, FunctionTheorems

-----------------------------------------------------------------------------
(* The refinement mapping, of any spool s and fates f, so that it can be   *)
(* used of the states before and after a step.                             *)

Housed(s, f) ==
  /\ \A i \in InUse(s) : s.mPacket[i] \in Packets /\ f[s.mPacket[i]] = "spooled"
  /\ \A i, j \in InUse(s) : s.mPacket[i] = s.mPacket[j] => i = j
  /\ \A p \in Packets : f[p] = "spooled" => \E i \in InUse(s) : s.mPacket[i] = p

StatusIn(s, f, p) ==
  IF f[p] # "spooled" THEN f[p]
  ELSE IF \E i \in InState(s, "READY") : s.mPacket[i] = p THEN "ready"
  ELSE IF \E i \in InState(s, "WAITING") : s.mPacket[i] = p THEN "waiting"
  ELSE "lost"

(* The status of a packet is its fate, or the state of the one entry that  *)
(* holds it.                                                               *)
LEMMA StatusByEntry ==
  ASSUME NEW s, NEW f, s.mState \in [Slots -> EntryState], Housed(s, f),
         NEW p \in Packets
  PROVE  /\ f[p] # "spooled" => StatusIn(s, f, p) = f[p]
         /\ \A i \in InUse(s) : s.mPacket[i] = p =>
              StatusIn(s, f, p) = IF s.mState[i] = "READY" THEN "ready" ELSE "waiting"
<1>1. f[p] # "spooled" => StatusIn(s, f, p) = f[p]
  BY DEF StatusIn
<1>2. ASSUME NEW i \in InUse(s), s.mPacket[i] = p
      PROVE  StatusIn(s, f, p) = IF s.mState[i] = "READY" THEN "ready" ELSE "waiting"
  <2>1. f[p] = "spooled" /\ \A j \in InUse(s) : s.mPacket[j] = p => j = i
    BY <1>2 DEF Housed
  <2>2. i \in Slots /\ s.mState[i] \in {"READY", "WAITING"}
    BY DEF InUse, EntryState
  <2>3. CASE s.mState[i] = "READY"
    <3>1. i \in InState(s, "READY")
      BY <2>2, <2>3 DEF InState
    <3> QED  BY <1>2, <2>1, <2>3, <3>1 DEF StatusIn
  <2>4. CASE s.mState[i] # "READY"
    <3>1. i \in InState(s, "WAITING")
      BY <2>2, <2>4 DEF InState
    <3>2. ~\E j \in InState(s, "READY") : s.mPacket[j] = p
      <4>1. \A j \in InState(s, "READY") : j \in InUse(s) /\ s.mState[j] = "READY"
        BY DEF InState, InUse
      <4> QED  BY <2>1, <2>4, <4>1
    <3> QED  BY <1>2, <2>1, <2>4, <3>1, <3>2 DEF StatusIn
  <2> QED  BY <2>3, <2>4
<1> QED
  BY <1>1, <1>2

(* So a packet is ready, or waiting, if and only if such an entry holds    *)
(* it, and held if and only if it is spooled.                              *)
LEMMA StatusReadsBack ==
  ASSUME NEW s, NEW f \in [Packets -> Fate], s.mState \in [Slots -> EntryState],
         Housed(s, f), NEW p \in Packets
  PROVE  /\ StatusIn(s, f, p) = "ready" =>
              \E i \in InState(s, "READY") : s.mPacket[i] = p
         /\ StatusIn(s, f, p) = "waiting" =>
              \E i \in InState(s, "WAITING") : s.mPacket[i] = p
         /\ f[p] = "spooled" <=> StatusIn(s, f, p) \in {"ready", "waiting"}
         /\ StatusIn(s, f, p) = "caller" <=> f[p] = "caller"
<1>1. CASE f[p] # "spooled"
  BY <1>1 DEF StatusIn, Fate, Final
<1>2. CASE f[p] = "spooled"
  <2>1. PICK i \in InUse(s) : s.mPacket[i] = p
    BY <1>2 DEF Housed
  <2>2. StatusIn(s, f, p) = IF s.mState[i] = "READY" THEN "ready" ELSE "waiting"
    BY <2>1, StatusByEntry
  <2>3. i \in InState(s, "READY") \/ (i \in InState(s, "WAITING") /\ s.mState[i] # "READY")
    BY DEF InUse, InState, EntryState
  <2>4. i \in InState(s, "READY") => s.mState[i] = "READY"
    BY DEF InState
  <2> QED  BY <1>2, <2>1, <2>2, <2>3, <2>4
<1> QED
  BY <1>1, <1>2

(* There are as many spooled packets as entries in use.                    *)
LEMMA HeldCount ==
  ASSUME NEW s, NEW f, Housed(s, f)
  PROVE  Cardinality({p \in Packets : f[p] = "spooled"}) = Cardinality(InUse(s))
<1> DEFINE U == InUse(s)
           H == {p \in Packets : f[p] = "spooled"}
           F == [i \in U |-> s.mPacket[i]]
<1>1. F \in Bijection(U, H)
  <2>1. F \in [U -> H]
    BY DEF Housed
  <2>2. \A i, j \in U : F[i] = F[j] => i = j
    BY DEF Housed
  <2>3. \A p \in H : \E i \in U : F[i] = p
    BY DEF Housed
  <2> HIDE DEF F, U, H
  <2> QED  BY <2>1, <2>2, <2>3, Fun_IsBij
<1>2. ExistsBijection(U, H)
  BY <1>1, Fun_ExistsBij
<1>3. IsFiniteSet(U)
  BY SlotsFinite DEF InUse
<1> HIDE DEF U, H
<1>4. Cardinality(H) = Cardinality(U)
  BY <1>2, <1>3, FS_Bijection
<1> QED
  BY <1>4 DEF U, H

(* The spool is full if and only if no entry is FREE.                      *)
LEMMA FullCount ==
  ASSUME NEW s, s.mState \in [Slots -> EntryState]
  PROVE  /\ InState(s, "FREE") = {} => Cardinality(InUse(s)) = MaxEntries
         /\ InState(s, "FREE") # {} => Cardinality(InUse(s)) < MaxEntries
<1>1. IsFiniteSet(Slots) /\ Cardinality(Slots) = MaxEntries
  <2>1. IsFiniteSet(0 .. MaxEntries - 1)
        /\ Cardinality(0 .. MaxEntries - 1) = MaxEntries
    BY MaxEntriesAssumption, FS_Interval
  <2> QED  BY <2>1 DEF Slots
<1>2. InUse(s) \in SUBSET Slots /\ (InUse(s) = Slots <=> InState(s, "FREE") = {})
  BY DEF InUse, InState
<1>3. /\ Cardinality(InUse(s)) <= MaxEntries
      /\ Cardinality(Slots) = Cardinality(InUse(s)) => InUse(s) = Slots
  BY <1>1, <1>2, FS_Subset
<1>4. Cardinality(InUse(s)) \in Nat
  BY <1>2, SlotsFinite
<1> QED
  BY <1>1, <1>2, <1>3, <1>4, MaxEntriesAssumption

(* A packet whose fate and entry an operation leaves alone keeps its       *)
(* status.                                                                 *)
LEMMA SameStatus ==
  ASSUME NEW s, NEW f, s.mState \in [Slots -> EntryState], Housed(s, f),
         NEW t, NEW g, t.mState \in [Slots -> EntryState], Housed(t, g),
         NEW q \in Packets, g[q] = f[q],
         \A j \in InUse(s) : s.mPacket[j] = q =>
           t.mState[j] = s.mState[j] /\ t.mPacket[j] = q
  PROVE  StatusIn(t, g, q) = StatusIn(s, f, q)
<1>1. CASE f[q] # "spooled"
  BY <1>1, StatusByEntry
<1>2. CASE f[q] = "spooled"
  <2>1. PICK j \in InUse(s) : s.mPacket[j] = q
    BY <1>2 DEF Housed
  <2>2. j \in InUse(t) /\ t.mPacket[j] = q /\ t.mState[j] = s.mState[j]
    BY <2>1 DEF InUse
  <2> QED  BY <2>1, <2>2, StatusByEntry
<1> QED
  BY <1>1, <1>2

-----------------------------------------------------------------------------
(* What the steps need to know of the state they start in.  Besides the    *)
(* invariants above: an entry waits only for a packet that asks for an     *)
(* acknowledgement, so that a response the spool refuses has the token of  *)
(* no waiting packet.                                                      *)

WaitingWantsAck ==
  \A i \in InState(spool, "WAITING") : ~AckFlag[spool.mPacket[i]]

RefInv == SpoolInv /\ EntriesHoldSpooled /\ BudgetInv /\ WaitingWantsAck

(* Only pop makes an entry wait, and only for such a packet; a push that   *)
(* puts another packet into the entry makes it READY.                      *)
LEMMA WaitingStep ==
  SpoolInv /\ WaitingWantsAck /\ [Next]_vars => WaitingWantsAck'
<1> SUFFICES ASSUME SpoolInv, WaitingWantsAck, [Next]_vars PROVE WaitingWantsAck'
  OBVIOUS
<1>1. WellFormed(spool) /\ spool \in SpoolShape
  BY WellFormedShape DEF SpoolInv, TypeOK, CountsExact, WellFormed
<1>2. ASSUME NEW p \in Packets, Push(p) PROVE WaitingWantsAck'
  <2>1. CASE Stores(spool, p)
    <3>1. /\ NextFree(spool, p) \in Slots
          /\ spool'.mState = [spool.mState EXCEPT ![NextFree(spool, p)] = "READY"]
          /\ spool'.mPacket = [spool.mPacket EXCEPT ![NextFree(spool, p)] = p]
      BY <1>1, <1>2, <2>1, PushEffect DEF Push
    <3> QED  BY <1>1, <3>1 DEF WaitingWantsAck, InState, SpoolShape
  <2>2. CASE ~Stores(spool, p)
    BY <1>1, <1>2, <2>2, PushEffect DEF Push, WaitingWantsAck
  <2> QED  BY <2>1, <2>2
<1>3. ASSUME Pop PROVE WaitingWantsAck'
  <2> DEFINE i == NextReady(spool)
  <2>1. CASE i = ENTRY_NONE
    BY <1>1, <1>3, <2>1, PopEffect DEF Pop, WaitingWantsAck
  <2>2. CASE i # ENTRY_NONE
    <3>1. /\ i \in Slots /\ spool'.mPacket = spool.mPacket
          /\ AwaitsAck(spool, spool.mPacket[i]) =>
               spool'.mState = [spool.mState EXCEPT ![i] = "WAITING"]
          /\ ~AwaitsAck(spool, spool.mPacket[i]) =>
               spool'.mState = [spool.mState EXCEPT ![i] = "FREE"]
      BY <1>1, <1>3, <2>2, PopEffect DEF Pop
    <3> HIDE DEF i
    <3> QED  BY <1>1, <3>1 DEF WaitingWantsAck, InState, SpoolShape, AwaitsAck
  <2> QED  BY <2>1, <2>2
<1>4. ASSUME NEW token \in Tokens, NEW flag \in BOOLEAN, Ack(token, flag)
      PROVE  WaitingWantsAck'
  <2>1. CASE AckMatches(spool, token, flag)
    <3>1. /\ spool'.mPacket = spool.mPacket
          /\ spool'.mState = [spool.mState EXCEPT ![AckMatch(spool, token)] = "FREE"]
      BY <1>1, <1>4, <2>1, AckEffect DEF Ack, Acked, AckMatches
    <3> QED  BY <1>1, <3>1 DEF WaitingWantsAck, InState, SpoolShape
  <2>2. CASE ~AckMatches(spool, token, flag)
    BY <1>4, <2>2 DEF Ack, Acked, WaitingWantsAck
  <2> QED  BY <2>1, <2>2
<1>5. ASSUME NEW ms \in TickSizes, Tick(ms) PROVE WaitingWantsAck'
  <2>1. ToInt(ms) \in Int
    BY InputsAssumption, ToIntType
  <2>2. /\ spool'.mPacket = spool.mPacket
        /\ spool'.mState = [i \in Slots |->
             IF i \in Retried(spool, ToInt(ms)) THEN "READY"
             ELSE IF i \in GivenUp(spool, ToInt(ms)) THEN "FREE" ELSE spool.mState[i]]
    BY <1>1, <1>5, <2>1, TickEffect DEF Tick
  <2> QED  BY <2>2 DEF WaitingWantsAck, InState
<1>6. ASSUME NEW retries \in RetryLimits, NEW timeoutMs \in TimeOuts,
             SetRetry(retries, timeoutMs)
      PROVE  WaitingWantsAck'
  BY <1>1, <1>6 DEF SetRetry, Configured, SpoolShape, WaitingWantsAck, InState
<1>7. ASSUME Deinit \/ UNCHANGED vars PROVE WaitingWantsAck'
  BY <1>7 DEF Deinit, vars, WaitingWantsAck
<1> QED
  BY <1>2, <1>3, <1>4, <1>5, <1>6, <1>7 DEF Next

(* Together they hold in every reachable state.                            *)
LEMMA RefInvCorrect == Spec => []RefInv
<1>1. Init => WaitingWantsAck
  BY DEF Init, InitialSpool, WaitingWantsAck, InState
<1> QED
  BY <1>1, WaitingStep, BudgetInit, BudgetStep, SpoolInvCorrect, EntriesCorrect, PTL
  DEF Spec, RefInv

-----------------------------------------------------------------------------
(* The steps.  Each operation on the spool is an operation of the contract *)
(* on the statuses.                                                        *)

Mapped == [p \in Packets |-> StatusOf(p)]

(* The contract counts as the spool does.                                  *)
LEMMA SameCardinality ==
  ASSUME NEW S
  PROVE  Contract!Cardinality(S) = Cardinality(S)
BY DEF Contract!Cardinality, Cardinality

(* What the contract sees of a state of the spool.                         *)
LEMMA MappedState ==
  ASSUME RefInv
  PROVE  /\ WellFormed(spool) /\ spool \in SpoolShape /\ fate \in [Packets -> Fate]
         /\ Housed(spool, fate)
         /\ \A p \in Packets : Mapped[p] = StatusIn(spool, fate, p)
         /\ Contract!Held = {p \in Packets : fate[p] = "spooled"}
         /\ Cardinality(Contract!Held) = Cardinality(InUse(spool))
         /\ \A p \in Packets : p \in Contract!In("ready") <=> Mapped[p] = "ready"
         /\ \A p \in Packets : p \in Contract!In("waiting") <=> Mapped[p] = "waiting"
<1>1. WellFormed(spool) /\ spool \in SpoolShape /\ fate \in [Packets -> Fate]
  BY WellFormedShape DEF RefInv, SpoolInv, TypeOK, CountsExact, WellFormed
<1>2. Housed(spool, fate)
  BY DEF RefInv, EntriesHoldSpooled, Housed
<1>3. \A p \in Packets : Mapped[p] = StatusIn(spool, fate, p)
  BY DEF Mapped, StatusOf, StatusIn
<1>4. /\ \A p \in Packets : p \in Contract!In("ready") <=> Mapped[p] = "ready"
      /\ \A p \in Packets : p \in Contract!In("waiting") <=> Mapped[p] = "waiting"
  BY DEF Contract!In, Mapped
<1>5. Contract!Held \in SUBSET Packets
  BY DEF Contract!Held, Contract!In
<1>6. \A p \in Packets : p \in Contract!Held <=> Mapped[p] \in {"ready", "waiting"}
  BY <1>4 DEF Contract!Held
<1>7. \A p \in Packets : fate[p] = "spooled" <=> StatusIn(spool, fate, p) \in {"ready", "waiting"}
  BY <1>1, <1>2, StatusReadsBack DEF SpoolShape
<1>8. Contract!Held = {p \in Packets : fate[p] = "spooled"}
  BY <1>3, <1>5, <1>6, <1>7
<1>9. Cardinality(Contract!Held) = Cardinality(InUse(spool))
  BY <1>2, <1>8, HeldCount
<1> QED
  BY <1>1, <1>2, <1>3, <1>4, <1>8, <1>9

(* ... and of the state a step leaves.                                     *)
LEMMA MappedNext ==
  ASSUME SpoolInv', EntriesHoldSpooled'
  PROVE  /\ spool'.mState \in [Slots -> EntryState] /\ Housed(spool', fate')
         /\ \A p \in Packets : Mapped'[p] = StatusIn(spool', fate', p)
         /\ Mapped' = [p \in Packets |-> StatusIn(spool', fate', p)]
<1>1. spool'.mState \in [Slots -> EntryState]
  BY DEF SpoolInv, TypeOK, SpoolType
<1>2. Housed(spool', fate')
  BY DEF EntriesHoldSpooled, Housed
<1>3. Mapped' = [p \in Packets |-> StatusIn(spool', fate', p)]
  BY DEF Mapped, StatusOf, StatusIn
<1> QED
  BY <1>1, <1>2, <1>3

(* push takes the packet in, lets one of the lowest priority give way to   *)
(* it, or refuses it because none could.                                   *)
LEMMA PushRefines ==
  ASSUME RefInv, SpoolInv', EntriesHoldSpooled', alive,
         NEW p \in Packets, Push(p)
  PROVE  Contract!Next
<1> DEFINE i == NextFree(spool, p)
           q == spool.mPacket[i]
<1>1. /\ WellFormed(spool) /\ spool \in SpoolShape /\ spool \in SpoolType
      /\ fate \in [Packets -> Fate]
      /\ Housed(spool, fate) /\ spool'.mState \in [Slots -> EntryState]
      /\ Housed(spool', fate')
      /\ \A r \in Packets : Mapped[r] = StatusIn(spool, fate, r)
      /\ \A r \in Packets : Mapped'[r] = StatusIn(spool', fate', r)
      /\ Contract!Held = {r \in Packets : fate[r] = "spooled"}
      /\ Cardinality(Contract!Held) = Cardinality(InUse(spool))
  BY MappedState, MappedNext, WellFormedShape
<1>2. fate[p] = "caller" /\ Mapped[p] = "caller"
  BY <1>1, StatusByEntry DEF Push, SpoolShape
<1>3. /\ spool' = Pushed(spool, p) /\ result' = PushStatus(spool, p)
      /\ UNCHANGED sent /\ alive' = alive
      /\ spool'.mTimeOut = spool.mTimeOut
      /\ spool'.mMaxRetries = spool.mMaxRetries
  <2>1. Pushed(spool, p).mMaxRetries = spool.mMaxRetries
    BY <1>1, PushEffect
  <2> QED  BY <1>1, <2>1, OperationsKeepTimeout DEF Push
<1>4. /\ InState(spool, "FREE") = {} => Cardinality(Contract!Held) = MaxEntries
      /\ InState(spool, "FREE") # {} => Cardinality(Contract!Held) < MaxEntries
  BY <1>1, FullCount DEF SpoolShape
<1>5. CASE ~Stores(spool, p)
  <2>1. spool' = spool /\ ~Evicts(spool, p)
    BY <1>1, <1>3, <1>5, PushEffect
  <2>2. fate' = fate
    BY <1>1, <1>5, <2>1 DEF Push
  <2>3. InState(spool, "FREE") = {} /\ Outranked(spool, p) = {}
    <3>1. CASE InState(spool, "FREE") # {}
      <4>1. AfterNextFree(spool, p) = spool /\ i # ENTRY_NONE
        <5>1. i \in Slots
          BY <1>1, <3>1, NextFreeChoice DEF InState
        <5> QED  BY <2>1, <5>1, MaxEntriesAssumption DEF AfterNextFree, ENTRY_NONE, Slots
      <4>2. spool.mCount < MaxEntries
        BY <1>1, <1>4, <3>1 DEF RefInv, SpoolInv, CountsExact, CountsMatch
      <4>3. spool.mCount \in Int
        BY <1>1 DEF SpoolType
      <4> QED  BY <1>5, <4>1, <4>2, <4>3, MaxEntriesAssumption DEF Stores, Overflows
    <3>2. CASE InState(spool, "FREE") = {}
      BY <1>1, <2>1, <3>2, NextFreeChoice
    <3> QED  BY <3>1, <3>2
  <2>4. result' = "SPOOL_OVERFLOW"
    <3>1. AfterNextFree(spool, p) = spool
      BY <2>1 DEF AfterNextFree
    <3>2. spool.mCount = MaxEntries
      BY <1>1, <1>4, <2>3 DEF RefInv, SpoolInv, CountsExact, CountsMatch
    <3> QED  BY <1>3, <3>1, <3>2, MaxEntriesAssumption DEF PushStatus, Overflows
  <2>5. \A r \in Contract!Held : Priority[r] >= Priority[p]
    <3> SUFFICES ASSUME NEW r \in Contract!Held PROVE Priority[r] >= Priority[p]
      OBVIOUS
    <3>1. r \in Packets /\ \E j \in InUse(spool) : spool.mPacket[j] = r
      BY <1>1 DEF Housed
    <3>2. PICK j \in Slots : spool.mPacket[j] = r
      BY <3>1 DEF InUse
    <3>3. ~(PriorityOf(r) < Priority[p])
      BY <2>3, <3>2 DEF Outranked
    <3>4. PriorityOf(r) = Priority[r] /\ Priority[r] \in Int /\ Priority[p] \in Int
      BY <3>1, PacketsAssumption DEF PriorityOf
    <3> QED  BY <3>3, <3>4
  <2>6. Mapped' = Mapped
    BY <2>1, <2>2 DEF Mapped, StatusOf
  <2>7. Contract!Reject(p)
    BY <1>2, <1>3, <1>4, <2>1, <2>3, <2>4, <2>5, <2>6, SameCardinality DEF Contract!Reject, Mapped
  <2> QED  BY <2>7 DEF Contract!Next
<1>6. CASE Stores(spool, p)
  <2>1. /\ i \in Slots
        /\ Evicts(spool, p) => spool.mState[i] # "FREE" /\ InState(spool, "FREE") = {}
        /\ ~Evicts(spool, p) => spool.mState[i] = "FREE"
        /\ spool'.mState = [spool.mState EXCEPT ![i] = "READY"]
        /\ spool'.mPacket = [spool.mPacket EXCEPT ![i] = p]
    BY <1>1, <1>3, <1>6, PushEffect
  <2>2. result' = "SPOOL_OK"
    BY <1>3, <1>6 DEF Stores, PushStatus
  <2>3. \A r \in Packets :
          fate'[r] = IF r = p THEN "spooled"
                     ELSE IF Evicts(spool, p) /\ r = q THEN "evicted" ELSE fate[r]
    BY <1>6 DEF Push
  <2>4. /\ spool.mState \in [Slots -> EntryState]
        /\ spool.mPacket \in [Slots -> Packets \cup {NoPacket}]
    BY <1>1 DEF SpoolShape
  <2>5. Mapped'[p] = "ready"
    <3>1. i \in InUse(spool') /\ spool'.mPacket[i] = p /\ spool'.mState[i] = "READY"
      BY <2>1, <2>4 DEF InUse
    <3> QED  BY <1>1, <3>1, StatusByEntry
  <2>6. ASSUME NEW r \in Packets, r # p, ~(Evicts(spool, p) /\ r = q)
        PROVE  Mapped'[r] = Mapped[r]
    <3>1. fate'[r] = fate[r]
      BY <2>3, <2>6
    <3>2. ASSUME NEW j \in InUse(spool), spool.mPacket[j] = r
          PROVE  spool'.mState[j] = spool.mState[j] /\ spool'.mPacket[j] = r
      <4>1. j # i
        BY <2>1, <2>6, <3>2 DEF InUse
      <4> HIDE DEF i
      <4> QED  BY <2>1, <2>4, <3>2, <4>1 DEF InUse
    <3> QED  BY <1>1, <2>4, <3>1, <3>2, SameStatus
  <2>7. Mapped = [r \in Packets |-> Mapped[r]] /\ Mapped' = [r \in Packets |-> Mapped'[r]]
    BY DEF Mapped
  <2>8. CASE ~Evicts(spool, p)
    <3>1. Mapped' = [Mapped EXCEPT ![p] = "ready"]
      BY <2>5, <2>6, <2>7, <2>8
    <3>2. InState(spool, "FREE") # {}
      BY <2>1, <2>8 DEF InState
    <3>3. Contract!Accept(p)
      BY <1>2, <1>3, <1>4, <2>2, <3>1, <3>2, SameCardinality DEF Contract!Accept, Mapped
    <3> QED  BY <3>3 DEF Contract!Next
  <2>9. CASE Evicts(spool, p)
    <3>1. i \in InUse(spool) /\ InState(spool, "FREE") = {}
      BY <2>1, <2>9 DEF InUse
    <3>2. q \in Packets /\ fate[q] = "spooled" /\ q # p
      BY <1>1, <1>2, <3>1 DEF Housed
    <3>3. Mapped'[q] = "evicted"
      BY <1>1, <2>3, <2>9, <3>2, StatusByEntry
    <3>4. Mapped' = [Mapped EXCEPT ![p] = "ready", ![q] = "evicted"]
      <4> HIDE DEF q
      <4> QED  BY <2>5, <2>6, <2>7, <3>2, <3>3
    <3>5. Priority[q] < Priority[p]
      BY <1>1, <2>9, <3>2, NextFreeChoice, PacketsAssumption DEF Outranked, PriorityOf
    <3>6. \A r \in Contract!Held : Priority[q] <= Priority[r]
      <4> SUFFICES ASSUME NEW r \in Contract!Held PROVE Priority[q] <= Priority[r]
        OBVIOUS
      <4>1. r \in Packets /\ \E j \in InUse(spool) : spool.mPacket[j] = r
        BY <1>1 DEF Housed
      <4>2. PICK j \in Slots : spool.mPacket[j] = r
        BY <4>1 DEF InUse
      <4>3. PriorityOf(q) <= PriorityOf(r)
        BY <1>1, <2>9, <4>2, NextFreeChoice
      <4> QED  BY <3>2, <4>1, <4>3, PacketsAssumption DEF PriorityOf
    <3>7. q \in Contract!Held
      BY <1>1, <3>2
    <3> HIDE DEF q
    <3>8. Contract!Replace(p, q)
      BY <1>2, <1>3, <1>4, <2>2, <3>1, <3>4, <3>5, <3>6, <3>7, SameCardinality DEF Contract!Replace, Mapped
    <3> QED  BY <3>2, <3>8 DEF Contract!Next
  <2> QED  BY <2>8, <2>9
<1> QED
  BY <1>5, <1>6

(* pop transmits a ready packet, which then waits if it asks for an        *)
(* acknowledgement and the timeout is positive, or finds none ready.       *)
LEMMA PopRefines ==
  ASSUME RefInv, SpoolInv', EntriesHoldSpooled', alive, Pop
  PROVE  Contract!Next
<1> DEFINE i == NextReady(spool)
           q == spool.mPacket[i]
<1>1. /\ WellFormed(spool) /\ spool \in SpoolShape /\ fate \in [Packets -> Fate]
      /\ Housed(spool, fate) /\ spool'.mState \in [Slots -> EntryState]
      /\ Housed(spool', fate')
      /\ \A r \in Packets : Mapped[r] = StatusIn(spool, fate, r)
      /\ \A r \in Packets : Mapped'[r] = StatusIn(spool', fate', r)
      /\ \A r \in Packets : r \in Contract!In("ready") <=> Mapped[r] = "ready"
  BY MappedState, MappedNext
<1>2. /\ spool' = Popped(spool) /\ alive' = alive
      /\ spool'.mTimeOut = spool.mTimeOut
  BY <1>1, OperationsKeepTimeout DEF Pop
<1>3. /\ InState(spool, "READY") \in SUBSET Slots
      /\ InState(spool, "READY") = {} => i = ENTRY_NONE
      /\ InState(spool, "READY") # {} => i # ENTRY_NONE
  BY FirstOfSlots DEF InState, NextReady
<1>4. CASE i = ENTRY_NONE
  <2>1. spool' = spool /\ fate' = fate /\ sent' = sent /\ result' = "SPOOL_UNDERFLOW"
    BY <1>1, <1>2, <1>4, PopEffect DEF Pop
  <2>2. Mapped' = Mapped
    BY <2>1 DEF Mapped, StatusOf
  <2>3. Contract!In("ready") = {}
    <3>1. \A r \in Packets : Mapped[r] # "ready"
      BY <1>1, <1>3, <1>4, StatusReadsBack DEF SpoolShape
    <3>2. Contract!In("ready") \in SUBSET Packets
      BY DEF Contract!In
    <3> QED  BY <1>1, <3>1, <3>2
  <2>4. Contract!NothingToSend
    BY <1>2, <2>1, <2>2, <2>3 DEF Contract!NothingToSend, Mapped
  <2> QED  BY <2>4 DEF Contract!Next
<1>5. CASE i # ENTRY_NONE
  <2> DEFINE st == IF AwaitsAck(spool, q) THEN "WAITING" ELSE "FREE"
  <2>1. /\ i \in Slots /\ spool.mState[i] = "READY"
        /\ spool'.mState = [spool.mState EXCEPT ![i] = st]
        /\ spool'.mPacket = spool.mPacket /\ spool'.mMaxRetries = spool.mMaxRetries
    BY <1>1, <1>2, <1>5, PopEffect
  <2>2. i \in InUse(spool) /\ q \in Packets /\ fate[q] = "spooled"
    BY <1>1, <2>1 DEF InUse, Housed
  <2>3. /\ result' = "SPOOL_OK" /\ sent' = [sent EXCEPT ![q] = @ + 1]
        /\ fate' = IF AwaitsAck(spool, q) THEN fate ELSE [fate EXCEPT ![q] = "sent"]
    BY <1>5 DEF Pop
  <2>4. Mapped[q] = "ready"
    BY <1>1, <2>1, <2>2, StatusByEntry DEF SpoolShape
  <2>5. spool.mState \in [Slots -> EntryState]
    BY <1>1 DEF SpoolShape
  <2>6. Mapped'[q] = IF AwaitsAck(spool, q) THEN "waiting" ELSE "sent"
    <3>1. CASE AwaitsAck(spool, q)
      <4>1. spool'.mState[i] = "WAITING" /\ i \in InUse(spool') /\ spool'.mPacket[i] = q
        BY <2>1, <2>5, <3>1 DEF InUse
      <4> HIDE DEF q
      <4> QED  BY <1>1, <2>2, <3>1, <4>1, StatusByEntry
    <3>2. CASE ~AwaitsAck(spool, q)
      <4>1. fate'[q] = "sent"
        BY <1>1, <2>2, <2>3, <3>2
      <4> HIDE DEF q
      <4> QED  BY <1>1, <2>2, <3>2, <4>1, StatusByEntry
    <3> QED  BY <3>1, <3>2
  <2>7. ASSUME NEW r \in Packets, r # q PROVE Mapped'[r] = Mapped[r]
    <3>1. fate'[r] = fate[r]
      BY <1>1, <2>3, <2>7
    <3>2. ASSUME NEW j \in InUse(spool), spool.mPacket[j] = r
          PROVE  spool'.mState[j] = spool.mState[j] /\ spool'.mPacket[j] = r
      <4>1. j # i
        BY <2>7, <3>2
      <4> HIDE DEF i, st
      <4> QED  BY <2>1, <2>5, <3>2, <4>1 DEF InUse
    <3> HIDE DEF q
    <3> QED  BY <1>1, <2>5, <3>1, <3>2, SameStatus
  <2>8. Mapped = [r \in Packets |-> Mapped[r]] /\ Mapped' = [r \in Packets |-> Mapped'[r]]
    BY DEF Mapped
  <2>9. AwaitsAck(spool, q) <=> Contract!WantsAck(q) /\ spool.mTimeOut > 0
    BY DEF AwaitsAck, Contract!WantsAck
  <2> HIDE DEF q
  <2>10. Mapped' = [Mapped EXCEPT ![q] =
                      IF Contract!WantsAck(q) /\ spool.mTimeOut > 0 THEN "waiting" ELSE "sent"]
    BY <2>2, <2>6, <2>7, <2>8, <2>9
  <2>11. Contract!Transmit(q)
    BY <1>2, <2>1, <2>2, <2>3, <2>4, <2>10 DEF Contract!Transmit, Mapped
  <2> QED  BY <2>2, <2>11 DEF Contract!Next
<1> QED
  BY <1>4, <1>5

(* A response releases a waiting packet that has its token, or is refused  *)
(* because it is no acknowledgement or no waiting packet has its token.    *)
LEMMA AckRefines ==
  ASSUME RefInv, SpoolInv', EntriesHoldSpooled', alive,
         NEW token \in Tokens, NEW flag \in BOOLEAN, Ack(token, flag)
  PROVE  Contract!Next
<1> DEFINE i == AckMatch(spool, token)
           q == spool.mPacket[i]
           M == {j \in InState(spool, "WAITING") :
                   ~AckFlag[spool.mPacket[j]] /\ Token[spool.mPacket[j]] = token}
<1>1. /\ WellFormed(spool) /\ spool \in SpoolShape /\ fate \in [Packets -> Fate]
      /\ Housed(spool, fate) /\ spool'.mState \in [Slots -> EntryState]
      /\ Housed(spool', fate')
      /\ \A r \in Packets : Mapped[r] = StatusIn(spool, fate, r)
      /\ \A r \in Packets : Mapped'[r] = StatusIn(spool', fate', r)
      /\ \A r \in Packets : r \in Contract!In("waiting") <=> Mapped[r] = "waiting"
  BY MappedState, MappedNext
<1>2. /\ spool' = Acked(spool, token, flag) /\ alive' = alive /\ sent' = sent
      /\ spool'.mTimeOut = spool.mTimeOut
  BY <1>1, OperationsKeepTimeout DEF Ack
<1>3. M \in SUBSET Slots /\ (M = {} => i = ENTRY_NONE) /\ (M # {} => i \in M /\ i # ENTRY_NONE)
  BY FirstOfSlots DEF InState, AckMatch
<1>4. CASE ~AckMatches(spool, token, flag)
  <2>1. spool' = spool /\ fate' = fate /\ result' = "FALSE"
    BY <1>2, <1>4 DEF Ack, Acked
  <2>2. Mapped' = Mapped
    BY <2>1 DEF Mapped, StatusOf
  <2>3. ASSUME flag, NEW r \in Contract!In("waiting") PROVE Token[r] # token
    <3>1. r \in Packets
      BY DEF Contract!In
    <3>2. PICK j \in InState(spool, "WAITING") : spool.mPacket[j] = r
      BY <1>1, <3>1, StatusReadsBack DEF SpoolShape
    <3>3. ~AckFlag[r]
      BY <3>2 DEF RefInv, WaitingWantsAck
    <3>4. M = {}
      BY <1>3, <1>4, <2>3 DEF AckMatches
    <3> QED  BY <3>2, <3>3, <3>4
  <2>4. Contract!Ignore(token, flag)
    BY <1>2, <2>1, <2>2, <2>3 DEF Contract!Ignore, Mapped
  <2> QED  BY <2>4 DEF Contract!Next
<1>5. CASE AckMatches(spool, token, flag)
  <2>1. /\ i # ENTRY_NONE /\ spool' = Released(spool, i)
        /\ result' = "TRUE" /\ fate' = [fate EXCEPT ![q] = "acked"]
    BY <1>2, <1>5 DEF Ack, Acked, AckMatches
  <2>2. /\ i \in Slots /\ spool.mState[i] = "WAITING"
        /\ spool'.mState = [spool.mState EXCEPT ![i] = "FREE"]
        /\ spool'.mPacket = spool.mPacket /\ spool'.mMaxRetries = spool.mMaxRetries
    <3>1. WellFormed(spool)
      BY <1>1
    <3> HIDE DEF M
    <3> QED  BY <2>1, <3>1, AckEffect
  <2>3. i \in InUse(spool) /\ q \in Packets /\ fate[q] = "spooled"
    BY <1>1, <2>2 DEF InUse, Housed
  <2>4. ~AckFlag[q] /\ Token[q] = token
    BY <1>3, <2>1
  <2>5. spool.mState \in [Slots -> EntryState]
    BY <1>1 DEF SpoolShape
  <2> HIDE DEF i, M
  <2>6. Mapped[q] = "waiting"
    BY <1>1, <2>2, <2>3, <2>5, StatusByEntry
  <2>7. Mapped'[q] = "acked"
    <3>1. fate'[q] = "acked"
      BY <1>1, <2>1, <2>3
    <3> HIDE DEF q
    <3> QED  BY <1>1, <2>3, <3>1, StatusByEntry
  <2>8. ASSUME NEW r \in Packets, r # q PROVE Mapped'[r] = Mapped[r]
    <3>1. fate'[r] = fate[r]
      BY <1>1, <2>1, <2>8
    <3>2. ASSUME NEW j \in InUse(spool), spool.mPacket[j] = r
          PROVE  spool'.mState[j] = spool.mState[j] /\ spool'.mPacket[j] = r
      <4>1. j # i
        BY <2>8, <3>2
      <4> QED  BY <2>2, <2>5, <3>2, <4>1 DEF InUse
    <3> HIDE DEF q
    <3> QED  BY <1>1, <2>5, <3>1, <3>2, SameStatus
  <2>9. Mapped = [r \in Packets |-> Mapped[r]] /\ Mapped' = [r \in Packets |-> Mapped'[r]]
    BY DEF Mapped
  <2> HIDE DEF q
  <2>10. Mapped' = [Mapped EXCEPT ![q] = "acked"]
    BY <2>3, <2>7, <2>8, <2>9
  <2>11. q \in Contract!In("waiting")
    BY <1>1, <2>3, <2>6
  <2>12. Contract!Acknowledge(token)
    BY <1>2, <2>1, <2>2, <2>4, <2>10, <2>11 DEF Contract!Acknowledge, Mapped
  <2> QED  BY <2>12 DEF Contract!Next
<1> QED
  BY <1>4, <1>5

(* A tick lets some waiting packets run out of time; attempts counted in   *)
(* the entry and transmissions of the packet are the same number.          *)
LEMMA TickRefines ==
  ASSUME RefInv, SpoolInv', EntriesHoldSpooled', alive, NEW ms \in TickSizes, Tick(ms)
  PROVE  Contract!Next
<1> DEFINE u == ToInt(ms)
           X == Expired(spool, u)
           R == Retried(spool, u)
           G == GivenUp(spool, u)
           late == {spool.mPacket[i] : i \in X}
<1>1. /\ WellFormed(spool) /\ spool \in SpoolShape /\ fate \in [Packets -> Fate]
      /\ Housed(spool, fate) /\ spool'.mState \in [Slots -> EntryState]
      /\ Housed(spool', fate')
      /\ \A r \in Packets : Mapped[r] = StatusIn(spool, fate, r)
      /\ \A r \in Packets : Mapped'[r] = StatusIn(spool', fate', r)
      /\ \A r \in Packets : r \in Contract!In("waiting") <=> Mapped[r] = "waiting"
  BY MappedState, MappedNext
<1>2. u \in Int
  BY InputsAssumption, ToIntType
<1>3. /\ spool' = Ticked(spool, u) /\ alive' = alive /\ sent' = sent /\ result' = "NONE"
      /\ spool'.mTimeOut = spool.mTimeOut
  BY <1>1, OperationsKeepTimeout DEF Tick
<1>4. \A q \in Packets : fate'[q] = IF \E i \in G : spool.mPacket[i] = q
                                    THEN "failed" ELSE fate[q]
  BY DEF Tick
<1> HIDE DEF u
<1>5. /\ X \in SUBSET InState(spool, "WAITING")
      /\ R \in SUBSET X /\ G = X \ R
      /\ \A i \in R : spool.mAttempts[i] < spool.mMaxRetries
      /\ \A i \in G : ~(spool.mAttempts[i] < spool.mMaxRetries)
      /\ spool'.mState = [i \in Slots |-> IF i \in R THEN "READY"
                                         ELSE IF i \in G THEN "FREE" ELSE spool.mState[i]]
      /\ spool'.mPacket = spool.mPacket /\ spool'.mMaxRetries = spool.mMaxRetries
  <2>1. WellFormed(spool)
    BY <1>1
  <2>2. /\ X \in SUBSET InState(spool, "WAITING")
        /\ R \in SUBSET X /\ G = X \ R
        /\ \A i \in R : spool.mAttempts[i] < spool.mMaxRetries
        /\ \A i \in G : ~(spool.mAttempts[i] < spool.mMaxRetries)
        /\ Ticked(spool, u).mState =
             [i \in Slots |-> IF i \in R THEN "READY"
                              ELSE IF i \in G THEN "FREE" ELSE spool.mState[i]]
        /\ Ticked(spool, u).mPacket = spool.mPacket
        /\ Ticked(spool, u).mMaxRetries = spool.mMaxRetries
    BY <1>2, <2>1, TickEffect
  <2> QED  BY <1>3, <2>2
<1> HIDE DEF X, R, G
<1>6. \A i \in X : /\ i \in InUse(spool) /\ i \in Slots /\ spool.mState[i] = "WAITING"
                   /\ spool.mPacket[i] \in Packets
  BY <1>1, <1>5 DEF InState, InUse, Housed
<1>7. \A i \in X : spool.mAttempts[i] = sent[spool.mPacket[i]]
  BY <1>6 DEF RefInv, BudgetInv, AttemptsCounted
<1>8. late \in SUBSET Contract!In("waiting")
  <2>1. \A i \in X : Mapped[spool.mPacket[i]] = "waiting"
    BY <1>1, <1>6, StatusByEntry DEF SpoolShape
  <2> QED  BY <1>1, <1>6, <2>1
<1>9. ASSUME NEW q \in Packets, q \notin late PROVE Mapped'[q] = Mapped[q]
  <2>1. \A j \in InUse(spool) : spool.mPacket[j] = q => j \in Slots /\ j \notin X
    BY <1>9 DEF InUse
  <2>2. fate'[q] = fate[q]
    BY <1>4, <1>5, <1>9
  <2>3. \A j \in InUse(spool) : spool.mPacket[j] = q =>
          spool'.mState[j] = spool.mState[j] /\ spool'.mPacket[j] = q
    BY <1>5, <2>1
  <2>4. spool.mState \in [Slots -> EntryState]
    BY <1>1 DEF SpoolShape
  <2> QED  BY <1>1, <2>2, <2>3, <2>4, SameStatus
<1>10. ASSUME NEW q \in late
       PROVE  Mapped'[q] = IF sent[q] < spool.mMaxRetries THEN "ready" ELSE "failed"
  <2>1. PICK i \in X : spool.mPacket[i] = q
    OBVIOUS
  <2>2. q \in Packets /\ i \in Slots /\ spool.mAttempts[i] = sent[q]
    BY <1>6, <1>7, <2>1
  <2>3. CASE i \in R
    <3>1. i \in InUse(spool') /\ spool'.mState[i] = "READY" /\ spool'.mPacket[i] = q
      BY <1>5, <2>1, <2>2, <2>3 DEF InUse
    <3>2. Mapped'[q] = "ready"
      BY <1>1, <2>2, <3>1, StatusByEntry
    <3> QED  BY <1>5, <2>2, <2>3, <3>2
  <2>4. CASE i \in G
    <3>1. fate'[q] = "failed"
      BY <1>4, <2>1, <2>2, <2>4
    <3>2. Mapped'[q] = "failed"
      BY <1>1, <2>2, <3>1, StatusByEntry
    <3> QED  BY <1>5, <2>2, <2>4, <3>2
  <2> QED  BY <1>5, <2>3, <2>4
<1>11. Mapped = [q \in Packets |-> Mapped[q]] /\ Mapped' = [q \in Packets |-> Mapped'[q]]
  BY DEF Mapped
<1> HIDE DEF late
<1>12. Mapped' = [q \in Packets |->
                    IF q \notin late THEN Mapped[q]
                    ELSE IF sent[q] < spool.mMaxRetries THEN "ready" ELSE "failed"]
  BY <1>9, <1>10, <1>11
<1>13. Contract!Expire(late)
  BY <1>3, <1>5, <1>8, <1>12 DEF Contract!Expire, Mapped
<1> QED
  BY <1>8, <1>13 DEF Contract!Next

(* set_retry configures, deinit closes: neither touches a packet.          *)
LEMMA ControlRefines ==
  ASSUME RefInv, RefInv', TimeoutKept', alive,
         \/ \E retries \in RetryLimits, timeoutMs \in TimeOuts : SetRetry(retries, timeoutMs)
         \/ Deinit
  PROVE  Contract!Next
<1>1. CASE \E retries \in RetryLimits, timeoutMs \in TimeOuts : SetRetry(retries, timeoutMs)
  <2>1. PICK retries \in RetryLimits, timeoutMs \in TimeOuts : SetRetry(retries, timeoutMs)
    BY <1>1
  <2>2. /\ spool'.mState = spool.mState /\ spool'.mPacket = spool.mPacket
        /\ fate' = fate /\ sent' = sent /\ alive' = alive /\ result' = "NONE"
    BY <2>1, MappedState DEF SetRetry, Configured, SpoolShape
  <2>3. Mapped' = Mapped
    BY <2>2 DEF Mapped, StatusOf, InState
  <2>4. spool'.mMaxRetries \in RetryLimits
    BY DEF RefInv, BudgetInv, AttemptsLeft
  <2>5. (spool'.mTimeOut > 0) \in {ToInt(t) > 0 : t \in TimeOuts}
    <3>1. spool'.mTimeOut = ToInt(timeoutMs)
      BY <2>1 DEF SetRetry, TimeoutKept
    <3> QED  BY <3>1
  <2>6. Contract!Configure
    BY <2>2, <2>3, <2>4, <2>5 DEF Contract!Configure, Mapped
  <2> QED  BY <2>6 DEF Contract!Next
<1>2. CASE Deinit
  <2>1. /\ spool' = spool /\ fate' = fate /\ sent' = sent /\ alive' = FALSE
        /\ result' = "NONE"
    BY <1>2 DEF Deinit
  <2>2. Mapped' = Mapped
    BY <2>1 DEF Mapped, StatusOf
  <2>3. Contract!Close
    BY <2>1, <2>2 DEF Contract!Close, Mapped
  <2> QED  BY <2>3 DEF Contract!Next
<1> QED
  BY <1>1, <1>2

(* A new spool holds nothing, and was given a limit and a timeout.         *)
LEMMA InitRefines == Init => Contract!Init
<1> SUFFICES ASSUME Init PROVE Contract!Init
  OBVIOUS
<1>1. PICK retries \in RetryLimits, timeOut \in TimeOuts :
        spool = InitialSpool(retries, ToInt(timeOut))
  BY DEF Init
<1>2. spool.mMaxRetries \in RetryLimits /\ (spool.mTimeOut > 0) \in {ToInt(t) > 0 : t \in TimeOuts}
  BY <1>1 DEF InitialSpool
<1>3. [p \in Packets |-> StatusOf(p)] = [p \in Packets |-> "caller"]
  BY DEF Init, StatusOf
<1> QED
  BY <1>2, <1>3 DEF Init, Contract!Init

(* Every step of the spool is a step of the contract or changes nothing    *)
(* the contract sees.                                                      *)
LEMMA StepRefines ==
  RefInv /\ RefInv' /\ TimeoutKept /\ TimeoutKept' /\ [Next]_vars
    => [Contract!Next]_(Contract!vars)
<1> SUFFICES ASSUME RefInv, RefInv', TimeoutKept, TimeoutKept', [Next]_vars
             PROVE  [Contract!Next]_(Contract!vars)
  OBVIOUS
<1>1. SpoolInv' /\ EntriesHoldSpooled'
  BY DEF RefInv
<1>2. CASE Next
  <2>1. alive
    BY <1>2 DEF Next
  <2>2. ASSUME NEW p \in Packets, Push(p) PROVE Contract!Next
    BY <1>1, <2>1, <2>2, PushRefines
  <2>3. ASSUME Pop PROVE Contract!Next
    BY <1>1, <2>1, <2>3, PopRefines
  <2>4. ASSUME NEW token \in Tokens, NEW flag \in BOOLEAN, Ack(token, flag)
        PROVE  Contract!Next
    BY <1>1, <2>1, <2>4, AckRefines
  <2>5. ASSUME NEW ms \in TickSizes, Tick(ms) PROVE Contract!Next
    BY <1>1, <2>1, <2>5, TickRefines
  <2>6. ASSUME \/ \E retries \in RetryLimits, timeoutMs \in TimeOuts :
                    SetRetry(retries, timeoutMs)
               \/ Deinit
        PROVE  Contract!Next
    BY <2>1, <2>6, ControlRefines
  <2> QED  BY <1>2, <2>2, <2>3, <2>4, <2>5, <2>6 DEF Next
<1>3. CASE UNCHANGED vars
  BY <1>3 DEF vars, Contract!vars, StatusOf
<1> QED
  BY <1>2, <1>3

(* The spool implements its contract: what becomes of a packet is decided  *)
(* by the operations alone, whatever entries, counters and trash marks the *)
(* calls have left behind.                                                 *)
THEOREM ContractImplemented == Spec => ContractSpec
<1>1. Spec => []TimeoutKept
  BY SpoolInvCorrect, TimeoutInit, TimeoutStep, PTL DEF Spec
<1> QED
  BY <1>1, RefInvCorrect, InitRefines, StepRefines, PTL DEF Spec, ContractSpec, Contract!Spec
=============================================================================
