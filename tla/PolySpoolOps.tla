----------------------------- MODULE PolySpoolOps -----------------------------
(***************************************************************************)
(* The ack/retry spool of poly_spool.c as functions from a spool to the    *)
(* spool an operation leaves behind.  Each operator is one critical        *)
(* section of the source (between MRT_MUTEX_LOCK and MRT_MUTEX_UNLOCK), so *)
(* it may be used as one atomic step.  PolySpool makes a state machine of  *)
(* them; modules that hold several spools apply the same operators.        *)
(*                                                                         *)
(* A packet is an element of Packets; the constants below give the part of *)
(* its contents the spool looks at.  The 16-bit token of the header is     *)
(* split into Token (the 15 bits of SPOOL_TOKEN_MASK) and AckFlag (the     *)
(* SPOOL_TOKEN_ACK_REQ bit).                                               *)
(*                                                                         *)
(* The definitions named Bug... are slips the properties must detect; the  *)
(* specification uses none of them.                                        *)
(***************************************************************************)
EXTENDS Integers, FiniteSets, FiniteSetsExt

CONSTANTS
  MaxEntries,  \* number of entries the spool was initialised with
  Packets,     \* the packets an application builds
  NoPacket,    \* content of an entry that never held a packet
  Priority,    \* [Packets -> -128..127], mPriority
  AckType,     \* [Packets -> {"NONE", "TOKEN", "PASSTHROUGH"}], mAckType
  Token,       \* [Packets -> Nat], mHeader.mToken without its top bit
  AckFlag,     \* [Packets -> BOOLEAN], top bit of mHeader.mToken
  IntMax       \* INT_MAX of the target; unsigned values above it wrap

ASSUME MaxEntriesAssumption == MaxEntries \in Nat \ {0}
ASSUME PacketsAssumption ==
  /\ NoPacket \notin Packets
  /\ Priority \in [Packets -> -128..127]
  /\ AckType \in [Packets -> {"NONE", "TOKEN", "PASSTHROUGH"}]
  /\ Token \in [Packets -> Nat]
  /\ AckFlag \in [Packets -> BOOLEAN]
ASSUME IntMaxAssumption == IntMax \in Nat

Slots == 0 .. MaxEntries - 1
ENTRY_NONE == -1

EntryState == {"FREE", "READY", "WAITING"}

SpoolType ==
  [mState : [Slots -> EntryState], mTimer : [Slots -> Int],
   mAttempts : [Slots -> Nat], mTrash : [Slots -> BOOLEAN],
   mPacket : [Slots -> Packets \cup {NoPacket}],
   mCount : 0..MaxEntries, mReadyCount : 0..MaxEntries, mWaitingCount : 0..MaxEntries,
   mTimeOut : Int, mMaxRetries : Nat, mFailedMessages : Nat]

(* Conversion of a uint32_t argument to the int it is stored in.           *)
ToInt(u) == IF u > IntMax THEN u - 2 * (IntMax + 1) ELSE u

-----------------------------------------------------------------------------
(* poly_spool_init: all entries FREE, their packets built from no          *)
(* descriptor.  mTimer stands for the mTimeOut of an entry; the source     *)
(* initialises it in entry 0 only, but push writes it before tick reads it.*)

InitialSpool(retries, timeOut) ==
  [mState |-> [i \in Slots |-> "FREE"], mTimer |-> [i \in Slots |-> 0],
   mAttempts |-> [i \in Slots |-> 0], mTrash |-> [i \in Slots |-> FALSE],
   mPacket |-> [i \in Slots |-> NoPacket],
   mCount |-> 0, mReadyCount |-> 0, mWaitingCount |-> 0,
   mTimeOut |-> timeOut, mMaxRetries |-> retries, mFailedMessages |-> 0]

InState(s, state) == {i \in Slots : s.mState[i] = state}
InUse(s) == {i \in Slots : s.mState[i] # "FREE"}

(* The counters agree with the entries they count.                         *)
CountsMatch(s) ==
  /\ s.mCount = Cardinality(InUse(s))
  /\ s.mReadyCount = Cardinality(InState(s, "READY"))
  /\ s.mWaitingCount = Cardinality(InState(s, "WAITING"))

(* poly_spool_get_next: the scan takes the first entry it is looking for.  *)
FirstOf(S) == IF S = {} THEN ENTRY_NONE ELSE Min(S)

-----------------------------------------------------------------------------
(* poly_spool_get_next_free *)

(* A packet built from no descriptor has priority 0.                       *)
PriorityOf(q) == IF q = NoPacket THEN 0 ELSE Priority[q]

BugEvictsEqual(s, p) == {i \in Slots : PriorityOf(s.mPacket[i]) <= Priority[p]}
Outranked(s, p) == {i \in Slots : PriorityOf(s.mPacket[i]) < Priority[p]}

(* The first of the entries of lowest priority, if that is below p's.      *)
LowestPriorityIdx(s, p) ==
  LET lowest == Min({PriorityOf(s.mPacket[i]) : i \in Outranked(s, p)})
  IN  FirstOf({i \in Outranked(s, p) : PriorityOf(s.mPacket[i]) = lowest})

NextFree(s, p) ==
  IF InState(s, "FREE") # {} THEN FirstOf(InState(s, "FREE"))
                             ELSE LowestPriorityIdx(s, p)

Evicts(s, p) ==
  /\ InState(s, "FREE") = {}
  /\ LowestPriorityIdx(s, p) # ENTRY_NONE

BugEvictionUncounted(s, p) == s

(* The spool when get_next_free returns: an evicted entry has been cleaned *)
(* and left the counts, but keeps its state until the caller refills it.   *)
AfterNextFree(s, p) ==
  LET i == NextFree(s, p)
  IN  IF ~Evicts(s, p) THEN s
      ELSE [s EXCEPT
              !.mCount = @ - 1,
              !.mReadyCount = IF s.mState[i] = "READY" THEN @ - 1 ELSE @,
              !.mWaitingCount = IF s.mState[i] = "WAITING" THEN @ - 1 ELSE @]

-----------------------------------------------------------------------------
(* poly_spool_push *)

Overflows(s, p) == AfterNextFree(s, p).mCount >= MaxEntries

(* SPOOL_OK is also what push returns when it found no entry to fill.      *)
PushStatus(s, p) == IF Overflows(s, p) THEN "SPOOL_OVERFLOW" ELSE "SPOOL_OK"

Stores(s, p) == ~Overflows(s, p) /\ NextFree(s, p) # ENTRY_NONE

BugAttemptsInherited(s, i, p) ==
  [s EXCEPT !.mTimer[i] = 0, !.mState[i] = "READY", !.mPacket[i] = p,
            !.mCount = @ + 1, !.mReadyCount = @ + 1]

Filled(s, i, p) ==
  [s EXCEPT !.mTimer[i] = 0, !.mState[i] = "READY", !.mAttempts[i] = 0,
            !.mPacket[i] = p,
            !.mCount = @ + 1, !.mReadyCount = @ + 1]

Pushed(s, p) ==
  IF Stores(s, p) THEN Filled(AfterNextFree(s, p), NextFree(s, p), p)
                  ELSE AfterNextFree(s, p)

(* poly_packet_clean runs on the packet of an entry when get_next_free     *)
(* evicts it, and again when push finds the trash mark on the entry it is  *)
(* about to fill.  These are the numbers of those calls made on packet q.  *)
CleansOnEvict(s, p, q) ==
  IF Evicts(s, p) /\ s.mPacket[NextFree(s, p)] = q THEN 1 ELSE 0

CleansTrash(s, p) == Stores(s, p) /\ s.mTrash[NextFree(s, p)]

CleanCalls(s, p, q) ==
  CleansOnEvict(s, p, q)
    + (IF CleansTrash(s, p) /\ s.mPacket[NextFree(s, p)] = q THEN 1 ELSE 0)

-----------------------------------------------------------------------------
(* poly_spool_pop *)

BugSkipsLastEntry(s) == FirstOf(InState(s, "READY") \ {MaxEntries - 1})
NextReady(s) == FirstOf(InState(s, "READY"))

BugNeedsRetries(s, q) ==
  AckType[q] = "TOKEN" /\ ~AckFlag[q] /\ s.mTimeOut > 0 /\ s.mMaxRetries > 1
AwaitsAck(s, q) == AckType[q] = "TOKEN" /\ ~AckFlag[q] /\ s.mTimeOut > 0

SentAwaitingAck(s, i) ==
  [s EXCEPT !.mTimer[i] = s.mTimeOut, !.mState[i] = "WAITING",
            !.mWaitingCount = @ + 1, !.mAttempts[i] = @ + 1,
            !.mReadyCount = @ - 1]

BugReadyCountKept(s, i) ==
  [s EXCEPT !.mState[i] = "FREE", !.mCount = @ - 1, !.mTrash[i] = TRUE]

BugForgetsTrash(s, i) ==
  [s EXCEPT !.mState[i] = "FREE", !.mCount = @ - 1, !.mReadyCount = @ - 1]

SentForGood(s, i) ==
  [s EXCEPT !.mState[i] = "FREE", !.mCount = @ - 1, !.mTrash[i] = TRUE,
            !.mReadyCount = @ - 1]

Popped(s) ==
  LET i == NextReady(s)
  IN  IF i = ENTRY_NONE THEN s
      ELSE IF AwaitsAck(s, s.mPacket[i]) THEN SentAwaitingAck(s, i)
                                         ELSE SentForGood(s, i)

-----------------------------------------------------------------------------
(* poly_spool_ack: only a token with the ack bit is looked up, and only    *)
(* among WAITING entries.  The trash mark goes to entry 0, whatever entry  *)
(* was released.                                                           *)

BugMatchesIdle(s, token) ==
  FirstOf({i \in Slots : /\ s.mPacket[i] # NoPacket
                         /\ ~AckFlag[s.mPacket[i]] /\ Token[s.mPacket[i]] = token})

AckMatch(s, token) ==
  FirstOf({i \in InState(s, "WAITING") :
             ~AckFlag[s.mPacket[i]] /\ Token[s.mPacket[i]] = token})

BugTrashesLast(i) == MaxEntries - 1

TrashedByAck(i) == 0

BugStillWaiting(s, i) ==
  [s EXCEPT !.mState[i] = "FREE", !.mTrash[TrashedByAck(i)] = TRUE, !.mCount = @ - 1]

Released(s, i) ==
  [s EXCEPT !.mState[i] = "FREE", !.mTrash[TrashedByAck(i)] = TRUE,
            !.mWaitingCount = @ - 1, !.mCount = @ - 1]

AckMatches(s, token, flag) == flag /\ AckMatch(s, token) # ENTRY_NONE

Acked(s, token, flag) ==
  IF AckMatches(s, token, flag) THEN Released(s, AckMatch(s, token)) ELSE s

-----------------------------------------------------------------------------
(* poly_spool_tick *)

Expired(s, ms) == {i \in InState(s, "WAITING") : s.mTimer[i] - ms <= 0}
Retried(s, ms) == {i \in Expired(s, ms) : s.mAttempts[i] < s.mMaxRetries}
GivenUp(s, ms) == Expired(s, ms) \ Retried(s, ms)

Ticked(s, ms) ==
  [s EXCEPT
     !.mTimer = [i \in Slots |->
                   IF s.mState[i] = "WAITING" THEN s.mTimer[i] - ms
                                              ELSE s.mTimer[i]],
     !.mState = [i \in Slots |->
                   IF i \in Retried(s, ms) THEN "READY"
                   ELSE IF i \in GivenUp(s, ms) THEN "FREE"
                   ELSE s.mState[i]],
     !.mTrash = [i \in Slots |-> s.mTrash[i] \/ i \in GivenUp(s, ms)],
     !.mReadyCount = @ + Cardinality(Retried(s, ms)),
     !.mWaitingCount = @ - Cardinality(Expired(s, ms)),
     !.mCount = @ - Cardinality(GivenUp(s, ms)),
     !.mFailedMessages = @ + Cardinality(GivenUp(s, ms))]

-----------------------------------------------------------------------------
(* poly_service_set_retry, which writes to the spool without its mutex.    *)

Configured(s, retries, timeoutMs) ==
  [s EXCEPT !.mMaxRetries = retries, !.mTimeOut = ToInt(timeoutMs)]

(* poly_spool_deinit: mMaxEntries is cleared before the loop that uses it  *)
(* as its bound, so these are the entries the loop cleans.                 *)
DeinitBound == 0
CleanedByDeinit(s) ==
  {i \in Slots : i < DeinitBound /\ (s.mState[i] # "FREE" \/ s.mTrash[i])}
=============================================================================
