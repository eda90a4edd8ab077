--------------------------- MODULE PolySpoolThreads ---------------------------
(***************************************************************************)
(* The spool of one interface between its threads.  The mutex covers each  *)
(* operation of poly_spool.c, but not what its callers do around it:       *)
(*   - poly_spool_ack reads the callback from the entry after unlocking;   *)
(*   - poly_service_despool_interface reads mReadyCount before locking,    *)
(*     and packs the copy poly_spool_pop made of a packet after unlocking, *)
(*     though the copy shares its fields with the entry;                   *)
(*   - poly_service_set_retry writes two fields and never locks.           *)
(* One thread runs tp_service_process; any others push, tick and configure *)
(* between its steps.                                                      *)
(*                                                                         *)
(* The definitions named Bug... are slips the properties must detect; the  *)
(* specification uses none of them.                                        *)
(***************************************************************************)
EXTENDS PolySpool

VARIABLES
  pc,        \* where the thread of tp_service_process is
  at,        \* the entry poly_spool_ack or poly_spool_pop chose
  held,      \* the packet answered, or the one copied out to be packed
  refilled,  \* another packet has come into entry "at" since the unlock
  pending    \* timeout poly_service_set_retry has still to write, or NotPending

NotPending == -1

process == <<pc, at, held, refilled>>
threadVars == <<vars, process, pending>>

ThreadInit ==
  /\ Init
  /\ pc = "parse" /\ at = 0 /\ held = NoPacket /\ refilled = FALSE
  /\ pending = NotPending

(* The thread goes on to a step in which it has nothing in its hands.      *)
Proceed(next) == pc' = next /\ at' = 0 /\ held' = NoPacket /\ refilled' = FALSE

(* It leaves the mutex with what it found in entry i.                      *)
LeaveWith(next, i) ==
  pc' = next /\ at' = i /\ held' = spool.mPacket[i] /\ refilled' = FALSE

-----------------------------------------------------------------------------
(* tp_service_process: first poly_service_try_parse                        *)

NoResponse ==
  /\ pc = "parse" /\ Proceed("check")
  /\ UNCHANGED <<vars, pending>>

(* A response arrives, a packet with the ack bit; if the spool knows it,   *)
(* the callback is next.                                                   *)
Response(token) ==
  /\ pc = "parse"
  /\ Ack(token, TRUE)
  /\ IF AckMatches(spool, token, TRUE)
     THEN LeaveWith("callback", AckMatch(spool, token)) ELSE Proceed("check")
  /\ UNCHANGED pending

(* The callback is that of the packet the entry holds by now.              *)
BugCallsFirst == spool.mPacket[0]
Called == spool.mPacket[at]

Callback ==
  /\ pc = "callback" /\ Proceed("check")
  /\ UNCHANGED <<vars, pending>>

(* ... then poly_service_despool_interface.  A push that is just evicting  *)
(* a ready packet has taken it off the count and not yet counted its own.  *)
BugReadsCount == {spool.mCount}
ReadableCounts ==
  {spool.mReadyCount}
    \cup {AfterNextFree(spool, p).mReadyCount : p \in {q \in Packets : fate[q] = "caller"}}

CheckReady ==
  /\ pc = "check"
  /\ \E n \in ReadableCounts : Proceed(IF n > 0 THEN "pop" ELSE "parse")
  /\ UNCHANGED <<vars, pending>>

PopReady ==
  /\ pc = "pop"
  /\ Pop
  /\ IF NextReady(spool) = ENTRY_NONE THEN Proceed("parse")
                                      ELSE LeaveWith("pack", NextReady(spool))
  /\ UNCHANGED pending

(* poly_packet_pack_encoded and f_TxBytes, on the fields of held           *)
Transmit ==
  /\ pc = "pack" /\ Proceed("parse")
  /\ UNCHANGED <<vars, pending>>

Process ==
  \/ NoResponse \/ \E token \in Tokens : Response(token)
  \/ Callback \/ CheckReady \/ PopReady \/ Transmit

-----------------------------------------------------------------------------
(* The other threads                                                       *)

PushBeside(p) ==
  /\ Push(p)
  /\ refilled' = (refilled \/ /\ pc \in {"callback", "pack"}
                              /\ Stores(spool, p) /\ NextFree(spool, p) = at)
  /\ UNCHANGED <<pc, at, held, pending>>

TickBeside(ms) == Tick(ms) /\ UNCHANGED <<process, pending>>

(* poly_service_set_retry: first mMaxRetries, then mTimeOut                *)
SetMaxRetries(retries, timeoutMs) ==
  /\ pending = NotPending /\ pending' = timeoutMs
  /\ spool' = [spool EXCEPT !.mMaxRetries = retries]
  /\ result' = "NONE"
  /\ UNCHANGED <<alive, requested, fate, sent, cleans, wild, process>>

SetTimeOut ==
  /\ pending # NotPending /\ pending' = NotPending
  /\ SetRetry(spool.mMaxRetries, pending)
  /\ UNCHANGED process

Others ==
  \/ \E p \in Packets : PushBeside(p)
  \/ \E ms \in TickSizes : TickBeside(ms)
  \/ \E retries \in RetryLimits, timeoutMs \in TimeOuts :
       SetMaxRetries(retries, timeoutMs)
  \/ SetTimeOut

ThreadNext == Process \/ Others

ThreadSpec == ThreadInit /\ [][ThreadNext]_threadVars

(* tp_service_process is called in a loop and a timer ticks.               *)
ThreadFairSpec ==
  /\ ThreadSpec
  /\ WF_threadVars(Process)
  /\ WF_threadVars(\E ms \in TickSizes : TickBeside(ms))
-----------------------------------------------------------------------------
ThreadTypeOK ==
  /\ TypeOK
  /\ pc \in {"parse", "callback", "check", "pop", "pack"}
  /\ at \in Slots /\ held \in Packets \cup {NoPacket} /\ refilled \in BOOLEAN
  /\ pending \in TimeOuts \cup {NotPending}
  /\ pc \in {"callback", "pack"} <=> held \in Packets

(* The count read without the mutex never sends despool to a spool with    *)
(* nothing to pop: between the look and the pop other threads may evict    *)
(* the packet that was counted, but then they leave a ready one.           *)
PopFindsReady == pc = "pop" => NextReady(spool) # ENTRY_NONE

(* After the unlock the process thread is disturbed by one thing only, a   *)
(* push that fills the very entry it works on: without it the callback is  *)
(* that of the packet answered, and the fields it packs have been cleaned  *)
(* by nobody, whatever was pushed elsewhere, evicted, expired, given up or *)
(* marked as trash meanwhile.                                              *)
OnlyRefillDisturbs ==
  ~refilled => /\ pc = "callback" => Called = held
               /\ pc = "pack" => cleans[held] = 0

(* Every accepted packet is eventually sent for good, acknowledged, given  *)
(* up or evicted.  The packets are finitely many: an application that      *)
(* pushes without end can keep an entry of high index READY for ever,      *)
(* because pop prefers the entries before it.                              *)
EveryPacketSettles ==
  \A p \in Packets : fate[p] = "spooled" ~> fate[p] \in Final

(* "callback for when packet is acknowledged": the one that runs belongs   *)
(* to the packet the response acknowledged.                                *)
CallbackIsOfAcked == pc = "callback" => Called = held
=============================================================================
