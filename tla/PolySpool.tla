------------------------------- MODULE PolySpool -------------------------------
(***************************************************************************)
(* The spool of one interface as a state machine: one action per function  *)
(* of poly_spool.c, in any order and with any arguments, as the threads of *)
(* an application may call them.  The mutex makes every call one step.     *)
(*                                                                         *)
(* Besides the spool the machine keeps history variables: what became of   *)
(* each packet, how often it was handed out for transmission, and which    *)
(* calls of poly_packet_clean the spool made.                              *)
(***************************************************************************)
EXTENDS PolySpoolOps

CONSTANTS
  Tokens,       \* 15-bit tokens that responses carry
  TickSizes,    \* milliseconds a tick may report
  RetryLimits,  \* retries an application may configure
  TimeOuts      \* timeouts (uint32_t) an application may configure

ASSUME InputsAssumption ==
  /\ Tokens \subseteq Nat
  /\ TickSizes \subseteq Nat \ {0}
  /\ RetryLimits \subseteq Nat /\ RetryLimits # {}
  /\ TimeOuts \subseteq Nat /\ TimeOuts # {}

VARIABLES
  spool,      \* the poly_spool_t
  alive,      \* FALSE after poly_spool_deinit
  result,     \* what the last call returned
  requested,  \* timeout the application last asked for
  fate,       \* [Packets -> Fate] what became of each packet
  sent,       \* [Packets -> Nat] times pop handed the packet out
  cleans,     \* [Packets -> Nat] times the spool cleaned the packet
  wild        \* TRUE once an entry that never held a packet was cleaned

vars == <<spool, alive, result, requested, fate, sent, cleans, wild>>

(* "caller": not accepted yet.  "spooled": in an entry.  The others are    *)
(* final: transmitted without waiting for an acknowledgement, acknowledged,*)
(* given up after the last attempt, or removed for a higher priority.      *)
Final == {"sent", "acked", "failed", "evicted"}
Fate == {"caller", "spooled"} \cup Final

Results == {"NONE", "SPOOL_OK", "SPOOL_OVERFLOW", "SPOOL_UNDERFLOW", "TRUE", "FALSE"}

Init ==
  /\ \E retries \in RetryLimits, timeOut \in TimeOuts :
       /\ spool = InitialSpool(retries, ToInt(timeOut))
       /\ requested = timeOut
  /\ alive = TRUE
  /\ result = "NONE"
  /\ fate = [p \in Packets |-> "caller"]
  /\ sent = [p \in Packets |-> 0]
  /\ cleans = [p \in Packets |-> 0]
  /\ wild = FALSE

(* poly_spool_push.  On SPOOL_OVERFLOW the packet stays with the caller,   *)
(* which may try again.  A reusable packet gets fresh fields and a fresh   *)
(* token from poly_packet_reset: to the spool that is another packet.      *)
Push(p) ==
  LET i == NextFree(spool, p)
  IN  /\ fate[p] = "caller"
      /\ spool' = Pushed(spool, p)
      /\ result' = PushStatus(spool, p)
      /\ fate' = [q \in Packets |->
                    IF q = p /\ Stores(spool, p) THEN "spooled"
                    ELSE IF Evicts(spool, p) /\ q = spool.mPacket[i] THEN "evicted"
                    ELSE fate[q]]
      /\ cleans' = [q \in Packets |-> cleans[q] + CleanCalls(spool, p, q)]
      /\ wild' = (wild \/ CleanCalls(spool, p, NoPacket) > 0)
      /\ UNCHANGED <<alive, requested, sent>>

(* poly_spool_pop *)
Pop ==
  LET i == NextReady(spool)
      q == spool.mPacket[i]
  IN  /\ spool' = Popped(spool)
      /\ IF i = ENTRY_NONE
         THEN /\ result' = "SPOOL_UNDERFLOW"
              /\ UNCHANGED <<fate, sent>>
         ELSE /\ result' = "SPOOL_OK"
              /\ sent' = [sent EXCEPT ![q] = @ + 1]
              /\ fate' = IF AwaitsAck(spool, q) THEN fate
                         ELSE [fate EXCEPT ![q] = "sent"]
      /\ UNCHANGED <<alive, requested, cleans, wild>>

(* poly_spool_ack for a response with the given token and ack bit          *)
Ack(token, flag) ==
  /\ spool' = Acked(spool, token, flag)
  /\ IF AckMatches(spool, token, flag)
     THEN /\ result' = "TRUE"
          /\ fate' = [fate EXCEPT ![spool.mPacket[AckMatch(spool, token)]] = "acked"]
     ELSE /\ result' = "FALSE"
          /\ UNCHANGED fate
  /\ UNCHANGED <<alive, requested, sent, cleans, wild>>

(* poly_spool_tick *)
Tick(ms) ==
  /\ spool' = Ticked(spool, ToInt(ms))
  /\ fate' = [q \in Packets |->
                IF \E i \in GivenUp(spool, ToInt(ms)) : spool.mPacket[i] = q
                THEN "failed" ELSE fate[q]]
  /\ result' = "NONE"
  /\ UNCHANGED <<alive, requested, sent, cleans, wild>>

(* poly_service_set_retry, which may be called at any time                 *)
SetRetry(retries, timeoutMs) ==
  /\ spool' = Configured(spool, retries, timeoutMs)
  /\ requested' = timeoutMs
  /\ result' = "NONE"
  /\ UNCHANGED <<alive, fate, sent, cleans, wild>>

(* poly_spool_deinit; the entries are gone afterwards                      *)
Deinit ==
  /\ alive' = FALSE
  /\ cleans' = [q \in Packets |->
                  cleans[q] + Cardinality({i \in CleanedByDeinit(spool) :
                                             spool.mPacket[i] = q})]
  /\ result' = "NONE"
  /\ UNCHANGED <<spool, requested, fate, sent, wild>>

Next ==
  /\ alive
  /\ \/ \E p \in Packets : Push(p)
     \/ Pop
     \/ \E token \in Tokens, flag \in BOOLEAN : Ack(token, flag)
     \/ \E ms \in TickSizes : Tick(ms)
     \/ \E retries \in RetryLimits, timeoutMs \in TimeOuts : SetRetry(retries, timeoutMs)
     \/ Deinit

Spec == Init /\ [][Next]_vars

-----------------------------------------------------------------------------
(* Type invariant of the machine.                                          *)
TypeOK ==
  /\ spool \in SpoolType
  /\ alive \in BOOLEAN
  /\ result \in Results
  /\ requested \in TimeOuts
  /\ fate \in [Packets -> Fate]
  /\ sent \in [Packets -> Nat]
  /\ cleans \in [Packets -> Nat]
  /\ wild \in BOOLEAN

(* The three counters agree with the entries they count, whatever mixture  *)
(* of pushes, evictions, pops, acknowledgements and expiries led here.     *)
(* push trusts mCount to tell a full spool and poly_service_despool_inter- *)
(* face trusts mReadyCount to tell that there is something to send.        *)
CountsExact == CountsMatch(spool)

(* Every packet the spool has accepted and not finished with is in exactly *)
(* one used entry, and every used entry holds such a packet: an eviction   *)
(* never leaves a used entry with a packet already cleaned, no packet is   *)
(* lost and none is retried or acknowledged from two entries.              *)
EntriesHoldSpooled ==
  /\ \A i \in InUse(spool) : /\ spool.mPacket[i] \in Packets
                             /\ fate[spool.mPacket[i]] = "spooled"
  /\ \A i, j \in InUse(spool) : spool.mPacket[i] = spool.mPacket[j] => i = j
  /\ \A p \in Packets : fate[p] = "spooled" =>
       \E i \in InUse(spool) : spool.mPacket[i] = p

(* The trash mark is only ever on an entry that has held a packet, so push *)
(* never cleans the descriptor-less packet poly_spool_init put there.  The *)
(* mark poly_spool_ack sets on entry 0 is what makes this non-obvious.     *)
TrashHoldsPacket ==
  /\ ~wild
  /\ \A i \in Slots : spool.mTrash[i] => spool.mPacket[i] \in Packets

(* The attempt counter of a used entry is the number of transmissions of   *)
(* the packet in it, so that a refilled entry inherits nothing and a retry *)
(* forgets nothing, and no packet is given up before it was transmitted as *)
(* often as the smallest limit ever configured, nor transmitted more often *)
(* than the largest (once when that is 0).                                 *)
RetryBudget ==
  /\ \A i \in InUse(spool) : spool.mAttempts[i] = sent[spool.mPacket[i]]
  /\ \A p \in Packets :
       /\ fate[p] = "failed" => \E r \in RetryLimits : sent[p] >= r /\ sent[p] >= 1
       /\ sent[p] <= 1 \/ \E r \in RetryLimits : sent[p] <= r

(* A packet that was acknowledged, given up, evicted or sent without       *)
(* acknowledgement is never transmitted again and stays what it became.    *)
FinalIsFinal ==
  [][\A p \in Packets : fate[p] \in Final =>
       fate'[p] = fate[p] /\ sent'[p] = sent[p]]_vars

(* The spool cleans a packet at most once, and never while it is spooled.  *)
NoDoubleClean ==
  \A p \in Packets :
    /\ cleans[p] <= 1
    /\ fate[p] = "spooled" => cleans[p] = 0

(* A packet the spool is finished with has been cleaned or is still marked *)
(* for cleaning.                                                           *)
NoLeak ==
  \A p \in Packets :
    fate[p] \in Final =>
      \/ cleans[p] >= 1
      \/ \E i \in Slots : spool.mPacket[i] = p /\ spool.mTrash[i]

(* What the trash mark does achieve: unless a packet was evicted, it is    *)
(* cleaned at most once and not while it is spooled, and one that was sent *)
(* for good or given up has been cleaned or carries the mark by which the  *)
(* next push into its entry cleans it.                                     *)
CleanedOnce ==
  \A p \in Packets : fate[p] # "evicted" =>
    /\ cleans[p] <= 1
    /\ fate[p] = "spooled" => cleans[p] = 0
    /\ fate[p] \in {"sent", "failed"} =>
         \/ cleans[p] = 1
         \/ \E i \in Slots : spool.mPacket[i] = p /\ spool.mTrash[i]

(* A packet that asks for an acknowledgement is not let go at its first    *)
(* transmission while the application has configured a timeout, however    *)
(* often it changes it; a timeout that is no int is outside this promise.  *)
TimeoutHonoured ==
  [][\A p \in Packets :
       fate[p] = "spooled" /\ fate'[p] = "sent" /\ requested \in 1..IntMax
         => AckType[p] # "TOKEN" \/ AckFlag[p]]_vars
-----------------------------------------------------------------------------
(* The contract: a spooled packet is ready or waiting as its entry says.   *)
StatusOf(p) ==
  IF fate[p] # "spooled" THEN fate[p]
  ELSE IF \E i \in InState(spool, "READY") : spool.mPacket[i] = p THEN "ready"
  ELSE IF \E i \in InState(spool, "WAITING") : spool.mPacket[i] = p THEN "waiting"
  ELSE "lost"

Contract == INSTANCE SpoolContract WITH
  Capacity <- MaxEntries,
  Limits <- RetryLimits,
  Patience <- {ToInt(t) > 0 : t \in TimeOuts},
  status <- [p \in Packets |-> StatusOf(p)],
  attempts <- sent,
  limit <- spool.mMaxRetries,
  patient <- spool.mTimeOut > 0,
  answer <- result,
  open <- alive

(* The spool implements its contract.                                      *)
ContractSpec == Contract!Spec
=============================================================================
