----------------------------- MODULE SpoolContract -----------------------------
(***************************************************************************)
(* What the spool promises the application, told without entries, counters *)
(* or trash marks: what becomes of each packet.  PolySpool implements it.  *)
(*                                                                         *)
(*   caller --Accept/Replace--> ready --Transmit--> waiting or sent        *)
(*   waiting --Acknowledge--> acked                                        *)
(*   waiting --Expire--> ready (attempts left) or failed                   *)
(*   ready or waiting --Replace by a packet of higher priority--> evicted  *)
(***************************************************************************)
EXTENDS Integers, FiniteSets

CONSTANTS Capacity, Packets, Priority, AckType, Token, AckFlag, Tokens,
          Limits, Patience

VARIABLES
  status,    \* where each packet is in the life cycle above
  attempts,  \* how often each packet was handed to the transmitter
  limit,     \* attempts a packet may make before it is given up
  patient,   \* whether the spool waits for acknowledgements at all
  answer,    \* what the last operation returned
  open       \* FALSE once the spool is torn down

vars == <<status, attempts, limit, patient, answer, open>>

In(st) == {p \in Packets : status[p] = st}
Held == In("ready") \cup In("waiting")
WantsAck(p) == AckType[p] = "TOKEN" /\ ~AckFlag[p]

Init ==
  /\ status = [p \in Packets |-> "caller"]
  /\ attempts = [p \in Packets |-> 0]
  /\ limit \in Limits
  /\ patient \in Patience
  /\ answer = "NONE"
  /\ open = TRUE

(* There is room: the packet is taken in, nothing else changes.            *)
Accept(p) ==
  /\ status[p] = "caller" /\ Cardinality(Held) < Capacity
  /\ status' = [status EXCEPT ![p] = "ready"]
  /\ answer' = "SPOOL_OK"
  /\ UNCHANGED <<attempts, limit, patient, open>>

(* No room: a packet of the lowest priority gives way to a higher one.     *)
Replace(p, victim) ==
  /\ status[p] = "caller" /\ Cardinality(Held) = Capacity
  /\ victim \in Held /\ Priority[victim] < Priority[p]
  /\ \A q \in Held : Priority[victim] <= Priority[q]
  /\ status' = [status EXCEPT ![p] = "ready", ![victim] = "evicted"]
  /\ answer' = "SPOOL_OK"
  /\ UNCHANGED <<attempts, limit, patient, open>>

(* Refused, and only because nothing could give way.                       *)
Reject(p) ==
  /\ status[p] = "caller" /\ Cardinality(Held) = Capacity
  /\ \A q \in Held : Priority[q] >= Priority[p]
  /\ answer' = "SPOOL_OVERFLOW"
  /\ UNCHANGED <<status, attempts, limit, patient, open>>

Transmit(p) ==
  /\ status[p] = "ready"
  /\ status' = [status EXCEPT ![p] =
                  IF WantsAck(p) /\ patient THEN "waiting" ELSE "sent"]
  /\ attempts' = [attempts EXCEPT ![p] = @ + 1]
  /\ answer' = "SPOOL_OK"
  /\ UNCHANGED <<limit, patient, open>>

NothingToSend ==
  /\ In("ready") = {}
  /\ answer' = "SPOOL_UNDERFLOW"
  /\ UNCHANGED <<status, attempts, limit, patient, open>>

(* A response releases one waiting packet with its token, and is refused   *)
(* only if it is no acknowledgement or no waiting packet has its token.    *)
Acknowledge(token) ==
  /\ \E p \in In("waiting") :
       /\ ~AckFlag[p] /\ Token[p] = token
       /\ status' = [status EXCEPT ![p] = "acked"]
  /\ answer' = "TRUE"
  /\ UNCHANGED <<attempts, limit, patient, open>>

Ignore(token, isAck) ==
  /\ isAck => \A p \in In("waiting") : Token[p] # token
  /\ answer' = "FALSE"
  /\ UNCHANGED <<status, attempts, limit, patient, open>>

(* Some waiting packets ran out of time; those with attempts left become   *)
(* ready again, the others have failed.                                    *)
Expire(late) ==
  /\ late \subseteq In("waiting")
  /\ status' = [p \in Packets |->
                  IF p \notin late THEN status[p]
                  ELSE IF attempts[p] < limit THEN "ready" ELSE "failed"]
  /\ answer' = "NONE"
  /\ UNCHANGED <<attempts, limit, patient, open>>

Configure ==
  /\ limit' \in Limits /\ patient' \in Patience
  /\ answer' = "NONE"
  /\ UNCHANGED <<status, attempts, open>>

Close ==
  /\ open' = FALSE
  /\ answer' = "NONE"
  /\ UNCHANGED <<status, attempts, limit, patient>>

Next ==
  /\ open
  /\ \/ \E p \in Packets : Accept(p) \/ Reject(p) \/ Transmit(p)
     \/ \E p, victim \in Packets : Replace(p, victim)
     \/ NothingToSend
     \/ \E token \in Tokens :
          Acknowledge(token) \/ \E isAck \in BOOLEAN : Ignore(token, isAck)
     \/ \E late \in SUBSET In("waiting") : Expire(late)
     \/ Configure
     \/ Close

Spec == Init /\ [][Next]_vars
=============================================================================
