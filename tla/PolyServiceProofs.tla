--------------------------- MODULE PolyServiceProofs ---------------------------
(***************************************************************************)
(* What holds of PolyService for any number of interfaces, any packets and *)
(* frames, any handlers and any settings of the spools.                    *)
(***************************************************************************)
EXTENDS PolyService, PolySpoolOpsProofs

-----------------------------------------------------------------------------
(* Types.  Dispatch needs to know that there is a packet to dispatch, and  *)
(* what leaves a spool that it is a packet.                                *)

ServiceInv ==
  /\ TypeOK
  /\ \A i \in Ifaces : Sound(mOutSpool[i])
  /\ pc = "dispatch" => packet \in Packets

(* One spool changed for a sound one.                                      *)
LEMMA SpoolReplaced ==
  ASSUME ServiceInv, NEW i \in Ifaces, NEW t, Sound(t),
         mOutSpool' = [mOutSpool EXCEPT ![i] = t]
  PROVE  /\ mOutSpool' \in [Ifaces -> SpoolType]
         /\ \A k \in Ifaces : Sound(mOutSpool'[k])
         /\ mOutSpool'[i] = t /\ \A k \in Ifaces \ {i} : mOutSpool'[k] = mOutSpool[k]
<1>1. mOutSpool \in [Ifaces -> SpoolType] /\ \A k \in Ifaces : Sound(mOutSpool[k])
  BY DEF ServiceInv, TypeOK
<1>2. t \in SpoolType
  BY DEF Sound, WellFormed
<1> QED
  BY <1>1, <1>2

(* The answers to a request are packets.                                   *)
LEMMA AnswerExists ==
  ASSUME NEW q \in Packets, ~AckFlag[q]
  PROVE  LET r == Answer(q, ResponseType(q))
         IN  r \in Packets /\ AckFlag[r] /\ Token[r] = Token[q]
<1>1. q \in Requests /\ ResponseType(q) \in {"Ack", "Data"}
  BY DEF Requests, ResponseType
<1>2. \E r \in Packets : IsAnswer(r, q, ResponseType(q))
  BY <1>1, ServiceAssumption
<1>3. IsAnswer(Answer(q, ResponseType(q)), q, ResponseType(q))
      /\ Answer(q, ResponseType(q)) \in Packets
  BY <1>2 DEF Answer
<1> QED
  BY <1>3 DEF IsAnswer

(* The loops over the interfaces stay within them.                         *)
LEMMA LoopsInRange ==
  ASSUME at \in Ifaces,
         NEW after \in {"idle", "parse", "despool"}, NextInterface(after)
  PROVE  at' \in Ifaces /\ (pc' = pc \/ pc' = after)
BY ServiceAssumption DEF NextInterface, Ifaces

(* A new service is well-typed.                                            *)
LEMMA ServiceInit == Init => ServiceInv
<1> SUFFICES ASSUME Init PROVE ServiceInv
  OBVIOUS
<1>1. ToInt(TimeOut) \in Int /\ Retries \in Nat
  BY ServiceAssumption, ToIntType
<1>2. WellFormed(InitialSpool(Retries, ToInt(TimeOut)))
  BY <1>1, InitialWellFormed
<1>3. Sound(InitialSpool(Retries, ToInt(TimeOut)))
  BY <1>2 DEF Sound, InitialSpool, InUse
<1>4. mOutSpool \in [Ifaces -> SpoolType]
  BY <1>2 DEF Init, WellFormed
<1>5. 0 \in Ifaces /\ 0 \in 0..MaxFed
  BY ServiceAssumption DEF Ifaces
<1>6. TypeOK
  BY <1>4, <1>5 DEF Init, TypeOK
<1> QED
  BY <1>3, <1>6 DEF ServiceInv, Init

(* The steps of tp_service_process that take a frame or a packet.          *)
LEMMA ProcessKeepsTypes ==
  ASSUME ServiceInv, Process
  PROVE  ServiceInv'
<1> USE DEF TypeOK
<1>1. TypeOK /\ \A i \in Ifaces : Sound(mOutSpool[i]) /\ WellFormed(mOutSpool[i])
  BY DEF ServiceInv, Sound
<1>2. 0 \in Ifaces
  BY ServiceAssumption DEF Ifaces
<1>3. CASE StartProcess
  BY <1>1, <1>2, <1>3 DEF StartProcess, ServiceInv, settings, history
<1>4. CASE ParseNothing
  <2>1. at' \in Ifaces /\ pc' \in {"parse", "despool"}
    BY <1>1, <1>4, LoopsInRange DEF ParseNothing, AfterNoFrame
  <2> QED  BY <1>1, <1>4, <2>1 DEF ParseNothing, ServiceInv, settings, history
<1>5. CASE ParseMalformed
  <2>1. at' \in Ifaces /\ pc' \in {"parse", "despool"}
    BY <1>1, <1>5, LoopsInRange DEF ParseMalformed
  <2>2. mBytefifo' \in [Ifaces -> Seq(Packets \cup Malformed)]
    BY <1>1, <1>5 DEF ParseMalformed
  <2> QED  BY <1>1, <1>5, <2>1, <2>2 DEF ParseMalformed, ServiceInv, settings, history
<1>6. CASE ParseValid
  <2> DEFINE p == Head(mBytefifo[at])
             t == Acked(mOutSpool[at], Token[p], AckFlag[p])
  <2>1. mBytefifo' \in [Ifaces -> Seq(Packets \cup Malformed)]
    BY <1>1, <1>6 DEF ParseValid
  <2>2. Sound(t)
    BY <1>1, OperationsKeepSound
  <2>3. mOutSpool' = [mOutSpool EXCEPT ![at] = t]
    BY <1>6 DEF ParseValid
  <2>4. /\ mOutSpool' \in [Ifaces -> SpoolType]
        /\ \A k \in Ifaces : Sound(mOutSpool'[k])
    BY <1>1, <2>2, <2>3, SpoolReplaced
  <2>5. acked' \subseteq Ifaces \X Packets
    <3>1. CASE AckMatches(mOutSpool[at], Token[p], AckFlag[p])
      <4> DEFINE m == AckMatch(mOutSpool[at], Token[p])
      <4>1. m \in Waiting(mOutSpool[at])
        BY <1>1, <3>1, AckKeeps
      <4>2. m \in InUse(mOutSpool[at])
        BY <4>1 DEF Waiting, InState, InUse
      <4>3. acked' = acked \cup {<<at, mOutSpool[at].mPacket[m]>>}
        BY <1>6, <3>1 DEF ParseValid
      <4>4. mOutSpool[at].mPacket[m] \in Packets
        BY <1>1, <4>2 DEF Sound
      <4> QED  BY <1>1, <4>3, <4>4
    <3>2. CASE ~AckMatches(mOutSpool[at], Token[p], AckFlag[p])
      BY <1>1, <1>6, <3>2 DEF ParseValid
    <3> QED  BY <3>1, <3>2
  <2>6. /\ pc' = "dispatch" /\ packet' \in Packets /\ at' = at
        /\ UNCHANGED <<mTxReady, mAutoAck, unsent, fed, handled, transmitted, lost>>
    BY <1>6 DEF ParseValid, settings
  <2> QED  BY <1>1, <2>1, <2>4, <2>5, <2>6 DEF ServiceInv
<1>7. ASSUME NEW status \in HandlerStatus, Dispatch(status) PROVE ServiceInv'
  <2> DEFINE i == ResponseInterface(at)
             r == Answer(packet, ResponseType(packet))
  <2>1. i = at /\ packet \in Packets
    BY <1>7 DEF ResponseInterface, Dispatch, ServiceInv
  <2>2. /\ mOutSpool' \in [Ifaces -> SpoolType]
        /\ \A k \in Ifaces : Sound(mOutSpool'[k])
        /\ lost' \subseteq Ifaces \X Packets
    <3>1. CASE Responds(packet, status)
      <4>1. r \in Packets
        BY <2>1, <3>1, AnswerExists DEF Responds
      <4>2. Sound(Pushed(mOutSpool[i], r))
        BY <1>1, <2>1, <4>1, OperationsKeepSound
      <4>3. mOutSpool' = [mOutSpool EXCEPT ![i] = Pushed(mOutSpool[i], r)]
        BY <1>7, <3>1 DEF Dispatch
      <4>4. lost' \subseteq Ifaces \X Packets
        BY <1>1, <1>7, <2>1, <3>1 DEF Dispatch
      <4> HIDE DEF i, r
      <4> QED  BY <1>1, <2>1, <4>2, <4>3, <4>4, SpoolReplaced
    <3>2. CASE ~Responds(packet, status)
      BY <1>1, <1>7, <3>2 DEF Dispatch
    <3> QED  BY <3>1, <3>2
  <2>3. handled' \subseteq Ifaces \X Packets
    BY <1>1, <1>7, <2>1 DEF Dispatch
  <2>4. /\ pc' = "despool" /\ at' = 0 /\ packet' = packet
        /\ UNCHANGED <<mBytefifo, mTxReady, mAutoAck, unsent, fed, transmitted, acked>>
    BY <1>7 DEF Dispatch, settings
  <2> QED  BY <1>1, <1>2, <2>1, <2>2, <2>3, <2>4 DEF ServiceInv
<1>8. CASE DispatchAsserts
  BY <1>1, <1>8 DEF DispatchAsserts, ServiceInv, settings, history
<1>9. CASE DespoolNothing
  <2>1. at' \in Ifaces /\ pc' \in {"idle", "despool"}
    BY <1>1, <1>9, LoopsInRange DEF DespoolNothing, AfterDespool
  <2> QED  BY <1>1, <1>9, <2>1 DEF DespoolNothing, ServiceInv, settings, history
<1>10. CASE DespoolPacket
  <2>1. at' \in Ifaces /\ pc' \in {"idle", "despool"}
    BY <1>1, <1>10, LoopsInRange DEF DespoolPacket, AfterDespool
  <2>2. /\ NextReady(mOutSpool[at]) # ENTRY_NONE
        /\ mOutSpool' = [mOutSpool EXCEPT ![at] = Popped(mOutSpool[at])]
        /\ transmitted' = transmitted \cup {<<at, Popping(at)>>}
        /\ UNCHANGED <<mBytefifo, mTxReady, mAutoAck, packet, unsent, fed, handled, acked, lost>>
    BY <1>10 DEF DespoolPacket, Transmits, settings
  <2>3. Sound(Popped(mOutSpool[at]))
    BY <1>1, <2>2, OperationsKeepSound
  <2>4. /\ mOutSpool' \in [Ifaces -> SpoolType]
        /\ \A k \in Ifaces : Sound(mOutSpool'[k])
    BY <1>1, <2>2, <2>3, SpoolReplaced
  <2>5. Popping(at) \in Packets
    BY <1>1, <2>2, PopKeeps DEF Popping, Sound
  <2> QED  BY <1>1, <2>1, <2>2, <2>4, <2>5 DEF ServiceInv
<1> QED
  BY <1>3, <1>4, <1>5, <1>6, <1>7, <1>8, <1>9, <1>10 DEF Process

(* The calls of other threads and of the application.                      *)
LEMMA CallsKeepTypes ==
  ASSUME ServiceInv, Calls
  PROVE  ServiceInv'
<1> USE DEF TypeOK
<1>1. TypeOK /\ \A i \in Ifaces : Sound(mOutSpool[i]) /\ WellFormed(mOutSpool[i])
  BY DEF ServiceInv, Sound
<1>2. ASSUME NEW i \in Ifaces, NEW frame \in Incoming, Arrive(i, frame)
      PROVE  ServiceInv'
  <2>1. fed' \in 0..MaxFed
    BY <1>1, <1>2, ServiceAssumption DEF Arrive
  <2>2. mBytefifo' \in [Ifaces -> Seq(Packets \cup Malformed)]
    <3>1. frame \in Packets \cup Malformed
      BY ServiceAssumption
    <3>2. mBytefifo' = [mBytefifo EXCEPT ![i] = Append(@, frame)]
      BY <1>2 DEF Arrive, Feed
    <3> QED  BY <1>1, <3>1, <3>2
  <2> QED  BY <1>1, <1>2, <2>1, <2>2
           DEF Arrive, Feed, ServiceInv, settings, process, history
<1>3. ASSUME NEW i \in Ifaces, NEW p \in Outgoing, Send(i, p) PROVE ServiceInv'
  <2>1. p \in Packets
    BY ServiceAssumption DEF Requests
  <2>2. Sound(Pushed(mOutSpool[i], p))
    BY <1>1, <2>1, OperationsKeepSound
  <2>3. mOutSpool' = [mOutSpool EXCEPT ![i] = Pushed(mOutSpool[i], p)]
    BY <1>3 DEF Send
  <2>4. /\ mOutSpool' \in [Ifaces -> SpoolType]
        /\ \A k \in Ifaces : Sound(mOutSpool'[k])
    BY <1>1, <2>2, <2>3, SpoolReplaced
  <2>5. unsent' \subseteq Outgoing
    BY <1>1, <1>3 DEF Send
  <2> QED  BY <1>1, <1>3, <2>4, <2>5 DEF Send, ServiceInv, settings, process, history
<1>4. ASSUME NEW ms \in TickSizes, Tick(ms) PROVE ServiceInv'
  <2>1. ToInt(ms) \in Int
    BY ServiceAssumption, ToIntType
  <2>2. \A k \in Ifaces : Sound(Ticked(mOutSpool[k], ToInt(ms)))
    BY <1>1, <2>1, OperationsKeepSound
  <2>3. mOutSpool' = [k \in Ifaces |-> Ticked(mOutSpool[k], ToInt(ms))]
    BY <1>4 DEF Tick
  <2>4. /\ mOutSpool' \in [Ifaces -> SpoolType]
        /\ \A k \in Ifaces : Sound(mOutSpool'[k])
    BY <2>2, <2>3 DEF Sound, WellFormed
  <2> QED  BY <1>1, <1>4, <2>4 DEF Tick, ServiceInv, settings, process, history
<1>5. ASSUME NEW i \in Ifaces, NEW ready \in BOOLEAN, SetTx(i, ready) PROVE ServiceInv'
  BY <1>1, <1>5 DEF SetTx, ServiceInv, process, history
<1>6. ASSUME NEW enable \in BOOLEAN, SetAutoAck(enable) PROVE ServiceInv'
  BY <1>1, <1>6 DEF SetAutoAck, ServiceInv, process, history
<1> QED
  BY <1>2, <1>3, <1>4, <1>5, <1>6 DEF Calls

(* Every step of tp_service_process and every call keeps the invariant.    *)
LEMMA ServiceStep == ServiceInv /\ [Next]_vars => ServiceInv'
<1>1. ASSUME ServiceInv, UNCHANGED vars PROVE ServiceInv'
  BY <1>1 DEF vars, settings, process, history, ServiceInv, TypeOK
<1> QED
  BY <1>1, ProcessKeepsTypes, CallsKeepTypes DEF Next

(* The invariant holds throughout.                                         *)
LEMMA ServiceInvCorrect == Spec => []ServiceInv
BY ServiceInit, ServiceStep, PTL DEF Spec

(* Every state of the service has its type, whatever the handlers answer   *)
(* and whatever arrives.                                                   *)
THEOREM ServiceTypeCorrect == Spec => []TypeOK
<1>1. ServiceInv => TypeOK
  BY DEF ServiceInv
<1> QED
  BY <1>1, ServiceInvCorrect, PTL

-----------------------------------------------------------------------------
(* Answers.  The property is inductive: only dispatch puts a packet with   *)
(* the ack flag into a spool, that of the interface it handles.            *)

Holds(s, r) == \E j \in InUse(s) : s.mPacket[j] = r

Answered(i, r) == \E q \in Requests : <<i, q>> \in handled /\ Token[q] = Token[r]

(* In a form that speaks of one interface and one packet.                  *)
LEMMA AnswersRead ==
  AnswersStayOnInterface <=>
    \A i \in Ifaces, r \in Packets :
      AckFlag[r] /\ (<<i, r>> \in transmitted \/ Holds(mOutSpool[i], r)) => Answered(i, r)
BY DEF AnswersStayOnInterface, Holds, Answered

(* No step puts an answer into the spool of an interface, or transmits it  *)
(* there, that nothing handled there asked for.                            *)
LEMMA AnswersStep ==
  ServiceInv /\ AnswersStayOnInterface /\ [Next]_vars => AnswersStayOnInterface'
<1> SUFFICES ASSUME ServiceInv, AnswersStayOnInterface, [Next]_vars,
                    NEW i \in Ifaces, NEW r \in Packets, AckFlag[r],
                    <<i, r>> \in transmitted' \/ Holds(mOutSpool'[i], r)
             PROVE  \E q \in Requests : <<i, q>> \in handled' /\ Token[q] = Token[r]
  BY DEF AnswersStayOnInterface, Holds
<1>1. /\ WellFormed(mOutSpool[i]) /\ Sound(mOutSpool[i])
      /\ mOutSpool \in [Ifaces -> SpoolType] /\ at \in Ifaces
  BY DEF ServiceInv, Sound, TypeOK
<1>2. handled \subseteq handled'
  BY DEF Next, Process, Calls, StartProcess, ParseNothing, ParseMalformed, ParseValid, Dispatch,
         DispatchAsserts, DespoolNothing, DespoolPacket, Arrive, Feed, Send, Tick, SetTx,
         SetAutoAck, history, vars
<1>3. Answered(i, r) => \E q \in Requests : <<i, q>> \in handled' /\ Token[q] = Token[r]
  BY <1>2 DEF Answered
<1>4. <<i, r>> \in transmitted \/ Holds(mOutSpool[i], r) => Answered(i, r)
  BY AnswersRead
<1>5. \A t : Keeps(mOutSpool[i], t) /\ Holds(t, r) => Holds(mOutSpool[i], r)
  BY DEF Keeps, Holds
<1>6. ASSUME NEW p \in Packets, Holds(Pushed(mOutSpool[i], p), r), r # p
      PROVE  Holds(mOutSpool[i], r)
  BY <1>1, <1>6, PushKeeps DEF Holds
<1>7. CASE UNCHANGED <<mOutSpool, transmitted>>
  BY <1>3, <1>4, <1>7
<1>8. CASE ParseValid
  <2>1. /\ transmitted' = transmitted
        /\ mOutSpool' = [mOutSpool EXCEPT ![at] =
             Acked(@, Token[Head(mBytefifo[at])], AckFlag[Head(mBytefifo[at])])]
    BY <1>8 DEF ParseValid
  <2>2. \A token, flag : Keeps(mOutSpool[i], Acked(mOutSpool[i], token, flag))
    BY <1>1, AckKeeps
  <2>3. Holds(mOutSpool'[i], r) => Holds(mOutSpool[i], r)
    BY <1>1, <1>5, <2>1, <2>2
  <2> QED  BY <1>3, <1>4, <2>1, <2>3
<1>9. ASSUME NEW status \in HandlerStatus, Dispatch(status), Responds(packet, status)
      PROVE  \E q \in Requests : <<i, q>> \in handled' /\ Token[q] = Token[r]
  <2> DEFINE a == Answer(packet, ResponseType(packet))
  <2>1. /\ mOutSpool' = [mOutSpool EXCEPT ![at] = Pushed(@, a)]
        /\ transmitted' = transmitted
        /\ status = "PACKET_HANDLED" => handled' = handled \cup {<<at, packet>>}
    BY <1>9 DEF Dispatch, ResponseInterface
  <2>2. packet \in Packets /\ ~AckFlag[packet] /\ status = "PACKET_HANDLED"
    BY <1>9 DEF Dispatch, Responds, ServiceInv
  <2>3. a \in Packets /\ Token[a] = Token[packet]
    BY <2>2, AnswerExists
  <2> HIDE DEF a
  <2>4. CASE i = at /\ r = a
    BY <2>1, <2>2, <2>3, <2>4 DEF Requests
  <2>5. CASE ~(i = at /\ r = a)
    <3>1. Holds(mOutSpool'[i], r) => Holds(mOutSpool[i], r)
      BY <1>1, <1>6, <2>1, <2>3, <2>5
    <3> QED  BY <1>3, <1>4, <2>1, <3>1
  <2> QED  BY <2>4, <2>5
<1>10. CASE DespoolPacket
  <2>1. /\ transmitted' = transmitted \cup {<<at, Popping(at)>>}
        /\ mOutSpool' = [mOutSpool EXCEPT ![at] = Popped(@)]
        /\ NextReady(mOutSpool[at]) # ENTRY_NONE
    BY <1>10 DEF DespoolPacket, Transmits
  <2>2. CASE i = at
    <3>1. Keeps(mOutSpool[i], Popped(mOutSpool[i])) /\ Holds(mOutSpool[i], Popping(at))
      BY <1>1, <2>1, <2>2, PopKeeps DEF Holds, Popping
    <3>2. mOutSpool'[i] = Popped(mOutSpool[i])
      BY <1>1, <2>1, <2>2
    <3> QED  BY <1>3, <1>4, <1>5, <2>1, <3>1, <3>2
  <2>3. CASE i # at
    <3>1. mOutSpool'[i] = mOutSpool[i]
      BY <1>1, <2>1, <2>3
    <3> QED  BY <1>3, <1>4, <2>1, <2>3, <3>1
  <2> QED  BY <2>2, <2>3
<1>11. ASSUME NEW k \in Ifaces, NEW p \in Outgoing, Send(k, p)
       PROVE  \E q \in Requests : <<i, q>> \in handled' /\ Token[q] = Token[r]
  <2>1. /\ mOutSpool' = [mOutSpool EXCEPT ![k] = Pushed(@, p)]
        /\ transmitted' = transmitted
    BY <1>11 DEF Send, history
  <2>2. p \in Packets /\ p # r
    BY ServiceAssumption DEF Requests
  <2>3. Holds(mOutSpool'[i], r) => Holds(mOutSpool[i], r)
    BY <1>1, <1>6, <2>1, <2>2
  <2> QED  BY <1>3, <1>4, <2>1, <2>3
<1>12. ASSUME NEW ms \in TickSizes, Tick(ms)
       PROVE  \E q \in Requests : <<i, q>> \in handled' /\ Token[q] = Token[r]
  <2>1. /\ mOutSpool' = [k \in Ifaces |-> Ticked(mOutSpool[k], ToInt(ms))]
        /\ transmitted' = transmitted
    BY <1>12 DEF Tick, history
  <2>2. ToInt(ms) \in Int
    BY ServiceAssumption, ToIntType
  <2>3. Keeps(mOutSpool[i], Ticked(mOutSpool[i], ToInt(ms)))
    BY <1>1, <2>2, TickKeeps
  <2> QED  BY <1>3, <1>4, <1>5, <2>1, <2>3
<1>13. \A status \in HandlerStatus : Dispatch(status) /\ ~Responds(packet, status)
         => UNCHANGED <<mOutSpool, transmitted>>
  BY DEF Dispatch
<1>14. CASE \/ StartProcess \/ ParseNothing \/ ParseMalformed \/ DispatchAsserts
            \/ DespoolNothing
            \/ \E k \in Ifaces, frame \in Incoming : Arrive(k, frame)
            \/ \E k \in Ifaces, ready \in BOOLEAN : SetTx(k, ready)
            \/ \E enable \in BOOLEAN : SetAutoAck(enable)
            \/ UNCHANGED vars
  BY <1>7, <1>14 DEF StartProcess, ParseNothing, ParseMalformed, DispatchAsserts,
     DespoolNothing, Arrive, Feed, SetTx, SetAutoAck, history, vars
<1> QED
  BY <1>7, <1>8, <1>9, <1>10, <1>11, <1>12, <1>13, <1>14 DEF Next, Process, Calls

(* Whatever an interface answers was asked, and handled, on that interface.*)
THEOREM AnswersCorrect == Spec => []AnswersStayOnInterface
<1>1. Init => AnswersStayOnInterface
  BY DEF Init, AnswersStayOnInterface, InitialSpool, InUse
<1> QED
  BY <1>1, AnswersStep, ServiceInvCorrect, PTL DEF Spec

-----------------------------------------------------------------------------
(* Acknowledgements.  Of one interface i with spool s: a packet that is no *)
(* answer is in one entry at most, and then no longer with the             *)
(* application; it waits only once it was transmitted; and once it was     *)
(* acknowledged it is in no entry and will not be sent again.              *)

Ledger(i, s, sentOn, ackedOn, left) ==
  /\ \A j, k \in InUse(s) :
       s.mPacket[j] = s.mPacket[k] /\ ~AckFlag[s.mPacket[j]] => j = k
  /\ \A j \in InUse(s) : ~AckFlag[s.mPacket[j]] => s.mPacket[j] \notin left
  /\ \A j \in Waiting(s) : <<i, s.mPacket[j]>> \in sentOn
  /\ \A p \in Packets : <<i, p>> \in ackedOn =>
       /\ ~AckFlag[p] /\ <<i, p>> \in sentOn /\ p \notin left
       /\ ~Holds(s, p)

LedgerInv ==
  \A i \in Ifaces : Ledger(i, mOutSpool[i], transmitted, acked, unsent)

(* It survives every operation that leaves packets where they are or lets  *)
(* them go, if an entry that begins to wait was transmitted.               *)
LEMMA KeepingLedger ==
  ASSUME NEW i, NEW s, NEW t, NEW sentOn, NEW sentOn2, NEW ackedOn, NEW left, NEW left2,
         Ledger(i, s, sentOn, ackedOn, left), Keeps(s, t),
         sentOn \subseteq sentOn2, left2 \subseteq left,
         \A j \in Waiting(t) : j \in Waiting(s) \/ <<i, s.mPacket[j]>> \in sentOn2
  PROVE  Ledger(i, t, sentOn2, ackedOn, left2)
BY DEF Ledger, Keeps, Holds

(* A packet that is pushed was with the application, or is an answer.      *)
LEMMA PushingLedger ==
  ASSUME NEW i, NEW s, WellFormed(s), NEW p \in Packets,
         NEW sentOn, NEW ackedOn, NEW left, NEW left2,
         Ledger(i, s, sentOn, ackedOn, left), left2 \subseteq left,
         AckFlag[p] \/ p \in left,
         Stores(s, p) => AckFlag[p] \/ p \notin left2
  PROVE  Ledger(i, Pushed(s, p), sentOn, ackedOn, left2)
<1>1. CASE ~Stores(s, p)
  <2>1. Pushed(s, p) = s
    BY <1>1, PushKeeps
  <2> QED  BY <2>1 DEF Ledger
<1>2. CASE Stores(s, p)
  <2> DEFINE n == NextFree(s, p)
             t == Pushed(s, p)
  <2>1. /\ n \in Slots /\ t.mPacket[n] = p
        /\ InUse(t) \subseteq InUse(s) \cup {n}
        /\ Waiting(t) \subseteq Waiting(s) \ {n}
        /\ \A j \in InUse(t) \ {n} : t.mPacket[j] = s.mPacket[j]
    BY <1>2, PushKeeps
  <2>2. Waiting(t) \subseteq InUse(t)
    BY DEF Waiting, InState, InUse
  <2> HIDE DEF n, t
  <2>3. ~AckFlag[p] => \A j \in InUse(s) : s.mPacket[j] # p
    BY DEF Ledger
  <2>4. \A j \in InUse(t) \ {n} : j \in InUse(s) /\ t.mPacket[j] = s.mPacket[j]
    BY <2>1
  <2>5. \A j, k \in InUse(t) : t.mPacket[j] = t.mPacket[k] /\ ~AckFlag[t.mPacket[j]] => j = k
    BY <2>1, <2>3, <2>4 DEF Ledger
  <2>6. \A j \in InUse(t) : ~AckFlag[t.mPacket[j]] => t.mPacket[j] \notin left2
    BY <1>2, <2>1, <2>4 DEF Ledger
  <2>7. \A j \in Waiting(t) : <<i, t.mPacket[j]>> \in sentOn
    BY <2>1, <2>2, <2>4 DEF Ledger
  <2>8. ASSUME NEW q \in Packets, <<i, q>> \in ackedOn
        PROVE  /\ ~AckFlag[q] /\ <<i, q>> \in sentOn /\ q \notin left2
               /\ ~Holds(t, q)
    <3>1. /\ ~AckFlag[q] /\ <<i, q>> \in sentOn /\ q \notin left /\ q \notin left2
          /\ ~Holds(s, q)
      BY <2>8 DEF Ledger
    <3> QED  BY <2>1, <2>4, <3>1 DEF Holds
  <2> QED  BY <2>5, <2>6, <2>7, <2>8 DEF Ledger, t
<1> QED
  BY <1>1, <1>2

(* An acknowledgement releases the one entry that holds the packet.        *)
LEMMA AckingLedger ==
  ASSUME NEW i, NEW s, Sound(s), NEW token, NEW flag,
         NEW sentOn, NEW ackedOn, NEW left, Ledger(i, s, sentOn, ackedOn, left),
         AckMatches(s, token, flag)
  PROVE  Ledger(i, Acked(s, token, flag), sentOn,
                ackedOn \cup {<<i, s.mPacket[AckMatch(s, token)]>>}, left)
<1> DEFINE m == AckMatch(s, token)
           t == Acked(s, token, flag)
<1>1. /\ Keeps(s, t) /\ Waiting(t) \subseteq Waiting(s)
      /\ m \in Waiting(s) /\ m \notin InUse(t) /\ ~AckFlag[s.mPacket[m]]
  BY AckKeeps DEF Sound
<1> HIDE DEF m, t
<1>2. m \in InUse(s)
  BY <1>1 DEF Waiting, InState, InUse
<1>3. Ledger(i, t, sentOn, ackedOn, left)
  BY <1>1, KeepingLedger
<1>4. /\ <<i, s.mPacket[m]>> \in sentOn /\ s.mPacket[m] \notin left
      /\ ~Holds(t, s.mPacket[m])
  BY <1>1, <1>2 DEF Ledger, Keeps, Holds
<1>5. Ledger(i, t, sentOn, ackedOn \cup {<<i, s.mPacket[m]>>}, left)
  BY <1>1, <1>3, <1>4 DEF Ledger
<1> QED
  BY <1>5 DEF m, t

(* Every step keeps the ledger of what was transmitted and acknowledged.   *)
LEMMA LedgerStep ==
  ServiceInv /\ LedgerInv /\ [Next]_vars => LedgerInv'
<1> SUFFICES ASSUME ServiceInv, LedgerInv, [Next]_vars, NEW i \in Ifaces
             PROVE  Ledger(i, mOutSpool'[i], transmitted', acked', unsent')
  BY DEF LedgerInv
<1>1. /\ WellFormed(mOutSpool[i]) /\ Sound(mOutSpool[i])
      /\ mOutSpool \in [Ifaces -> SpoolType] /\ at \in Ifaces
      /\ unsent \subseteq Requests
  BY ServiceAssumption DEF ServiceInv, Sound, TypeOK
<1>2. Ledger(i, mOutSpool[i], transmitted, acked, unsent)
  BY DEF LedgerInv
<1>3. CASE UNCHANGED <<mOutSpool, transmitted, acked, unsent>>
  BY <1>2, <1>3
<1>4. CASE ParseValid
  <2> DEFINE p == Head(mBytefifo[at])
             s == mOutSpool[at]
  <2>1. /\ mOutSpool' = [mOutSpool EXCEPT ![at] = Acked(@, Token[p], AckFlag[p])]
        /\ UNCHANGED <<transmitted, unsent>>
        /\ acked' = IF AckMatches(s, Token[p], AckFlag[p])
                    THEN acked \cup {<<at, s.mPacket[AckMatch(s, Token[p])]>>}
                    ELSE acked
    BY <1>4 DEF ParseValid
  <2>2. CASE i # at
    <3>1. mOutSpool'[i] = mOutSpool[i] /\ \A q : <<i, q>> \in acked' <=> <<i, q>> \in acked
      BY <1>1, <2>1, <2>2
    <3>2. transmitted' = transmitted /\ unsent' = unsent
      BY <2>1
    <3> HIDE DEF p, s
    <3>3. Ledger(i, mOutSpool[i], transmitted, acked', unsent)
      BY <1>2, <3>1 DEF Ledger
    <3> QED  BY <3>1, <3>2, <3>3
  <2>3. CASE i = at
    <3>1. mOutSpool'[i] = Acked(s, Token[p], AckFlag[p])
      BY <1>1, <2>1, <2>3
    <3>2. CASE AckMatches(s, Token[p], AckFlag[p])
      BY <1>1, <1>2, <2>1, <2>3, <3>1, <3>2, AckingLedger
    <3>3. CASE ~AckMatches(s, Token[p], AckFlag[p])
      BY <1>2, <2>1, <2>3, <3>1, <3>3 DEF Acked
    <3> QED  BY <3>2, <3>3
  <2> QED  BY <2>2, <2>3
<1>5. ASSUME NEW status \in HandlerStatus, Dispatch(status), Responds(packet, status)
      PROVE  Ledger(i, mOutSpool'[i], transmitted', acked', unsent')
  <2> DEFINE a == Answer(packet, ResponseType(packet))
  <2>1. /\ mOutSpool' = [mOutSpool EXCEPT ![at] = Pushed(@, a)]
        /\ UNCHANGED <<transmitted, acked, unsent>>
    BY <1>5 DEF Dispatch, ResponseInterface
  <2>2. a \in Packets /\ AckFlag[a]
    BY <1>5, AnswerExists DEF Dispatch, Responds, ServiceInv
  <2> HIDE DEF a
  <2>3. Ledger(i, Pushed(mOutSpool[i], a), transmitted, acked, unsent)
    BY <1>1, <1>2, <2>2, PushingLedger
  <2> QED  BY <1>1, <1>2, <2>1, <2>3
<1>6. CASE DespoolPacket
  <2>1. /\ transmitted' = transmitted \cup {<<at, Popping(at)>>}
        /\ mOutSpool' = [mOutSpool EXCEPT ![at] = Popped(@)]
        /\ NextReady(mOutSpool[at]) # ENTRY_NONE /\ UNCHANGED <<acked, unsent>>
    BY <1>6 DEF DespoolPacket, Transmits
  <2>2. CASE i = at
    <3>1. /\ Keeps(mOutSpool[i], Popped(mOutSpool[i]))
          /\ Waiting(Popped(mOutSpool[i])) \subseteq Waiting(mOutSpool[i])
                                                        \cup {NextReady(mOutSpool[i])}
      BY <1>1, <2>1, <2>2, PopKeeps
    <3>2. mOutSpool'[i] = Popped(mOutSpool[i])
      BY <1>1, <2>1, <2>2
    <3>3. \A j \in Waiting(mOutSpool'[i]) :
            j \in Waiting(mOutSpool[i]) \/ <<i, mOutSpool[i].mPacket[j]>> \in transmitted'
      BY <2>1, <2>2, <3>1, <3>2 DEF Popping
    <3> QED  BY <1>2, <2>1, <3>1, <3>2, <3>3, KeepingLedger
  <2>3. CASE i # at
    <3>1. mOutSpool'[i] = mOutSpool[i]
      BY <1>1, <2>1, <2>3
    <3> QED  BY <1>2, <2>1, <3>1 DEF Ledger
  <2> QED  BY <2>2, <2>3
<1>7. ASSUME NEW k \in Ifaces, NEW p \in Outgoing, Send(k, p)
      PROVE  Ledger(i, mOutSpool'[i], transmitted', acked', unsent')
  <2>1. /\ mOutSpool' = [mOutSpool EXCEPT ![k] = Pushed(@, p)]
        /\ UNCHANGED <<transmitted, acked>> /\ p \in unsent
        /\ unsent' = IF Stores(mOutSpool[k], p) THEN unsent \ {p} ELSE unsent
    BY <1>7 DEF Send, history
  <2>2. p \in Packets
    BY ServiceAssumption DEF Requests
  <2>3. CASE i = k
    BY <1>1, <1>2, <2>1, <2>2, <2>3, PushingLedger
  <2>4. CASE i # k
    <3>1. mOutSpool'[i] = mOutSpool[i]
      BY <1>1, <2>1, <2>4
    <3> QED  BY <1>2, <2>1, <3>1 DEF Ledger
  <2> QED  BY <2>3, <2>4
<1>8. ASSUME NEW ms \in TickSizes, Tick(ms)
      PROVE  Ledger(i, mOutSpool'[i], transmitted', acked', unsent')
  <2>1. /\ mOutSpool' = [k \in Ifaces |-> Ticked(mOutSpool[k], ToInt(ms))]
        /\ UNCHANGED <<transmitted, acked, unsent>>
    BY <1>8 DEF Tick, history
  <2>2. ToInt(ms) \in Int
    BY ServiceAssumption, ToIntType
  <2>3. /\ Keeps(mOutSpool[i], Ticked(mOutSpool[i], ToInt(ms)))
        /\ Waiting(Ticked(mOutSpool[i], ToInt(ms))) \subseteq Waiting(mOutSpool[i])
    BY <1>1, <2>2, TickKeeps
  <2> QED  BY <1>2, <2>1, <2>3, KeepingLedger
<1>9. \A status \in HandlerStatus : Dispatch(status) /\ ~Responds(packet, status)
        => UNCHANGED <<mOutSpool, transmitted, acked, unsent>>
  BY DEF Dispatch
<1>10. CASE \/ StartProcess \/ ParseNothing \/ ParseMalformed \/ DispatchAsserts
            \/ DespoolNothing
            \/ \E k \in Ifaces, frame \in Incoming : Arrive(k, frame)
            \/ \E k \in Ifaces, ready \in BOOLEAN : SetTx(k, ready)
            \/ \E enable \in BOOLEAN : SetAutoAck(enable)
            \/ UNCHANGED vars
  BY <1>3, <1>10 DEF StartProcess, ParseNothing, ParseMalformed, DispatchAsserts,
     DespoolNothing, Arrive, Feed, SetTx, SetAutoAck, history, vars
<1> QED
  BY <1>3, <1>4, <1>5, <1>6, <1>7, <1>8, <1>9, <1>10 DEF Next, Process, Calls

(* A packet counts as acknowledged only after it went out on the interface *)
(* that took the acknowledgement, and it is then in no entry there and not *)
(* with the application any more.                                          *)
THEOREM AcksCorrect == Spec => []AcksComeBack
<1>1. Init => LedgerInv
  BY DEF Init, LedgerInv, Ledger, InitialSpool, InUse, Waiting, InState
<1>2. ServiceInv /\ LedgerInv => AcksComeBack
  <2> SUFFICES ASSUME ServiceInv, LedgerInv, NEW i \in Ifaces, NEW p \in Packets,
                      <<i, p>> \in acked
               PROVE  /\ <<i, p>> \in transmitted /\ p \notin unsent
                      /\ \A j \in InUse(mOutSpool[i]) : mOutSpool[i].mPacket[j] # p
    BY DEF AcksComeBack
  <2> QED  BY DEF LedgerInv, Ledger, Holds
<1> QED
  BY <1>1, <1>2, LedgerStep, ServiceInvCorrect, PTL DEF Spec
=============================================================================
