------------------------------ MODULE PolyService ------------------------------
(***************************************************************************)
(* A service with its interfaces (poly_service.c) driven by the generated  *)
(* loop tp_service_process (UT/testService.c): take one valid frame from   *)
(* the interfaces, dispatch it to its handler, spool the answer on the     *)
(* interface the request came from, then send one packet per interface.    *)
(* Other threads feed bytes, send packets and tick the timers between any  *)
(* two of these steps.                                                     *)
(*                                                                         *)
(* A frame in a receive fifo is a packet, or one of Malformed: a frame too *)
(* short for a header, of an unregistered type, or refused by the packet   *)
(* parser.  Of a handler only its status matters.                          *)
(*                                                                         *)
(* The definitions named Bug... are slips the properties must detect; the  *)
(* specification uses none of them.                                        *)
(***************************************************************************)
EXTENDS PolySpoolOps, Sequences

CONSTANTS
  InterfaceCount,  \* interfaces of the service
  TypeOf,          \* [Packets -> PacketTypes], mHeader.mTypeId
  Malformed,       \* frames the parser refuses
  Overridden,      \* types whose weak handler the application replaces
  Foreign,         \* Pings with the hash of another protocol version
  Outgoing,        \* packets the application sends, once on one interface
  Incoming,        \* frames that arrive on the interfaces
  MaxFed,          \* bound: frames that arrive in a behaviour
  TickSizes,       \* milliseconds a tick may report
  Retries,         \* mMaxRetries of every interface
  TimeOut          \* mTimeOut of every interface

PacketTypes == {"Ping", "Ack", "Node", "SendCmd", "GetData", "Data"}
HandlerStatus == {"PACKET_HANDLED", "PACKET_IGNORED", "PACKET_NOT_HANDLED"}
Ifaces == 0 .. InterfaceCount - 1
Requests == {p \in Packets : ~AckFlag[p]}

(* r answers q: it carries q's token and the ack flag, and nobody waits    *)
(* for an acknowledgement of it.                                           *)
IsAnswer(r, q, type) ==
  TypeOf[r] = type /\ AckFlag[r] /\ Token[r] = Token[q] /\ AckType[r] = "NONE"

Answer(q, type) == CHOOSE r \in Packets : IsAnswer(r, q, type)

ASSUME ServiceAssumption ==
  /\ InterfaceCount \in Nat \ {0}
  /\ TypeOf \in [Packets -> PacketTypes]
  /\ Malformed \cap Packets = {}
  /\ Overridden \subseteq PacketTypes
  /\ Foreign \subseteq {p \in Packets : TypeOf[p] = "Ping"}
  /\ Outgoing \subseteq Requests
  /\ Incoming \subseteq Packets \cup Malformed
  /\ \A q \in Requests, type \in {"Ack", "Data"} :
       \E r \in Packets : IsAnswer(r, q, type)
  /\ MaxFed \in Nat /\ TickSizes \subseteq Nat /\ Retries \in Nat /\ TimeOut \in Nat

VARIABLES
  mOutSpool,    \* [Ifaces -> spool]
  mBytefifo,    \* [Ifaces -> Seq(frame)] received, not parsed
  mTxReady,     \* [Ifaces -> BOOLEAN]
  mAutoAck,     \* BOOLEAN
  pc,           \* where tp_service_process is
  at,           \* the interface its loops are at; the one packet came from
  packet,       \* the static packet of tp_service_process
  unsent,       \* packets the application has not sent yet
  fed,          \* number of frames fed so far
  handled,      \* {<<i, p>>} packets from interface i whose handler accepted them
  transmitted,  \* {<<i, p>>} packets handed to f_TxBytes of interface i
  acked,        \* {<<i, p>>} packets poly_spool_ack released on interface i
  lost          \* {<<i, p>>} requests whose answer found no room in the spool

process == <<pc, at, packet>>
settings == <<mTxReady, mAutoAck>>
history == <<handled, transmitted, acked, lost>>
vars == <<mOutSpool, mBytefifo, settings, process, unsent, fed, history>>

Init ==
  /\ mOutSpool = [i \in Ifaces |-> InitialSpool(Retries, ToInt(TimeOut))]
  /\ mBytefifo = [i \in Ifaces |-> <<>>]
  /\ mTxReady = [i \in Ifaces |-> TRUE]
  /\ mAutoAck = TRUE
  /\ pc = "idle" /\ at = 0 /\ packet = NoPacket
  /\ unsent = Outgoing /\ fed = 0
  /\ handled = {} /\ transmitted = {} /\ acked = {} /\ lost = {}

(* One more turn of a loop over the interfaces, or what follows the loop.  *)
NextInterface(after) ==
  IF at + 1 < InterfaceCount
  THEN at' = at + 1 /\ UNCHANGED pc
  ELSE at' = 0 /\ pc' = after

-----------------------------------------------------------------------------
(* tp_service_process                                                      *)

StartProcess ==
  /\ pc = "idle"
  /\ pc' = "parse" /\ at' = 0 /\ packet' = NoPacket
  /\ UNCHANGED <<mOutSpool, mBytefifo, settings, unsent, fed, history>>

(* poly_service_try_parse_interface finds no frame, or takes one that is   *)
(* no packet; poly_service_try_parse goes on with the next interface.      *)
BugEndsAtEmpty == pc' = "despool" /\ at' = 0
AfterNoFrame == NextInterface("despool")

ParseNothing ==
  /\ pc = "parse" /\ mBytefifo[at] = <<>>
  /\ AfterNoFrame
  /\ UNCHANGED <<mOutSpool, mBytefifo, settings, packet, unsent, fed, history>>

ParseMalformed ==
  /\ pc = "parse" /\ mBytefifo[at] # <<>> /\ Head(mBytefifo[at]) \in Malformed
  /\ mBytefifo' = [mBytefifo EXCEPT ![at] = Tail(@)]
  /\ NextInterface("despool")
  /\ UNCHANGED <<mOutSpool, settings, packet, unsent, fed, history>>

(* It takes a valid packet, and offers it to the spool of this interface   *)
(* if it is an acknowledgement; the loop over the interfaces ends here.    *)
ParseValid ==
  LET p == Head(mBytefifo[at])
      s == mOutSpool[at]
  IN  /\ pc = "parse" /\ mBytefifo[at] # <<>> /\ p \in Packets
      /\ mBytefifo' = [mBytefifo EXCEPT ![at] = Tail(@)]
      /\ packet' = p
      /\ mOutSpool' = [mOutSpool EXCEPT ![at] = Acked(@, Token[p], AckFlag[p])]
      /\ acked' = IF AckMatches(s, Token[p], AckFlag[p])
                  THEN acked \cup {<<at, s.mPacket[AckMatch(s, Token[p])]>>}
                  ELSE acked
      /\ pc' = "dispatch"
      /\ UNCHANGED <<settings, at, unsent, fed, handled, transmitted, lost>>

(* The handlers: tp_..._handler of the application, or the weak ones; and  *)
(* tp_default_handler, which the application must provide.                 *)
WeakHandler(type) ==
  IF type \in {"Ping", "Ack"} THEN "PACKET_HANDLED" ELSE "PACKET_NOT_HANDLED"

HandlerResults(p) ==
  IF TypeOf[p] \in Overridden THEN HandlerStatus ELSE {WeakHandler(TypeOf[p])}

DispatchResults(p) ==
  IF "PACKET_NOT_HANDLED" \in HandlerResults(p) THEN HandlerStatus ELSE HandlerResults(p)

(* A Node is a struct, registered like a packet but without a handler; and *)
(* the weak handler of Ping asserts that both ends agree on the protocol.  *)
Asserts(p) == \/ TypeOf[p] = "Node"
              \/ p \in Foreign /\ "Ping" \notin Overridden

(* tp_service_dispatch and the response.  A Ping or a GetData has an       *)
(* answer of its own; any other request gets an Ack if mAutoAck is set.    *)
BugForgetsAutoAck(p) == TypeOf[p] \in {"Ping", "GetData"}
HasResponse(p) == \/ TypeOf[p] \in {"Ping", "GetData"}
                  \/ mAutoAck /\ ~AckFlag[p]
ResponseType(p) == IF TypeOf[p] = "GetData" THEN "Data" ELSE "Ack"

BugAnswersUnhandled(p, status) == HasResponse(p) /\ ~AckFlag[p]
Responds(p, status) == status = "PACKET_HANDLED" /\ HasResponse(p) /\ ~AckFlag[p]

BugRespondsOnFirst(i) == 0
ResponseInterface(i) == i

(* tp_send does not tell tp_service_process that the spool was full.       *)
Dispatch(status) ==
  LET i == ResponseInterface(at)
      r == Answer(packet, ResponseType(packet))
  IN  /\ pc = "dispatch" /\ ~Asserts(packet)
      /\ status \in DispatchResults(packet)
      /\ handled' = IF status = "PACKET_HANDLED" THEN handled \cup {<<at, packet>>}
                    ELSE handled
      /\ IF Responds(packet, status)
         THEN /\ mOutSpool' = [mOutSpool EXCEPT ![i] = Pushed(@, r)]
              /\ lost' = IF Stores(mOutSpool[i], r) THEN lost
                         ELSE lost \cup {<<at, packet>>}
         ELSE UNCHANGED <<mOutSpool, lost>>
      /\ pc' = "despool" /\ at' = 0
      /\ UNCHANGED <<mBytefifo, settings, packet, unsent, fed, transmitted, acked>>

DispatchAsserts ==
  /\ pc = "dispatch" /\ Asserts(packet)
  /\ pc' = "assert"
  /\ UNCHANGED <<mOutSpool, mBytefifo, settings, at, packet, unsent, fed, history>>

(* poly_service_despool_interface; mReadyCount decides whether pop is      *)
(* called at all.                                                          *)
Transmits(i) == /\ mTxReady[i] /\ mOutSpool[i].mReadyCount > 0
                /\ NextReady(mOutSpool[i]) # ENTRY_NONE
Popping(i) == mOutSpool[i].mPacket[NextReady(mOutSpool[i])]

(* poly_service_despool serves every interface, whatever one had to send.  *)
BugDespoolsOne == pc' = "idle" /\ at' = 0
AfterDespool == NextInterface("idle")

DespoolNothing ==
  /\ pc = "despool" /\ ~Transmits(at)
  /\ AfterDespool
  /\ UNCHANGED <<mOutSpool, mBytefifo, settings, packet, unsent, fed, history>>

DespoolPacket ==
  /\ pc = "despool" /\ Transmits(at)
  /\ mOutSpool' = [mOutSpool EXCEPT ![at] = Popped(@)]
  /\ transmitted' = transmitted \cup {<<at, Popping(at)>>}
  /\ AfterDespool
  /\ UNCHANGED <<mBytefifo, settings, packet, unsent, fed, handled, acked, lost>>

Process ==
  \/ StartProcess \/ ParseNothing \/ ParseMalformed \/ ParseValid
  \/ \E status \in HandlerStatus : Dispatch(status)
  \/ DispatchAsserts \/ DespoolNothing \/ DespoolPacket

-----------------------------------------------------------------------------
(* Calls from other threads and from the application                       *)

(* poly_service_feed, up to the end of a frame; Arrive bounds their number *)
Feed(i, frame) ==
  /\ mBytefifo' = [mBytefifo EXCEPT ![i] = Append(@, frame)]
  /\ UNCHANGED <<mOutSpool, settings, process, unsent, history>>

Arrive(i, frame) ==
  /\ fed < MaxFed
  /\ fed' = fed + 1
  /\ Feed(i, frame)

(* tp_send: the packet stays with the application if there is no room      *)
Send(i, p) ==
  /\ p \in unsent
  /\ mOutSpool' = [mOutSpool EXCEPT ![i] = Pushed(@, p)]
  /\ unsent' = IF Stores(mOutSpool[i], p) THEN unsent \ {p} ELSE unsent
  /\ UNCHANGED <<mBytefifo, settings, process, fed, history>>

(* tp_tick *)
Tick(ms) ==
  /\ mOutSpool' = [i \in Ifaces |-> Ticked(mOutSpool[i], ToInt(ms))]
  /\ UNCHANGED <<mBytefifo, settings, process, unsent, fed, history>>

(* tp_enable_tx and tp_disable_tx *)
SetTx(i, ready) ==
  /\ mTxReady' = [mTxReady EXCEPT ![i] = ready]
  /\ UNCHANGED <<mOutSpool, mBytefifo, mAutoAck, process, unsent, fed, history>>

(* tp_auto_ack *)
SetAutoAck(enable) ==
  /\ mAutoAck' = enable
  /\ UNCHANGED <<mOutSpool, mBytefifo, mTxReady, process, unsent, fed, history>>

Calls ==
  \/ \E i \in Ifaces, frame \in Incoming : Arrive(i, frame)
  \/ \E i \in Ifaces, p \in Outgoing : Send(i, p)
  \/ \E ms \in TickSizes : Tick(ms)
  \/ \E i \in Ifaces, ready \in BOOLEAN : SetTx(i, ready)
  \/ \E enable \in BOOLEAN : SetAutoAck(enable)

Next == pc # "assert" /\ (Process \/ Calls)

Spec == Init /\ [][Next]_vars

(* An application calls tp_service_process again and again.                *)
FairSpec == Spec /\ WF_vars(pc # "assert" /\ Process)
-----------------------------------------------------------------------------
TypeOK ==
  /\ mOutSpool \in [Ifaces -> SpoolType]
  /\ mBytefifo \in [Ifaces -> Seq(Packets \cup Malformed)]
  /\ mTxReady \in [Ifaces -> BOOLEAN] /\ mAutoAck \in BOOLEAN
  /\ pc \in {"idle", "parse", "dispatch", "despool", "assert"}
  /\ at \in Ifaces /\ packet \in Packets \cup {NoPacket}
  /\ unsent \subseteq Outgoing /\ fed \in 0..MaxFed
  /\ handled \subseteq Ifaces \X Packets /\ transmitted \subseteq Ifaces \X Packets
  /\ acked \subseteq Ifaces \X Packets /\ lost \subseteq Ifaces \X Packets

(* Whatever an interface answers was asked on that interface: an answer in *)
(* its spool, or already sent on it, carries the token of a request that   *)
(* came in there and was handled.                                          *)
AnswersStayOnInterface ==
  \A i \in Ifaces, r \in Packets :
    /\ AckFlag[r]
    /\ \/ <<i, r>> \in transmitted
       \/ \E j \in InUse(mOutSpool[i]) : mOutSpool[i].mPacket[j] = r
    => \E q \in Requests : <<i, q>> \in handled /\ Token[q] = Token[r]

(* A packet counts as acknowledged only after it has gone out on the very  *)
(* interface that took the acknowledgement, and it is then not also in the *)
(* spool or still with the application.                                    *)
AcksComeBack ==
  \A i \in Ifaces, p \in Packets : <<i, p>> \in acked =>
    /\ <<i, p>> \in transmitted /\ p \notin unsent
    /\ \A j \in InUse(mOutSpool[i]) : mOutSpool[i].mPacket[j] # p

(* A received frame is parsed in the end, on whatever interface it came,   *)
(* malformed frames or not, once frames stop coming in on the others.  The *)
(* loop prefers interface 0: a source that never stops there would keep    *)
(* the others waiting for ever, which MaxFed rules out.                    *)
FramesAreParsed ==
  \A i \in Ifaces : (mBytefifo[i] # <<>>) ~> (mBytefifo[i] = <<>> \/ pc = "assert")

(* A packet that is ready goes out on its interface unless transmission    *)
(* there is disabled again and again, whatever the other interfaces do.    *)
ReadyIsTransmitted ==
  \A i \in Ifaces :
    \/ []<>(~mTxReady[i]) \/ <>(pc = "assert")
    \/ []<>(mOutSpool[i].mReadyCount = 0)
=============================================================================
