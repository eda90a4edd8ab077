------------------------------- MODULE PolyLink --------------------------------
(***************************************************************************)
(* Two services, each with one interface, joined by a line.  The client    *)
(* sends commands, the server handles them and answers; the line may lose  *)
(* frames and deliver them in any order, and the client's spool retries.   *)
(* This is where the promises of an acknowledgement can be stated: they    *)
(* relate the spool of one end to the handlers of the other.               *)
(*                                                                         *)
(* c... are the variables of the client, s... those of the server; the     *)
(* line is external code behind f_TxBytes and poly_service_feed.           *)
(***************************************************************************)
EXTENDS PolySpoolOps, Bags

CONSTANTS
  TypeOf, Malformed, Overridden, Foreign, Commands, TickSizes, Retries, TimeOut,
  MaxSent  \* bound: commands the client sends in a behaviour

VARIABLES
  cSpool, cFifo, cTx, cAuto, cPc, cAt, cPacket, cUnsent, cFed,
  cHandled, cTransmitted, cAcked, cLost,
  sSpool, sFifo, sTx, sAuto, sPc, sAt, sPacket, sUnsent, sFed,
  sHandled, sTransmitted, sAcked, sLost,
  toServer,  \* bag of frames on their way from the client to the server
  toClient,  \* and back
  lossless   \* BOOLEAN: the line loses nothing and is faster than the timeout

Client == INSTANCE PolyService WITH
  InterfaceCount <- 1, Outgoing <- Commands, Incoming <- {}, MaxFed <- 0,
  mOutSpool <- cSpool, mBytefifo <- cFifo, mTxReady <- cTx, mAutoAck <- cAuto,
  pc <- cPc, at <- cAt, packet <- cPacket, unsent <- cUnsent, fed <- cFed,
  handled <- cHandled, transmitted <- cTransmitted, acked <- cAcked, lost <- cLost

Server == INSTANCE PolyService WITH
  InterfaceCount <- 1, Outgoing <- {}, Incoming <- {}, MaxFed <- 0,
  mOutSpool <- sSpool, mBytefifo <- sFifo, mTxReady <- sTx, mAutoAck <- sAuto,
  pc <- sPc, at <- sAt, packet <- sPacket, unsent <- sUnsent, fed <- sFed,
  handled <- sHandled, transmitted <- sTransmitted, acked <- sAcked, lost <- sLost

(* What PolyService assumes of its constants, for both ends.               *)
ASSUME LinkAssumption ==
  /\ TypeOf \in [Packets -> Client!PacketTypes]
  /\ Malformed \cap Packets = {}
  /\ Overridden \subseteq Client!PacketTypes
  /\ Foreign \subseteq {p \in Packets : TypeOf[p] = "Ping"}
  /\ Commands \subseteq Client!Requests
  /\ \A q \in Commands, type \in {"Ack", "Data"} :
       \E r \in Packets : Server!IsAnswer(r, q, type)
  /\ TickSizes \subseteq Nat /\ Retries \in Nat /\ TimeOut \in Nat
  /\ MaxSent \in Nat

clientVars == <<cSpool, cFifo, cTx, cAuto, cPc, cAt, cPacket, cUnsent, cFed,
                cHandled, cTransmitted, cAcked, cLost>>
serverVars == <<sSpool, sFifo, sTx, sAuto, sPc, sAt, sPacket, sUnsent, sFed,
                sHandled, sTransmitted, sAcked, sLost>>
vars == <<clientVars, serverVars, toServer, toClient, lossless>>

Init ==
  /\ Client!Init /\ Server!Init
  /\ toServer = EmptyBag /\ toClient = EmptyBag
  /\ lossless \in BOOLEAN

One(frame) == SetToBag({frame})

(* The steps of tp_service_process other than a transmission.  No frame is *)
(* malformed here; a struct or a foreign Ping ends the process that parses *)
(* it, which then is not called any more.                                  *)
ClientWorks ==
  /\ \/ Client!StartProcess \/ Client!ParseNothing \/ Client!ParseValid
     \/ \E status \in Client!HandlerStatus : Client!Dispatch(status)
     \/ Client!DispatchAsserts \/ Client!DespoolNothing
  /\ UNCHANGED <<serverVars, toServer, toClient>>

ServerWorks ==
  /\ \/ Server!StartProcess \/ Server!ParseNothing \/ Server!ParseValid
     \/ \E status \in Server!HandlerStatus : Server!Dispatch(status)
     \/ Server!DispatchAsserts \/ Server!DespoolNothing
  /\ UNCHANGED <<clientVars, toServer, toClient>>

(* The bytes written by f_TxBytes are on the line.                         *)
ClientTransmits ==
  /\ Client!DespoolPacket
  /\ toServer' = toServer (+) One(Client!Popping(0))
  /\ UNCHANGED <<serverVars, toClient>>

ServerTransmits ==
  /\ Server!DespoolPacket
  /\ toClient' = toClient (+) One(Server!Popping(0))
  /\ UNCHANGED <<clientVars, toServer>>

ReachesServer(frame) ==
  /\ sPc # "assert" /\ BagIn(frame, toServer)
  /\ Server!Feed(0, frame)
  /\ toServer' = toServer (-) One(frame)
  /\ UNCHANGED <<clientVars, sFed, toClient>>

ReachesClient(frame) ==
  /\ cPc # "assert" /\ BagIn(frame, toClient)
  /\ Client!Feed(0, frame)
  /\ toClient' = toClient (-) One(frame)
  /\ UNCHANGED <<serverVars, cFed, toServer>>

Lose ==
  /\ ~lossless
  /\ \/ \E frame \in BagToSet(toServer) :
          toServer' = toServer (-) One(frame) /\ UNCHANGED toClient
     \/ \E frame \in BagToSet(toClient) :
          toClient' = toClient (-) One(frame) /\ UNCHANGED toServer
  /\ UNCHANGED <<clientVars, serverVars>>

SendCommand ==
  /\ cPc # "assert" /\ Cardinality(Commands \ cUnsent) < MaxSent
  /\ \E p \in Commands : Client!Send(0, p)
  /\ UNCHANGED <<serverVars, toServer, toClient>>

TimePasses ==
  /\ cPc # "assert" /\ ~lossless
  /\ \E ms \in TickSizes : Client!Tick(ms)
  /\ UNCHANGED <<serverVars, toServer, toClient>>

Arrival == \E frame \in Packets : ReachesServer(frame) \/ ReachesClient(frame)

Works == \/ ClientWorks \/ ServerWorks \/ ClientTransmits \/ ServerTransmits

Next ==
  /\ Works \/ Arrival \/ SendCommand \/ Lose \/ TimePasses
  /\ UNCHANGED lossless

Spec == Init /\ [][Next]_vars

(* Both ends call tp_service_process again and again, and what is on the   *)
(* line arrives; fairness is only asked of the line that loses nothing.    *)
Reliably(A) == lossless /\ A /\ UNCHANGED lossless

FairSpec ==
  /\ Spec
  /\ WF_vars(Reliably(ClientWorks \/ ClientTransmits))
  /\ WF_vars(Reliably(ServerWorks \/ ServerTransmits))
  /\ WF_vars(Reliably(Arrival))
-----------------------------------------------------------------------------
Frames == Packets \cup Malformed

TypeOK ==
  /\ lossless \in BOOLEAN
  /\ Client!TypeOK /\ Server!TypeOK
  /\ IsABag(toServer) /\ BagToSet(toServer) \subseteq Frames
  /\ IsABag(toClient) /\ BagToSet(toClient) \subseteq Frames

(* "callback for when packet is acknowledged": what the spool takes for an *)
(* acknowledgement of a packet means that the peer received that packet    *)
(* and that its handler accepted it, however often the packet was retried  *)
(* and whatever answers were lost or late.                                 *)
AckedWasHandled == \A p \in Commands : <<0, p>> \in cAcked => <<0, p>> \in sHandled

(* On a line that loses nothing and is faster than the timeout a command   *)
(* that was handled is acknowledged, unless the server stopped at an       *)
(* assertion before the answer was out: no response is dropped or left     *)
(* lying in the server's spool, and none of them misses its command.       *)
HandledIsAcked ==
  lossless => \A p \in Commands :
    <<0, p>> \in sHandled ~> <<0, p>> \in cAcked \/ sPc = "assert"
=============================================================================
