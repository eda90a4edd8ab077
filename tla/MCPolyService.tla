----------------------------- MODULE MCPolyService -----------------------------
(***************************************************************************)
(* Instances of PolyService for TLC.  Packets are records; the application *)
(* sends a command that wants an acknowledgement, the peers send a GetData *)
(* and its like of a struct type, a Ping of another version of the         *)
(* protocol, an acknowledgement, and frames that are no packets.           *)
(***************************************************************************)
EXTENDS PolyService

CONSTANT garbage  \* a frame the parser refuses

Pkt(type, token, flag, ackType) ==
  [type |-> type, token |-> token, flag |-> flag, ack |-> ackType]

Cmd(token) == Pkt("SendCmd", token, FALSE, "TOKEN")
Request(type, token) == Pkt(type, token, FALSE, "NONE")
Response(type, token) == Pkt(type, token, TRUE, "NONE")

Answers(tokens) == {Response(type, token) : type \in {"Ack", "Data"}, token \in tokens}

TwoTokens == {Cmd(1), Request("GetData", 2)} \cup Answers({1, 2})
OtherVersion == {Request("Ping", 2)}
AllKinds == TwoTokens \cup OtherVersion \cup {Request("Node", 2)}
AllArriving ==
  {Request("GetData", 2), Request("Node", 2), Response("Ack", 1), garbage} \cup OtherVersion
OneCmd == {Cmd(1)}
Garbage == {garbage}

MCPriority == [p \in Packets |-> 0]
MCAckType == [p \in Packets |-> p.ack]
MCToken == [p \in Packets |-> p.token]
MCAckFlag == [p \in Packets |-> p.flag]
MCTypeOf == [p \in Packets |-> p.type]
=============================================================================
