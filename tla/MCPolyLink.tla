------------------------------ MODULE MCPolyLink -------------------------------
(***************************************************************************)
(* An instance of PolyLink for TLC: two commands that want acknowledgements *)
(* and a struct, which stops the server, with tokens of their own.         *)
(***************************************************************************)
EXTENDS PolyLink

Pkt(name, type, token, flag, ackType) ==
  [name |-> name, type |-> type, token |-> token, flag |-> flag, ack |-> ackType]

Cmd(name, token) == Pkt(name, "SendCmd", token, FALSE, "TOKEN")
Get(name, token) == Pkt(name, "GetData", token, FALSE, "TOKEN")
Response(type, token) == Pkt("answer", type, token, TRUE, "NONE")
Answers(tokens) == {Response(type, token) : type \in {"Ack", "Data"}, token \in tokens}

Struct(name, token) == Pkt(name, "Node", token, FALSE, "TOKEN")

MCCommands == {Cmd("first", 1), Get("second", 2), Struct("third", 3)}
MCPackets == MCCommands \cup Answers({1, 2, 3})
NoFrames == {}
NoTypes == {}

MCPriority == [p \in Packets |-> 0]
MCAckType == [p \in Packets |-> p.ack]
MCToken == [p \in Packets |-> p.token]
MCAckFlag == [p \in Packets |-> p.flag]
MCTypeOf == [p \in Packets |-> p.type]
=============================================================================
