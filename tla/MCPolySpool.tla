------------------------------ MODULE MCPolySpool ------------------------------
(***************************************************************************)
(* Instances of PolySpool for TLC.  All packets want acknowledgements, but *)
(* the application may switch them off and on with a timeout of 0.  "a",   *)
(* "b" and "c" share a token, "h" has the higher priority.                 *)
(***************************************************************************)
EXTENDS PolySpool, TLC

CONSTANTS a, b, c, h

ThreePackets == {a, b, h}
FourPackets == {a, b, c, h}
Twins == Permutations({a, b, c})

MCPriority == [p \in Packets |-> IF p = h THEN 1 ELSE 0]
MCAckType == [p \in Packets |-> "TOKEN"]
MCToken == [p \in Packets |-> IF p = h THEN 2 ELSE 1]
MCAckFlag == [p \in Packets |-> FALSE]
=============================================================================
