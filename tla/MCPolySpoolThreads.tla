-------------------------- MODULE MCPolySpoolThreads --------------------------
(***************************************************************************)
(* Instances of PolySpoolThreads for TLC, with packets like those of       *)
(* MCPolySpool: "h" has the higher priority, all share a token, and "b"    *)
(* wants no acknowledgement.                                               *)
(***************************************************************************)
EXTENDS PolySpoolThreads

CONSTANTS a, b, h

MCPriority == [p \in Packets |-> IF p = h THEN 1 ELSE 0]
MCAckType == [p \in Packets |-> IF p = b THEN "NONE" ELSE "TOKEN"]
MCToken == [p \in Packets |-> 1]
MCAckFlag == [p \in Packets |-> FALSE]
=============================================================================
