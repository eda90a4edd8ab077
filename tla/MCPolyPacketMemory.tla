-------------------------- MODULE MCPolyPacketMemory ---------------------------
(***************************************************************************)
(* Instances of PolyPacketMemory for TLC: packets of a string of at most   *)
(* two characters, to which three or one are written.                      *)
(***************************************************************************)
EXTENDS PolyPacketMemory, TLC

CONSTANTS p, q

TwoPackets == {p, q}
Twins == Permutations(TwoPackets)

String == <<[size |-> 2, mVarLen |-> TRUE]>>
Written(i) == {<<1, 2, 1>>, <<2>>}
=============================================================================
