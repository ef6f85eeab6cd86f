---------------------------- MODULE MCConvoIngest ---------------------------
(* Instances of ConvoIngest for TLC: one key of each route, and which faults *)
(* may happen.                                                              *)
EXTENDS ConvoIngest

CONSTANTS native, seat

MCAnyFault == [k \in FaultKind |-> 1]
MCErrorOnly == [k \in FaultKind |-> IF k = "error" THEN 1 ELSE 0]
=============================================================================
