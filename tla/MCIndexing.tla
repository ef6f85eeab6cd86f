----------------------------- MODULE MCIndexing -----------------------------
(* Instances of Indexing for TLC: which faults may happen.                  *)
EXTENDS Indexing, TLC

CONSTANTS f1, f2, x1, x2, w1, w2

MCFirst == (f1 :> x1) @@ (f2 :> NoFile)
MCEach == [k \in FaultKind |-> 1]
MCNone == [k \in FaultKind |-> 0]
MCRemoveOnly == [k \in FaultKind |-> IF k = "remove" THEN 1 ELSE 0]
=============================================================================
