---------------------------- MODULE MCConvoPoller ---------------------------
(* Instances of ConvoPoller for TLC: one session of one file; or two, an old *)
(* one and one whose jobs never find its file.                              *)
EXTENDS ConvoPoller

MCMain == {<<1, 1>>}
MCTwoMains == {<<1, 1>>, <<2, 1>>}
MCOld == {<<1, 1>>}

MCMishaps(kinds) == [k \in MishapKind |-> IF k \in kinds THEN 1 ELSE 0]
MCJobFault == MCMishaps(MishapKind \ {"pass"})
MCPassOrRetry == MCMishaps({"pass", "retry"})
=============================================================================
