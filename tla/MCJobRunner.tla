----------------------------- MODULE MCJobRunner ----------------------------
(* Instances of JobRunner for TLC: one key per kind the question needs.    *)
EXTENDS JobRunner, TLC

CONSTANTS scan, vector, blank

\* Each key is named for its kind; blank is an embed key with only blank text.
MCKindOf == [k \in Key |-> IF k = scan THEN "scan_file" ELSE "embed"]

\* Daemons are interchangeable; safety runs may identify them.
DaemonSymmetry == Permutations(Daemon)
=============================================================================
