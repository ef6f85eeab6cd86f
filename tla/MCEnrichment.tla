---------------------------- MODULE MCEnrichment ----------------------------
(* An instance of Enrichment for TLC: two blobs that carry one text, and one *)
(* change beside the jobs.                                                  *)
EXTENDS Enrichment, TLC

CONSTANTS b1, b2, t1

MCCarries == (b1 :> {t1}) @@ (b2 :> {t1})

MCOneChange == {[changes |-> 1, faults |-> 0, boots |-> 0]}
=============================================================================
