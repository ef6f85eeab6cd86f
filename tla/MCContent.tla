----------------------------- MODULE MCContent ------------------------------
(* What a root holds, and what is kept of it: a behaviour is of the index of *)
(* one root, or of the content layer under two blobs that carry one text;   *)
(* the other stands still.                                                  *)
EXTENDS MCIndexing, MCEnrichment

VARIABLE layer  \* which of the two this behaviour is of

MCBudget(c, f, n) == [changes |-> c, faults |-> f, boots |-> n]
MCBudgets == {MCBudget(2, 0, 0), MCBudget(1, 1, 0), MCBudget(0, 1, 1)}

mcvars == <<layer, ivars, evars>>

MCInit ==
  /\ layer \in {"index", "walks", "content"}
  /\ IndexInit /\ EnrichmentInit
  /\ layer # "content" => left = MCBudget(2, 0, 0)

\* Where there are faults a second walk is for a root that is not there.  The
\* walks of the other behaviours overlap; one that the first walker can take is
\* its to take, for they are alike.
InTurn ==
  \/ walks' = walks
  \/ layer = "index" /\ (walks = 0 \/ root = 0) /\ walk'[w2] = walk[w2]
  \/ layer = "walks" /\ (walk[w1].at # "idle" \/ walk'[w2] = walk[w2])

OfIndex(A) == layer # "content" /\ A /\ UNCHANGED <<layer, evars>>
OfContent(A) == layer = "content" /\ A /\ UNCHANGED <<layer, ivars>>

MCNext == OfIndex(IndexNext /\ InTurn /\ (layer = "walks" => UNCHANGED spent)) \/ OfContent(EnrichmentNext)

\* The fairness of IndexSpec and EnrichmentFairness, of the layer that runs.
MCSpec ==
  /\ MCInit /\ [][MCNext]_mcvars
  /\ \A f \in Path :
       WF_mcvars(OfIndex(\E settled \in SUBSET Path : f \in settled /\ BeginPass(settled)))
  /\ WF_mcvars(OfIndex(\E settled \in SUBSET Path : BeginPass(settled)))
  /\ WF_mcvars(OfIndex(WatcherSteps)) /\ WF_mcvars(OfIndex(Reparse))
  /\ \A w \in Walker : WF_mcvars(OfIndex(WalkSteps(w)))
  /\ \A i \in RootId, f \in Path : WF_mcvars(OfIndex(TaskSteps(i, f)))
  /\ WF_mcvars(OfContent(\E k \in Key : ClaimRow(k)))
  /\ WF_mcvars(OfContent(\E k \in Key : Work(k)))
  /\ WF_mcvars(OfContent(Collect))

\* The type invariants of the two.
ContentTypeOK == IndexTypeOK /\ EnrichmentTypeOK
=============================================================================
