----------------------------- MODULE MCServices -----------------------------
(* The daemon's other services, which share no state: a behaviour chooses   *)
(* one of them and the rest stand still.                                    *)
EXTENDS Debounce, ScopeCache, EmbedGovernor, Worktrees, SelfUpdate, ExactIndex, TurnClasses

CONSTANTS r1, d1, a1, b1, c1

VARIABLE service

MCUnder == {<<r1, r1>>, <<r1, d1>>, <<d1, d1>>}
MCPaths == <<a1, b1, c1>>
MCOne == [p \in {a1, b1, c1} |-> r1]
MCInside == {<<c1, b1>>}

MCTurn(spoken, calls, results, old) ==
  [said |-> spoken, hook |-> FALSE, calls |-> calls, results |-> results, old |-> old]

\* Words, a retrieval call, a result that does not say whose it is, and a write
\* of the old intake.
MCShape ==
  {MCTurn(TRUE, "none", "none", FALSE), MCTurn(FALSE, "retrieval", "none", FALSE),
   MCTurn(FALSE, "none", "other", FALSE), MCTurn(FALSE, "other", "none", TRUE)}

Service == {"watcher", "scope", "governor", "worktrees", "update", "exact", "turns"}

MCInit ==
  /\ service \in Service
  /\ DebounceInit /\ ScopeInit /\ GovernorInit /\ WorktreesInit /\ SelfUpdateInit
  /\ ExactInit /\ TurnsInit
  /\ service # "update" => auto /\ latest.good
  /\ vectors \in [Place -> {a1, NoValue}]  \* by symmetry of the values
  /\ (service # "exact" => vectors = None)
  /\ service # "turns" => turns = <<>>

\* A bound: two searches meet before the other daemon boots, or one after.
OneSearchAfterBoot == boots' > 0 => search'[c1] = IdleSearch

Watcher(A) ==
  service = "watcher" /\ A /\ UNCHANGED <<service, scvars, gvars, wvars, uvars, xvars, tvars>>
ScopeReads(A) ==
  service = "scope" /\ A /\ UNCHANGED <<service, dvars, gvars, wvars, uvars, xvars, tvars>>
Governor(A) ==
  service = "governor" /\ A /\ UNCHANGED <<service, dvars, scvars, wvars, uvars, xvars, tvars>>
Supervisor(A) ==
  service = "worktrees" /\ A /\ UNCHANGED <<service, dvars, scvars, gvars, uvars, xvars, tvars>>
Update(A) ==
  service = "update" /\ A /\ UNCHANGED <<service, dvars, scvars, gvars, wvars, xvars, tvars>>
Exact(A) ==
  service = "exact" /\ A /\ UNCHANGED <<service, dvars, scvars, gvars, wvars, uvars, tvars>>
Turns(A) ==
  service = "turns" /\ A /\ UNCHANGED <<service, dvars, scvars, gvars, wvars, uvars, xvars>>

MCNext ==
  \/ Watcher(DebounceNext) \/ ScopeReads(ScopeNext /\ OneSearchAfterBoot) \/ Governor(GovernorNext)
  \/ Supervisor(WorktreesNext) \/ Update(SelfUpdateNext)
  \/ Exact(ExactNext) \/ Turns(TurnsNext)

mcvars == <<service, dvars, scvars, gvars, wvars, uvars, xvars, tvars>>

\* GovernorFairness, WorktreesFairness, SelfUpdateFairness and that of TurnsSpec,
\* of the service that runs.
MCSpec ==
  /\ MCInit /\ [][MCNext]_mcvars
  /\ WF_mcvars(Governor(TimePasses))
  /\ \A q \in Request :
       /\ WF_mcvars(Governor(SeeClear(q))) /\ WF_mcvars(Governor(Admit(q) \/ HoldBack(q)))
       /\ WF_mcvars(Governor(Answered(q))) /\ WF_mcvars(Governor(Resend(q)))
  /\ \A q \in Query : WF_mcvars(Governor(QueryEnds(q)))
  /\ WF_mcvars(Supervisor(PassStep))
  /\ WF_mcvars(Update(IntervalPasses)) /\ WF_mcvars(Update(LockAges))
  /\ WF_mcvars(Update(BeginPass))
  /\ \A u \in Updater : WF_mcvars(Update(UpdaterStep(u)))
  /\ WF_mcvars(Turns(LoopStep)) /\ SF_mcvars(Turns(RestateWindow))

\* The type invariants of the seven.
ServicesTypeOK ==
  /\ DebounceTypeOK /\ ScopeTypeOK /\ GovernorTypeOK /\ WorktreesTypeOK /\ SelfUpdateTypeOK
  /\ ExactTypeOK /\ TurnsTypeOK

\* FollowsGit, of a daemon whose worktree supervisor runs: once the world is
\* still, the registered roots are the checkouts git names and no others.
WorktreesFollowGit == service = "worktrees" => FollowsGit
=============================================================================
