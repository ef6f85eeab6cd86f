----------------------------- MODULE JobRunner ------------------------------
(***************************************************************************)
(* The daemons that serve one job table: how a daemon comes to serve       *)
(* (crates/daemon/src/boot.rs, serve), how its lanes claim and settle jobs *)
(* (crates/daemon/src/runner.rs), and how it stops, fast or by a crash.    *)
(*                                                                         *)
(* A daemon's claim of a row is an in-memory snapshot; its task judges the *)
(* outcome on that snapshot, and writes by id alone.                       *)
(***************************************************************************)
EXTENDS JobStore

CONSTANTS
  Daemon,           \* processes that may serve this database
  Nobody,           \* the daemon lock is free
  DeadSession,      \* ... or held by a session Postgres has yet to close
  NoClaim,          \* no task for this row
  Workers,          \* worker_concurrency: tasks of the general and ingest lanes
  EmbedClaim,       \* EMBED_CLAIM
  MaxAttempts,      \* MAX_ATTEMPTS
  MaxParks,         \* MAX_PARKS
  MaxBoots          \* bound: boots, all daemons together

Lane == {"general", "ingest", "embed"}

\* GENERAL_KINDS, and the two lanes of one kind.
KindsOf == [lane \in Lane |-> CASE lane = "general" -> {"scan_file", "summarize"}
                                [] lane = "ingest"  -> {"ingest_session"}
                                [] lane = "embed"   -> {"embed"}]

\* migrating: holds the lock; recovering: swept running rows; binding: revived
\* failed ones; stopping: shutdown signalled; releasing: the runner has ended;
\* unlocking: claims handed back.
Phase == {"down", "migrating", "recovering", "binding", "serving",
          "stopping", "releasing", "unlocking"}

Snapshot == [key : Key, payload : Payload, attempts : Nat, parks : Nat]

\* The Job a claim returns.
SnapshotOf(r) ==
  [key |-> r.key, payload |-> r.payload, attempts |-> r.attempts + 1, parks |-> r.parks]

ASSUME RunnerAssumption ==
  /\ {Nobody, DeadSession} \intersect Daemon = {}
  /\ Nobody # DeadSession
  /\ NoClaim \notin Snapshot
  /\ Workers \in Nat \ {0}
  /\ EmbedClaim \in Nat \ {0}
  /\ MaxAttempts \in Nat \ {0}
  /\ MaxParks \in Nat
  /\ MaxBoots \in Nat

VARIABLES
  phase,    \* where each daemon is in its life
  lock,     \* whose session holds the advisory lock
  claim,    \* each daemon's tasks in flight
  boots     \* boots so far

daemonVars == <<phase, lock, claim, boots>>
vars == <<jobs, next_id, phase, lock, claim, boots>>

TypeOK ==
  /\ StoreTypeOK
  /\ phase \in [Daemon -> Phase]
  /\ lock \in Daemon \union {Nobody, DeadSession}
  /\ claim \in [Daemon -> [JobId -> Snapshot \union {NoClaim}]]
  /\ boots \in Nat

NoClaims == [i \in JobId |-> NoClaim]

Init ==
  /\ StoreInit
  /\ phase = [d \in Daemon |-> "down"]
  /\ lock = Nobody
  /\ claim = [d \in Daemon |-> NoClaims]
  /\ boots = 0

Held(d) == {i \in JobId : claim[d][i] # NoClaim}

Goes(d, from, to) ==
  /\ phase[d] = from
  /\ phase' = [phase EXCEPT ![d] = to]

Unlocked(d) == IF lock = d THEN Nobody ELSE lock

-----------------------------------------------------------------------------
(* Boot.                                                                   *)

\* Mutant: the lock is not asked for.
BootUnlocked(d) ==
  /\ boots < MaxBoots
  /\ Goes(d, "down", "migrating")
  /\ lock' = d
  /\ UNCHANGED <<jobs, next_id, claim, boots>>

\* take_daemon_lock: a second daemon bails out and changes nothing.
TakeDaemonLock(d) ==
  /\ boots < MaxBoots
  /\ lock = Nobody
  /\ Goes(d, "down", "migrating")
  /\ lock' = d
  /\ UNCHANGED <<jobs, next_id, claim, boots>>

\* A failed sweep is logged and the boot goes on.
SweepRunning(d) ==
  /\ Goes(d, "migrating", "recovering")
  /\ RequeueRunning \/ UNCHANGED <<jobs, next_id>>
  /\ boots' = boots + 1
  /\ UNCHANGED <<lock, claim>>

\* recover_enrichment_jobs: retire the blank, then revive the rest.  Either
\* statement may fail without the other.
Enrichment == {"summarize", "embed"}

RetireEmpty(d) ==
  /\ phase[d] = "recovering"
  /\ RetireEmptyEmbedJobs
  /\ UNCHANGED daemonVars

ReviveFailed(d) ==
  /\ Goes(d, "recovering", "binding")
  /\ RequeueFailed(Enrichment) \/ UNCHANGED <<jobs, next_id>>
  /\ UNCHANGED <<lock, claim, boots>>

Serve(d) ==
  /\ Goes(d, "binding", "serving")
  /\ UNCHANGED <<jobs, next_id, lock, claim, boots>>

\* A migration or the bind fails: serve returns early and drops the lock.
BootFails(d) ==
  /\ \E from \in {"migrating", "binding"} : Goes(d, from, "down")
  /\ lock' = Unlocked(d)
  /\ UNCHANGED <<jobs, next_id, claim, boots>>

-----------------------------------------------------------------------------
(* Serving: producers, claims and settlements.                             *)

\* Boot sweeps, handlers, watchers, reconcilers and HTTP requests all enqueue;
\* the reconcilers outlive the runner.
Enqueue(k, p, pr, ready) ==
  /\ \E d \in Daemon : phase[d] \in {"binding", "serving", "stopping", "releasing"}
  /\ EnqueueJob(k, p, pr, ready)
  /\ UNCHANGED daemonVars

InLane(d, lane) == {i \in Held(d) : KindOf[claim[d][i].key] \in KindsOf[lane]}

\* Mutant: one pool of workers for every lane.
HasRoomShared(d, lane) == Cardinality(Held(d)) < Workers

\* A general or ingest lane claims one job while it has a free worker; the
\* embed lane claims a batch once it has settled the last one.
HasRoom(d, lane) == IF lane = "embed" THEN InLane(d, lane) = {}
                                      ELSE Cardinality(InLane(d, lane)) < Workers

Limit(lane) == IF lane = "embed" THEN EmbedClaim ELSE 1

Claim(d, lane) ==
  /\ phase[d] = "serving"
  /\ HasRoom(d, lane)
  /\ \E S \in Best(KindsOf[lane], Limit(lane)) \ {{}} :
       /\ ClaimJobs(S)
       /\ claim' = [claim EXCEPT ![d] =
            [i \in JobId |-> IF i \in S THEN SnapshotOf(jobs[i]) ELSE claim[d][i]]]
  /\ UNCHANGED <<phase, lock, boots>>

Outcome == {"ok", "rate_limited", "transient", "hopeless"}

Retryable(outcome) == outcome \in {"rate_limited", "transient"}

\* Mutant: one attempt too many.
VerdictLate(outcome, attempts, parks) ==
  CASE outcome = "ok"                                   -> "complete"
    [] outcome = "rate_limited" /\ parks < MaxParks     -> "park"
    [] /\ outcome = "rate_limited" => parks >= MaxParks
       /\ Retryable(outcome) /\ attempts <= MaxAttempts -> "retry"
    [] OTHER                                            -> "fail"

\* Parking is asked first, and on parks alone.
Verdict(outcome, attempts, parks) ==
  CASE outcome = "ok"                                   -> "complete"
    [] outcome = "rate_limited" /\ parks < MaxParks     -> "park"
    [] /\ outcome = "rate_limited" => parks >= MaxParks
       /\ Retryable(outcome) /\ attempts < MaxAttempts  -> "retry"
    [] OTHER                                            -> "fail"

Write(i, verdict, outcome) ==
  CASE verdict = "complete" -> CompleteJob(i)
    [] verdict = "park"     -> ParkJob(i)
    [] verdict = "retry"    -> RetryJob(i)
    [] verdict = "fail"     -> FailJob(i, ~Retryable(outcome))

Working == {"serving", "stopping"}

Forget(d, i) == claim' = [claim EXCEPT ![d][i] = NoClaim]

Settle(d, i, outcome) ==
  /\ phase[d] \in Working
  /\ i \in Held(d)
  /\ Write(i, Verdict(outcome, claim[d][i].attempts, claim[d][i].parks), outcome)
  /\ Forget(d, i)
  /\ UNCHANGED <<phase, lock, boots>>

\* The handler panics, or its settling write is refused (a failure's twice):
\* the task is gone and its row stays running.
LeaveRunning(d, i) ==
  /\ phase[d] \in Working
  /\ i \in Held(d)
  /\ Forget(d, i)
  /\ UNCHANGED <<jobs, next_id, phase, lock, boots>>

-----------------------------------------------------------------------------
(* Stopping.                                                               *)

\* begin_shutdown: Forced; a claim or settlement under way still lands.
Signal(d) ==
  /\ Goes(d, "serving", "stopping")
  /\ UNCHANGED <<jobs, next_id, lock, claim, boots>>

\* Mutant: serve does not wait for the runner.
StopDetached(d) ==
  /\ Goes(d, "stopping", "releasing")
  /\ UNCHANGED <<jobs, next_id, lock, claim, boots>>

\* Every lane aborts its tasks, and serve has joined the runner.
StopRunner(d) ==
  /\ Goes(d, "stopping", "releasing")
  /\ claim' = [claim EXCEPT ![d] = NoClaims]
  /\ UNCHANGED <<jobs, next_id, lock, boots>>

\* release_claims: what it cannot release, the next boot requeues.
ReleaseClaims(d) ==
  /\ Goes(d, "releasing", "unlocking")
  /\ ReleaseRunning \/ UNCHANGED <<jobs, next_id>>
  /\ UNCHANGED <<lock, claim, boots>>

DropLock(d) ==
  /\ Goes(d, "unlocking", "down")
  /\ lock' = Unlocked(d)
  /\ UNCHANGED <<jobs, next_id, claim, boots>>

\* SIGKILL, a second signal, the shutdown hard cap.
Crash(d) ==
  /\ phase[d] # "down"
  /\ phase' = [phase EXCEPT ![d] = "down"]
  /\ claim' = [claim EXCEPT ![d] = NoClaims]
  /\ lock' = IF lock = d THEN DeadSession ELSE lock
  /\ UNCHANGED <<jobs, next_id, boots>>

\* Postgres notices that the process is gone.
SessionEnds ==
  /\ lock = DeadSession
  /\ lock' = Nobody
  /\ UNCHANGED <<jobs, next_id, phase, claim, boots>>

-----------------------------------------------------------------------------
(* The rest of the serving daemon, and time.                               *)

Reconciling == {"serving", "stopping", "releasing"}

\* A root is removed, or garbage collection runs, in a serving daemon.
Cancel(k) ==
  /\ \E d \in Daemon : phase[d] \in Reconciling
  /\ KillScans(k) \/ ReapUnreferenced(k)
  /\ UNCHANGED daemonVars

\* The retention reconciler.
Purge ==
  /\ \E d \in Daemon : phase[d] \in Reconciling
  /\ PurgeDoneJobs
  /\ UNCHANGED daemonVars

TimePasses(i) == Elapse(i) /\ UNCHANGED daemonVars

Boot(d) ==
  \/ TakeDaemonLock(d) \/ SweepRunning(d) \/ RetireEmpty(d)
  \/ ReviveFailed(d) \/ Serve(d) \/ BootFails(d)

Work(d) ==
  \/ \E lane \in Lane : Claim(d, lane)
  \/ \E i \in JobId : LeaveRunning(d, i) \/ \E outcome \in Outcome : Settle(d, i, outcome)

Stop(d) ==
  \/ Signal(d) \/ StopRunner(d) \/ ReleaseClaims(d) \/ DropLock(d)
  \/ Crash(d)

Next ==
  \/ \E d \in Daemon : Boot(d) \/ Work(d) \/ Stop(d)
  \/ SessionEnds
  \/ \E k \in Key, p \in Payload, pr \in Priority, ready \in BOOLEAN : Enqueue(k, p, pr, ready)
  \/ \E k \in Key : Cancel(k)
  \/ Purge
  \/ \E i \in JobId : TimePasses(i)

Spec == Init /\ [][Next]_vars

\* A lane of a serving daemon polls the table (POLL_INTERVAL when it is empty),
\* and now() moves.  Nothing says that a handler ends or that a daemon boots.
FairSpec ==
  /\ Spec
  /\ \A d \in Daemon, lane \in Lane : WF_vars(Claim(d, lane))
  /\ \A i \in JobId : WF_vars(TimePasses(i))

-----------------------------------------------------------------------------
(* Safety.                                                                 *)

\* A row that still owns its dedupe key is the newest row of that key, so no
\* key ever has two owners: the live index is a check that never has to refuse
\* a settlement, and "the earlier failures" of a key are all of them.
OwnerIsNewest ==
  \A i, j \in DOMAIN jobs :
    Live(jobs[i]) /\ jobs[j].key = jobs[i].key => j <= i

\* No row is being worked by two daemons (boot.rs: "both would work the same
\* jobs"), whatever crashes, restarts and slow exits went before.
ClaimExclusive ==
  \A c, d \in Daemon : c # d => Held(c) \intersect Held(d) = {}

\* While a task is in flight its row is running, or was removed with its root,
\* and the counters the task will judge by are still the row's.  This is why
\* settling WHERE id = $1, with no look at the state, is sound.
HeldIsRunning ==
  \A d \in Daemon : \A i \in Held(d) \intersect DOMAIN jobs :
    /\ jobs[i].state = "running"
    /\ jobs[i].key = claim[d][i].key
    /\ jobs[i].attempts = claim[d][i].attempts
    /\ jobs[i].parks = claim[d][i].parks

\* last_failure() never reports a failure whose key has succeeded since.
LastFailureIsOpen ==
  \A i, j \in DOMAIN jobs :
    /\ jobs[i].state = "failed" /\ jobs[i].superseded_by = 0
    /\ jobs[j].state = "done" /\ jobs[j].key = jobs[i].key
    => j < i

\* The retry ladder: a job is parked MAX_PARKS times at most, and only a boot
\* that finds it running can take it past MAX_ATTEMPTS, one attempt per boot
\* after the first (jobs.rs: the attempt a crash interrupts stays spent).
LadderBounded ==
  \A i \in DOMAIN jobs :
    /\ jobs[i].parks <= MaxParks
    /\ jobs[i].state = "pending" => jobs[i].attempts < MaxAttempts + boots - 1
    /\ jobs[i].state = "running" => jobs[i].attempts < MaxAttempts + boots

-----------------------------------------------------------------------------
(* What a step may never do.                                               *)

Unchanged(i) == i \in DOMAIN jobs' /\ jobs'[i] = jobs[i]

\* A terminal failure is never run again, by any sweep, enqueue or late write.
TerminalIsForGood ==
  [][\A i \in InState("failed") : jobs[i].terminal =>
        i \in DOMAIN jobs' /\ jobs'[i].state = "failed" /\ jobs'[i].terminal]_vars

\* A finished job is history: it stays as it is until it is purged.
DoneIsForGood ==
  [][\A i \in InState("done") : Unchanged(i) \/ i \notin DOMAIN jobs']_vars

\* The failure a later success marked stays marked by that same job.
SupersededIsForGood ==
  [][\A i \in DOMAIN jobs : jobs[i].superseded_by # 0 => Unchanged(i)]_vars

-----------------------------------------------------------------------------
(* What must happen.                                                       *)

Queued(lane) ==
  {i \in DOMAIN jobs : jobs[i].state = "pending" /\ KindOf[jobs[i].key] \in KindsOf[lane]}

\* An enqueue leaves a row of its key, with its payload.
Requested(lane) ==
  \E i \in DOMAIN jobs', pr \in Priority, ready \in BOOLEAN :
    /\ KindOf[jobs'[i].key] \in KindsOf[lane]
    /\ Enqueue(jobs'[i].key, jobs'[i].payload, pr, ready)

HandlersEnd(lane) == \A d \in Daemon, i \in JobId : []<>(i \notin InLane(d, lane))

\* Each lane of a daemon that keeps serving drains once nobody asks for more of
\* its work and its own handlers end, however they end and whatever the other
\* lanes' handlers do: the ladder of retries and parks terminates, and a lane
\* full of stuck jobs starves no other.
LanesDrain ==
  \A lane \in Lane :
    /\ \E d \in Daemon : <>[](phase[d] = "serving")
    /\ <>[][~Requested(lane)]_vars
    /\ HandlersEnd(lane)
    => <>[](Queued(lane) = {})

-----------------------------------------------------------------------------
(* What the queue promises, row by row and boot by boot: see Backlog.      *)

WorkOf(k) ==
  LET owner == CHOOSE i \in Owners(k) : TRUE
  IN  IF Owners(k) = {} THEN "idle"
      ELSE CASE jobs[owner].state = "pending" -> "queued"
             [] jobs[owner].state = "running" -> "claimed"
             [] jobs[owner].state = "failed"  -> "failed"

Holders(k) == {d \in Daemon : Held(d) \intersect Owners(k) # {}}

WorkerOf(k) == IF Holders(k) = {} THEN Nobody ELSE CHOOSE d \in Holders(k) : TRUE

Abstract == INSTANCE Backlog WITH
  Worker <- Daemon,
  work   <- [k \in Key |-> WorkOf(k)],
  worker <- [k \in Key |-> WorkerOf(k)]

\* The table, the lock and the boot order implement the abstract backlog.
ImplementsBacklog == Abstract!Spec
=============================================================================
