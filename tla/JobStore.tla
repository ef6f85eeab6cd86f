------------------------------ MODULE JobStore ------------------------------
(***************************************************************************)
(* The jobs table and the statements the store runs on it                  *)
(* (crates/store/src/jobs.rs, crates/store/src/roots.rs).  One table is    *)
(* the whole queue.  Every action below is one SQL statement, hence one    *)
(* atomic step; who runs it, and when, is the business of JobRunner.       *)
(*                                                                         *)
(* Abstractions.  A dedupe key determines its kind, as the key builders    *)
(* do ("scan:...", "ingest:...", "summarize:...", "embed:...").  Time is   *)
(* one bit: due says not_before <= now(), and Elapse lets it come true.    *)
(* Error texts and timestamps are left out.  Statements are serialised, so *)
(* a claim finds no row locked and FOR UPDATE SKIP LOCKED skips none.      *)
(***************************************************************************)
EXTENDS Integers, FiniteSets

CONSTANTS
  Key,        \* dedupe keys
  KindOf,     \* the kind of job each key names
  BlankKey,   \* embed keys whose items are all blank text
  Payload,    \* what an enqueue may ask for under a key
  Priority,   \* the shared priority scale (JobPriority)
  MaxJobs     \* bound: rows ever inserted

Kind == {"scan_file", "ingest_session", "summarize", "embed"}

ASSUME StoreAssumption ==
  /\ KindOf \in [Key -> Kind]
  /\ BlankKey \subseteq {k \in Key : KindOf[k] = "embed"}
  /\ Priority \subseteq Nat
  /\ MaxJobs \in Nat

VARIABLES
  jobs,       \* the rows present, by id
  next_id     \* the identity sequence

JobId == 1..MaxJobs
State == {"pending", "running", "done", "failed"}

\* superseded_by = 0 stands for SQL NULL.
Row == [key : Key, payload : Payload, priority : Priority, due : BOOLEAN,
        state : State, attempts : Nat, parks : Nat, terminal : BOOLEAN,
        superseded_by : Nat]

StoreTypeOK ==
  /\ next_id \in 1..(MaxJobs + 1)
  /\ DOMAIN jobs \subseteq {i \in JobId : i < next_id}
  /\ jobs \in [DOMAIN jobs -> Row]

StoreInit ==
  /\ jobs = [i \in {} |-> 0]
  /\ next_id = 1

\* The rows jobs_live_dedupe_idx covers: work that still owns its key.
Live(r) == r.state \in {"pending", "running"} \/ (r.state = "failed" /\ ~r.terminal)

\* Mutant: before migration 0023 a failed row did not own its key.
OwnersQueuedOnly(k) ==
  {i \in DOMAIN jobs : jobs[i].key = k /\ jobs[i].state \in {"pending", "running"}}

Owners(k) == {i \in DOMAIN jobs : jobs[i].key = k /\ Live(jobs[i])}

\* One UPDATE: the rows of S become change(row), the others stay.
Update(S, change(_)) ==
  jobs' = [i \in DOMAIN jobs |-> IF i \in S THEN change(jobs[i]) ELSE jobs[i]]

Delete(S) == jobs' = [i \in DOMAIN jobs \ S |-> jobs[i]]

-----------------------------------------------------------------------------
(* enqueue_job_with_priority_id: INSERT ... ON CONFLICT on the live index. *)

NewRow(k, p, pr, ready) ==
  [key |-> k, payload |-> p, priority |-> pr, due |-> ready, state |-> "pending",
   attempts |-> 0, parks |-> 0, terminal |-> FALSE, superseded_by |-> 0]

\* Mutant: a conflict always puts the row back in the queue.
AbsorbRequeueing(r, p, pr, ready) ==
  [r EXCEPT !.payload = p, !.due = @ /\ ready,
            !.priority = IF pr > @ THEN pr ELSE @, !.state = "pending"]

\* DO UPDATE: the newest payload, the later deadline, the higher priority; a
\* failed row is revived with fresh budgets, a running one keeps running.
Absorb(r, p, pr, ready) ==
  [r EXCEPT !.payload = p,
            !.due = @ /\ ready,
            !.priority = IF pr > @ THEN pr ELSE @,
            !.state = IF r.state = "failed" THEN "pending" ELSE @,
            !.attempts = IF r.state = "failed" THEN 0 ELSE @,
            !.parks = IF r.state = "failed" THEN 0 ELSE @]

Insert(k, p, pr, ready) ==
  /\ next_id <= MaxJobs
  /\ jobs' = [i \in DOMAIN jobs \union {next_id} |->
                IF i = next_id THEN NewRow(k, p, pr, ready) ELSE jobs[i]]
  /\ next_id' = next_id + 1

EnqueueJob(k, p, pr, ready) ==
  \/ /\ Owners(k) = {}
     /\ Insert(k, p, pr, ready)
  \/ \E owner \in Owners(k) :
       /\ Update({owner}, LAMBDA r : Absorb(r, p, pr, ready))
       /\ UNCHANGED next_id

-----------------------------------------------------------------------------
(* claim_job and claim_jobs: the best `limit` rows that are ready.         *)

Ready(kinds) ==
  {i \in DOMAIN jobs : /\ jobs[i].state = "pending"
                       /\ jobs[i].due
                       /\ KindOf[jobs[i].key] \in kinds}

\* ORDER BY priority DESC, id DESC.
Before(i, j) == \/ jobs[i].priority > jobs[j].priority
                \/ jobs[i].priority = jobs[j].priority /\ i > j

Best(kinds, limit) ==
  {S \in SUBSET Ready(kinds) :
     /\ Cardinality(S) <= limit
     /\ Cardinality(S) = limit \/ S = Ready(kinds)
     /\ \A i \in S, j \in Ready(kinds) \ S : Before(i, j)}

ClaimJobs(S) ==
  /\ Update(S, LAMBDA r : [r EXCEPT !.state = "running", !.attempts = @ + 1])
  /\ UNCHANGED next_id

-----------------------------------------------------------------------------
(* Settling one row.  WHERE id = $1 and nothing else: no statement here    *)
(* looks at the state the row is in.                                       *)

\* Mutant: no failure is superseded.
CompleteOnly(id) ==
  /\ Update({id}, LAMBDA r : [r EXCEPT !.state = "done", !.terminal = FALSE,
                                       !.superseded_by = 0])
  /\ UNCHANGED next_id

\* COMPLETE_JOB_SQL: done, and every open failure of the key is superseded.
CompleteJob(id) ==
  /\ jobs' = [i \in DOMAIN jobs |->
       IF i = id
       THEN [jobs[i] EXCEPT !.state = "done", !.terminal = FALSE, !.superseded_by = 0]
       ELSE IF /\ id \in DOMAIN jobs
               /\ jobs[i].key = jobs[id].key
               /\ jobs[i].state = "failed"
               /\ jobs[i].superseded_by = 0
            THEN [jobs[i] EXCEPT !.superseded_by = id]
            ELSE jobs[i]]
  /\ UNCHANGED next_id

FailJob(id, hopeless) ==
  /\ Update({id}, LAMBDA r : [r EXCEPT !.state = "failed", !.terminal = hopeless,
                                       !.superseded_by = 0])
  /\ UNCHANGED next_id

\* Mutant: one interruption refunds two attempts.
RefundedTwice(n) == n - 2

Refunded(n) == IF n > 0 THEN n - 1 ELSE 0

ParkJob(id) ==
  /\ Update({id}, LAMBDA r : [r EXCEPT !.state = "pending", !.due = FALSE,
                                       !.attempts = Refunded(@), !.parks = @ + 1])
  /\ UNCHANGED next_id

RetryJob(id) ==
  /\ Update({id}, LAMBDA r : [r EXCEPT !.state = "pending", !.due = FALSE])
  /\ UNCHANGED next_id

-----------------------------------------------------------------------------
(* The sweeps.                                                             *)

InState(s) == {i \in DOMAIN jobs : jobs[i].state = s}

\* requeue_running, at boot: the attempt stays spent.
RequeueRunning ==
  /\ Update(InState("running"), LAMBDA r : [r EXCEPT !.state = "pending"])
  /\ UNCHANGED next_id

\* release_running, at shutdown: the attempt is refunded.
ReleaseRunning ==
  /\ Update(InState("running"),
            LAMBDA r : [r EXCEPT !.state = "pending", !.attempts = Refunded(@)])
  /\ UNCHANGED next_id

\* Mutant: terminal failures are revived too.
RevivableAll(kinds) == {i \in InState("failed") : KindOf[jobs[i].key] \in kinds}

Revivable(kinds) ==
  {i \in InState("failed") : ~jobs[i].terminal /\ KindOf[jobs[i].key] \in kinds}

Blank == {i \in Revivable({"embed"}) : jobs[i].key \in BlankKey}

\* retire_empty_embed_jobs
RetireEmptyEmbedJobs ==
  /\ Update(Blank, LAMBDA r : [r EXCEPT !.terminal = TRUE])
  /\ UNCHANGED next_id

\* requeue_failed
RequeueFailed(kinds) ==
  /\ Update(Revivable(kinds), LAMBDA r : [r EXCEPT !.state = "pending", !.due = TRUE,
                                                   !.attempts = 0, !.parks = 0])
  /\ UNCHANGED next_id

-----------------------------------------------------------------------------
(* Rows that go away, and time.                                            *)

\* remove_root kills a worktree's queued and running scans.
KillScans(k) ==
  /\ KindOf[k] = "scan_file"
  /\ Delete({i \in DOMAIN jobs : jobs[i].key = k /\ jobs[i].state \in {"pending", "running"}})
  /\ UNCHANGED next_id

\* collect_garbage, level 0: pending enrichment whose content nothing holds.
ReapUnreferenced(k) ==
  /\ KindOf[k] \in {"summarize", "embed"}
  /\ Delete({i \in DOMAIN jobs : jobs[i].key = k /\ jobs[i].state = "pending"})
  /\ UNCHANGED next_id

\* purge_done_jobs: a batch of done rows past the retention window.
PurgeDoneJobs ==
  /\ \E S \in SUBSET InState("done") : S # {} /\ Delete(S)
  /\ UNCHANGED next_id

\* now() passes a row's not_before.
Elapse(i) ==
  /\ i \in InState("pending") /\ ~jobs[i].due
  /\ Update({i}, LAMBDA r : [r EXCEPT !.due = TRUE])
  /\ UNCHANGED next_id
=============================================================================
