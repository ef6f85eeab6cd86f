------------------------------ MODULE EmbedLane -----------------------------
(***************************************************************************)
(* The embed lane of one daemon: how the jobs of one claim are merged into *)
(* provider calls (crates/daemon/src/batch.rs, plan and split_to_budget),  *)
(* how the calls run, and what their outcomes settle (runner.rs,           *)
(* drain_embed).  The rows, claims, boots and stops are JobRunner's.       *)
(*                                                                         *)
(* A key is the hash of its items, so key and payload are one here.  Texts *)
(* are their token costs, 0 for a blank one.  One call of embed_items is   *)
(* one step: it writes no vector until every request it makes succeeds.    *)
(***************************************************************************)
EXTENDS JobRunner, Sequences, Functions

CONSTANTS
  Item,             \* source hashes
  Cost,             \* estimate_tokens of each item's text
  Unheld,           \* items no registered root holds any more
  ItemsOf,          \* the items of each key's payload
  Unreadable,       \* keys whose payload does not parse
  Group,            \* (identity, source_kind) pairs
  GroupOf,          \* the group of each key
  Provider,         \* embedder instances
  ProviderOf,       \* the instance each group's identity selects
  Width,            \* embed_lane, or the instance's own ceiling if lower
  TokenBudget,      \* TOKEN_BUDGET
  SoloFromAttempt,  \* SOLO_FROM_ATTEMPT
  NoBatch           \* no failed batch

Fault == Outcome \ {"ok"}

ASSUME LaneAssumption ==
  /\ Payload = Key
  /\ 0 \in Priority      \* JOB_PRIORITY_DEFAULT
  /\ Cost \in [Item -> Nat]
  /\ Unheld \subseteq Item
  /\ ItemsOf \in [Key -> Seq(Item)]
  /\ Unreadable \subseteq Key
  /\ GroupOf \in [Key -> Group]
  /\ ProviderOf \in [Group -> Provider]
  /\ Width \in [Provider -> Nat \ {0}]
  /\ TokenBudget \in Nat
  /\ SoloFromAttempt \in 1..MaxAttempts
  /\ NoBatch \notin [group : Group, jobs : SUBSET JobId, items : Seq(Item)]

VARIABLES
  calls,    \* the batches of the claim in hand, each with its outcome so far
  broken,   \* for each row, the first batch seen to fail under it
  stored    \* vectors in the store: <<group, item>>

laneVars == <<calls, broken, stored>>
allVars == <<vars, laneVars>>

Batch == [group : Group, jobs : SUBSET JobId, items : Seq(Item)]

LaneTypeOK ==
  /\ TypeOK
  /\ DOMAIN calls \subseteq Batch
  /\ \A b \in DOMAIN calls : calls[b] \in {"waiting", "calling", "panicked"} \union Outcome
  /\ broken \in [JobId -> DOMAIN calls \union {NoBatch}]
  /\ stored \subseteq Group \X Item

-----------------------------------------------------------------------------
(* plan: which items ride together.                                        *)

NonBlank(k) ==
  LET items == ItemsOf[k]
      kept[n \in 0..Len(items)] ==
        IF n = 0 THEN <<>>
        ELSE IF Cost[items[n]] > 0 THEN Append(kept[n - 1], items[n]) ELSE kept[n - 1]
  IN  kept[Len(items)]

Tokens(items) ==
  LET sum[n \in 0..Len(items)] == IF n = 0 THEN 0 ELSE sum[n - 1] + Cost[items[n]]
  IN  sum[Len(items)]

\* One more item, cut before it when it would pass the budget.
Fill(parts, item) ==
  IF parts.current # <<>> /\ Tokens(parts.current) + Cost[item] > TokenBudget
  THEN [out |-> parts.out \union {parts.current}, current |-> <<item>>]
  ELSE [parts EXCEPT !.current = Append(@, item)]

SplitToBudget(items) ==
  LET parts[n \in 0..Len(items)] ==
        IF n = 0 THEN [out |-> {}, current |-> <<>>] ELSE Fill(parts[n - 1], items[n])
      all == parts[Len(items)]
  IN  (all.out \union {all.current}) \ {<<>>}

\* Mutants: no empty batch for a job of blank items; no suspects.
AloneIfSuspect(job) == job.attempts >= SoloFromAttempt
AloneIfEmpty(job) == NonBlank(job.key) = <<>>

\* A job rides alone when it is a suspect, or has nothing to send: its empty
\* batch is there to be settled.
Alone(job) == job.attempts >= SoloFromAttempt \/ NonBlank(job.key) = <<>>

\* The items of several claimed jobs, in claim order: the newest row first.
Merged(held, riders) ==
  LET upTo[n \in 0..MaxJobs] ==
        IF n = 0 THEN <<>>
        ELSE IF n \in riders THEN NonBlank(held[n].key) \o upTo[n - 1] ELSE upTo[n - 1]
  IN  upTo[MaxJobs]

\* held: the claimed jobs by row id.
Plan(held) ==
  LET readable  == {i \in DOMAIN held : held[i].key \notin Unreadable}
      solo      == {i \in readable : Alone(held[i])}
      riders(g) == {i \in readable \ solo : GroupOf[held[i].key] = g}
  IN  {[group |-> GroupOf[held[i].key], jobs |-> {i}, items |-> NonBlank(held[i].key)] :
         i \in solo}
      \union
      UNION {{[group |-> g, jobs |-> riders(g), items |-> part] :
                part \in SplitToBudget(Merged(held, riders(g)))} : g \in Group}

-----------------------------------------------------------------------------
(* One drain: claim, call, settle.                                         *)

Touched == UNION {b.jobs : b \in DOMAIN calls}

NoCalls == [b \in {} |-> "waiting"]
NoneBroken == [i \in JobId |-> NoBatch]

ClaimBatch(d) ==
  /\ Claim(d, "embed")
  /\ calls' = [b \in Plan([i \in {n \in JobId : claim'[d][n] # NoClaim} |-> claim'[d][i]])
                 |-> "waiting"]
  /\ broken' = NoneBroken
  /\ UNCHANGED stored

Misread(d) == {i \in Held(d) : claim[d][i].key \in Unreadable}

\* Unreadable payloads are failed for good before any call is made.
FailUnreadable(d, i) ==
  /\ i \in Misread(d)
  /\ Settle(d, i, "hopeless") \/ LeaveRunning(d, i)
  /\ UNCHANGED laneVars

InFlight(p) == {b \in DOMAIN calls : calls[b] = "calling" /\ ProviderOf[b.group] = p}

StartCall(d, b) ==
  /\ phase[d] \in Working /\ Misread(d) = {}
  /\ calls[b] = "waiting"
  /\ Cardinality(InFlight(ProviderOf[b.group])) < Width[ProviderOf[b.group]]
  /\ calls' = [calls EXCEPT ![b] = "calling"]
  /\ UNCHANGED <<vars, broken, stored>>

Ends(d, b, outcome) ==
  /\ phase[d] \in Working
  /\ calls[b] = "calling"
  /\ calls' = [calls EXCEPT ![b] = outcome]
  /\ UNCHANGED vars

Bought(b) == {<<b.group, item>> : item \in Range(b.items) \ Unheld}

CallSucceeds(d, b) ==
  /\ Ends(d, b, "ok")
  /\ stored' = stored \union Bought(b)
  /\ UNCHANGED broken

\* An empty batch succeeds at once.
CallFails(d, b, fault) ==
  /\ b.items # <<>>
  /\ Ends(d, b, fault)
  /\ broken' = [i \in JobId |-> IF i \in b.jobs /\ broken[i] = NoBatch THEN b ELSE broken[i]]
  /\ UNCHANGED stored

\* The join error is logged, and that is all.
CallPanics(d, b) ==
  /\ Ends(d, b, "panicked")
  /\ UNCHANGED <<broken, stored>>

\* Mutant: a job is settled once any call of its claim has landed.
AnyEnded == \E b \in DOMAIN calls : calls[b] \in Outcome

AllEnded == \A b \in DOMAIN calls : calls[b] \notin {"waiting", "calling"}

Fate(i) == IF broken[i] = NoBatch THEN "ok" ELSE calls[broken[i]]

SettleTouched(d, i) ==
  /\ AllEnded
  /\ i \in Touched \ Misread(d)
  /\ Settle(d, i, Fate(i)) \/ LeaveRunning(d, i)
  /\ UNCHANGED laneVars

-----------------------------------------------------------------------------
(* The lane in its daemon.  It starts from a table that earlier scans and  *)
(* enrichment have filled, one row per key.                                *)

LaneInit ==
  /\ \E keyOf \in [JobId -> Key] :
       /\ \A i, j \in JobId : keyOf[i] = keyOf[j] => i = j
       /\ jobs = [i \in JobId |-> NewRow(keyOf[i], keyOf[i], 0, TRUE)]
  /\ next_id = MaxJobs + 1
  /\ phase = [d \in Daemon |-> "down"]
  /\ lock = Nobody
  /\ claim = [d \in Daemon |-> NoClaims]
  /\ boots = 0
  /\ calls = NoCalls
  /\ broken = NoneBroken
  /\ stored = {}

Drain(d) ==
  \/ ClaimBatch(d)
  \/ \E i \in JobId : FailUnreadable(d, i) \/ SettleTouched(d, i)
  \/ \E b \in DOMAIN calls :
       \/ StartCall(d, b)
       \/ CallSucceeds(d, b)
       \/ \E fault \in Fault : CallFails(d, b, fault)

\* A forced stop aborts the calls; what one had bought stays bought.
Abort(d) ==
  /\ StopRunner(d) \/ Crash(d)
  /\ calls' = NoCalls
  /\ broken' = NoneBroken
  /\ UNCHANGED stored

Around(d) ==
  /\ Boot(d) \/ Signal(d) \/ ReleaseClaims(d) \/ DropLock(d)
  /\ UNCHANGED laneVars

LaneNext ==
  \/ \E d \in Daemon : Drain(d) \/ Abort(d) \/ Around(d)
  \/ SessionEnds /\ UNCHANGED laneVars
  \/ \E i \in JobId : TimePasses(i) /\ UNCHANGED laneVars

LaneSpec == LaneInit /\ [][LaneNext]_allVars

\* The same, when the code run for a batch may panic.
PanickyNext == LaneNext \/ \E d \in Daemon, b \in DOMAIN calls : CallPanics(d, b)

PanickySpec == LaneInit /\ [][PanickyNext]_allVars

-----------------------------------------------------------------------------
(* What the lane must get right.                                           *)

\* A job is done only if every vector its items call for was bought, in every
\* batch that carried a part of it (runner.rs: "a job that says `done` while
\* half its elements have no row is exactly the silent hole the reconciler
\* cannot see").
DoneMeansBought ==
  \A i \in DOMAIN jobs : jobs[i].state = "done" =>
    \A item \in Range(NonBlank(jobs[i].key)) \ Unheld :
      <<GroupOf[jobs[i].key], item>> \in stored

\* While a claim is in hand, each of its rows is bound to be settled, and each
\* of its items is in a batch of its own group that names the row, in a request
\* the provider's budget allows; and a batch that failed a row is of this claim
\* (LaneTypeOK).
PlanAccounts ==
  /\ LaneTypeOK
  /\ \A d \in Daemon :
      /\ Held(d) \subseteq Touched \union Misread(d)
      /\ \A i \in Held(d) \ Misread(d) :
           Range(NonBlank(claim[d][i].key)) \subseteq
             UNION {Range(b.items) : b \in {c \in DOMAIN calls :
                      i \in c.jobs /\ c.group = GroupOf[claim[d][i].key]}}
      /\ \A b \in DOMAIN calls :
           Cardinality(b.jobs) > 1 /\ Len(b.items) > 1 => Tokens(b.items) <= TokenBudget

\* A job that has failed before fails alone, by a request of its own; and no
\* failure worth a retry costs a job for good what it shared with others.  Only
\* a first request that fails for good fails every job aboard for good.
SuspectsFailAlone ==
  [][\A i \in InState("running") :
       jobs'[i].state = "failed" /\ broken[i] # NoBatch =>
         \/ broken[i].jobs = {i}
         \/ jobs[i].attempts < SoloFromAttempt /\ calls[broken[i]] = "hopeless"]_allVars

\* "One poisonous item fails the whole merged call, and without solo retry the
\* innocent jobs beside it inherit the failure" (batch.rs:18): with it, no job
\* is failed by a request it shared with another.
FailsOnItsOwn ==
  [][\A i \in InState("running") :
       jobs'[i].state = "failed" /\ broken[i] # NoBatch => broken[i].jobs = {i}]_allVars
=============================================================================
