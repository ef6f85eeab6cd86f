# flowspace3: models, checks and proofs

flowspace3 indexes source trees and agent conversations into one Postgres store and answers
searches over it. A daemon owns the store: HTTP requests, a file watcher and a set of
reconcilers put jobs on a queue that is one Postgres table; the daemon's lanes claim the jobs,
call parsers and providers, and settle the rows. This directory holds TLA+ modules of that
system, the TLC runs that check them on small instances, and theorems with proofs TLAPS checks.

Paths below are under `src/crates/`, those of documents under `src/docs/`.

## 1. The system

| Part | State it keeps | Operations | Talks to |
| --- | --- | --- | --- |
| Job table (`store/jobs.rs`, migrations 0005, 0011, 0023, 0027) | rows: key, kind, payload, state, attempts, parks, `not_before`, `terminal`, `superseded_by`; a unique index over the live rows of a key | enqueue, claim, five settlements, sweeps, purge | everything below, by SQL statements |
| Job runner (`daemon/runner.rs`) | tasks in flight, each with a snapshot of its row; a shutdown flag | three lanes (general, ingest, embed) that claim, dispatch, judge and settle | job table, handlers |
| Boot, lock, shutdown (`daemon/boot.rs`) | one advisory lock in a session of its own | migrate, requeue running rows, revive failed enrichment, bind, spawn, join, release, unlock | job table, runner, reconcilers |
| Embed batching (`daemon/batch.rs`) | none | merge jobs per (repository, kind), cut to a token budget, isolate suspects | embed lane |
| Enrichment (`daemon/enrich.rs`) | content-addressed summaries and vectors | enqueue per tree or turn, summarize, embed, find what is missing at boot | providers, store |
| Scan (`daemon/scan.rs`) | blobs, trees, elements | read, hash, skip or parse, store, enqueue enrichment | job table, parsers |
| Watcher (`daemon/watch.rs`, `debounce.rs`, `reconcile.rs`) | watched roots, pending directories | absorb events, settle, relist, enqueue | job table, file system |
| Conversation ingest (`daemon/convo_ingest.rs`, `store/ingest_cursors.rs`, `store/conversations.rs`) | cursor per source, ledger of ordinals, turns | read, number, append, commit, enqueue, under a lock per conversation | job table, sources |
| Conversation poller (`daemon/convo_poll.rs`) | in memory: stamps last seen, submissions not read yet with their counts, unreadable revisions, folders, the rotation's place | discover, compare, select under a cap, probe, submit, report | job table, ingest's cursors and acknowledgements |
| Roots and garbage (`store/roots.rs`, `daemon/gc.rs`, `remove.rs`) | reference graph | remove a root, collect | job table |
| Retention (`daemon/retention.rs`) | a tick counter | purge old done rows | job table |
| Embed governor (`daemon/embed_governor.rs`) | token bucket, pause, queries in flight | admit, back off, recover | embed lane, searches |
| Worktree supervisor (`daemon/worktrees.rs`) | absences per root, in memory | compare the table with the disk and git, register, remove | roots, git |
| Self-update (`daemon/update.rs`, `store/updates.rs`, `store/messages.rs`, `cli/upgrade.rs`) | the binary, a lock file, a state row, messages | check, swap, record, tell | releases, another updater |
| Scope cache (`store/scope_cache.rs`, migration 0032) | a scope's sources with a cutoff, stamps on rows, a log of departures | build, hit, reset | every writer, every search |
| Exact-ranking copy (`store/exact_index.rs`, `daemon/exact_index_guard.rs`, migration 0033) | the vectors' bits in a table of their own, a mark that search trusts | copy by trigger, fill, count, mark, check | every writer of a vector, searches |
| Turn classes and restatement (`core/turn_class.rs`, `daemon/turn_class_backfill.rs`, `intake_restate.rs`) | a class per turn, a cursor per conversation | classify as turns come in, go back over those stored before | appends, removals, job table |
| Skew, HTTP, search, providers, parsers, CLI | see section 8 | | |

What is hard in it:

* One table is the whole queue. A settlement is an UPDATE by id alone; the state the row is in
  is never looked at. That is sound only if no two tasks ever hold one row, which rests on a
  lock, on the order of the boot and on the order of the shutdown.
* The verdict on a failed job is computed from a snapshot taken when it was claimed.
* Failed rows may own their dedupe key or not, come back through three different doors
  (retry, boot sweep, a new enqueue) and are hidden by later successes.
* The embed lane merges jobs, cuts the merge, calls concurrently and must settle each job by
  what all its pieces did.
* A daemon can be stopped between any two steps, and its last statement may land after it.
* The index of a root is written by the watcher's pass and by full walks that nothing serialises, each of
  which reads the map, looks at files that change, and writes the map back whole.
* Content is shared by hash between files, roots and repositories, so what one removal or one
  collection may take depends on everything else; handlers go on storing in the meantime.
* A search reads a cached scope while transactions older than the cache commit.
* Search ranks on a copy of the vectors that triggers keep in step while a fill catches up beside them.
* A turn is classed by the turns before it, which came in other transactions, and two sweeps go back
  over turns while more are appended.
* The conversation poller judges jobs it does not run, from files, acknowledgements, rows and cursors
  that it reads one after the other.
* Supervisors act on counts kept in memory over passes that may fail half way.

For each part, what makes it correct: the table has one owner per key and never rewrites
history; the runner's tasks own the rows they settle, and a job ends after finitely many tries;
a boot recovers what nobody is working, and nothing else; a job is done only if all its vectors
were bought, and once it has failed before it fails only on its own account; ingest stores each record once and loses none; the poller comes to every
session, and to rest, and blames a file for nothing its jobs did not meet;
a change under a root is looked at in the end, mapped and parsed; what a root holds gets its
vectors and summary, and what none holds goes; a search misses no source of its scope; background
calls keep to the pace and the pauses they are given; the table of roots follows git, and no root
goes on one absence; a copy that is marked ready is of every vector as it is; turns stored before a
fix come to be as if stored after it; the installation becomes the newest good release and says so.

## 2. The modules

| Module | Models | Kind |
| --- | --- | --- |
| `JobStore` | the statements of `store/jobs.rs` and of `store/roots.rs` on the job table; one action per SQL statement | component |
| `JobRunner` | daemons over that table: boot, lock, lanes, verdicts, settlements, stop, crash; producers, cancellation and retention | composition of `JobStore` with boot and runner |
| `Backlog` | what the queue promises, with no rows, locks or boots | abstract specification, implemented by `JobRunner` |
| `EmbedLane` | the embed lane of one daemon: `plan`, concurrent calls, settlement by all of a job's batches | refinement of `JobRunner`'s embed claims and settlements |
| `ConvoIngest` | ingests of one session file: poller, lock, cursor, ledger, turns, enrichment; one action per committed statement | component, over `JobRunner`'s rows seen from outside |
| `ConvoPoller` | the poller's passes over session files, beside harnesses that write and jobs that run | component, over `JobStore`'s rows and `ConvoIngest`'s reads seen from outside |
| `Indexing` | one root: edits, the watcher's passes, full walks that overlap, reparses, scan jobs, removal, collection, crash and upgrade | composition of watcher, walk, scan and collector, over the rows seen from outside |
| `Debounce` | the debouncer under the watcher's clock: windows, ceiling, nested directories, roots that come and go | component |
| `Enrichment` | the content layer: what a parse earns, the summarize and embed handlers, the boot's sweeps, the four levels of the collector | composition of scan, handlers, boot and collector |
| `ScopeCache` | stamps, departures, build, hit and the search's reading, under Postgres' visibility rule | component |
| `EmbedGovernor` | admission, pace, rate limits, retries of a request, right of way of queries | component |
| `Worktrees` | the worktree supervisor against a disk, a git and users | component |
| `SelfUpdate` | the update supervisor and `doctor upgrade` on one installation | component |
| `ExactIndex` | the binary copy of the vectors, its fill, mark and check, row by row over Postgres' locks and snapshots | component |
| `TurnClasses` | the turns of one conversation, their classes and texts: appends, backfill, restatement, removal | component |
| `JobRunnerProofs`, `EmbedLaneProofs`, `ConvoIngestProofs`, `PollerProofs`, `IndexingProofs`, `EnrichmentProofs` | the theorems about the component each is named for; `EnrichmentProofs` also that of `MCContent` | proofs |
| `ServicesProofs` | the theorems about `Debounce`, `ScopeCache`, `EmbedGovernor`, `Worktrees`, `ExactIndex`, `TurnClasses`, `SelfUpdate`, and of all seven side by side | proofs |
| `RecursionTheorems` | induction and recursive functions, as far as sets can say them | proofs |
| `MCJobRunner`, `MCEmbedLane`, `MCLanes`, `MCConvoIngest`, `MCConvoPoller`, `MCConversations`, `MCIndexing`, `MCEnrichment`, `MCContent`, `MCServices` | values of the constants | instances |

`MCServices` runs seven modules that share no state with each other. A behaviour chooses one of the
seven and the others stand still: their conjunction would multiply states and add no behaviour of
any one of them. `MCConversations` does the same with the ingest and two instances of the poller,
`MCContent` with `Indexing` and `Enrichment`, `MCLanes` with a queue of `JobRunner`'s and the embed lane; each runs under the
fairness of the part chosen.

### How the model corresponds to the code

*Rows.* `jobs` maps the ids present to their columns, `next_id` is the identity sequence.
`not_before` is the bit `due`; `Elapse` lets it come true, at any time, so every length of every
delay is covered. Error texts and timestamps are left out. A key determines its kind, since the
key builders put the kind in it. Statements are serialised: each is one SQL statement, and a
claim locks the rows it updates, so two concurrent ones have the outcome of some order.

*Enqueue.* `EnqueueJob` is the INSERT with its ON CONFLICT arm, the conflict being with the
row `jobs_live_dedupe_idx` covers: pending, running, or failed and not terminal. `Absorb` is the
DO UPDATE: payload replaced, later deadline, higher priority, and a failed row revived with
fresh budgets.

*Daemons.* `phase` is where a daemon is in `serve`: `down`, `migrating` (lock taken),
`recovering` (running rows swept), `binding` (failed rows revived), `serving`, `stopping`
(signalled), `releasing` (the runner has been joined), `unlocking` (claims released). Each
arrow is an action, in the order of the source; a failing sweep is logged there and so a
stutter on the table here. `BootFails` is every early `?`. `Crash` is SIGKILL, the second
signal, the hard cap, and the early returns after the runner was spawned: the tasks die with the process and the lock goes
to `DeadSession` until Postgres notices (`SessionEnds`).

*Tasks.* `claim[d][i]` is the snapshot the claim returned. A handler is an outcome: ok, rate
limited, transient, hopeless. `Verdict` is `runner::verdict`; `Settle` writes by id from the
snapshot. `LeaveRunning` is a panic, or a settlement the database refused (a failed job's is
tried twice in the code: both refused). A forced stop drops all tasks (`StopRunner`) before the
rows are released. Two windows are left out: a statement that Postgres was executing when its task was
aborted may land after the rows are released (`daemon/src/runner.rs:408`), and between an early return
behind the spawned runner (`daemon/src/boot.rs:936`) and the end of the process the tasks outlive the lock. Both, like a
lock that ends with its session (section 6), are of a daemon on its way out that another overtakes.

*The embed lane.* A claimed batch becomes `calls`, a function from batches to how they stand.
`Plan` is `batch::plan`: unreadable jobs apart, a suspect (second attempt on) or a job with
nothing to send alone, the rest merged per group, newest first, and cut by `SplitToBudget`. The request's
byte cap cuts the same way on another measure and is left out. `StartCall` is the semaphore
permit per provider instance. `CallSucceeds` writes the vectors of the items some root
still holds, as one step since `embed_items` writes none before its last sub-request has
returned. `Fate` is the settle loop's reading of `broken`.

*Conversation ingest.* One native session file and the jobs that poll it: `Address` is the set
of live queue keys that lead to its conversation (the poller's and, for one, an agent's own
submission), each with its newest row in `job`. A record is its ordinal, an offset counts complete lines (a half line has no
newline and is not read). Each statement or transaction that commits alone is one step, in the
order of the source: `Claim` (which looks the conversation up before the lock), `TakeLock` or
`Contended`, `LoadCursor`, then `ReadRecords`, `ReadNothing` or `Acknowledge`, `UpsertHeader`,
`View` and `NumberTurns` (the two reads of `ledger_view`, each of what is committed by then, and the batch
prepared from them), `AppendTurns` with the backstop it
evaluates after its commit, `CommitPoll`, and `Enrich`, which ends with the lock dropped and the
row settled. `poll[a]` holds the locals that live across these steps. A retryable failure is
either pending again or, at the end of the ladder, failed: the ladder itself is `JobRunner`'s.
The faults are `StepFails` (the store or the file errs at any step), `LoseLock` (the lock's
connection dies, the poll goes on), `CrashAndBoot`, `DeleteConversation` (`/remove`), and
`Truncate`. `acked` is the daemon's memory of a revision with nothing in it; any change of the
file voids it, and so does a boot. A boot's sweep for missing vectors is over all content and has a
limit: `SweepLimit` is what of it falls to this conversation, and `over` what the last boot left over. `torn` records that a poll died between append and
commit: it guards no action and only serves to state what holds otherwise.

*Conversation poller.* `ConvoIngest`'s `PollerSubmits` is this module in one step. A pass is the
awaits of `poll` in order: `Discover`, `LoadAcks`, `LoadOutcomes`, `Weigh` (the cursors, and all that
is decided from the four), `Select`, then for each selected session `Submit` or `SkipFolderless`, and
`Record`. `pass` holds the locals; `PassFails` is a `?` at any await, after which what was assigned to
`self` before it stands and the rest is lost. `Weigh` and `Select` are one stretch of code and share
no state with anyone in between. The two harnesses' cursor statements are one. A revision is the number of the write that
made it, so stamps compare as modification times do. Whether a read began after a submission is kept in
`newer`: after the latest, after the one the last recorded pass retained, or neither; those are the
only instants the code compares with. A session's `row` is its newest job, with the ids of those that
failed for good. A job is the sequence of its files: a read, then the commit of its cursor or the
acknowledgement of its revision. `passed`, `fruitless` and `blame` are ghosts: what a session was made
to wait, what a file's jobs did not move, and which revision the last failed job met.

*Indexing.* One root, a directory per file, and a content that is its own hash. `Edit` is any
write, branch switch or deletion; the event reaches `inbox` only where a watcher runs. A pass
(`BeginPass`, `Relist`, `RelistEnqueue`, `RecordWalk`) and a full walk (`Add`, or `Reparse` and `Rescan`; then
`Discover`, `RegisterWorktree`, `HashFile`, `Compare`, `SyncWorktreeFiles`, `EnqueueFile`) are the sequences of
reads and committed statements of `watch.rs::relist` and `roots.rs::scan_root`; what they carry from one to
the next is in `pass` and `walk`. A walk settles which files there are before it registers the root and
before it hashes any; whether the root is new it has asked before that, and a root removed in between is
registered again. Each `Walker` is a request, a supervisor or the reparse, with at most one walk at a time;
nothing else keeps walks apart, so any number of them overlap. One listing of a tree is one step. Which pending
directory settles is left open here, and is `Debounce`'s.
`map` is `worktree_files`, `trees` what each blob's elements were parsed from, `older` the blobs
that only an older parser parsed. A reparse and a pass never overlap: one loop runs both. A row's
payload, a running task's blob and the enqueue between them are as in `JobStore`, including that
an enqueue onto a running row is not run again. `newest`, `lost` and `dropped` are ghosts. `newest` is who took
a file on last and has not mapped it yet: a listing takes all files on, a hash one. `lost` and `dropped` name, in the
action where it happens, each way the code gives up on a change or on a scan: a change nobody was
watching for, which is also a file that comes between a walk's listing and the start of the watcher; a pass
or a walk that fails; a map written over that of a later look (`WriteMap`), be it by a pass or by another walk; a
scan settled while its key was queued again; a file gone for a moment. `dropped` is of the
root's present row only, since those of a removed row are nobody's. They guard no action. The properties except exactly these.

*Debounce.* Events carry the time at which they were received; a directory below two watched roots
reports to both, in any order, and the second report folds into the entry of the first (section 6), so
`ServedInTime` is of directories below one root. `Reconcile` is one pass of the watcher over the debouncer: forget
the roots that are gone, absorb, sweep, prune the nested, re-list. `owed` is a ghost.

*Enrichment.* Texts are content hashes, blobs carry texts, and a summary's text is a number since no
two answers of a model are alike. Each handler is the sequence of its look-ups, guards, calls and
writes: `GuardSummary`, `LookForSummary`, `PayForSummary`, `PutSummary`, `Emit`; `FilterStored`,
`GuardVectors`, `PutVectors`. `Reboot` is the death of a process with the next one's requeue,
revival and sweeps for what is missing, which run before any job. Each sweep has its limit (`VectorSweep` for
either kind of vector, `SummarySweep`), and which items it takes is left open. The collector goes down its levels, each a
statement of its own, with everything else between them. `lapsed` is a ghost that names what the
spend guard, the collector, a running row or a sweep's limit dropped.

*Scope cache.* A snapshot is the set of transactions that had committed; its xmin is the oldest
that had not. A row version carries the transaction that wrote it (`changed_xid`) and the one that
deleted it. `TakeSnapshot`, `TryLock` and `Build` are three steps, since the statement that tries
the advisory lock takes the repeatable-read snapshot before it has the lock. `Hit` binds the
cutoff, and `Read` is a later statement with a snapshot of its own. Sources are a file's elements and
their summaries; conversations, whose stamps are kept alike, are left out.

*Governor.* Spans are kept as what is left of them, the pace as tokens per tick. `sent` is a ghost:
the largest excess of admitted tokens over the budget in any span that ends now, kept as a queue's
length is (`max(0, sent - Budget)` each tick).

*Worktrees.* `Plan` counts and compares; `RegisterOne` and `RemoveOne` apply the plan one root at a
time, with the disk, git and users moving between them. `CheckFails` is a path that cannot be
checked: the roots before it were counted, it is reset, the rest is not looked at. `said` is a ghost: what
the last two passes that got to a path saw there, be it that they could not tell.

*Self-update.* A pass of the daemon and a run of `doctor upgrade` are the same steps; they share the
lock file, the binary, the row and the messages. Each statement that commits alone is a step: a claim that
fails ends the pass though it was the first (`ClaimFails`), a block is two statements (`Record`,
`RecordBlocked`), and a failed stage or rename is an error that nobody records (`SwapFails`), where a binary that is not
the release is a block (`SwapRefused`). `sync_messages` is a transaction of deletes and upserts under READ COMMITTED:
`Retract` settles and locks what it deletes, `Sync` writes and commits, and two of them may leave the union of
what they declare until the next pass. `MaxMishaps` bounds what the world does in all.

*Exact-ranking copy.* A vector and its bits are one value. A writing transaction locks the vector's
row (`PutVector`), fires its trigger and commits; the copy's key is unique, so the upsert of a trigger
waits for a fill that has put the key in and not committed (`TriggerFires`), and the fill's insert for
a trigger that has (`InHand`). A trigger's DELETE neither sees nor waits for an uncommitted copy: a delete
that found none (`bare`) takes none with it when it commits, so an orphan copy may stay of a vector that is
gone; the next vector under its key replaces it.
The fill's INSERT reads one snapshot (`BeginBatch`) and takes its rows in any order. `around`
is a ghost: keys written past the triggers since their vector was last written through them, which
the check is there for.

*Turn classes.* A turn is what the classifier can tell of it: words, a prompt-hook search, what its
calls and results are; and `old`, that today's intake would store another text. The path of a write
is what that is about, on which no class depends. Appended turns are never `old`, as their intake is
today's. One loop runs both sweeps in turn; `PassStops` is an error or the death of the process at
any of their statements, `RestartSweeps` a boot with its sweep for missing vectors. `cuts` is a ghost
that marks appends which begin behind a turn of results, `missed` one that names the texts a failed pass
did not queue.

## 3. The runs

Each of them ends within four minutes on two workers. CHECK_DEADLOCK is off in all: bounded by
rows, boots, events or versions, every system here comes to a proper end.

| Run | Instance | Shows |
| --- | --- | --- |
| `two_daemons` | 2 daemons, 2 boots, 2 rows, keys of kinds scan, embed and blank embed | types, exclusive claims, truthful snapshots, the bounded ladder, and refinement of `Backlog` |
| `lanes` | 1 daemon, 2 boots, and one of: 2 rows, one key per lane; every table of 2 embed jobs out of 5 payload shapes, budget 3, width 1; fair | ownership of keys, reported failures, terminal failures; a lane drains by its own handlers alone; the embed lane's properties, with calls that fail in every way |
| `conversations` | one of: 2 keys of one conversation, 2 records, 2 files, one fault of any kind; the poller over 1 session not there yet and a sidecar of no records, 2 writes of any kind, a job that fails or a restart; the poller over 2 sessions for 1 submission a pass, one old and read before, one never resolved, and a write, a failed pass, a retried job or a third job of one session; fair | what an ingest promises, fault by fault; the poller comes to every session and to rest, starves none, and counts no stall that jobs did not earn |
| `content` | one of: 2 files, 1 edit, 2 walks in turn, 2 registrations, one fault of any kind; the same with 2 walks that overlap, and no fault; 2 blobs with one summarised text, two changes, or a change and a fault, or a fault and a boot; fair | nothing changed is overlooked, nothing mapped is left unparsed, the index converges; nothing is stranded, garbage goes |
| `services` | the seven services, one to a behaviour, fair | the properties of each |
| `embed_panic` | the embed lane of `lanes`, tasks may panic | **violation**: a panicked batch's jobs are completed |
| `innocents` | the embed lane of `lanes` | **violation**: a failed request fails the jobs beside the one that made it fail |
| `convo_twice` | the ingest of `conversations`, the fault an error | **violation**: a record is stored twice |
| `poisoned_blob` | the index of `content`, no fault | **violation**: elements of other bytes under a blob |
| `readded_root` | the index of `content`, the fault a removal | **violation**: a re-added root is not followed |
| `stale_failure` | 1 file, 1 write, one failure | **violation**: bytes no job met are marked unreadable |
| `paid_output` | the content layer of `content`, one change | **violation**: a summary goes while its text is still there |

*Bounds.* In the queue's runs `MaxJobs` rows and `MaxBoots` boots are the only caps. Two boots are
what it takes for one daemon to be on its way out, or dead, while another starts; two rows of one
key are a failure and a later success, or a row with an owner and a failed one. MAX_ATTEMPTS is 2
(3 in the code), MAX_PARKS 1 (20): one retry, one park and the fall-through from parks to attempts
all happen. EMBED_CLAIM is 2: two jobs in one claim merge, split, and settle apart. The five
payloads are one over the budget with its neighbour, one under it, one of another repository on the
same provider, one all blank, one unreadable. In the ingest two records are one stored and one
new, or two of one batch; two files are a rotation; one fault, of any kind and before any step, is
what its properties are conditioned on (`Never`). `SweepLimit` is 1, so that a sweep takes one of two turns and leaves
the other over.

For the poller one submission a pass (10 in the code) and two sessions are the smallest
competition. The writes are a first line, a torn one, a rewrite in place or a new inode, in any order
and between any two steps. STALL_PASSES is 2 or 3 (3 in the code), and a count stops there; three rows a
session are two attempts that end and one still to end. `MaxIds` blocks a pass that would insert
one row too many; `EveryFileSettles` says that this is never so for good, since a blocked pass keeps its
selection. Passes that fail and jobs that are retried meet two sessions only, and there the safety
properties.

In `Indexing` one file is there and one is not; an edit creates, changes, swaps with the other's
content or deletes; two walks, one behind the other, meet a pass, an edit and each other's results; the fault is a crash,
a parser upgrade, a refused statement, a removal or a collection, at any step. Where walks overlap two walkers
interleave step by step with a pass, a scan and the edit: an older map comes after a newer one, and both register
the root. The violation runs have one walker beside the reparse. In `Enrichment` two
blobs share one text, the smallest case in which a collection by blob and one by text differ;
`MaxVersion` 2 is a summary bought twice; the sweeps' limits are 1 (2000 and 500 in the code), so that one boot
with two vectors missing leaves one. In `services`: three events over two nested directories below one root,
with windows of 2, a ceiling of 3 and a cadence of 2 ticks, up to 7 ticks, which is past the
ceiling and a cadence after the last event that can still be swallowed; two writers (any writes
each), two searches and a boot, so that an older writer commits after a younger one and on each side
of a build; two requests of 3 tokens at a budget of 2 and a burst of 2, with four bad answers and a
query, which is two overlapping pauses and a debt; two checkouts and a directory inside one, two
changes of the world, one failed pass, one restart; two versions, and two mishaps out of a release,
a hand, an upgrade by doctor, a crash and a failure; two vectors, batches of one, two writing
transactions, one write around the triggers and one fill, which meets a re-embedding and a delete of
either key on both sides of its snapshot; three turns (words, a retrieval call, a result that does not
say whose it is, a write of the old intake) in windows of two and appends of one or two, with one
failed pass, restart or removal, so that a call and its result come in one append or two, and in one
window or two. The theorems need none of these bounds.

*Fairness.* `FairSpec` has weak fairness of each lane's claim: a lane polls the table for ever while
its daemon serves (`run_general_forever`, `run_ingest_forever`, `embed_lane`), and of `TimePasses`:
the clock moves. Nothing forces a handler to end, a daemon to boot or a shutdown to finish:
`LanesDrain` takes "this lane's handlers end" as a premise, says nothing of the other lanes', and
allows any outcomes. It also assumes that requests for the lane stop, since claims are newest first
and a stream of new work may starve an old row.

`ConvoIngest` assumes weak fairness of `PollerSubmits` (the reconcile runner ticks for ever) and of
each job's `Advance` (a lane keeps claiming, and a claimed ingest is a sequence of awaits that
return). The harness, agents' submissions and the faults are not fair. A job may be refused the
lock any number of times; what `DeltaArrives` needs is that the holder's own steps are taken.

`ConvoPoller` assumes weak fairness of `PassStep` (the reconcile runner ticks and a pass is a sequence of
awaits that return) and of each session's `JobStep` (`LanesDrain`). Writes and faults are not fair.

`IndexSpec`: passes begin and run on (`reconcile.rs` ticks for ever), every directory settles in the
end (`ServedInTime` of `Debounce` is why), a walk and a claimed scan run on. Edits, requests and
faults are not fair. `EnrichmentFairness`: the runner claims, handlers end, the collector ticks; a
boot is never forced, so no property waits for one. `GovernorFairness`: time passes, timers fire, a
sent request is answered (it has a timeout), a query embed ends. `WorktreesFairness` and
`SelfUpdateFairness`: the reconcile loop ticks and a begun pass goes on. `TurnsSpec`: the same loop, and
strong fairness of `RestateWindow`: a tick that finds more than PENDING_CEILING jobs waiting leaves the
restatement to a later one, and the lanes drain (`LanesDrain`), so not every tick finds that.

## 4. The properties

| Property | What would break it |
| --- | --- |
| `ClaimExclusive` | booting without the lock, dropping it before the runner has ended, requeueing in the wrong order |
| `HeldIsRunning` | releasing or requeueing rows whose tasks live; an enqueue that moves a running row |
| `OwnerIsNewest` | an index that does not cover failed rows, a revival of a row whose key moved on |
| `LastFailureIsOpen` | completing without superseding, or a late failure after a success |
| `LadderBounded` | a verdict off by one, a refund given twice, a park that is not counted |
| `TerminalIsForGood` | a sweep or a late settlement that rewrites history |
| `ImplementsBacklog` | any of them, seen from outside: work handed out while in hand, or out of nowhere |
| `LanesDrain` | lanes that share a pool, a ladder that does not end |
| `DoneMeansBought` | settling a job by its first batch, forgetting the blank ones, completing what panicked |
| `PlanAccounts` | an item or a job lost while merging and cutting |
| `SuspectsFailAlone` | suspects that ride with others, a retryable failure of a shared call that ends a job |
| `InOrderOnce` | polling without the lock, a view older than the cursor it is used with |
| `CursorTrails` | a cursor committed before its turns, or an offset of another file |
| `LedgerTrue` | a ledger row for a turn whose number another poll took, numbers taken by records that were deduped |
| `EnrichedAtRest` | turns stored by a daemon that died before it queued their enrichment |
| `DoneMeansRead` | a contended run that trusts the holder to have read its bytes |
| `DeltaArrives` | an acknowledgement that outlives its revision, a file the poller never sees as behind |
| `EveryFileSettles` | a folder missed once and never looked for again, an acknowledgement or a failure that outlives its revision, a torn line or a file of no records that is behind for ever |
| `BacklogHasItsTurn` | live sessions that take every slot, a rotation that starts afresh or that a failed pass sets back |
| `StallIsEarned` | a job counted while it waits or runs or twice, a count that survives a read of what still stands |
| `StaleIsNoticed` | a map written back without the rest of it, an event dropped, a settled directory forgotten, a walk over a newer walk where `lost` does not say so |
| `MappedIsParsed` | a boot without its sweep, a collection of what is mapped, a removal that takes another row's scans |
| `IndexConverges` | a walk that trusts the map and does not ask whether the blob was parsed |
| `NothingStranded` | a row the collector judges by the wrong thing, a handler that skips and does not queue what follows |
| `GarbageGoes` | a level of the collector that judges by less than the reference, a vector of a summary that was bought again |
| `ServedInTime` | a window with no ceiling, an entry that swallows another root's or another directory's |
| `NeverMissing` | a stamp or a cutoff that misses what an older transaction commits late, a parse of a path already there |
| `WithinBudget` | time credited twice, a debt forgotten |
| `NoAdmissionInPause` | a shorter wait that replaces a longer one |
| `BackgroundGoesOn` | a guard that outlives its call, a pace of zero, a debt that cannot be repaid |
| `AbsentTwice` | a count that survives a pass that could not tell |
| `WorktreesFollowGit` | a count that never gets to two, a registered directory that hides its checkout's siblings |
| `KeepsCurrent` | a lock that a dead updater holds for ever |
| `TellsTruth` | a row written only by the updater's own swap |
| `CompactIsExact` | a fill that overwrites what a trigger wrote, a trigger that leaves the copy it finds, a mark set before the count |
| `ClassedTruly` | a classifier that begins anew at each window of the backfill |
| `TurnsSettle` | a run classed without the turn before it, a cursor that passes turns it has not restated, a replaced text nobody queues |

The type invariants carry what else is cheap to state with them: that a refund goes no lower than
zero, that a row that runs has its worker, that a pending directory belongs to a watched root.

## 5. What is proved

`JobRunnerProofs` proves for any daemons, keys, payloads, priorities, rows and boots, from the
two assumptions on constants (`StoreAssumption`, `RunnerAssumption`) alone, the safety properties
of `two_daemons` and `lanes`, and two more prohibitions
on rewriting history (`DoneIsForGood`, `SupersededIsForGood`).

The inductive invariant `IInv` is the conjunction of

* `LockDiscipline`: only the daemon that holds the lock is past its boot's first step, so two
  daemons are never both up;
* `ClaimsAreWorked`: only a serving or stopping daemon has tasks;
* `HeldIsRunning`, `OwnerIsNewest`, `LastFailureIsOpen`, `TypeOK` and `SupersededIsTerminal` (a
  superseded row is failed and stays out of every sweep's reach).

None is inductive alone. A settlement writes by id with no look at the state: that it overwrites
neither history nor another task's row follows from `HeldIsRunning`; that the sweeps keep
`HeldIsRunning` follows from the lock and from nobody having tasks at those phases; that a
revived row does not become a second owner follows from `OwnerIsNewest`; that the refund keeps
types follows from `Refunded`'s floor. The statements of `JobStore` are grouped by what they may
do to a row ("tame" changes keep key and identity, stay within the live rows and never reopen a
closed one), each is shown tame once, and the actions of `JobRunner` are cases of these lemmas.
The action properties follow from `IInv` and the same lemmas.

`JobRunnerProofs` also proves `LadderBounded` on top of `IInv`, for any number of attempts, parks and boots.
The verdict looks at the counters of a snapshot, and `HeldIsRunning` is what makes them the row's.
The bound itself needs one more invariant, `BootsCounted`: a daemon past its first sweep is a boot
that was counted, so whoever inserts or revives a row does so under a bound of at least
`MaxAttempts`, and the sweep that leaves an interrupted attempt spent raises the bound by the one
it costs.

It proves `ImplementsBacklog`: initial states map to initial states, and every step of
the daemons over the table maps to a step of `Backlog` or to a stutter. `IInv` makes the mapping
readable (`Faithful`): a key has one owner at most, so its work is that row's state, and the row
has one task at most, so its worker is that task's daemon. What is left is what each statement does
to owners and tasks: a claim is `Take`, a settlement `Settle`, an insert or the revival of a failed
row `Request`, both sweeps of running rows `Recover` (nobody has a task at either point), the boot's
retirement and revival `Revive`, a removal `Cancel`, a lost task, a stop or a crash `LetGo`; the
purge, the passing of time and an enqueue onto a live row change nothing.

`ServicesProofs` proves `NeverMissing`, for any blobs, searches, transactions and boots, from
`ScopeAssumption`. The argument is that of the comment in `store/src/scope_cache.rs`, made exact. A
cutoff is the xmin of the build's snapshot, so every transaction below it had ended by then: what
it committed the build saw, and what it aborted is gone. What a later statement sees and the build
did not was therefore written by a transaction at or above the cutoff, whose versions carry a stamp
at or above it, and the search looks at all of those again: at the path and at the element through
`Grown`, at a summary through `LateSummaries` if the source was cached raw, or else through the path
or element that came late. The invariant says this of a build that has its snapshot, of the
cached scope, and of a search that holds a cutoff from an earlier state of the key: a key is only
ever rewritten with a later cutoff, since a build that began before the current one is refused by
its snapshot, and a search with an earlier cutoff only looks at more.

It proves `WithinBudget` and `NoAdmissionInPause`, for any requests, queries,
rates and costs, from `GovernorAssumption`, which asks that costs have a largest. The budget is
that of the whole open window, so the invariant `BurstShared` says what the window shares out:
once anything was sent, what was sent, what is still available and what the window's age
earned never exceed the ceiling together. Credit may be negative, by the debt of the one
request let through on a positive balance; the invariant bounds that debt by the largest cost, and
the theorem is the sum of the two. `PauseLasts` says that the governor's pause covers every wait
an answer asked for: overlapping waits only lengthen it, and an admission looks at it in the
step that admits.

It proves `AbsentTwice`, for any paths and git layouts and any interleaving of
passes, faults, restarts and changes of the world, from `WorktreesAssumption`. The invariant ties
the supervisor's count of absences to what its passes saw: a count is of the passes that last got to the path,
each of which found it absent, and a path on the list of removals has had its count completed by this pass.

`ServicesProofs` also proves `CompactIsExact`, for any keys, values and batch size and any number of
writers, fills and checks, from `ExactAssumption`. A fill writes what its statement saw, so the
invariant says that this is still the vector, of every key it has put in and of every key it would
(`FillIsCurrent`). What keeps that true is that a writer of a vector and a fill never both hold a key
past its trigger (`WriterOrFill`): the one that comes second waits, and a fill that waited finds the
copy there. Deletes do pass a fill, and what the fill then commits is an orphan, of no vector.
`MarkMeansCovered` carries the count over to the mark: between the two, whatever is committed brings
its copy.

`IndexingProofs` proves `StaleIsNoticed`, for any files and contents, any number of walkers and any number of
edits, walks, registrations and faults, from `IndexAssumption`. The watcher and each walk carry what they
hashed to a later write of the map, and any of them may write over another. The invariant, `AllTended`,
is therefore of each file and not of each writer: somebody answers for it. Either the watcher has heard that it
changed (`Noticed`), or whoever took it on last is still going to hash it or to map what it holds (`TakenOn`), or
nobody has it in hand and its mapping is what it holds, or it is in `lost`. `Handed` says where the one who took it
on is, which no one who has written the map can be. A write of the map settles what its writer took on; what another took
on after it stays in that one's hands; and what a later look had mapped is lost in that step, if the map is
another then. The cases in which the code gives up are in `lost`, and are the only ones.

It also proves `MappedIsParsed`: whatever a registered root maps, at every path and at every moment, is
parsed, or a reparse or a scan of it is coming or about to be queued, or was dropped where the code says
so (`Covered`). Whoever writes the map reads, decides and queues in statements of its own, so the
invariant says of each what it carries. `WalksKnow`: what a walk found parsed, and so will not queue,
stays covered until it writes its map. `PassKnows`: what a pass read of the map outside the
directory it re-lists, and what it has queued in it, stay covered until the pass writes the whole map
back. That a collection in between takes nothing that is waited for, that a removal takes the scans of its own
row, and that a boot sweeps what a dead process had in hand, are the cases. `Bookkeeping` is what they
need of the rows: a root's number is new when it is given, so a root added again begins with no rows; a
row of the root runs exactly while a task is on it; no row names an absent file; a pass and a walk hold what
their place says.

`EmbedLaneProofs` proves `PlanAccounts`, `DoneMeansBought` and `SuspectsFailAlone`, for any payloads, costs,
groups, budget and width. `Tokens` and `SplitToBudget` are recursive functions; `RecursionTheorems` gives
them their equations, and the module then states what a cut is, by induction on the length of what is cut:
consecutive pieces, none empty, that together are the whole, each within the budget or of one item.
From it follow what a plan is (every readable job with something to send rides in batches that
between them have all its items, every other job in one of its own kind) and then, along the lane's steps,
that the calls of a claim are batches of its plan and that a batch that has ended well has its vectors
(`CallsAccount`), while a broken one says so to each job aboard (`BrokenAccounts`). Calls fail in every way: a
suspect rides alone, so what fails it is its own, and a first attempt is ended by a shared call only if the
call failed for good (section 6, `innocents`).

`ConvoIngestProofs` proves all the safety properties of one file's ingest: `InOrderOnce`, `CursorTrails`,
`LedgerTrue`, `EnrichedAtRest` and the action property `DoneMeansRead`, for any addresses, records, files,
faults and restarts. `LockHeld` says that only the holder of the conversation's lock is between its
view and its commit; every other part of the invariant is about what that one poll holds in its locals.
`OrderInv`: turns ascend; each line of the file, and each record in hand, is stored already or comes after all
that is; and a stored record is in the ledger or in the hands of the poll that is about to commit it, which is what
makes the filter of a later view drop it. `CursorInv`: what the committed cursor leaves behind in the present file is
stored, and so is what a poll's read starts behind.
`LedgerInv` and `NumbersFree`: the turn at a ledgered number is the record the ledger
says, the numbers of turns have no gap, a poll takes its numbers just behind them, and between its append and its
commit finds its records there. `EnrichInv`: a stored turn has been queued, or a poll that stored it is about to queue it, or the last boot's sweep left
it over. It holds whatever the sweep's limit.
The properties are conditioned on the fault they need absent (`Never`) and so are the parts of the
invariant: nothing is supposed of the others.

`PollerProofs` proves `BacklogHasItsTurn`, for any sessions, files, writes and faults and any cap, with the
types of everything the poller keeps. `InOrder`, which sorts, is the sequence its definition chooses, and a
finite set with a strict order has one: whoever has k members before it comes at k + 1 (`InOrderIs`). The
argument is a measure. Between two passes, the passes that left a session waiting and the sessions that
precede it in the rotation are together fewer than the sessions (`BetweenPasses`). A pass with a backlog has a turn
for it (`Selected`), its turns are the first of the rotation, and each turn moves the rotation to the session that took it, so one
fewer precedes whoever comes after (`Shift`); a pass that fails half way has moved it past exactly the turns
that were taken (`TurnTaken`). Sessions that are live, or that come and go, only ever set a count back to
zero.

It also proves the action property `StallIsEarned`, for any files, writes, jobs, caps, faults and restarts.
What the queue knows of one file is a record (`FileView`): its cursor and acknowledgement, the newest
revision and where it ends, its session's row, the read its job has open, and whether the job is past it. The
constant-level lemmas are about such records: what a write, a claim, a read, a commit and an end of a job do
to one (`QueueStep`), what a submission and a record of the pass do (`Submits`, `Records`). An entry that the poller
keeps is at rest (`Resting`) for one of three reasons: the cursor has moved since; the acknowledgement voids
it at the next pass, and so does whatever an open read may put in its place (`Voided`); or each attempt that
is counted, or is to be counted of the job that is at the file, had a revision of its own (`Covered`). Each
step of the queue keeps that (`RestingKept`), the counting of a pass costs at most one attempt more than the
revisions that the pass saw (`CountedIs`), and what is submitted after it rests again once it is recorded
(`ResubmissionIs`, `RecordsIs`). The invariant `StallInv` says this of the entries the last pass recorded
and, while a pass runs, follows what it has read at its four moments: that the revisions it saw still bound
what is counted though the acknowledgements it loaded are old (`Loading`), that an outcome done is of a job
that is still done (`EndedDone`), and that what it will submit can rest again (`Choosing`). `Queued`, that
no session is submitted twice in a pass, is what lets one submission age an acknowledgement once. Of files
that jobs do not find, `Missed` counts the jobs that ended done and moved nothing.

`EnrichmentProofs` proves `NothingStranded`, for any blobs, texts, workers, walks, removals, faults and
boots. The property speaks of blobs that a root holds, and is not inductive: a blob may be let go, be parsed,
lose its rows to the collector, and be held again. The invariant `AllAccounted` therefore follows the
parse of every blob, held or not. Either its scan is first (queued, or at its parse), or each thing
the parse earned comes, or is among what the scan has still to queue. A batch of vectors comes if each
is stored, or a row that is queued or a worker that has not yet decided about it leads to it, or it
was dropped and `lapsed` says so; a summary comes if a row or a worker makes it, or it is stored and its
own vector comes. `NothingForgotten` is the lemma all handlers share: a step of one worker stores,
drops or still leads to each thing its job was for, and touches no other row. The collector's levels
judge by what is parsed, which is what the invariant goes by too; a boot, which forgets all tasks, re-establishes it
from the queries of its sweeps: what is not stored is missing, and what is missing is queued or, over a limit, in
`lapsed`. So it holds for any limits. The types include that no summary is stored that was not paid for.

`ServicesProofs` proves `ServedInTime`, for any directories, windows, ceiling, cadence and horizon, of
debouncers whose directories each lie under one watched root at most (`Lone`; section 6 says why). An event is
swallowed by an entry or starts one, in whatever order the inbox holds them, and an entry is never older
than the ceiling and a cadence (`EntriesYoung`); what came in is in the inbox, which is drained at every
wake, or is held by an entry at or above its directory (`OwedIsHeld`). `LoneIsServed` says the same of one
such directory among others that are not.

It proves `ClassedTruly`, for any turns, windows and lengths and any number of appends, passes, removals and
restarts. The classifier's memory is a recursive function, so `RecursionTheorems` gives it its equations, and
two lemmas about it carry the rest: a run taken up with the memory the conversation had there is classed as
the whole is (`WindowRead`), and two memories that differ do so no longer than results alone follow
(`MemoryForgets`). The first is the backfill: `LoopKnows` says that while some class is missing, the conversation is
the one the loop has read, up to where it is, and what it remembers is what reading that gave. Appends come
behind what was read; a removal leaves no class missing, and what is stored after it has its class, so
that a loop with an old window in hand finds nothing to write. `SweptBehind`: a pass that wrote nothing has left nothing
missing behind it, so that the label for the rest finds no stored turn. The second is the append, which looks
back one turn (`AppendedTruly`): where it starts with another memory than the conversation's, it is behind a turn of
results, and the turns classed otherwise are the results that begin it, as `CutOff` says. A restatement looks
back one turn too, but the turns it replaces are writes, which are classed alike behind any turn
(`ClassifyOld`); the constants assume as much of an old turn, as a turn whose text a restatement changes is of the
write family (`daemon/src/intake_restate.rs:8`).

Of `SelfUpdate` it proves the types. What they rest on is that an updater at the lock, or with it,
has a release to install; whether the installation ends up current is liveness.

`RecursionTheorems` stands under these. Induction over an operator is out of the prover's reach, but
induction over a set is not: a set of naturals that holds zero and each successor holds all.
So a recursive function over an initial segment has its equations (`RecursionDefines`) and stays in any set its step
stays in (`StaysIn`), and what a fold computes is proved, for every input, about the set of lengths at which it does.

The assumptions are those named in each component: that constants have their types; that costs have a
largest; that the watched directories are finitely many and `Under` a partial order; that no cursor is the
value that stands for none. TLC evaluates each of them in the runs of its component.

Only model-checked: every property that holds in the end, since liveness under fairness, like ENABLED, is
beyond the prover. The type invariants of `MCServices` and `MCContent` are proved of the compositions, where whichever
part runs takes a step of its own specification and the others none. `MCConversations` states none of its own:
`IngestTypeOK`, and `PollerTypeOK` for the two sets of constants it takes, are proved for all constants.
Operators that take an operator (`SelectSeq`, sorting) are opaque to the prover; the modules the theorems
are about do without them.

## 6. Where the code and its words disagree

* `embed_panic`: a panicked batch's jobs are settled as done; the comment at
  `daemon/src/runner.rs:755` says their rows stay running for boot recovery.
* `innocents`: jobs on their first attempt share a request, and if it fails in a way that no retry helps
  (`daemon/src/enrich.rs:897`, `:935`) each of them fails for good with it, so none comes to the attempt on which it would ride
  alone. `daemon/src/batch.rs:18` says that solo retry keeps innocents from inheriting the failure, and `:50` that
  a batch of innocents must not be taken down.
* `convo_twice`: turns are appended in one transaction, the cursor and ledger committed in the
  next. A store error or a kill between them makes the retry store the same records again under
  fresh numbers, with no conflict for the backstop to see; `daemon/tests/convo_ingest_sidecar.rs:173`
  says a re-run stores nothing twice.
* `poisoned_blob`: a scan parses what the file holds when it runs and stores that under the hash it
  was queued with. `daemon/src/scan.rs:10` says a blob's elements are those of exactly its bytes. The
  wrong elements then serve every branch and root that does hold those bytes.
* `readded_root`: a root removed and added again between two passes keeps a watcher with the old
  row's id: its scans are dropped, its map refused, and the refusal ends the whole pass, for every
  root, until a restart. `daemon/src/watch.rs:618` says the watcher is reused for no loss.
* `stale_failure`: a pass that finds a file changed submits it onto the row that is still running and
  stamps that job with the newer revision. If the attempt fails, the next pass marks the newer bytes
  unreadable, which no job was given; `daemon/src/convo_poll.rs:389` says a failure acknowledges only
  the attempted revision. They wait for the file's next change, or a restart.
* `paid_output`: between a walk's map and its scans the collector finds a text nowhere and drops its
  summary, which is bought again minutes later. `store/src/roots.rs:385` says why that must not be.

Met while modelling, and not shown by a run:

* A file that is rewritten between passes can be reported as stalled though every job read it. A pass loads
  the acknowledgements before the outcomes (`daemon/src/convo_poll.rs:305`, `:316`); a job that acknowledges
  and ends in between is counted, and the file's next revision hides the acknowledgement from the next pass, since the
  resubmission is younger. Three such passes in a row are a stall; `daemon/src/convo_poll.rs:49` says a stall is three attempts
  without cursor or acknowledgement progress. `StallIsEarned` therefore allows one attempt, of a job that
  ended after the acknowledgements were loaded, and one more for each write up to the revision the pass saw: a
  file that stands as it did at boot is never reported while jobs read it. Of a session whose jobs do not find its
  files it is exact.
* The daemon lock ends with its database session, not with the daemon, which nothing watches; the
  comments at `daemon/src/boot.rs:622` and `store/src/jobs.rs:557` say it is held until `serve`
  returns. If Postgres drops it, a second daemon boots and two work one row. `SessionEnds` is
  therefore an action of dead daemons only.
* A removal does not ask for the conversation's lock. Between an ingest's cursor load and its header
  upsert it takes the turns and the cursor, and the ingest then commits a cursor past what was
  removed; `store/migrations/0014_ingest_cursors.sql:45` says forgetting makes a re-ingest a re-read.
  The properties of `ConvoIngest` are conditioned on it (`Never`).
* `daemon/src/watch.rs:389-394` counts the cost of a pass and a walk that overlap as one redundant
  enqueue. The later of the two writes back the whole map it read, so a file may keep a blob it no
  longer holds until its next event; and so do two walks, which take no lock (`daemon/src/roots.rs:232`). `WriteMap` puts
  such a path in `lost`.
* A file that comes after a first walk's listing (`daemon/src/roots.rs:199`) and before the root's watcher starts, at a
  pass after the registration (`:203`), is neither hashed nor heard of. It waits for its next change or the next
  walk; it is in `lost` from `Edit`.
* `TurnClassifier::after` looks back on one turn. An append that begins behind a turn of results has
  forgotten the call, so the second result of two parallel searches, appended alone, is classed as
  ordinary tool output and search shows it; read from the start, as the backfill reads, it is an echo.
  `store/src/conversations.rs:275` says a result is paired with its call though they arrive in different
  appends, `core/src/turn_class.rs:199` that two calls can come back as two result turns. `ClassedTruly` and `TurnsSettle`
  except exactly these turns (`CutOff`), which they say are classed as tool use.
* A restated text is queued for its vector after the window's commit, with the cursor already past it.
  What an error leaves in between waits for the next boot's sweep, though the pass is repeated
  (`missed`); `store/src/conversations.rs:528` says a repeated window writes nothing, which is true.
* The debouncer keys what is pending by directory alone (`daemon/src/debounce.rs:185`), so of two watched
  roots above one directory the second's event folds into the first's entry and only the first
  re-lists; `daemon/src/watch.rs:505` says an edit under a nested root is seen twice. `ServedInTime` is checked and
  proved of directories under one watched root, and its instance has one root.
* `LastFailureIsOpen` says that a failure still reported is newer than every success of its key. That a success
  hides only earlier failures is not in it: the statement hides every open failure of the key, whatever its id
  (`store/src/jobs.rs:339`), and that these are all earlier is `OwnerIsNewest`.
* A daemon whose process is older than the binary on disk compares releases with itself: it may swap
  an installation that a person has upgraded further back to `releases/latest`, when that has been
  yanked to a version in between. `KeepsCurrent` is stated of the newest release, not of the largest.

## 7. What is left

* `ConvoIngest`: sidecar files of one conversation, transcript imports; an abstract log to which each record is appended once.
* `ConvoPoller`: rows that retention purged while an entry names them, several harnesses.
* `Enrichment`: turns as holders of content, the healing and splitting of a rejected request.
* `TurnClasses`: the role and source a restatement changes, and several conversations in one queue.
* Two roots of one repository in `Indexing`, and an analogue of `GarbageGoes` for two roots.

## 8. Not modelled

The modules cover about a tenth of the implementation's lines: the part in which order, failure and
concurrency decide. The bulk of the rest has no state of its own to get wrong in that way.

* Search, ask, answer and decisions, with their SQL: pure queries over one snapshot and prompts made
  of their rows. Whether a ranking is good is a matter of judged examples, which the repository has.
  The one part that depends on other transactions, a search's scope, is `ScopeCache`.
* Parsers and discovery: functions of one file's text, tested by golden files.
* Providers: HTTP clients. Handlers see an outcome per call; the retry inside a request is in
  `EmbedGovernor`.
* Configuration, `doctor`, the command line and its terminal interface: layering, reports and
  rendering, each run over a snapshot by one process. `doctor upgrade` is in `SelfUpdate`.
* HTTP surface, authentication and read endpoints: decoding and queries. What they write are the
  enqueues, walks and removals of the modules above.
* The periodic ANALYZE of large tables: one statement with no state. Schema and skew: comparisons of
  version strings.
