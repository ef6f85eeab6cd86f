------------------------------ MODULE ConvoIngest ----------------------------
(***************************************************************************)
(* Ingesting one native session file into the store: the steps of          *)
(* crates/daemon/src/convo_ingest.rs over the cursor and the ledger of      *)
(* crates/store/src/ingest_cursors.rs, the turns of conversations.rs, and   *)
(* the poller of convo_poll.rs that fires them.                             *)
(*                                                                         *)
(* Two live queue keys can address one conversation, so two jobs poll it.   *)
(* Each statement that commits on its own is a step, and the harness, a     *)
(* removal, a store error, a lost lock session or a kill may come between   *)
(* any two.  A record is its ordinal; an offset counts complete lines.      *)
(***************************************************************************)
EXTENDS Naturals, Sequences, FiniteSets, Functions

LOCAL INSTANCE FiniteSetsExt

CONSTANTS
  Address,     \* the queue keys that address this conversation
  Polled,      \* the one the poller submits
  Nobody,      \* no holder of the conversation lock
  NoCursor,    \* no ingest_cursors row
  NoStamp,     \* no revision noted
  MaxRecords,  \* bound on the records the harness writes
  MaxFiles,    \* bound on the files that stand at the path
  Budget,      \* bound on the faults of each kind
  MaxFaults,   \* bound on the faults of a behaviour
  SweepLimit   \* this conversation's room under the boot sweep's limit

FaultKind == {"crash", "error", "lock_lost", "remove", "truncate"}

ASSUME IngestAssumption ==
  /\ Polled \in Address
  /\ Nobody \notin Address
  /\ MaxRecords \in Nat /\ MaxFiles \in Nat \ {0} /\ MaxFaults \in Nat
  /\ SweepLimit \in Nat
  /\ Budget \in [FaultKind -> Nat]
  /\ NoCursor \notin [id : Nat, offset : Nat]

VARIABLES
  file,          \* what stands at the path: an inode and its complete lines
  written,       \* the records the harness ever wrote
  conversation,  \* whether the conversation's header row exists
  turns,         \* turn_no -> the record stored under it
  cursor,        \* where the last committed poll stopped
  ledger,        \* record -> the turn_no it was stored under
  queued,        \* records whose enrichment was queued
  over,          \* missing at the last boot, and beyond its sweep's limit
  lock,          \* the holder of the conversation's advisory lock
  job,           \* state of each key's newest row
  poll,          \* each running job's place in the pipeline and its locals
  acked,         \* in the daemon's memory: this revision was read, and nothing in it
  spent,         \* faults so far
  torn           \* a poll died between append_turns and commit_poll

store == <<conversation, turns, cursor, ledger>>
vars == <<file, written, store, queued, over, lock, job, poll, acked, spent, torn>>

Record == 1..MaxRecords
TurnNo == Nat \ {0}
Cursor == [id : 1..MaxFiles, offset : 0..MaxRecords]
Stamp == (1..MaxFiles) \X (0..MaxRecords) \X Nat

Step == {"idle", "lock", "load", "read", "header", "view", "number", "append", "commit",
         "enrich"}

Poll == [at : Step, known : BOOLEAN, due : 0..MaxRecords,
         from : Cursor \union {NoCursor}, upto : Cursor \union {NoCursor},
         stamp : Stamp \union {NoStamp},
         batch : Seq(Record), fresh : Seq(Record), first : Nat]

NoPoll == [at |-> "idle", known |-> FALSE, due |-> 0, from |-> NoCursor,
           upto |-> NoCursor, stamp |-> NoStamp, batch |-> <<>>, fresh |-> <<>>,
           first |-> 0]

Stored == {turns[n] : n \in DOMAIN turns}

\* FileStamp: any change of the file is another revision, and voids what was
\* acknowledged of the last.
Revision == <<file.id, written, spent["truncate"]>>

Empty == [n \in {} |-> 0]

Init ==
  /\ file = [id |-> 1, lines |-> <<>>]
  /\ written = 0
  /\ conversation = FALSE
  /\ turns = Empty
  /\ cursor = NoCursor
  /\ ledger = Empty
  /\ queued = {} /\ over = {}
  /\ lock = Nobody
  /\ job = [a \in Address |-> "done"]
  /\ poll = [a \in Address |-> NoPoll]
  /\ acked = FALSE
  /\ spent = [k \in FaultKind |-> 0]
  /\ torn = FALSE

Spend(kind) ==
  /\ spent[kind] < Budget[kind] /\ SumFunction(spent) < MaxFaults
  /\ spent' = [spent EXCEPT ![kind] = @ + 1]

-----------------------------------------------------------------------------
(* The harness.                                                            *)

\* A line counts once its newline is there.
WriteRecord ==
  /\ written < MaxRecords
  /\ written' = written + 1
  /\ file' = [file EXCEPT !.lines = Append(@, written + 1)]
  /\ acked' = FALSE
  /\ UNCHANGED <<store, queued, over, lock, job, poll, spent, torn>>

\* Another inode takes the path, with any run of the old lines.
Rotate ==
  /\ file.id < MaxFiles
  /\ \E i \in 1..Len(file.lines) + 1, j \in 0..Len(file.lines) :
       file' = [id |-> file.id + 1, lines |-> SubSeq(file.lines, i, j)]
  /\ acked' = FALSE
  /\ UNCHANGED <<written, store, queued, over, lock, job, poll, spent, torn>>

\* The same inode loses its tail.
Truncate ==
  /\ Spend("truncate")
  /\ \E n \in 0..Len(file.lines) - 1 :
       file' = [file EXCEPT !.lines = SubSeq(@, 1, n)]
  /\ acked' = FALSE
  /\ UNCHANGED <<written, store, queued, over, lock, job, poll, torn>>

-----------------------------------------------------------------------------
(* The queue, as the ingest sees it.  JobRunner has the retry ladder: a      *)
(* retryable failure goes back to pending or, at its end, is final.          *)

\* enqueue_job inserts unless the key has a live row.
Submit(a) ==
  /\ job[a] \notin {"pending", "running"}
  /\ job' = [job EXCEPT ![a] = "pending"]
  /\ UNCHANGED <<file, written, store, queued, over, lock, poll, acked, spent, torn>>

\* Past the last newline.
End == [id |-> file.id, offset |-> Len(file.lines)]

\* Mutant: only a file with a cursor can be behind.
BehindIfTracked ==
  /\ ~acked
  /\ cursor # NoCursor /\ cursor # End

Behind ==
  /\ ~acked
  /\ cursor # End

\* The poller leaves a failed revision alone.
PollerSubmits == Behind /\ job[Polled] # "failed" /\ Submit(Polled)

Released(a) == IF lock = a THEN Nobody ELSE lock

\* The lock goes with the closure, then the runner settles the row; a
\* settlement that fails is JobRunner's.
Settle(a, states) ==
  /\ \E state \in states : job' = [job EXCEPT ![a] = state]
  /\ poll' = [poll EXCEPT ![a] = NoPoll]
  /\ lock' = Released(a)

Retryable == {"pending", "failed"}
Final == {"failed"}

-----------------------------------------------------------------------------
(* The pipeline of one session file.                                       *)

Goes(a, step) == poll' = [poll EXCEPT ![a].at = step]

\* conversation_for is asked before the lock is.
Claim(a) ==
  /\ job[a] = "pending"
  /\ job' = [job EXCEPT ![a] = "running"]
  /\ poll' = [poll EXCEPT ![a] = [NoPoll EXCEPT !.at = "lock",
                                               !.known = cursor # NoCursor,
                                               !.due = written]]
  /\ UNCHANGED <<file, written, store, queued, over, lock, acked, spent, torn>>

\* Mutant: the lock is taken whoever holds it.
SeizeLock(a) ==
  /\ poll[a].at = "lock"
  /\ lock' = a
  /\ Goes(a, "load")
  /\ UNCHANGED <<file, written, store, queued, over, job, acked, spent, torn>>

TakeLock(a) ==
  /\ poll[a].at = "lock" /\ lock = Nobody
  /\ lock' = a
  /\ Goes(a, "load")
  /\ UNCHANGED <<file, written, store, queued, over, job, acked, spent, torn>>

\* Mutant: a contended run is a success.
LeaveToHolder(a) ==
  /\ poll[a].at = "lock" /\ lock # Nobody
  /\ Settle(a, {"done"})
  /\ UNCHANGED <<file, written, store, queued, over, acked, spent, torn>>

\* The holder may have read before the bytes this run is for.
Contended(a) ==
  /\ poll[a].at = "lock" /\ lock # Nobody
  /\ Settle(a, Retryable)
  /\ UNCHANGED <<file, written, store, queued, over, acked, spent, torn>>

LoadCursor(a) ==
  /\ poll[a].at = "load"
  /\ poll' = [poll EXCEPT ![a].at = "read", ![a].from = cursor]
  /\ UNCHANGED <<file, written, store, queued, over, lock, job, acked, spent, torn>>

\* Mutant: the offset is held against any file at the path.
StartByOffset(from) ==
  IF from = NoCursor \/ Len(file.lines) < from.offset THEN 0 ELSE from.offset

\* read_lines: a moved inode or a shorter file is read from its start.
Start(from) ==
  IF from = NoCursor \/ from.id # file.id \/ Len(file.lines) < from.offset
  THEN 0 ELSE from.offset

Unread(from) == SubSeq(file.lines, Start(from) + 1, Len(file.lines))

ReadRecords(a) ==
  LET batch == Unread(poll[a].from)
  IN  /\ poll[a].at = "read" /\ batch # <<>>
      /\ poll' = [poll EXCEPT ![a].at = "header", ![a].batch = batch, ![a].upto = End,
                              ![a].known = FALSE, ![a].from = NoCursor]
      /\ UNCHANGED <<file, written, store, queued, over, lock, job, acked, spent, torn>>

\* A known conversation still commits how far it was read.
ReadNothing(a) ==
  /\ poll[a].at = "read" /\ Unread(poll[a].from) = <<>>
  /\ poll[a].known \/ conversation
  /\ poll' = [poll EXCEPT ![a].at = "view", ![a].stamp = Revision, ![a].upto = End,
                          ![a].known = FALSE, ![a].from = NoCursor]
  /\ UNCHANGED <<file, written, store, queued, over, lock, job, acked, spent, torn>>

\* An unknown one has no header to hang a cursor on: the revision is
\* acknowledged in memory.
Acknowledge(a) ==
  /\ poll[a].at = "read" /\ Unread(poll[a].from) = <<>>
  /\ ~poll[a].known /\ ~conversation
  /\ acked' = TRUE
  /\ Settle(a, {"done"})
  /\ UNCHANGED <<file, written, store, queued, over, spent, torn>>

UpsertHeader(a) ==
  /\ poll[a].at = "header"
  /\ conversation' = TRUE
  /\ Goes(a, "view")
  /\ UNCHANGED <<file, written, turns, cursor, ledger, queued, over, lock, job, acked, spent, torn>>

NextTurnNo == Max(DOMAIN turns \union {0}) + 1

\* prepare_batch: what the ledger has not.
Unledgered(batch) ==
  LET kept[i \in 0..Len(batch)] ==
        IF i = 0 THEN <<>>
        ELSE IF batch[i] \in DOMAIN ledger THEN kept[i - 1] ELSE Append(kept[i - 1], batch[i])
  IN  kept[Len(batch)]

\* ledger_view asks the ledger, then the turns: two statements of a READ
\* COMMITTED transaction, each with a snapshot of its own.
View(a) ==
  /\ poll[a].at = "view"
  /\ poll' = [poll EXCEPT ![a].at = "number", ![a].batch = <<>>,
                         ![a].fresh = Unledgered(poll[a].batch)]
  /\ UNCHANGED <<file, written, store, queued, over, lock, job, acked, spent, torn>>

NumberTurns(a) ==
  /\ poll[a].at = "number"
  /\ poll' = [poll EXCEPT ![a].at = "append", ![a].first = NextTurnNo]
  /\ UNCHANGED <<file, written, store, queued, over, lock, job, acked, spent, torn>>

Numbers(p) == p.first .. p.first + Len(p.fresh) - 1

\* ON CONFLICT (conversation_id, turn_no) DO NOTHING.
Appended(p) ==
  [n \in DOMAIN turns \union Numbers(p) |->
     IF n \in DOMAIN turns THEN turns[n] ELSE p.fresh[n - p.first + 1]]

\* Mutant: no backstop.
NeverDisagrees(p) == FALSE

\* ledger_disagreement, read after the append has committed.
Disagrees(p) == Numbers(p) \intersect DOMAIN turns # {}

\* The turns' foreign key wants the header.
Orphaned(a) == ~conversation /\ (poll[a].at = "commit" \/ poll[a].fresh # <<>>)

AppendTurns(a) ==
  /\ poll[a].at = "append" /\ ~Orphaned(a)
  /\ turns' = Appended(poll[a])
  /\ IF Disagrees(poll[a]) THEN Settle(a, Final)
                           ELSE Goes(a, "commit") /\ UNCHANGED <<lock, job>>
  /\ UNCHANGED <<file, written, conversation, cursor, ledger, queued, over, acked, spent, torn>>

\* A number once given to a record stays.
Ledgered(p) ==
  LET given == Range(p.fresh)
  IN  [r \in DOMAIN ledger \union given |->
         IF r \in DOMAIN ledger THEN ledger[r]
         ELSE p.first + (CHOOSE i \in DOMAIN p.fresh : p.fresh[i] = r) - 1]

CommitPoll(a) ==
  /\ poll[a].at = "commit" /\ ~Orphaned(a)
  /\ cursor' = poll[a].upto
  /\ ledger' = Ledgered(poll[a])
  /\ acked' = (acked \/ poll[a].stamp = Revision)
  /\ poll' = [poll EXCEPT ![a].at = "enrich", ![a].upto = NoCursor, ![a].stamp = NoStamp,
                          ![a].first = 0]
  /\ UNCHANGED <<file, written, conversation, turns, queued, over, lock, job, spent, torn>>

\* A removal took the header: the foreign key refuses the statement.
RefuseOrphan(a) ==
  /\ poll[a].at \in {"append", "commit"} /\ Orphaned(a)
  /\ Settle(a, Retryable)
  /\ UNCHANGED <<file, written, store, queued, over, acked, spent, torn>>

\* enqueue_for_turns, for the accepted turns only.
Enrich(a) ==
  /\ poll[a].at = "enrich"
  /\ queued' = queued \union Range(poll[a].fresh)
  /\ Settle(a, {"done"})
  /\ UNCHANGED <<file, written, store, over, acked, spent, torn>>

-----------------------------------------------------------------------------
(* Faults and removals.                                                    *)

Appending(a) == poll[a].at = "commit" /\ poll[a].fresh # <<>>

\* A statement fails; the enrichment of the first few turns may be queued.  A
\* file that cannot be read is a final failure.
StepFails(a) ==
  /\ poll[a].at # "idle"
  /\ Spend("error")
  /\ Settle(a, IF poll[a].at = "read" THEN Final ELSE Retryable)
  /\ torn' = (torn \/ Appending(a))
  /\ IF poll[a].at = "enrich"
     THEN \E n \in 0..Len(poll[a].fresh) :
            queued' = queued \union Range(SubSeq(poll[a].fresh, 1, n))
     ELSE UNCHANGED queued
  /\ UNCHANGED <<file, written, store, over, acked>>

\* The lock's own connection dies under a poll that goes on.
LoseLock(a) ==
  /\ lock = a
  /\ Spend("lock_lost")
  /\ lock' = Nobody
  /\ UNCHANGED <<file, written, store, queued, over, job, poll, acked, torn>>

\* delete_conversation: the turns, the cursor and its ledger cascade.  It
\* does not ask for the conversation lock.
DeleteConversation ==
  /\ conversation
  /\ Spend("remove")
  /\ conversation' = FALSE
  /\ turns' = Empty
  /\ cursor' = NoCursor
  /\ ledger' = Empty
  /\ UNCHANGED <<file, written, queued, over, lock, job, poll, acked, torn>>

\* Mutant: no sweep.
NothingMissing == {}

\* requeue_missing_vectors: what the schema says is stored and not embedded.
Missing == Stored \ queued

\* In the order of the texts' hashes, up to a LIMIT.
Swept == {some \in SUBSET Missing :
            \/ Cardinality(some) = SweepLimit
            \/ some = Missing /\ Cardinality(Missing) < SweepLimit}

\* A kill; the next boot revives the running rows and sweeps.
CrashAndBoot ==
  /\ Spend("crash")
  /\ torn' = (torn \/ \E a \in Address : Appending(a))
  /\ poll' = [a \in Address |-> NoPoll]
  /\ job' = [a \in Address |-> IF job[a] = "running" THEN "pending" ELSE job[a]]
  /\ lock' = Nobody
  /\ acked' = FALSE
  /\ \E some \in Swept : queued' = queued \union some /\ over' = Missing \ some
  /\ UNCHANGED <<file, written, store>>

-----------------------------------------------------------------------------
Advance(a) ==
  \/ Claim(a) \/ TakeLock(a) \/ Contended(a) \/ LoadCursor(a)
  \/ ReadRecords(a) \/ ReadNothing(a) \/ Acknowledge(a)
  \/ UpsertHeader(a) \/ View(a) \/ NumberTurns(a) \/ AppendTurns(a) \/ CommitPoll(a) \/ RefuseOrphan(a)
  \/ Enrich(a)

Next ==
  \/ WriteRecord \/ Rotate \/ Truncate \/ DeleteConversation \/ CrashAndBoot \/ PollerSubmits
  \/ \E a \in Address : Submit(a) \/ Advance(a) \/ StepFails(a) \/ LoseLock(a)

Spec ==
  /\ Init /\ [][Next]_vars
  /\ WF_vars(PollerSubmits)
  /\ \A a \in Address : WF_vars(Advance(a))

-----------------------------------------------------------------------------
(* Properties.                                                              *)

\* The store's rows are what their columns allow: turn numbers from 1
\* (turns_ordinal_positive, ingest_ledger_turn_no_positive), one row a key,
\* no cursor without its conversation and no ledger without its cursor.
IngestTypeOK ==
  /\ file \in [id : 1..MaxFiles, lines : Seq(Record)] /\ written \in 0..MaxRecords
  /\ conversation \in BOOLEAN /\ torn \in BOOLEAN
  /\ DOMAIN turns \subseteq TurnNo /\ Stored \subseteq Record
  /\ cursor \in Cursor \union {NoCursor}
  /\ DOMAIN ledger \subseteq Record /\ \A r \in DOMAIN ledger : ledger[r] \in TurnNo
  /\ queued \subseteq Record /\ over \subseteq Record
  /\ lock \in Address \union {Nobody}
  /\ job \in [Address -> {"pending", "running", "done", "failed"}]
  /\ poll \in [Address -> Poll]
  /\ acked \in BOOLEAN
  /\ spent \in [FaultKind -> Nat]
  /\ turns # Empty \/ cursor # NoCursor => conversation
  /\ cursor = NoCursor => ledger = Empty

Never(kinds) == \A k \in kinds : spent[k] = 0

\* No record is stored under two turn numbers: re-running an ingest stores
\* nothing a second time (daemon/tests/convo_ingest_sidecar.rs:173).
StoredOnce ==
  \A m, n \in DOMAIN turns : turns[m] = turns[n] => m = n

\* While no poll dies between its append and its commit, whatever rotates,
\* crashes, fails or contends, the turns are the records in the order they
\* were written, each once.
InOrderOnce ==
  ~torn /\ Never({"lock_lost", "remove", "truncate"}) =>
    \A m, n \in DOMAIN turns : m < n => turns[m] < turns[n]

\* Nothing at or below the committed cursor was left out of the turns.
NothingSkipped ==
  cursor # NoCursor /\ cursor.id = file.id =>
    \A i \in 1..Len(file.lines) : i <= cursor.offset => file.lines[i] \in Stored

\* A crash, an error, a rotation or even a second poll beside one that lost
\* its lock never lets the cursor pass a record that is not stored.
CursorTrails ==
  Never({"remove", "truncate"}) => NothingSkipped

\* A ledger row names the turn that holds its record: a rescan recovers a
\* record's number, and a dedupe drops nothing that is not there.  And turn
\* numbers are dense from 1 (migration 0013): a window of turns around a hit has
\* no hole.
LedgerTrue ==
  Never({"remove"}) \/ Never({"lock_lost"}) =>
    /\ \A r \in DOMAIN ledger : ledger[r] \in DOMAIN turns /\ turns[ledger[r]] = r
    /\ DOMAIN turns = 1..Cardinality(DOMAIN turns)

\* Outside a poll's own last steps every stored turn was queued for
\* enrichment; a crash leaves that to the boot sweep, and the sweep leaves to
\* the next boot only what is beyond its limit.
EnrichedAtRest ==
  Never({"error", "lock_lost"})
    /\ (\A a \in Address : poll[a].at \notin {"commit", "enrich"})
    => Stored \subseteq queued \union over

\* A run that settles done has stored every record that stood in the file
\* when it was claimed: one that met a held lock does not settle done
\* (convo_ingest.rs:403).
DoneMeansRead ==
  [][\A a \in Address :
       job[a] = "running" /\ job'[a] = "done" /\ Never({"remove", "truncate"})
         => {r \in Range(file.lines) : r <= poll[a].due} \subseteq Stored']_vars

\* What the harness wrote ends up stored, or some job is left failed for the
\* operator to see.
DeltaArrives ==
  <>[](\/ ~Never({"remove", "truncate"})
       \/ \E a \in Address : job[a] = "failed"
       \/ Range(file.lines) \subseteq Stored)
=============================================================================
