---------------------------- MODULE ConvoPoller ----------------------------
(***************************************************************************)
(* The conversation poller (crates/daemon/src/convo_poll.rs): what it sees  *)
(* of the harnesses' session files, which sessions it submits under the cap *)
(* of a pass, and what it makes of the jobs it submitted, beside harnesses  *)
(* that write, jobs that run, and passes that fail or die half way.         *)
(*                                                                         *)
(* A session is its place in path order; its files are the main one and its *)
(* sidecars.  A revision is the number of the write that made it, so its    *)
(* order is that of modification times.  How a file is read and stored is   *)
(* ConvoIngest's business, and what the queue does with a row JobStore's.   *)
(***************************************************************************)
EXTENDS Naturals, Sequences, FiniteSets, Functions

CONSTANTS
  File,        \* <<session, place>>: place 1 is the main file
  Later,       \* files that are not there at boot
  Bare,        \* files with no complete line at boot
  Cold,        \* files older than the lookback window at boot
  Wordless,    \* files whose lines are no records
  Mislaid,     \* sessions whose jobs resolve to other files than the poller's
  Nothing,     \* no cursor, acknowledgement, entry, stamp or folder
  Found,       \* a folder that was found
  Cap,         \* max_per_pass
  StallPasses, \* STALL_PASSES; a count stops there
  Changes,     \* the kinds of write that happen
  MaxWrites,   \* bound on the writes of a behaviour
  MaxIds,      \* bound on the rows of one session
  MishapBudget, \* bound on the faults of each kind
  MaxMishaps   \* bound on the faults of a behaviour

Session == {f[1] : f \in File}
Main(s) == <<s, 1>>
ChangeKind == {"line", "part", "touch", "replace"}
MishapKind == {"pass", "retry", "fail", "restart"}

ASSUME PollerAssumption ==
  /\ IsFiniteSet(File) /\ File \subseteq Nat \X (Nat \ {0})
  /\ \A s \in Session : Main(s) \in File
  /\ Later \subseteq Bare /\ Bare \subseteq File /\ Cold \subseteq File \ Later
  /\ Wordless \subseteq File
  /\ Mislaid \subseteq Session /\ Changes \subseteq ChangeKind
  /\ Cap \in Nat \ {0} /\ StallPasses \in Nat \ {0}
  /\ MaxWrites \in Nat /\ MaxIds \in Nat /\ MaxMishaps \in Nat
  /\ MishapBudget \in [MishapKind -> Nat]

VARIABLES
  disk,        \* what stands at each path: revision, inode, complete lines, a torn tail
  writes,      \* writes so far
  offsets,     \* ingest_cursors: the inode and the lines read
  ack,         \* AppState: the last revision a read found nothing in
  row,         \* each session's newest job, and those before it that failed for good
  run,         \* a running job: the files ahead of it, and what it read of the first
  observed,    \* the last pass's stamps, Nothing before the first pass
  lag,         \* files submitted and not read since
  unreadable,  \* revisions acknowledged because their job failed
  folders,     \* the recorded cwd: found, or missing at a revision
  after,       \* where the backlog's rotation stands
  stalled,     \* what the last pass reported
  pass,        \* the pass in flight and its locals
  mishaps,     \* faults so far
  passed,      \* ghost: passes in a row that left a session in the backlog
  fruitless,   \* ghost: jobs in a row that ended done and moved nothing of a file
  blame        \* ghost: the revision the last failed job met a file at

queue == <<offsets, ack, row, run>>
memory == <<observed, lag, unreadable, folders, after, stalled>>
ghosts == <<passed, fruitless, blame>>
pvars == <<disk, writes, queue, memory, pass, mishaps, ghosts>>

Offset == [inode : Nat, lines : Nat]
Disk == [rev : Nat, inode : Nat, lines : Nat, torn : BOOLEAN]
OrNothing(S) == S \union {Nothing}
Blank == [f \in File |-> Nothing]

\* "newer" says which submissions a read started after: 2 the latest, 1 only
\* the one the last recorded pass retained, 0 neither.
Ack == [stamp : Nat, newer : 0..2]
Read == [end : Offset, rev : Nat, empty : BOOLEAN, newer : 0..2]
Entry == [cursor : OrNothing(Offset), stamp : Nat, job : Nat, tries : 0..StallPasses,
          last : Nat]

ASSUME NothingAssumption == Nothing \notin Offset \union Ack \union Read \union Entry

Idle == [at |-> "idle", disk |-> Nothing, acks |-> Nothing, outcomes |-> Nothing,
         cursors |-> Nothing, seen |-> Nothing, lag |-> Nothing, wanted |-> {},
         todo |-> <<>>, first |-> 0, waiting |-> {}, sent |-> {}]
NoRun == [ahead |-> <<>>, read |-> Nothing, moved |-> {}]

PollerInit ==
  /\ disk = [f \in File |-> [rev |-> 0, inode |-> 0, torn |-> FALSE,
                             lines |-> IF f \in Bare THEN 0 ELSE 1]]
  /\ writes = 0
  /\ \E known \in SUBSET (File \ (Bare \union Wordless)) :
       offsets = [f \in File |-> IF f \in known THEN [inode |-> 0, lines |-> 0] ELSE Nothing]
  /\ ack = Blank
  /\ row = [s \in Session |-> [id |-> 0, state |-> "done", dead |-> {}]]
  /\ run = [s \in Session |-> NoRun]
  /\ observed = Nothing /\ lag = Blank /\ unreadable = Blank
  /\ folders = [s \in Session |-> Nothing]
  /\ after = 0 /\ stalled = FALSE /\ pass = Idle
  /\ mishaps = [k \in MishapKind |-> 0]
  /\ passed = [s \in Session |-> 0]
  /\ fruitless = [f \in File |-> 0] /\ blame = [f \in File |-> 0]

Mishap(kind) ==
  /\ mishaps[kind] < MishapBudget[kind] /\ SumFunction(mishaps) < MaxMishaps
  /\ mishaps' = [mishaps EXCEPT ![kind] = @ + 1]

\* Discovery lists a session by its main file.
There(d, f) == f \notin Later \/ d[f].rev > 0
Listed(d) == {f \in File : There(d, f) /\ There(d, Main(f[1]))}
FilesOf(d, s) == {f \in Listed(d) : f[1] = s}

-----------------------------------------------------------------------------
(* The harness: a line, a part of one, a rewrite in place, another inode.   *)

Write(f, kind, changed) ==
  /\ writes < MaxWrites /\ kind \in Changes
  /\ There(disk, Main(f[1])) \/ f = Main(f[1])
  /\ writes' = writes + 1
  /\ disk' = [disk EXCEPT ![f] = [changed EXCEPT !.rev = writes + 1]]
  /\ UNCHANGED <<queue, memory, pass, mishaps, ghosts>>

WriteLine(f) == Write(f, "line", [disk[f] EXCEPT !.lines = @ + 1, !.torn = FALSE])
WritePart(f) == Write(f, "part", [disk[f] EXCEPT !.torn = TRUE])
Touch(f) == There(disk, f) /\ Write(f, "touch", disk[f])
Replace(f) ==
  There(disk, f) /\ Write(f, "replace", [disk[f] EXCEPT !.inode = @ + 1, !.torn = FALSE])

-----------------------------------------------------------------------------
(* A pass.  Each read of shared state is a step of its own, and so is each  *)
(* submission.                                                              *)

\* A failure stands for the revision it was recorded at.
StillUnreadable ==
  [f \in File |-> IF f \in Listed(disk) /\ unreadable[f] = disk[f].rev THEN unreadable[f]
                  ELSE Nothing]

\* A file first seen after boot is new until it had its turn.
FreshlySeen ==
  [f \in Listed(disk) |->
     [stamp |-> disk[f].rev,
      fresh |-> observed # Nothing /\ (f \in DOMAIN observed => observed[f].fresh)]]

Discover ==
  /\ pass.at = "idle"
  /\ unreadable' = StillUnreadable
  /\ pass' = [Idle EXCEPT !.at = "acks", !.disk = disk, !.seen = FreshlySeen]
  /\ UNCHANGED <<disk, writes, queue, observed, lag, folders, after, stalled, mishaps, ghosts>>

LoadAcks ==
  /\ pass.at = "acks"
  /\ pass' = [pass EXCEPT !.at = "outcomes", !.acks = ack]
  /\ UNCHANGED <<disk, writes, queue, memory, mishaps, ghosts>>

\* A session's next job is another row only once this one is done, or hopeless.
Outcome(f) ==
  LET r == row[f[1]]
  IN  IF lag[f] = Nothing THEN Nothing
      ELSE IF lag[f].job \in r.dead \/ (lag[f].job = r.id /\ r.state = "hopeless") THEN "failed"
      ELSE IF lag[f].job = r.id THEN r.state ELSE "done"

LoadOutcomes ==
  /\ pass.at = "outcomes"
  /\ pass' = [pass EXCEPT !.at = "cursors", !.outcomes = [f \in File |-> Outcome(f)]]
  /\ UNCHANGED <<disk, writes, queue, memory, mishaps, ghosts>>

FileBehind(d, c, a) ==
  /\ a = Nothing \/ a.stamp # d.rev
  /\ c = Nothing \/ d.torn \/ c # [inode |-> d.inode, lines |-> d.lines]

Eligible(f) == offsets[f] # Nothing \/ f \notin Cold \/ pass.disk[f].rev > 0

\* The sessions of a pass: in the window, and not known to name no folder.
Tracked ==
  {s \in Session : /\ \E f \in FilesOf(pass.disk, s) : Eligible(f)
                   /\ folders[s] # pass.disk[Main(s)].rev}
Looked == LET tracked == Tracked
          IN  {f \in Listed(pass.disk) : f[1] \in tracked /\ Eligible(f)}
IsBehind(f) == FileBehind(pass.disk[f], offsets[f], pass.acks[f])

\* Submitted, and neither its cursor nor an acknowledgement moved since.
Unmoved(f) ==
  LET a == pass.acks[f]
  IN  /\ IsBehind(f) /\ lag[f] # Nothing /\ lag[f].cursor = offsets[f]
      /\ a = Nothing \/ (a.newer = 0 /\ a.stamp # lag[f].stamp)

\* Mutant: a job that still waits or runs ages into a stall.
CountedWaiting(e, outcome) ==
  IF e.tries < StallPasses THEN [e EXCEPT !.tries = @ + 1] ELSE e

\* observe: a job that ended done is counted once.
Counted(e, outcome) ==
  IF outcome = "done" /\ e.last # e.job /\ e.tries < StallPasses
  THEN [e EXCEPT !.tries = @ + 1, !.last = e.job]
  ELSE e

Lagging ==
  LET looked == Looked
  IN  [f \in File |-> IF f \in looked /\ Unmoved(f) /\ pass.outcomes[f] # "failed"
                      THEN Counted(lag[f], pass.outcomes[f]) ELSE Nothing]

\* A failure acknowledges the revision it was submitted for.
FailedSince ==
  LET looked == Looked
  IN  [f \in File |-> IF f \notin looked THEN unreadable[f]
                      ELSE IF Unmoved(f) /\ pass.outcomes[f] = "failed" THEN lag[f].stamp
                      ELSE IF IsBehind(f) THEN unreadable[f] ELSE Nothing]

Wanted == LET failed == FailedSince
          IN  {f \in Looked : IsBehind(f) /\ failed[f] # pass.disk[f].rev}

SeenRead ==
  LET acked == {f \in Looked : pass.acks[f] # Nothing /\ pass.acks[f].stamp = pass.disk[f].rev}
  IN  [f \in DOMAIN pass.seen |-> [pass.seen[f] EXCEPT !.fresh = @ /\ f \notin acked]]

Weigh ==
  /\ pass.at = "cursors"
  /\ unreadable' = FailedSince
  /\ pass' = [pass EXCEPT !.at = "select", !.acks = Nothing, !.outcomes = Nothing,
                !.cursors = offsets, !.seen = SeenRead, !.lag = Lagging, !.wanted = Wanted]
  /\ UNCHANGED <<disk, writes, queue, observed, lag, folders, after, stalled, mishaps, ghosts>>

Changed(s) ==
  \E f \in FilesOf(pass.disk, s) :
    IF observed = Nothing THEN pass.cursors[f] # Nothing
    ELSE f \in DOMAIN observed /\ observed[f].stamp # pass.disk[f].rev

Tier(s) ==
  IF Changed(s) THEN 1
  ELSE IF \E f \in FilesOf(pass.disk, s) : pass.seen[f].fresh THEN 2 ELSE 3

Newest(s) ==
  LET revs == {pass.disk[f].rev : f \in FilesOf(pass.disk, s)}
  IN  CHOOSE newest \in revs : \A rev \in revs : rev <= newest

Candidates == {f[1] : f \in pass.wanted}
Backlog == {s \in Candidates : Tier(s) = 3}

\* Live before new, the newest first, then by path.
Sooner(s, t) ==
  \/ Tier(s) < Tier(t)
  \/ /\ Tier(s) = Tier(t)
     /\ Newest(s) > Newest(t) \/ (Newest(s) = Newest(t) /\ s < t)

\* The members of S in the order of R, a set of pairs.
InOrder(S, R) ==
  CHOOSE q \in [1..Cardinality(S) -> S] :
    \A i, j \in 1..Cardinality(S) : i < j => <<q[i], q[j]>> \in R

Prioritized ==
  LET live == Candidates \ Backlog
  IN  InOrder(live, {st \in live \X live : Sooner(st[1], st[2])})

\* By path from behind a, and then from the first.
Precedes(a, s, t) == IF (s > a) = (t > a) THEN s < t ELSE s > a

Rotated == InOrder(Backlog, {st \in Backlog \X Backlog : Precedes(after, st[1], st[2])})

Lesser(m, n) == IF m < n THEN m ELSE n

\* Mutant: what is live may take every slot.
EverySlot == Lesser(Len(Prioritized), Cap)

\* One slot is the backlog's while there is one.
LiveSlots == Lesser(Len(Prioritized), IF Backlog = {} THEN Cap ELSE Cap - 1)

UpTo(seq, n) == SubSeq(seq, 1, Lesser(Len(seq), n))

\* What Weigh left is local: nothing comes between the two in the code.
Select ==
  LET live == LiveSlots
      todo == UpTo(UpTo(Prioritized, live) \o Rotated, Cap)
  IN  /\ pass.at = "select"
      /\ pass' = [pass EXCEPT !.at = "submit", !.todo = todo, !.first = live,
                    !.waiting = Backlog \ Range(todo)]
      /\ UNCHANGED <<disk, writes, queue, memory, mishaps, ghosts>>

\* The rotation moves before the probe and the enqueue that may fail.
Turn(s) == after' = IF pass.first = 0 THEN s ELSE after

\* Mutant: a folder missed once is never looked for again.
ProbedOnce(s) ==
  IF folders[s] = Nothing THEN IF disk[Main(s)].lines > 0 THEN Found ELSE pass.disk[Main(s)].rev
  ELSE folders[s]

\* The first complete line names the folder; a miss is kept for the revision
\* the pass saw, which may be older than what was read.
Probed(s) ==
  IF folders[s] = Found \/ disk[Main(s)].lines > 0 THEN Found ELSE pass.disk[Main(s)].rev

HadItsTurn(s) ==
  [f \in DOMAIN pass.seen |-> IF f[1] = s THEN [pass.seen[f] EXCEPT !.fresh = FALSE]
                              ELSE pass.seen[f]]

MoveOn(s) ==
  [pass EXCEPT !.todo = Tail(@), !.first = IF @ = 0 THEN 0 ELSE @ - 1, !.seen = HadItsTurn(s)]

SkipFolderless ==
  LET s == Head(pass.todo)
  IN  /\ pass.at = "submit" /\ pass.todo # <<>> /\ Probed(s) # Found
      /\ Turn(s)
      /\ folders' = [folders EXCEPT ![s] = Probed(s)]
      /\ pass' = MoveOn(s)
      /\ UNCHANGED <<disk, writes, queue, observed, lag, unreadable, stalled, mishaps, ghosts>>

NewRow(r) ==
  [id |-> r.id + 1, state |-> "pending",
   dead |-> IF r.state = "hopeless" THEN r.dead \union {r.id} ELSE r.dead]

\* enqueue_job_id: a live or failed row is kept and a failed one revived; what
\* is done or failed for good no longer holds the key.
Enqueued(r) ==
  IF r.state \in {"done", "hopeless"} THEN NewRow(r)
  ELSE [r EXCEPT !.state = IF @ = "failed" THEN "pending" ELSE @]

\* or_insert_with, then resubmitted.
Resubmitted(f, id) ==
  LET e == pass.lag[f]
  IN  [cursor |-> IF e = Nothing THEN pass.cursors[f] ELSE e.cursor,
       stamp |-> pass.disk[f].rev,
       job |-> id,
       tries |-> IF e = Nothing THEN 0 ELSE e.tries,
       last |-> IF e = Nothing \/ e.last = id THEN 0 ELSE e.last]

Earlier(n) == IF n = 2 THEN 1 ELSE n

SubmitSession ==
  LET s == Head(pass.todo)
      wanted == {f \in pass.wanted : f[1] = s}
      new == Enqueued(row[s])
      at == run[s]
  IN  /\ pass.at = "submit" /\ pass.todo # <<>> /\ Probed(s) = Found
      /\ new.id <= MaxIds
      /\ Turn(s)
      /\ folders' = [folders EXCEPT ![s] = Found]
      /\ row' = [row EXCEPT ![s] = new]
      /\ pass' = [MoveOn(s) EXCEPT
                    !.lag = [f \in File |->
                               IF f \in wanted THEN Resubmitted(f, new.id) ELSE @[f]],
                    !.sent = @ \union wanted]
      /\ ack' = [f \in File |-> IF f \in wanted /\ ack[f] # Nothing
                                THEN [ack[f] EXCEPT !.newer = Earlier(@)] ELSE ack[f]]
      /\ run' = IF at.read # Nothing /\ Head(at.ahead) \in wanted
                THEN [run EXCEPT ![s].read.newer = Earlier(@)] ELSE run
      /\ UNCHANGED <<disk, writes, offsets, observed, lag, unreadable, stalled, mishaps, ghosts>>

\* What is retained from here on is this pass's submission.
Retained(n) == IF n = 1 THEN 0 ELSE n

RecordPass ==
  /\ pass.at = "submit" /\ pass.todo = <<>>
  /\ lag' = pass.lag
  /\ observed' = pass.seen
  /\ stalled' = \E f \in File : pass.lag[f] # Nothing /\ pass.lag[f].tries >= StallPasses
  /\ ack' = [f \in File |-> IF f \in pass.sent /\ ack[f] # Nothing
                            THEN [ack[f] EXCEPT !.newer = Retained(@)] ELSE ack[f]]
  /\ run' = [s \in Session |->
               IF run[s].read # Nothing /\ Head(run[s].ahead) \in pass.sent
               THEN [run[s] EXCEPT !.read.newer = Retained(@)] ELSE run[s]]
  /\ passed' = [s \in Session |-> IF s \in pass.waiting THEN passed[s] + 1 ELSE 0]
  /\ pass' = Idle
  /\ UNCHANGED <<disk, writes, offsets, row, unreadable, folders, after, mishaps, fruitless,
                 blame>>

\* The backlog that a pass has still to reach, behind the session it is at.
ToCome == {pass.todo[i] : i \in {j \in DOMAIN pass.todo : j > 1 /\ j > pass.first}}

\* A statement or a probe fails; the locals are lost, the rest stands.
PassFails ==
  /\ pass.at \in {"outcomes", "cursors"} \/ (pass.at = "submit" /\ pass.todo # <<>>)
  /\ Mishap("pass")
  /\ IF pass.at = "submit"
     THEN /\ Turn(Head(pass.todo))
          /\ passed' = [s \in Session |->
                          IF s \in pass.waiting \union ToCome THEN passed[s] ELSE 0]
     ELSE UNCHANGED <<after, passed>>
  /\ pass' = Idle
  /\ UNCHANGED <<disk, writes, queue, observed, lag, unreadable, folders, stalled,
                 fruitless, blame>>

-----------------------------------------------------------------------------
(* The jobs.                                                                *)

\* resolve lists the session's files anew.
ClaimJob(s) ==
  /\ row[s].state = "pending"
  /\ row' = [row EXCEPT ![s].state = "running"]
  /\ run' = [run EXCEPT ![s].ahead =
               IF s \in Mislaid THEN <<>>
               ELSE InOrder(FilesOf(disk, s), {fg \in File \X File : fg[1][2] < fg[2][2]})]
  /\ UNCHANGED <<disk, writes, offsets, ack, memory, pass, mishaps, ghosts>>

EndOf(f) == [inode |-> disk[f].inode, lines |-> disk[f].lines]

StartOf(f) ==
  IF offsets[f] = Nothing \/ offsets[f].inode # disk[f].inode \/ disk[f].lines < offsets[f].lines
  THEN 0 ELSE offsets[f].lines

ReadFile(s) ==
  LET f == Head(run[s].ahead)
  IN  /\ row[s].state = "running" /\ run[s].ahead # <<>> /\ run[s].read = Nothing
      /\ run' = [run EXCEPT ![s].read =
                   [end |-> EndOf(f), rev |-> disk[f].rev, newer |-> 2,
                    empty |-> f \in Wordless \/ StartOf(f) = disk[f].lines]]
      /\ UNCHANGED <<disk, writes, offsets, ack, row, memory, pass, mishaps, ghosts>>

\* A read of nothing is acknowledged; it moves a cursor only if there is one.
CommitFile(s) ==
  LET f == Head(run[s].ahead)
      read == run[s].read
  IN  /\ row[s].state = "running" /\ read # Nothing
      /\ offsets' = IF read.empty /\ offsets[f] = Nothing THEN offsets
                   ELSE [offsets EXCEPT ![f] = read.end]
      /\ ack' = IF read.empty THEN [ack EXCEPT ![f] = [stamp |-> read.rev, newer |-> read.newer]]
                ELSE ack
      /\ run' = [run EXCEPT ![s] = [ahead |-> Tail(run[s].ahead), read |-> Nothing,
                   moved |-> IF offsets' # offsets \/ ack' # ack THEN run[s].moved \union {f}
                             ELSE run[s].moved]]
      /\ fruitless' = IF offsets' # offsets \/ ack' # ack THEN [fruitless EXCEPT ![f] = 0]
                      ELSE fruitless
      /\ UNCHANGED <<disk, writes, row, memory, pass, mishaps, passed, blame>>

Settled(s, state) ==
  /\ row' = [row EXCEPT ![s].state = state]
  /\ run' = [run EXCEPT ![s] = NoRun]

Finish(s) ==
  /\ row[s].state = "running" /\ run[s].ahead = <<>>
  /\ Settled(s, "done")
  /\ fruitless' = [f \in File |->
       IF f[1] = s /\ f \notin run[s].moved /\ fruitless[f] < StallPasses
       THEN fruitless[f] + 1 ELSE fruitless[f]]
  /\ UNCHANGED <<disk, writes, offsets, ack, memory, pass, mishaps, passed, blame>>

\* A retryable failure before the ladder's end.
RetryJob(s) ==
  /\ row[s].state = "running" /\ Mishap("retry")
  /\ Settled(s, "pending")
  /\ UNCHANGED <<disk, writes, offsets, ack, memory, pass, ghosts>>

\* A hopeless failure, or the ladder's end, before or after the file was read.
FailJob(s) ==
  /\ row[s].state = "running" /\ Mishap("fail")
  /\ \E state \in {"failed", "hopeless"} : Settled(s, state)
  /\ blame' = [f \in File |->
       IF f[1] # s THEN blame[f]
       ELSE IF run[s].read # Nothing /\ f = Head(run[s].ahead) THEN run[s].read.rev
       ELSE disk[f].rev]
  /\ UNCHANGED <<disk, writes, offsets, ack, memory, pass, passed, fruitless>>

\* A kill and a boot: memory is lost, the running rows are revived.
Restart ==
  /\ Mishap("restart")
  /\ row' = [s \in Session |-> IF row[s].state = "running"
                               THEN [row[s] EXCEPT !.state = "pending"] ELSE row[s]]
  /\ run' = [s \in Session |-> NoRun]
  /\ ack' = Blank /\ observed' = Nothing /\ lag' = Blank /\ unreadable' = Blank
  /\ folders' = [s \in Session |-> Nothing]
  /\ after' = 0 /\ stalled' = FALSE /\ pass' = Idle
  /\ passed' = [s \in Session |-> 0]
  /\ UNCHANGED <<disk, writes, offsets, fruitless, blame>>

-----------------------------------------------------------------------------
PassStep ==
  \/ Discover \/ LoadAcks \/ LoadOutcomes \/ Weigh \/ Select
  \/ SkipFolderless \/ SubmitSession \/ RecordPass

JobStep(s) == ClaimJob(s) \/ ReadFile(s) \/ CommitFile(s) \/ Finish(s)

PollerNext ==
  \/ PassStep \/ PassFails \/ Restart
  \/ \E f \in File : WriteLine(f) \/ WritePart(f) \/ Touch(f) \/ Replace(f)
  \/ \E s \in Session : JobStep(s) \/ RetryJob(s) \/ FailJob(s)

\* The supervisor ticks for ever and the runner drains its lane (JobRunner's
\* LanesDrain).
PollerSpec ==
  /\ PollerInit /\ [][PollerNext]_pvars
  /\ WF_pvars(PassStep)
  /\ \A s \in Session : WF_pvars(JobStep(s))

-----------------------------------------------------------------------------
(* Properties.                                                              *)

\* The poller's memory as its fields allow it; an entry is always of a job
\* that was submitted.
PollerTypeOK ==
  /\ disk \in [File -> Disk] /\ writes \in 0..MaxWrites
  /\ offsets \in [File -> OrNothing(Offset)] /\ ack \in [File -> OrNothing(Ack)]
  /\ row \in [Session -> [id : 0..MaxIds, dead : SUBSET (1..MaxIds),
                         state : {"pending", "running", "done", "failed", "hopeless"}]]
  /\ \A s \in Session : /\ run[s].read \in OrNothing(Read) /\ run[s].moved \subseteq File
                        /\ row[s].state # "running" => run[s] = NoRun
  /\ observed = Nothing \/ DOMAIN observed \subseteq File
  /\ lag \in [File -> OrNothing(Entry)]
  /\ \A f \in File : lag[f] # Nothing => lag[f].job \in 1..row[f[1]].id
  /\ unreadable \in [File -> OrNothing(Nat)]
  /\ folders \in [Session -> {Nothing, Found} \union Nat]
  /\ after \in Session \union {0} /\ stalled \in BOOLEAN

\* A session that waits in the backlog is reached before the rest of the
\* backlog is reached a second time, whatever is live and whichever passes
\* fail: live sessions never take every slot, and the rotation skips none
\* (convo_poll.rs:188).
BacklogHasItsTurn ==
  \A s \in DOMAIN passed : passed[s] < Cardinality(DOMAIN passed)

\* The attempts without progress that a pass counts against a file, three of
\* which it reports as a stall.  Where the jobs never find the file, each is a
\* job in a row that ended done and moved nothing of it.  Where they do, there
\* is one, of a job that ended after the acknowledgements were read, and one
\* more for each write up to the revision the pass saw: a job may acknowledge
\* the file too late for one pass, and a write hides that from the next.  So
\* no stall is reported of a file that stands as it did at boot while jobs read
\* it; of one that changes between the passes there may be (convo_poll.rs:52).
Earned ==
  pass.at = "cursors" /\ pass'.at = "select" =>
    \A f \in DOMAIN fruitless :
      pass'.lag[f] # Nothing =>
        pass'.lag[f].tries <= IF f[1] \in Mislaid THEN fruitless[f] ELSE pass.disk[f].rev + 1

StallIsEarned == [][Earned]_pvars

\* A failure acknowledges no revision newer than the one the failed job met:
\* not bytes that came while it ran (convo_poll.rs:389).
FailureIsOfItsRevision ==
  \A f \in File : unreadable[f] # Nothing => unreadable[f] <= blame[f]

\* Nobody has said of what stands there that it was read.
NotRead(f) ==
  /\ disk[f].torn \/ offsets[f] # EndOf(f)
  /\ ack[f] = Nothing \/ ack[f].stamp # disk[f].rev
  /\ unreadable[f] # disk[f].rev

AllSettled ==
  /\ \A f \in Listed(disk) :
       NotRead(f) => \/ f[1] \in Mislaid
                     \/ disk[Main(f[1])].lines = 0
                     \/ offsets[f] = Nothing /\ f \in Cold /\ disk[f].rev = 0
  /\ \A s \in Session \ Mislaid :
       s \notin Range(pass.todo) /\ row[s].state \notin {"pending", "running"}

\* Once the harness is still, every file of a session the poller can address
\* is read to its end, acknowledged as holding nothing more, or reported
\* unreadable at the very revision that stands; and then the poller is quiet:
\* it selects no session and none has a job, so no file costs jobs for ever
\* (convo_poll.rs:682).
FilesSettle == <>[]AllSettled
=============================================================================
