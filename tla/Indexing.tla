------------------------------- MODULE Indexing -------------------------------
(***************************************************************************)
(* How the index of one root follows its files: the watcher's passes        *)
(* (crates/daemon/src/watch.rs), the full walks of add and scan (roots.rs), *)
(* the scan jobs they queue (scan.rs), the reparse after a parser bump      *)
(* (reparse.rs), removal and collection (store/src/roots.rs).  No lock      *)
(* keeps walks apart.                                                       *)
(*                                                                         *)
(* A directory holds one file, so Path names both.  A content is its own    *)
(* blob id.  The rows are those of JobStore seen from outside: a key has at *)
(* most one live row, whose payload names a blob.                           *)
(***************************************************************************)
EXTENDS Naturals, FiniteSets, Functions

LOCAL INSTANCE FiniteSetsExt

CONSTANTS
  Path,        \* the files of the root, each in a directory of its own
  First,       \* what they hold at first
  Content,     \* what a file may hold
  NoFile,      \* no file, no mapping
  Walker,      \* who may walk the root in full, each one walk at a time
  Reparser,    \* the one of them that rescans after a parser bump
  Watcher,     \* who re-lists single directories
  Nobody,      \* none of them
  MaxEdits,    \* bound on the edits
  MaxRoots,    \* bound on the registrations of the root
  MaxWalks,    \* bound on the walks that are asked for
  Budget,      \* bound on the faults and interventions of each kind
  MaxFaults    \* bound on the faults of a behaviour

FaultKind == {"crash", "upgrade", "error", "remove", "collect"}

ASSUME IndexAssumption ==
  /\ NoFile \notin Content /\ First \in [Path -> Content \union {NoFile}]
  /\ Reparser \in Walker /\ Watcher \notin Walker /\ Nobody \notin Walker \union {Watcher}
  /\ MaxEdits \in Nat /\ MaxRoots \in Nat \ {0} /\ MaxWalks \in Nat /\ MaxFaults \in Nat
  /\ Budget \in [FaultKind -> Nat]

VARIABLES
  disk,      \* the files
  root,      \* the worktrees row of the root, 0 when it is not registered
  roots,     \* how many rows the root ever had
  map,       \* worktree_files: path -> blob
  trees,     \* blob -> the content its elements were parsed from
  older,     \* blobs only an older parser parsed
  watched,   \* the worktree id the OS watcher was started for, 0 for none
  inbox,     \* directories of events the watcher thread sent
  pending,   \* directories in the debouncer
  pass,      \* the watcher's pass: what it has still to re-list
  walk,      \* the full walk each walker is on
  job,       \* the live scan_file row of each worktree and path
  task,      \* the runner's task on it
  reparsed,  \* this process has already rescanned the root
  walks, edits, spent,
  newest,    \* who took each path on last and has not mapped it yet
  lost,      \* paths whose last change nobody is going to look at
  dropped    \* a path and a blob whose scan was asked for and will not be made

daemon == <<watched, inbox, pending, pass, walk, task, reparsed>>
store == <<root, roots, map, trees, older, job>>
bounds == <<walks, edits, spent>>
ghosts == <<newest, lost, dropped>>
ivars == <<disk, store, daemon, bounds, ghosts>>

BlobOrNone == Content \union {NoFile}
RootId == 1..MaxRoots
Map == [Path -> BlobOrNone]
Nothing == [p \in Path |-> NoFile]

PassStep == {"idle", "next", "enqueue", "record"}
WalkStep == {"idle", "find", "discover", "register", "hash", "compare", "sync", "enqueue"}

NoPass == [at |-> "idle", todo |-> {}, dir |-> {}, known |-> Nothing, blob |-> NoFile]
NoWalk == [at |-> "idle", root |-> 0, new |-> FALSE, todo |-> {}, files |-> Nothing,
           known |-> Nothing, parsed |-> {}]
NoJob == [state |-> "none", blob |-> NoFile]
NoTask == [at |-> "idle", blob |-> NoFile]

Live == {"pending", "running"}

IndexInit ==
  /\ disk = First
  /\ root = 0 /\ roots = 0 /\ map = Nothing
  /\ trees = [b \in {} |-> b] /\ older = {}
  /\ watched = 0 /\ inbox = {} /\ pending = {} /\ pass = NoPass
  /\ walk = [w \in Walker |-> NoWalk]
  /\ job = [i \in RootId |-> [p \in Path |-> NoJob]]
  /\ task = [i \in RootId |-> [p \in Path |-> NoTask]]
  /\ reparsed = FALSE
  /\ walks = 0 /\ edits = 0 /\ spent = [k \in FaultKind |-> 0]
  /\ newest = [p \in Path |-> Nobody] /\ lost = Path /\ dropped = {}

Spend(kind) ==
  /\ spent[kind] < Budget[kind] /\ SumFunction(spent) < MaxFaults
  /\ spent' = [spent EXCEPT ![kind] = @ + 1]

-----------------------------------------------------------------------------
(* The files.                                                              *)

\* A write, a branch switch or a deletion.  The OS watcher, where there is
\* one, names the enclosing directory; nobody else would look.
Edit(p) ==
  /\ edits < MaxEdits
  /\ edits' = edits + 1
  /\ \E c \in BlobOrNone \ {disk[p]} : disk' = [disk EXCEPT ![p] = c]
  /\ IF watched # 0 THEN inbox' = inbox \union {p} /\ UNCHANGED lost
                    ELSE lost' = lost \union {p} /\ UNCHANGED inbox
  /\ UNCHANGED <<store, watched, pending, pass, walk, task, reparsed, walks, spent,
                 newest, dropped>>

-----------------------------------------------------------------------------
(* The queue.                                                              *)

\* A row whose task has read the old payload, or is done with it, is settled
\* by that task.
Absorbed(i, p, b) ==
  \/ task[i][p].at # "idle" /\ task[i][p].blob # b
  \/ task[i][p].at = "settle" /\ b \notin DOMAIN trees

\* The upsert: a live row takes the new payload and keeps its state.
Queue(i, p, b) ==
  LET row == job[i][p]
  IN  /\ job' = [job EXCEPT ![i][p] =
                   [state |-> IF @.state = "running" THEN "running" ELSE "pending", blob |-> b]]
      /\ dropped' = IF i # root THEN dropped ELSE
                      (dropped \ {<<p, b>>})
                      \union (IF row.blob \notin {NoFile, b} THEN {<<p, row.blob>>} ELSE {})
                      \union (IF Absorbed(i, p, b) THEN {<<p, b>>} ELSE {})

-----------------------------------------------------------------------------
(* The watcher: one task, reached only through its own pass.               *)

\* Events of a root that is not watched are dropped, and its pending
\* directories forgotten with it.
HeardOf(id) == IF id = 0 THEN {} ELSE pending \union inbox

\* diff_roots compares paths: a root registered again under another id keeps
\* the watcher, and the id, it had.
Watching == IF root = 0 THEN 0 ELSE IF watched = 0 THEN root ELSE watched

\* reconcile_roots, absorb_events and the sweep, which takes any of the
\* pending directories: which are quiet, or too old, is Debounce's.  A walk may
\* have listed a root that is about to be registered before its events were
\* dropped.
BeginPass(settled) ==
  /\ pass.at = "idle" /\ walk[Reparser].at = "idle"
  /\ settled \subseteq HeardOf(Watching)
  /\ watched' = Watching
  /\ inbox' = {} /\ pending' = HeardOf(Watching) \ settled
  /\ pass' = IF settled = {} THEN NoPass ELSE [NoPass EXCEPT !.at = "next", !.todo = settled]
  /\ lost' = IF Watching = 0 THEN lost \union inbox \union pending ELSE lost
  /\ UNCHANGED <<disk, store, walk, task, reparsed, bounds, newest, dropped>>

Known == IF watched = root THEN map ELSE Nothing

\* Who takes a path on, and answers for what it holds from now on.
TakenBy(who, paths) == [p \in Path |-> IF p \in paths THEN who ELSE newest[p]]

\* relist reads what the store knows, then hashes the file.  Under an id that is
\* not the root's it comes to nothing.
Relist(p) ==
  /\ pass.at = "next" /\ p \in pass.todo
  /\ pass' = [at |-> IF disk[p] \in {NoFile, Known[p]} THEN "record" ELSE "enqueue",
              todo |-> pass.todo \ {p}, dir |-> {p}, known |-> Known, blob |-> disk[p]]
  /\ IF watched = root
     THEN newest' = TakenBy(Watcher, {p}) /\ lost' = lost \ {p}
     ELSE lost' = lost \union {p} /\ UNCHANGED newest
  /\ UNCHANGED <<disk, store, watched, inbox, pending, walk, task, reparsed, bounds, dropped>>

RelistEnqueue(p) ==
  /\ pass.at = "enqueue" /\ pass.dir = {p}
  /\ Queue(watched, p, pass.blob)
  /\ pass' = [pass EXCEPT !.at = "record"]
  /\ UNCHANGED <<disk, root, roots, map, trees, older, watched, inbox, pending, walk, task,
                 reparsed, bounds, newest, lost>>

\* Mutant: the walked directory is all that is written back.
RewalkedOnly == [p \in Path |-> IF p \in pass.dir THEN pass.blob ELSE NoFile]

\* The whole map, with the walked directory replaced by what the walk found.
Rewalked == [p \in Path |-> IF p \in pass.dir THEN pass.blob ELSE pass.known[p]]

\* Mutant: no foreign key.
MapAcceptsAny(id) == id # 0

\* The foreign key of worktree_files refuses a map for a row that is gone.
MapAccepts(id) == id = root

\* The path is not in its hands any more.
LetGo(who) == [p \in Path |-> IF newest[p] = who THEN Nobody ELSE newest[p]]

\* sync_worktree_files replaces the whole map.  Of what the writer looked at, or
\* read from the map, a later look may have been mapped since: it is over it.
WriteMap(who, files, before) ==
  /\ map' = files
  /\ newest' = LetGo(who)
  /\ lost' = lost \union {p \in before : newest[p] = Nobody /\ files[p] # map[p]}

AfterRelist == IF pass.todo = {} THEN NoPass ELSE [NoPass EXCEPT !.at = "next", !.todo = pass.todo]

RecordWalk ==
  /\ pass.at = "record" /\ MapAccepts(watched)
  /\ WriteMap(Watcher, Rewalked, pass.dir \union {p \in Path : pass.known[p] # map[p]})
  /\ pass' = AfterRelist
  /\ UNCHANGED <<disk, root, roots, trees, older, job, watched, inbox, pending, walk, task,
                 reparsed, bounds, dropped>>

InHandOf(who) == {p \in Path : newest[p] = who}

\* The map is refused, or a statement fails: the pass ends, and what it had
\* settled is not pending any more.
PassFails ==
  /\ pass.at # "idle"
  /\ IF pass.at = "record" /\ ~MapAccepts(watched) THEN UNCHANGED spent ELSE Spend("error")
  /\ lost' = lost \union InHandOf(Watcher) \union pass.todo
  /\ newest' = LetGo(Watcher)
  /\ pass' = NoPass
  /\ UNCHANGED <<disk, store, watched, inbox, pending, walk, task, reparsed, walks, edits,
                 dropped>>

-----------------------------------------------------------------------------
(* The full walk: add, scan, a discovered worktree, a reparse.              *)

\* scan_root begins by asking whether the root is registered.
FindWorktree(w) ==
  walk' = [walk EXCEPT ![w] = [NoWalk EXCEPT !.at = "discover", !.new = root = 0]]

\* add registers what is not; scan refuses it, and is otherwise the same.
Add(w) ==
  /\ walks < MaxWalks /\ walks' = walks + 1
  /\ w # Reparser /\ walk[w].at = "idle"
  /\ FindWorktree(w)
  /\ UNCHANGED <<disk, store, watched, inbox, pending, pass, task, reparsed, edits, spent, ghosts>>

\* roots_parsed_by_an_older_parser, once per process and in the same loop as
\* the watcher's passes.
Reparse ==
  /\ pass.at = "idle" /\ walk[Reparser].at = "idle" /\ ~reparsed /\ root # 0
  /\ \E p \in Path : map[p] \in older \ DOMAIN trees
  /\ walk' = [walk EXCEPT ![Reparser].at = "find"]
  /\ reparsed' = TRUE
  /\ UNCHANGED <<disk, store, watched, inbox, pending, pass, task, bounds, ghosts>>

\* rescan_root asks whether the root is registered before scan_root does.
Rescan ==
  /\ walk[Reparser].at = "find"
  /\ \/ FindWorktree(Reparser)
     \/ root = 0 /\ walk' = [walk EXCEPT ![Reparser] = NoWalk]
  /\ UNCHANGED <<disk, store, watched, inbox, pending, pass, task, reparsed, bounds, ghosts>>

\* Which files there are is settled before any is hashed.
Discover(w) ==
  /\ walk[w].at = "discover"
  /\ walk' = [walk EXCEPT ![w].at = "register", ![w].todo = {p \in Path : disk[p] # NoFile}]
  /\ newest' = TakenBy(w, Path) /\ lost' = {}
  /\ UNCHANGED <<disk, store, watched, inbox, pending, pass, task, reparsed, bounds, dropped>>

\* The upsert: the row there is, or a new one, whatever was found before.
RegisterWorktree(w) ==
  /\ walk[w].at = "register" /\ (root = 0 => roots < MaxRoots)
  /\ root' = IF root = 0 THEN roots + 1 ELSE root
  /\ roots' = IF root = 0 THEN roots + 1 ELSE roots
  /\ walk' = [walk EXCEPT ![w].at = IF walk[w].todo = {} THEN "compare" ELSE "hash", ![w].root = root']
  /\ UNCHANGED <<disk, map, trees, older, job, watched, inbox, pending, pass, task, reparsed,
                 bounds, ghosts>>

\* The walk is of the row the root has.
Current(w) == walk[w].root = root

HashFile(w, p) ==
  /\ walk[w].at = "hash" /\ p \in walk[w].todo
  /\ walk' = [walk EXCEPT ![w].files[p] = disk[p], ![w].todo = @ \ {p},
                          ![w].at = IF walk[w].todo = {p} THEN "compare" ELSE "hash"]
  /\ IF Current(w) THEN newest' = TakenBy(w, {p}) /\ lost' = lost \ {p}
                   ELSE UNCHANGED <<newest, lost>>
  /\ UNCHANGED <<disk, store, watched, inbox, pending, pass, task, reparsed, bounds, dropped>>

\* What the store maps and what it has parsed, before the map is written.
Compare(w) ==
  /\ walk[w].at = "compare"
  /\ walk' = [walk EXCEPT ![w].at = "sync", ![w].known = IF Current(w) THEN map ELSE Nothing,
                          ![w].parsed = DOMAIN trees]
  /\ UNCHANGED <<disk, store, watched, inbox, pending, pass, task, reparsed, bounds, ghosts>>

\* Mutant: a path whose blob is mapped already is done.
NeedsScanIfChanged(w, p) ==
  /\ walk[w].files[p] # NoFile
  /\ walk[w].known[p] # walk[w].files[p]
  /\ walk[w].new => walk[w].files[p] \notin walk[w].parsed

\* needs_scan_job, for a file that carries nothing of its worktree.
NeedsScan(w, p) ==
  /\ walk[w].files[p] # NoFile
  /\ \/ walk[w].files[p] \notin walk[w].parsed
     \/ walk[w].known[p] # walk[w].files[p] /\ ~walk[w].new

Enqueuing(w, todo) ==
  [walk EXCEPT ![w] = IF todo = {} THEN NoWalk
                      ELSE [@ EXCEPT !.at = "enqueue", !.todo = todo, !.known = Nothing,
                                     !.parsed = {}]]

SyncWorktreeFiles(w) ==
  /\ walk[w].at = "sync" /\ MapAccepts(walk[w].root)
  /\ WriteMap(w, walk[w].files, Path)
  /\ walk' = Enqueuing(w, {p \in Path : NeedsScan(w, p)})
  /\ UNCHANGED <<disk, root, roots, trees, older, job, watched, inbox, pending, pass, task,
                 reparsed, bounds, dropped>>

EnqueueFile(w, p) ==
  /\ walk[w].at = "enqueue" /\ p \in walk[w].todo
  /\ Queue(walk[w].root, p, walk[w].files[p])
  /\ walk' = Enqueuing(w, walk[w].todo \ {p})
  /\ UNCHANGED <<disk, root, roots, map, trees, older, watched, inbox, pending, pass, task,
                 reparsed, bounds, newest, lost>>

\* What a walk that ends early leaves mapped, but not queued.
Unqueued(w) ==
  IF walk[w].at = "enqueue" /\ Current(w) THEN {<<p, walk[w].files[p]>> : p \in walk[w].todo}
                                          ELSE {}

\* Its caller is told.
WalkFails(w) ==
  /\ walk[w].at # "idle"
  /\ IF walk[w].at = "sync" /\ ~MapAccepts(walk[w].root) THEN UNCHANGED spent ELSE Spend("error")
  /\ lost' = lost \union InHandOf(w) /\ dropped' = dropped \union Unqueued(w)
  /\ newest' = LetGo(w)
  /\ walk' = [walk EXCEPT ![w] = NoWalk]
  /\ UNCHANGED <<disk, store, watched, inbox, pending, pass, task, reparsed, walks, edits>>

-----------------------------------------------------------------------------
(* The scan job.                                                           *)

Claim(i, p) ==
  /\ job[i][p].state = "pending" /\ task[i][p].at = "idle"
  /\ job' = [job EXCEPT ![i][p].state = "running"]
  /\ task' = [task EXCEPT ![i][p] = [at |-> "scan", blob |-> job[i][p].blob]]
  /\ UNCHANGED <<disk, root, roots, map, trees, older, watched, inbox, pending, pass, walk,
                 reparsed, bounds, ghosts>>

\* Nothing is stored for a root that is gone, a file that is gone, or a blob
\* that has been parsed; else what the file holds now, under the blob it held
\* when it was queued, and the older parse goes.  A file that is gone for just
\* now is not looked at again when it comes back as it was mapped.
Scanned(i, p) ==
  IF i # root \/ disk[p] = NoFile \/ task[i][p].blob \in DOMAIN trees THEN trees
  ELSE [b \in DOMAIN trees \union {task[i][p].blob} |->
          IF b \in DOMAIN trees THEN trees[b] ELSE disk[p]]

Scan(i, p) ==
  /\ task[i][p].at = "scan"
  /\ trees' = Scanned(i, p)
  /\ older' = older \ DOMAIN trees'
  /\ task' = [task EXCEPT ![i][p].at = "settle"]
  /\ dropped' = IF task[i][p].blob \in DOMAIN trees'
                THEN {d \in dropped : d[2] # task[i][p].blob}
                ELSE IF i # root THEN dropped ELSE dropped \union {<<p, task[i][p].blob>>}
  /\ UNCHANGED <<disk, root, roots, map, job, watched, inbox, pending, pass, walk, reparsed,
                 bounds, newest, lost>>

Settle(i, p, state) ==
  /\ job' = [job EXCEPT ![i][p] =
               IF @.state # "running" THEN @
               ELSE IF state = "none" THEN NoJob ELSE [@ EXCEPT !.state = state]]
  /\ task' = [task EXCEPT ![i][p] = NoTask]

ScanDone(i, p) ==
  /\ task[i][p].at = "settle"
  /\ Settle(i, p, "none")
  /\ UNCHANGED <<disk, root, roots, map, trees, older, watched, inbox, pending, pass, walk,
                 reparsed, bounds, ghosts>>

\* The store or the file refuses: tried again, or at the end of the ladder.
ScanFails(i, p) ==
  /\ task[i][p].at # "idle"
  /\ Spend("error")
  /\ \E state \in {"pending", "failed"} : Settle(i, p, state)
  /\ UNCHANGED <<disk, root, roots, map, trees, older, watched, inbox, pending, pass, walk,
                 reparsed, walks, edits, ghosts>>

-----------------------------------------------------------------------------
(* Removal, collection, restarts.                                          *)

\* Walks that will be of whatever row the root has by then.
Unregistered == {w \in Walker : walk[w].at = "register"}

\* remove_root: the row, its map, and its queued and running scans.
RemoveRoot ==
  /\ root # 0
  /\ Spend("remove")
  /\ root' = 0 /\ map' = Nothing /\ dropped' = {}
  /\ job' = [job EXCEPT ![root] =
               [p \in Path |-> IF @[p].state \in Live THEN NoJob ELSE @[p]]]
  /\ newest' = [p \in Path |-> IF newest[p] \in Unregistered THEN newest[p] ELSE Nobody]
  /\ lost' = lost \union {p \in Path : newest[p] \notin Unregistered}
  /\ UNCHANGED <<disk, roots, trees, older, daemon, walks, edits>>

Held == {map[p] : p \in Path}

\* In the hands of a pass, or of a walk that has asked what is parsed, and to be
\* mapped.
InHand ==
  (UNION {{<<p, walk[w].files[p]>> : p \in Path} :
            w \in {v \in Walker : walk[v].at = "sync" /\ Current(v)}})
    \union (IF pass.dir = {} THEN {} ELSE {<<p, Rewalked[p]>> : p \in Path})

\* Level 1 of collect_garbage: the parses of blobs no worktree maps.
CollectGarbage ==
  LET gone == (DOMAIN trees \union older) \ Held
  IN  /\ gone # {}
      /\ Spend("collect")
      /\ trees' = Restrict(trees, DOMAIN trees \ gone)
      /\ older' = older \ gone
      /\ dropped' = dropped \union {d \in InHand : d[2] \in gone}
      /\ UNCHANGED <<disk, root, roots, map, job, daemon, walks, edits, newest, lost>>

\* Mutant: a boot that does not sweep.
NotRequeued(row) == row

\* requeue_running, at the next boot.
Requeued(row) == IF row.state = "running" THEN [row EXCEPT !.state = "pending"] ELSE row

\* The process ends.  What the debouncer and the inbox held was in memory.
Die ==
  /\ watched' = 0 /\ inbox' = {} /\ pending' = {}
  /\ pass' = NoPass /\ walk' = [w \in Walker |-> NoWalk]
  /\ task' = [i \in RootId |-> [p \in Path |-> NoTask]]
  /\ reparsed' = FALSE
  /\ job' = [i \in RootId |-> [p \in Path |-> Requeued(job[i][p])]]
  /\ newest' = [p \in Path |-> Nobody]
  /\ lost' = {p \in Path : p \in lost \union inbox \union pending \union pass.todo \/ newest[p] # Nobody}
  /\ dropped' = dropped \union UNION {Unqueued(w) : w \in Walker}

CrashAndBoot ==
  /\ Spend("crash")
  /\ Die
  /\ UNCHANGED <<disk, root, roots, map, trees, older, walks, edits>>

\* The next process has another PARSER_VERSION.
Upgrade ==
  /\ Spend("upgrade")
  /\ Die
  /\ trees' = Restrict(trees, {}) /\ older' = older \union DOMAIN trees
  /\ UNCHANGED <<disk, root, roots, map, walks, edits>>

-----------------------------------------------------------------------------
WatcherSteps ==
  \/ \E p \in Path : Relist(p) \/ RelistEnqueue(p)
  \/ RecordWalk
  \/ pass.at = "record" /\ ~MapAccepts(watched) /\ PassFails

WalkSteps(w) ==
  \/ w = Reparser /\ Rescan
  \/ Discover(w) \/ RegisterWorktree(w) \/ Compare(w) \/ SyncWorktreeFiles(w)
  \/ \E p \in Path : HashFile(w, p) \/ EnqueueFile(w, p)
  \/ walk[w].at = "sync" /\ ~MapAccepts(walk[w].root) /\ WalkFails(w)

TaskSteps(i, p) == Claim(i, p) \/ Scan(i, p) \/ ScanDone(i, p)

IndexNext ==
  \/ \E p \in Path : Edit(p) \/ Relist(p) \/ RelistEnqueue(p)
  \/ \E settled \in SUBSET Path : BeginPass(settled)
  \/ RecordWalk \/ PassFails \/ Reparse
  \/ \E w \in Walker : Add(w) \/ WalkSteps(w) \/ WalkFails(w)
  \/ \E i \in RootId, p \in Path : TaskSteps(i, p) \/ ScanFails(i, p)
  \/ RemoveRoot \/ CollectGarbage \/ CrashAndBoot \/ Upgrade

\* The reconcile loop ticks for ever and every directory settles in the end;
\* a walk and a claimed scan run on; the general lane keeps claiming.
IndexSpec ==
  /\ IndexInit /\ [][IndexNext]_ivars
  /\ \A p \in Path : WF_ivars(\E settled \in SUBSET Path : p \in settled /\ BeginPass(settled))
  /\ WF_ivars(\E settled \in SUBSET Path : BeginPass(settled))
  /\ WF_ivars(WatcherSteps) /\ WF_ivars(Reparse) /\ \A w \in Walker : WF_ivars(WalkSteps(w))
  /\ \A i \in RootId, p \in Path : WF_ivars(TaskSteps(i, p))

-----------------------------------------------------------------------------
(* Properties.                                                              *)

IndexTypeOK ==
  /\ disk \in Map /\ map \in Map
  /\ root \in 0..MaxRoots /\ roots \in 0..MaxRoots /\ root <= roots
  /\ DOMAIN trees \subseteq Content /\ \A b \in DOMAIN trees : trees[b] \in Content
  /\ older \subseteq Content /\ older \intersect DOMAIN trees = {}
  /\ watched \in 0..MaxRoots /\ inbox \subseteq Path /\ pending \subseteq Path
  /\ pass \in [at : PassStep, todo : SUBSET Path, dir : SUBSET Path, known : Map, blob : BlobOrNone]
  /\ walk \in [Walker -> [at : WalkStep, root : 0..MaxRoots, new : BOOLEAN, todo : SUBSET Path,
                          files : Map, known : Map, parsed : SUBSET Content]]
  /\ job \in [RootId -> [Path -> [state : {"none", "failed"} \union Live, blob : BlobOrNone]]]
  /\ task \in [RootId -> [Path -> [at : {"idle", "scan", "settle"}, blob : BlobOrNone]]]
  /\ reparsed \in BOOLEAN
  /\ walks \in Nat /\ edits \in Nat /\ spent \in [FaultKind -> Nat]
  /\ newest \in [Path -> Walker \union {Watcher, Nobody}]
  /\ lost \subseteq Path /\ dropped \subseteq Path \X BlobOrNone
  /\ root = 0 => map = Nothing

\* The watcher is going to hash the file.
Noticed(p) == p \in inbox \union pending \union pass.todo

\* Who took the file on last is going to hash it, or to map what it holds.
TakenOn(p) ==
  \/ newest[p] = Watcher /\ pass.dir = {p} /\ pass.blob = disk[p]
  \/ \E w \in Walker :
       /\ newest[p] = w /\ walk[w].at \in {"register", "hash", "compare", "sync"}
       /\ p \in walk[w].todo \/ walk[w].files[p] = disk[p]

\* Whatever edits, walks, scans and collections interleave, a file that
\* differs from its mapping is about to be looked at or in the hands of who
\* looked last, unless its last change was lost in one of the ways that are
\* named where they happen.
StaleIsNoticed ==
  root # 0 => \A p \in Path \ lost : map[p] = disk[p] \/ Noticed(p) \/ TakenOn(p)

\* A scan of the blob is queued, or is being made, or is left failed for the
\* operator to see.
ScanComing(p, b) ==
  /\ job[root][p].blob = b
  /\ \/ job[root][p].state \in {"pending", "failed"}
     \/ job[root][p].state = "running" /\ task[root][p] = [at |-> "scan", blob |-> b]

\* Nothing has to be parsed, or a reparse is for it, or a scan of it is coming
\* or about to be queued: unless it was dropped in one of the ways that are
\* named where they happen.
Covered(p, b) ==
  \/ b \in DOMAIN trees \union older \union {NoFile}
  \/ <<p, b>> \in dropped
  \/ ScanComing(p, b)
  \/ \E w \in Walker :
       walk[w].at = "enqueue" /\ Current(w) /\ p \in walk[w].todo /\ walk[w].files[p] = b

\* However passes, walks, scans and collections interleave, every mapping of
\* the root is covered, at every moment and not only when the file rests.
MappedIsParsed == root # 0 => \A p \in Path : Covered(p, map[p])

\* The elements stored under a blob were parsed from the bytes it is the hash
\* of (scan.rs:12).
TreeIsItsBlob == \A b \in DOMAIN trees : trees[b] = b

\* "Re-registering the same directory reuses the watcher" (watch.rs:618): the
\* watcher of a registered root comes to serve the row it has now.
ReaddedIsFollowed == <>[](root \in {0, watched})

\* When the files rest, the index comes to describe them: every file is
\* mapped to what it holds and that has been parsed.
IndexConverges ==
  <>[](\/ root = 0
       \/ \A p \in Path :
            \/ p \in lost \/ <<p, map[p]>> \in dropped \/ job[root][p].state = "failed"
            \/ map[p] = disk[p] /\ map[p] \in DOMAIN trees \union {NoFile})
=============================================================================
