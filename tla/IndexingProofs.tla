---------------------------- MODULE IndexingProofs --------------------------
(***************************************************************************)
(* Proofs about the index of one root, for any files and contents, any     *)
(* number of walkers and of edits, walks, faults and registrations: the    *)
(* types, that a stale mapping is always about to be noticed, and that a   *)
(* mapped blob has its parse or a scan on the way.  The watcher and the    *)
(* walks each carry what they read of the disk, and of the map, to a later *)
(* write of the map; both arguments follow what they carry.                *)
(***************************************************************************)
EXTENDS Indexing, TLAPS

\* The steps, whatever is fair about them.
IndexSteps == IndexInit /\ [][IndexNext]_ivars

-----------------------------------------------------------------------------
(* The types.                                                              *)

WalkType ==
  [at : WalkStep, root : 0..MaxRoots, new : BOOLEAN, todo : SUBSET Path, files : Map, known : Map,
   parsed : SUBSET Content]
Row == [state : {"none", "failed"} \union Live, blob : BlobOrNone]
Task == [at : {"idle", "scan", "settle"}, blob : BlobOrNone]

\* The types, a variable or two at a time.
FilesTyped == disk \in Map /\ map \in Map /\ (root = 0 => map = Nothing)
RootTyped == root \in 0..MaxRoots /\ roots \in 0..MaxRoots /\ root <= roots
TreesTyped ==
  /\ DOMAIN trees \subseteq Content /\ \A b \in DOMAIN trees : trees[b] \in Content
  /\ older \subseteq Content /\ older \intersect DOMAIN trees = {}
WatchTyped == watched \in 0..MaxRoots /\ inbox \subseteq Path /\ pending \subseteq Path
PassTyped ==
  pass \in [at : PassStep, todo : SUBSET Path, dir : SUBSET Path, known : Map, blob : BlobOrNone]
WalkTyped == walk \in [Walker -> WalkType]
RowsTyped == job \in [RootId -> [Path -> Row]] /\ task \in [RootId -> [Path -> Task]]
BoundsTyped == reparsed \in BOOLEAN /\ walks \in Nat /\ edits \in Nat /\ spent \in [FaultKind -> Nat]
NewestTyped == newest \in [Path -> Walker \union {Watcher, Nobody}]
GhostsTyped == lost \subseteq Path /\ dropped \subseteq Path \X BlobOrNone

LEMMA TypeParts ==
  /\ IndexTypeOK <=> /\ FilesTyped /\ RootTyped /\ TreesTyped /\ WatchTyped /\ PassTyped
                     /\ WalkTyped /\ RowsTyped /\ BoundsTyped /\ NewestTyped /\ GhostsTyped
BY DEF IndexTypeOK, FilesTyped, RootTyped, TreesTyped, WatchTyped, PassTyped, WalkTyped, WalkType,
       Row, Task, RowsTyped, BoundsTyped, NewestTyped, GhostsTyped

LEMMA TypePartsThen ==
  /\ IndexTypeOK' <=> /\ FilesTyped' /\ RootTyped' /\ TreesTyped' /\ WatchTyped' /\ PassTyped'
                      /\ WalkTyped' /\ RowsTyped' /\ BoundsTyped' /\ NewestTyped' /\ GhostsTyped'
BY DEF IndexTypeOK, FilesTyped, RootTyped, TreesTyped, WatchTyped, PassTyped, WalkTyped, WalkType,
       Row, Task, RowsTyped, BoundsTyped, NewestTyped, GhostsTyped

\* Each part stands while its variables do.
LEMMA Frames ==
  /\ FilesTyped /\ UNCHANGED <<disk, map, root>> => FilesTyped'
  /\ RootTyped /\ UNCHANGED <<root, roots>> => RootTyped'
  /\ TreesTyped /\ UNCHANGED <<trees, older>> => TreesTyped'
  /\ WatchTyped /\ UNCHANGED <<watched, inbox, pending>> => WatchTyped'
  /\ PassTyped /\ UNCHANGED pass => PassTyped'
  /\ WalkTyped /\ UNCHANGED walk => WalkTyped'
  /\ RowsTyped /\ UNCHANGED <<job, task>> => RowsTyped'
  /\ BoundsTyped /\ UNCHANGED <<reparsed, walks, edits, spent>> => BoundsTyped'
  /\ NewestTyped /\ UNCHANGED newest => NewestTyped'
  /\ GhostsTyped /\ UNCHANGED <<lost, dropped>> => GhostsTyped'
BY DEF FilesTyped, RootTyped, TreesTyped, WatchTyped, PassTyped, WalkTyped, RowsTyped,
       BoundsTyped, NewestTyped, GhostsTyped

LEMMA NothingTyped == Nothing \in Map /\ NoFile \in BlobOrNone
BY DEF Nothing, Map, BlobOrNone

LEMMA NoWalkTyped ==
  ASSUME IndexAssumption
  PROVE  /\ NoWalk \in WalkType /\ NoWalk.at = "idle" /\ NoWalk.root = 0 /\ NoWalk.todo = {}
         /\ NoWalk.files = Nothing
BY NothingTyped DEF NoWalk, WalkType, WalkStep, IndexAssumption

\* Who answers for a path.
LEMMA TakingTyped ==
  ASSUME NewestTyped, NEW who \in Walker \union {Watcher, Nobody}, NEW paths
  PROVE  /\ TakenBy(who, paths) \in [Path -> Walker \union {Watcher, Nobody}]
         /\ \A p \in Path : TakenBy(who, paths)[p] = IF p \in paths THEN who ELSE newest[p]
BY DEF TakenBy, NewestTyped

LEMMA LettingGoTyped ==
  ASSUME NewestTyped, NEW who
  PROVE  /\ LetGo(who) \in [Path -> Walker \union {Watcher, Nobody}]
         /\ \A p \in Path : LetGo(who)[p] = IF newest[p] = who THEN Nobody ELSE newest[p]
BY DEF LetGo, NewestTyped

-----------------------------------------------------------------------------
(* The steps of a walk, field by field.                                    *)

OnlyWalk(w) == \A v \in Walker \ {w} : walk'[v] = walk[v]

LEMMA WalkStepIs ==
  ASSUME WalkTyped, NEW w \in Walker, NEW v \in WalkType, walk' = [walk EXCEPT ![w] = v]
  PROVE  WalkTyped' /\ OnlyWalk(w) /\ walk'[w] = v
BY DEF WalkTyped, OnlyWalk

LEMMA FindIs ==
  ASSUME IndexAssumption, WalkTyped, NEW w \in Walker, FindWorktree(w)
  PROVE  /\ WalkTyped' /\ OnlyWalk(w)
         /\ walk'[w].at = "discover" /\ walk'[w].root = 0 /\ walk'[w].todo = {}
         /\ walk'[w].files = Nothing
<1> DEFINE n == root = 0
           v == [NoWalk EXCEPT !.at = "discover", !.new = n]
<1>1. n \in BOOLEAN
  OBVIOUS
<1>2. walk' = [walk EXCEPT ![w] = v]
  BY DEF FindWorktree
<1> HIDE DEF n
<1>3. /\ v \in WalkType /\ v.at = "discover" /\ v.root = 0 /\ v.todo = {} /\ v.files = Nothing
  BY <1>1, NoWalkTyped, NothingTyped DEF NoWalk, WalkType, WalkStep
<1> HIDE DEF v
<1> QED
  BY <1>2, <1>3, WalkStepIs

LEMMA EndsIs ==
  ASSUME IndexAssumption, WalkTyped, NEW w \in Walker, walk' = [walk EXCEPT ![w] = NoWalk]
  PROVE  /\ WalkTyped' /\ OnlyWalk(w) /\ walk'[w].at = "idle" /\ walk'[w].root = 0
         /\ walk'[w].todo = {}
BY WalkStepIs, NoWalkTyped

LEMMA RescanIs ==
  ASSUME IndexAssumption, WalkTyped, Rescan
  PROVE  /\ Reparser \in Walker /\ walk[Reparser].at = "find" /\ WalkTyped' /\ OnlyWalk(Reparser)
         /\ walk'[Reparser].at \in {"idle", "discover"} /\ walk'[Reparser].root = 0
         /\ walk'[Reparser].at = "discover" => walk'[Reparser].files = Nothing
<1>1. Reparser \in Walker
  BY DEF IndexAssumption
<1>2. CASE FindWorktree(Reparser)
  BY <1>1, <1>2, FindIs DEF Rescan
<1>3. CASE walk' = [walk EXCEPT ![Reparser] = NoWalk]
  BY <1>1, <1>3, EndsIs DEF Rescan
<1> QED
  BY <1>2, <1>3 DEF Rescan

LEMMA ReparseIs ==
  ASSUME IndexAssumption, WalkTyped, Reparse
  PROVE  /\ Reparser \in Walker /\ walk[Reparser].at = "idle" /\ WalkTyped' /\ OnlyWalk(Reparser)
         /\ walk'[Reparser].at = "find" /\ walk'[Reparser].root = walk[Reparser].root
<1>1. Reparser \in Walker
  BY DEF IndexAssumption
<1> QED
  BY <1>1 DEF Reparse, WalkTyped, WalkType, WalkStep, OnlyWalk

LEMMA DiscoverIs ==
  ASSUME WalkTyped, NEW w \in Walker, Discover(w)
  PROVE  /\ walk[w].at = "discover" /\ WalkTyped' /\ OnlyWalk(w)
         /\ walk'[w].at = "register" /\ walk'[w].todo = {p \in Path : disk[p] # NoFile}
         /\ walk'[w].root = walk[w].root /\ walk'[w].files = walk[w].files
<1> DEFINE todo == {p \in Path : disk[p] # NoFile}
           v == [walk[w] EXCEPT !.at = "register", !.todo = todo]
<1>1. walk[w].at = "discover" /\ walk' = [walk EXCEPT ![w] = v] /\ todo \in SUBSET Path
  BY DEF Discover, WalkTyped
<1> HIDE DEF todo
<1>2. /\ v \in WalkType /\ v.at = "register" /\ v.todo = todo /\ v.root = walk[w].root
      /\ v.files = walk[w].files
  BY <1>1 DEF WalkTyped, WalkType, WalkStep
<1> HIDE DEF v
<1> QED
  BY <1>1, <1>2, WalkStepIs DEF todo

LEMMA RegisterIs ==
  ASSUME IndexAssumption, RootTyped, WalkTyped, NEW w \in Walker, RegisterWorktree(w)
  PROVE  /\ walk[w].at = "register" /\ WalkTyped' /\ OnlyWalk(w) /\ RootTyped'
         /\ root' = IF root = 0 THEN roots + 1 ELSE root
         /\ roots' = IF root = 0 THEN roots + 1 ELSE roots
         /\ root' # 0
         /\ walk'[w].at = IF walk[w].todo = {} THEN "compare" ELSE "hash"
         /\ walk'[w].todo = walk[w].todo /\ walk'[w].root = root'
         /\ walk'[w].files = walk[w].files
<1> DEFINE r == IF root = 0 THEN roots + 1 ELSE root
           place == IF walk[w].todo = {} THEN "compare" ELSE "hash"
           v == [walk[w] EXCEPT !.at = place, !.root = r]
<1>1. /\ root' = r /\ roots' = (IF root = 0 THEN roots + 1 ELSE roots)
      /\ root = 0 => roots < MaxRoots
  BY DEF RegisterWorktree
<1>2. r \in 0..MaxRoots /\ r # 0 /\ RootTyped' /\ place \in WalkStep
  BY <1>1 DEF RootTyped, IndexAssumption, WalkStep
<1>3. walk[w].at = "register" /\ walk' = [walk EXCEPT ![w] = v]
  BY <1>1 DEF RegisterWorktree, WalkTyped
<1> HIDE DEF r, place
<1>4. /\ v \in WalkType /\ v.at = place /\ v.todo = walk[w].todo /\ v.root = r
      /\ v.files = walk[w].files
  BY <1>2 DEF WalkTyped, WalkType
<1> HIDE DEF v
<1> QED
  BY <1>1, <1>2, <1>3, <1>4, WalkStepIs DEF r, place

LEMMA HashFileIs ==
  ASSUME WalkTyped, FilesTyped, NEW w \in Walker, NEW p \in Path, HashFile(w, p)
  PROVE  /\ walk[w].at = "hash" /\ p \in walk[w].todo /\ WalkTyped' /\ OnlyWalk(w)
         /\ walk'[w].at \in {"compare", "hash"}
         /\ walk'[w].at = "compare" => walk'[w].todo = {}
         /\ walk'[w].todo = walk[w].todo \ {p} /\ walk'[w].root = walk[w].root
         /\ walk'[w].files[p] = disk[p]
         /\ \A q \in Path \ {p} : walk'[w].files[q] = walk[w].files[q]
<1> DEFINE files == [walk[w].files EXCEPT ![p] = disk[p]]
           place == IF walk[w].todo = {p} THEN "compare" ELSE "hash"
           v == [walk[w] EXCEPT !.files = files, !.todo = walk[w].todo \ {p}, !.at = place]
<1>1. /\ walk[w].at = "hash" /\ p \in walk[w].todo
      /\ walk' = [walk EXCEPT ![w].files[p] = disk[p], ![w].todo = @ \ {p}, ![w].at = place]
  BY DEF HashFile
<1>2. walk[w] \in WalkType /\ disk[p] \in BlobOrNone
  BY DEF WalkTyped, FilesTyped, Map
<1>3. walk' = [walk EXCEPT ![w] = v]
  BY <1>1, <1>2 DEF WalkTyped, WalkType
<1>4. /\ files \in Map /\ files[p] = disk[p]
      /\ \A q \in Path \ {p} : files[q] = walk[w].files[q]
  BY <1>2 DEF WalkType, Map
<1>5. place \in {"compare", "hash"} /\ (place = "compare" => walk[w].todo \ {p} = {})
  OBVIOUS
<1> HIDE DEF files, place
<1>6. /\ v \in WalkType /\ v.at = place /\ v.todo = walk[w].todo \ {p} /\ v.root = walk[w].root
      /\ v.files = files
  BY <1>2, <1>4, <1>5 DEF WalkType, WalkStep
<1> HIDE DEF v
<1> QED
  BY <1>1, <1>3, <1>4, <1>5, <1>6, WalkStepIs

LEMMA CompareIs ==
  ASSUME WalkTyped, FilesTyped, TreesTyped, NEW w \in Walker, Compare(w)
  PROVE  /\ walk[w].at = "compare" /\ WalkTyped' /\ OnlyWalk(w)
         /\ walk'[w].at = "sync" /\ walk'[w].todo = walk[w].todo /\ walk'[w].root = walk[w].root
         /\ walk'[w].files = walk[w].files /\ walk'[w].parsed = DOMAIN trees
<1> DEFINE known == IF Current(w) THEN map ELSE Nothing
           v == [walk[w] EXCEPT !.at = "sync", !.known = known, !.parsed = DOMAIN trees]
<1>1. walk[w].at = "compare" /\ walk' = [walk EXCEPT ![w] = v]
  BY DEF Compare, WalkTyped
<1>2. known \in Map /\ DOMAIN trees \in SUBSET Content
  BY NothingTyped DEF FilesTyped, TreesTyped
<1> HIDE DEF known
<1>3. /\ v \in WalkType /\ v.at = "sync" /\ v.todo = walk[w].todo /\ v.root = walk[w].root
      /\ v.files = walk[w].files /\ v.parsed = DOMAIN trees
  BY <1>2 DEF WalkTyped, WalkType, WalkStep
<1> HIDE DEF v
<1> QED
  BY <1>1, <1>3, WalkStepIs

LEMMA EnqueuingIs ==
  ASSUME IndexAssumption, WalkTyped, NEW w \in Walker, NEW todo \in SUBSET Path,
         walk' = Enqueuing(w, todo)
  PROVE  /\ WalkTyped' /\ OnlyWalk(w)
         /\ IF todo = {} THEN walk'[w].at = "idle" /\ walk'[w].root = 0 /\ walk'[w].todo = {}
                         ELSE walk'[w].at = "enqueue" /\ walk'[w].root = walk[w].root
         /\ walk'[w].todo = todo
         /\ todo # {} => walk'[w].files = walk[w].files
<1>1. CASE todo = {}
  BY <1>1, EndsIs DEF Enqueuing
<1>2. CASE todo # {}
  <2> DEFINE v == [walk[w] EXCEPT !.at = "enqueue", !.todo = todo, !.known = Nothing, !.parsed = {}]
  <2>1. walk' = [walk EXCEPT ![w] = v]
    BY <1>2 DEF Enqueuing
  <2>2. /\ v \in WalkType /\ v.at = "enqueue" /\ v.todo = todo /\ v.root = walk[w].root
        /\ v.files = walk[w].files
    BY NothingTyped DEF WalkTyped, WalkType, WalkStep
  <2> HIDE DEF v
  <2> QED
    BY <1>2, <2>1, <2>2, WalkStepIs
<1> QED
  BY <1>1, <1>2

-----------------------------------------------------------------------------
(* The books: which row is of which registration, which task of which row, *)
(* and what a pass and a walk hold at each of their places.                *)

\* Registrations are numbered upwards: nobody knows a number before its turn,
\* so a root that is registered again begins with no rows and no tasks.
Numbered ==
  /\ root \in {0, roots} /\ watched <= roots
  /\ \A w \in Walker : walk[w].root <= roots
  /\ \A i \in RootId, p \in Path : i > roots => job[i][p] = NoJob /\ task[i][p] = NoTask

\* A row of the root is running exactly while a task is on it.
RowsAndTasks ==
  root # 0 => \A p \in Path : job[root][p].state = "running" <=> task[root][p].at # "idle"

\* What rows and tasks name is a file's content, never its absence.
BlobsNamed ==
  \A i \in RootId, p \in Path :
    /\ job[i][p].state # "none" => job[i][p].blob # NoFile
    /\ task[i][p].at # "idle" => task[i][p].blob # NoFile

\* A pass runs under a watcher, and holds a directory while it is to queue or to
\* record what it holds.
PassHolds ==
  /\ pass.at # "idle" => watched # 0
  /\ pass.at = "idle" => pass.todo = {}
  /\ pass.at \in {"idle", "next"} => pass.dir = {}
  /\ pass.at \in {"enqueue", "record"} => \E p \in Path : pass.dir = {p}
  /\ pass.at = "enqueue" => pass.blob # NoFile

\* What a walk holds at each place.
WalkHolds(w) ==
  /\ walk[w].at \in {"hash", "compare", "sync", "enqueue"} => walk[w].root # 0
  /\ walk[w].at = "discover" => walk[w].files = Nothing
  /\ walk[w].at \in {"compare", "sync"} => walk[w].todo = {}
  /\ walk[w].at = "enqueue" => \A p \in walk[w].todo : walk[w].files[p] # NoFile

WalksHold == \A w \in Walker : WalkHolds(w)

Books == Numbered /\ RowsAndTasks /\ BlobsNamed /\ PassHolds /\ WalksHold

-----------------------------------------------------------------------------
(* The types stand.                                                        *)

LEMMA InitTyped == ASSUME IndexAssumption, IndexInit PROVE IndexTypeOK
<1>1. FilesTyped
  BY NothingTyped DEF IndexInit, IndexAssumption, FilesTyped, Map, BlobOrNone
<1>2. RootTyped /\ WatchTyped /\ GhostsTyped /\ NewestTyped
  BY DEF IndexInit, IndexAssumption, RootTyped, WatchTyped, GhostsTyped, NewestTyped
<1>3. BoundsTyped
  BY DEF IndexInit, BoundsTyped
<1>4. TreesTyped
  BY DEF IndexInit, TreesTyped
<1>5. PassTyped
  BY NothingTyped DEF IndexInit, PassTyped, NoPass, PassStep
<1>6. WalkTyped
  BY NoWalkTyped DEF IndexInit, WalkTyped
<1>7. RowsTyped
  BY NothingTyped DEF IndexInit, RowsTyped, Row, Task, NoJob, NoTask, Live
<1> QED
  BY <1>1, <1>2, <1>3, <1>4, <1>5, <1>6, <1>7, TypeParts

LEMMA SpentTyped ==
  ASSUME BoundsTyped, NEW kind \in FaultKind, Spend(kind)
  PROVE  spent' \in [FaultKind -> Nat]
BY DEF BoundsTyped, Spend

LEMMA SpendTyped ==
  ASSUME BoundsTyped, NEW kind \in FaultKind, Spend(kind), UNCHANGED <<reparsed, walks, edits>>
  PROVE  BoundsTyped'
BY SpentTyped DEF BoundsTyped

LEMMA EditTyped == ASSUME IndexTypeOK, NEW p \in Path, Edit(p) PROVE IndexTypeOK'
<1>1. PICK c \in BlobOrNone : disk' = [disk EXCEPT ![p] = c]
  BY DEF Edit
<1>2. FilesTyped'
  BY <1>1, TypeParts DEF Edit, store, FilesTyped, Map
<1>3. WatchTyped' /\ GhostsTyped'
  BY TypeParts DEF Edit, WatchTyped, GhostsTyped
<1>4. BoundsTyped'
  BY TypeParts DEF Edit, BoundsTyped
<1>5. UNCHANGED <<root, roots, trees, older, pass, walk, job, task, newest>>
  BY DEF Edit, store
<1> QED
  BY <1>2, <1>3, <1>4, <1>5, TypeParts, TypePartsThen, Frames

\* What a pass leaves alone.
LEMMA PassTypes ==
  ASSUME IndexTypeOK, WatchTyped', PassTyped', NewestTyped', lost' \subseteq Path,
         UNCHANGED <<disk, store, walk, task, reparsed, walks, edits, spent, dropped>>
  PROVE  IndexTypeOK'
<1>1. UNCHANGED <<disk, map, root, roots, trees, older, walk, job, task, reparsed, walks, edits,
                  spent, dropped>>
  BY DEF store
<1>2. GhostsTyped'
  BY <1>1, TypeParts DEF GhostsTyped
<1> QED
  BY <1>1, <1>2, TypeParts, TypePartsThen, Frames

LEMMA BeginPassTyped ==
  ASSUME IndexTypeOK, NEW settled \in SUBSET Path, BeginPass(settled)
  PROVE  IndexTypeOK'
<1>1. /\ watched' = Watching /\ inbox' = {} /\ pending' = HeardOf(Watching) \ settled
      /\ pass' = IF settled = {} THEN NoPass ELSE [NoPass EXCEPT !.at = "next", !.todo = settled]
      /\ lost' = IF Watching = 0 THEN lost \union inbox \union pending ELSE lost
      /\ UNCHANGED <<disk, store, walk, task, reparsed, walks, edits, spent, dropped, newest>>
  BY DEF BeginPass, bounds
<1>2. WatchTyped /\ RootTyped /\ GhostsTyped
  BY TypeParts
<1>3. WatchTyped' /\ lost' \subseteq Path
  BY <1>1, <1>2 DEF WatchTyped, RootTyped, GhostsTyped, Watching, HeardOf
<1>4. PassTyped'
  BY <1>1, NothingTyped DEF PassTyped, NoPass, PassStep
<1>5. NewestTyped'
  BY <1>1, TypeParts DEF NewestTyped
<1> QED
  BY <1>1, <1>3, <1>4, <1>5, PassTypes

LEMMA RelistIs ==
  ASSUME PassTyped, FilesTyped, NEW p \in Path, Relist(p)
  PROVE  /\ PassTyped' /\ pass.at = "next" /\ p \in pass.todo
         /\ pass'.at = IF disk[p] \in {NoFile, Known[p]} THEN "record" ELSE "enqueue"
         /\ pass'.todo = pass.todo \ {p} /\ pass'.dir = {p}
         /\ pass'.known = Known /\ pass'.blob = disk[p]
<1>1. Known \in Map /\ disk[p] \in BlobOrNone
  BY NothingTyped DEF Known, FilesTyped, Map
<1>2. pass' = [at |-> IF disk[p] \in {NoFile, Known[p]} THEN "record" ELSE "enqueue",
               todo |-> pass.todo \ {p}, dir |-> {p}, known |-> Known, blob |-> disk[p]]
  BY DEF Relist
<1> QED
  BY <1>1, <1>2 DEF Relist, PassTyped, PassStep

LEMMA RelistTyped == ASSUME IndexTypeOK, NEW p \in Path, Relist(p) PROVE IndexTypeOK'
<1>1. WatchTyped /\ PassTyped /\ FilesTyped /\ GhostsTyped /\ NewestTyped
  BY TypeParts
<1>2. PassTyped'
  BY <1>1, RelistIs
<1>3. WatchTyped' /\ lost' \subseteq Path
  BY <1>1 DEF Relist, WatchTyped, GhostsTyped
<1>4. NewestTyped'
  BY <1>1, TakingTyped DEF Relist, NewestTyped
<1> QED
  BY <1>2, <1>3, <1>4, PassTypes DEF Relist, bounds

LEMMA AfterRelistIs ==
  ASSUME PassTyped, pass' = AfterRelist
  PROVE  /\ PassTyped'
         /\ pass'.todo = pass.todo /\ pass'.dir = {} /\ pass'.at \in {"idle", "next"}
         /\ pass'.at = "idle" => pass'.todo = {}
<1>1. CASE pass.todo = {}
  BY <1>1, NothingTyped DEF AfterRelist, NoPass, PassTyped, PassStep
<1>2. CASE pass.todo # {}
  BY <1>2, NothingTyped DEF AfterRelist, NoPass, PassTyped, PassStep
<1> QED
  BY <1>1, <1>2

\* What writing the map does.
LEMMA WriteMapIs ==
  ASSUME NewestTyped, GhostsTyped, NEW who, NEW files \in Map, NEW before \in SUBSET Path,
         WriteMap(who, files, before), UNCHANGED <<disk, dropped, root>>, disk \in Map, root # 0
  PROVE  FilesTyped' /\ NewestTyped' /\ GhostsTyped'
<1>1. NewestTyped'
  BY LettingGoTyped DEF WriteMap, NewestTyped
<1>2. FilesTyped' /\ GhostsTyped'
  BY DEF WriteMap, FilesTyped, GhostsTyped
<1> QED
  BY <1>1, <1>2

LEMMA RecordWalkTyped == ASSUME IndexTypeOK, Books, RecordWalk PROVE IndexTypeOK'
<1> DEFINE before == pass.dir \union {p \in Path : pass.known[p] # map[p]}
<1>1. /\ pass.at = "record" /\ watched = root /\ WriteMap(Watcher, Rewalked, before)
      /\ pass' = AfterRelist
      /\ UNCHANGED <<disk, root, roots, trees, older, job, watched, inbox, pending, walk, task,
                     reparsed, walks, edits, spent, dropped>>
  BY DEF RecordWalk, MapAccepts, bounds
<1>2. PassTyped /\ FilesTyped /\ GhostsTyped /\ NewestTyped
  BY TypeParts
<1>3. Rewalked \in Map /\ before \in SUBSET Path
  BY <1>2 DEF Rewalked, PassTyped, FilesTyped, Map
<1>4. root # 0
  BY <1>1 DEF Books, PassHolds
<1> HIDE DEF before
<1>5. FilesTyped' /\ NewestTyped' /\ GhostsTyped'
  BY <1>1, <1>2, <1>3, <1>4, WriteMapIs DEF FilesTyped
<1>6. PassTyped'
  BY <1>1, <1>2, AfterRelistIs
<1> QED
  BY <1>1, <1>5, <1>6, TypeParts, TypePartsThen, Frames

LEMMA PassFailsTyped == ASSUME IndexTypeOK, PassFails PROVE IndexTypeOK'
<1>1. /\ lost' = lost \union InHandOf(Watcher) \union pass.todo /\ pass' = NoPass
      /\ newest' = LetGo(Watcher)
      /\ UNCHANGED <<disk, map, root, roots, trees, older, job, watched, inbox, pending, walk,
                     task, reparsed, walks, edits, dropped>>
      /\ UNCHANGED spent \/ Spend("error")
  BY DEF PassFails, store
<1>2. PassTyped /\ GhostsTyped /\ BoundsTyped /\ NewestTyped
  BY TypeParts
<1>3. PassTyped' /\ GhostsTyped'
  BY <1>1, <1>2, NothingTyped DEF PassTyped, GhostsTyped, NoPass, PassStep, InHandOf
<1>4. BoundsTyped'
  BY <1>1, <1>2, SpendTyped, Frames DEF FaultKind
<1>5. NewestTyped'
  BY <1>1, <1>2, LettingGoTyped DEF NewestTyped
<1> QED
  BY <1>1, <1>3, <1>4, <1>5, TypeParts, TypePartsThen, Frames

\* What a walk leaves alone.
LEMMA WalkTypes ==
  ASSUME IndexTypeOK, WalkTyped', GhostsTyped', FilesTyped', NewestTyped',
         UNCHANGED <<root, roots, trees, older, job, watched, inbox, pending, pass, task, reparsed,
                     walks, edits, spent>>
  PROVE  IndexTypeOK'
BY TypeParts, TypePartsThen, Frames

LEMMA AddTyped == ASSUME IndexAssumption, IndexTypeOK, NEW w \in Walker, Add(w) PROVE IndexTypeOK'
<1>1. /\ walks' = walks + 1
      /\ UNCHANGED <<disk, root, roots, map, trees, older, job, watched, inbox, pending, pass,
                     task, reparsed, edits, spent, newest, lost, dropped>>
  BY DEF Add, store, ghosts
<1>2. WalkTyped'
  BY FindIs, TypeParts DEF Add
<1>3. BoundsTyped'
  BY <1>1, TypeParts DEF BoundsTyped
<1> QED
  BY <1>1, <1>2, <1>3, TypeParts, TypePartsThen, Frames

LEMMA ReparseTyped == ASSUME IndexAssumption, IndexTypeOK, Reparse PROVE IndexTypeOK'
<1>1. /\ reparsed' = TRUE
      /\ UNCHANGED <<disk, map, root, roots, trees, older, job, watched, inbox, pending, pass,
                     task, walks, edits, spent, newest, lost, dropped>>
  BY DEF Reparse, store, bounds, ghosts
<1>2. WalkTyped'
  BY ReparseIs, TypeParts
<1>3. BoundsTyped'
  BY <1>1, TypeParts DEF BoundsTyped
<1> QED
  BY <1>1, <1>2, <1>3, TypeParts, TypePartsThen, Frames

LEMMA RescanTyped == ASSUME IndexAssumption, IndexTypeOK, Rescan PROVE IndexTypeOK'
<1>1. WalkTyped'
  BY RescanIs, TypeParts
<1>2. FilesTyped' /\ GhostsTyped' /\ NewestTyped'
  BY TypeParts, Frames DEF Rescan, store, ghosts
<1> QED
  BY <1>1, <1>2, WalkTypes DEF Rescan, store, bounds

LEMMA DiscoverTyped ==
  ASSUME IndexTypeOK, NEW w \in Walker, Discover(w)
  PROVE  IndexTypeOK'
<1>1. WalkTyped'
  BY DiscoverIs, TypeParts
<1>2. FilesTyped' /\ GhostsTyped'
  BY TypeParts DEF Discover, store, FilesTyped, GhostsTyped
<1>3. NewestTyped'
  BY TypeParts, TakingTyped DEF Discover, NewestTyped
<1> QED
  BY <1>1, <1>2, <1>3, WalkTypes DEF Discover, store, bounds

LEMMA RegisterTyped ==
  ASSUME IndexAssumption, IndexTypeOK, NEW w \in Walker, RegisterWorktree(w)
  PROVE  IndexTypeOK'
<1>1. WalkTyped' /\ RootTyped' /\ root' # 0
  BY RegisterIs, TypeParts
<1>2. UNCHANGED <<disk, map, trees, older, job, watched, inbox, pending, pass, task, reparsed,
                  walks, edits, spent, newest, lost, dropped>>
  BY DEF RegisterWorktree, bounds, ghosts
<1>3. FilesTyped'
  BY <1>1, <1>2, TypeParts DEF FilesTyped
<1> QED
  BY <1>1, <1>2, <1>3, TypeParts, TypePartsThen, Frames

LEMMA HashFileTyped ==
  ASSUME IndexTypeOK, NEW w \in Walker, NEW p \in Path, HashFile(w, p)
  PROVE  IndexTypeOK'
<1>1. WalkTyped'
  BY HashFileIs, TypeParts
<1>2. FilesTyped' /\ GhostsTyped'
  BY TypeParts DEF HashFile, store, FilesTyped, GhostsTyped
<1>3. NewestTyped'
  BY TypeParts, TakingTyped DEF HashFile, NewestTyped
<1> QED
  BY <1>1, <1>2, <1>3, WalkTypes DEF HashFile, store, bounds

LEMMA CompareTyped == ASSUME IndexTypeOK, NEW w \in Walker, Compare(w) PROVE IndexTypeOK'
<1>1. WalkTyped'
  BY CompareIs, TypeParts
<1>2. FilesTyped' /\ GhostsTyped' /\ NewestTyped'
  BY TypeParts, Frames DEF Compare, store, ghosts
<1> QED
  BY <1>1, <1>2, WalkTypes DEF Compare, store, bounds

LEMMA SyncTyped ==
  ASSUME IndexAssumption, IndexTypeOK, Books, NEW w \in Walker, SyncWorktreeFiles(w)
  PROVE  IndexTypeOK'
<1>1. WalkTyped /\ FilesTyped /\ GhostsTyped /\ RootTyped /\ NewestTyped
  BY TypeParts
<1>2. WalkTyped'
  BY <1>1, EnqueuingIs DEF SyncWorktreeFiles
<1>3. root # 0 /\ walk[w].files \in Map
  BY <1>1 DEF SyncWorktreeFiles, Books, WalksHold, WalkHolds, MapAccepts, WalkTyped, WalkType
<1>4. FilesTyped' /\ NewestTyped' /\ GhostsTyped'
  BY <1>1, <1>3, WriteMapIs DEF SyncWorktreeFiles, FilesTyped
<1> QED
  BY <1>2, <1>4, WalkTypes DEF SyncWorktreeFiles, bounds

LEMMA RowTyped ==
  ASSUME RowsTyped, NEW i \in RootId, NEW p \in Path
  PROVE  job[i][p] \in Row /\ task[i][p] \in Task
BY DEF RowsTyped

LEMMA QueueTyped ==
  ASSUME RowsTyped, GhostsTyped, NEW i \in RootId, NEW p \in Path, NEW b \in BlobOrNone,
         Queue(i, p, b), UNCHANGED <<task, lost>>
  PROVE  RowsTyped' /\ GhostsTyped'
<1>1. job[i][p] \in Row
  BY RowTyped
<1>2. job' = [job EXCEPT ![i] = [job[i] EXCEPT ![p] =
               [state |-> IF job[i][p].state = "running" THEN "running" ELSE "pending",
                blob |-> b]]]
  BY DEF Queue
<1>3. RowsTyped'
  BY <1>2 DEF RowsTyped, Row, Live
<1>4. GhostsTyped'
  BY <1>1 DEF Queue, GhostsTyped, Row
<1> QED
  BY <1>3, <1>4

LEMMA RelistEnqueueIs ==
  ASSUME PassTyped, NEW p \in Path, RelistEnqueue(p)
  PROVE  /\ PassTyped' /\ pass.at = "enqueue" /\ pass'.at = "record" /\ pass.dir = {p}
         /\ pass'.todo = pass.todo /\ pass'.dir = pass.dir
         /\ pass'.known = pass.known /\ pass'.blob = pass.blob
BY DEF RelistEnqueue, PassTyped, PassStep

LEMMA RelistEnqueueTyped ==
  ASSUME IndexTypeOK, Books, NEW p \in Path, RelistEnqueue(p)
  PROVE  IndexTypeOK'
<1>1. RowsTyped /\ GhostsTyped /\ PassTyped /\ WatchTyped
  BY TypeParts
<1>2. watched \in RootId /\ pass.blob \in BlobOrNone
  BY <1>1 DEF RelistEnqueue, Books, PassHolds, WatchTyped, RootId, PassTyped
<1>3. RowsTyped' /\ GhostsTyped'
  BY <1>1, <1>2, QueueTyped DEF RelistEnqueue
<1>4. PassTyped'
  BY <1>1, RelistEnqueueIs
<1>5. UNCHANGED <<disk, root, roots, map, trees, older, watched, inbox, pending, walk, reparsed,
                  walks, edits, spent, newest>>
  BY DEF RelistEnqueue, bounds
<1> QED
  BY <1>3, <1>4, <1>5, TypeParts, TypePartsThen, Frames

LEMMA EnqueueFileTyped ==
  ASSUME IndexAssumption, IndexTypeOK, Books, NEW w \in Walker, NEW p \in Path, EnqueueFile(w, p)
  PROVE  IndexTypeOK'
<1>1. RowsTyped /\ GhostsTyped /\ WalkTyped /\ RootTyped
  BY TypeParts
<1>2. walk[w].root \in RootId /\ walk[w].files[p] \in BlobOrNone
  BY <1>1 DEF EnqueueFile, Books, WalksHold, WalkHolds, RootId, WalkTyped, WalkType, Map
<1>3. RowsTyped' /\ GhostsTyped'
  BY <1>1, <1>2, QueueTyped DEF EnqueueFile
<1>4. walk' = Enqueuing(w, walk[w].todo \ {p}) /\ walk[w].todo \ {p} \in SUBSET Path
  BY <1>1 DEF EnqueueFile, WalkTyped, WalkType
<1>5. WalkTyped'
  BY <1>1, <1>4, EnqueuingIs
<1>6. UNCHANGED <<disk, root, roots, map, trees, older, watched, inbox, pending, pass, reparsed,
                  walks, edits, spent, newest>>
  BY DEF EnqueueFile, bounds
<1> QED
  BY <1>3, <1>5, <1>6, TypeParts, TypePartsThen, Frames

LEMMA UnqueuedTyped ==
  ASSUME WalkTyped, NEW w \in Walker
  PROVE  Unqueued(w) \subseteq Path \X BlobOrNone
<1>1. \A p \in walk[w].todo : p \in Path /\ walk[w].files[p] \in BlobOrNone
  BY DEF WalkTyped, WalkType, Map
<1> QED
  BY <1>1 DEF Unqueued

LEMMA WalkFailsTyped ==
  ASSUME IndexAssumption, IndexTypeOK, NEW w \in Walker, WalkFails(w)
  PROVE  IndexTypeOK'
<1>1. /\ lost' = lost \union InHandOf(w) /\ dropped' = dropped \union Unqueued(w)
      /\ newest' = LetGo(w) /\ walk' = [walk EXCEPT ![w] = NoWalk]
      /\ UNCHANGED <<disk, map, root, roots, trees, older, job, watched, inbox, pending, pass,
                     task, reparsed, walks, edits>>
      /\ UNCHANGED spent \/ Spend("error")
  BY DEF WalkFails, store
<1>2. WalkTyped /\ GhostsTyped /\ BoundsTyped /\ NewestTyped
  BY TypeParts
<1>3. WalkTyped' /\ GhostsTyped'
  BY <1>1, <1>2, UnqueuedTyped, EndsIs DEF GhostsTyped, InHandOf
<1>4. BoundsTyped'
  BY <1>1, <1>2, SpendTyped, Frames DEF FaultKind
<1>5. NewestTyped'
  BY <1>1, <1>2, LettingGoTyped DEF NewestTyped
<1> QED
  BY <1>1, <1>3, <1>4, <1>5, TypeParts, TypePartsThen, Frames

\* What a task leaves alone.
LEMMA TaskTypes ==
  ASSUME IndexTypeOK, TreesTyped', RowsTyped', BoundsTyped', NewestTyped', GhostsTyped',
         UNCHANGED <<disk, root, roots, map, watched, inbox, pending, pass, walk>>
  PROVE  IndexTypeOK'
BY TypeParts, TypePartsThen, Frames

LEMMA ClaimTyped ==
  ASSUME IndexTypeOK, NEW i \in RootId, NEW p \in Path, Claim(i, p)
  PROVE  IndexTypeOK'
<1>1. RowsTyped /\ job[i][p] \in Row
  BY TypeParts, RowTyped
<1>2. job' = [job EXCEPT ![i] = [job[i] EXCEPT ![p] = [job[i][p] EXCEPT !.state = "running"]]]
  BY DEF Claim
<1>3. task' = [task EXCEPT ![i] = [task[i] EXCEPT ![p] = [at |-> "scan", blob |-> job[i][p].blob]]]
  BY DEF Claim
<1>4. RowsTyped'
  <2>1. [job[i][p] EXCEPT !.state = "running"] \in Row
    BY <1>1 DEF Row, Live
  <2>2. [at |-> "scan", blob |-> job[i][p].blob] \in Task
    BY <1>1 DEF Row, Task
  <2> QED
    BY <1>1, <1>2, <1>3, <2>1, <2>2 DEF RowsTyped
<1>5. TreesTyped' /\ BoundsTyped' /\ NewestTyped' /\ GhostsTyped'
  BY TypeParts, Frames DEF Claim, bounds, ghosts
<1> QED
  BY <1>4, <1>5, TaskTypes DEF Claim

LEMMA ScanTyped ==
  ASSUME IndexTypeOK, Books, NEW i \in RootId, NEW p \in Path, Scan(i, p)
  PROVE  IndexTypeOK'
<1>1. RowsTyped /\ TreesTyped /\ GhostsTyped /\ FilesTyped /\ task[i][p] \in Task
  BY TypeParts, RowTyped
<1>2. task[i][p].blob \in Content
  BY <1>1 DEF Task, BlobOrNone, Books, BlobsNamed, Scan
<1>3. TreesTyped'
  <2>1. CASE i # root \/ disk[p] = NoFile \/ task[i][p].blob \in DOMAIN trees
    BY <1>1, <2>1 DEF TreesTyped, Scan, Scanned
  <2>2. CASE ~(i # root \/ disk[p] = NoFile \/ task[i][p].blob \in DOMAIN trees)
    <3>1. disk[p] \in Content
      BY <1>1, <2>2 DEF FilesTyped, Map, BlobOrNone
    <3>2. trees' = [b \in DOMAIN trees \union {task[i][p].blob} |->
                      IF b \in DOMAIN trees THEN trees[b] ELSE disk[p]]
      BY <2>2 DEF Scan, Scanned
    <3> QED
      BY <1>1, <1>2, <3>1, <3>2 DEF TreesTyped, Scan
  <2> QED
    BY <2>1, <2>2
<1>4. RowsTyped'
  <2>1. task' = [task EXCEPT ![i] = [task[i] EXCEPT ![p] = [task[i][p] EXCEPT !.at = "settle"]]]
    BY DEF Scan
  <2>2. [task[i][p] EXCEPT !.at = "settle"] \in Task
    BY <1>1 DEF Task
  <2> QED
    BY <1>1, <2>1, <2>2 DEF RowsTyped, Scan
<1>5. GhostsTyped'
  BY <1>1 DEF GhostsTyped, Scan, Task
<1>6. BoundsTyped' /\ NewestTyped'
  BY TypeParts, Frames DEF Scan, bounds
<1> QED
  BY <1>3, <1>4, <1>5, <1>6, TaskTypes DEF Scan

\* What settling makes of the row.
Settled(row, state) ==
  IF row.state # "running" THEN row
  ELSE IF state = "none" THEN NoJob ELSE [row EXCEPT !.state = state]

LEMMA SettleIs ==
  ASSUME NEW i, NEW p, NEW state, Settle(i, p, state)
  PROVE  /\ job' = [job EXCEPT ![i] = [job[i] EXCEPT ![p] = Settled(job[i][p], state)]]
         /\ task' = [task EXCEPT ![i] = [task[i] EXCEPT ![p] = NoTask]]
BY DEF Settle, Settled

LEMMA SettleTyped ==
  ASSUME RowsTyped, NEW i \in RootId, NEW p \in Path, NEW state,
         state \in {"none", "pending", "failed"}, Settle(i, p, state)
  PROVE  RowsTyped'
<1>1. Settled(job[i][p], state) \in Row
  BY RowTyped, NothingTyped DEF Settled, Row, NoJob, Live
<1>2. NoTask \in Task
  BY NothingTyped DEF NoTask, Task
<1>3. /\ job' = [job EXCEPT ![i] = [job[i] EXCEPT ![p] = Settled(job[i][p], state)]]
      /\ task' = [task EXCEPT ![i] = [task[i] EXCEPT ![p] = NoTask]]
  BY SettleIs
<1> QED
  BY <1>1, <1>2, <1>3 DEF RowsTyped

LEMMA ScanDoneTyped ==
  ASSUME IndexTypeOK, NEW i \in RootId, NEW p \in Path, ScanDone(i, p)
  PROVE  IndexTypeOK'
<1>1. RowsTyped'
  BY TypeParts, SettleTyped DEF ScanDone
<1>2. TreesTyped' /\ BoundsTyped' /\ NewestTyped' /\ GhostsTyped'
  BY TypeParts, Frames DEF ScanDone, bounds, ghosts
<1> QED
  BY <1>1, <1>2, TaskTypes DEF ScanDone

LEMMA ScanFailsTyped ==
  ASSUME IndexTypeOK, NEW i \in RootId, NEW p \in Path, ScanFails(i, p)
  PROVE  IndexTypeOK'
<1>1. RowsTyped'
  BY TypeParts, SettleTyped DEF ScanFails
<1>2. TreesTyped' /\ NewestTyped' /\ GhostsTyped'
  BY TypeParts, Frames DEF ScanFails, ghosts
<1>3. BoundsTyped'
  BY TypeParts, SpendTyped DEF ScanFails, FaultKind
<1> QED
  BY <1>1, <1>2, <1>3, TaskTypes DEF ScanFails

LEMMA RemoveRootTyped == ASSUME IndexAssumption, IndexTypeOK, RemoveRoot PROVE IndexTypeOK'
<1>1. /\ root # 0 /\ root' = 0 /\ map' = Nothing /\ dropped' = {} /\ Spend("remove")
      /\ newest' = [p \in Path |-> IF newest[p] \in Unregistered THEN newest[p] ELSE Nobody]
      /\ lost' = lost \union {p \in Path : newest[p] \notin Unregistered}
      /\ job' = [job EXCEPT ![root] =
                   [p \in Path |-> IF job[root][p].state \in Live THEN NoJob ELSE job[root][p]]]
      /\ UNCHANGED <<disk, roots, trees, older, watched, inbox, pending, pass, walk, task,
                     reparsed, walks, edits>>
  BY DEF RemoveRoot, daemon
<1>2. FilesTyped' /\ GhostsTyped'
  BY <1>1, TypeParts, NothingTyped DEF FilesTyped, GhostsTyped
<1>3. RootTyped'
  BY <1>1, TypeParts DEF RootTyped, IndexAssumption
<1>4. RowsTyped'
  <2>1. NoJob \in Row
    BY NothingTyped DEF NoJob, Row
  <2>2. root \in RootId
    BY <1>1, TypeParts DEF RootTyped, RootId
  <2>3. [p \in Path |-> IF job[root][p].state \in Live THEN NoJob ELSE job[root][p]]
          \in [Path -> Row]
    BY <2>1, <2>2, TypeParts DEF RowsTyped
  <2> QED
    BY <1>1, <2>2, <2>3, TypeParts DEF RowsTyped
<1>5. BoundsTyped'
  BY <1>1, TypeParts, SpendTyped DEF FaultKind
<1>6. NewestTyped'
  BY <1>1, TypeParts DEF NewestTyped
<1> QED
  BY <1>1, <1>2, <1>3, <1>4, <1>5, <1>6, TypeParts, TypePartsThen, Frames

LEMMA CollectTyped == ASSUME IndexTypeOK, CollectGarbage PROVE IndexTypeOK'
<1>1. PICK gone : /\ gone = (DOMAIN trees \union older) \ Held
                  /\ trees' = Restrict(trees, DOMAIN trees \ gone) /\ older' = older \ gone
                  /\ dropped' = dropped \union {d \in InHand : d[2] \in gone}
  BY DEF CollectGarbage
<1>2. /\ Spend("collect")
      /\ UNCHANGED <<disk, root, roots, map, job, watched, inbox, pending, pass, walk, task,
                     reparsed, walks, edits, newest, lost>>
  BY DEF CollectGarbage, daemon
<1>3. TreesTyped'
  BY <1>1, TypeParts DEF TreesTyped, Restrict
<1>4. GhostsTyped'
  <2>1. \A p \in Path : Rewalked[p] \in BlobOrNone
    BY TypeParts DEF Rewalked, PassTyped, Map
  <2>2. \A w \in Walker, p \in Path : walk[w].files[p] \in BlobOrNone
    BY TypeParts DEF WalkTyped, WalkType, Map
  <2>3. InHand \subseteq Path \X BlobOrNone
    <3>1. \A w \in Walker : {<<p, walk[w].files[p]>> : p \in Path} \subseteq Path \X BlobOrNone
      BY <2>2
    <3>2. UNION {{<<p, walk[w].files[p]>> : p \in Path} :
                   w \in {v \in Walker : walk[v].at = "sync" /\ Current(v)}}
            \subseteq Path \X BlobOrNone
      BY <3>1
    <3>3. (IF pass.dir = {} THEN {} ELSE {<<p, Rewalked[p]>> : p \in Path})
            \subseteq Path \X BlobOrNone
      BY <2>1
    <3> QED
      BY <3>2, <3>3 DEF InHand
  <2> QED
    BY <1>1, <1>2, <2>3, TypeParts DEF GhostsTyped
<1>5. BoundsTyped'
  BY <1>2, TypeParts, SpendTyped DEF FaultKind
<1> QED
  BY <1>2, <1>3, <1>4, <1>5, TypeParts, TypePartsThen, Frames

LEMMA DieTyped ==
  ASSUME IndexAssumption, IndexTypeOK, Die
  PROVE  WatchTyped' /\ PassTyped' /\ WalkTyped' /\ RowsTyped' /\ NewestTyped' /\ GhostsTyped'
<1>1. WatchTyped'
  BY DEF Die, WatchTyped, IndexAssumption
<1>2. PassTyped' /\ WalkTyped' /\ NewestTyped'
  BY NothingTyped, NoWalkTyped DEF Die, PassTyped, WalkTyped, NoPass, PassStep, NewestTyped
<1>3. RowsTyped'
  <2>1. NoTask \in Task
    BY NothingTyped DEF NoTask, Task
  <2>2. \A i \in RootId, p \in Path : Requeued(job[i][p]) \in Row
    BY TypeParts, RowTyped DEF Requeued, Row, Live
  <2> QED
    BY <2>1, <2>2 DEF Die, RowsTyped
<1>4. GhostsTyped'
  <2>1. \A w \in Walker : Unqueued(w) \subseteq Path \X BlobOrNone
    BY TypeParts, UnqueuedTyped
  <2>2. UNION {Unqueued(w) : w \in Walker} \subseteq Path \X BlobOrNone
    BY <2>1
  <2> QED
    BY <2>2, TypeParts DEF Die, GhostsTyped
<1> QED
  BY <1>1, <1>2, <1>3, <1>4

LEMMA CrashTyped == ASSUME IndexAssumption, IndexTypeOK, CrashAndBoot PROVE IndexTypeOK'
<1>1. WatchTyped' /\ PassTyped' /\ WalkTyped' /\ RowsTyped' /\ NewestTyped' /\ GhostsTyped'
  BY DieTyped DEF CrashAndBoot
<1>4. spent' \in [FaultKind -> Nat]
  BY TypeParts, SpentTyped DEF CrashAndBoot, FaultKind
<1>2. BoundsTyped'
  BY <1>4, TypeParts DEF CrashAndBoot, Die, BoundsTyped
<1> QED
  BY <1>1, <1>2, TypeParts, TypePartsThen, Frames DEF CrashAndBoot

LEMMA UpgradeTyped == ASSUME IndexAssumption, IndexTypeOK, Upgrade PROVE IndexTypeOK'
<1>1. WatchTyped' /\ PassTyped' /\ WalkTyped' /\ RowsTyped' /\ NewestTyped' /\ GhostsTyped'
  BY DieTyped DEF Upgrade
<1>4. spent' \in [FaultKind -> Nat]
  BY TypeParts, SpentTyped DEF Upgrade, FaultKind
<1>2. BoundsTyped'
  BY <1>4, TypeParts DEF Upgrade, Die, BoundsTyped
<1>3. TreesTyped'
  BY TypeParts DEF Upgrade, TreesTyped, Restrict
<1> QED
  BY <1>1, <1>2, <1>3, TypeParts, TypePartsThen, Frames DEF Upgrade

LEMMA WalkStepsTyped ==
  ASSUME IndexAssumption, IndexTypeOK, Books, NEW w \in Walker,
         Add(w) \/ WalkSteps(w) \/ WalkFails(w)
  PROVE  IndexTypeOK'
BY AddTyped, RescanTyped, DiscoverTyped, RegisterTyped, HashFileTyped, CompareTyped, SyncTyped,
   EnqueueFileTyped, WalkFailsTyped DEF WalkSteps

LEMMA NextTyped ==
  ASSUME IndexAssumption, IndexTypeOK, Books, IndexNext
  PROVE  IndexTypeOK'
<1>1. ASSUME NEW p \in Path, Edit(p) \/ Relist(p) \/ RelistEnqueue(p) PROVE IndexTypeOK'
  BY <1>1, EditTyped, RelistTyped, RelistEnqueueTyped
<1>2. ASSUME NEW settled \in SUBSET Path, BeginPass(settled) PROVE IndexTypeOK'
  BY <1>2, BeginPassTyped
<1>3. CASE RecordWalk \/ PassFails \/ Reparse
  BY <1>3, RecordWalkTyped, PassFailsTyped, ReparseTyped
<1>4. ASSUME NEW w \in Walker, Add(w) \/ WalkSteps(w) \/ WalkFails(w) PROVE IndexTypeOK'
  BY <1>4, WalkStepsTyped
<1>5. CASE RemoveRoot \/ CollectGarbage \/ CrashAndBoot \/ Upgrade
  BY <1>5, RemoveRootTyped, CollectTyped, CrashTyped, UpgradeTyped
<1>6. ASSUME NEW i \in RootId, NEW p \in Path, TaskSteps(i, p) \/ ScanFails(i, p)
      PROVE  IndexTypeOK'
  BY <1>6, ClaimTyped, ScanTyped, ScanDoneTyped, ScanFailsTyped DEF TaskSteps
<1> QED
  BY <1>1, <1>2, <1>3, <1>4, <1>5, <1>6 DEF IndexNext

-----------------------------------------------------------------------------
(* The books stand.                                                        *)

\* Only the row and the task of one path change.
OnlyAt(i, p) ==
  \A j \in RootId, q \in Path :
    j # i \/ q # p => job'[j][q] = job[j][q] /\ task'[j][q] = task[j][q]

LEMMA QueueIs ==
  ASSUME RowsTyped, NEW i \in RootId, NEW p \in Path, NEW b, Queue(i, p, b), UNCHANGED task
  PROVE  /\ job'[i][p] = [state |-> IF job[i][p].state = "running" THEN "running" ELSE "pending",
                          blob |-> b]
         /\ OnlyAt(i, p)
<1>1. job' = [job EXCEPT ![i] = [job[i] EXCEPT ![p] =
               [state |-> IF job[i][p].state = "running" THEN "running" ELSE "pending",
                blob |-> b]]]
  BY DEF Queue
<1> QED
  BY <1>1 DEF RowsTyped, OnlyAt

LEMMA ClaimIs ==
  ASSUME RowsTyped, NEW i \in RootId, NEW p \in Path, Claim(i, p)
  PROVE  /\ job[i][p].state = "pending" /\ task[i][p].at = "idle"
         /\ job'[i][p] = [state |-> "running", blob |-> job[i][p].blob]
         /\ task'[i][p] = [at |-> "scan", blob |-> job[i][p].blob]
         /\ OnlyAt(i, p)
<1>1. job' = [job EXCEPT ![i] = [job[i] EXCEPT ![p] = [job[i][p] EXCEPT !.state = "running"]]]
  BY DEF Claim
<1>2. task' = [task EXCEPT ![i] = [task[i] EXCEPT ![p] = [at |-> "scan", blob |-> job[i][p].blob]]]
  BY DEF Claim
<1>3. [job[i][p] EXCEPT !.state = "running"] = [state |-> "running", blob |-> job[i][p].blob]
  BY RowTyped DEF Row
<1> QED
  BY <1>1, <1>2, <1>3 DEF RowsTyped, OnlyAt, Claim

LEMMA ScanIs ==
  ASSUME RowsTyped, NEW i \in RootId, NEW p \in Path, Scan(i, p)
  PROVE  /\ task[i][p].at = "scan"
         /\ task'[i][p] = [at |-> "settle", blob |-> task[i][p].blob]
         /\ job'[i][p] = job[i][p]
         /\ OnlyAt(i, p)
<1>1. task' = [task EXCEPT ![i] = [task[i] EXCEPT ![p] = [task[i][p] EXCEPT !.at = "settle"]]]
  BY DEF Scan
<1>2. [task[i][p] EXCEPT !.at = "settle"] = [at |-> "settle", blob |-> task[i][p].blob]
  BY RowTyped DEF Task
<1> QED
  BY <1>1, <1>2 DEF RowsTyped, OnlyAt, Scan

LEMMA SettlesIt ==
  ASSUME RowsTyped, NEW i \in RootId, NEW p \in Path, NEW state, Settle(i, p, state)
  PROVE  /\ job'[i][p] = Settled(job[i][p], state) /\ task'[i][p] = NoTask
         /\ OnlyAt(i, p)
<1>1. /\ job' = [job EXCEPT ![i] = [job[i] EXCEPT ![p] = Settled(job[i][p], state)]]
      /\ task' = [task EXCEPT ![i] = [task[i] EXCEPT ![p] = NoTask]]
  BY SettleIs
<1> QED
  BY <1>1 DEF RowsTyped, OnlyAt

\* A step that touches no row, as far as the books go.
LEMMA BooksOfPass ==
  ASSUME Books, UNCHANGED <<root, roots, walk, job, task>>, watched' <= roots, PassHolds'
  PROVE  Books'
BY DEF Books, Numbered, RowsAndTasks, BlobsNamed, WalksHold, WalkHolds

LEMMA BooksOfWalk ==
  ASSUME Books, NEW w \in Walker, UNCHANGED <<root, roots, job, task, watched, pass>>, OnlyWalk(w),
         walk'[w].root <= roots, WalkHolds(w)'
  PROVE  Books'
<1>1. WalksHold'
  BY DEF Books, WalksHold, WalkHolds, OnlyWalk
<1>2. Numbered'
  BY DEF Books, Numbered, OnlyWalk
<1> QED
  BY <1>1, <1>2 DEF Books, RowsAndTasks, BlobsNamed, PassHolds

LEMMA PassBooks ==
  ASSUME IndexTypeOK, Books,
         \/ \E p \in Path : Edit(p) \/ Relist(p)
         \/ \E settled \in SUBSET Path : BeginPass(settled)
         \/ RecordWalk \/ PassFails
  PROVE  Books'
<1>1. ASSUME NEW p \in Path, Edit(p) PROVE Books'
  BY <1>1, BooksOfPass DEF Edit, store, Books, Numbered, PassHolds
<1>2. ASSUME NEW p \in Path, Relist(p) PROVE Books'
  <2>1. UNCHANGED <<root, roots, walk, job, task, watched>>
    BY <1>2 DEF Relist, store
  <2>2. PassHolds'
    BY <1>2, <2>1, RelistIs, TypeParts DEF Books, PassHolds
  <2> QED
    BY <2>1, <2>2, BooksOfPass DEF Books, Numbered
<1>3. ASSUME NEW settled \in SUBSET Path, BeginPass(settled) PROVE Books'
  <2>1. /\ UNCHANGED <<root, roots, walk, job, task>> /\ watched' = Watching
        /\ settled \subseteq HeardOf(Watching)
    BY <1>3 DEF BeginPass, store
  <2>2. /\ pass'.dir = {} /\ pass'.todo = settled /\ pass'.at \in {"idle", "next"}
        /\ pass'.at = "idle" <=> settled = {}
    BY <1>3 DEF BeginPass, NoPass
  <2>3. Watching <= roots
    BY TypeParts DEF Watching, Books, Numbered, RootTyped
  <2>4. PassHolds'
    BY <2>1, <2>2 DEF PassHolds, HeardOf
  <2> QED
    BY <2>1, <2>3, <2>4, BooksOfPass
<1>4. CASE RecordWalk \/ PassFails
  <2>1. UNCHANGED <<root, roots, walk, job, task, watched>> /\ pass.at # "idle"
    BY <1>4 DEF RecordWalk, PassFails, store
  <2>2. RecordWalk => /\ pass'.dir = {} /\ pass'.at \in {"idle", "next"}
                      /\ pass'.at = "idle" => pass'.todo = {}
    BY AfterRelistIs, TypeParts DEF RecordWalk
  <2>3. PassFails => /\ pass'.dir = {} /\ pass'.at = "idle" /\ pass'.todo = {}
    BY DEF PassFails, NoPass
  <2>4. PassHolds'
    BY <1>4, <2>1, <2>2, <2>3 DEF Books, PassHolds
  <2> QED
    BY <2>1, <2>4, BooksOfPass DEF Books, Numbered
<1> QED
  BY <1>1, <1>2, <1>3, <1>4

\* A walk that does not touch the store, or only writes the map.
LEMMA WalkBooks ==
  ASSUME IndexAssumption, IndexTypeOK, Books, NEW w \in Walker,
         \/ Add(w) \/ Discover(w) \/ Compare(w) \/ SyncWorktreeFiles(w) \/ WalkFails(w)
         \/ \E p \in Path : HashFile(w, p)
  PROVE  Books'
<1>1. UNCHANGED <<root, roots, job, task, watched, pass>>
  BY DEF Add, Discover, HashFile, Compare, SyncWorktreeFiles, WalkFails, store
<1>2. walk[w].root <= roots /\ 0 <= roots
  BY TypeParts DEF Books, Numbered, RootTyped
<1>3. OnlyWalk(w) /\ walk'[w].root <= roots /\ WalkHolds(w)'
  <2>1. CASE Add(w)
    BY <1>2, <2>1, FindIs, TypeParts DEF Add, WalkHolds
  <2>2. CASE Discover(w)
    BY <1>2, <2>2, DiscoverIs, TypeParts DEF WalkHolds
  <2>3. CASE Compare(w)
    BY <1>2, <2>3, CompareIs, TypeParts DEF Books, WalksHold, WalkHolds
  <2>4. CASE SyncWorktreeFiles(w)
    <3> DEFINE todo == {p \in Path : NeedsScan(w, p)}
    <3>1. walk' = Enqueuing(w, todo) /\ walk[w].at = "sync"
      BY <2>4 DEF SyncWorktreeFiles
    <3>2. \A p \in todo : walk[w].files[p] # NoFile
      BY DEF NeedsScan
    <3>3. todo \in SUBSET Path
      OBVIOUS
    <3> HIDE DEF todo
    <3> QED
      BY <1>2, <3>1, <3>2, <3>3, EnqueuingIs, TypeParts DEF Books, WalksHold, WalkHolds
  <2>5. CASE WalkFails(w)
    BY <1>2, <2>5, EndsIs, TypeParts DEF WalkFails, WalkHolds
  <2>6. ASSUME NEW p \in Path, HashFile(w, p)
        PROVE  OnlyWalk(w) /\ walk'[w].root <= roots /\ WalkHolds(w)'
    BY <1>2, <2>6, HashFileIs, TypeParts DEF Books, WalksHold, WalkHolds
  <2> QED
    BY <2>1, <2>2, <2>3, <2>4, <2>5, <2>6
<1> QED
  BY <1>1, <1>3, BooksOfWalk

LEMMA RescanBooks ==
  ASSUME IndexAssumption, IndexTypeOK, Books, Rescan \/ Reparse
  PROVE  Books'
<1>1. UNCHANGED <<root, roots, job, task, watched, pass>> /\ Reparser \in Walker
  BY DEF Rescan, Reparse, store, IndexAssumption
<1>2. walk[Reparser].root <= roots /\ 0 <= roots
  BY <1>1, TypeParts DEF Books, Numbered, RootTyped
<1>3. OnlyWalk(Reparser) /\ walk'[Reparser].root <= roots /\ WalkHolds(Reparser)'
  BY <1>2, RescanIs, ReparseIs, TypeParts DEF WalkHolds
<1> QED
  BY <1>1, <1>3, BooksOfWalk

\* A root that is registered again has no rows.
LEMMA RegisterBooks ==
  ASSUME IndexAssumption, IndexTypeOK, Books, NEW w \in Walker, RegisterWorktree(w)
  PROVE  Books'
<1>1. /\ OnlyWalk(w) /\ walk'[w].root = root' /\ root' # 0
      /\ walk'[w].at = IF walk[w].todo = {} THEN "compare" ELSE "hash"
      /\ walk'[w].todo = walk[w].todo
      /\ root' = IF root = 0 THEN roots + 1 ELSE root
      /\ roots' = IF root = 0 THEN roots + 1 ELSE roots
      /\ root' \in RootId
  BY RegisterIs, TypeParts DEF RootTyped, RootId
<1>2. UNCHANGED <<job, task, watched, pass>>
  BY DEF RegisterWorktree
<1>3. RootTyped /\ WatchTyped /\ WalkTyped
  BY TypeParts
<1>4. Numbered'
  <2>1. roots <= roots' /\ root' = roots' /\ watched' <= roots'
    BY <1>1, <1>2, <1>3 DEF Books, Numbered, RootTyped, WatchTyped
  <2>2. \A v \in Walker : walk'[v].root <= roots'
    BY <1>1, <1>3, <2>1 DEF Books, Numbered, RootTyped, WalkTyped, WalkType, OnlyWalk
  <2>3. \A i \in RootId, p \in Path : i > roots' => job'[i][p] = NoJob /\ task'[i][p] = NoTask
    BY <1>2, <1>3, <2>1, <1>1 DEF Books, Numbered, RootTyped, RootId
  <2> QED
    BY <2>1, <2>2, <2>3 DEF Numbered
<1>5. RowsAndTasks'
  <2>1. CASE root = 0
    <3>1. roots + 1 \in RootId /\ roots + 1 > roots /\ root' = roots + 1
      BY <1>1, <1>3, <2>1 DEF RootTyped, RootId
    <3>2. \A p \in Path : job[roots + 1][p] = NoJob /\ task[roots + 1][p] = NoTask
      BY <3>1 DEF Books, Numbered
    <3> QED
      BY <1>2, <3>1, <3>2 DEF RowsAndTasks, NoJob, NoTask
  <2>2. CASE root # 0
    BY <1>1, <1>2, <2>2 DEF Books, RowsAndTasks
  <2> QED
    BY <2>1, <2>2
<1>6. WalksHold'
  BY <1>1 DEF Books, WalksHold, WalkHolds, OnlyWalk
<1> QED
  BY <1>2, <1>4, <1>5, <1>6 DEF Books, BlobsNamed, PassHolds

\* A step on one row of one path.
LEMMA BooksOfRow ==
  ASSUME RootTyped, Books, NEW i \in RootId, NEW p \in Path, OnlyAt(i, p), i <= roots,
         UNCHANGED <<root, roots, watched>>,
         i = root => (job'[i][p].state = "running" <=> task'[i][p].at # "idle")
  PROVE  RowsAndTasks' /\ ((\A w \in Walker : walk'[w].root <= roots) => Numbered')
<1>1. RowsAndTasks'
  BY DEF Books, RowsAndTasks, OnlyAt, RootTyped, RootId
<1>2. ASSUME \A w \in Walker : walk'[w].root <= roots PROVE Numbered'
  <2>1. \A j \in RootId, q \in Path : j > roots => job'[j][q] = NoJob /\ task'[j][q] = NoTask
    BY DEF Books, Numbered, OnlyAt, RootTyped, RootId
  <2> QED
    BY <1>2, <2>1 DEF Books, Numbered
<1> QED
  BY <1>1, <1>2

LEMMA BlobsOfRow ==
  ASSUME BlobsNamed, NEW i \in RootId, NEW p \in Path, OnlyAt(i, p),
         job'[i][p].state # "none" => job'[i][p].blob # NoFile,
         task'[i][p].at # "idle" => task'[i][p].blob # NoFile
  PROVE  BlobsNamed'
BY DEF BlobsNamed, OnlyAt

LEMMA QueueBooks ==
  ASSUME IndexTypeOK, Books, NEW i \in RootId, NEW p \in Path, NEW b, b # NoFile, i <= roots,
         Queue(i, p, b), UNCHANGED <<root, roots, watched, task>>
  PROVE  /\ RowsAndTasks' /\ ((\A w \in Walker : walk'[w].root <= roots) => Numbered')
         /\ BlobsNamed'
<1>1. /\ job'[i][p] = [state |-> IF job[i][p].state = "running" THEN "running" ELSE "pending",
                       blob |-> b]
      /\ OnlyAt(i, p)
  BY QueueIs, TypeParts
<1>2. i = root => (job'[i][p].state = "running" <=> task'[i][p].at # "idle")
  <2>1. job'[i][p].state = "running" <=> job[i][p].state = "running"
    BY <1>1
  <2>2. i = root => i # 0
    BY DEF RootId
  <2> QED
    BY <2>1, <2>2 DEF Books, RowsAndTasks
<1>3. job'[i][p].blob # NoFile /\ (task'[i][p].at # "idle" => task'[i][p].blob # NoFile)
  BY <1>1 DEF Books, BlobsNamed
<1> QED
  BY <1>1, <1>2, <1>3, BooksOfRow, BlobsOfRow, TypeParts DEF Books

LEMMA RelistEnqueueBooks ==
  ASSUME IndexTypeOK, Books, NEW p \in Path, RelistEnqueue(p)
  PROVE  Books'
<1>1. Queue(watched, p, pass.blob) /\ UNCHANGED <<root, roots, watched, walk, task>>
  BY DEF RelistEnqueue
<1>2. watched \in RootId /\ watched <= roots /\ pass.blob # NoFile
  BY TypeParts DEF RelistEnqueue, PassHolds, WatchTyped, RootId, Books, Numbered
<1>3. RowsAndTasks' /\ ((\A w \in Walker : walk'[w].root <= roots) => Numbered') /\ BlobsNamed'
  BY <1>1, <1>2, QueueBooks
<1>4. \A w \in Walker : walk'[w].root <= roots
  BY <1>1 DEF Books, Numbered
<1>5. PassHolds'
  BY <1>1, RelistEnqueueIs, TypeParts DEF Books, PassHolds
<1>6. WalksHold'
  BY <1>1 DEF Books, WalksHold, WalkHolds
<1> QED
  BY <1>3, <1>4, <1>5, <1>6 DEF Books

LEMMA EnqueueFileBooks ==
  ASSUME IndexAssumption, IndexTypeOK, Books, NEW w \in Walker, NEW p \in Path, EnqueueFile(w, p)
  PROVE  Books'
<1>1. /\ walk[w].at = "enqueue" /\ p \in walk[w].todo
      /\ Queue(walk[w].root, p, walk[w].files[p])
      /\ UNCHANGED <<root, roots, watched, pass, task>>
      /\ walk' = Enqueuing(w, walk[w].todo \ {p})
  BY DEF EnqueueFile
<1>2. walk[w] \in WalkType
  BY TypeParts DEF WalkTyped
<1>3. walk[w].root \in RootId /\ walk[w].root <= roots /\ walk[w].files[p] # NoFile
  BY <1>1, <1>2 DEF WalkType, RootId, Books, Numbered, WalksHold, WalkHolds
<1>4. RowsAndTasks' /\ ((\A v \in Walker : walk'[v].root <= roots) => Numbered') /\ BlobsNamed'
  BY <1>1, <1>3, QueueBooks
<1> DEFINE todo == walk[w].todo \ {p}
<1>5. todo \in SUBSET Path
  BY <1>2 DEF WalkType
<1>6. /\ OnlyWalk(w)
      /\ IF todo = {} THEN walk'[w].at = "idle" /\ walk'[w].root = 0 /\ walk'[w].todo = {}
                      ELSE walk'[w].at = "enqueue" /\ walk'[w].root = walk[w].root
      /\ walk'[w].todo = todo
      /\ todo # {} => walk'[w].files = walk[w].files
  BY <1>1, <1>5, EnqueuingIs, TypeParts
<1>7. \A v \in Walker : walk'[v].root <= roots
  BY <1>6, TypeParts DEF Books, Numbered, OnlyWalk, RootTyped
<1>8. WalkHolds(w)'
  BY <1>1, <1>6 DEF Books, WalksHold, WalkHolds
<1>9. WalksHold'
  BY <1>6, <1>8 DEF Books, WalksHold, WalkHolds, OnlyWalk
<1> QED
  BY <1>1, <1>4, <1>7, <1>9 DEF Books, PassHolds

\* A row with a job or a task on it is of a number that was given.
LEMMA RowIsKnown ==
  ASSUME RootTyped, Books, NEW i \in RootId, NEW p \in Path,
         job[i][p].state # "none" \/ task[i][p].at # "idle"
  PROVE  i <= roots
BY DEF Books, Numbered, NoJob, NoTask, RootTyped, RootId

LEMMA TaskBooks ==
  ASSUME IndexTypeOK, Books, NEW i \in RootId, NEW p \in Path,
         TaskSteps(i, p) \/ ScanFails(i, p)
  PROVE  Books'
<1> DEFINE was == job[i][p]
           now == job'[i][p]
           on == task[i][p]
           then == task'[i][p]
<1>1. UNCHANGED <<root, roots, watched, pass, walk>>
  BY DEF TaskSteps, Claim, Scan, ScanDone, ScanFails
<1>2. i = root => (was.state = "running" <=> on.at # "idle")
  BY DEF Books, RowsAndTasks, RootId
<1>3. /\ was.state # "none" => was.blob # NoFile
      /\ on.at # "idle" => on.blob # NoFile
  BY DEF Books, BlobsNamed
<1>4. ASSUME i <= roots, OnlyAt(i, p),
             i = root => (now.state = "running" <=> then.at # "idle"),
             now.state # "none" => now.blob # NoFile, then.at # "idle" => then.blob # NoFile
      PROVE  Books'
  <2>1. RowsAndTasks' /\ Numbered'
    BY <1>1, <1>4, BooksOfRow, TypeParts DEF Books, Numbered
  <2>2. BlobsNamed'
    BY <1>1, <1>4, BlobsOfRow DEF Books, BlobsNamed
  <2> QED
    BY <1>1, <2>1, <2>2 DEF Books, WalksHold, WalkHolds, PassHolds
<1>5. CASE Claim(i, p)
  <2>1. /\ was.state = "pending" /\ on.at = "idle" /\ OnlyAt(i, p)
        /\ now = [state |-> "running", blob |-> was.blob]
        /\ then = [at |-> "scan", blob |-> was.blob]
    BY <1>5, ClaimIs, TypeParts
  <2>2. i <= roots
    BY <2>1, RowIsKnown, TypeParts
  <2> QED
    BY <1>3, <1>4, <2>1, <2>2
<1>6. CASE Scan(i, p)
  <2>1. /\ on.at = "scan" /\ OnlyAt(i, p) /\ now = was
        /\ then = [at |-> "settle", blob |-> on.blob]
    BY <1>6, ScanIs, TypeParts
  <2>2. i <= roots
    BY <2>1, RowIsKnown, TypeParts
  <2> QED
    BY <1>2, <1>3, <1>4, <2>1, <2>2
<1>7. ASSUME NEW state, state \in {"none", "pending", "failed"}, Settle(i, p, state), on.at # "idle"
      PROVE  Books'
  <2>1. OnlyAt(i, p) /\ now = Settled(was, state) /\ then = NoTask
    BY <1>7, SettlesIt, TypeParts
  <2>2. i <= roots
    BY <1>7, RowIsKnown, TypeParts
  <2>3. was \in Row
    BY RowTyped, TypeParts
  <2>4. now.state # "running" /\ (now.state # "none" => now.blob # NoFile)
    BY <1>3, <1>7, <2>1, <2>3 DEF Settled, NoJob, Row
  <2> QED
    BY <1>4, <2>1, <2>2, <2>4 DEF NoTask
<1> QED
  BY <1>5, <1>6, <1>7 DEF TaskSteps, ScanDone, ScanFails

LEMMA RemoveRootBooks == ASSUME IndexTypeOK, Books, RemoveRoot PROVE Books'
<1>1. /\ root # 0 /\ root' = 0 /\ UNCHANGED <<roots, watched, pass, walk, task>>
      /\ job' = [job EXCEPT ![root] =
                   [p \in Path |-> IF job[root][p].state \in Live THEN NoJob ELSE job[root][p]]]
  BY DEF RemoveRoot, daemon
<1>2. \A i \in RootId, p \in Path :
        job'[i][p] = IF i = root /\ job[i][p].state \in Live THEN NoJob ELSE job[i][p]
  BY <1>1, TypeParts DEF RowsTyped
<1>3. Numbered'
  BY <1>1, <1>2 DEF Books, Numbered
<1>4. RowsAndTasks' /\ PassHolds' /\ WalksHold'
  BY <1>1 DEF Books, WalksHold, WalkHolds, RowsAndTasks, PassHolds
<1>5. BlobsNamed'
  BY <1>1, <1>2 DEF Books, BlobsNamed, NoJob
<1> QED
  BY <1>3, <1>4, <1>5 DEF Books

LEMMA DieBooks ==
  ASSUME IndexAssumption, IndexTypeOK, Books, Die, UNCHANGED <<root, roots>>
  PROVE  Books'
<1>1. /\ watched' = 0 /\ pass' = NoPass /\ \A w \in Walker : walk'[w] = NoWalk
      /\ \A i \in RootId, p \in Path :
           task'[i][p] = NoTask /\ job'[i][p] = Requeued(job[i][p])
  BY DEF Die
<1>2. \A i \in RootId, p \in Path :
        /\ Requeued(job[i][p]).state # "running"
        /\ Requeued(job[i][p]).state = "none" <=> job[i][p].state = "none"
        /\ Requeued(job[i][p]).blob = job[i][p].blob
        /\ job[i][p] = NoJob => Requeued(job[i][p]) = NoJob
  BY TypeParts, RowTyped DEF Requeued, Row, NoJob
<1>3. Numbered'
  BY <1>1, <1>2, TypeParts, NoWalkTyped DEF Books, Numbered, RootTyped
<1>4. PassHolds' /\ WalksHold'
  BY <1>1, NoWalkTyped DEF PassHolds, NoPass, WalksHold, WalkHolds
<1>5. RowsAndTasks'
  BY <1>1, <1>2, TypeParts DEF RowsAndTasks, NoTask, RootTyped, RootId
<1>6. BlobsNamed'
  BY <1>1, <1>2 DEF Books, BlobsNamed, NoTask
<1> QED
  BY <1>3, <1>4, <1>5, <1>6 DEF Books

LEMMA InitBooks == ASSUME IndexAssumption, IndexInit PROVE Books
<1>1. Numbered /\ RowsAndTasks
  BY NoWalkTyped DEF IndexInit, Numbered, RowsAndTasks
<1>2. BlobsNamed
  BY DEF IndexInit, NoJob, NoTask, BlobsNamed
<1>3. PassHolds /\ WalksHold
  BY NoWalkTyped DEF IndexInit, NoPass, PassHolds, WalksHold, WalkHolds
<1> QED
  BY <1>1, <1>2, <1>3 DEF Books

LEMMA StillBooks ==
  ASSUME Books, UNCHANGED <<root, roots, job, task, watched, pass, walk>>
  PROVE  Books'
BY DEF Books, Numbered, RowsAndTasks, BlobsNamed, PassHolds, WalksHold, WalkHolds

LEMMA NextBooks ==
  ASSUME IndexAssumption, IndexTypeOK, Books, IndexNext
  PROVE  Books'
<1>1. ASSUME NEW p \in Path, Edit(p) \/ Relist(p) \/ RelistEnqueue(p) PROVE Books'
  BY <1>1, PassBooks, RelistEnqueueBooks
<1>2. ASSUME NEW settled \in SUBSET Path, BeginPass(settled) PROVE Books'
  BY <1>2, PassBooks
<1>3. CASE RecordWalk \/ PassFails \/ Reparse
  BY <1>3, PassBooks, RescanBooks
<1>4. ASSUME NEW w \in Walker, Add(w) \/ WalkSteps(w) \/ WalkFails(w) PROVE Books'
  BY <1>4, WalkBooks, RescanBooks, RegisterBooks, EnqueueFileBooks DEF WalkSteps
<1>5. CASE RemoveRoot
  BY <1>5, RemoveRootBooks
<1>6. CASE CollectGarbage
  BY <1>6, StillBooks DEF CollectGarbage, daemon
<1>7. CASE CrashAndBoot \/ Upgrade
  BY <1>7, DieBooks DEF CrashAndBoot, Upgrade
<1>8. ASSUME NEW i \in RootId, NEW p \in Path, TaskSteps(i, p) \/ ScanFails(i, p)
      PROVE  Books'
  BY <1>8, TaskBooks
<1> QED
  BY <1>1, <1>2, <1>3, <1>4, <1>5, <1>6, <1>7, <1>8 DEF IndexNext

\* The types, and the books beside them: registrations are numbered upwards, a
\* row of the root is running exactly while a task is on it, what is queued is a
\* file's content, and a pass and a walk hold what their place says.
THEOREM Bookkeeping ==
  ASSUME IndexAssumption
  PROVE  IndexSteps => [](IndexTypeOK /\ Books)
<1>1. IndexInit => IndexTypeOK /\ Books
  BY InitTyped, InitBooks
<1>2. IndexTypeOK /\ Books /\ [IndexNext]_ivars => (IndexTypeOK /\ Books)'
  <2>1. ASSUME IndexTypeOK, Books, UNCHANGED ivars PROVE (IndexTypeOK /\ Books)'
    BY <2>1, StillBooks DEF ivars, store, daemon, bounds, ghosts, IndexTypeOK
  <2> QED
    BY <2>1, NextTyped, NextBooks
<1> QED
  BY <1>1, <1>2, PTL DEF IndexSteps

\* The types.
THEOREM IndexTypeCorrect ==
  ASSUME IndexAssumption
  PROVE  IndexSpec => []IndexTypeOK
BY Bookkeeping, PTL DEF IndexSpec, IndexSteps

-----------------------------------------------------------------------------
(* A stale mapping is noticed.  Every file has somebody who answers for it: *)
(* the watcher, which has heard of it; the one that took it on last and     *)
(* holds what it holds; or nobody, and then its mapping is what it holds.   *)

\* Where who took the path on is: nobody that can still write the map over a
\* row the root does not have.
Handed(p) ==
  /\ newest[p] = Watcher => pass.dir = {p} /\ watched = root /\ root # 0
  /\ \A w \in Walker : newest[p] = w =>
       \/ walk[w].at = "register"
       \/ walk[w].at \in {"hash", "compare", "sync"} /\ walk[w].root = root /\ root # 0

Answered(p) ==
  p \in lost \/ Noticed(p) \/ IF newest[p] = Nobody THEN map[p] = disk[p] ELSE TakenOn(p)

Tended(p) == Handed(p) /\ Answered(p)

AllTended == \A p \in Path : Tended(p)

\* What a step has to leave of a path that it is not about.
HandsKept(p) ==
  /\ disk'[p] = disk[p] /\ map'[p] = map[p] /\ newest'[p] = newest[p]
  /\ p \in lost => p \in lost'
  /\ Noticed(p) => Noticed(p)' \/ p \in lost'

KeptByWatcher(p) ==
  newest[p] = Watcher =>
    pass'.dir = pass.dir /\ pass'.blob = pass.blob /\ watched' = root' /\ root' # 0

KeptByWalk(p) ==
  \A w \in Walker : newest[p] = w =>
    /\ p \in walk[w].todo => p \in walk'[w].todo
    /\ walk'[w].files[p] = walk[w].files[p]
    /\ \/ walk'[w].at = "register"
       \/ walk'[w].at \in {"hash", "compare", "sync"} /\ walk'[w].root = root' /\ root' # 0

LEMMA Undisturbed ==
  ASSUME NEW p \in Path, Tended(p), HandsKept(p), KeptByWatcher(p), KeptByWalk(p)
  PROVE  Tended(p)'
<1>1. Handed(p)'
  BY DEF Tended, Handed, HandsKept, KeptByWatcher, KeptByWalk
<1>2. TakenOn(p) => TakenOn(p)'
  BY DEF TakenOn, HandsKept, KeptByWatcher, KeptByWalk
<1>3. Answered(p)'
  BY <1>2 DEF Tended, Answered, HandsKept
<1> QED
  BY <1>1, <1>3 DEF Tended

\* A step that leaves the store's rows and the hands alone.
LEMMA SameHands ==
  ASSUME NEW p \in Path, Tended(p), UNCHANGED <<root, watched, pass, walk>>
  PROVE  KeptByWatcher(p) /\ KeptByWalk(p)
BY DEF Tended, Handed, KeptByWatcher, KeptByWalk

LEMMA InitTended == ASSUME IndexAssumption, IndexInit PROVE AllTended
BY DEF IndexInit, IndexAssumption, AllTended, Tended, Handed, Answered

LEMMA EditTends ==
  ASSUME IndexTypeOK, AllTended, NEW q \in Path, Edit(q)
  PROVE  AllTended'
<1> SUFFICES ASSUME NEW p \in Path PROVE Tended(p)'
  BY DEF AllTended
<1>1. PICK c \in BlobOrNone : disk' = [disk EXCEPT ![q] = c]
  BY DEF Edit
<1>2. UNCHANGED <<map, newest, root, watched, pending, pass, walk>> /\ Tended(p)
  BY DEF Edit, store, AllTended
<1>3. p # q => disk'[p] = disk[p]
  BY <1>1, TypeParts DEF FilesTyped, Map
<1>4. lost \subseteq lost' /\ inbox \subseteq inbox'
  BY DEF Edit
<1>5. CASE p = q
  <2>1. p \in lost' \/ Noticed(p)'
    BY <1>5 DEF Edit, Noticed
  <2>2. Handed(p)'
    BY <1>2 DEF Tended, Handed
  <2> QED
    BY <2>1, <2>2 DEF Tended, Answered
<1>6. CASE p # q
  BY <1>2, <1>3, <1>4, <1>6, SameHands, Undisturbed DEF HandsKept, Noticed
<1> QED
  BY <1>5, <1>6

LEMMA BeginPassTends ==
  ASSUME IndexTypeOK, Books, AllTended, NEW settled \in SUBSET Path, BeginPass(settled)
  PROVE  AllTended'
<1> SUFFICES ASSUME NEW p \in Path PROVE Tended(p)'
  BY DEF AllTended
<1>1. /\ UNCHANGED <<disk, map, newest, root, walk>> /\ pass.at = "idle" /\ Tended(p)
      /\ watched' = Watching /\ inbox' = {} /\ pending' = HeardOf(Watching) \ settled
      /\ settled \subseteq HeardOf(Watching)
      /\ lost' = IF Watching = 0 THEN lost \union inbox \union pending ELSE lost
  BY DEF BeginPass, store, AllTended
<1>2. pass'.todo = settled /\ pass.todo = {} /\ pass.dir = {}
  BY <1>1 DEF BeginPass, NoPass, Books, PassHolds
<1>3. HandsKept(p)
  BY <1>1, <1>2 DEF HandsKept, Noticed, HeardOf
<1>4. KeptByWatcher(p) /\ KeptByWalk(p)
  BY <1>1, <1>2 DEF Tended, Handed, KeptByWatcher, KeptByWalk
<1> QED
  BY <1>1, <1>3, <1>4, Undisturbed

\* The pass takes hold of what the file is now.
LEMMA RelistTends ==
  ASSUME IndexAssumption, IndexTypeOK, Books, AllTended, NEW q \in Path, Relist(q)
  PROVE  AllTended'
<1> SUFFICES ASSUME NEW p \in Path PROVE Tended(p)'
  BY DEF AllTended
<1>1. /\ UNCHANGED <<disk, map, root, watched, inbox, pending, walk>> /\ Tended(p)
      /\ pass.at = "next" /\ pass.dir = {} /\ watched # 0
  BY DEF Relist, store, AllTended, Books, PassHolds
<1>2. pass'.todo = pass.todo \ {q} /\ pass'.dir = {q} /\ pass'.blob = disk[q]
  BY RelistIs, TypeParts
<1>3. newest[p] # Watcher
  BY <1>1 DEF Tended, Handed
<1>4. CASE watched = root /\ p = q
  <2>1. newest'[p] = Watcher
    BY <1>4, TakingTyped, TypeParts DEF Relist
  <2>2. Watcher \notin Walker /\ Watcher # Nobody
    BY DEF IndexAssumption
  <2> QED
    BY <1>1, <1>2, <1>4, <2>1, <2>2 DEF Tended, Handed, Answered, TakenOn
<1>5. CASE watched # root /\ p = q
  <2>1. UNCHANGED newest /\ p \in lost'
    BY <1>5 DEF Relist
  <2> QED
    BY <1>1, <1>3, <2>1 DEF Tended, Handed, Answered
<1>6. CASE p # q
  <2>1. newest'[p] = newest[p] /\ (p \in lost => p \in lost')
    BY <1>6, TakingTyped, TypeParts DEF Relist
  <2>2. KeptByWatcher(p) /\ KeptByWalk(p)
    BY <1>1, <1>3 DEF Tended, Handed, KeptByWatcher, KeptByWalk
  <2>3. HandsKept(p)
    BY <1>1, <1>2, <1>6, <2>1 DEF HandsKept, Noticed
  <2> QED
    BY <1>1, <2>2, <2>3, Undisturbed
<1> QED
  BY <1>4, <1>5, <1>6

LEMMA RelistEnqueueTends ==
  ASSUME IndexTypeOK, AllTended, NEW q \in Path, RelistEnqueue(q)
  PROVE  AllTended'
<1> SUFFICES ASSUME NEW p \in Path PROVE Tended(p)'
  BY DEF AllTended
<1>1. /\ UNCHANGED <<disk, map, newest, root, watched, inbox, pending, walk, lost>> /\ Tended(p)
  BY DEF RelistEnqueue, AllTended
<1>2. pass'.todo = pass.todo /\ pass'.dir = pass.dir /\ pass'.blob = pass.blob
  BY RelistEnqueueIs, TypeParts
<1>3. HandsKept(p) /\ KeptByWatcher(p) /\ KeptByWalk(p)
  BY <1>1, <1>2 DEF HandsKept, Noticed, Tended, Handed, KeptByWatcher, KeptByWalk
<1> QED
  BY <1>1, <1>3, Undisturbed

\* A map that somebody writes: what it held of a path is mapped now; a path that
\* somebody else holds is still held; and of one that nobody holds the mapping
\* stands, or is lost.
LEMMA WriteMapTends ==
  ASSUME IndexAssumption, IndexTypeOK, NEW who \in Walker \union {Watcher}, NEW files,
         NEW before, WriteMap(who, files, before),
         NEW p \in Path, Tended(p), disk'[p] = disk[p], Noticed(p) => Noticed(p)',
         newest[p] = who => files[p] = disk[p] \/ ~TakenOn(p),
         newest[p] = Nobody => p \in before \/ files[p] = map[p],
         newest[p] # who => KeptByWatcher(p) /\ KeptByWalk(p)
  PROVE  Tended(p)'
<1>1. newest'[p] = IF newest[p] = who THEN Nobody ELSE newest[p]
  BY LettingGoTyped, TypeParts DEF WriteMap
<1>2. map'[p] = files[p] /\ (p \in lost => p \in lost')
      /\ (p \in before /\ newest[p] = Nobody /\ files[p] # map[p] => p \in lost')
  BY DEF WriteMap
<1>3. who # Nobody /\ Nobody \notin Walker /\ Nobody # Watcher
  BY DEF IndexAssumption
<1>4. CASE newest[p] = who
  BY <1>1, <1>2, <1>3, <1>4 DEF Tended, Handed, Answered
<1>5. CASE newest[p] = Nobody
  BY <1>1, <1>2, <1>3, <1>5 DEF Tended, Handed, Answered
<1>6. CASE newest[p] # who /\ newest[p] # Nobody
  <2>1. newest'[p] = newest[p] /\ Handed(p)'
    BY <1>1, <1>6 DEF Handed, KeptByWatcher, KeptByWalk, Tended
  <2>2. TakenOn(p) => TakenOn(p)'
    BY <1>6, <2>1 DEF TakenOn, KeptByWatcher, KeptByWalk
  <2> QED
    BY <1>2, <1>6, <2>1, <2>2 DEF Tended, Answered
<1> QED
  BY <1>4, <1>5, <1>6

LEMMA RecordWalkTends ==
  ASSUME IndexAssumption, IndexTypeOK, Books, AllTended, RecordWalk
  PROVE  AllTended'
<1> SUFFICES ASSUME NEW p \in Path PROVE Tended(p)'
  BY DEF AllTended
<1> DEFINE before == pass.dir \union {r \in Path : pass.known[r] # map[r]}
<1>1. /\ UNCHANGED <<disk, root, walk, watched, inbox, pending>> /\ Tended(p)
      /\ WriteMap(Watcher, Rewalked, before) /\ pass' = AfterRelist
  BY DEF RecordWalk, AllTended
<1>2. Noticed(p) => Noticed(p)'
  BY <1>1, AfterRelistIs, TypeParts DEF Noticed
<1>3. Rewalked[p] = IF p \in pass.dir THEN pass.blob ELSE pass.known[p]
  BY DEF Rewalked
<1>4. newest[p] = Watcher => Rewalked[p] = disk[p] \/ ~TakenOn(p)
  BY <1>3 DEF TakenOn, IndexAssumption
<1>5. newest[p] = Nobody => p \in before \/ Rewalked[p] = map[p]
  BY <1>3
<1>6. newest[p] # Watcher => KeptByWatcher(p) /\ KeptByWalk(p)
  BY <1>1 DEF Tended, Handed, KeptByWatcher, KeptByWalk
<1> QED
  BY <1>1, <1>2, <1>4, <1>5, <1>6, WriteMapTends

\* Who gives up owns up to what it held.
LEMMA GivingUpTends ==
  ASSUME IndexAssumption, IndexTypeOK, NEW who \in Walker \union {Watcher}, newest' = LetGo(who),
         NEW p \in Path, Tended(p), UNCHANGED <<disk, map, root>>,
         lost \union InHandOf(who) \subseteq lost', Noticed(p) => Noticed(p)' \/ p \in lost',
         newest[p] # who => KeptByWatcher(p) /\ KeptByWalk(p)
  PROVE  Tended(p)'
<1>1. newest'[p] = IF newest[p] = who THEN Nobody ELSE newest[p]
  BY LettingGoTyped, TypeParts
<1>2. CASE newest[p] = who
  <2>1. p \in lost' /\ newest'[p] = Nobody
    BY <1>1, <1>2 DEF InHandOf
  <2> QED
    BY <2>1 DEF Tended, Handed, Answered, IndexAssumption
<1>3. CASE newest[p] # who
  BY <1>1, <1>3, Undisturbed DEF HandsKept
<1> QED
  BY <1>2, <1>3

LEMMA PassFailsTends ==
  ASSUME IndexAssumption, IndexTypeOK, AllTended, PassFails
  PROVE  AllTended'
<1> SUFFICES ASSUME NEW p \in Path PROVE Tended(p)'
  BY DEF AllTended
<1>1. /\ UNCHANGED <<disk, map, root, walk, watched, inbox, pending>> /\ Tended(p)
      /\ newest' = LetGo(Watcher) /\ lost' = lost \union InHandOf(Watcher) \union pass.todo
  BY DEF PassFails, store, AllTended
<1>2. Noticed(p) => Noticed(p)' \/ p \in lost'
  BY <1>1 DEF Noticed
<1>3. newest[p] # Watcher => KeptByWatcher(p) /\ KeptByWalk(p)
  BY <1>1 DEF Tended, Handed, KeptByWatcher, KeptByWalk
<1> QED
  BY <1>1, <1>2, <1>3, GivingUpTends

\* A walk whose place is not one where it holds anything, and stays so.
LEMMA EmptyHandedTends ==
  ASSUME IndexAssumption, AllTended, NEW w \in Walker, OnlyWalk(w),
         walk[w].at \in {"idle", "find", "discover", "enqueue"},
         UNCHANGED <<disk, map, newest, lost, root, watched, inbox, pending, pass>>
  PROVE  AllTended'
<1> SUFFICES ASSUME NEW p \in Path PROVE Tended(p)'
  BY DEF AllTended
<1>1. Tended(p) /\ newest[p] # w
  BY DEF AllTended, Tended, Handed
<1>2. KeptByWatcher(p) /\ KeptByWalk(p)
  BY <1>1 DEF Tended, Handed, KeptByWatcher, KeptByWalk, OnlyWalk
<1> QED
  BY <1>1, <1>2, Undisturbed DEF HandsKept, Noticed

\* The walk takes on every file, and has those that are there on its list.
LEMMA DiscoverTends ==
  ASSUME IndexAssumption, IndexTypeOK, Books, AllTended, NEW w \in Walker, Discover(w)
  PROVE  AllTended'
<1> SUFFICES ASSUME NEW p \in Path PROVE Tended(p)'
  BY DEF AllTended
<1>1. newest'[p] = w /\ disk'[p] = disk[p]
  BY TakingTyped, TypeParts DEF Discover
<1>2. /\ walk'[w].at = "register" /\ walk'[w].todo = {r \in Path : disk[r] # NoFile}
      /\ walk'[w].files[p] = NoFile
  BY DiscoverIs, TypeParts DEF Books, WalksHold, WalkHolds, Nothing
<1>3. p \in walk'[w].todo \/ walk'[w].files[p] = disk'[p]
  BY <1>1, <1>2
<1>4. w # Nobody /\ w # Watcher
  BY DEF IndexAssumption
<1> QED
  BY <1>1, <1>2, <1>3, <1>4 DEF Tended, Handed, Answered, TakenOn

\* What was taken on before the root had its row is of the row it gets.
LEMMA RegisterTends ==
  ASSUME IndexAssumption, IndexTypeOK, AllTended, NEW w \in Walker, RegisterWorktree(w)
  PROVE  AllTended'
<1> SUFFICES ASSUME NEW p \in Path PROVE Tended(p)'
  BY DEF AllTended
<1>1. /\ UNCHANGED <<disk, map, newest, lost, watched, inbox, pending, pass>> /\ Tended(p)
  BY DEF RegisterWorktree, ghosts, AllTended
<1>2. /\ OnlyWalk(w) /\ root' # 0 /\ (root # 0 => root' = root)
      /\ walk'[w].at \in {"compare", "hash"} /\ walk'[w].root = root'
      /\ walk'[w].todo = walk[w].todo /\ walk'[w].files = walk[w].files
  BY RegisterIs, TypeParts
<1>3. KeptByWatcher(p) /\ KeptByWalk(p)
  BY <1>1, <1>2 DEF Tended, Handed, KeptByWatcher, KeptByWalk, OnlyWalk
<1> QED
  BY <1>1, <1>3, Undisturbed DEF HandsKept, Noticed

\* The walk takes hold of what the file is now.
LEMMA HashFileTends ==
  ASSUME IndexAssumption, IndexTypeOK, Books, AllTended, NEW w \in Walker, NEW q \in Path,
         HashFile(w, q)
  PROVE  AllTended'
<1> SUFFICES ASSUME NEW p \in Path PROVE Tended(p)'
  BY DEF AllTended
<1>1. /\ UNCHANGED <<disk, map, root, watched, inbox, pending, pass>> /\ Tended(p)
  BY DEF HashFile, store, AllTended
<1>2. /\ walk[w].at = "hash" /\ OnlyWalk(w)
      /\ walk'[w].at \in {"compare", "hash"}
      /\ walk'[w].todo = walk[w].todo \ {q} /\ walk'[w].root = walk[w].root
      /\ walk'[w].files[q] = disk[q]
      /\ \A r \in Path \ {q} : walk'[w].files[r] = walk[w].files[r]
  BY HashFileIs, TypeParts
<1>3. walk[w].root # 0
  BY <1>2 DEF Books, WalksHold, WalkHolds
<1>4. w # Nobody /\ w # Watcher
  BY DEF IndexAssumption
<1>5. CASE Current(w) /\ p = q
  <2>1. newest'[p] = w
    BY <1>5, TakingTyped, TypeParts DEF HashFile
  <2>2. walk'[w].root = root' /\ root' # 0
    BY <1>1, <1>2, <1>3, <1>5 DEF Current
  <2> QED
    BY <1>1, <1>2, <1>4, <1>5, <2>1, <2>2 DEF Tended, Handed, Answered, TakenOn
<1>6. CASE ~Current(w) \/ p # q
  <2>1. newest'[p] = newest[p] /\ (p \in lost => p \in lost')
    BY <1>6, TakingTyped, TypeParts DEF HashFile
  <2>2. ~Current(w) => newest[p] # w
    BY <1>1, <1>2 DEF Tended, Handed, Current
  <2>3. KeptByWatcher(p)
    BY <1>1 DEF Tended, Handed, KeptByWatcher
  <2>4. KeptByWalk(p)
    BY <1>1, <1>2, <1>3, <1>6, <2>2 DEF Tended, Handed, KeptByWalk, OnlyWalk, Current
  <2> QED
    BY <1>1, <2>1, <2>3, <2>4, Undisturbed DEF HandsKept, Noticed
<1> QED
  BY <1>5, <1>6

LEMMA CompareTends ==
  ASSUME IndexTypeOK, AllTended, NEW w \in Walker, Compare(w)
  PROVE  AllTended'
<1> SUFFICES ASSUME NEW p \in Path PROVE Tended(p)'
  BY DEF AllTended
<1>1. /\ UNCHANGED <<disk, map, root, newest, lost, watched, inbox, pending, pass>> /\ Tended(p)
  BY DEF Compare, store, ghosts, AllTended
<1>2. /\ walk[w].at = "compare" /\ OnlyWalk(w) /\ walk'[w].at = "sync"
      /\ walk'[w].todo = walk[w].todo /\ walk'[w].root = walk[w].root
      /\ walk'[w].files = walk[w].files
  BY CompareIs, TypeParts
<1>3. KeptByWatcher(p) /\ KeptByWalk(p)
  BY <1>1, <1>2 DEF Tended, Handed, KeptByWatcher, KeptByWalk, OnlyWalk
<1> QED
  BY <1>1, <1>3, Undisturbed DEF HandsKept, Noticed

\* The map becomes what the walk holds.
LEMMA SyncTends ==
  ASSUME IndexAssumption, IndexTypeOK, Books, AllTended, NEW w \in Walker, SyncWorktreeFiles(w)
  PROVE  AllTended'
<1> SUFFICES ASSUME NEW p \in Path PROVE Tended(p)'
  BY DEF AllTended
<1> DEFINE todo == {r \in Path : NeedsScan(w, r)}
<1>1. /\ UNCHANGED <<disk, root, watched, inbox, pending, pass>> /\ Tended(p)
      /\ walk[w].at = "sync" /\ WriteMap(w, walk[w].files, Path) /\ walk' = Enqueuing(w, todo)
  BY DEF SyncWorktreeFiles, AllTended
<1>2. todo \in SUBSET Path
  OBVIOUS
<1> HIDE DEF todo
<1>3. OnlyWalk(w)
  BY <1>1, <1>2, EnqueuingIs, TypeParts
<1>4. Noticed(p) => Noticed(p)'
  BY <1>1 DEF Noticed
<1>5. newest[p] = w => walk[w].files[p] = disk[p] \/ ~TakenOn(p)
  <2>1. walk[w].todo = {} /\ w # Watcher
    BY <1>1 DEF Books, WalksHold, WalkHolds, IndexAssumption
  <2> QED
    BY <2>1 DEF TakenOn
<1>6. newest[p] # w => KeptByWatcher(p) /\ KeptByWalk(p)
  BY <1>1, <1>3 DEF Tended, Handed, KeptByWatcher, KeptByWalk, OnlyWalk
<1> QED
  BY <1>1, <1>4, <1>5, <1>6, WriteMapTends

LEMMA WalkFailsTends ==
  ASSUME IndexAssumption, IndexTypeOK, AllTended, NEW w \in Walker, WalkFails(w)
  PROVE  AllTended'
<1> SUFFICES ASSUME NEW p \in Path PROVE Tended(p)'
  BY DEF AllTended
<1>1. /\ UNCHANGED <<disk, map, root, watched, inbox, pending, pass>> /\ Tended(p)
      /\ lost' = lost \union InHandOf(w) /\ newest' = LetGo(w)
      /\ walk' = [walk EXCEPT ![w] = NoWalk]
  BY DEF WalkFails, store, AllTended
<1>2. OnlyWalk(w)
  BY <1>1, EndsIs, TypeParts
<1>3. newest[p] # w => KeptByWatcher(p) /\ KeptByWalk(p)
  BY <1>1, <1>2 DEF Tended, Handed, KeptByWatcher, KeptByWalk, OnlyWalk
<1> QED
  BY <1>1, <1>3, GivingUpTends DEF Noticed

LEMMA WalkTends ==
  ASSUME IndexAssumption, IndexTypeOK, Books, AllTended, NEW w \in Walker,
         Add(w) \/ WalkSteps(w) \/ WalkFails(w)
  PROVE  AllTended'
<1>1. CASE Add(w)
  BY <1>1, FindIs, EmptyHandedTends, TypeParts DEF Add, ghosts, store
<1>2. CASE w = Reparser /\ Rescan
  BY <1>2, RescanIs, EmptyHandedTends, TypeParts DEF Rescan, ghosts, store
<1>3. ASSUME NEW p \in Path, EnqueueFile(w, p) PROVE AllTended'
  <2> DEFINE todo == walk[w].todo \ {p}
  <2>1. todo \in SUBSET Path
    BY TypeParts DEF WalkTyped, WalkType
  <2>2. walk' = Enqueuing(w, todo)
    BY <1>3 DEF EnqueueFile
  <2> HIDE DEF todo
  <2>3. OnlyWalk(w)
    BY <2>1, <2>2, EnqueuingIs, TypeParts
  <2> QED
    BY <1>3, <2>3, EmptyHandedTends DEF EnqueueFile
<1> QED
  BY <1>1, <1>2, <1>3, DiscoverTends, RegisterTends, HashFileTends, CompareTends, SyncTends,
     WalkFailsTends DEF WalkSteps

\* Nobody holds a path of a root that is gone but a walk that will register it.
LEMMA RemoveRootTends ==
  ASSUME IndexAssumption, IndexTypeOK, AllTended, RemoveRoot
  PROVE  AllTended'
<1> SUFFICES ASSUME NEW p \in Path PROVE Tended(p)'
  BY DEF AllTended
<1>1. /\ UNCHANGED <<disk, watched, inbox, pending, pass, walk>> /\ Tended(p)
      /\ newest'[p] = IF newest[p] \in Unregistered THEN newest[p] ELSE Nobody
      /\ lost \subseteq lost' /\ (newest[p] \notin Unregistered => p \in lost')
  BY DEF RemoveRoot, daemon, AllTended
<1>2. CASE newest[p] \in Unregistered
  <2>1. PICK w \in Walker : newest[p] = w /\ walk[w].at = "register"
    BY <1>2 DEF Unregistered
  <2>2. w # Watcher /\ w # Nobody
    BY DEF IndexAssumption
  <2> QED
    BY <1>1, <1>2, <2>1, <2>2 DEF Tended, Handed, Answered, Noticed, TakenOn
<1>3. CASE newest[p] \notin Unregistered
  BY <1>1, <1>3 DEF Tended, Handed, Answered, IndexAssumption
<1> QED
  BY <1>2, <1>3

\* What was in memory is lost, and is said to be.
LEMMA DieTends ==
  ASSUME IndexAssumption, AllTended, Die, UNCHANGED <<disk, map, root>>
  PROVE  AllTended'
<1> SUFFICES ASSUME NEW p \in Path PROVE Tended(p)'
  BY DEF AllTended
<1>1. /\ Tended(p) /\ newest'[p] = Nobody
      /\ p \notin lost' => p \notin lost /\ ~Noticed(p) /\ newest[p] = Nobody
  BY DEF Die, AllTended, Noticed
<1> QED
  BY <1>1 DEF Tended, Handed, Answered, IndexAssumption

\* The parts of the state it speaks of.
seen == <<disk, map, root, watched, inbox, pending, pass, walk, newest, lost>>

LEMMA StillTended == ASSUME AllTended, UNCHANGED seen PROVE AllTended'
BY DEF AllTended, Tended, Handed, Answered, Noticed, TakenOn, seen

LEMMA NextTends ==
  ASSUME IndexAssumption, IndexTypeOK, Books, AllTended, IndexNext
  PROVE  AllTended'
<1>1. ASSUME NEW p \in Path, Edit(p) \/ Relist(p) \/ RelistEnqueue(p) PROVE AllTended'
  BY <1>1, EditTends, RelistTends, RelistEnqueueTends
<1>2. ASSUME NEW settled \in SUBSET Path, BeginPass(settled) PROVE AllTended'
  BY <1>2, BeginPassTends
<1>3. CASE RecordWalk \/ PassFails
  BY <1>3, RecordWalkTends, PassFailsTends
<1>4. CASE Reparse
  BY <1>4, ReparseIs, EmptyHandedTends, TypeParts DEF Reparse, ghosts, store
<1>5. ASSUME NEW w \in Walker, Add(w) \/ WalkSteps(w) \/ WalkFails(w) PROVE AllTended'
  BY <1>5, WalkTends
<1>6. CASE RemoveRoot
  BY <1>6, RemoveRootTends
<1>7. CASE CrashAndBoot \/ Upgrade
  BY <1>7, DieTends DEF CrashAndBoot, Upgrade
<1>8. CASE CollectGarbage
  BY <1>8, StillTended DEF CollectGarbage, daemon, seen
<1>9. ASSUME NEW i \in RootId, NEW p \in Path, TaskSteps(i, p) \/ ScanFails(i, p)
      PROVE  AllTended'
  BY <1>9, StillTended DEF TaskSteps, Claim, Scan, ScanDone, ScanFails, seen, ghosts
<1> QED
  BY <1>1, <1>2, <1>3, <1>4, <1>5, <1>6, <1>7, <1>8, <1>9 DEF IndexNext

\* Every file has somebody who answers for it, at every moment and for any
\* number of walkers.
THEOREM Invariance ==
  ASSUME IndexAssumption
  PROVE  IndexSteps => []AllTended
<1>1. IndexInit => AllTended
  BY InitTended
<1>2. IndexTypeOK /\ Books /\ AllTended /\ [IndexNext]_ivars => AllTended'
  <2>1. ASSUME AllTended, UNCHANGED ivars PROVE AllTended'
    BY <2>1, StillTended DEF ivars, seen, store, daemon, ghosts
  <2> QED
    BY <2>1, NextTends
<1> QED
  BY <1>1, <1>2, Bookkeeping, PTL DEF IndexSteps

\* Whatever edits, passes, removals and restarts interleave with any number of
\* walks that overlap, a file that differs from its mapping is about to be looked
\* at, or is in the hands of who looked last and is going to map what it holds,
\* unless its last change was lost in one of the ways that are named where they
\* happen.
THEOREM StaleNoticed ==
  ASSUME IndexAssumption
  PROVE  IndexSpec => []StaleIsNoticed
<1>1. AllTended => StaleIsNoticed
  BY DEF AllTended, Tended, Answered, StaleIsNoticed
<1> QED
  BY <1>1, Invariance, PTL DEF IndexSpec, IndexSteps

-----------------------------------------------------------------------------
(* The mappings.  What a walk or a pass carries to a later write of the    *)
(* map is covered all along, so the map is when it is written.             *)

\* What a walk found parsed before it writes the map stays covered until it
\* does.
WalksKnow ==
  root # 0 => \A w \in Walker :
    walk[w].at = "sync" /\ Current(w) =>
      \A p \in Path : walk[w].files[p] \in walk[w].parsed => Covered(p, walk[w].files[p])

\* What a pass read of the map, and what it has queued, stay covered until it
\* writes the map back.
PassKnows ==
  root # 0 /\ watched = root /\ pass.at \in {"enqueue", "record"} =>
    /\ \A p \in Path \ pass.dir : Covered(p, pass.known[p])
    /\ pass.at = "record" => \A p \in pass.dir : Covered(p, pass.blob)

Mappings == MappedIsParsed /\ WalksKnow /\ PassKnows

Sound == IndexTypeOK /\ Books

\* A step that touches no row, no parse and no walk that is queueing.
LEMMA CoverFrame ==
  ASSUME NEW p \in Path, NEW b, Covered(p, b),
         UNCHANGED <<root, job, task, trees, older, dropped>>,
         \A w \in Walker : walk[w].at = "enqueue" => walk'[w] = walk[w]
  PROVE  Covered(p, b)'
<1>1. \A w \in Walker : walk[w].at = "enqueue" /\ Current(w) => walk'[w] = walk[w] /\ Current(w)'
  BY DEF Current
<1> QED
  BY <1>1 DEF Covered, ScanComing

\* The upsert takes a payload off the queue only for another, and says so.
LEMMA QueueCovers ==
  ASSUME Sound, root # 0, NEW i \in RootId, NEW q \in Path, NEW c \in BlobOrNone, Queue(i, q, c),
         UNCHANGED <<root, task, trees, older>>,
         NEW p \in Path, NEW b \in BlobOrNone
  PROVE  /\ i = root => Covered(q, c)'
         /\ \/ b \in DOMAIN trees \union older \union {NoFile}
            \/ <<p, b>> \in dropped
            \/ ScanComing(p, b)
            => Covered(p, b)'
<1>1. /\ job'[i][q] = [state |-> IF job[i][q].state = "running" THEN "running" ELSE "pending",
                       blob |-> c]
      /\ OnlyAt(i, q)
  BY QueueIs, TypeParts DEF Sound
<1>2. dropped' = IF i # root THEN dropped
                 ELSE (dropped \ {<<q, c>>})
                      \union (IF job[i][q].blob \notin {NoFile, c} THEN {<<q, job[i][q].blob>>}
                              ELSE {})
                      \union (IF Absorbed(i, q, c) THEN {<<q, c>>} ELSE {})
  BY DEF Queue
<1>3. root \in RootId
  BY TypeParts DEF Sound, RootTyped, RootId
<1>4. /\ job[root][q].state = "running" <=> task[root][q].at # "idle"
      /\ task[root][q] \in Task
  BY <1>3, RowTyped, TypeParts DEF Sound, Books, RowsAndTasks
<1>5. i = root => Covered(q, c)'
  <2> SUFFICES ASSUME i = root PROVE Covered(q, c)'
    OBVIOUS
  <2>1. CASE task[root][q].at = "idle"
    BY <1>1, <1>4, <2>1 DEF Covered, ScanComing
  <2>2. CASE task[root][q].at # "idle" /\ Absorbed(i, q, c)
    BY <1>2, <2>2 DEF Covered
  <2>3. CASE task[root][q].at # "idle" /\ ~Absorbed(i, q, c)
    <3>1. CASE task[root][q].at = "settle"
      BY <2>3, <3>1 DEF Absorbed, Covered
    <3>2. CASE task[root][q].at # "settle"
      <4>1. task[root][q] = [at |-> "scan", blob |-> c]
        BY <1>4, <2>3, <3>2 DEF Absorbed, Task
      <4> QED
        BY <1>1, <1>4, <2>3, <4>1 DEF Covered, ScanComing
    <3> QED
      BY <3>1, <3>2
  <2> QED
    BY <2>1, <2>2, <2>3
<1>6. ASSUME b \in DOMAIN trees \union older \union {NoFile} PROVE Covered(p, b)'
  BY <1>6 DEF Covered
<1>7. ASSUME <<p, b>> \in dropped PROVE Covered(p, b)'
  <2>1. CASE i = root /\ p = q /\ b = c
    BY <1>5, <2>1
  <2>2. CASE ~(i = root /\ p = q /\ b = c)
    BY <1>2, <1>7, <2>2 DEF Covered
  <2> QED
    BY <2>1, <2>2
<1>8. ASSUME ScanComing(p, b), b # NoFile PROVE Covered(p, b)'
  <2>1. CASE i # root \/ p # q
    BY <1>1, <1>3, <1>8, <2>1 DEF Covered, ScanComing, OnlyAt
  <2>2. CASE i = root /\ p = q /\ b # c
    BY <1>2, <1>8, <2>2 DEF Covered, ScanComing
  <2>3. CASE i = root /\ p = q /\ b = c
    BY <1>5, <2>3
  <2> QED
    BY <2>1, <2>2, <2>3
<1> QED
  BY <1>5, <1>6, <1>7, <1>8

LEMMA RelistEnqueueCovers ==
  ASSUME Sound, root # 0, NEW q \in Path, RelistEnqueue(q), NEW p \in Path, NEW b \in BlobOrNone,
         NEW c, c = pass.blob
  PROVE  /\ watched = root => Covered(q, c)'
         /\ Covered(p, b) => Covered(p, b)'
<1>1. /\ Queue(watched, q, c) /\ pass.at = "enqueue"
      /\ UNCHANGED <<root, task, trees, older, walk>>
  BY DEF RelistEnqueue
<1>2. watched \in RootId /\ c \in BlobOrNone
  BY <1>1, TypeParts DEF Sound, Books, PassHolds, WatchTyped, RootId, PassTyped
<1>3. /\ watched = root => Covered(q, c)'
      /\ \/ b \in DOMAIN trees \union older \union {NoFile}
         \/ <<p, b>> \in dropped
         \/ ScanComing(p, b)
         => Covered(p, b)'
  BY <1>1, <1>2, QueueCovers
<1> QED
  BY <1>1, <1>3 DEF Covered, Current

LEMMA EnqueueFileCovers ==
  ASSUME IndexAssumption, Sound, root # 0, NEW w \in Walker, NEW q \in Path, EnqueueFile(w, q),
         NEW p \in Path, NEW b \in BlobOrNone, Covered(p, b)
  PROVE  Covered(p, b)'
<1> DEFINE todo == walk[w].todo \ {q}
<1> PICK c : c = walk[w].files[q]
  OBVIOUS
<1>1. /\ walk[w].at = "enqueue" /\ q \in walk[w].todo /\ Queue(walk[w].root, q, c)
      /\ walk' = Enqueuing(w, todo)
      /\ UNCHANGED <<root, task, trees, older>>
  BY DEF EnqueueFile
<1>2. walk[w].root \in RootId /\ c \in BlobOrNone /\ todo \in SUBSET Path
  BY <1>1, TypeParts DEF Sound, Books, WalksHold, WalkHolds, RootId, WalkTyped, WalkType, Map
<1>3. /\ walk[w].root = root => Covered(q, c)'
      /\ \/ b \in DOMAIN trees \union older \union {NoFile}
         \/ <<p, b>> \in dropped
         \/ ScanComing(p, b)
         => Covered(p, b)'
  BY <1>1, <1>2, QueueCovers
<1>4. /\ OnlyWalk(w)
      /\ todo # {} => /\ walk'[w].at = "enqueue" /\ walk'[w].root = walk[w].root
                      /\ walk'[w].todo = todo /\ walk'[w].files = walk[w].files
  BY <1>1, <1>2, EnqueuingIs, TypeParts DEF Sound
<1>5. ASSUME NEW v \in Walker, walk[v].at = "enqueue", Current(v), p \in walk[v].todo,
             walk[v].files[p] = b
      PROVE  Covered(p, b)'
  <2>1. CASE v # w
    <3>1. walk'[v] = walk[v] /\ walk'[v].root = root'
      BY <1>1, <1>4, <1>5, <2>1 DEF OnlyWalk, Current
    <3> QED
      BY <1>5, <3>1 DEF Covered, Current
  <2>2. CASE v = w /\ p = q
    BY <1>3, <1>5, <2>2 DEF Current
  <2>3. CASE v = w /\ p # q
    <3>1. p \in todo /\ walk[w].root = root
      BY <1>5, <2>3 DEF Current
    <3> HIDE DEF todo
    <3>2. /\ walk'[w].at = "enqueue" /\ walk'[w].root = root' /\ p \in walk'[w].todo
          /\ walk'[w].files[p] = b
      BY <1>1, <1>4, <1>5, <2>3, <3>1
    <3> QED
      BY <3>2 DEF Covered, Current
  <2> QED
    BY <2>1, <2>2, <2>3
<1> QED
  BY <1>3, <1>5 DEF Covered

\* A scan leaves the parse, or is dropped and says so.
LEMMA TaskCovers ==
  ASSUME Sound, root # 0, NEW i \in RootId, NEW q \in Path, TaskSteps(i, q) \/ ScanFails(i, q),
         NEW p \in Path, NEW b \in BlobOrNone, Covered(p, b)
  PROVE  Covered(p, b)'
<1>1. /\ UNCHANGED <<root, walk>> /\ root \in RootId
      /\ \A w \in Walker : Current(w)' <=> Current(w)
  BY TypeParts DEF Current, TaskSteps, Claim, Scan, ScanDone, ScanFails, Sound, RootTyped, RootId
<1>2. /\ job[root][p].state = "running" <=> task[root][p].at # "idle"
      /\ job[root][p] \in Row /\ task[root][p] \in Task
  BY <1>1, RowTyped, TypeParts DEF Sound, Books, RowsAndTasks
<1>3. CASE ~ScanComing(p, b) /\ ~Scan(i, q)
  <2>1. UNCHANGED <<trees, older, dropped>>
    BY <1>3 DEF TaskSteps, Claim, ScanDone, ScanFails, ghosts
  <2> QED
    BY <1>1, <1>3, <2>1 DEF Covered
<1>4. ASSUME Scan(i, q) PROVE Covered(p, b)'
  <2>1. /\ DOMAIN trees \subseteq DOMAIN trees' /\ older' = older \ DOMAIN trees'
        /\ dropped' = IF task[i][q].blob \in DOMAIN trees'
                      THEN {d \in dropped : d[2] # task[i][q].blob}
                      ELSE IF i # root THEN dropped ELSE dropped \union {<<q, task[i][q].blob>>}
    BY <1>4 DEF Scan, Scanned
  <2>2. /\ task[i][q].at = "scan" /\ job'[i][q] = job[i][q] /\ OnlyAt(i, q)
    BY <1>4, ScanIs, TypeParts DEF Sound
  <2>3. CASE ScanComing(p, b)
    <3>1. CASE i = root /\ p = q
      <4>1. task[i][q].blob = b
        BY <1>2, <2>2, <2>3, <3>1 DEF ScanComing
      <4> QED
        BY <2>1, <3>1, <4>1 DEF Covered
    <3>2. CASE ~(i = root /\ p = q)
      <4>1. job'[root][p] = job[root][p] /\ task'[root][p] = task[root][p]
        BY <1>1, <2>2, <3>2 DEF OnlyAt
      <4> QED
        BY <1>1, <2>3, <4>1 DEF Covered, ScanComing
    <3> QED
      BY <3>1, <3>2
  <2>4. CASE <<p, b>> \in dropped
    BY <2>1, <2>4 DEF Covered
  <2> QED
    BY <1>1, <2>1, <2>3, <2>4 DEF Covered
<1>5. ASSUME ScanComing(p, b), Claim(i, q) PROVE Covered(p, b)'
  <2>1. /\ job'[i][q] = [state |-> "running", blob |-> job[i][q].blob]
        /\ task'[i][q] = [at |-> "scan", blob |-> job[i][q].blob] /\ OnlyAt(i, q)
    BY <1>5, ClaimIs, TypeParts DEF Sound
  <2>2. CASE i = root /\ p = q
    BY <1>1, <1>5, <2>1, <2>2 DEF Covered, ScanComing
  <2>3. CASE ~(i = root /\ p = q)
    BY <1>1, <1>5, <2>1, <2>3 DEF Covered, ScanComing, OnlyAt
  <2> QED
    BY <2>2, <2>3
<1>6. ASSUME NEW state, Settle(i, q, state), task[i][q].at # "idle", ScanComing(p, b),
             \/ state \in {"pending", "failed"}
             \/ state = "none" /\ task[i][q].at = "settle"
      PROVE  Covered(p, b)'
  <2>1. job'[i][q] = Settled(job[i][q], state) /\ OnlyAt(i, q)
    BY <1>6, SettlesIt, TypeParts DEF Sound
  <2>2. CASE i = root /\ p = q
    <3>1. job[root][p].state = "running"
      BY <1>2, <1>6, <2>2
    <3>2. task[root][p].at = "scan"
      BY <1>6, <3>1 DEF ScanComing
    <3>3. state \in {"pending", "failed"}
      BY <1>6, <2>2, <3>2
    <3>4. job'[root][p] = [job[root][p] EXCEPT !.state = state]
      BY <2>1, <2>2, <3>1, <3>3 DEF Settled
    <3>5. job'[root][p].state = state /\ job'[root][p].blob = b
      BY <1>2, <1>6, <3>4 DEF Row, ScanComing
    <3> QED
      BY <1>1, <3>3, <3>5 DEF Covered, ScanComing
  <2>3. CASE ~(i = root /\ p = q)
    BY <1>1, <1>6, <2>1, <2>3 DEF Covered, ScanComing, OnlyAt
  <2> QED
    BY <2>2, <2>3
<1>7. CASE ScanComing(p, b) /\ (ScanDone(i, q) \/ ScanFails(i, q))
  BY <1>6, <1>7 DEF ScanDone, ScanFails
<1> QED
  BY <1>3, <1>4, <1>5, <1>7 DEF TaskSteps

\* A boot sweeps the rows; what a walk had still to queue is said to be
\* dropped.
LEMMA DieCovers ==
  ASSUME Sound, root # 0, Die, UNCHANGED root, NEW p \in Path, NEW b \in BlobOrNone, Covered(p, b),
         DOMAIN trees \union older = DOMAIN trees' \union older'
  PROVE  Covered(p, b)'
<1>1. root \in RootId
  BY TypeParts DEF Sound, RootTyped, RootId
<1>2. job'[root][p] = Requeued(job[root][p]) /\ job[root][p] \in Row
  BY <1>1, RowTyped, TypeParts DEF Die, Sound
<1>3. dropped' = dropped \union UNION {Unqueued(w) : w \in Walker}
  BY DEF Die
<1>4. ASSUME NEW w \in Walker, walk[w].at = "enqueue", Current(w), p \in walk[w].todo,
             walk[w].files[p] = b
      PROVE  Covered(p, b)'
  <2>1. <<p, b>> \in Unqueued(w)
    BY <1>4 DEF Unqueued
  <2>2. <<p, b>> \in dropped'
    BY <1>3, <2>1
  <2> QED
    BY <2>2 DEF Covered
<1>5. CASE ScanComing(p, b)
  <2>1. job'[root][p].state \in {"pending", "failed"} /\ job'[root][p].blob = b
    BY <1>2, <1>5 DEF ScanComing, Requeued, Row
  <2> QED
    BY <2>1 DEF Covered, ScanComing
<1>6. CASE b \in DOMAIN trees \union older \union {NoFile} \/ <<p, b>> \in dropped
  BY <1>3, <1>6 DEF Covered
<1> QED
  BY <1>4, <1>5, <1>6 DEF Covered

LEMMA WalkFailsCovers ==
  ASSUME IndexAssumption, Sound, root # 0, NEW w \in Walker, WalkFails(w), NEW p \in Path,
         NEW b \in BlobOrNone, Covered(p, b)
  PROVE  Covered(p, b)'
<1>1. /\ dropped' = dropped \union Unqueued(w) /\ UNCHANGED <<root, job, task, trees, older>>
      /\ walk' = [walk EXCEPT ![w] = NoWalk]
  BY DEF WalkFails, store
<1>2. OnlyWalk(w)
  BY <1>1, EndsIs, TypeParts DEF Sound
<1>3. ASSUME NEW v \in Walker, walk[v].at = "enqueue", Current(v), p \in walk[v].todo,
             walk[v].files[p] = b
      PROVE  Covered(p, b)'
  <2>1. CASE v = w
    <3>1. <<p, b>> \in Unqueued(w)
      BY <1>3, <2>1 DEF Unqueued
    <3> QED
      BY <1>1, <3>1 DEF Covered
  <2>2. CASE v # w
    <3>1. walk'[v] = walk[v] /\ walk'[v].root = root'
      BY <1>1, <1>2, <1>3, <2>2 DEF OnlyWalk, Current
    <3> QED
      BY <1>3, <3>1 DEF Covered, Current
  <2> QED
    BY <2>1, <2>2
<1> QED
  BY <1>1, <1>3 DEF Covered, ScanComing

\* A collection takes only what is not mapped, and owns up to what a walk or a
\* pass is about to map.
LEMMA CollectCovers ==
  ASSUME CollectGarbage, NEW p \in Path, NEW b, Covered(p, b),
         b \in Held \/ <<p, b>> \in InHand
  PROVE  Covered(p, b)'
<1>1. PICK gone : /\ gone = (DOMAIN trees \union older) \ Held
                  /\ trees' = Restrict(trees, DOMAIN trees \ gone) /\ older' = older \ gone
                  /\ dropped' = dropped \union {d \in InHand : d[2] \in gone}
  BY DEF CollectGarbage
<1>2. UNCHANGED <<root, job, task, walk>> /\ \A w \in Walker : Current(w)' <=> Current(w)
  BY DEF CollectGarbage, daemon, Current
<1>3. DOMAIN trees' = DOMAIN trees \ gone
  BY <1>1 DEF Restrict
<1>4. CASE b \in gone
  BY <1>1, <1>4 DEF Covered
<1>5. CASE b \notin gone
  BY <1>1, <1>2, <1>3, <1>5 DEF Covered, ScanComing
<1> QED
  BY <1>4, <1>5

\* The three, said of what is carried after a step.
LEMMA MappedThen ==
  ASSUME IndexTypeOK',
         root' # 0 => \A p \in Path, b \in BlobOrNone : b = map'[p] => Covered(p, b)'
  PROVE  MappedIsParsed'
<1>1. \A p \in Path : map'[p] \in BlobOrNone
  BY TypePartsThen DEF FilesTyped, Map
<1> QED
  BY <1>1 DEF MappedIsParsed, Covered

LEMMA WalkThen ==
  ASSUME IndexTypeOK',
         root' # 0 => \A w \in Walker, p \in Path, b \in BlobOrNone :
           /\ walk'[w].at = "sync" /\ walk'[w].root = root'
           /\ b = walk'[w].files[p] /\ b \in walk'[w].parsed
           => Covered(p, b)'
  PROVE  WalksKnow'
<1>1. \A w \in Walker, p \in Path : walk'[w].files[p] \in BlobOrNone
  BY TypePartsThen DEF WalkTyped, WalkType, Map
<1> QED
  BY <1>1 DEF WalksKnow, Covered, Current

LEMMA PassThen ==
  ASSUME IndexTypeOK',
         root' # 0 /\ watched' = root' /\ pass'.at \in {"enqueue", "record"} =>
           \A p \in Path, b \in BlobOrNone :
             \/ p \notin pass'.dir /\ b = pass'.known[p]
             \/ p \in pass'.dir /\ pass'.at = "record" /\ b = pass'.blob
             => Covered(p, b)'
  PROVE  PassKnows'
<1>1. /\ \A p \in Path : pass'.known[p] \in BlobOrNone
      /\ pass'.blob \in BlobOrNone /\ pass'.dir \subseteq Path
  BY TypePartsThen DEF PassTyped, Map
<1> QED
  BY <1>1 DEF PassKnows, Covered

\* A step that uncovers nothing.
CoverStands ==
  /\ root' = root
  /\ root # 0 => \A p \in Path, b \in BlobOrNone : Covered(p, b) => Covered(p, b)'

LEMMA MappedStays ==
  ASSUME IndexTypeOK', MappedIsParsed, CoverStands, UNCHANGED map
  PROVE  MappedIsParsed'
<1>1. root' # 0 => \A p \in Path, b \in BlobOrNone : b = map'[p] => Covered(p, b)'
  BY DEF MappedIsParsed, CoverStands
<1> QED
  BY <1>1, MappedThen

LEMMA WalkStays ==
  ASSUME IndexTypeOK', WalksKnow, CoverStands,
         \A w \in Walker : walk'[w].at # "sync" \/ walk'[w] = walk[w]
  PROVE  WalksKnow'
<1>1. root' # 0 => \A w \in Walker, p \in Path, b \in BlobOrNone :
        /\ walk'[w].at = "sync" /\ walk'[w].root = root'
        /\ b = walk'[w].files[p] /\ b \in walk'[w].parsed
        => Covered(p, b)'
  BY DEF WalksKnow, CoverStands, Current
<1> QED
  BY <1>1, WalkThen

LEMMA PassStays ==
  ASSUME IndexTypeOK', PassKnows, CoverStands,
         pass'.at \notin {"enqueue", "record"} \/ UNCHANGED <<watched, pass>>
  PROVE  PassKnows'
<1>1. root' # 0 /\ watched' = root' /\ pass'.at \in {"enqueue", "record"} =>
        \A p \in Path, b \in BlobOrNone :
          \/ p \notin pass'.dir /\ b = pass'.known[p]
          \/ p \in pass'.dir /\ pass'.at = "record" /\ b = pass'.blob
          => Covered(p, b)'
  BY DEF PassKnows, CoverStands
<1> QED
  BY <1>1, PassThen

LEMMA FrameStands ==
  ASSUME UNCHANGED <<root, job, task, trees, older, dropped>>,
         \A w \in Walker : walk[w].at = "enqueue" => walk'[w] = walk[w]
  PROVE  CoverStands
BY CoverFrame DEF CoverStands

\* A step that touches nothing but a walk that neither queues nor comes to write
\* the map.
LEMMA NeutralMaps ==
  ASSUME IndexTypeOK', Mappings, NEW w \in Walker, OnlyWalk(w), walk[w].at # "enqueue",
         walk'[w].at # "sync",
         UNCHANGED <<root, map, job, task, trees, older, dropped, watched, pass>>
  PROVE  Mappings'
<1>1. CoverStands /\ \A v \in Walker : walk'[v].at # "sync" \/ walk'[v] = walk[v]
  BY FrameStands DEF OnlyWalk
<1> QED
  BY <1>1, MappedStays, WalkStays, PassStays DEF Mappings

LEMMA PassMaps ==
  ASSUME Sound, IndexTypeOK', Mappings,
         \/ \E p \in Path : Edit(p) \/ Relist(p) \/ RelistEnqueue(p)
         \/ \E settled \in SUBSET Path : BeginPass(settled)
         \/ RecordWalk \/ PassFails
  PROVE  Mappings'
<1>1. ASSUME NEW p \in Path, Edit(p) PROVE Mappings'
  <2>1. CoverStands /\ UNCHANGED <<map, walk, watched, pass>>
    BY <1>1, FrameStands DEF Edit, store
  <2> QED
    BY <2>1, MappedStays, WalkStays, PassStays DEF Mappings
<1>2. ASSUME NEW settled \in SUBSET Path, BeginPass(settled) PROVE Mappings'
  <2>1. CoverStands /\ UNCHANGED <<map, walk>> /\ pass'.at \in {"idle", "next"}
    BY <1>2, FrameStands DEF BeginPass, store, ghosts, NoPass
  <2> QED
    BY <2>1, MappedStays, WalkStays, PassStays DEF Mappings
<1>3. CASE PassFails
  <2>1. CoverStands /\ UNCHANGED <<map, walk>> /\ pass'.at = "idle"
    BY <1>3, FrameStands DEF PassFails, store, NoPass
  <2> QED
    BY <2>1, MappedStays, WalkStays, PassStays DEF Mappings
<1>4. ASSUME NEW q \in Path, Relist(q) PROVE Mappings'
  <2>1. CoverStands /\ UNCHANGED <<map, walk, watched, root>>
    BY <1>4, FrameStands DEF Relist, store
  <2>2. /\ pass'.dir = {q} /\ pass'.known = Known /\ pass'.blob = disk[q]
        /\ pass'.at = IF disk[q] \in {NoFile, Known[q]} THEN "record" ELSE "enqueue"
    BY <1>4 DEF Relist
  <2>3. PassKnows'
    <3>1. ASSUME root' # 0, watched' = root', NEW p \in Path, NEW b \in BlobOrNone,
                 \/ p \notin pass'.dir /\ b = pass'.known[p]
                 \/ p \in pass'.dir /\ pass'.at = "record" /\ b = pass'.blob
          PROVE  Covered(p, b)'
      <4>1. Known = map
        BY <2>1, <3>1 DEF Known
      <4>2. b \in {NoFile, map[p]}
        BY <2>2, <3>1, <4>1
      <4>3. Covered(p, b)
        BY <2>1, <3>1, <4>2 DEF Mappings, MappedIsParsed, Covered
      <4> QED
        BY <2>1, <3>1, <4>3 DEF CoverStands
    <3> QED
      BY <3>1, PassThen
  <2> QED
    BY <2>1, <2>3, MappedStays, WalkStays DEF Mappings
<1>5. ASSUME NEW q \in Path, RelistEnqueue(q) PROVE Mappings'
  <2>1. CoverStands
    BY <1>5, RelistEnqueueCovers DEF CoverStands, RelistEnqueue
  <2>2. /\ UNCHANGED <<map, walk, watched, root>>
        /\ pass.at = "enqueue" /\ pass.dir = {q} /\ pass'.dir = pass.dir
        /\ pass'.known = pass.known /\ pass'.blob = pass.blob
    BY <1>5, TypeParts DEF RelistEnqueue, Sound, PassTyped
  <2>3. PassKnows'
    <3>1. ASSUME root' # 0, watched' = root', NEW p \in Path, NEW b \in BlobOrNone,
                 \/ p \notin pass'.dir /\ b = pass'.known[p]
                 \/ p \in pass'.dir /\ pass'.at = "record" /\ b = pass'.blob
          PROVE  Covered(p, b)'
      <4>1. CASE p \notin pass.dir
        <5>1. Covered(p, b)
          BY <2>2, <3>1, <4>1 DEF Mappings, PassKnows
        <5> QED
          BY <2>1, <2>2, <3>1, <5>1 DEF CoverStands
      <4>2. CASE p \in pass.dir
        BY <1>5, <2>2, <3>1, <4>2, RelistEnqueueCovers
      <4> QED
        BY <4>1, <4>2
    <3> QED
      BY <3>1, PassThen
  <2> QED
    BY <2>1, <2>2, <2>3, MappedStays, WalkStays DEF Mappings
<1>6. CASE RecordWalk
  <2>1. CoverStands /\ UNCHANGED <<walk, root, watched>>
    BY <1>6, FrameStands DEF RecordWalk
  <2>2. /\ pass.at = "record" /\ watched = root /\ map' = Rewalked
        /\ pass'.at \in {"idle", "next"}
    BY <1>6, AfterRelistIs, TypeParts DEF RecordWalk, MapAccepts, WriteMap, Sound
  <2>3. MappedIsParsed'
    <3>1. ASSUME root' # 0, NEW p \in Path, NEW b \in BlobOrNone, b = map'[p]
          PROVE  Covered(p, b)'
      <4>1. b = IF p \in pass.dir THEN pass.blob ELSE pass.known[p]
        BY <2>2, <3>1 DEF Rewalked
      <4>2. Covered(p, b)
        BY <2>1, <2>2, <3>1, <4>1 DEF Mappings, PassKnows
      <4> QED
        BY <2>1, <3>1, <4>2 DEF CoverStands
    <3> QED
      BY <3>1, MappedThen
  <2> QED
    BY <2>1, <2>2, <2>3, WalkStays, PassStays DEF Mappings
<1> QED
  BY <1>1, <1>2, <1>3, <1>4, <1>5, <1>6

\* A row that is new has no map, and nobody works for it yet.
LEMMA RegisterMaps ==
  ASSUME IndexAssumption, Sound, IndexTypeOK', Mappings, NEW w \in Walker, RegisterWorktree(w)
  PROVE  Mappings'
<1>1. /\ UNCHANGED <<map, job, task, trees, older, dropped, watched, pass>>
      /\ walk[w].at = "register" /\ walk'[w].at \in {"hash", "compare"} /\ OnlyWalk(w)
      /\ root' = IF root = 0 THEN roots + 1 ELSE root
  BY RegisterIs, TypeParts DEF RegisterWorktree, ghosts, Sound
<1>2. CASE root # 0
  BY <1>1, <1>2, NeutralMaps
<1>3. CASE root = 0
  <2>1. map' = Nothing
    BY <1>1, <1>3, TypeParts DEF Sound, FilesTyped
  <2>2. \A p \in Path, b \in BlobOrNone : b = map'[p] => Covered(p, b)'
    BY <2>1 DEF Nothing, Covered
  <2>3. watched' # root'
    BY <1>1, <1>3, TypeParts DEF Sound, Books, Numbered, RootTyped, WatchTyped
  <2>4. ASSUME NEW v \in Walker, walk'[v].at = "sync" PROVE walk'[v].root # root'
    <3>1. v # w /\ walk'[v] = walk[v]
      BY <1>1, <2>4 DEF OnlyWalk
    <3>2. walk[v].root <= roots /\ walk[v].root \in Nat /\ roots \in Nat
      BY TypeParts DEF Sound, Books, Numbered, WalkTyped, WalkType, RootTyped
    <3> QED
      BY <1>1, <1>3, <3>1, <3>2
  <2>5. MappedIsParsed'
    BY <2>2, MappedThen
  <2>6. WalksKnow'
    BY <2>4, WalkThen
  <2>7. PassKnows'
    BY <2>3, PassThen
  <2> QED
    BY <2>5, <2>6, <2>7 DEF Mappings
<1> QED
  BY <1>2, <1>3

LEMMA StartMaps ==
  ASSUME IndexAssumption, Sound, IndexTypeOK', Mappings,
         Reparse \/ Rescan \/ \E w \in Walker : Add(w) \/ Discover(w)
  PROVE  Mappings'
<1>1. CASE Reparse
  BY <1>1, ReparseIs, NeutralMaps, TypeParts DEF Reparse, store, ghosts, Sound
<1>2. CASE Rescan
  BY <1>2, RescanIs, NeutralMaps, TypeParts DEF Rescan, store, ghosts, Sound
<1>3. ASSUME NEW w \in Walker, Add(w) PROVE Mappings'
  <2>1. /\ UNCHANGED <<root, map, job, task, trees, older, dropped, watched, pass>>
        /\ walk[w].at = "idle" /\ FindWorktree(w)
    BY <1>3 DEF Add, store, ghosts
  <2> QED
    BY <2>1, FindIs, NeutralMaps, TypeParts DEF Sound
<1>4. ASSUME NEW w \in Walker, Discover(w) PROVE Mappings'
  BY <1>4, DiscoverIs, NeutralMaps, TypeParts DEF Discover, store, Sound
<1> QED
  BY <1>1, <1>2, <1>3, <1>4

LEMMA CompareMaps ==
  ASSUME Sound, IndexTypeOK', Mappings, NEW w \in Walker, Compare(w)
  PROVE  Mappings'
<1>1. /\ walk[w].at = "compare" /\ OnlyWalk(w) /\ walk'[w].parsed = DOMAIN trees
      /\ UNCHANGED <<root, map, job, task, trees, older, dropped, watched, pass>>
  BY CompareIs, TypeParts DEF Compare, store, ghosts, Sound
<1>2. CoverStands
  BY <1>1, FrameStands DEF OnlyWalk
<1>3. \A p \in Path, b \in BlobOrNone : b \in walk'[w].parsed => Covered(p, b)'
  BY <1>1 DEF Covered
<1>4. root' # 0 => \A v \in Walker, p \in Path, b \in BlobOrNone :
        /\ walk'[v].at = "sync" /\ walk'[v].root = root'
        /\ b = walk'[v].files[p] /\ b \in walk'[v].parsed
        => Covered(p, b)'
  BY <1>1, <1>2, <1>3 DEF OnlyWalk, Mappings, WalksKnow, CoverStands, Current
<1> QED
  BY <1>1, <1>2, <1>4, WalkThen, MappedStays, PassStays DEF Mappings

LEMMA SyncMaps ==
  ASSUME IndexAssumption, Sound, IndexTypeOK', Mappings, NEW w \in Walker, SyncWorktreeFiles(w)
  PROVE  Mappings'
<1> DEFINE todo == {p \in Path : NeedsScan(w, p)}
<1>1. /\ walk[w].at = "sync" /\ walk[w].root = root /\ map' = walk[w].files
      /\ walk' = Enqueuing(w, todo)
      /\ UNCHANGED <<root, job, task, trees, older, dropped, watched, pass>>
  BY DEF SyncWorktreeFiles, MapAccepts, WriteMap
<1>2. /\ OnlyWalk(w) /\ walk'[w].at # "sync"
      /\ todo # {} => /\ walk'[w].at = "enqueue" /\ walk'[w].root = walk[w].root
                      /\ walk'[w].todo = todo /\ walk'[w].files = walk[w].files
  BY <1>1, EnqueuingIs, TypeParts DEF Sound
<1>3. CoverStands /\ \A v \in Walker : walk'[v].at # "sync" \/ walk'[v] = walk[v]
  BY <1>1, <1>2, FrameStands DEF OnlyWalk
<1>4. ASSUME root' # 0, NEW p \in Path, NEW b \in BlobOrNone, b = map'[p]
      PROVE  Covered(p, b)'
  <2>1. CASE NeedsScan(w, p)
    <3>1. /\ walk'[w].at = "enqueue" /\ walk'[w].root = root' /\ p \in walk'[w].todo
          /\ walk'[w].files[p] = b
      BY <1>1, <1>2, <1>4, <2>1
    <3> QED
      BY <3>1 DEF Covered, Current
  <2>2. CASE ~NeedsScan(w, p)
    <3>1. b = NoFile \/ b \in walk[w].parsed
      BY <1>1, <1>4, <2>2 DEF NeedsScan
    <3>2. Covered(p, b)
      BY <1>1, <1>4, <3>1 DEF Mappings, WalksKnow, Covered, Current
    <3> QED
      BY <1>3, <1>4, <3>2 DEF CoverStands
  <2> QED
    BY <2>1, <2>2
<1>5. MappedIsParsed'
  BY <1>4, MappedThen
<1> QED
  BY <1>1, <1>3, <1>5, WalkStays, PassStays DEF Mappings

LEMMA WalkMaps ==
  ASSUME IndexAssumption, Sound, IndexTypeOK', Mappings, NEW w \in Walker,
         Add(w) \/ WalkSteps(w) \/ WalkFails(w)
  PROVE  Mappings'
<1>1. ASSUME NEW p \in Path, HashFile(w, p) PROVE Mappings'
  BY <1>1, HashFileIs, NeutralMaps, TypeParts DEF HashFile, store, Sound
<1>2. ASSUME NEW q \in Path, EnqueueFile(w, q) PROVE Mappings'
  <2> DEFINE todo == walk[w].todo \ {q}
  <2>1. CoverStands /\ UNCHANGED <<map, watched, pass>>
    BY <1>2, EnqueueFileCovers DEF CoverStands, EnqueueFile
  <2>2. walk' = Enqueuing(w, todo) /\ todo \in SUBSET Path
    BY <1>2, TypeParts DEF EnqueueFile, Sound, WalkTyped, WalkType
  <2> HIDE DEF todo
  <2>3. OnlyWalk(w) /\ walk'[w].at # "sync"
    BY <2>2, EnqueuingIs, TypeParts DEF Sound
  <2> QED
    BY <2>1, <2>3, MappedStays, WalkStays, PassStays DEF Mappings, OnlyWalk
<1>3. CASE WalkFails(w)
  <2>1. CoverStands /\ UNCHANGED <<map, watched, pass>>
    BY <1>3, WalkFailsCovers DEF CoverStands, WalkFails, store
  <2>2. OnlyWalk(w) /\ walk'[w].at = "idle"
    BY <1>3, EndsIs, TypeParts DEF WalkFails, Sound
  <2> QED
    BY <2>1, <2>2, MappedStays, WalkStays, PassStays DEF Mappings, OnlyWalk
<1> QED
  BY <1>1, <1>2, <1>3, StartMaps, RegisterMaps, CompareMaps, SyncMaps DEF WalkSteps

LEMMA CollectMaps ==
  ASSUME Sound, IndexTypeOK', Mappings, CollectGarbage
  PROVE  Mappings'
<1>1. UNCHANGED <<root, map, watched, pass, walk>>
  BY DEF CollectGarbage, daemon
<1>2. ASSUME root # 0, NEW p \in Path, NEW b \in BlobOrNone, b = map[p] PROVE Covered(p, b)'
  <2>1. Covered(p, b) /\ b \in Held
    BY <1>2 DEF Mappings, MappedIsParsed, Held
  <2> QED
    BY <2>1, CollectCovers
<1>3. ASSUME root # 0, NEW w \in Walker, walk[w].at = "sync", walk[w].root = root, NEW p \in Path,
             NEW b \in BlobOrNone, b = walk[w].files[p], b \in walk[w].parsed
      PROVE  Covered(p, b)'
  <2>1. Covered(p, b) /\ <<p, b>> \in InHand
    BY <1>3 DEF Mappings, WalksKnow, InHand, Current
  <2> QED
    BY <2>1, CollectCovers
<1>4. ASSUME root # 0, watched = root, pass.at \in {"enqueue", "record"}, NEW p \in Path,
             NEW b \in BlobOrNone,
             \/ p \notin pass.dir /\ b = pass.known[p]
             \/ p \in pass.dir /\ pass.at = "record" /\ b = pass.blob
      PROVE  Covered(p, b)'
  <2>1. Covered(p, b)
    BY <1>4 DEF Mappings, PassKnows
  <2>2. pass.dir # {} /\ b = Rewalked[p]
    BY <1>4 DEF Rewalked, Sound, Books, PassHolds
  <2>3. <<p, b>> \in InHand
    BY <2>2 DEF InHand
  <2> QED
    BY <2>1, <2>3, CollectCovers
<1> QED
  BY <1>1, <1>2, <1>3, <1>4, MappedThen, WalkThen, PassThen DEF Mappings

LEMMA RestMaps ==
  ASSUME Sound, IndexTypeOK', Mappings,
         \/ \E i \in RootId, p \in Path : TaskSteps(i, p) \/ ScanFails(i, p)
         \/ RemoveRoot \/ CrashAndBoot \/ Upgrade
  PROVE  Mappings'
<1>1. ASSUME NEW i \in RootId, NEW p \in Path, TaskSteps(i, p) \/ ScanFails(i, p)
      PROVE  Mappings'
  <2>1. UNCHANGED <<root, map, walk, watched, pass>>
    BY <1>1 DEF TaskSteps, Claim, Scan, ScanDone, ScanFails
  <2>2. CoverStands
    BY <1>1, <2>1, TaskCovers DEF CoverStands
  <2> QED
    BY <2>1, <2>2, MappedStays, WalkStays, PassStays DEF Mappings
<1>2. CASE RemoveRoot
  BY <1>2 DEF RemoveRoot, Mappings, MappedIsParsed, WalksKnow, PassKnows
<1>3. CASE CrashAndBoot \/ Upgrade
  <2>1. Die /\ UNCHANGED <<root, map>>
    BY <1>3 DEF CrashAndBoot, Upgrade
  <2>2. DOMAIN trees \union older = DOMAIN trees' \union older'
    BY <1>3 DEF CrashAndBoot, Upgrade, Restrict
  <2>3. CoverStands
    BY <2>1, <2>2, DieCovers DEF CoverStands
  <2>4. pass'.at = "idle" /\ \A w \in Walker : walk'[w].at = "idle"
    BY <2>1 DEF Die, NoPass, NoWalk
  <2> QED
    BY <2>1, <2>3, <2>4, MappedStays, WalkStays, PassStays DEF Mappings
<1> QED
  BY <1>1, <1>2, <1>3

LEMMA NextMaps ==
  ASSUME IndexAssumption, Sound, IndexTypeOK', Mappings, IndexNext
  PROVE  Mappings'
BY PassMaps, StartMaps, WalkMaps, CollectMaps, RestMaps DEF IndexNext

LEMMA InitMaps == ASSUME IndexInit PROVE Mappings
BY DEF IndexInit, Mappings, MappedIsParsed, WalksKnow, PassKnows, NoWalk

LEMMA StillMaps ==
  ASSUME IndexTypeOK, Mappings, UNCHANGED <<disk, store, daemon, bounds, ghosts>>
  PROVE  Mappings'
<1>1. IndexTypeOK'
  BY DEF store, daemon, bounds, ghosts, IndexTypeOK
<1>2. CoverStands /\ UNCHANGED <<map, walk, watched, pass>>
  BY FrameStands DEF store, daemon, ghosts
<1> QED
  BY <1>1, <1>2, MappedStays, WalkStays, PassStays DEF Mappings

\* However passes, walks, scans, faults and collections interleave, a mapped
\* blob has its parse, or a scan of it is queued, being made or left failed, or
\* is about to be queued, unless it was dropped in one of the ways that are
\* named where they happen.
THEOREM MappedParsed ==
  ASSUME IndexAssumption
  PROVE  IndexSpec => []MappedIsParsed
<1>1. IndexInit => Mappings
  BY InitMaps
<1>2. Mappings /\ IndexTypeOK /\ Books /\ (IndexTypeOK /\ Books)' /\ [IndexNext]_ivars => Mappings'
  <2>1. ASSUME Mappings, IndexTypeOK, UNCHANGED ivars PROVE Mappings'
    BY <2>1, StillMaps DEF ivars
  <2> QED
    BY <2>1, NextMaps DEF Sound
<1>3. Mappings => MappedIsParsed
  BY DEF Mappings
<1> QED
  BY <1>1, <1>2, <1>3, Bookkeeping, PTL DEF IndexSpec, IndexSteps
=============================================================================
