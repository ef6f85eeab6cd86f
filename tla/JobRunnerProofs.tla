--------------------------- MODULE JobRunnerProofs --------------------------
(***************************************************************************)
(* Proofs about JobRunner, for any number of keys, rows, daemons, workers  *)
(* and attempts.  The argument: a daemon that is up holds the lock, so the *)
(* rows its tasks hold are running and nobody else's; every statement then *)
(* finds its row in the state the code expects, though no WHERE clause     *)
(* asks; and the newest row of a key is the only one that may own it.      *)
(***************************************************************************)
EXTENDS JobRunner, TLAPS

\* Only the daemon that holds the lock is up.
LockDiscipline == \A d \in Daemon : phase[d] # "down" => lock = d

\* Only a working daemon has tasks, and they hold rows the table has handed out.
ClaimsAreWorked ==
  \A d \in Daemon : \A i \in Held(d) : phase[d] \in Working /\ i < next_id

\* Only a failure that owns nothing is ever superseded.
SupersededIsTerminal ==
  \A i \in DOMAIN jobs :
    jobs[i].superseded_by # 0 => jobs[i].state = "failed" /\ jobs[i].terminal

\* HeldIsRunning, OwnerIsNewest and LastFailureIsOpen are inductive only
\* together, and only under the lock.
IInv ==
  /\ TypeOK
  /\ LockDiscipline
  /\ ClaimsAreWorked
  /\ HeldIsRunning
  /\ OwnerIsNewest
  /\ LastFailureIsOpen
  /\ SupersededIsTerminal

-----------------------------------------------------------------------------
(* What the statements do to the rows.                                     *)

OpenFailure(r) == r.state = "failed" /\ r.superseded_by = 0

SameTask(r, s) ==
  r.state = s.state /\ r.key = s.key /\ r.attempts = s.attempts /\ r.parks = s.parks

\* Rows keep their type and their key, and none becomes an owner.
NoNewOwner ==
  /\ next_id' = next_id
  /\ DOMAIN jobs' \subseteq DOMAIN jobs
  /\ jobs' \in [DOMAIN jobs' -> Row]
  /\ \A i \in DOMAIN jobs' :
       /\ jobs'[i].key = jobs[i].key
       /\ Live(jobs'[i]) => Live(jobs[i])

\* Nothing succeeds, nothing fails, and no failure is superseded.
NoNewOutcome ==
  \A i \in DOMAIN jobs' :
    /\ jobs'[i].superseded_by # 0 => jobs[i].superseded_by # 0
    /\ OpenFailure(jobs'[i]) => OpenFailure(jobs[i])
    /\ jobs'[i].state = "done" => jobs[i].state = "done"

\* Running rows outside S are left to their tasks.
LeavesTasks(S) ==
  \A i \in (DOMAIN jobs \intersect DOMAIN jobs') \ S :
    jobs[i].state = "running" => SameTask(jobs'[i], jobs[i])

\* What is over stays over.
KeepsHistory ==
  \A i \in DOMAIN jobs :
    /\ jobs[i].state = "failed" /\ jobs[i].terminal =>
         /\ i \in DOMAIN jobs' /\ jobs'[i].state = "failed" /\ jobs'[i].terminal
         /\ jobs[i].superseded_by # 0 => jobs'[i] = jobs[i]
    /\ jobs[i].state = "done" /\ i \in DOMAIN jobs' => jobs'[i] = jobs[i]

Tame(S) == NoNewOwner /\ NoNewOutcome /\ LeavesTasks(S) /\ KeepsHistory

\* What every statement keeps of the invariant, bar the tasks of S.
Sound(S) ==
  /\ StoreTypeOK'
  /\ OwnerIsNewest'
  /\ LastFailureIsOpen'
  /\ SupersededIsTerminal'
  /\ next_id <= next_id'
  /\ \A i \in DOMAIN jobs' : i \in DOMAIN jobs \/ i = next_id
  /\ LeavesTasks(S)
  /\ KeepsHistory

LEMMA RowsTyped == ASSUME StoreTypeOK PROVE \A i \in DOMAIN jobs : jobs[i] \in Row
BY DEF StoreTypeOK

LEMMA RowsNumbered == ASSUME StoreTypeOK PROVE DOMAIN jobs \subseteq JobId
BY DEF StoreTypeOK

LEMMA StatesTyped == {"pending", "running", "done", "failed"} \subseteq State
BY DEF State

LEMMA ClaimIsTame ==
  ASSUME StoreTypeOK, NEW kinds, NEW S \in SUBSET Ready(kinds), ClaimJobs(S)
  PROVE  Tame({})
<1> DEFINE New(r) == [r EXCEPT !.state = "running", !.attempts = @ + 1]
<1>1. /\ jobs' = [i \in DOMAIN jobs |-> IF i \in S THEN New(jobs[i]) ELSE jobs[i]]
      /\ next_id' = next_id
  BY DEF ClaimJobs, Update
<1>2. ASSUME NEW r \in Row
      PROVE  New(r) \in Row /\ New(r).state = "running" /\ New(r).key = r.key
             /\ New(r).superseded_by = r.superseded_by
  <2>1. r.attempts + 1 \in Nat
    BY DEF Row
  <2> QED BY <2>1, StatesTyped DEF Row
<1>3. \A i \in S : i \in DOMAIN jobs /\ jobs[i].state = "pending"
  BY DEF Ready
<1> HIDE DEF New
<1> QED
  BY <1>1, <1>2, <1>3, RowsTyped
  DEF Tame, NoNewOwner, NoNewOutcome, LeavesTasks, KeepsHistory, Live, OpenFailure, SameTask

LEMMA ParkIsTame ==
  ASSUME StoreTypeOK, NEW id \in JobId,
         id \in DOMAIN jobs => jobs[id].state = "running", ParkJob(id)
  PROVE  Tame({id})
<1> DEFINE New(r) == [r EXCEPT !.state = "pending", !.due = FALSE,
                               !.attempts = Refunded(@), !.parks = @ + 1]
<1>1. /\ jobs' = [i \in DOMAIN jobs |-> IF i \in {id} THEN New(jobs[i]) ELSE jobs[i]]
      /\ next_id' = next_id
  BY DEF ParkJob, Update
<1>2. ASSUME NEW r \in Row
      PROVE  New(r) \in Row /\ New(r).state = "pending" /\ New(r).key = r.key
             /\ New(r).superseded_by = r.superseded_by
  <2>1. r.attempts \in Nat /\ Refunded(r.attempts) \in Nat
    BY DEF Row, Refunded
  <2>2. r.parks + 1 \in Nat
    BY DEF Row
  <2> QED BY <2>1, <2>2, StatesTyped DEF Row
<1>3. id \in DOMAIN jobs => jobs[id].state = "running"
  OBVIOUS
<1> HIDE DEF New
<1> QED
  BY <1>1, <1>2, <1>3, RowsTyped
  DEF Tame, NoNewOwner, NoNewOutcome, LeavesTasks, KeepsHistory, Live, OpenFailure, SameTask

LEMMA RetryIsTame ==
  ASSUME StoreTypeOK, NEW id \in JobId,
         id \in DOMAIN jobs => jobs[id].state = "running", RetryJob(id)
  PROVE  Tame({id})
<1> DEFINE New(r) == [r EXCEPT !.state = "pending", !.due = FALSE]
<1>1. /\ jobs' = [i \in DOMAIN jobs |-> IF i \in {id} THEN New(jobs[i]) ELSE jobs[i]]
      /\ next_id' = next_id
  BY DEF RetryJob, Update
<1>2. ASSUME NEW r \in Row
      PROVE  New(r) \in Row /\ New(r).state = "pending" /\ New(r).key = r.key
             /\ New(r).superseded_by = r.superseded_by
  BY StatesTyped DEF Row
<1>3. id \in DOMAIN jobs => jobs[id].state = "running"
  OBVIOUS
<1> HIDE DEF New
<1> QED
  BY <1>1, <1>2, <1>3, RowsTyped
  DEF Tame, NoNewOwner, NoNewOutcome, LeavesTasks, KeepsHistory, Live, OpenFailure, SameTask

LEMMA RequeueIsTame ==
  ASSUME StoreTypeOK, RequeueRunning
  PROVE  Tame(JobId)
<1> DEFINE New(r) == [r EXCEPT !.state = "pending"]
<1>1. /\ jobs' = [i \in DOMAIN jobs |-> IF i \in InState("running") THEN New(jobs[i]) ELSE jobs[i]]
      /\ next_id' = next_id
  BY DEF RequeueRunning, Update
<1>2. ASSUME NEW r \in Row
      PROVE  New(r) \in Row /\ New(r).state = "pending" /\ New(r).key = r.key
             /\ New(r).superseded_by = r.superseded_by
  BY StatesTyped DEF Row
<1>3. \A i \in InState("running") : i \in DOMAIN jobs /\ jobs[i].state = "running"
  BY DEF InState
<1> HIDE DEF New
<1> QED
  BY <1>1, <1>2, <1>3, RowsTyped, RowsNumbered
  DEF Tame, NoNewOwner, NoNewOutcome, LeavesTasks, KeepsHistory, Live, OpenFailure, SameTask

LEMMA ReleaseIsTame ==
  ASSUME StoreTypeOK, ReleaseRunning
  PROVE  Tame(JobId)
<1> DEFINE New(r) == [r EXCEPT !.state = "pending", !.attempts = Refunded(@)]
<1>1. /\ jobs' = [i \in DOMAIN jobs |-> IF i \in InState("running") THEN New(jobs[i]) ELSE jobs[i]]
      /\ next_id' = next_id
  BY DEF ReleaseRunning, Update
<1>2. ASSUME NEW r \in Row
      PROVE  New(r) \in Row /\ New(r).state = "pending" /\ New(r).key = r.key
             /\ New(r).superseded_by = r.superseded_by
  <2>1. r.attempts \in Nat /\ Refunded(r.attempts) \in Nat
    BY DEF Row, Refunded
  <2> QED BY <2>1, StatesTyped DEF Row
<1>3. \A i \in InState("running") : i \in DOMAIN jobs /\ jobs[i].state = "running"
  BY DEF InState
<1> HIDE DEF New
<1> QED
  BY <1>1, <1>2, <1>3, RowsTyped, RowsNumbered
  DEF Tame, NoNewOwner, NoNewOutcome, LeavesTasks, KeepsHistory, Live, OpenFailure, SameTask

LEMMA RetireIsTame ==
  ASSUME StoreTypeOK, RetireEmptyEmbedJobs
  PROVE  Tame({})
<1> DEFINE New(r) == [r EXCEPT !.terminal = TRUE]
<1>1. /\ jobs' = [i \in DOMAIN jobs |-> IF i \in Blank THEN New(jobs[i]) ELSE jobs[i]]
      /\ next_id' = next_id
  BY DEF RetireEmptyEmbedJobs, Update
<1>2. ASSUME NEW r \in Row
      PROVE  New(r) \in Row /\ New(r).state = r.state /\ New(r).key = r.key
             /\ New(r).superseded_by = r.superseded_by /\ New(r).terminal
  BY DEF Row
<1>3. \A i \in Blank : /\ i \in DOMAIN jobs
                     /\ jobs[i].state = "failed" /\ ~jobs[i].terminal
  BY DEF Blank, Revivable, InState
<1> HIDE DEF New
<1> QED
  BY <1>1, <1>2, <1>3, RowsTyped
  DEF Tame, NoNewOwner, NoNewOutcome, LeavesTasks, KeepsHistory, Live, OpenFailure, SameTask

LEMMA ReviveIsTame ==
  ASSUME StoreTypeOK, NEW kinds, RequeueFailed(kinds)
  PROVE  Tame({})
<1> DEFINE New(r) == [r EXCEPT !.state = "pending", !.due = TRUE, !.attempts = 0, !.parks = 0]
<1>1. /\ jobs' = [i \in DOMAIN jobs |-> IF i \in Revivable(kinds) THEN New(jobs[i]) ELSE jobs[i]]
      /\ next_id' = next_id
  BY DEF RequeueFailed, Update
<1>2. ASSUME NEW r \in Row
      PROVE  New(r) \in Row /\ New(r).state = "pending" /\ New(r).key = r.key
             /\ New(r).superseded_by = r.superseded_by
  BY StatesTyped DEF Row
<1>3. \A i \in Revivable(kinds) : /\ i \in DOMAIN jobs
                                /\ jobs[i].state = "failed" /\ ~jobs[i].terminal
  BY DEF Revivable, InState
<1> HIDE DEF New
<1> QED
  BY <1>1, <1>2, <1>3, RowsTyped
  DEF Tame, NoNewOwner, NoNewOutcome, LeavesTasks, KeepsHistory, Live, OpenFailure, SameTask

LEMMA ElapseIsTame ==
  ASSUME StoreTypeOK, NEW id, Elapse(id)
  PROVE  Tame({})
<1> DEFINE New(r) == [r EXCEPT !.due = TRUE]
<1>1. /\ jobs' = [i \in DOMAIN jobs |-> IF i \in {id} THEN New(jobs[i]) ELSE jobs[i]]
      /\ next_id' = next_id
  BY DEF Elapse, Update
<1>2. ASSUME NEW r \in Row
      PROVE  New(r) \in Row /\ New(r).state = r.state /\ New(r).key = r.key
             /\ New(r).superseded_by = r.superseded_by
  BY DEF Row
<1>3. id \in DOMAIN jobs /\ jobs[id].state = "pending"
  BY DEF Elapse, InState
<1> HIDE DEF New
<1> QED
  BY <1>1, <1>2, <1>3, RowsTyped
  DEF Tame, NoNewOwner, NoNewOutcome, LeavesTasks, KeepsHistory, Live, OpenFailure, SameTask

LEMMA DeleteIsTame ==
  ASSUME StoreTypeOK, NEW S, Delete(S), next_id' = next_id,
         \A i \in S : ~(jobs[i].state = "failed" /\ jobs[i].terminal)
  PROVE  Tame({})
<1>1. /\ DOMAIN jobs' = DOMAIN jobs \ S
      /\ \A i \in DOMAIN jobs' : jobs'[i] = jobs[i]
  BY DEF Delete
<1>2. jobs' \in [DOMAIN jobs' -> Row]
  BY <1>1, RowsTyped DEF Delete
<1> QED
  BY <1>1, <1>2
  DEF Tame, NoNewOwner, NoNewOutcome, LeavesTasks, KeepsHistory, Live, OpenFailure, SameTask

LEMMA AbsorbIsTame ==
  ASSUME StoreTypeOK,
         NEW k, NEW p \in Payload, NEW pr \in Priority, NEW ready \in BOOLEAN,
         NEW owner \in Owners(k),
         Update({owner}, LAMBDA r : Absorb(r, p, pr, ready)), next_id' = next_id
  PROVE  Tame({})
<1>1. jobs' = [i \in DOMAIN jobs |->
                 IF i \in {owner} THEN Absorb(jobs[i], p, pr, ready) ELSE jobs[i]]
  BY DEF Update
<1>2. ASSUME NEW r \in Row
      PROVE  /\ Absorb(r, p, pr, ready) \in Row
             /\ Absorb(r, p, pr, ready).key = r.key
             /\ Absorb(r, p, pr, ready).superseded_by = r.superseded_by
             /\ r.state = "running" => SameTask(Absorb(r, p, pr, ready), r)
             /\ Absorb(r, p, pr, ready).state =
                  IF r.state = "failed" THEN "pending" ELSE r.state
  <2> DEFINE State2 == IF r.state = "failed" THEN "pending" ELSE r.state
             Attempts2 == IF r.state = "failed" THEN 0 ELSE r.attempts
             Parks2 == IF r.state = "failed" THEN 0 ELSE r.parks
             Priority2 == IF pr > r.priority THEN pr ELSE r.priority
  <2>1. State2 \in State
    BY StatesTyped DEF Row
  <2>2. Attempts2 \in Nat /\ Parks2 \in Nat
    BY DEF Row
  <2>3. Priority2 \in Priority
    BY DEF Row
  <2>4. (r.due /\ ready) \in BOOLEAN
    OBVIOUS
  <2>5. Absorb(r, p, pr, ready) =
          [r EXCEPT !.payload = p, !.due = (r.due /\ ready), !.priority = Priority2,
                    !.state = State2, !.attempts = Attempts2, !.parks = Parks2]
    BY DEF Absorb
  <2> HIDE DEF State2, Attempts2, Parks2, Priority2
  <2>6. /\ Absorb(r, p, pr, ready) \in Row
        /\ Absorb(r, p, pr, ready).key = r.key
        /\ Absorb(r, p, pr, ready).superseded_by = r.superseded_by
        /\ Absorb(r, p, pr, ready).state = State2
        /\ Absorb(r, p, pr, ready).attempts = Attempts2
        /\ Absorb(r, p, pr, ready).parks = Parks2
    BY <2>1, <2>2, <2>3, <2>4, <2>5 DEF Row
  <2> QED
    BY <2>6 DEF SameTask, State2, Attempts2, Parks2
<1>3. owner \in DOMAIN jobs /\ Live(jobs[owner])
  BY DEF Owners
<1> QED
  BY <1>1, <1>2, <1>3, RowsTyped
  DEF Tame, NoNewOwner, NoNewOutcome, LeavesTasks, KeepsHistory, Live, OpenFailure, SameTask

-----------------------------------------------------------------------------
(* Every statement is sound.                                               *)

LEMMA TameIsSound ==
  ASSUME StoreTypeOK, OwnerIsNewest, LastFailureIsOpen, SupersededIsTerminal,
         NEW S, Tame(S)
  PROVE  Sound(S)
<1>1. StoreTypeOK'
  BY DEF Tame, NoNewOwner, StoreTypeOK
<1>2. OwnerIsNewest'
  BY DEF Tame, NoNewOwner, OwnerIsNewest
<1>3. LastFailureIsOpen'
  BY DEF Tame, NoNewOwner, NoNewOutcome, LastFailureIsOpen, OpenFailure
<1>4. SupersededIsTerminal'
  BY DEF Tame, NoNewOwner, NoNewOutcome, KeepsHistory, SupersededIsTerminal
<1>5. next_id \in Int
  BY DEF StoreTypeOK
<1> QED
  BY <1>1, <1>2, <1>3, <1>4, <1>5 DEF Tame, NoNewOwner, Sound

LEMMA InsertIsSound ==
  ASSUME StoreTypeOK, OwnerIsNewest, LastFailureIsOpen, SupersededIsTerminal,
        
         NEW k \in Key, NEW p \in Payload, NEW pr \in Priority, NEW ready \in BOOLEAN,
         Owners(k) = {}, Insert(k, p, pr, ready), MaxJobs \in Nat
  PROVE  Sound({})
<1> DEFINE new == NewRow(k, p, pr, ready)
<1>1. /\ next_id \in JobId
      /\ next_id \notin DOMAIN jobs
      /\ \A i \in DOMAIN jobs : i \in JobId /\ i < next_id
  BY DEF StoreTypeOK, Insert, JobId
<1>2. /\ new \in Row
      /\ new.key = k /\ new.state = "pending" /\ new.superseded_by = 0
  BY StatesTyped DEF NewRow, Row
<1> HIDE DEF new
<1>3. /\ DOMAIN jobs' = DOMAIN jobs \union {next_id}
      /\ jobs'[next_id] = new
      /\ \A i \in DOMAIN jobs : jobs'[i] = jobs[i]
      /\ jobs' \in [DOMAIN jobs' -> Row]
      /\ next_id' = next_id + 1
  BY <1>1, <1>2, RowsTyped DEF Insert, new
<1>4. StoreTypeOK'
  BY <1>1, <1>3 DEF StoreTypeOK, JobId
<1>5. OwnerIsNewest'
  <2> SUFFICES ASSUME NEW i \in DOMAIN jobs', NEW j \in DOMAIN jobs',
                      Live(jobs'[i]), jobs'[j].key = jobs'[i].key
               PROVE  j <= i
    BY DEF OwnerIsNewest
  <2>1. CASE i = next_id
    BY <2>1, <1>1, <1>3 DEF JobId
  <2>2. CASE i \in DOMAIN jobs /\ j \in DOMAIN jobs
    BY <2>2, <1>3 DEF OwnerIsNewest
  <2>3. CASE i \in DOMAIN jobs /\ j = next_id
    BY <2>3, <1>2, <1>3 DEF Owners
  <2> QED
    BY <2>1, <2>2, <2>3, <1>3
<1>6. LastFailureIsOpen'
  BY <1>2, <1>3 DEF LastFailureIsOpen
<1>7. next_id <= next_id'
  BY <1>1, <1>3 DEF JobId
<1>8. SupersededIsTerminal'
  BY <1>1, <1>2, <1>3 DEF SupersededIsTerminal
<1> QED
  BY <1>3, <1>4, <1>5, <1>6, <1>7, <1>8 DEF Sound, LeavesTasks, KeepsHistory, SameTask

\* Settling a running row: what it fails or completes is the newest of its key.
LEMMA CompleteIsSound ==
  ASSUME StoreTypeOK, OwnerIsNewest, LastFailureIsOpen, SupersededIsTerminal,
        
         NEW id \in JobId, id \in DOMAIN jobs => jobs[id].state = "running",
         CompleteJob(id)
  PROVE  Sound({id})
<1> DEFINE Done(r) == [r EXCEPT !.state = "done", !.terminal = FALSE, !.superseded_by = 0]
           Stamped(r) == [r EXCEPT !.superseded_by = id]
           Covered(i) == /\ id \in DOMAIN jobs /\ i # id
                         /\ jobs[i].key = jobs[id].key
                         /\ OpenFailure(jobs[i])
<1>1. /\ DOMAIN jobs' = DOMAIN jobs
      /\ id \in DOMAIN jobs => jobs'[id] = Done(jobs[id])
      /\ \A i \in DOMAIN jobs \ {id} :
           jobs'[i] = IF Covered(i) THEN Stamped(jobs[i]) ELSE jobs[i]
      /\ next_id' = next_id
  BY DEF CompleteJob, OpenFailure
<1>2. ASSUME NEW r \in Row
      PROVE  /\ Done(r) \in Row /\ Done(r).state = "done" /\ Done(r).key = r.key
             /\ Done(r).superseded_by = 0
             /\ Stamped(r) \in Row /\ Stamped(r).state = r.state /\ Stamped(r).key = r.key
             /\ Stamped(r).terminal = r.terminal /\ Stamped(r).superseded_by = id
  <2>1. /\ Done(r) \in Row /\ Done(r).state = "done" /\ Done(r).key = r.key
        /\ Done(r).superseded_by = 0
    BY StatesTyped DEF Row
  <2>2. id \in Nat
    BY DEF JobId
  <2>3. /\ Stamped(r) \in Row /\ Stamped(r).state = r.state /\ Stamped(r).key = r.key
        /\ Stamped(r).terminal = r.terminal /\ Stamped(r).superseded_by = id
    BY <2>2 DEF Row
  <2> QED
    BY <2>1, <2>3
<1>3. id # 0
  BY DEF JobId
<1> HIDE DEF Done, Stamped
<1>4. jobs' = [i \in DOMAIN jobs' |-> jobs'[i]]
  BY DEF CompleteJob
<1>5. \A i \in DOMAIN jobs' : jobs'[i] \in Row /\ jobs'[i].key = jobs[i].key
  BY <1>1, <1>2, RowsTyped
<1>6. StoreTypeOK'
  BY <1>1, <1>4, <1>5 DEF StoreTypeOK
<1>7. OwnerIsNewest'
  BY <1>1, <1>2, <1>5, RowsTyped DEF OwnerIsNewest, Live, OpenFailure
<1>8. LastFailureIsOpen'
  <2> SUFFICES ASSUME NEW i \in DOMAIN jobs', NEW j \in DOMAIN jobs',
                      OpenFailure(jobs'[i]), jobs'[j].state = "done",
                      jobs'[j].key = jobs'[i].key
               PROVE  j < i
    BY DEF LastFailureIsOpen, OpenFailure
  <2>1. i # id /\ ~Covered(i) /\ jobs'[i] = jobs[i]
    BY <1>1, <1>2, <1>3, RowsTyped DEF OpenFailure
  <2>2. j # id
    BY <2>1, <1>1, <1>5
  <2>3. jobs[j].state = "done" /\ jobs[j].key = jobs[i].key
    BY <2>1, <2>2, <1>1, <1>2, <1>5, RowsTyped
  <2> QED
    BY <2>1, <2>3, <1>1 DEF LastFailureIsOpen, OpenFailure
<1>9. LeavesTasks({id}) /\ KeepsHistory
  BY <1>1, <1>2, RowsTyped DEF LeavesTasks, KeepsHistory, OpenFailure, SameTask
<1>10. SupersededIsTerminal'
  <2> SUFFICES ASSUME NEW i \in DOMAIN jobs', jobs'[i].superseded_by # 0
               PROVE  jobs'[i].state = "failed" /\ jobs'[i].terminal
    BY DEF SupersededIsTerminal
  <2>1. i # id
    BY <1>1, <1>2, RowsTyped
  <2>2. CASE Covered(i)
    <3>1. i \in DOMAIN jobs /\ jobs[i].terminal \in BOOLEAN /\ i \in Int /\ id \in Int
      BY <1>1, RowsTyped, RowsNumbered DEF Row, JobId
    <3>2. Live(jobs[id])
      BY <2>2 DEF Live
    <3>3. i <= id
      BY <2>2, <3>1, <3>2 DEF OwnerIsNewest
    <3>4. Live(jobs[i]) => id <= i
      BY <2>2, <3>1 DEF OwnerIsNewest
    <3>5. jobs[i].terminal
      BY <2>1, <2>2, <3>1, <3>3, <3>4 DEF Live, OpenFailure
    <3> QED
      BY <3>1, <3>5, <2>1, <2>2, <1>1, <1>2, RowsTyped DEF OpenFailure
  <2>3. CASE ~Covered(i)
    BY <2>1, <2>3, <1>1 DEF SupersededIsTerminal
  <2> QED
    BY <2>2, <2>3
<1> QED
  BY <1>1, <1>6, <1>7, <1>8, <1>9, <1>10 DEF Sound, StoreTypeOK

LEMMA FailIsSound ==
  ASSUME StoreTypeOK, OwnerIsNewest, LastFailureIsOpen, SupersededIsTerminal,
        
         NEW id \in JobId, id \in DOMAIN jobs => jobs[id].state = "running",
         NEW hopeless \in BOOLEAN, FailJob(id, hopeless)
  PROVE  Sound({id})
<1> DEFINE Failed(r) == [r EXCEPT !.state = "failed", !.terminal = hopeless,
                                  !.superseded_by = 0]
<1>1. /\ jobs' = [i \in DOMAIN jobs |-> IF i \in {id} THEN Failed(jobs[i]) ELSE jobs[i]]
      /\ next_id' = next_id
  BY DEF FailJob, Update
<1>2. ASSUME NEW r \in Row
      PROVE  /\ Failed(r) \in Row /\ Failed(r).state = "failed" /\ Failed(r).key = r.key
             /\ Failed(r).superseded_by = 0
  BY StatesTyped DEF Row
<1> HIDE DEF Failed
<1>3. StoreTypeOK'
  BY <1>1, <1>2, RowsTyped DEF StoreTypeOK
<1>4. OwnerIsNewest'
  BY <1>1, <1>2, RowsTyped DEF OwnerIsNewest, Live
<1>5. LastFailureIsOpen'
  <2> SUFFICES ASSUME NEW i \in DOMAIN jobs', NEW j \in DOMAIN jobs',
                      OpenFailure(jobs'[i]), jobs'[j].state = "done",
                      jobs'[j].key = jobs'[i].key
               PROVE  j < i
    BY DEF LastFailureIsOpen, OpenFailure
  <2>1. j # id /\ jobs[j].state = "done" /\ jobs[j].key = jobs[i].key
    BY <1>1, <1>2, RowsTyped
  <2>2. CASE i = id
    <3>1. j <= i
      BY <2>1, <2>2, <1>1 DEF OwnerIsNewest, Live
    <3> QED
      BY <3>1, <2>1, <2>2, <1>1, RowsNumbered DEF JobId
  <2>3. CASE i # id
    BY <2>1, <2>3, <1>1 DEF LastFailureIsOpen, OpenFailure
  <2> QED
    BY <2>2, <2>3
<1>6. LeavesTasks({id}) /\ KeepsHistory
  BY <1>1, RowsTyped DEF LeavesTasks, KeepsHistory, SameTask
<1>7. SupersededIsTerminal'
  BY <1>1, <1>2, RowsTyped DEF SupersededIsTerminal
<1> QED
  BY <1>1, <1>3, <1>4, <1>5, <1>6, <1>7 DEF Sound, StoreTypeOK

LEMMA SameRowsIsSound ==
  ASSUME StoreTypeOK, OwnerIsNewest, LastFailureIsOpen, SupersededIsTerminal,
         UNCHANGED <<jobs, next_id>>
  PROVE  Sound({})
<1>1. Tame({})
  BY DEF Tame, NoNewOwner, NoNewOutcome, LeavesTasks, KeepsHistory, SameTask, StoreTypeOK
<1> QED
  BY <1>1, TameIsSound

LEMMA EnqueueIsSound ==
  ASSUME StoreAssumption, StoreTypeOK, OwnerIsNewest, LastFailureIsOpen,
         SupersededIsTerminal,
         NEW k \in Key, NEW p \in Payload, NEW pr \in Priority, NEW ready \in BOOLEAN,
         EnqueueJob(k, p, pr, ready)
  PROVE  Sound({})
<1>1. CASE Owners(k) = {} /\ Insert(k, p, pr, ready)
  BY <1>1, InsertIsSound DEF StoreAssumption
<1>2. ASSUME NEW owner \in Owners(k), next_id' = next_id,
             Update({owner}, LAMBDA r : Absorb(r, p, pr, ready))
      PROVE  Sound({})
  BY <1>2, AbsorbIsTame, TameIsSound
<1> QED
  BY <1>1, <1>2 DEF EnqueueJob

LEMMA VerdictIsOne ==
  ASSUME NEW outcome \in Outcome, NEW attempts, NEW parks
  PROVE  Verdict(outcome, attempts, parks) \in {"complete", "park", "retry", "fail"}
BY DEF Verdict

LEMMA WriteIsSound ==
  ASSUME StoreTypeOK, OwnerIsNewest, LastFailureIsOpen, SupersededIsTerminal,
        
         NEW id \in JobId, id \in DOMAIN jobs => jobs[id].state = "running",
         NEW outcome \in Outcome, NEW verdict \in {"complete", "park", "retry", "fail"},
         Write(id, verdict, outcome)
  PROVE  Sound({id})
<1>1. CASE verdict = "complete"
  BY <1>1, CompleteIsSound DEF Write
<1>2. CASE verdict = "park"
  BY <1>2, ParkIsTame, TameIsSound DEF Write
<1>3. CASE verdict = "retry"
  BY <1>3, RetryIsTame, TameIsSound DEF Write
<1>4. CASE verdict = "fail"
  BY <1>4, FailIsSound DEF Write, Retryable
<1> QED
  BY <1>1, <1>2, <1>3, <1>4

-----------------------------------------------------------------------------
(* From the rows to the daemons.                                           *)

DaemonsTyped ==
  /\ phase \in [Daemon -> Phase]
  /\ lock \in Daemon \union {Nobody, DeadSession}
  /\ claim \in [Daemon -> [JobId -> Snapshot \union {NoClaim}]]
  /\ boots \in Nat

\* No task is born, and none of the rows of S keeps one.
DropsOnly(S) ==
  \A d \in Daemon, i \in JobId :
    claim'[d][i] # NoClaim => claim'[d][i] = claim[d][i] /\ i \notin S

TasksInWorking == \A d \in Daemon : \A i \in Held(d) : phase[d] \in Working

\* One daemon at most has tasks: the lock's.
LEMMA OthersIdle ==
  ASSUME IInv, NEW d \in Daemon, phase[d] # "down", NEW c \in Daemon, c # d
  PROVE  phase[c] = "down" /\ Held(c) = {}
<1>1. phase[c] = "down"
  BY DEF IInv, LockDiscipline
<1> QED
  BY <1>1 DEF IInv, ClaimsAreWorked, Working

LEMMA IdleDaemon ==
  ASSUME IInv, NEW d \in Daemon, phase[d] \notin Working
  PROVE  Held(d) = {}
BY DEF IInv, ClaimsAreWorked

LEMMA StepKeeps ==
  ASSUME IInv, NEW S, Sound(S), DropsOnly(S), DaemonsTyped', LockDiscipline', TasksInWorking'
  PROVE  IInv' /\ KeepsHistory
<1>1. TypeOK'
  BY DEF Sound, DaemonsTyped, TypeOK
<1>2. \A d \in Daemon, i \in JobId :
        i \in Held(d)' => /\ i \in Held(d)
                          /\ claim'[d][i] = claim[d][i]
                          /\ i \notin S
                          /\ i < next_id
  BY DEF Held, DropsOnly, IInv, ClaimsAreWorked
<1>3. next_id \in Int /\ next_id' \in Int /\ JobId \subseteq Int
  BY <1>1 DEF IInv, TypeOK, StoreTypeOK, JobId
<1>4. ClaimsAreWorked'
  <2> SUFFICES ASSUME NEW d \in Daemon, NEW i \in Held(d)'
               PROVE  phase'[d] \in Working /\ i < next_id'
    BY DEF ClaimsAreWorked
  <2>1. i \in JobId
    BY DEF Held
  <2>2. i < next_id /\ next_id <= next_id'
    BY <1>2, <2>1 DEF Sound
  <2>3. phase'[d] \in Working
    BY DEF TasksInWorking
  <2> QED
    BY <1>3, <2>1, <2>2, <2>3
<1>5. HeldIsRunning'
  <2> SUFFICES ASSUME NEW d \in Daemon, NEW i \in JobId, i \in Held(d)', i \in DOMAIN jobs'
               PROVE  /\ jobs'[i].state = "running"
                      /\ jobs'[i].key = claim'[d][i].key
                      /\ jobs'[i].attempts = claim'[d][i].attempts
                      /\ jobs'[i].parks = claim'[d][i].parks
    BY DEF HeldIsRunning, Held
  <2>1. i \in DOMAIN jobs
    BY <1>2, <1>3 DEF Sound
  <2>2. /\ jobs[i].state = "running"
        /\ jobs[i].key = claim[d][i].key
        /\ jobs[i].attempts = claim[d][i].attempts
        /\ jobs[i].parks = claim[d][i].parks
    BY <1>2, <2>1 DEF IInv, HeldIsRunning
  <2>3. SameTask(jobs'[i], jobs[i])
    BY <1>2, <2>1, <2>2 DEF Sound, LeavesTasks
  <2> QED
    BY <1>2, <2>2, <2>3 DEF SameTask
<1> QED
  BY <1>1, <1>4, <1>5 DEF IInv, Sound

LEMMA DropsNothing == ASSUME claim' = claim PROVE DropsOnly({})
BY DEF DropsOnly

LEMMA IInvStore ==
  ASSUME IInv
  PROVE  /\ StoreTypeOK /\ OwnerIsNewest /\ LastFailureIsOpen /\ SupersededIsTerminal
         /\ DaemonsTyped
BY DEF IInv, TypeOK, DaemonsTyped

\* A daemon moves on while it holds the lock and has no task to lose.
LEMMA PhaseTyped ==
  ASSUME DaemonsTyped, NEW d \in Daemon, NEW to \in Phase,
         phase' = [phase EXCEPT ![d] = to]
  PROVE  /\ phase' \in [Daemon -> Phase]
         /\ phase'[d] = to
         /\ \A c \in Daemon \ {d} : phase'[c] = phase[c]
BY DEF DaemonsTyped

LEMMA GoesKeeps ==
  ASSUME IInv, NEW d \in Daemon, NEW to \in Phase, phase[d] # "down",
         phase' = [phase EXCEPT ![d] = to],
         to = "down" \/ lock' = lock, lock' \in Daemon \union {Nobody, DeadSession},
         boots' \in Nat, NEW S, Sound(S), DropsOnly(S),
         claim' \in [Daemon -> [JobId -> Snapshot \union {NoClaim}]],
         to \in Working \/ Held(d)' = {}
  PROVE  IInv' /\ KeepsHistory
<1>1. /\ phase' \in [Daemon -> Phase]
      /\ phase'[d] = to
      /\ \A c \in Daemon \ {d} : phase'[c] = phase[c] /\ phase[c] = "down" /\ Held(c) = {}
  BY PhaseTyped, IInvStore, OthersIdle
<1>2. DaemonsTyped'
  BY <1>1 DEF DaemonsTyped
<1>3. LockDiscipline'
  BY <1>1 DEF LockDiscipline, IInv
<1>4. \A c \in Daemon \ {d} : Held(c)' = {}
  BY <1>1 DEF DropsOnly, Held
<1>5. TasksInWorking'
  BY <1>1, <1>4 DEF TasksInWorking
<1> QED
  BY <1>2, <1>3, <1>5, StepKeeps

-----------------------------------------------------------------------------
(* Boot.                                                                   *)

LEMMA TakeDaemonLockKeeps ==
  ASSUME RunnerAssumption, IInv, NEW d \in Daemon, TakeDaemonLock(d)
  PROVE  IInv' /\ KeepsHistory
<1>1. \A c \in Daemon : phase[c] = "down" /\ Held(c) = {}
  <2>1. lock \notin Daemon
    BY DEF TakeDaemonLock, RunnerAssumption
  <2>2. \A c \in Daemon : phase[c] = "down"
    BY <2>1 DEF IInv, LockDiscipline
  <2> QED
    BY <2>2, IdleDaemon DEF Working
<1>2. "migrating" \in Phase
  BY DEF Phase
<1>3. /\ phase' \in [Daemon -> Phase]
      /\ \A c \in Daemon \ {d} : phase'[c] = "down"
  BY <1>1, <1>2, PhaseTyped, IInvStore DEF TakeDaemonLock, Goes
<1>4. DaemonsTyped'
  BY <1>3, IInvStore DEF DaemonsTyped, TakeDaemonLock
<1>5. LockDiscipline'
  BY <1>3 DEF LockDiscipline, TakeDaemonLock
<1>6. TasksInWorking'
  BY <1>1 DEF TasksInWorking, TakeDaemonLock, Held
<1>7. Sound({}) /\ DropsOnly({})
  BY SameRowsIsSound, DropsNothing, IInvStore DEF TakeDaemonLock
<1> QED
  BY <1>4, <1>5, <1>6, <1>7, StepKeeps

LEMMA BootKeeps ==
  ASSUME RunnerAssumption, IInv, NEW d \in Daemon, Boot(d)
  PROVE  IInv' /\ KeepsHistory
<1> USE DEF Goes
<1>0. /\ {"down", "migrating", "recovering", "binding", "serving"} \subseteq Phase
      /\ {"migrating", "recovering", "binding"} \intersect Working = {}
  BY DEF Phase, Working
<1>1. CASE TakeDaemonLock(d)
  BY <1>1, TakeDaemonLockKeeps
<1>2. CASE SweepRunning(d)
  <2>1. \A c \in Daemon : Held(c) = {}
    BY <1>0, <1>2, OthersIdle, IdleDaemon DEF SweepRunning
  <2>2. DropsOnly(JobId) /\ DropsOnly({}) /\ Held(d)' = {}
    BY <1>2, <2>1 DEF SweepRunning, DropsOnly, Held
  <2>3. /\ lock' = lock /\ lock' \in Daemon \union {Nobody, DeadSession}
        /\ boots' \in Nat
        /\ claim' \in [Daemon -> [JobId -> Snapshot \union {NoClaim}]]
    BY <1>2, IInvStore DEF SweepRunning, DaemonsTyped
  <2>4. phase[d] # "down" /\ phase' = [phase EXCEPT ![d] = "recovering"]
    BY <1>2 DEF SweepRunning
  <2>5. Sound(JobId) \/ Sound({})
    BY <1>2, RequeueIsTame, TameIsSound, SameRowsIsSound, IInvStore DEF SweepRunning
  <2>6. ASSUME NEW S, Sound(S), DropsOnly(S)
        PROVE  IInv' /\ KeepsHistory
    BY <1>0, <2>2, <2>3, <2>4, <2>6, GoesKeeps
  <2> QED
    BY <2>2, <2>5, <2>6
<1>3. CASE RetireEmpty(d)
  <2>1. Sound({}) /\ DropsOnly({})
    BY <1>3, RetireIsTame, TameIsSound, DropsNothing, IInvStore DEF RetireEmpty, daemonVars
  <2>2. /\ DaemonsTyped' /\ LockDiscipline' /\ TasksInWorking'
    BY <1>3, IInvStore
    DEF RetireEmpty, daemonVars, DaemonsTyped, LockDiscipline, TasksInWorking, Held,
        IInv, ClaimsAreWorked
  <2> QED
    BY <2>1, <2>2, StepKeeps
<1>4. CASE ReviveFailed(d)
  <2>1. Sound({})
    BY <1>4, ReviveIsTame, TameIsSound, SameRowsIsSound, IInvStore DEF ReviveFailed
  <2>2. Held(d) = {}
    BY <1>0, <1>4, IdleDaemon DEF ReviveFailed
  <2> QED
    BY <1>0, <1>4, <2>1, <2>2, DropsNothing, GoesKeeps, IInvStore
    DEF ReviveFailed, DaemonsTyped, Held
<1>5. CASE Serve(d)
  <2>1. Held(d) = {}
    BY <1>0, <1>5, IdleDaemon DEF Serve
  <2> QED
    BY <1>0, <1>5, <2>1, SameRowsIsSound, DropsNothing, GoesKeeps, IInvStore
    DEF Serve, DaemonsTyped, Held
<1>6. CASE BootFails(d)
  <2>1. Held(d) = {} /\ phase[d] # "down" /\ phase' = [phase EXCEPT ![d] = "down"]
    BY <1>0, <1>6, IdleDaemon DEF BootFails
  <2>2. lock' \in Daemon \union {Nobody, DeadSession}
    BY <1>6, IInvStore DEF BootFails, Unlocked, DaemonsTyped
  <2> QED
    BY <1>0, <1>6, <2>1, <2>2, SameRowsIsSound, DropsNothing, GoesKeeps, IInvStore
    DEF BootFails, DaemonsTyped, Held
<1> QED
  BY <1>1, <1>2, <1>3, <1>4, <1>5, <1>6 DEF Boot

-----------------------------------------------------------------------------
(* Work.                                                                   *)

\* A claim takes pending rows, so none that has a task.
LEMMA ClaimKeeps ==
  ASSUME RunnerAssumption, IInv, NEW d \in Daemon, NEW lane \in Lane, Claim(d, lane)
  PROVE  IInv' /\ KeepsHistory
<1>1. PICK S \in Best(KindsOf[lane], Limit(lane)) :
        /\ ClaimJobs(S)
        /\ claim' = [claim EXCEPT ![d] =
             [i \in JobId |-> IF i \in S THEN SnapshotOf(jobs[i]) ELSE claim[d][i]]]
  BY DEF Claim
<1>2. S \in SUBSET Ready(KindsOf[lane])
  BY DEF Best
<1>3. Tame({}) /\ Sound({})
  BY <1>1, <1>2, ClaimIsTame, TameIsSound, IInvStore
<1>4. \A i \in S : i \in DOMAIN jobs /\ i \in JobId /\ jobs[i].state = "pending"
  BY <1>2, RowsNumbered, IInvStore DEF Ready
<1>5. \A i \in S : /\ SnapshotOf(jobs[i]) \in Snapshot
                   /\ jobs'[i].state = "running"
                   /\ jobs'[i].key = SnapshotOf(jobs[i]).key
                   /\ jobs'[i].attempts = SnapshotOf(jobs[i]).attempts
                   /\ jobs'[i].parks = SnapshotOf(jobs[i]).parks
  <2> SUFFICES ASSUME NEW i \in S
               PROVE  /\ SnapshotOf(jobs[i]) \in Snapshot
                      /\ jobs'[i].state = "running"
                      /\ jobs'[i].key = SnapshotOf(jobs[i]).key
                      /\ jobs'[i].attempts = SnapshotOf(jobs[i]).attempts
                      /\ jobs'[i].parks = SnapshotOf(jobs[i]).parks
    OBVIOUS
  <2>1. jobs[i] \in Row
    BY <1>4, RowsTyped, IInvStore
  <2>2. jobs'[i] = [jobs[i] EXCEPT !.state = "running", !.attempts = @ + 1]
    BY <1>1, <1>4 DEF ClaimJobs, Update
  <2>3. jobs[i].attempts + 1 \in Nat
    BY <2>1 DEF Row
  <2> QED
    BY <2>1, <2>2, <2>3 DEF Row, SnapshotOf, Snapshot
<1>6. /\ claim' \in [Daemon -> [JobId -> Snapshot \union {NoClaim}]]
      /\ \A c \in Daemon \ {d} : claim'[c] = claim[c]
      /\ \A i \in JobId :
           claim'[d][i] = IF i \in S THEN SnapshotOf(jobs[i]) ELSE claim[d][i]
  BY <1>1, <1>5, IInvStore DEF DaemonsTyped
<1>7. phase' = phase /\ lock' = lock /\ boots' = boots /\ phase[d] = "serving"
  BY DEF Claim
<1>8. TypeOK' /\ LockDiscipline'
  BY <1>3, <1>6, <1>7, IInvStore DEF TypeOK, DaemonsTyped, LockDiscipline, Sound, IInv
<1>9. next_id' = next_id /\ DOMAIN jobs' \subseteq DOMAIN jobs
  BY <1>3 DEF Tame, NoNewOwner
<1>10. ClaimsAreWorked'
  <2> SUFFICES ASSUME NEW c \in Daemon, NEW i \in Held(c)'
               PROVE  phase'[c] \in Working /\ i < next_id'
    BY DEF ClaimsAreWorked
  <2>1. i \in JobId
    BY DEF Held
  <2>2. CASE i \in Held(c)
    BY <2>2, <1>7, <1>9 DEF ClaimsAreWorked, IInv
  <2>3. CASE i \notin Held(c)
    <3>1. c = d /\ i \in S
      BY <2>1, <2>3, <1>6 DEF Held
    <3> QED
      BY <3>1, <1>4, <1>7, <1>9, IInvStore DEF Working, StoreTypeOK
  <2> QED
    BY <2>2, <2>3
<1>11. HeldIsRunning'
  <2> SUFFICES ASSUME NEW c \in Daemon, NEW i \in JobId, i \in Held(c)', i \in DOMAIN jobs'
               PROVE  /\ jobs'[i].state = "running"
                      /\ jobs'[i].key = claim'[c][i].key
                      /\ jobs'[i].attempts = claim'[c][i].attempts
                      /\ jobs'[i].parks = claim'[c][i].parks
    BY DEF HeldIsRunning, Held
  <2>1. CASE c = d /\ i \in S
    BY <2>1, <1>5, <1>6
  <2>2. CASE ~(c = d /\ i \in S)
    <3>1. claim'[c][i] = claim[c][i] /\ i \in Held(c) /\ i \in DOMAIN jobs
      BY <2>2, <1>6, <1>9 DEF Held
    <3>2. /\ jobs[i].state = "running"
          /\ jobs[i].key = claim[c][i].key
          /\ jobs[i].attempts = claim[c][i].attempts
          /\ jobs[i].parks = claim[c][i].parks
      BY <3>1 DEF IInv, HeldIsRunning
    <3>3. SameTask(jobs'[i], jobs[i])
      BY <3>1, <3>2, <1>3 DEF Sound, LeavesTasks
    <3> QED
      BY <3>1, <3>2, <3>3 DEF SameTask
  <2> QED
    BY <2>1, <2>2
<1> QED
  BY <1>3, <1>8, <1>10, <1>11 DEF IInv, Sound

\* The end of a task: the row is written, or left as it is.
LEMMA EndOfTaskKeeps ==
  ASSUME IInv, NEW d \in Daemon, NEW i \in Held(d), Sound({i}),
         Forget(d, i), UNCHANGED <<phase, lock, boots>>
  PROVE  IInv' /\ KeepsHistory
<1>1. /\ i \in JobId /\ phase[d] # "down"
      /\ phase[d] \in Working
  BY DEF IInv, ClaimsAreWorked, Held, Working
<1>2. /\ claim' \in [Daemon -> [JobId -> Snapshot \union {NoClaim}]]
      /\ claim'[d][i] = NoClaim
      /\ \A j \in JobId \ {i} : claim'[d][j] = claim[d][j]
      /\ \A c \in Daemon \ {d} : claim'[c] = claim[c]
  BY <1>1, IInvStore DEF Forget, DaemonsTyped
<1>3. DropsOnly({i})
  <2> SUFFICES ASSUME NEW c \in Daemon, NEW j \in JobId, claim'[c][j] # NoClaim
               PROVE  claim'[c][j] = claim[c][j] /\ j # i
    BY DEF DropsOnly
  <2>1. CASE c = d
    BY <2>1, <1>2
  <2>2. CASE c # d
    BY <2>2, <1>1, <1>2, OthersIdle DEF Held
  <2> QED
    BY <2>1, <2>2
<1>4. DaemonsTyped' /\ LockDiscipline'
  BY <1>2, IInvStore DEF DaemonsTyped, LockDiscipline, IInv
<1>5. TasksInWorking'
  BY <1>3 DEF TasksInWorking, Held, DropsOnly, IInv, ClaimsAreWorked
<1> QED
  BY <1>3, <1>4, <1>5, StepKeeps

LEMMA SettleKeeps ==
  ASSUME IInv, NEW d \in Daemon, NEW i \in JobId, NEW outcome \in Outcome,
         Settle(d, i, outcome)
  PROVE  IInv' /\ KeepsHistory
<1>1. i \in Held(d) /\ (i \in DOMAIN jobs => jobs[i].state = "running")
  BY DEF Settle, IInv, HeldIsRunning
<1>2. Sound({i})
  BY <1>1, VerdictIsOne, WriteIsSound, IInvStore DEF Settle
<1> QED
  BY <1>1, <1>2, EndOfTaskKeeps DEF Settle

LEMMA LeaveRunningKeeps ==
  ASSUME IInv, NEW d \in Daemon, NEW i \in JobId, LeaveRunning(d, i)
  PROVE  IInv' /\ KeepsHistory
<1>1. Sound({})
  BY SameRowsIsSound, IInvStore DEF LeaveRunning
<1>2. Sound({i})
  BY <1>1 DEF Sound, LeavesTasks
<1> QED
  BY <1>2, EndOfTaskKeeps DEF LeaveRunning

-----------------------------------------------------------------------------
(* Stopping.                                                               *)

LEMMA NoClaimsTyped ==
  ASSUME DaemonsTyped, NEW d \in Daemon, claim' = [claim EXCEPT ![d] = NoClaims]
  PROVE  /\ claim' \in [Daemon -> [JobId -> Snapshot \union {NoClaim}]]
         /\ Held(d)' = {}
         /\ DropsOnly({})
BY DEF DaemonsTyped, NoClaims, Held, DropsOnly

LEMMA StopKeeps ==
  ASSUME RunnerAssumption, IInv, NEW d \in Daemon, Stop(d)
  PROVE  IInv' /\ KeepsHistory
<1> USE DEF Goes
<1>0. /\ {"down", "stopping", "releasing", "unlocking"} \subseteq Phase
      /\ {"releasing", "unlocking"} \intersect Working = {}
      /\ "stopping" \in Working
  BY DEF Phase, Working
<1>1. CASE Signal(d)
  BY <1>0, <1>1, SameRowsIsSound, DropsNothing, GoesKeeps, IInvStore DEF Signal, DaemonsTyped
<1>2. CASE StopRunner(d)
  BY <1>0, <1>2, SameRowsIsSound, NoClaimsTyped, GoesKeeps, IInvStore
  DEF StopRunner, DaemonsTyped
<1>3. CASE ReleaseClaims(d)
  <2>1. \A c \in Daemon : Held(c) = {}
    BY <1>0, <1>3, OthersIdle, IdleDaemon DEF ReleaseClaims
  <2>2. DropsOnly(JobId) /\ DropsOnly({}) /\ Held(d)' = {}
    BY <1>3, <2>1 DEF ReleaseClaims, DropsOnly, Held
  <2>3. /\ lock' = lock /\ lock' \in Daemon \union {Nobody, DeadSession}
        /\ boots' \in Nat
        /\ claim' \in [Daemon -> [JobId -> Snapshot \union {NoClaim}]]
    BY <1>3, IInvStore DEF ReleaseClaims, DaemonsTyped
  <2>4. phase[d] # "down" /\ phase' = [phase EXCEPT ![d] = "unlocking"]
    BY <1>3 DEF ReleaseClaims
  <2>5. Sound(JobId) \/ Sound({})
    BY <1>3, ReleaseIsTame, TameIsSound, SameRowsIsSound, IInvStore DEF ReleaseClaims
  <2>6. ASSUME NEW S, Sound(S), DropsOnly(S)
        PROVE  IInv' /\ KeepsHistory
    BY <1>0, <2>2, <2>3, <2>4, <2>6, GoesKeeps
  <2> QED
    BY <2>2, <2>5, <2>6
<1>4. CASE DropLock(d)
  <2>1. Held(d) = {} /\ phase[d] # "down" /\ phase' = [phase EXCEPT ![d] = "down"]
    BY <1>0, <1>4, IdleDaemon DEF DropLock
  <2>2. lock' \in Daemon \union {Nobody, DeadSession}
    BY <1>4, IInvStore DEF DropLock, Unlocked, DaemonsTyped
  <2> QED
    BY <1>0, <1>4, <2>1, <2>2, SameRowsIsSound, DropsNothing, GoesKeeps, IInvStore
    DEF DropLock, DaemonsTyped, Held
<1>5. CASE Crash(d)
  <2>1. lock' \in Daemon \union {Nobody, DeadSession}
    BY <1>5, IInvStore DEF Crash, DaemonsTyped
  <2> QED
    BY <1>0, <1>5, <2>1, SameRowsIsSound, NoClaimsTyped, GoesKeeps, IInvStore
    DEF Crash, DaemonsTyped
<1> QED
  BY <1>1, <1>2, <1>3, <1>4, <1>5 DEF Stop

-----------------------------------------------------------------------------
(* The rest.                                                               *)

\* A step of the table alone.
LEMMA TableStepKeeps ==
  ASSUME IInv, Sound({}), UNCHANGED daemonVars
  PROVE  IInv' /\ KeepsHistory
<1>1. DropsOnly({})
  BY DropsNothing DEF daemonVars
<1>2. DaemonsTyped' /\ LockDiscipline' /\ TasksInWorking'
  BY IInvStore
  DEF daemonVars, DaemonsTyped, LockDiscipline, TasksInWorking, Held, IInv, ClaimsAreWorked
<1> QED
  BY <1>1, <1>2, StepKeeps

LEMMA CancelKeeps ==
  ASSUME IInv, NEW k \in Key, Cancel(k)
  PROVE  IInv' /\ KeepsHistory
<1>1. CASE KillScans(k)
  <2>1. Tame({})
    BY <1>1, DeleteIsTame, IInvStore DEF KillScans
  <2> QED
    BY <2>1, TameIsSound, IInvStore, TableStepKeeps DEF Cancel
<1>2. CASE ReapUnreferenced(k)
  <2>1. Tame({})
    BY <1>2, DeleteIsTame, IInvStore DEF ReapUnreferenced
  <2> QED
    BY <2>1, TameIsSound, IInvStore, TableStepKeeps DEF Cancel
<1> QED
  BY <1>1, <1>2 DEF Cancel

LEMMA PurgeKeeps ==
  ASSUME IInv, Purge
  PROVE  IInv' /\ KeepsHistory
<1>1. PICK S \in SUBSET InState("done") : Delete(S)
  BY DEF Purge, PurgeDoneJobs
<1>2. Tame({})
  BY <1>1, DeleteIsTame, IInvStore DEF InState, Purge, PurgeDoneJobs
<1> QED
  BY <1>2, TameIsSound, IInvStore, TableStepKeeps DEF Purge

LEMMA SessionEndsKeeps ==
  ASSUME RunnerAssumption, IInv, SessionEnds
  PROVE  IInv' /\ KeepsHistory
<1>1. Sound({}) /\ DropsOnly({})
  BY SameRowsIsSound, DropsNothing, IInvStore DEF SessionEnds
<1>2. DaemonsTyped' /\ LockDiscipline' /\ TasksInWorking'
  BY IInvStore
  DEF SessionEnds, RunnerAssumption, DaemonsTyped, LockDiscipline, TasksInWorking, Held, IInv,
      ClaimsAreWorked
<1> QED
  BY <1>1, <1>2, StepKeeps

LEMMA NextKeeps ==
  ASSUME StoreAssumption, RunnerAssumption, IInv, Next
  PROVE  IInv' /\ KeepsHistory
<1>1. ASSUME NEW d \in Daemon, Boot(d) PROVE IInv' /\ KeepsHistory
  BY <1>1, BootKeeps
<1>2. ASSUME NEW d \in Daemon, Work(d) PROVE IInv' /\ KeepsHistory
  BY <1>2, ClaimKeeps, SettleKeeps, LeaveRunningKeeps DEF Work
<1>3. ASSUME NEW d \in Daemon, Stop(d) PROVE IInv' /\ KeepsHistory
  BY <1>3, StopKeeps
<1>4. CASE SessionEnds
  BY <1>4, SessionEndsKeeps
<1>5. ASSUME NEW k \in Key, NEW p \in Payload, NEW pr \in Priority, NEW ready \in BOOLEAN,
             Enqueue(k, p, pr, ready)
      PROVE  IInv' /\ KeepsHistory
  BY <1>5, EnqueueIsSound, TableStepKeeps, IInvStore DEF Enqueue
<1>6. ASSUME NEW k \in Key, Cancel(k) PROVE IInv' /\ KeepsHistory
  BY <1>6, CancelKeeps
<1>7. CASE Purge
  BY <1>7, PurgeKeeps
<1>8. ASSUME NEW i \in JobId, TimePasses(i) PROVE IInv' /\ KeepsHistory
  BY <1>8, ElapseIsTame, TameIsSound, TableStepKeeps, IInvStore DEF TimePasses
<1> QED
  BY <1>1, <1>2, <1>3, <1>4, <1>5, <1>6, <1>7, <1>8 DEF Next

LEMMA StutterKeeps ==
  ASSUME IInv, UNCHANGED vars
  PROVE  IInv' /\ KeepsHistory
<1>1. Sound({})
  BY SameRowsIsSound, IInvStore DEF vars
<1> QED
  BY <1>1, TableStepKeeps DEF vars, daemonVars

-----------------------------------------------------------------------------
(* The theorems.                                                           *)

\* The strengthened invariant, from which the others follow: an inductive
\* statement of "the lock's daemon, and only it, works the running rows".
THEOREM Invariance ==
  ASSUME StoreAssumption, RunnerAssumption
  PROVE  Spec => []IInv
<1>1. Init => IInv
  <2> SUFFICES ASSUME Init PROVE IInv
    OBVIOUS
  <2>1. TypeOK
    <3>1. StoreTypeOK
      BY DEF Init, StoreInit, StoreTypeOK, StoreAssumption
    <3>2. DaemonsTyped
      BY DEF Init, NoClaims, DaemonsTyped, Phase
    <3> QED
      BY <3>1, <3>2 DEF TypeOK, DaemonsTyped
  <2>2. \A d \in Daemon : phase[d] = "down" /\ Held(d) = {}
    BY DEF Init, NoClaims, Held
  <2> QED
    BY <2>1, <2>2
    DEF Init, StoreInit, IInv, LockDiscipline, ClaimsAreWorked, HeldIsRunning, OwnerIsNewest,
        LastFailureIsOpen, SupersededIsTerminal
<1>2. IInv /\ [Next]_vars => IInv'
  BY NextKeeps, StutterKeeps
<1> QED
  BY <1>1, <1>2, PTL DEF Spec

\* Every variable keeps its type, whatever boots, crashes and stops.
THEOREM TypeCorrect ==
  ASSUME StoreAssumption, RunnerAssumption
  PROVE  Spec => []TypeOK
<1>1. IInv => TypeOK
  BY DEF IInv
<1> QED
  BY <1>1, Invariance, PTL

\* No row is ever in the hands of two daemons.
THEOREM Exclusive ==
  ASSUME StoreAssumption, RunnerAssumption
  PROVE  Spec => []ClaimExclusive
<1>1. IInv => ClaimExclusive
  BY OthersIdle DEF ClaimExclusive, IInv, ClaimsAreWorked, Working
<1> QED
  BY <1>1, Invariance, PTL

\* A task's row is running with the counters the task will judge by: settling
\* by id alone is sound.
THEOREM TasksOwnTheirRows ==
  ASSUME StoreAssumption, RunnerAssumption
  PROVE  Spec => []HeldIsRunning
<1>1. IInv => HeldIsRunning
  BY DEF IInv
<1> QED
  BY <1>1, Invariance, PTL

\* The owner of a dedupe key is its newest row, hence the only one.
THEOREM NewestOwns ==
  ASSUME StoreAssumption, RunnerAssumption
  PROVE  Spec => []OwnerIsNewest
<1>1. IInv => OwnerIsNewest
  BY DEF IInv
<1> QED
  BY <1>1, Invariance, PTL

\* A failure still reported as open is newer than every success of its key.
THEOREM FailuresStayFresh ==
  ASSUME StoreAssumption, RunnerAssumption
  PROVE  Spec => []LastFailureIsOpen
<1>1. IInv => LastFailureIsOpen
  BY DEF IInv
<1> QED
  BY <1>1, Invariance, PTL

\* Terminal failures are never revived.
THEOREM TerminalStays ==
  ASSUME StoreAssumption, RunnerAssumption
  PROVE  Spec => TerminalIsForGood
<1>1. IInv /\ [Next]_vars =>
        [\A i \in InState("failed") : jobs[i].terminal =>
           i \in DOMAIN jobs' /\ jobs'[i].state = "failed" /\ jobs'[i].terminal]_vars
  BY NextKeeps, StutterKeeps DEF KeepsHistory, InState
<1> QED
  BY <1>1, Invariance, PTL DEF Spec, TerminalIsForGood

\* Finished rows are history: no late task, sweep or enqueue rewrites one.
THEOREM DoneStays ==
  ASSUME StoreAssumption, RunnerAssumption
  PROVE  Spec => DoneIsForGood
<1>1. IInv /\ [Next]_vars =>
        [\A i \in InState("done") : Unchanged(i) \/ i \notin DOMAIN jobs']_vars
  BY NextKeeps, StutterKeeps DEF KeepsHistory, InState, Unchanged
<1> QED
  BY <1>1, Invariance, PTL DEF Spec, DoneIsForGood

\* The failure a success has superseded is never touched again.
THEOREM SupersededStays ==
  ASSUME StoreAssumption, RunnerAssumption
  PROVE  Spec => SupersededIsForGood
<1>1. IInv /\ [Next]_vars =>
        [\A i \in DOMAIN jobs : jobs[i].superseded_by # 0 => Unchanged(i)]_vars
  BY NextKeeps, StutterKeeps DEF KeepsHistory, Unchanged, IInv, SupersededIsTerminal
<1> QED
  BY <1>1, Invariance, PTL DEF Spec, SupersededIsForGood

-----------------------------------------------------------------------------
(* The retry ladder.  The verdict compares the attempts of a snapshot with   *)
(* MaxAttempts; that the row itself stays within the bound rests on          *)
(* HeldIsRunning, and that only boots push it further on a boot being        *)
(* counted by the sweep that leaves the attempts of interrupted rows spent.  *)

\* A daemon past its first sweep is a boot that was counted.
BootsCounted == \A d \in Daemon : phase[d] \notin {"down", "migrating"} => boots >= 1

LadderInv == LadderBounded /\ BootsCounted

\* What LadderBounded says of one row.
OnLadder(r) ==
  /\ r.parks <= MaxParks
  /\ r.state = "pending" => r.attempts < MaxAttempts + boots - 1
  /\ r.state = "running" => r.attempts < MaxAttempts + boots

\* A statement that keeps rows on the ladder.
Climbs == \A i \in DOMAIN jobs' : OnLadder(jobs'[i])

LEMMA BoundsTyped ==
  ASSUME RunnerAssumption, TypeOK
  PROVE  MaxAttempts \in Nat /\ MaxAttempts >= 1 /\ MaxParks \in Nat /\ boots \in Nat
BY DEF RunnerAssumption, TypeOK

LEMMA RowsOnLadder ==
  ASSUME TypeOK, LadderBounded
  PROVE  \A i \in DOMAIN jobs : jobs[i] \in Row /\ OnLadder(jobs[i])
BY RowsTyped DEF TypeOK, LadderBounded, OnLadder

-----------------------------------------------------------------------------
(* The statements.                                                         *)

LEMMA ClaimClimbs ==
  ASSUME RunnerAssumption, TypeOK, LadderBounded,
         NEW kinds, NEW S \in SUBSET Ready(kinds), ClaimJobs(S)
  PROVE  Climbs
<1> DEFINE New(r) == [r EXCEPT !.state = "running", !.attempts = @ + 1]
<1>1. jobs' = [i \in DOMAIN jobs |-> IF i \in S THEN New(jobs[i]) ELSE jobs[i]]
  BY DEF ClaimJobs, Update
<1>2. ASSUME NEW r \in Row, OnLadder(r), r.state = "pending"
      PROVE  OnLadder(New(r))
  <2>1. New(r).state = "running" /\ New(r).attempts = r.attempts + 1 /\ New(r).parks = r.parks
    BY DEF Row
  <2>2. r.attempts \in Nat
    BY DEF Row
  <2> QED
    BY <1>2, <2>1, <2>2, BoundsTyped DEF OnLadder
<1>3. \A i \in S : i \in DOMAIN jobs /\ jobs[i].state = "pending"
  BY DEF Ready
<1> HIDE DEF New
<1> QED
  BY <1>1, <1>2, <1>3, RowsOnLadder DEF Climbs

\* A park refunds the attempt the claim spent; only fewer than MaxParks may ask for it.
LEMMA ParkClimbs ==
  ASSUME RunnerAssumption, TypeOK, LadderBounded, boots >= 1, NEW id \in JobId,
         id \in DOMAIN jobs => jobs[id].state = "running" /\ jobs[id].parks < MaxParks,
         ParkJob(id)
  PROVE  Climbs
<1> DEFINE New(r) == [r EXCEPT !.state = "pending", !.due = FALSE,
                               !.attempts = Refunded(@), !.parks = @ + 1]
<1>1. jobs' = [i \in DOMAIN jobs |-> IF i \in {id} THEN New(jobs[i]) ELSE jobs[i]]
  BY DEF ParkJob, Update
<1>2. ASSUME NEW r \in Row, OnLadder(r), r.state = "running", r.parks < MaxParks
      PROVE  OnLadder(New(r))
  <2>1. /\ New(r).state = "pending" /\ New(r).attempts = Refunded(r.attempts)
        /\ New(r).parks = r.parks + 1
    BY DEF Row
  <2>2. r.attempts \in Nat /\ r.parks \in Nat
    BY DEF Row
  <2> QED
    BY <1>2, <2>1, <2>2, BoundsTyped DEF OnLadder, Refunded
<1> HIDE DEF New
<1> QED
  BY <1>1, <1>2, RowsOnLadder DEF Climbs

\* A retry gives back a row whose attempts are below MaxAttempts.
LEMMA RetryClimbs ==
  ASSUME RunnerAssumption, TypeOK, LadderBounded, boots >= 1, NEW id \in JobId,
         id \in DOMAIN jobs => jobs[id].attempts < MaxAttempts, RetryJob(id)
  PROVE  Climbs
<1> DEFINE New(r) == [r EXCEPT !.state = "pending", !.due = FALSE]
<1>1. jobs' = [i \in DOMAIN jobs |-> IF i \in {id} THEN New(jobs[i]) ELSE jobs[i]]
  BY DEF RetryJob, Update
<1>2. ASSUME NEW r \in Row, OnLadder(r), r.attempts < MaxAttempts
      PROVE  OnLadder(New(r))
  <2>1. New(r).state = "pending" /\ New(r).attempts = r.attempts /\ New(r).parks = r.parks
    BY DEF Row
  <2>2. r.attempts \in Nat
    BY DEF Row
  <2> QED
    BY <1>2, <2>1, <2>2, BoundsTyped DEF OnLadder
<1> HIDE DEF New
<1> QED
  BY <1>1, <1>2, RowsOnLadder DEF Climbs

LEMMA CompleteClimbs ==
  ASSUME TypeOK, LadderBounded, NEW id \in JobId, CompleteJob(id)
  PROVE  Climbs
<1> DEFINE Done(r) == [r EXCEPT !.state = "done", !.terminal = FALSE, !.superseded_by = 0]
           Marked(r) == [r EXCEPT !.superseded_by = id]
<1>1. /\ DOMAIN jobs' = DOMAIN jobs
      /\ \A i \in DOMAIN jobs : jobs'[i] \in {jobs[i], Done(jobs[i]), Marked(jobs[i])}
  BY DEF CompleteJob
<1>2. ASSUME NEW r \in Row, OnLadder(r)
      PROVE  OnLadder(Done(r)) /\ OnLadder(Marked(r))
  <2>1. Done(r).state = "done" /\ Done(r).parks = r.parks
    BY DEF Row
  <2>2. /\ Marked(r).state = r.state /\ Marked(r).attempts = r.attempts
        /\ Marked(r).parks = r.parks
    BY DEF Row
  <2> QED
    BY <1>2, <2>1, <2>2 DEF OnLadder
<1> HIDE DEF Done, Marked
<1> QED
  BY <1>1, <1>2, RowsOnLadder DEF Climbs

LEMMA FailClimbs ==
  ASSUME TypeOK, LadderBounded, NEW id \in JobId, NEW hopeless \in BOOLEAN, FailJob(id, hopeless)
  PROVE  Climbs
<1> DEFINE New(r) == [r EXCEPT !.state = "failed", !.terminal = hopeless, !.superseded_by = 0]
<1>1. jobs' = [i \in DOMAIN jobs |-> IF i \in {id} THEN New(jobs[i]) ELSE jobs[i]]
  BY DEF FailJob, Update
<1>2. ASSUME NEW r \in Row, OnLadder(r)
      PROVE  OnLadder(New(r))
  <2>1. New(r).state = "failed" /\ New(r).parks = r.parks
    BY DEF Row
  <2> QED
    BY <1>2, <2>1 DEF OnLadder
<1> HIDE DEF New
<1> QED
  BY <1>1, <1>2, RowsOnLadder DEF Climbs

\* The boot's sweep: the attempt stays spent, and the boot pays for it.
LEMMA RequeueClimbs ==
  ASSUME RunnerAssumption, TypeOK, LadderBounded, RequeueRunning, boots' = boots + 1
  PROVE  LadderBounded'
<1> DEFINE New(r) == [r EXCEPT !.state = "pending"]
<1>1. jobs' = [i \in DOMAIN jobs |-> IF i \in InState("running") THEN New(jobs[i]) ELSE jobs[i]]
  BY DEF RequeueRunning, Update
<1>2. SUFFICES ASSUME NEW i \in DOMAIN jobs
               PROVE  /\ jobs'[i].parks <= MaxParks
                      /\ jobs'[i].state = "pending" => jobs'[i].attempts < MaxAttempts + boots
                      /\ jobs'[i].state = "running" => jobs'[i].attempts < MaxAttempts + boots + 1
  BY <1>1, BoundsTyped DEF LadderBounded
<1>3. jobs[i] \in Row /\ OnLadder(jobs[i]) /\ jobs[i].attempts \in Nat
  BY RowsOnLadder DEF Row
<1>4. CASE i \in InState("running")
  <2>1. /\ jobs'[i].state = "pending" /\ jobs'[i].attempts = jobs[i].attempts
        /\ jobs'[i].parks = jobs[i].parks
    BY <1>1, <1>3, <1>4 DEF Row
  <2> QED
    BY <1>3, <1>4, <2>1, BoundsTyped DEF OnLadder, InState
<1>5. CASE i \notin InState("running")
  <2>1. jobs'[i] = jobs[i]
    BY <1>1, <1>5
  <2> QED
    BY <1>3, <2>1, BoundsTyped DEF OnLadder
<1> QED
  BY <1>4, <1>5

LEMMA ReleaseClimbs ==
  ASSUME RunnerAssumption, TypeOK, LadderBounded, boots >= 1, ReleaseRunning
  PROVE  Climbs
<1> DEFINE New(r) == [r EXCEPT !.state = "pending", !.attempts = Refunded(@)]
<1>1. jobs' = [i \in DOMAIN jobs |-> IF i \in InState("running") THEN New(jobs[i]) ELSE jobs[i]]
  BY DEF ReleaseRunning, Update
<1>2. ASSUME NEW r \in Row, OnLadder(r), r.state = "running"
      PROVE  OnLadder(New(r))
  <2>1. /\ New(r).state = "pending" /\ New(r).attempts = Refunded(r.attempts)
        /\ New(r).parks = r.parks
    BY DEF Row
  <2>2. r.attempts \in Nat
    BY DEF Row
  <2> QED
    BY <1>2, <2>1, <2>2, BoundsTyped DEF OnLadder, Refunded
<1>3. \A i \in InState("running") : jobs[i].state = "running"
  BY DEF InState
<1> HIDE DEF New
<1> QED
  BY <1>1, <1>2, <1>3, RowsOnLadder DEF Climbs

LEMMA RetireClimbs ==
  ASSUME TypeOK, LadderBounded, RetireEmptyEmbedJobs
  PROVE  Climbs
<1> DEFINE New(r) == [r EXCEPT !.terminal = TRUE]
<1>1. jobs' = [i \in DOMAIN jobs |-> IF i \in Blank THEN New(jobs[i]) ELSE jobs[i]]
  BY DEF RetireEmptyEmbedJobs, Update
<1>2. ASSUME NEW r \in Row, OnLadder(r)
      PROVE  OnLadder(New(r))
  <2>1. New(r).state = r.state /\ New(r).attempts = r.attempts /\ New(r).parks = r.parks
    BY DEF Row
  <2> QED
    BY <1>2, <2>1 DEF OnLadder
<1> HIDE DEF New
<1> QED
  BY <1>1, <1>2, RowsOnLadder DEF Climbs

\* A revived failure starts at the foot of the ladder.
LEMMA ReviveClimbs ==
  ASSUME RunnerAssumption, TypeOK, LadderBounded, boots >= 1, NEW kinds, RequeueFailed(kinds)
  PROVE  Climbs
<1> DEFINE New(r) == [r EXCEPT !.state = "pending", !.due = TRUE, !.attempts = 0, !.parks = 0]
<1>1. jobs' = [i \in DOMAIN jobs |-> IF i \in Revivable(kinds) THEN New(jobs[i]) ELSE jobs[i]]
  BY DEF RequeueFailed, Update
<1>2. ASSUME NEW r \in Row
      PROVE  OnLadder(New(r))
  <2>1. New(r).state = "pending" /\ New(r).attempts = 0 /\ New(r).parks = 0
    BY DEF Row
  <2> QED
    BY <2>1, BoundsTyped DEF OnLadder
<1> HIDE DEF New
<1> QED
  BY <1>1, <1>2, RowsOnLadder DEF Climbs

LEMMA ElapseClimbs ==
  ASSUME TypeOK, LadderBounded, NEW id, Elapse(id)
  PROVE  Climbs
<1> DEFINE New(r) == [r EXCEPT !.due = TRUE]
<1>1. jobs' = [i \in DOMAIN jobs |-> IF i \in {id} THEN New(jobs[i]) ELSE jobs[i]]
  BY DEF Elapse, Update
<1>2. ASSUME NEW r \in Row, OnLadder(r)
      PROVE  OnLadder(New(r))
  <2>1. New(r).state = r.state /\ New(r).attempts = r.attempts /\ New(r).parks = r.parks
    BY DEF Row
  <2> QED
    BY <1>2, <2>1 DEF OnLadder
<1> HIDE DEF New
<1> QED
  BY <1>1, <1>2, RowsOnLadder DEF Climbs

LEMMA DeleteClimbs ==
  ASSUME TypeOK, LadderBounded, NEW S, Delete(S)
  PROVE  Climbs
BY RowsOnLadder DEF Climbs, Delete

\* An enqueue starts a row, or a failed one again, at the foot of the ladder.
LEMMA EnqueueClimbs ==
  ASSUME RunnerAssumption, TypeOK, LadderBounded, boots >= 1,
         NEW k, NEW p, NEW pr, NEW ready, EnqueueJob(k, p, pr, ready)
  PROVE  Climbs
<1>1. CASE Insert(k, p, pr, ready)
  <2> DEFINE new == NewRow(k, p, pr, ready)
  <2>1. new.state = "pending" /\ new.attempts = 0 /\ new.parks = 0
    BY DEF NewRow
  <2>2. jobs' = [i \in DOMAIN jobs \union {next_id} |-> IF i = next_id THEN new ELSE jobs[i]]
    BY <1>1 DEF Insert
  <2> HIDE DEF new
  <2>3. OnLadder(new)
    BY <2>1, BoundsTyped DEF OnLadder
  <2> QED
    BY <2>2, <2>3, RowsOnLadder DEF Climbs
<1>2. CASE \E owner \in Owners(k) : Update({owner}, LAMBDA r : Absorb(r, p, pr, ready))
  <2>1. PICK owner \in Owners(k) :
          jobs' = [i \in DOMAIN jobs |->
                     IF i \in {owner} THEN Absorb(jobs[i], p, pr, ready) ELSE jobs[i]]
    BY <1>2 DEF Update
  <2>2. ASSUME NEW r \in Row, OnLadder(r)
        PROVE  OnLadder(Absorb(r, p, pr, ready))
    <3> DEFINE a == Absorb(r, p, pr, ready)
    <3>1. /\ a.state = IF r.state = "failed" THEN "pending" ELSE r.state
          /\ a.attempts = IF r.state = "failed" THEN 0 ELSE r.attempts
          /\ a.parks = IF r.state = "failed" THEN 0 ELSE r.parks
      BY DEF Absorb, Row
    <3> HIDE DEF a
    <3>2. OnLadder(a)
      BY <2>2, <3>1, BoundsTyped DEF OnLadder
    <3> QED
      BY <3>2 DEF a
  <2> QED
    BY <2>1, <2>2, RowsOnLadder DEF Climbs
<1> QED
  BY <1>1, <1>2 DEF EnqueueJob

-----------------------------------------------------------------------------
(* The actions.                                                            *)

LEMMA ClimbsIsBounded ==
  ASSUME Climbs, boots' = boots
  PROVE  LadderBounded'
BY DEF Climbs, OnLadder, LadderBounded

LEMMA SameRowsClimb ==
  ASSUME LadderBounded, jobs' = jobs, boots' = boots
  PROVE  LadderBounded'
BY DEF LadderBounded

\* A step that moves one daemon and cannot skip the first sweep.
LEMMA CountKept ==
  ASSUME TypeOK, BootsCounted, NEW d \in Daemon,
         \A c \in Daemon \ {d} : phase'[c] = phase[c],
         boots' = boots \/ boots' = boots + 1,
         \/ phase'[d] \in {"down", "migrating"}
         \/ phase[d] \notin {"down", "migrating"}
         \/ boots' = boots + 1
  PROVE  BootsCounted'
BY DEF TypeOK, BootsCounted

LEMMA GoesMoves ==
  ASSUME TypeOK, NEW d \in Daemon, NEW from, NEW to, Goes(d, from, to)
  PROVE  phase[d] = from /\ phase'[d] = to /\ \A c \in Daemon \ {d} : phase'[c] = phase[c]
BY DEF Goes, TypeOK

LEMMA BootKeepsLadder ==
  ASSUME RunnerAssumption, IInv, LadderInv, NEW d \in Daemon, Boot(d)
  PROVE  LadderInv'
<1>0. TypeOK /\ LadderBounded /\ BootsCounted
  BY DEF IInv, LadderInv
<1>1. CASE TakeDaemonLock(d)
  BY <1>0, <1>1, SameRowsClimb, GoesMoves, CountKept DEF TakeDaemonLock, LadderInv
<1>2. CASE SweepRunning(d)
  <2>1. boots' = boots + 1 /\ Goes(d, "migrating", "recovering")
    BY <1>2 DEF SweepRunning
  <2>2. BootsCounted'
    BY <1>0, <2>1, GoesMoves, CountKept
  <2>3. CASE RequeueRunning
    BY <1>0, <2>1, <2>2, <2>3, RequeueClimbs DEF LadderInv
  <2>4. CASE UNCHANGED <<jobs, next_id>>
    <3>1. \A i \in DOMAIN jobs : jobs[i].attempts \in Nat
      BY <1>0, RowsOnLadder DEF Row
    <3>2. LadderBounded'
      BY <1>0, <2>1, <2>4, <3>1, BoundsTyped DEF LadderBounded
    <3> QED
      BY <2>2, <3>2 DEF LadderInv
  <2> QED
    BY <1>2, <2>3, <2>4 DEF SweepRunning
<1>3. CASE RetireEmpty(d)
  <2>1. LadderBounded'
    BY <1>0, <1>3, RetireClimbs, ClimbsIsBounded DEF RetireEmpty, daemonVars
  <2> QED
    BY <1>0, <1>3, <2>1 DEF RetireEmpty, daemonVars, LadderInv, BootsCounted
<1>4. CASE ReviveFailed(d)
  <2>1. phase[d] = "recovering" /\ boots' = boots /\ boots >= 1
    BY <1>0, <1>4, GoesMoves DEF ReviveFailed, BootsCounted
  <2>2. LadderBounded'
    BY <1>0, <1>4, <2>1, ReviveClimbs, ClimbsIsBounded, SameRowsClimb DEF ReviveFailed
  <2> QED
    BY <1>0, <1>4, <2>1, <2>2, GoesMoves, CountKept DEF ReviveFailed, LadderInv
<1>5. CASE Serve(d)
  BY <1>0, <1>5, SameRowsClimb, GoesMoves, CountKept DEF Serve, LadderInv
<1>6. CASE BootFails(d)
  BY <1>0, <1>6, SameRowsClimb, GoesMoves, CountKept DEF BootFails, LadderInv
<1> QED
  BY <1>1, <1>2, <1>3, <1>4, <1>5, <1>6 DEF Boot

\* A verdict is passed on the snapshot, whose counters are the row's.
LEMMA SettleKeepsLadder ==
  ASSUME RunnerAssumption, IInv, LadderInv, NEW d \in Daemon, NEW i \in JobId,
         NEW outcome \in Outcome, Settle(d, i, outcome)
  PROVE  LadderInv'
<1>0. TypeOK /\ LadderBounded /\ BootsCounted
  BY DEF IInv, LadderInv
<1> DEFINE attempts == claim[d][i].attempts
           parks == claim[d][i].parks
           verdict == Verdict(outcome, attempts, parks)
<1>1. boots >= 1 /\ boots' = boots /\ phase' = phase
  BY <1>0 DEF Settle, Working, BootsCounted
<1>2. i \in DOMAIN jobs => /\ jobs[i].state = "running"
                           /\ jobs[i].attempts = attempts
                           /\ jobs[i].parks = parks
  BY DEF Settle, IInv, HeldIsRunning
<1>3. Write(i, verdict, outcome)
  BY DEF Settle
<1>4. /\ verdict \in {"complete", "park", "retry", "fail"}
      /\ verdict = "park" => parks < MaxParks
      /\ verdict = "retry" => attempts < MaxAttempts
  BY DEF Verdict
<1>5. Retryable(outcome) \in BOOLEAN
  BY DEF Retryable
<1> HIDE DEF attempts, parks, verdict
<1>6. Climbs
  <2>1. CASE verdict = "complete"
    BY <1>0, <1>3, <2>1, CompleteClimbs DEF Write
  <2>2. CASE verdict = "park"
    BY <1>0, <1>1, <1>2, <1>3, <1>4, <2>2, ParkClimbs DEF Write
  <2>3. CASE verdict = "retry"
    BY <1>0, <1>1, <1>2, <1>3, <1>4, <2>3, RetryClimbs DEF Write
  <2>4. CASE verdict = "fail"
    BY <1>0, <1>3, <1>5, <2>4, FailClimbs DEF Write
  <2> QED
    BY <1>4, <2>1, <2>2, <2>3, <2>4
<1> QED
  BY <1>0, <1>1, <1>6, ClimbsIsBounded DEF LadderInv, BootsCounted

LEMMA WorkKeepsLadder ==
  ASSUME RunnerAssumption, IInv, LadderInv, NEW d \in Daemon, Work(d)
  PROVE  LadderInv'
<1>0. TypeOK /\ LadderBounded /\ BootsCounted
  BY DEF IInv, LadderInv
<1>1. ASSUME NEW lane \in Lane, Claim(d, lane) PROVE LadderInv'
  <2>1. PICK S \in Best(KindsOf[lane], Limit(lane)) : ClaimJobs(S)
    BY <1>1 DEF Claim
  <2>2. S \in SUBSET Ready(KindsOf[lane])
    BY DEF Best
  <2>3. Climbs
    BY <1>0, <2>1, <2>2, ClaimClimbs
  <2> QED
    BY <1>0, <1>1, <2>3, ClimbsIsBounded DEF Claim, LadderInv, BootsCounted
<1>2. ASSUME NEW i \in JobId, LeaveRunning(d, i) PROVE LadderInv'
  BY <1>0, <1>2, SameRowsClimb DEF LeaveRunning, LadderInv, BootsCounted
<1> QED
  BY <1>1, <1>2, SettleKeepsLadder DEF Work

LEMMA StopKeepsLadder ==
  ASSUME RunnerAssumption, IInv, LadderInv, NEW d \in Daemon, Stop(d)
  PROVE  LadderInv'
<1>0. TypeOK /\ LadderBounded /\ BootsCounted
  BY DEF IInv, LadderInv
<1>1. CASE Signal(d)
  BY <1>0, <1>1, SameRowsClimb, GoesMoves, CountKept DEF Signal, LadderInv
<1>2. CASE StopRunner(d)
  BY <1>0, <1>2, SameRowsClimb, GoesMoves, CountKept DEF StopRunner, LadderInv
<1>3. CASE ReleaseClaims(d)
  <2>1. phase[d] = "releasing" /\ boots' = boots /\ boots >= 1
    BY <1>0, <1>3, GoesMoves DEF ReleaseClaims, BootsCounted
  <2>2. LadderBounded'
    BY <1>0, <1>3, <2>1, ReleaseClimbs, ClimbsIsBounded, SameRowsClimb DEF ReleaseClaims
  <2> QED
    BY <1>0, <1>3, <2>1, <2>2, GoesMoves, CountKept DEF ReleaseClaims, LadderInv
<1>4. CASE DropLock(d)
  BY <1>0, <1>4, SameRowsClimb, GoesMoves, CountKept DEF DropLock, LadderInv
<1>5. CASE Crash(d)
  <2>1. phase'[d] = "down" /\ \A c \in Daemon \ {d} : phase'[c] = phase[c]
    BY <1>0, <1>5 DEF Crash, TypeOK
  <2> QED
    BY <1>0, <1>5, <2>1, SameRowsClimb, CountKept DEF Crash, LadderInv
<1> QED
  BY <1>1, <1>2, <1>3, <1>4, <1>5 DEF Stop

LEMMA NextKeepsLadder ==
  ASSUME RunnerAssumption, IInv, LadderInv, Next
  PROVE  LadderInv'
<1>0. TypeOK /\ LadderBounded /\ BootsCounted
  BY DEF IInv, LadderInv
<1>1. ASSUME Climbs, UNCHANGED daemonVars PROVE LadderInv'
  BY <1>0, <1>1, ClimbsIsBounded DEF daemonVars, LadderInv, BootsCounted
<1>2. ASSUME NEW d \in Daemon, Boot(d) \/ Work(d) \/ Stop(d) PROVE LadderInv'
  BY <1>2, BootKeepsLadder, WorkKeepsLadder, StopKeepsLadder
<1>3. CASE SessionEnds
  BY <1>0, <1>3, SameRowsClimb DEF SessionEnds, LadderInv, BootsCounted
<1>4. ASSUME NEW k \in Key, NEW p \in Payload, NEW pr \in Priority, NEW ready \in BOOLEAN,
             Enqueue(k, p, pr, ready)
      PROVE  LadderInv'
  <2>1. boots >= 1
    BY <1>0, <1>4 DEF Enqueue, BootsCounted
  <2> QED
    BY <1>0, <1>1, <1>4, <2>1, EnqueueClimbs DEF Enqueue
<1>5. ASSUME NEW k \in Key, Cancel(k) PROVE LadderInv'
  BY <1>0, <1>1, <1>5, DeleteClimbs DEF Cancel, KillScans, ReapUnreferenced
<1>6. CASE Purge
  BY <1>0, <1>1, <1>6, DeleteClimbs DEF Purge, PurgeDoneJobs
<1>7. ASSUME NEW i \in JobId, TimePasses(i) PROVE LadderInv'
  BY <1>0, <1>1, <1>7, ElapseClimbs DEF TimePasses
<1> QED
  BY <1>2, <1>3, <1>4, <1>5, <1>6, <1>7 DEF Next

\* Parks and attempts are bounded: however tasks end, daemons stop or crash and
\* failures are revived, only boots that find a row running take it past
\* MaxAttempts, one attempt each.
THEOREM LadderHolds ==
  ASSUME StoreAssumption, RunnerAssumption
  PROVE  Spec => []LadderBounded
<1>1. Init => LadderInv
  BY DEF Init, StoreInit, LadderInv, LadderBounded, BootsCounted
<1>2. IInv /\ LadderInv /\ [Next]_vars => LadderInv'
  <2>1. ASSUME LadderInv, UNCHANGED vars PROVE LadderInv'
    BY <2>1 DEF vars, LadderInv, LadderBounded, BootsCounted
  <2> QED
    BY <2>1, NextKeepsLadder
<1>3. LadderInv => LadderBounded
  BY DEF LadderInv
<1> QED
  BY <1>1, <1>2, <1>3, Invariance, PTL DEF Spec

-----------------------------------------------------------------------------
(***************************************************************************)
(* JobRunner implements Backlog: under the mapping at the end of JobRunner *)
(* every step of the daemons over the table is a step of the abstract      *)
(* queue or leaves it as it is.  A key's work is its owner's state, and    *)
(* IInv says there is one owner and one worker for it; a step is then read *)
(* off what it does to the owners and to the tasks.                        *)
(***************************************************************************)


\* What a row that owns its key makes of the key's work.
ProgressOf(r) ==
  IF r.state = "pending" THEN "queued"
  ELSE IF r.state = "running" THEN "claimed" ELSE "failed"

\* The mapping, read off the owner of each key.
Faithful ==
  \A k \in Key :
    /\ Owners(k) = {} => WorkOf(k) = "idle" /\ WorkerOf(k) = Nobody
    /\ \A i \in Owners(k) :
         /\ \A j \in Owners(k) : j = i
         /\ WorkOf(k) = ProgressOf(jobs[i])
         /\ \A d \in Daemon : i \in Held(d) => WorkerOf(k) = d
         /\ (\A d \in Daemon : i \notin Held(d)) => WorkerOf(k) = Nobody

\* A task's row is the owner of its key, if it is still there.
TasksOwn ==
  \A d \in Daemon : \A i \in Held(d) \intersect DOMAIN jobs :
    jobs[i].state = "running" /\ jobs[i].key \in Key /\ i \in Owners(jobs[i].key)

LEMMA OwnersUnique ==
  ASSUME IInv, NEW k \in Key, NEW i \in Owners(k), NEW j \in Owners(k)
  PROVE  i = j
<1>1. i \in Int /\ j \in Int /\ i \in DOMAIN jobs /\ j \in DOMAIN jobs
  BY RowsNumbered DEF IInv, TypeOK, Owners, JobId
<1>2. i <= j /\ j <= i
  BY <1>1 DEF Owners, IInv, OwnerIsNewest
<1> QED
  BY <1>1, <1>2

LEMMA OneHolder ==
  ASSUME IInv, NEW c \in Daemon, NEW d \in Daemon, NEW i \in Held(c), i \in Held(d)
  PROVE  c = d
<1>1. phase[c] # "down" /\ phase[d] # "down"
  BY DEF IInv, ClaimsAreWorked, Working
<1> QED
  BY <1>1, OthersIdle

LEMMA MappingIsFaithful == IInv => Faithful
<1> SUFFICES ASSUME IInv, NEW k \in Key
             PROVE  /\ Owners(k) = {} => WorkOf(k) = "idle" /\ WorkerOf(k) = Nobody
                    /\ \A i \in Owners(k) :
                         /\ \A j \in Owners(k) : j = i
                         /\ WorkOf(k) = ProgressOf(jobs[i])
                         /\ \A d \in Daemon : i \in Held(d) => WorkerOf(k) = d
                         /\ (\A d \in Daemon : i \notin Held(d)) => WorkerOf(k) = Nobody
  BY DEF Faithful
<1>1. ASSUME Owners(k) = {} PROVE WorkOf(k) = "idle" /\ WorkerOf(k) = Nobody
  BY <1>1 DEF WorkOf, WorkerOf, Holders
<1>2. ASSUME NEW i \in Owners(k)
      PROVE  /\ \A j \in Owners(k) : j = i
             /\ WorkOf(k) = ProgressOf(jobs[i])
             /\ \A d \in Daemon : i \in Held(d) => WorkerOf(k) = d
             /\ (\A d \in Daemon : i \notin Held(d)) => WorkerOf(k) = Nobody
  <2>1. \A j \in Owners(k) : j = i
    BY OwnersUnique
  <2>2. Owners(k) = {i}
    BY <2>1
  <2>3. (CHOOSE j \in Owners(k) : TRUE) = i
    BY <2>2
  <2>4. WorkOf(k) = ProgressOf(jobs[i])
    <3>1. jobs[i].state \in {"pending", "running", "failed"}
      BY DEF Owners, Live
    <3>2. WorkOf(k) = CASE jobs[i].state = "pending" -> "queued"
                        [] jobs[i].state = "running" -> "claimed"
                        [] jobs[i].state = "failed"  -> "failed"
      BY <2>2, <2>3 DEF WorkOf
    <3> QED
      BY <3>1, <3>2 DEF ProgressOf
  <2>5. ASSUME NEW d \in Daemon, i \in Held(d) PROVE WorkerOf(k) = d
    <3>1. Holders(k) = {d}
      BY <2>2, <2>5, OneHolder DEF Holders
    <3>2. (CHOOSE c \in Holders(k) : TRUE) = d
      BY <3>1
    <3> QED
      BY <3>1, <3>2 DEF WorkerOf
  <2>6. ASSUME \A d \in Daemon : i \notin Held(d) PROVE WorkerOf(k) = Nobody
    <3>1. Holders(k) = {}
      BY <2>2, <2>6 DEF Holders
    <3> QED
      BY <3>1 DEF WorkerOf
  <2> QED
    BY <2>1, <2>4, <2>5, <2>6
<1> QED
  BY <1>1, <1>2

LEMMA TasksAreOwners == IInv => TasksOwn
<1> SUFFICES ASSUME IInv, NEW d \in Daemon, NEW i \in Held(d), i \in DOMAIN jobs
             PROVE  jobs[i].state = "running" /\ jobs[i].key \in Key /\ i \in Owners(jobs[i].key)
  BY DEF TasksOwn
<1>1. jobs[i].state = "running" /\ jobs[i] \in Row
  BY RowsTyped DEF IInv, HeldIsRunning, TypeOK
<1> QED
  BY <1>1 DEF Row, Owners, Live

LEMMA FaithfulNext == IInv' => Faithful'
BY MappingIsFaithful, PTL

-----------------------------------------------------------------------------
(* Steps of the abstract queue.                                            *)

LEMMA MoveMapped ==
  ASSUME NEW K \in SUBSET Key, NEW from, NEW to, NEW w,
         \A k \in K : WorkOf(k) = from,
         \A k \in Key : WorkOf(k)' = IF k \in K THEN to ELSE WorkOf(k),
         \A k \in Key : WorkerOf(k)' = IF k \in K THEN w ELSE WorkerOf(k)
  PROVE  Abstract!Move(K, from, to, w)
BY DEF Abstract!Move

LEMMA LetGoMapped ==
  ASSUME NEW K \in SUBSET Key,
         \A k \in Key : WorkOf(k)' = WorkOf(k),
         \A k \in Key : WorkerOf(k)' = IF k \in K THEN Nobody ELSE WorkerOf(k)
  PROVE  Abstract!LetGo(K)
BY DEF Abstract!LetGo

Stutters == \A k \in Key : WorkOf(k)' = WorkOf(k) /\ WorkerOf(k)' = WorkerOf(k)

LEMMA StutterMapped ==
  ASSUME Stutters
  PROVE  UNCHANGED Abstract!vars
BY DEF Stutters, Abstract!vars

\* A key's work stays as it is when its owner and the owner's worker do.
LEMMA KeyStays ==
  ASSUME Faithful, Faithful', NEW k \in Key, Owners(k)' = Owners(k),
         \A i \in Owners(k) :
           /\ ProgressOf(jobs'[i]) = ProgressOf(jobs[i])
           /\ \A d \in Daemon : i \in Held(d)' <=> i \in Held(d)
  PROVE  WorkOf(k)' = WorkOf(k) /\ WorkerOf(k)' = WorkerOf(k)
<1>1. CASE Owners(k) = {}
  BY <1>1 DEF Faithful
<1>2. ASSUME NEW i \in Owners(k)
      PROVE  WorkOf(k)' = WorkOf(k) /\ WorkerOf(k)' = WorkerOf(k)
  <2>1. WorkOf(k) = ProgressOf(jobs[i]) /\ WorkOf(k)' = ProgressOf(jobs'[i])
    BY DEF Faithful
  <2>2. CASE \E d \in Daemon : i \in Held(d)
    BY <2>1, <2>2 DEF Faithful
  <2>3. CASE \A d \in Daemon : i \notin Held(d)
    BY <2>1, <2>3 DEF Faithful
  <2> QED
    BY <2>2, <2>3, <2>1
<1> QED
  BY <1>1, <1>2

\* Rows that say the same of their key's work.
SameWork(r, s) ==
  r.key = s.key /\ (Live(r) <=> Live(s)) /\ (Live(r) => r.state = s.state)

\* The tasks on the owner of k are the same after the step.
SameHands(k) == \A i \in Owners(k), d \in Daemon : i \in Held(d)' <=> i \in Held(d)

LEMMA KeyUntouched ==
  ASSUME Faithful, Faithful', NEW k \in Key, SameHands(k),
         \A i \in DOMAIN jobs :
           jobs[i].key = k /\ Live(jobs[i]) => i \in DOMAIN jobs' /\ SameWork(jobs'[i], jobs[i]),
         \A i \in DOMAIN jobs' :
           jobs'[i].key = k /\ Live(jobs'[i]) => i \in DOMAIN jobs /\ SameWork(jobs'[i], jobs[i])
  PROVE  WorkOf(k)' = WorkOf(k) /\ WorkerOf(k)' = WorkerOf(k)
<1>1. Owners(k)' = Owners(k)
  BY DEF Owners, SameWork
<1>2. \A i \in Owners(k) : ProgressOf(jobs'[i]) = ProgressOf(jobs[i])
  BY DEF Owners, SameWork, ProgressOf
<1> QED
  BY <1>1, <1>2, KeyStays DEF SameHands

\* The owner of a key after the step, seen from the row.
LEMMA KeyOwned ==
  ASSUME Faithful', NEW k \in Key, NEW i \in DOMAIN jobs', jobs'[i].key = k, Live(jobs'[i])
  PROVE  /\ WorkOf(k)' = ProgressOf(jobs'[i])
         /\ \A d \in Daemon : i \in Held(d)' => WorkerOf(k)' = d
         /\ (\A d \in Daemon : i \notin Held(d)') => WorkerOf(k)' = Nobody
<1>1. i \in Owners(k)'
  BY DEF Owners
<1> QED
  BY <1>1 DEF Faithful

LEMMA KeyFreed ==
  ASSUME Faithful', NEW k \in Key,
         \A i \in DOMAIN jobs' : jobs'[i].key = k => ~Live(jobs'[i])
  PROVE  WorkOf(k)' = "idle" /\ WorkerOf(k)' = Nobody
<1>1. Owners(k)' = {}
  BY DEF Owners
<1> QED
  BY <1>1 DEF Faithful

LEMMA SameTable ==
  ASSUME Faithful, Faithful', jobs' = jobs, \A k \in Key : SameHands(k)
  PROVE  UNCHANGED Abstract!vars
<1>1. Stutters
  BY KeyUntouched DEF SameWork, Stutters
<1> QED
  BY <1>1, StutterMapped

LEMMA SameClaims == ASSUME claim' = claim PROVE \A k \in Key : SameHands(k)
BY DEF SameHands, Held

\* Tasks end without a word.
LEMMA TasksLost ==
  ASSUME Faithful, Faithful', jobs' = jobs, DropsOnly({})
  PROVE  Abstract!Next
<1> DEFINE K == {k \in Key : WorkerOf(k)' = Nobody}
<1>1. ASSUME NEW k \in Key
      PROVE  /\ WorkOf(k)' = WorkOf(k)
             /\ WorkerOf(k)' = IF k \in K THEN Nobody ELSE WorkerOf(k)
  <2>1. Owners(k)' = Owners(k)
    BY DEF Owners
  <2>2. CASE Owners(k) = {}
    BY <2>1, <2>2 DEF Faithful
  <2>3. ASSUME NEW i \in Owners(k)
        PROVE  /\ WorkOf(k)' = WorkOf(k)
               /\ WorkerOf(k)' = Nobody \/ WorkerOf(k)' = WorkerOf(k)
    <3>1. WorkOf(k)' = WorkOf(k)
      BY <2>1 DEF Faithful
    <3>2. \A d \in Daemon : i \in Held(d)' => i \in Held(d)
      BY DEF DropsOnly, Held
    <3>3. CASE \E d \in Daemon : i \in Held(d)'
      BY <2>1, <3>2, <3>3 DEF Faithful
    <3>4. CASE \A d \in Daemon : i \notin Held(d)'
      BY <2>1, <3>4 DEF Faithful
    <3> QED
      BY <3>1, <3>3, <3>4
  <2> QED
    BY <2>2, <2>3
<1>2. Abstract!LetGo(K)
  BY <1>1, LetGoMapped
<1> QED
  BY <1>2 DEF Abstract!Next

\* Both sweeps of running rows: nobody has any in hand.
LEMMA SweepMapped ==
  ASSUME IInv, Faithful, Faithful',
         \A d \in Daemon : Held(d) = {} /\ Held(d)' = {},
         DOMAIN jobs' = DOMAIN jobs,
         \A i \in DOMAIN jobs :
           IF jobs[i].state = "running"
           THEN jobs'[i].state = "pending" /\ jobs'[i].key = jobs[i].key
           ELSE jobs'[i] = jobs[i]
  PROVE  Abstract!Next
<1> DEFINE K == {k \in Key : WorkerOf(k) = Nobody /\ WorkOf(k) = "claimed"}
<1>1. ASSUME NEW k \in Key
      PROVE  WorkerOf(k) = Nobody /\ WorkerOf(k)' = Nobody
  BY DEF Faithful
<1>3. ASSUME NEW k \in K PROVE WorkOf(k)' = "queued"
  <2>1. PICK i \in Owners(k) : ProgressOf(jobs[i]) = "claimed"
    BY DEF Faithful
  <2>2. i \in DOMAIN jobs /\ jobs[i].key = k /\ jobs[i].state = "running"
    BY <2>1 DEF Owners, ProgressOf
  <2>3. i \in DOMAIN jobs' /\ jobs'[i].key = k /\ jobs'[i].state = "pending"
    BY <2>2
  <2> QED
    BY <2>3, KeyOwned DEF Live, ProgressOf
<1>4. ASSUME NEW k \in Key \ K PROVE WorkOf(k)' = WorkOf(k)
  <2>1. \A i \in Owners(k) : jobs[i].state # "running"
    BY <1>1 DEF Faithful, ProgressOf
  <2>2. \A i \in DOMAIN jobs : jobs[i].key = k => jobs[i].state # "running" /\ jobs'[i] = jobs[i]
    BY <2>1 DEF Owners, Live
  <2>3. \A i \in DOMAIN jobs' : jobs'[i].key = jobs[i].key
    OBVIOUS
  <2> QED
    BY <2>2, <2>3, KeyUntouched DEF SameWork, SameHands
<1>5. Abstract!Move(K, "claimed", "queued", Nobody)
  <2>1. K \in SUBSET Key /\ \A k \in K : WorkOf(k) = "claimed"
    OBVIOUS
  <2> HIDE DEF K
  <2> QED
    BY <1>1, <1>3, <1>4, <2>1, MoveMapped
<1>6. K = {k \in Abstract!InHandOf(Nobody) : [x \in Key |-> WorkOf(x)][k] = "claimed"}
  BY DEF Abstract!InHandOf
<1> QED
  BY <1>5, <1>6 DEF Abstract!Recover, Abstract!Next

\* A revival: failed owners become pending, or stop owning their key.
LEMMA RevivalMapped ==
  ASSUME IInv, Faithful, Faithful', claim' = claim,
         NEW S \in SUBSET DOMAIN jobs, \A i \in S : jobs[i].state = "failed" /\ ~jobs[i].terminal,
         DOMAIN jobs' = DOMAIN jobs,
         \A i \in DOMAIN jobs \ S : jobs'[i] = jobs[i],
         \A i \in S : jobs'[i].key = jobs[i].key,
         \/ \A i \in S : jobs'[i].state = "pending"
         \/ \A i \in S : ~Live(jobs'[i])
  PROVE  Abstract!Next
<1> DEFINE K == {jobs[i].key : i \in S}
<1>1. ASSUME NEW i \in S
      PROVE  /\ jobs[i].key \in Key /\ i \in Owners(jobs[i].key)
             /\ WorkOf(jobs[i].key) = "failed" /\ WorkerOf(jobs[i].key) = Nobody
             /\ \A d \in Daemon : i \notin Held(d) /\ i \notin Held(d)'
  <2>1. jobs[i].key \in Key /\ i \in Owners(jobs[i].key)
    BY RowsTyped DEF IInv, TypeOK, Row, Owners, Live
  <2>2. \A d \in Daemon : i \notin Held(d) /\ i \notin Held(d)'
    BY DEF IInv, HeldIsRunning, Held
  <2> QED
    BY <2>1, <2>2 DEF Faithful, ProgressOf
<1>2. ASSUME NEW k \in Key \ K
      PROVE  WorkOf(k)' = WorkOf(k) /\ WorkerOf(k)' = WorkerOf(k)
  <2>1. \A i \in DOMAIN jobs : jobs[i].key = k => jobs'[i] = jobs[i]
    OBVIOUS
  <2>2. \A i \in DOMAIN jobs' : jobs'[i].key = jobs[i].key
    OBVIOUS
  <2> QED
    BY <2>1, <2>2, SameClaims, KeyUntouched DEF SameWork
<1>3. ASSUME NEW k \in Key, NEW i \in S, k = jobs[i].key
      PROVE  /\ WorkerOf(k)' = Nobody
             /\ jobs'[i].state = "pending" => WorkOf(k)' = "queued"
             /\ ~Live(jobs'[i]) => WorkOf(k)' = "idle"
  <2>1. CASE Live(jobs'[i])
    BY <1>1, <1>3, <2>1, KeyOwned DEF ProgressOf
  <2>2. CASE ~Live(jobs'[i])
    <3>1. \A j \in Owners(k) : j = i
      BY <1>1, <1>3 DEF Faithful
    <3>2. ASSUME NEW j \in DOMAIN jobs', jobs'[j].key = k, Live(jobs'[j]) PROVE FALSE
      <4>1. CASE j \in S
        BY <1>1, <1>3, <2>2, <3>1, <3>2, <4>1
      <4>2. CASE j \notin S
        BY <1>3, <2>2, <3>1, <3>2, <4>2 DEF Owners
      <4> QED
        BY <4>1, <4>2
    <3> QED
      BY <2>2, <3>2, KeyFreed DEF Live
  <2> QED
    BY <2>1, <2>2
<1>4. K \in SUBSET Key /\ \A k \in K : WorkOf(k) = "failed" /\ WorkerOf(k) = Nobody
  BY <1>1
<1>5. ASSUME NEW to \in {"queued", "idle"}, \A k \in K : WorkOf(k)' = to
      PROVE  Abstract!Next
  <2>1. \A k \in Key : WorkOf(k)' = IF k \in K THEN to ELSE WorkOf(k)
    BY <1>2, <1>5
  <2>2. \A k \in Key : WorkerOf(k)' = IF k \in K THEN Nobody ELSE WorkerOf(k)
    BY <1>2, <1>3
  <2> HIDE DEF K
  <2>3. Abstract!Move(K, "failed", to, Nobody)
    BY <1>4, <2>1, <2>2, MoveMapped
  <2> QED
    BY <1>4, <2>3 DEF Abstract!Revive, Abstract!Next
<1>6. CASE \A i \in S : jobs'[i].state = "pending"
  <2>1. \A k \in K : WorkOf(k)' = "queued"
    BY <1>1, <1>3, <1>6
  <2> QED
    BY <1>5, <2>1
<1>7. CASE \A i \in S : ~Live(jobs'[i])
  <2>1. \A k \in K : WorkOf(k)' = "idle"
    BY <1>1, <1>3, <1>7
  <2> QED
    BY <1>5, <2>1
<1> QED
  BY <1>6, <1>7

-----------------------------------------------------------------------------
(* The table's statements, as the abstract queue sees them.                *)

\* Every row keeps its work.
LEMMA WorkKept ==
  ASSUME Faithful, Faithful', claim' = claim, DOMAIN jobs' = DOMAIN jobs,
         \A i \in DOMAIN jobs : SameWork(jobs'[i], jobs[i])
  PROVE  UNCHANGED Abstract!vars
<1>1. Stutters
  <2> SUFFICES ASSUME NEW k \in Key
               PROVE  WorkOf(k)' = WorkOf(k) /\ WorkerOf(k)' = WorkerOf(k)
    BY DEF Stutters
  <2> QED
    BY SameClaims, KeyUntouched
<1> QED
  BY <1>1, StutterMapped

\* Rows of S, none of which owns anything but k, are gone.
LEMMA DeletedMapped ==
  ASSUME IInv, Faithful, Faithful', claim' = claim, NEW k \in Key, NEW S, Delete(S),
         \A i \in S \intersect DOMAIN jobs :
           jobs[i].key = k /\ jobs[i].state \in {"pending", "running"}
  PROVE  Abstract!Next \/ UNCHANGED Abstract!vars
<1>1. DOMAIN jobs' = DOMAIN jobs \ S /\ \A i \in DOMAIN jobs' : jobs'[i] = jobs[i]
  BY DEF Delete
<1>2. CASE S \intersect DOMAIN jobs = {}
  BY <1>1, <1>2, WorkKept DEF SameWork
<1>3. ASSUME NEW i \in S \intersect DOMAIN jobs PROVE Abstract!Next
  <2>1. i \in Owners(k)
    BY DEF Owners, Live
  <2>2. WorkOf(k) \in {"queued", "claimed"}
    BY <2>1 DEF Faithful, ProgressOf
  <2>3. WorkOf(k)' = "idle" /\ WorkerOf(k)' = Nobody
    <3>1. \A j \in DOMAIN jobs' : jobs'[j].key = k => ~Live(jobs'[j])
      BY <1>1, <2>1 DEF Faithful, Owners
    <3> QED
      BY <3>1, KeyFreed
  <2>4. ASSUME NEW x \in Key \ {k}
        PROVE  WorkOf(x)' = WorkOf(x) /\ WorkerOf(x)' = WorkerOf(x)
    BY <1>1, SameClaims, KeyUntouched DEF SameWork
  <2>5. Abstract!Move({k}, WorkOf(k), "idle", Nobody)
    BY <2>3, <2>4 DEF Abstract!Move
  <2> QED
    BY <2>2, <2>5 DEF Abstract!Cancel, Abstract!Next
<1> QED
  BY <1>2, <1>3

\* An insert, or the absorption of a request by the owner.
LEMMA EnqueueMapped ==
  ASSUME IInv, Faithful, Faithful', claim' = claim, StoreAssumption,
         NEW k \in Key, NEW p \in Payload, NEW pr \in Priority, NEW ready \in BOOLEAN,
         EnqueueJob(k, p, pr, ready)
  PROVE  Abstract!Next \/ UNCHANGED Abstract!vars
<1>1. ASSUME WorkOf(k) \in {"idle", "failed"}, WorkOf(k)' = "queued", WorkerOf(k)' = Nobody,
             \A x \in Key \ {k} : WorkOf(x)' = WorkOf(x) /\ WorkerOf(x)' = WorkerOf(x)
      PROVE  Abstract!Next
  <2>1. Abstract!Move({k}, WorkOf(k), "queued", Nobody)
    BY <1>1 DEF Abstract!Move
  <2> QED
    BY <1>1, <2>1 DEF Abstract!Request, Abstract!Next
<1>2. CASE Owners(k) = {} /\ Insert(k, p, pr, ready)
  <2>1. /\ DOMAIN jobs' = DOMAIN jobs \union {next_id}
        /\ \A i \in DOMAIN jobs \ {next_id} : jobs'[i] = jobs[i]
        /\ jobs'[next_id].key = k /\ jobs'[next_id].state = "pending"
    BY <1>2 DEF Insert, NewRow
  <2>2. next_id \notin DOMAIN jobs /\ \A d \in Daemon : next_id \notin Held(d)
    BY DEF IInv, TypeOK, StoreTypeOK, ClaimsAreWorked
  <2>3. WorkOf(k) = "idle"
    BY <1>2 DEF Faithful
  <2>4. WorkOf(k)' = "queued" /\ WorkerOf(k)' = Nobody
    <3>1. \A d \in Daemon : next_id \notin Held(d)'
      BY <2>2 DEF Held
    <3>2. next_id \in DOMAIN jobs' /\ Live(jobs'[next_id])
      BY <2>1 DEF Live
    <3> QED
      BY <2>1, <3>1, <3>2, KeyOwned DEF ProgressOf
  <2>5. ASSUME NEW x \in Key \ {k}
        PROVE  WorkOf(x)' = WorkOf(x) /\ WorkerOf(x)' = WorkerOf(x)
    BY <2>1, <2>2, SameClaims, KeyUntouched DEF SameWork
  <2> QED
    BY <1>1, <2>3, <2>4, <2>5
<1>3. ASSUME NEW owner \in Owners(k), Update({owner}, LAMBDA r : Absorb(r, p, pr, ready))
      PROVE  Abstract!Next \/ UNCHANGED Abstract!vars
  <2>1. /\ DOMAIN jobs' = DOMAIN jobs
        /\ \A i \in DOMAIN jobs \ {owner} : jobs'[i] = jobs[i]
        /\ owner \in DOMAIN jobs /\ jobs[owner].key = k /\ Live(jobs[owner])
        /\ jobs'[owner] = Absorb(jobs[owner], p, pr, ready)
    BY <1>3 DEF Update, Owners
  <2>2. /\ jobs'[owner].key = k
        /\ jobs'[owner].state =
             IF jobs[owner].state = "failed" THEN "pending" ELSE jobs[owner].state
        /\ jobs'[owner].terminal = jobs[owner].terminal
    <3>1. jobs[owner] \in Row
      BY <2>1, RowsTyped DEF IInv, TypeOK
    <3> QED
      BY <2>1, <3>1 DEF Absorb, Row
  <2>3. CASE jobs[owner].state # "failed"
    <3>1. SameWork(jobs'[owner], jobs[owner])
      BY <2>1, <2>2, <2>3 DEF SameWork, Live
    <3>2. \A i \in DOMAIN jobs : SameWork(jobs'[i], jobs[i])
      BY <2>1, <3>1 DEF SameWork
    <3> QED
      BY <2>1, <3>2, WorkKept
  <2>4. CASE jobs[owner].state = "failed"
    <3>1. WorkOf(k) = "failed"
      BY <2>4 DEF Faithful, ProgressOf
    <3>2. \A d \in Daemon : owner \notin Held(d)'
      BY <2>1, <2>4 DEF IInv, HeldIsRunning, Held
    <3>3. WorkOf(k)' = "queued" /\ WorkerOf(k)' = Nobody
      BY <2>1, <2>2, <2>4, <3>2, KeyOwned DEF ProgressOf, Live
    <3>4. ASSUME NEW x \in Key \ {k}
          PROVE  WorkOf(x)' = WorkOf(x) /\ WorkerOf(x)' = WorkerOf(x)
      BY <2>1, <2>2, SameClaims, KeyUntouched DEF SameWork
    <3> QED
      BY <1>1, <3>1, <3>3, <3>4
  <2> QED
    BY <2>3, <2>4
<1> QED
  BY <1>2, <1>3 DEF EnqueueJob

\* A task's row, when a settlement has made something else of it.
LEMMA SettledMapped ==
  ASSUME IInv, Faithful, Faithful', NEW d \in Daemon, NEW i \in Held(d), i \in DOMAIN jobs,
         NEW k, k = jobs[i].key, Forget(d, i), DOMAIN jobs' = DOMAIN jobs,
         \A j \in DOMAIN jobs \ {i} : SameWork(jobs'[j], jobs[j]),
         jobs'[i].key = jobs[i].key,
         \/ jobs'[i].state \in {"pending", "failed"} /\ Live(jobs'[i])
         \/ ~Live(jobs'[i])
  PROVE  Abstract!Next
<1>1. k \in Key /\ i \in Owners(k) /\ jobs[i].state = "running" /\ i \in JobId
  BY TasksAreOwners DEF TasksOwn, Held
<1>2. WorkOf(k) = "claimed" /\ WorkerOf(k) = d
  BY <1>1 DEF Faithful, ProgressOf
<1>3. /\ \A c \in Daemon : i \notin Held(c)'
      /\ \A c \in Daemon, j \in JobId : j # i => (j \in Held(c)' <=> j \in Held(c))
  <2>1. /\ claim'[d][i] = NoClaim
        /\ \A j \in JobId \ {i} : claim'[d][j] = claim[d][j]
        /\ \A c \in Daemon \ {d} : claim'[c] = claim[c]
    BY <1>1, IInvStore DEF Forget, DaemonsTyped
  <2>2. \A c \in Daemon \ {d} : i \notin Held(c)
    BY OneHolder
  <2> QED
    BY <2>1, <2>2 DEF Held
<1>4. \A j \in Owners(k) : j = i
  BY <1>1 DEF Faithful
<1>5. WorkerOf(k)' = Nobody /\ WorkOf(k)' \in {"idle", "queued", "failed"}
  <2>1. CASE Live(jobs'[i])
    BY <1>1, <1>3, <2>1, KeyOwned DEF ProgressOf
  <2>2. CASE ~Live(jobs'[i])
    <3>1. \A j \in DOMAIN jobs' : jobs'[j].key = k => ~Live(jobs'[j])
      BY <1>4, <2>2 DEF Owners, SameWork
    <3> QED
      BY <1>1, <3>1, KeyFreed
  <2> QED
    BY <2>1, <2>2
<1>6. ASSUME NEW x \in Key \ {k}
      PROVE  WorkOf(x)' = WorkOf(x) /\ WorkerOf(x)' = WorkerOf(x)
  <2>1. SameHands(x)
    BY <1>3, RowsNumbered, IInvStore DEF SameHands, Owners
  <2> QED
    BY <2>1, KeyUntouched DEF SameWork
<1>7. Abstract!Move({k}, "claimed", WorkOf(k)', Nobody)
  BY <1>1, <1>2, <1>5, <1>6 DEF Abstract!Move
<1>8. k \in Abstract!InHandOf(d)
  BY <1>1, <1>2 DEF Abstract!InHandOf
<1> QED
  BY <1>1, <1>5, <1>7, <1>8 DEF Abstract!Settle, Abstract!Next

LEMMA SettleMapped ==
  ASSUME RunnerAssumption, IInv, Faithful, Faithful', NEW d \in Daemon, NEW i \in JobId,
         NEW outcome \in Outcome, Settle(d, i, outcome)
  PROVE  Abstract!Next \/ UNCHANGED Abstract!vars
<1> DEFINE verdict == Verdict(outcome, claim[d][i].attempts, claim[d][i].parks)
<1>1. /\ i \in Held(d) /\ Forget(d, i)
      /\ verdict \in {"complete", "park", "retry", "fail"}
      /\ Write(i, verdict, outcome)
  BY VerdictIsOne DEF Settle
<1> HIDE DEF verdict
<1>2. CASE i \in DOMAIN jobs
  <2>0. jobs[i] \in Row /\ jobs[i].state = "running"
    BY <1>1, <1>2, RowsTyped, IInvStore DEF IInv, HeldIsRunning
  <2> PICK k : k = jobs[i].key
    OBVIOUS
  <2>1. CASE verdict = "complete"
    <3>1. CompleteJob(i)
      BY <1>1, <2>1 DEF Write
    <3>2. ASSUME NEW j \in DOMAIN jobs \ {i} PROVE SameWork(jobs'[j], jobs[j])
      <4>1. jobs[j] \in Row
        BY RowsTyped, IInvStore
      <4>2. jobs'[j] = jobs[j] \/ jobs'[j] = [jobs[j] EXCEPT !.superseded_by = i]
        BY <3>1 DEF CompleteJob
      <4> QED
        BY <4>1, <4>2 DEF SameWork, Live, Row
    <3>3. jobs'[i].key = jobs[i].key /\ ~Live(jobs'[i])
      BY <1>2, <2>0, <3>1 DEF CompleteJob, Live, Row
    <3> QED
      BY <1>1, <1>2, <3>1, <3>2, <3>3, SettledMapped DEF CompleteJob
  <2>2. CASE verdict = "park"
    <3>1. ParkJob(i)
      BY <1>1, <2>2 DEF Write
    <3>2. jobs'[i].key = jobs[i].key /\ jobs'[i].state = "pending"
      BY <1>2, <2>0, <3>1 DEF ParkJob, Update, Row
    <3> QED
      BY <1>1, <1>2, <3>1, <3>2, SettledMapped DEF ParkJob, Update, SameWork, Live
  <2>3. CASE verdict = "retry"
    <3>1. RetryJob(i)
      BY <1>1, <2>3 DEF Write
    <3>2. jobs'[i].key = jobs[i].key /\ jobs'[i].state = "pending"
      BY <1>2, <2>0, <3>1 DEF RetryJob, Update, Row
    <3> QED
      BY <1>1, <1>2, <3>1, <3>2, SettledMapped DEF RetryJob, Update, SameWork, Live
  <2>4. CASE verdict = "fail"
    <3>1. FailJob(i, ~Retryable(outcome))
      BY <1>1, <2>4 DEF Write
    <3>2. jobs'[i].key = jobs[i].key /\ jobs'[i].state = "failed"
      BY <1>2, <2>0, <3>1 DEF FailJob, Update, Row
    <3> QED
      BY <1>1, <1>2, <3>1, <3>2, SettledMapped DEF FailJob, Update, SameWork, Live
  <2> QED
    BY <1>1, <2>1, <2>2, <2>3, <2>4
<1>3. CASE i \notin DOMAIN jobs
  <2>0. jobs = [j \in DOMAIN jobs |-> jobs[j]]
    BY IInvStore DEF StoreTypeOK
  <2>1. jobs' = jobs
    <3>1. ASSUME jobs' = [j \in DOMAIN jobs |-> jobs[j]] PROVE jobs' = jobs
      BY <2>0, <3>1
    <3>2. CASE verdict = "complete"
      <4>1. CompleteJob(i)
        BY <1>1, <3>2 DEF Write
      <4>2. jobs' = [j \in DOMAIN jobs |-> jobs[j]]
        BY <1>3, <4>1 DEF CompleteJob
      <4> QED
        BY <3>1, <4>2
    <3>3. CASE verdict = "park"
      <4>1. ParkJob(i)
        BY <1>1, <3>3 DEF Write
      <4>2. jobs' = [j \in DOMAIN jobs |-> jobs[j]]
        BY <1>3, <4>1 DEF ParkJob, Update
      <4> QED
        BY <3>1, <4>2
    <3>4. CASE verdict = "retry"
      <4>1. RetryJob(i)
        BY <1>1, <3>4 DEF Write
      <4>2. jobs' = [j \in DOMAIN jobs |-> jobs[j]]
        BY <1>3, <4>1 DEF RetryJob, Update
      <4> QED
        BY <3>1, <4>2
    <3>5. CASE verdict = "fail"
      <4>1. FailJob(i, ~Retryable(outcome))
        BY <1>1, <3>5 DEF Write
      <4>2. jobs' = [j \in DOMAIN jobs |-> jobs[j]]
        BY <1>3, <4>1 DEF FailJob, Update
      <4> QED
        BY <3>1, <4>2
    <3> QED
      BY <1>1, <3>2, <3>3, <3>4, <3>5
  <2>2. \A k \in Key : SameHands(k)
    BY <1>1, <1>3, IInvStore, RowsNumbered
    DEF SameHands, Owners, Held, Forget, DaemonsTyped
  <2> QED
    BY <2>1, <2>2, SameTable
<1> QED
  BY <1>2, <1>3

LEMMA ClaimMapped ==
  ASSUME RunnerAssumption, IInv, Faithful, Faithful', NEW d \in Daemon, NEW lane \in Lane,
         Claim(d, lane)
  PROVE  Abstract!Next
<1>1. PICK S \in Best(KindsOf[lane], Limit(lane)) :
        /\ ClaimJobs(S)
        /\ claim' = [claim EXCEPT ![d] =
             [i \in JobId |-> IF i \in S THEN SnapshotOf(jobs[i]) ELSE claim[d][i]]]
  BY DEF Claim
<1> DEFINE K == {jobs[i].key : i \in S}
<1>2. \A i \in S : i \in DOMAIN jobs /\ i \in JobId /\ jobs[i].state = "pending" /\ jobs[i] \in Row
  BY RowsNumbered, RowsTyped, IInvStore DEF Best, Ready
<1>3. /\ DOMAIN jobs' = DOMAIN jobs
      /\ \A i \in DOMAIN jobs \ S : jobs'[i] = jobs[i]
      /\ \A i \in S : jobs'[i].key = jobs[i].key /\ jobs'[i].state = "running"
  BY <1>1, <1>2 DEF ClaimJobs, Update, Row
<1>4. /\ \A i \in S : i \in Held(d)'
      /\ \A c \in Daemon, i \in JobId : i \notin S => (i \in Held(c)' <=> i \in Held(c))
  <2>1. \A i \in S : SnapshotOf(jobs[i]) \in Snapshot
    <3> SUFFICES ASSUME NEW i \in S PROVE SnapshotOf(jobs[i]) \in Snapshot
      OBVIOUS
    <3>1. jobs[i].attempts + 1 \in Nat
      BY <1>2 DEF Row
    <3> QED
      BY <1>2, <3>1 DEF Row, SnapshotOf, Snapshot
  <2>2. /\ \A c \in Daemon \ {d} : claim'[c] = claim[c]
        /\ \A i \in JobId :
             claim'[d][i] = IF i \in S THEN SnapshotOf(jobs[i]) ELSE claim[d][i]
    BY <1>1, IInvStore DEF DaemonsTyped
  <2> QED
    BY <1>2, <2>1, <2>2 DEF Held, RunnerAssumption
<1>5. ASSUME NEW i \in S, NEW k, k = jobs[i].key
      PROVE  /\ k \in Key /\ WorkOf(k) = "queued"
             /\ WorkOf(k)' = "claimed" /\ WorkerOf(k)' = d
  <2>1. k \in Key /\ i \in Owners(k)
    BY <1>2, <1>5 DEF Row, Owners, Live
  <2>2. WorkOf(k) = "queued"
    BY <1>2, <2>1 DEF Faithful, ProgressOf
  <2>3. /\ i \in DOMAIN jobs' /\ jobs'[i].key = k /\ Live(jobs'[i])
        /\ ProgressOf(jobs'[i]) = "claimed"
    BY <1>2, <1>3, <1>5 DEF ProgressOf, Live
  <2> QED
    BY <1>4, <2>1, <2>2, <2>3, KeyOwned
<1>6. ASSUME NEW k \in Key \ K
      PROVE  WorkOf(k)' = WorkOf(k) /\ WorkerOf(k)' = WorkerOf(k)
  <2>1. \A i \in DOMAIN jobs : jobs[i].key = k => i \notin S
    OBVIOUS
  <2>2. SameHands(k)
    BY <1>4, <2>1, RowsNumbered, IInvStore DEF SameHands, Owners
  <2> QED
    BY <1>2, <1>3, <2>1, <2>2, KeyUntouched DEF SameWork
<1>7. K \in SUBSET Key /\ \A k \in K : WorkOf(k) = "queued"
  BY <1>5
<1>8. \A k \in Key : WorkOf(k)' = IF k \in K THEN "claimed" ELSE WorkOf(k)
  BY <1>5, <1>6
<1>9. \A k \in Key : WorkerOf(k)' = IF k \in K THEN d ELSE WorkerOf(k)
  BY <1>5, <1>6
<1> HIDE DEF K
<1>10. Abstract!Move(K, "queued", "claimed", d)
  BY <1>7, <1>8, <1>9, MoveMapped
<1> QED
  BY <1>7, <1>10 DEF Abstract!Take, Abstract!Next

-----------------------------------------------------------------------------
(* Every step of the daemons, as the abstract queue sees it.               *)

\* The two sweeps, when nobody has a task.
LEMMA RequeueMapped ==
  ASSUME IInv, Faithful, Faithful', \A d \in Daemon : Held(d) = {}, claim' = claim,
         RequeueRunning \/ ReleaseRunning
  PROVE  Abstract!Next
<1>1. \A d \in Daemon : Held(d) = {} /\ Held(d)' = {}
  BY DEF Held
<1>2. DOMAIN jobs' = DOMAIN jobs
  BY DEF RequeueRunning, ReleaseRunning, Update
<1>3. ASSUME NEW i \in DOMAIN jobs
      PROVE  IF jobs[i].state = "running"
             THEN jobs'[i].state = "pending" /\ jobs'[i].key = jobs[i].key
             ELSE jobs'[i] = jobs[i]
  <2>1. jobs[i] \in Row
    BY RowsTyped, IInvStore
  <2>2. CASE RequeueRunning
    BY <2>1, <2>2 DEF RequeueRunning, Update, InState, Row
  <2>3. CASE ReleaseRunning
    BY <2>1, <2>3 DEF ReleaseRunning, Update, InState, Row
  <2> QED
    BY <2>2, <2>3
<1> QED
  BY <1>1, <1>2, <1>3, SweepMapped

LEMMA RetireMapped ==
  ASSUME IInv, Faithful, Faithful', claim' = claim, RetireEmptyEmbedJobs
  PROVE  Abstract!Next
<1>1. /\ Blank \in SUBSET DOMAIN jobs
      /\ \A i \in Blank : jobs[i].state = "failed" /\ ~jobs[i].terminal
  BY DEF Blank, Revivable, InState
<1>2. DOMAIN jobs' = DOMAIN jobs /\ \A i \in DOMAIN jobs \ Blank : jobs'[i] = jobs[i]
  BY DEF RetireEmptyEmbedJobs, Update
<1>3. ASSUME NEW i \in Blank
      PROVE  jobs'[i].key = jobs[i].key /\ ~Live(jobs'[i])
  <2>1. jobs[i] \in Row /\ jobs'[i] = [jobs[i] EXCEPT !.terminal = TRUE]
    BY <1>1, RowsTyped, IInvStore DEF RetireEmptyEmbedJobs, Update
  <2> QED
    BY <1>1, <2>1 DEF Row, Live
<1> QED
  BY <1>1, <1>2, <1>3, RevivalMapped

LEMMA ReviveMapped ==
  ASSUME IInv, Faithful, Faithful', claim' = claim, NEW kinds, RequeueFailed(kinds)
  PROVE  Abstract!Next
<1>1. /\ Revivable(kinds) \in SUBSET DOMAIN jobs
      /\ \A i \in Revivable(kinds) : jobs[i].state = "failed" /\ ~jobs[i].terminal
  BY DEF Revivable, InState
<1>2. /\ DOMAIN jobs' = DOMAIN jobs
      /\ \A i \in DOMAIN jobs \ Revivable(kinds) : jobs'[i] = jobs[i]
  BY DEF RequeueFailed, Update
<1>3. ASSUME NEW i \in Revivable(kinds)
      PROVE  jobs'[i].key = jobs[i].key /\ jobs'[i].state = "pending"
  <2>1. /\ jobs[i] \in Row
        /\ jobs'[i] = [jobs[i] EXCEPT !.state = "pending", !.due = TRUE,
                                      !.attempts = 0, !.parks = 0]
    BY <1>1, RowsTyped, IInvStore DEF RequeueFailed, Update
  <2> QED
    BY <1>1, <2>1 DEF Row
<1> QED
  BY <1>1, <1>2, <1>3, RevivalMapped

LEMMA BootMapped ==
  ASSUME RunnerAssumption, IInv, Faithful, Faithful', NEW d \in Daemon, Boot(d)
  PROVE  Abstract!Next \/ UNCHANGED Abstract!vars
<1>1. ASSUME jobs' = jobs, claim' = claim PROVE UNCHANGED Abstract!vars
  BY <1>1, SameClaims, SameTable
<1>2. CASE TakeDaemonLock(d)
  BY <1>1, <1>2 DEF TakeDaemonLock
<1>3. CASE SweepRunning(d)
  <2>1. \A c \in Daemon : Held(c) = {}
    BY <1>3, OthersIdle, IdleDaemon DEF SweepRunning, Goes, Working
  <2> QED
    BY <1>1, <1>3, <2>1, RequeueMapped DEF SweepRunning
<1>4. CASE RetireEmpty(d)
  BY <1>4, RetireMapped DEF RetireEmpty, daemonVars
<1>5. CASE ReviveFailed(d)
  BY <1>1, <1>5, ReviveMapped DEF ReviveFailed
<1>6. CASE Serve(d)
  BY <1>1, <1>6 DEF Serve
<1>7. CASE BootFails(d)
  BY <1>1, <1>7 DEF BootFails
<1> QED
  BY <1>2, <1>3, <1>4, <1>5, <1>6, <1>7 DEF Boot

LEMMA WorkMapped ==
  ASSUME RunnerAssumption, IInv, Faithful, Faithful', NEW d \in Daemon, Work(d)
  PROVE  Abstract!Next \/ UNCHANGED Abstract!vars
<1>1. ASSUME NEW i \in JobId, LeaveRunning(d, i) PROVE Abstract!Next
  <2>1. DropsOnly({})
    BY <1>1, IInvStore DEF LeaveRunning, Forget, DropsOnly, DaemonsTyped
  <2> QED
    BY <1>1, <2>1, TasksLost DEF LeaveRunning
<1> QED
  BY <1>1, ClaimMapped, SettleMapped DEF Work

LEMMA StopMapped ==
  ASSUME RunnerAssumption, IInv, Faithful, Faithful', NEW d \in Daemon, Stop(d)
  PROVE  Abstract!Next \/ UNCHANGED Abstract!vars
<1>1. ASSUME jobs' = jobs, claim' = claim PROVE UNCHANGED Abstract!vars
  BY <1>1, SameClaims, SameTable
<1>2. ASSUME jobs' = jobs, claim' = [claim EXCEPT ![d] = NoClaims] PROVE Abstract!Next
  BY <1>2, NoClaimsTyped, TasksLost, IInvStore
<1>3. CASE Signal(d)
  BY <1>1, <1>3 DEF Signal
<1>4. CASE StopRunner(d)
  BY <1>2, <1>4 DEF StopRunner
<1>5. CASE ReleaseClaims(d)
  <2>1. \A c \in Daemon : Held(c) = {}
    BY <1>5, OthersIdle, IdleDaemon DEF ReleaseClaims, Goes, Working
  <2> QED
    BY <1>1, <1>5, <2>1, RequeueMapped DEF ReleaseClaims
<1>6. CASE DropLock(d)
  BY <1>1, <1>6 DEF DropLock
<1>7. CASE Crash(d)
  BY <1>2, <1>7 DEF Crash
<1> QED
  BY <1>3, <1>4, <1>5, <1>6, <1>7 DEF Stop

LEMMA NextMapped ==
  ASSUME StoreAssumption, RunnerAssumption, IInv, Faithful, Faithful', Next
  PROVE  Abstract!Next \/ UNCHANGED Abstract!vars
<1>1. ASSUME NEW d \in Daemon, Boot(d) \/ Work(d) \/ Stop(d)
      PROVE  Abstract!Next \/ UNCHANGED Abstract!vars
  BY <1>1, BootMapped, WorkMapped, StopMapped
<1>2. CASE SessionEnds
  BY <1>2, SameClaims, SameTable DEF SessionEnds
<1>3. ASSUME NEW k \in Key, NEW p \in Payload, NEW pr \in Priority, NEW ready \in BOOLEAN,
             Enqueue(k, p, pr, ready)
      PROVE  Abstract!Next \/ UNCHANGED Abstract!vars
  BY <1>3, EnqueueMapped DEF Enqueue, daemonVars
<1>4. ASSUME NEW k \in Key, Cancel(k)
      PROVE  Abstract!Next \/ UNCHANGED Abstract!vars
  <2>1. claim' = claim
    BY <1>4 DEF Cancel, daemonVars
  <2>2. CASE KillScans(k)
    BY <2>1, <2>2, DeletedMapped DEF KillScans
  <2>3. CASE ReapUnreferenced(k)
    BY <2>1, <2>3, DeletedMapped DEF ReapUnreferenced
  <2> QED
    BY <1>4, <2>2, <2>3 DEF Cancel
<1>5. CASE Purge
  <2>1. PICK S \in SUBSET InState("done") : Delete(S)
    BY <1>5 DEF Purge, PurgeDoneJobs
  <2>2. claim' = claim
    BY <1>5 DEF Purge, daemonVars
  <2>3. /\ DOMAIN jobs' = DOMAIN jobs \ S
        /\ \A i \in DOMAIN jobs' : jobs'[i] = jobs[i]
        /\ \A i \in S : ~Live(jobs[i])
    BY <2>1 DEF Delete, InState, Live
  <2>4. Stutters
    BY <2>2, <2>3, SameClaims, KeyUntouched DEF Stutters, SameWork
  <2> QED
    BY <2>4, StutterMapped
<1>6. ASSUME NEW i \in JobId, TimePasses(i)
      PROVE  UNCHANGED Abstract!vars
  <2>1. /\ claim' = claim /\ DOMAIN jobs' = DOMAIN jobs
        /\ \A j \in DOMAIN jobs \ {i} : jobs'[j] = jobs[j]
        /\ i \in DOMAIN jobs /\ jobs'[i] = [jobs[i] EXCEPT !.due = TRUE]
    BY <1>6 DEF TimePasses, Elapse, Update, InState, daemonVars
  <2>2. jobs[i] \in Row
    BY <2>1, RowsTyped, IInvStore
  <2>3. \A j \in DOMAIN jobs : SameWork(jobs'[j], jobs[j])
    BY <2>1, <2>2 DEF SameWork, Live, Row
  <2> QED
    BY <2>1, <2>3, WorkKept
<1> QED
  BY <1>1, <1>2, <1>3, <1>4, <1>5, <1>6 DEF Next

\* The table, the lock and the boot order implement the abstract queue, for any
\* daemons, keys, rows and boots: each key is one piece of work, in the hands of
\* one worker at most, and handed out again only once nobody has it.
THEOREM Implements ==
  ASSUME StoreAssumption, RunnerAssumption
  PROVE  Spec => ImplementsBacklog
<1>1. Init => Abstract!Init
  <2> SUFFICES ASSUME Init PROVE Abstract!Init
    OBVIOUS
  <2>1. \A k \in Key : Owners(k) = {}
    BY DEF Init, StoreInit, Owners
  <2>2. \A k \in Key : WorkOf(k) = "idle" /\ WorkerOf(k) = Nobody
    BY <2>1 DEF WorkOf, WorkerOf, Holders
  <2> QED
    BY <2>2 DEF Abstract!Init
<1>2. IInv /\ IInv' /\ [Next]_vars => [Abstract!Next]_(Abstract!vars)
  <2> SUFFICES ASSUME IInv, IInv', [Next]_vars
               PROVE  Abstract!Next \/ UNCHANGED Abstract!vars
    OBVIOUS
  <2>1. Faithful /\ Faithful'
    BY MappingIsFaithful, FaithfulNext
  <2>2. CASE Next
    BY <2>1, <2>2, NextMapped
  <2>3. CASE UNCHANGED vars
    BY <2>1, <2>3, SameClaims, SameTable DEF vars
  <2> QED
    BY <2>2, <2>3
<1> QED
  BY <1>1, <1>2, Invariance, PTL DEF Spec, ImplementsBacklog, Abstract!Spec
=============================================================================
