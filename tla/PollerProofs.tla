---------------------------- MODULE PollerProofs ----------------------------
(***************************************************************************)
(* Proofs about ConvoPoller: the types of its memory, that a session of the *)
(* backlog has its turn, and that attempts without progress are earned.     *)
(*                                                                         *)
(* The argument for the second is a measure.  Between two passes, the       *)
(* passes that left a session waiting and the sessions that precede it in   *)
(* the rotation are together fewer than the sessions; a pass that leaves it *)
(* waiting has taken at least one of those that preceded it.                *)
(*                                                                         *)
(* That for the third looks at one file at a time, as the queue knows it:   *)
(* an entry of the poller's has seen progress, or is void, or each attempt  *)
(* that is or will be counted on it had a revision of its own.              *)
(***************************************************************************)
EXTENDS ConvoPoller, FiniteSetTheorems, FunctionTheorems, SequenceTheorems, TLAPS

(* Sets in order.                                                          *)

\* R is a strict total order of S.
Orders(S, R) ==
  /\ \A x \in S : <<x, x>> \notin R
  /\ \A x, y \in S : x # y => <<x, y>> \in R \/ <<y, x>> \in R
  /\ \A x, y, z \in S : <<x, y>> \in R /\ <<y, z>> \in R => <<x, z>> \in R

Before(S, R, x) == {y \in S : <<y, x>> \in R}
Rank(S, R) == [x \in S |-> Cardinality(Before(S, R, x)) + 1]

LEMMA BeforeIs ==
  ASSUME NEW S, NEW R, IsFiniteSet(S), Orders(S, R), NEW x \in S
  PROVE  /\ IsFiniteSet(Before(S, R, x)) /\ Cardinality(Before(S, R, x)) \in Nat
         /\ Cardinality(Before(S, R, x)) < Cardinality(S)
<1>1. Before(S, R, x) \subseteq S \ {x}
  BY DEF Before, Orders
<1>2. IsFiniteSet(S \ {x}) /\ Cardinality(S \ {x}) = Cardinality(S) - 1
  BY FS_RemoveElement
<1>3. IsFiniteSet(Before(S, R, x)) /\ Cardinality(Before(S, R, x)) <= Cardinality(S \ {x})
  BY <1>1, <1>2, FS_Subset
<1>4. Cardinality(S) \in Nat /\ Cardinality(Before(S, R, x)) \in Nat
  BY <1>3, FS_CardinalityType
<1> QED BY <1>2, <1>3, <1>4

\* Who comes earlier has fewer before it.
LEMMA BeforeGrows ==
  ASSUME NEW S, NEW R, IsFiniteSet(S), Orders(S, R), NEW x \in S, NEW y \in S, <<x, y>> \in R
  PROVE  Cardinality(Before(S, R, x)) < Cardinality(Before(S, R, y))
<1>1. Before(S, R, x) \subseteq Before(S, R, y) \ {x} /\ x \in Before(S, R, y)
  BY DEF Before, Orders
<1>2. IsFiniteSet(Before(S, R, y)) /\ Cardinality(Before(S, R, y)) \in Nat
  BY BeforeIs
<1>3. /\ IsFiniteSet(Before(S, R, y) \ {x})
      /\ Cardinality(Before(S, R, y) \ {x}) = Cardinality(Before(S, R, y)) - 1
  BY <1>1, <1>2, FS_RemoveElement
<1>4. Cardinality(Before(S, R, x)) <= Cardinality(Before(S, R, y) \ {x})
  BY <1>1, <1>3, FS_Subset
<1>5. Cardinality(Before(S, R, x)) \in Nat
  BY BeforeIs
<1> QED BY <1>2, <1>3, <1>4, <1>5

LEMMA RankIs ==
  ASSUME NEW S, NEW R, IsFiniteSet(S), Orders(S, R)
  PROVE  Rank(S, R) \in Bijection(S, 1..Cardinality(S))
<1> DEFINE n == Cardinality(S)
<1>1. n \in Nat
  BY FS_CardinalityType
<1>2. Rank(S, R) \in [S -> 1..n]
  <2>1. ASSUME NEW x \in S PROVE Cardinality(Before(S, R, x)) + 1 \in 1..n
    BY <1>1, BeforeIs
  <2> QED BY <2>1 DEF Rank
<1>3. ASSUME NEW x \in S, NEW y \in S, Rank(S, R)[x] = Rank(S, R)[y] PROVE x = y
  <2>1. SUFFICES ASSUME x # y PROVE FALSE
    OBVIOUS
  <2>2. /\ Cardinality(Before(S, R, x)) \in Nat /\ Cardinality(Before(S, R, y)) \in Nat
        /\ Cardinality(Before(S, R, x)) = Cardinality(Before(S, R, y))
    BY <1>3, BeforeIs DEF Rank
  <2>3. <<x, y>> \in R \/ <<y, x>> \in R
    BY <2>1 DEF Orders
  <2> QED BY <2>2, <2>3, BeforeGrows
<1>4. Rank(S, R) \in Injection(S, 1..n)
  BY <1>2, <1>3 DEF Injection, IsInjective
<1>5. IsFiniteSet(1..n) /\ Cardinality(1..n) = n
  BY <1>1, FS_Interval
<1>6. Rank(S, R) \in Surjection(S, 1..n)
  <2> HIDE DEF n
  <2>1. n = Cardinality(1..n) /\ n = Cardinality(S)
    BY <1>5 DEF n
  <2> QED BY <1>4, <1>5, <2>1, FS_Injection
<1> QED BY <1>4, <1>6 DEF Bijection

\* InOrder lists all of S, each once, in the order of R.
LEMMA InOrderIs ==
  ASSUME NEW S, NEW R, IsFiniteSet(S), Orders(S, R)
  PROVE  /\ Cardinality(S) \in Nat
         /\ InOrder(S, R) \in [1..Cardinality(S) -> S]
         /\ \A i, j \in 1..Cardinality(S) : i < j => <<InOrder(S, R)[i], InOrder(S, R)[j]>> \in R
         /\ \A x \in S : \E i \in 1..Cardinality(S) : InOrder(S, R)[i] = x
         /\ InOrder(S, R) \in Seq(S) /\ Len(InOrder(S, R)) = Cardinality(S)
<1> DEFINE n == Cardinality(S)
           Good(q) == \A i, j \in 1..n : i < j => <<q[i], q[j]>> \in R
<1>1. n \in Nat
  BY FS_CardinalityType
<1>2. \E q \in [1..n -> S] : Good(q)
  <2> DEFINE rank == Rank(S, R)
  <2>1. rank \in Bijection(S, 1..n)
    BY RankIs
  <2>2. \A i \in 1..n : \E x \in S : rank[x] = i
    <3> HIDE DEF n, rank
    <3> QED BY <2>1 DEF Bijection, Surjection
  <2>3. PICK q : q = [i \in 1..n |-> CHOOSE x \in S : rank[x] = i]
    OBVIOUS
  <2>4. \A i \in 1..n : q[i] \in S /\ rank[q[i]] = i
    <3> HIDE DEF n, rank
    <3> QED BY <2>2, <2>3
  <2>5. ASSUME NEW i \in 1..n, NEW j \in 1..n, i < j PROVE <<q[i], q[j]>> \in R
    <3>1. q[i] \in S /\ q[j] \in S /\ rank[q[i]] < rank[q[j]]
      BY <2>4, <2>5
    <3>2. /\ Cardinality(Before(S, R, q[i])) \in Nat /\ Cardinality(Before(S, R, q[j])) \in Nat
          /\ Cardinality(Before(S, R, q[i])) < Cardinality(Before(S, R, q[j]))
      BY <3>1, BeforeIs DEF Rank
    <3>3. q[i] # q[j] /\ <<q[j], q[i]>> \notin R
      BY <3>1, <3>2, BeforeGrows
    <3> QED BY <3>1, <3>3 DEF Orders
  <2> HIDE DEF n
  <2> QED BY <2>3, <2>4, <2>5
<1>3. PICK q : q = InOrder(S, R)
  OBVIOUS
<1>4. q \in [1..n -> S] /\ Good(q)
  BY <1>2, <1>3 DEF InOrder
<1>5. \A x \in S : \E i \in 1..n : q[i] = x
  <2>1. \A i, j \in 1..n : q[i] = q[j] => i = j
    <3> SUFFICES ASSUME NEW i \in 1..n, NEW j \in 1..n, q[i] = q[j], i # j PROVE FALSE
      OBVIOUS
    <3>1. i < j \/ j < i
      BY <1>1
    <3>2. q[i] \in S /\ <<q[i], q[i]>> \in R
      BY <1>4, <3>1
    <3> QED BY <3>2 DEF Orders
  <2> HIDE DEF n
  <2>2. q \in Injection(1..n, S)
    BY <1>4, <2>1 DEF Injection, IsInjective
  <2>3. IsFiniteSet(1..n) /\ Cardinality(1..n) = Cardinality(S)
    BY <1>1, FS_Interval DEF n
  <2>4. q \in Surjection(1..n, S)
    BY <2>2, <2>3, FS_Injection
  <2> QED BY <2>4 DEF Surjection
<1>6. q \in Seq(S) /\ Len(q) = n
  <2> HIDE DEF n, Good
  <2>1. q \in Seq(S)
    BY <1>1, <1>4
  <2> QED BY <1>1, <1>4, <2>1, LenProperties
<1> QED BY <1>1, <1>3, <1>4, <1>5, <1>6

-----------------------------------------------------------------------------
(* Sessions, and where each stands in the rotation.                        *)

LEMMA SessionIs ==
  /\ IsFiniteSet(Session) /\ Session \subseteq Nat /\ Cardinality(Session) \in Nat
  /\ \A f \in File : /\ f[1] \in Session /\ f[2] \in Nat
                     /\ f = <<f[1], f[2]>> /\ Main(f[1]) \in File
<1>1. \A f \in File : f \in Nat \X Nat /\ f[1] \in Session
  BY PollerAssumption DEF Session
<1>2. PICK first : first = [f \in File |-> f[1]]
  OBVIOUS
<1>3. first \in Surjection(File, Session)
  BY <1>2 DEF Surjection, Session
<1>4. IsFiniteSet(Session)
  BY <1>3, PollerAssumption, FS_Surjection
<1> QED BY <1>1, <1>4, PollerAssumption, FS_CardinalityType DEF Session

\* Who precedes s, as the rotation stands at a.
InFront(a, s) == {t \in Session : Precedes(a, t, s)}
Ahead(a, s) == Cardinality(InFront(a, s))

\* The same set as the order gives it.
Rotation(a) == {st \in Session \X Session : Precedes(a, st[1], st[2])}

LEMMA RotationOrders ==
  ASSUME NEW a \in Nat
  PROVE  Orders(Session, Rotation(a)) /\ \A s \in Session : InFront(a, s) = Before(Session, Rotation(a), s)
<1>1. \A s, t \in Nat : s # t => Precedes(a, s, t) \/ Precedes(a, t, s)
  BY DEF Precedes
<1>2. \A s \in Nat : ~ Precedes(a, s, s)
  BY DEF Precedes
<1>3. \A s, t, u \in Nat : Precedes(a, s, t) /\ Precedes(a, t, u) => Precedes(a, s, u)
  BY DEF Precedes
<1>4. \A s, t \in Session : <<s, t>> \in Rotation(a) <=> Precedes(a, s, t)
  BY DEF Rotation
<1>5. Orders(Session, Rotation(a))
  BY <1>1, <1>2, <1>3, <1>4, SessionIs DEF Orders
<1> QED BY <1>4, <1>5 DEF InFront, Before

LEMMA AheadIs ==
  ASSUME NEW a \in Nat, NEW s \in Session
  PROVE  Ahead(a, s) \in Nat /\ Ahead(a, s) < Cardinality(Session)
BY RotationOrders, SessionIs, BeforeIs DEF Ahead

\* Once the rotation stands at u, those it had still to reach come in the order
\* they had, and fewer precede each.
LEMMA Shift ==
  ASSUME NEW a \in Nat, NEW u \in Session, NEW s \in Session, Precedes(a, u, s)
  PROVE  /\ \A t \in Session : Precedes(a, u, t) /\ Precedes(a, t, s) => Precedes(u, t, s)
         /\ Ahead(u, s) < Ahead(a, s)
<1>1. s \in Nat /\ u \in Nat
  BY SessionIs
<1>2. \A t \in Nat : Precedes(a, u, t) /\ Precedes(a, t, s) => Precedes(u, t, s)
  BY <1>1 DEF Precedes
<1>3. \A t \in Nat : Precedes(u, t, s) => Precedes(a, u, t) /\ Precedes(a, t, s)
  BY <1>1 DEF Precedes
<1>4. ~ Precedes(a, u, u)
  BY <1>1 DEF Precedes
<1>5. InFront(u, s) \subseteq InFront(a, s) \ {u} /\ u \in InFront(a, s)
  BY <1>3, <1>4, SessionIs DEF InFront
<1>6. IsFiniteSet(InFront(a, s)) /\ Cardinality(InFront(a, s)) \in Nat
  BY SessionIs, FS_Subset, FS_CardinalityType DEF InFront
<1>7. /\ IsFiniteSet(InFront(a, s) \ {u})
      /\ Cardinality(InFront(a, s) \ {u}) = Cardinality(InFront(a, s)) - 1
  BY <1>5, <1>6, FS_RemoveElement
<1>8. Cardinality(InFront(u, s)) <= Cardinality(InFront(a, s) \ {u})
  BY <1>5, <1>7, FS_Subset
<1>9. Cardinality(InFront(u, s)) \in Nat
  BY <1>1, AheadIs DEF Ahead
<1> QED BY <1>2, <1>6, <1>7, <1>8, <1>9, SessionIs DEF Ahead

-----------------------------------------------------------------------------
(* The inductive invariant: first what PollerTypeOK says and what it needs of *)
(* a pass and of a running job.                                            *)

PassKind == {"idle", "acks", "outcomes", "cursors", "select", "submit"}
Job == [id : 0..MaxIds, dead : SUBSET (1..MaxIds),
        state : {"pending", "running", "done", "failed", "hopeless"}]
Run == [ahead : Seq(File), read : OrNothing(Read), moved : SUBSET File]

\* Entries are of jobs that were submitted.
Submitted(entries) ==
  /\ entries \in [File -> OrNothing(Entry)]
  /\ \A f \in File : entries[f] # Nothing => entries[f].job \in 1..row[f[1]].id

DiskTyped == disk \in [File -> Disk] /\ writes \in 0..MaxWrites
QueueTyped ==
  /\ offsets \in [File -> OrNothing(Offset)] /\ ack \in [File -> OrNothing(Ack)]
  /\ row \in [Session -> Job] /\ run \in [Session -> Run]
  /\ \A s \in Session : /\ row[s].state # "running" => run[s] = NoRun
                        /\ run[s].read # Nothing => run[s].ahead # <<>>
                        /\ row[s].state # "done" => row[s].id # 0
MemoryTyped ==
  /\ observed = Nothing \/ DOMAIN observed \subseteq File
  /\ Submitted(lag) /\ unreadable \in [File -> OrNothing(Nat)]
  /\ folders \in [Session -> {Nothing, Found} \union Nat]
  /\ after \in Session \union {0} /\ stalled \in BOOLEAN
PassTyped ==
  /\ DOMAIN pass = DOMAIN Idle /\ pass.at \in PassKind
  /\ pass.at # "idle" => pass.disk \in [File -> Disk] /\ DOMAIN pass.seen \subseteq File
  /\ pass.at \in {"outcomes", "cursors"} => pass.acks \in [File -> OrNothing(Ack)]
  /\ pass.at \in {"select", "submit"} =>
       /\ pass.cursors \in [File -> OrNothing(Offset)] /\ Submitted(pass.lag)
       /\ pass.wanted \subseteq Listed(pass.disk)
  /\ pass.at = "submit" =>
       pass.todo \in Seq(Session) /\ pass.first \in Nat /\ pass.waiting \subseteq Session

PollerTyped == DiskTyped /\ QueueTyped /\ MemoryTyped /\ PassTyped

(* Then the rotation.  Of what a pass has still to reach, what is behind its *)
(* first live sessions is the backlog's.                                    *)

Turns == {i \in DOMAIN pass.todo : i > pass.first}
Due == {pass.todo[i] : i \in Turns}
Left == Cardinality(Session)

\* Between two passes, and until one has selected.
BetweenPasses == \A s \in Session : passed[s] + Ahead(after, s) < Left

\* While a pass submits: its turns come in the order of the rotation and before
\* who waits; whoever is still due or waits has room, and once every turn was
\* taken who waits has room for one pass more.
DuringSubmission ==
  /\ \A s \in Session : passed[s] < Left
  /\ \A s \in Due \union pass.waiting : passed[s] + Ahead(after, s) < Left
  /\ Turns = {} => \A s \in pass.waiting : passed[s] + 1 + Ahead(after, s) < Left
  /\ \A i, j \in Turns : i < j => Precedes(after, pass.todo[i], pass.todo[j])
  /\ \A i \in Turns : \A s \in pass.waiting : Precedes(after, pass.todo[i], s)

RotationFair ==
  /\ passed \in [Session -> Nat]
  /\ IF pass.at = "submit" THEN DuringSubmission ELSE BetweenPasses

-----------------------------------------------------------------------------
(* The types are kept.                                                     *)

LEMMA InitTyped == ASSUME PollerInit PROVE PollerTyped
<1>1. DiskTyped
  BY PollerAssumption DEF PollerInit, DiskTyped, Disk
<1>2. \A s \in Session : NoRun \in Run /\ row[s] \in Job
  BY PollerAssumption DEF PollerInit, NoRun, Run, Job, OrNothing
<1>3. QueueTyped
  <2>1. offsets \in [File -> OrNothing(Offset)] /\ ack \in [File -> OrNothing(Ack)]
    BY DEF PollerInit, Offset, OrNothing, Blank
  <2>2. row \in [Session -> Job] /\ run \in [Session -> Run]
    BY <1>2 DEF PollerInit
  <2>3. \A s \in Session : row[s].state = "done" /\ run[s] = NoRun /\ NoRun.read = Nothing
    BY DEF PollerInit, NoRun
  <2> QED BY <2>1, <2>2, <2>3 DEF QueueTyped
<1>4. MemoryTyped
  BY DEF PollerInit, MemoryTyped, Submitted, Blank, OrNothing
<1>5. PassTyped
  BY DEF PollerInit, PassTyped, Idle, PassKind
<1> QED BY <1>1, <1>3, <1>4, <1>5 DEF PollerTyped

\* What only the files, the cursors and the jobs do leaves the rest typed.
LEMMA RestTyped ==
  ASSUME PollerTyped, QueueTyped', UNCHANGED <<memory, pass>>,
         \A s \in Session : row[s].id <= row'[s].id
  PROVE  MemoryTyped' /\ PassTyped'
<1>1. ASSUME NEW entries, Submitted(entries)
      PROVE  /\ entries \in [File -> OrNothing(Entry)]
             /\ \A f \in File : entries[f] # Nothing => entries[f].job \in 1..row'[f[1]].id
  <2>1. \A s \in Session : row[s].id \in Nat /\ row'[s].id \in Nat
    BY PollerAssumption DEF PollerTyped, QueueTyped, Job
  <2>2. ASSUME NEW f \in File, entries[f] # Nothing PROVE entries[f].job \in 1..row'[f[1]].id
    <3>1. f[1] \in Session
      BY SessionIs
    <3>2. PICK n \in Nat, m \in Nat : n = row[f[1]].id /\ m = row'[f[1]].id /\ n <= m
      BY <2>1, <3>1
    <3>3. entries[f].job \in 1..n
      BY <1>1, <2>2, <3>2 DEF Submitted
    <3> QED BY <3>2, <3>3
  <2> QED BY <1>1, <2>2 DEF Submitted
<1>2. Submitted(lag)'
  BY <1>1 DEF PollerTyped, MemoryTyped, Submitted, memory
<1>3. pass.at \in {"select", "submit"} => Submitted(pass.lag)'
  BY <1>1 DEF PollerTyped, PassTyped, Submitted
<1>4. MemoryTyped'
  BY <1>2 DEF PollerTyped, MemoryTyped, memory
<1>5. PassTyped'
  BY <1>3 DEF PollerTyped, PassTyped, Listed, There
<1> QED BY <1>4, <1>5

LEMMA WriteTyped ==
  ASSUME PollerTyped, NEW f \in File, NEW kind, NEW changed, Write(f, kind, changed),
         changed.inode \in Nat, changed.lines \in Nat, changed.torn \in BOOLEAN,
         DOMAIN changed = DOMAIN disk[f]
  PROVE  PollerTyped'
<1>1. disk[f] \in Disk /\ writes + 1 \in 0..MaxWrites /\ writes + 1 \in Nat
  BY PollerAssumption DEF PollerTyped, DiskTyped, Write
<1>2. [changed EXCEPT !.rev = writes + 1] \in Disk
  BY <1>1 DEF Disk
<1>3. DiskTyped'
  BY <1>1, <1>2 DEF Write, PollerTyped, DiskTyped
<1>4. QueueTyped'
  BY DEF Write, PollerTyped, QueueTyped, queue
<1>5. \A s \in Session : row[s].id <= row'[s].id
  BY PollerAssumption DEF Write, PollerTyped, QueueTyped, queue, Job
<1> QED BY <1>3, <1>4, <1>5, RestTyped DEF PollerTyped, Write

LEMMA HarnessTyped ==
  ASSUME PollerTyped, NEW f \in File,
         WriteLine(f) \/ WritePart(f) \/ Touch(f) \/ Replace(f)
  PROVE  PollerTyped'
<1>1. disk[f] \in Disk
  BY DEF PollerTyped, DiskTyped
<1>2. CASE WriteLine(f)
  <2>1. PICK changed : changed = [disk[f] EXCEPT !.lines = @ + 1, !.torn = FALSE]
    OBVIOUS
  <2>2. /\ changed.inode \in Nat /\ changed.lines \in Nat /\ changed.torn \in BOOLEAN
        /\ DOMAIN changed = DOMAIN disk[f]
    BY <1>1, <2>1 DEF Disk
  <2> QED BY <1>2, <2>1, <2>2, WriteTyped DEF WriteLine
<1>3. CASE WritePart(f)
  BY <1>1, <1>3, WriteTyped DEF WritePart, Disk
<1>4. CASE Touch(f)
  BY <1>1, <1>4, WriteTyped DEF Touch, Disk
<1>5. CASE Replace(f)
  <2>1. PICK changed : changed = [disk[f] EXCEPT !.inode = @ + 1, !.torn = FALSE]
    OBVIOUS
  <2>2. /\ changed.inode \in Nat /\ changed.lines \in Nat /\ changed.torn \in BOOLEAN
        /\ DOMAIN changed = DOMAIN disk[f]
    BY <1>1, <2>1 DEF Disk
  <2> QED BY <1>5, <2>1, <2>2, WriteTyped DEF Replace
<1> QED BY <1>2, <1>3, <1>4, <1>5

LEMMA FilesInOrder ==
  ASSUME NEW d, NEW s \in Session
  PROVE  /\ InOrder(FilesOf(d, s), {fg \in File \X File : fg[1][2] < fg[2][2]}) \in Seq(File)
         /\ Range(InOrder(FilesOf(d, s), {fg \in File \X File : fg[1][2] < fg[2][2]}))
              = FilesOf(d, s)
<1> DEFINE S == FilesOf(d, s)
           R == {fg \in File \X File : fg[1][2] < fg[2][2]}
<1>1. S \subseteq File /\ \A f \in S : f[1] = s
  BY DEF FilesOf, Listed
<1>2. IsFiniteSet(S)
  BY <1>1, PollerAssumption, FS_Subset
<1>3. \A f \in S : f[2] \in Nat /\ f = <<s, f[2]>>
  BY <1>1, SessionIs
<1>4. \A f, g \in S : <<f, g>> \in R <=> f[2] < g[2]
  BY <1>1
<1>5. Orders(S, R)
  <2> HIDE DEF S, R
  <2>1. \A f \in S : <<f, f>> \notin R
    BY <1>3, <1>4
  <2>2. \A f, g \in S : f # g => <<f, g>> \in R \/ <<g, f>> \in R
    <3> SUFFICES ASSUME NEW f \in S, NEW g \in S, f # g PROVE f[2] < g[2] \/ g[2] < f[2]
      BY <1>4
    <3>1. f[2] # g[2]
      BY <1>3
    <3> QED BY <1>3, <3>1
  <2>3. \A f, g, h \in S : <<f, g>> \in R /\ <<g, h>> \in R => <<f, h>> \in R
    BY <1>3, <1>4
  <2> QED BY <2>1, <2>2, <2>3 DEF Orders
<1>6. InOrder(S, R) \in Seq(S) /\ Range(InOrder(S, R)) = S
  <2> HIDE DEF S, R
  <2>1. PICK q, c : q = InOrder(S, R) /\ c = Cardinality(S)
    OBVIOUS
  <2>2. /\ q \in Seq(S) /\ q \in [1..c -> S]
        /\ \A f \in S : \E i \in 1..c : q[i] = f
    BY <1>2, <1>5, <2>1, InOrderIs
  <2> QED BY <2>1, <2>2 DEF Range
<1>7. Seq(S) \subseteq Seq(File)
  <2> HIDE DEF S
  <2> QED BY <1>1
<1> QED BY <1>6, <1>7

\* A step of a job of session s, which finds it running and leaves it so.
LEMMA RunTyped ==
  ASSUME PollerTyped, NEW s \in Session, row[s].state = "running", UNCHANGED <<disk, writes, row>>,
         NEW next \in Run, next.read # Nothing => next.ahead # <<>>, run' = [run EXCEPT ![s] = next],
         offsets' \in [File -> OrNothing(Offset)], ack' \in [File -> OrNothing(Ack)],
         UNCHANGED <<memory, pass>>
  PROVE  PollerTyped'
<1>1. DiskTyped'
  BY DEF PollerTyped, DiskTyped
<1>2. QueueTyped'
  <2>1. row' \in [Session -> Job] /\ run' \in [Session -> Run]
    BY DEF PollerTyped, QueueTyped
  <2>2. ASSUME NEW t \in Session
        PROVE  /\ row'[t].state # "running" => run'[t] = NoRun
               /\ run'[t].read # Nothing => run'[t].ahead # <<>>
               /\ row'[t].state # "done" => row'[t].id # 0
    BY DEF PollerTyped, QueueTyped
  <2> QED BY <2>1, <2>2 DEF QueueTyped
<1>3. \A t \in Session : row[t].id <= row'[t].id
  BY PollerAssumption DEF PollerTyped, QueueTyped, Job
<1> QED BY <1>1, <1>2, <1>3, RestTyped DEF PollerTyped

LEMMA ClaimTyped ==
  ASSUME PollerTyped, NEW s \in Session, ClaimJob(s) PROVE PollerTyped'
<1>1. DiskTyped'
  BY DEF ClaimJob, PollerTyped, DiskTyped
<1>2. PICK files \in Seq(File) : run' = [run EXCEPT ![s].ahead = files]
  <2>1. << >> \in Seq(File)
    BY EmptySeq
  <2> QED BY <2>1, FilesInOrder DEF ClaimJob
<1>3. /\ run[s] \in Run /\ run[s] = NoRun /\ run[s].read = Nothing
      /\ row[s] \in Job /\ row[s].id # 0
  BY DEF ClaimJob, PollerTyped, QueueTyped, NoRun
<1>4. [row[s] EXCEPT !.state = "running"] \in Job /\ [run[s] EXCEPT !.ahead = files] \in Run
  BY <1>3 DEF Job, Run
<1>5. row' = [row EXCEPT ![s] = [row[s] EXCEPT !.state = "running"]]
  BY DEF ClaimJob
<1>6. run' = [run EXCEPT ![s] = [run[s] EXCEPT !.ahead = files]]
  BY <1>2
<1>7. QueueTyped'
  <2>1. row' \in [Session -> Job] /\ run' \in [Session -> Run]
    BY <1>4, <1>5, <1>6 DEF PollerTyped, QueueTyped
  <2>2. row'[s].state = "running" /\ row'[s].id # 0 /\ run'[s].read = Nothing
    BY <1>3, <1>5, <1>6 DEF PollerTyped, QueueTyped, Job, Run
  <2>3. ASSUME NEW t \in Session, t # s PROVE row'[t] = row[t] /\ run'[t] = run[t]
    BY <1>5, <1>6, <2>3 DEF PollerTyped, QueueTyped
  <2>4. offsets' = offsets /\ ack' = ack
    BY DEF ClaimJob
  <2> QED BY <2>1, <2>2, <2>3, <2>4 DEF PollerTyped, QueueTyped
<1>8. \A t \in Session : row[t].id <= row'[t].id
  BY <1>5, PollerAssumption DEF PollerTyped, QueueTyped, Job
<1> QED BY <1>1, <1>7, <1>8, RestTyped DEF PollerTyped, ClaimJob

\* The file a job is at.
LEMMA AtFile ==
  ASSUME PollerTyped, NEW s \in Session, run[s].ahead # <<>>
  PROVE  /\ run[s] \in Run /\ Head(run[s].ahead) \in File /\ Tail(run[s].ahead) \in Seq(File)
         /\ disk[Head(run[s].ahead)] \in Disk
BY HeadTailProperties DEF PollerTyped, DiskTyped, QueueTyped, Run

LEMMA ReadTyped ==
  ASSUME PollerTyped, NEW s \in Session, ReadFile(s) PROVE PollerTyped'
<1> DEFINE f == Head(run[s].ahead)
<1>1. run[s].ahead # <<>> /\ row[s].state = "running"
  BY DEF ReadFile
<1>2. run[s] \in Run /\ f \in File /\ disk[f] \in Disk
  BY <1>1, AtFile
<1>3. PICK read : read = [end |-> EndOf(f), rev |-> disk[f].rev, newer |-> 2,
                          empty |-> f \in Wordless \/ StartOf(f) = disk[f].lines]
  OBVIOUS
<1>4. read \in Read
  <2>1. (f \in Wordless \/ StartOf(f) = disk[f].lines) \in BOOLEAN
    OBVIOUS
  <2>2. EndOf(f) \in Offset /\ disk[f].rev \in Nat
    BY <1>2 DEF EndOf, Offset, Disk
  <2> HIDE DEF f
  <2> QED BY <1>3, <2>1, <2>2 DEF Read
<1>5. PICK next : next = [run[s] EXCEPT !.read = read]
  OBVIOUS
<1>6. next \in Run /\ next.ahead # <<>>
  BY <1>1, <1>2, <1>4, <1>5 DEF Run, OrNothing
<1>7. run' = [run EXCEPT ![s] = next]
  BY <1>3, <1>5 DEF ReadFile
<1>8. UNCHANGED <<disk, writes, row, offsets, ack, memory, pass>>
  BY DEF ReadFile
<1> QED BY <1>1, <1>6, <1>7, <1>8, RunTyped DEF PollerTyped, QueueTyped

LEMMA CommitTyped ==
  ASSUME PollerTyped, NEW s \in Session, CommitFile(s) PROVE PollerTyped'
<1> DEFINE f == Head(run[s].ahead)
           read == run[s].read
<1>1. row[s].state = "running" /\ read # Nothing /\ run[s].ahead # <<>>
  BY DEF CommitFile, PollerTyped, QueueTyped
<1>2. run[s] \in Run /\ f \in File /\ Tail(run[s].ahead) \in Seq(File) /\ read \in Read
  BY <1>1, AtFile DEF Run, OrNothing
<1>3. offsets' \in [File -> OrNothing(Offset)]
  BY <1>2 DEF CommitFile, PollerTyped, QueueTyped, Read, OrNothing
<1>4. ack' \in [File -> OrNothing(Ack)]
  <2>1. [stamp |-> read.rev, newer |-> read.newer] \in Ack
    BY <1>2 DEF Read, Ack
  <2> QED BY <1>2, <2>1 DEF CommitFile, PollerTyped, QueueTyped, OrNothing
<1>5. PICK moved \in SUBSET File :
        run' = [run EXCEPT ![s] = [ahead |-> Tail(run[s].ahead), read |-> Nothing,
                                   moved |-> moved]]
  <2>1. run[s].moved \in SUBSET File /\ run[s].moved \union {f} \in SUBSET File
    BY <1>2 DEF Run
  <2> QED BY <2>1 DEF CommitFile
<1>6. [ahead |-> Tail(run[s].ahead), read |-> Nothing, moved |-> moved] \in Run
  BY <1>2 DEF Run, OrNothing
<1>7. UNCHANGED <<disk, writes, row, memory, pass>>
  BY DEF CommitFile
<1> HIDE DEF f, read
<1> QED BY <1>1, <1>3, <1>4, <1>5, <1>6, <1>7, RunTyped

\* A job that ends, and whose row stays the session's.
LEMMA SettledTyped ==
  ASSUME PollerTyped, NEW s \in Session, NEW state, row[s].state = "running", Settled(s, state),
         state \in {"pending", "done", "failed", "hopeless"},
         UNCHANGED <<disk, writes, offsets, ack, memory, pass>>
  PROVE  PollerTyped'
<1>1. DiskTyped'
  BY DEF PollerTyped, DiskTyped
<1>2. row[s] \in Job /\ row[s].id # 0 /\ [row[s] EXCEPT !.state = state] \in Job
  BY DEF PollerTyped, QueueTyped, Job
<1>3. row' = [row EXCEPT ![s] = [row[s] EXCEPT !.state = state]] /\ run' = [run EXCEPT ![s] = NoRun]
  BY DEF Settled
<1>4. NoRun \in Run /\ NoRun.read = Nothing
  BY DEF NoRun, Run, OrNothing
<1>5. QueueTyped'
  <2>1. row' \in [Session -> Job] /\ run' \in [Session -> Run]
    BY <1>2, <1>3, <1>4 DEF PollerTyped, QueueTyped
  <2>2. row'[s].id = row[s].id /\ run'[s] = NoRun
    BY <1>2, <1>3 DEF PollerTyped, QueueTyped, Job
  <2>3. ASSUME NEW t \in Session, t # s PROVE row'[t] = row[t] /\ run'[t] = run[t]
    BY <1>3, <2>3 DEF PollerTyped, QueueTyped
  <2> QED BY <1>2, <1>4, <2>1, <2>2, <2>3 DEF PollerTyped, QueueTyped
<1>6. \A t \in Session : row[t].id <= row'[t].id
  BY <1>3, PollerAssumption DEF PollerTyped, QueueTyped, Job
<1> QED BY <1>1, <1>5, <1>6, RestTyped DEF PollerTyped

LEMMA JobTyped ==
  ASSUME PollerTyped, NEW s \in Session, JobStep(s) \/ RetryJob(s) \/ FailJob(s)
  PROVE  PollerTyped'
<1>1. CASE Finish(s)
  BY <1>1, SettledTyped DEF Finish
<1>2. CASE RetryJob(s)
  BY <1>2, SettledTyped DEF RetryJob
<1>3. CASE FailJob(s)
  BY <1>3, SettledTyped DEF FailJob
<1> QED BY <1>1, <1>2, <1>3, ClaimTyped, ReadTyped, CommitTyped DEF JobStep

LEMMA IdleTyped == ASSUME pass' = Idle PROVE PassTyped'
BY DEF PassTyped, Idle, PassKind

LEMMA RestartTyped == ASSUME PollerTyped, Restart PROVE PollerTyped'
<1>1. DiskTyped' /\ PassTyped'
  BY IdleTyped DEF PollerTyped, DiskTyped, Restart
<1>2. MemoryTyped'
  BY DEF Restart, MemoryTyped, Submitted, Blank, OrNothing
<1>3. QueueTyped'
  <2>1. NoRun \in Run /\ NoRun.read = Nothing
    BY DEF NoRun, Run, OrNothing
  <2>2. ASSUME NEW s \in Session
        PROVE  row'[s] \in Job /\ (row'[s].state # "done" => row'[s].id # 0)
    <3>1. row[s] \in Job /\ (row[s].state # "done" => row[s].id # 0)
      BY DEF PollerTyped, QueueTyped
    <3>2. row'[s] = IF row[s].state = "running" THEN [row[s] EXCEPT !.state = "pending"] ELSE row[s]
      BY DEF Restart
    <3> QED BY <3>1, <3>2 DEF Job
  <2>3. row' \in [Session -> Job] /\ run' \in [Session -> Run]
    BY <2>1, <2>2 DEF Restart
  <2>4. offsets' \in [File -> OrNothing(Offset)] /\ ack' \in [File -> OrNothing(Ack)]
    BY DEF Restart, PollerTyped, QueueTyped, Blank, OrNothing
  <2> QED BY <2>1, <2>2, <2>3, <2>4 DEF Restart, QueueTyped
<1> QED BY <1>1, <1>2, <1>3 DEF PollerTyped

\* A pass step that leaves the files, the queue and the jobs alone.
LEMMA PassFrame ==
  ASSUME PollerTyped, UNCHANGED <<disk, writes, queue>>, MemoryTyped', PassTyped'
  PROVE  PollerTyped'
BY DEF PollerTyped, DiskTyped, QueueTyped, queue

LEMMA DiscoverTyped == ASSUME PollerTyped, Discover PROVE PollerTyped'
<1>1. StillUnreadable \in [File -> OrNothing(Nat)]
  BY DEF StillUnreadable, PollerTyped, MemoryTyped, OrNothing
<1>2. MemoryTyped'
  BY <1>1 DEF Discover, PollerTyped, MemoryTyped, Submitted, queue
<1>3. DOMAIN FreshlySeen \subseteq File
  BY DEF FreshlySeen, Listed
<1>4. PassTyped'
  <2>1. /\ DOMAIN pass' = DOMAIN Idle /\ pass'.at = "acks" /\ pass'.disk = disk
        /\ pass'.seen = FreshlySeen
    BY DEF Discover, Idle
  <2> QED BY <1>3, <2>1 DEF PassTyped, PassKind, PollerTyped, DiskTyped
<1> QED BY <1>2, <1>4, PassFrame DEF Discover

LEMMA LoadTyped == ASSUME PollerTyped, LoadAcks \/ LoadOutcomes PROVE PollerTyped'
<1>1. MemoryTyped'
  BY DEF LoadAcks, LoadOutcomes, PollerTyped, MemoryTyped, Submitted, memory, queue
<1>2. CASE LoadAcks
  <2>1. /\ DOMAIN pass' = DOMAIN Idle /\ pass'.at = "outcomes" /\ pass'.disk = pass.disk
        /\ pass'.seen = pass.seen /\ pass'.acks = ack /\ pass.at = "acks"
    BY <1>2 DEF LoadAcks, Idle, PollerTyped, PassTyped
  <2>2. PassTyped'
    BY <2>1 DEF PassTyped, PassKind, PollerTyped, QueueTyped
  <2> QED BY <1>1, <1>2, <2>2, PassFrame DEF LoadAcks
<1>3. CASE LoadOutcomes
  <2>1. /\ DOMAIN pass' = DOMAIN Idle /\ pass'.at = "cursors" /\ pass'.disk = pass.disk
        /\ pass'.seen = pass.seen /\ pass'.acks = pass.acks /\ pass.at = "outcomes"
    BY <1>3 DEF LoadOutcomes, Idle, PollerTyped, PassTyped
  <2>2. PassTyped'
    BY <2>1 DEF PassTyped, PassKind, PollerTyped
  <2> QED BY <1>1, <1>3, <2>2, PassFrame DEF LoadOutcomes
<1> QED BY <1>2, <1>3

LEMMA CountedTyped ==
  ASSUME NEW e \in Entry, NEW outcome
  PROVE  Counted(e, outcome) \in Entry /\ Counted(e, outcome).job = e.job
<1>1. e.tries \in 0..StallPasses /\ e.job \in Nat /\ StallPasses \in Nat
  BY PollerAssumption DEF Entry
<1>2. e.tries < StallPasses => e.tries + 1 \in 0..StallPasses
  BY <1>1
<1>3. PICK Cursor : Cursor = OrNothing(Offset)
  OBVIOUS
<1>4. e.tries + 1 \in 0..StallPasses =>
        [e EXCEPT !.tries = @ + 1, !.last = e.job] \in Entry
  BY <1>1, <1>3 DEF Entry
<1>5. [e EXCEPT !.tries = @ + 1, !.last = e.job].job = e.job
  BY DEF Entry
<1> QED BY <1>2, <1>4, <1>5 DEF Counted

LEMMA WeighTyped == ASSUME PollerTyped, Weigh PROVE PollerTyped'
<1>1. FailedSince \in [File -> OrNothing(Nat)]
  <2>1. ASSUME NEW f \in File, Unmoved(f) PROVE lag[f].stamp \in Nat
    BY <2>1 DEF Unmoved, PollerTyped, MemoryTyped, Submitted, OrNothing, Entry
  <2> QED BY <2>1 DEF FailedSince, PollerTyped, MemoryTyped, OrNothing
<1>2. MemoryTyped'
  BY <1>1 DEF Weigh, PollerTyped, MemoryTyped, Submitted, queue
<1>3. /\ Lagging \in [File -> OrNothing(Entry)]
      /\ \A f \in File : Lagging[f] # Nothing => Lagging[f].job \in 1..row[f[1]].id
  <2>1. ASSUME NEW f \in File
        PROVE  \/ Lagging[f] = Nothing
               \/ Lagging[f] \in Entry /\ Lagging[f].job \in 1..row[f[1]].id
    <3>1. Lagging[f] = IF f \in Looked /\ Unmoved(f) /\ pass.outcomes[f] # "failed"
                       THEN Counted(lag[f], pass.outcomes[f]) ELSE Nothing
      BY DEF Lagging
    <3>2. Unmoved(f) => lag[f] \in Entry /\ lag[f].job \in 1..row[f[1]].id
      BY DEF Unmoved, PollerTyped, MemoryTyped, Submitted, OrNothing
    <3> QED BY <3>1, <3>2, CountedTyped
  <2>2. Lagging = [f \in File |-> Lagging[f]]
    BY DEF Lagging
  <2> QED BY <2>1, <2>2 DEF OrNothing
<1>4. DOMAIN SeenRead \subseteq File
  BY DEF SeenRead, Weigh, PollerTyped, PassTyped
<1>5. Wanted \subseteq Listed(pass.disk)
  BY DEF Wanted, Looked
<1>6. PassTyped'
  <2>1. /\ DOMAIN pass' = DOMAIN Idle /\ pass'.at = "select" /\ pass'.disk = pass.disk
        /\ pass'.seen = SeenRead /\ pass'.cursors = offsets /\ pass'.lag = Lagging
        /\ pass'.wanted = Wanted /\ pass.at = "cursors"
    BY DEF Weigh, Idle, PollerTyped, PassTyped
  <2>2. Submitted(pass.lag)' /\ Listed(pass.disk)' = Listed(pass.disk)
    BY <1>3, <2>1 DEF Submitted, Weigh, queue, Listed, There
  <2> QED BY <1>4, <1>5, <2>1, <2>2 DEF PassTyped, PassKind, PollerTyped, QueueTyped
<1> QED BY <1>2, <1>6, PassFrame DEF Weigh

-----------------------------------------------------------------------------
(* What a pass selects.                                                    *)

LEMMA LesserIs ==
  ASSUME NEW m \in Nat, NEW n \in Nat
  PROVE  Lesser(m, n) \in Nat /\ Lesser(m, n) <= m /\ Lesser(m, n) <= n
         /\ (Lesser(m, n) = m \/ Lesser(m, n) = n)
BY DEF Lesser

\* A finite set of numbers has a greatest.
LEMMA GreatestMember ==
  ASSUME NEW S, IsFiniteSet(S), S \subseteq Nat, S # {}
  PROVE  \E n \in S : \A m \in S : m <= n
<1> DEFINE R == {mn \in S \X S : mn[1] < mn[2]}
<1>1. \A m, n \in S : <<m, n>> \in R <=> m < n
  OBVIOUS
<1>2. Orders(S, R)
  <2> HIDE DEF R
  <2> QED BY <1>1 DEF Orders
<1>3. PICK q, c : q = InOrder(S, R) /\ c = Cardinality(S)
  OBVIOUS
<1> HIDE DEF R
<1>4. /\ c \in Nat /\ q \in [1..c -> S]
      /\ \A i, j \in 1..c : i < j => <<q[i], q[j]>> \in R
      /\ \A m \in S : \E i \in 1..c : q[i] = m
  <2>1. /\ Cardinality(S) \in Nat /\ InOrder(S, R) \in [1..Cardinality(S) -> S]
        /\ \A i, j \in 1..Cardinality(S) : i < j => <<InOrder(S, R)[i], InOrder(S, R)[j]>> \in R
        /\ \A x \in S : \E i \in 1..Cardinality(S) : InOrder(S, R)[i] = x
    BY <1>2, InOrderIs
  <2> QED BY ONLY <1>3, <2>1
<1>5. c \in 1..c
  <2>1. PICK m \in S : TRUE
    OBVIOUS
  <2>2. PICK i \in 1..c : q[i] = m
    BY <1>4, <2>1
  <2> QED BY <1>4, <2>2
<1>6. ASSUME NEW m \in S PROVE m <= q[c]
  <2>1. PICK i \in 1..c : q[i] = m
    BY <1>4
  <2>2. i = c \/ i < c
    BY <1>4
  <2>3. q[i] \in S /\ q[c] \in S
    BY <1>4, <1>5
  <2>4. i < c => q[i] < q[c]
    BY <1>1, <1>4, <1>5, <2>3
  <2>5. m \in Nat /\ q[c] \in Nat
    BY <2>3
  <2> QED BY <2>1, <2>2, <2>4, <2>5
<1> QED BY <1>4, <1>5, <1>6

LEMMA NewestIs ==
  ASSUME PollerTyped, pass.at = "select", NEW s \in Candidates
  PROVE  s \in Session /\ Newest(s) \in Nat
<1> DEFINE files == FilesOf(pass.disk, s)
           revs == {pass.disk[f].rev : f \in files}
<1>1. PICK f \in pass.wanted : s = f[1]
  BY DEF Candidates
<1>2. f \in files /\ files \subseteq File /\ pass.disk \in [File -> Disk]
  BY <1>1 DEF FilesOf, Listed, PollerTyped, PassTyped
<1>3. revs \subseteq Nat /\ revs # {}
  BY <1>2 DEF Disk
<1>4. IsFiniteSet(revs)
  <2>1. IsFiniteSet(files)
    BY <1>2, PollerAssumption, FS_Subset
  <2>2. PICK rev : rev = [g \in files |-> pass.disk[g].rev]
    OBVIOUS
  <2>3. rev \in Surjection(files, revs)
    BY <2>2 DEF Surjection
  <2> HIDE DEF files, revs
  <2> QED BY <2>1, <2>3, FS_Surjection
<1>5. \E n \in revs : \A m \in revs : m <= n
  <2> HIDE DEF revs
  <2> QED BY <1>3, <1>4, GreatestMember
<1>6. Newest(s) \in revs
  <2> HIDE DEF revs
  <2>1. (CHOOSE n \in revs : \A m \in revs : m <= n) \in revs
    BY <1>5
  <2> QED BY <2>1 DEF Newest, revs, files
<1>7. s \in Session
  BY <1>1, <1>2, SessionIs DEF FilesOf, Listed
<1> QED BY <1>3, <1>6, <1>7

\* The three things a session is ordered by are a strict order of the live.
LEMMA PrioritizedIs ==
  ASSUME PollerTyped, pass.at = "select"
  PROVE  /\ Prioritized \in Seq(Session)
         /\ \A i \in 1..Len(Prioritized) : Prioritized[i] \in Candidates \ Backlog
         /\ \A i, j \in 1..Len(Prioritized) : Prioritized[i] = Prioritized[j] => i = j
<1> DEFINE live == Candidates \ Backlog
           R == {st \in live \X live : Sooner(st[1], st[2])}
<1>1. live \subseteq Session /\ \A s \in live : s \in Nat /\ Newest(s) \in Nat
  BY NewestIs, SessionIs
<1>2. \A s \in live : Tier(s) \in 1..3
  BY DEF Tier
<1>3. \A s, t \in live : <<s, t>> \in R <=> Sooner(s, t)
  OBVIOUS
<1>4. IsFiniteSet(live)
  BY <1>1, SessionIs, FS_Subset
<1>5. Orders(live, R)
  <2> HIDE DEF live, R
  <2>1. \A s \in live : ~ Sooner(s, s)
    BY <1>1, <1>2 DEF Sooner
  <2>2. \A s, t \in live : s # t => Sooner(s, t) \/ Sooner(t, s)
    BY <1>1, <1>2 DEF Sooner
  <2>3. \A s, t, u \in live : Sooner(s, t) /\ Sooner(t, u) => Sooner(s, u)
    BY <1>1, <1>2 DEF Sooner
  <2> QED BY <1>3, <2>1, <2>2, <2>3 DEF Orders
<1>6. Prioritized = InOrder(live, R)
  BY DEF Prioritized
<1>7. PICK q, c : q = InOrder(live, R) /\ c = Cardinality(live)
  OBVIOUS
<1>8. /\ c \in Nat /\ q \in [1..c -> live] /\ q \in Seq(live) /\ Len(q) = c
      /\ \A i, j \in 1..c : i < j => <<q[i], q[j]>> \in R
  <2> HIDE DEF live, R
  <2> QED BY <1>4, <1>5, <1>7, InOrderIs
<1>9. ASSUME NEW i \in 1..c, NEW j \in 1..c, q[i] = q[j] PROVE i = j
  <2>1. i < j \/ j < i => <<q[i], q[i]>> \in R /\ q[i] \in live
    BY <1>8, <1>9
  <2> HIDE DEF live, R
  <2> QED BY <1>5, <1>8, <2>1 DEF Orders
<1>10. \A i \in 1..c : q[i] \in live
  BY <1>8
<1>11. q \in Seq(Session)
  <2> HIDE DEF live, R
  <2> QED BY <1>1, <1>8
<1> QED BY <1>6, <1>7, <1>8, <1>9, <1>10, <1>11

\* The backlog in the order of the rotation.
LEMMA RotatedIs ==
  ASSUME PollerTyped, pass.at = "select"
  PROVE  /\ Backlog \subseteq Session /\ Rotated \in Seq(Session)
         /\ \A s \in Backlog : \E i \in 1..Len(Rotated) : Rotated[i] = s
         /\ \A i \in 1..Len(Rotated) : Rotated[i] \in Backlog
         /\ \A i, j \in 1..Len(Rotated) : i < j => Precedes(after, Rotated[i], Rotated[j])
<1> DEFINE R == {st \in Backlog \X Backlog : Precedes(after, st[1], st[2])}
<1>1. Backlog \subseteq Session
  BY NewestIs DEF Backlog
<1>2. after \in Nat
  BY SessionIs DEF PollerTyped, MemoryTyped
<1>3. \A s, t \in Backlog : <<s, t>> \in R <=> <<s, t>> \in Rotation(after)
  BY <1>1 DEF Rotation
<1>4. Orders(Backlog, R)
  <2> HIDE DEF R
  <2> QED BY <1>1, <1>2, <1>3, RotationOrders DEF Orders
<1>5. \A s, t \in Backlog : <<s, t>> \in R => Precedes(after, s, t)
  OBVIOUS
<1>6. IsFiniteSet(Backlog)
  BY <1>1, SessionIs, FS_Subset
<1>7. Rotated = InOrder(Backlog, R)
  BY DEF Rotated
<1> HIDE DEF R
<1>8. PICK q, c : q = InOrder(Backlog, R) /\ c = Cardinality(Backlog)
  OBVIOUS
<1>9. /\ c \in Nat /\ q \in [1..c -> Backlog] /\ q \in Seq(Backlog) /\ Len(q) = c
      /\ \A i, j \in 1..c : i < j => <<q[i], q[j]>> \in R
      /\ \A s \in Backlog : \E i \in 1..c : q[i] = s
  <2>1. /\ Cardinality(Backlog) \in Nat /\ InOrder(Backlog, R) \in [1..Cardinality(Backlog) -> Backlog]
        /\ InOrder(Backlog, R) \in Seq(Backlog) /\ Len(InOrder(Backlog, R)) = Cardinality(Backlog)
        /\ \A i, j \in 1..Cardinality(Backlog) :
             i < j => <<InOrder(Backlog, R)[i], InOrder(Backlog, R)[j]>> \in R
        /\ \A s \in Backlog : \E i \in 1..Cardinality(Backlog) : InOrder(Backlog, R)[i] = s
    BY <1>4, <1>6, InOrderIs
  <2> QED BY ONLY <1>8, <2>1
<1>10. q = Rotated
  BY <1>7, <1>8
<1>11. \A i \in 1..c : q[i] \in Backlog
  BY <1>9
<1>12. q \in Seq(Session)
  BY <1>1, <1>9
<1>13. \A i, j \in 1..c : i < j => Precedes(after, q[i], q[j])
  BY <1>5, <1>9, <1>11
<1> QED BY <1>1, <1>9, <1>10, <1>11, <1>12, <1>13

\* The turns of a pass are the first of the rotation, behind as many live ones
\* as have a slot, and while there is a backlog there is a turn.
LEMMA Selected ==
  ASSUME PollerTyped, Select
  PROVE  /\ pass'.todo \in Seq(Session) /\ pass'.first \in Nat
         /\ pass'.waiting = Backlog \ Range(pass'.todo)
         /\ pass'.first <= Len(pass'.todo) /\ Len(pass'.todo) <= pass'.first + Len(Rotated)
         /\ Backlog # {} => pass'.first < Len(pass'.todo)
         /\ \A i \in 1..Len(pass'.todo) : i > pass'.first => pass'.todo[i] = Rotated[i - pass'.first]
         /\ pass'.first <= Len(Prioritized)
         /\ \A i \in 1..pass'.first : pass'.todo[i] = Prioritized[i]
<1> DEFINE live == LiveSlots
           head == UpTo(Prioritized, live)
           all == head \o Rotated
           todo == UpTo(all, Cap)
<1>1. pass.at = "select" /\ Prioritized \in Seq(Session) /\ Rotated \in Seq(Session)
  BY PrioritizedIs, RotatedIs DEF Select
<1>2. PICK p \in Nat, r \in Nat : p = Len(Prioritized) /\ r = Len(Rotated)
  BY <1>1, LenProperties
<1>3. Cap \in Nat /\ Cap - 1 \in Nat
  BY PollerAssumption
<1>4. live \in Nat /\ live <= p /\ live <= Cap /\ (Backlog # {} => live < Cap)
  <2>1. PICK c \in Nat : c = IF Backlog = {} THEN Cap ELSE Cap - 1
    BY <1>3
  <2>2. live = Lesser(p, c)
    BY <1>2, <2>1 DEF LiveSlots
  <2>3. Lesser(p, c) \in Nat /\ Lesser(p, c) <= p /\ Lesser(p, c) <= c
    BY LesserIs
  <2> QED BY <1>3, <2>1, <2>2, <2>3
<1>5. /\ head \in Seq(Session) /\ Len(head) = live
      /\ \A i \in 1..live : head[i] = Prioritized[i]
  <2> HIDE DEF live
  <2>1. Lesser(p, live) = live
    BY <1>4 DEF Lesser
  <2>2. head = SubSeq(Prioritized, 1, live)
    BY <1>2, <2>1 DEF UpTo
  <2>3. 1 \in 1..(p + 1) /\ live \in 0..p
    BY <1>2, <1>4
  <2> HIDE DEF head
  <2> QED BY <1>1, <1>2, <1>4, <2>2, <2>3, SubSeqProperties
<1>6. /\ all \in Seq(Session) /\ Len(all) = live + r
      /\ \A i \in 1..(live + r) : i > live => all[i] = Rotated[i - live]
      /\ \A i \in 1..live : all[i] = Prioritized[i]
  <2> HIDE DEF live, head
  <2>1. /\ all \in Seq(Session) /\ Len(all) = Len(head) + Len(Rotated)
        /\ \A i \in 1..(Len(head) + Len(Rotated)) :
             all[i] = IF i <= Len(head) THEN head[i] ELSE Rotated[i - Len(head)]
    BY <1>1, <1>5, ConcatProperties
  <2> HIDE DEF all
  <2> QED BY <1>2, <1>4, <1>5, <2>1
<1>7. PICK n \in Nat : n = Lesser(live + r, Cap)
  <2> HIDE DEF live
  <2> QED BY <1>2, <1>3, <1>4 DEF Lesser
<1>8. live <= n /\ n <= live + r /\ (live < Cap /\ r > 0 => live < n)
  <2> HIDE DEF live
  <2> QED BY <1>2, <1>3, <1>4, <1>7 DEF Lesser
<1>9. /\ todo \in Seq(Session) /\ Len(todo) = n
      /\ \A i \in 1..n : todo[i] = all[i]
  <2> HIDE DEF live, all
  <2>1. todo = SubSeq(all, 1, n)
    BY <1>6, <1>7 DEF UpTo
  <2>2. 1 \in 1..(live + r + 1) /\ n \in 0..(live + r)
    BY <1>2, <1>4, <1>8
  <2> HIDE DEF todo
  <2> QED BY <1>2, <1>4, <1>6, <1>7, <2>1, <2>2, SubSeqProperties
<1>10. Backlog # {} => r > 0
  BY <1>1, <1>2, RotatedIs
<1>11. /\ pass'.todo = todo /\ pass'.first = live
       /\ pass'.waiting = Backlog \ Range(todo)
  <2> HIDE DEF live, todo
  <2>1. DOMAIN pass = DOMAIN Idle
    BY DEF PollerTyped, PassTyped
  <2> QED BY <2>1 DEF Select, Idle, live, todo, all, head
<1> HIDE DEF live, todo, all, head
<1> QED BY <1>2, <1>4, <1>6, <1>8, <1>9, <1>10, <1>11

-----------------------------------------------------------------------------
(* The rest of a pass keeps the types.                                     *)

LEMMA SelectTyped == ASSUME PollerTyped, Select PROVE PollerTyped'
<1>1. MemoryTyped'
  BY DEF Select, PollerTyped, MemoryTyped, Submitted, memory, queue
<1>2. /\ DOMAIN pass' = DOMAIN Idle /\ pass'.at = "submit" /\ pass'.disk = pass.disk
      /\ pass'.seen = pass.seen /\ pass'.cursors = pass.cursors /\ pass'.lag = pass.lag
      /\ pass'.wanted = pass.wanted /\ pass.at = "select"
  BY DEF Select, Idle, PollerTyped, PassTyped
<1>3. Submitted(pass.lag)' /\ Listed(pass.disk)' = Listed(pass.disk)
  BY <1>2 DEF Submitted, Select, queue, Listed, There, PollerTyped, PassTyped
<1>4. /\ pass'.todo \in Seq(Session) /\ pass'.first \in Nat
      /\ pass'.waiting = Backlog \ Range(pass'.todo) /\ Backlog \subseteq Session
  BY <1>2, Selected, RotatedIs
<1>5. PassTyped'
  BY <1>2, <1>3, <1>4 DEF PassTyped, PassKind, PollerTyped
<1> QED BY <1>1, <1>5, PassFrame DEF Select

\* The session a pass is at.
LEMMA AtSession ==
  ASSUME PollerTyped, pass.at = "submit", pass.todo # <<>>
  PROVE  /\ Head(pass.todo) \in Session /\ Tail(pass.todo) \in Seq(Session)
         /\ Main(Head(pass.todo)) \in File
         /\ Probed(Head(pass.todo)) \in {Nothing, Found} \union Nat
         /\ pass.first \in Nat
<1>1. /\ Head(pass.todo) \in Session /\ Tail(pass.todo) \in Seq(Session) /\ pass.first \in Nat
      /\ pass.disk \in [File -> Disk]
  BY HeadTailProperties DEF PollerTyped, PassTyped
<1>2. Main(Head(pass.todo)) \in File
  BY <1>1, PollerAssumption
<1>3. pass.disk[Main(Head(pass.todo))].rev \in Nat
  BY <1>1, <1>2 DEF Disk
<1> QED BY <1>1, <1>2, <1>3 DEF Probed

LEMMA HadItsTurnIs ==
  ASSUME NEW s, DOMAIN pass.seen \subseteq File PROVE DOMAIN HadItsTurn(s) \subseteq File
BY DEF HadItsTurn

LEMMA MoveOnIs ==
  ASSUME PollerTyped, pass.at = "submit", NEW s
  PROVE  /\ DOMAIN MoveOn(s) = DOMAIN Idle
         /\ MoveOn(s).at = "submit" /\ MoveOn(s).disk = pass.disk
         /\ MoveOn(s).cursors = pass.cursors /\ MoveOn(s).lag = pass.lag
         /\ MoveOn(s).wanted = pass.wanted /\ MoveOn(s).waiting = pass.waiting
         /\ MoveOn(s).sent = pass.sent
         /\ MoveOn(s).todo = Tail(pass.todo) /\ MoveOn(s).seen = HadItsTurn(s)
         /\ MoveOn(s).first = IF pass.first = 0 THEN 0 ELSE pass.first - 1
<1>1. DOMAIN pass = DOMAIN Idle
  BY DEF PollerTyped, PassTyped
<1>2. PICK seen : seen = HadItsTurn(s)
  OBVIOUS
<1>3. MoveOn(s) = [pass EXCEPT !.todo = Tail(@), !.first = IF @ = 0 THEN 0 ELSE @ - 1,
                               !.seen = seen]
  BY <1>2 DEF MoveOn
<1> QED BY <1>1, <1>2, <1>3 DEF Idle

LEMMA SkipTyped == ASSUME PollerTyped, SkipFolderless PROVE PollerTyped'
<1> DEFINE s == Head(pass.todo)
<1>1. /\ pass.at = "submit" /\ pass.todo # <<>> /\ pass' = MoveOn(s)
      /\ folders' = [folders EXCEPT ![s] = Probed(s)]
      /\ after' = IF pass.first = 0 THEN s ELSE after
      /\ UNCHANGED <<disk, writes, queue, observed, lag, unreadable, stalled>>
  BY DEF SkipFolderless, Turn
<1>2. s \in Session /\ Tail(pass.todo) \in Seq(Session) /\ pass.first \in Nat
      /\ Probed(s) \in {Nothing, Found} \union Nat
  BY <1>1, AtSession
<1> HIDE DEF s
<1>3. MemoryTyped'
  <2>1. Submitted(lag)'
    BY <1>1 DEF PollerTyped, MemoryTyped, Submitted, queue
  <2> QED BY <1>1, <1>2, <2>1 DEF PollerTyped, MemoryTyped
<1>4. PassTyped'
  <2>1. Submitted(pass.lag)' /\ Listed(pass.disk)' = Listed(pass.disk)
    BY <1>1, MoveOnIs DEF PollerTyped, PassTyped, Submitted, queue, Listed, There
  <2>2. DOMAIN pass'.seen \subseteq File
    BY <1>1, MoveOnIs, HadItsTurnIs DEF PollerTyped, PassTyped
  <2>3. pass'.first \in Nat
    BY <1>1, <1>2, MoveOnIs
  <2> QED BY <1>1, <1>2, <2>1, <2>2, <2>3, MoveOnIs DEF PollerTyped, PassTyped, PassKind
<1> QED BY <1>1, <1>3, <1>4, PassFrame

LEMMA EnqueuedIs ==
  ASSUME NEW r \in Job, r.state # "done" => r.id # 0, Enqueued(r).id <= MaxIds
  PROVE  /\ Enqueued(r) \in Job /\ r.id <= Enqueued(r).id /\ Enqueued(r).id \in Nat \ {0}
         /\ r.state = "running" => Enqueued(r).state = "running"
         /\ Enqueued(r).state = "running" => r.state = "running"
<1>1. r.id \in Nat /\ r.dead \subseteq 1..MaxIds /\ MaxIds \in Nat
  BY PollerAssumption DEF Job
<1>2. CASE r.state \in {"done", "hopeless"}
  <2>1. /\ Enqueued(r).id = r.id + 1 /\ Enqueued(r).state = "pending"
        /\ Enqueued(r).dead = IF r.state = "hopeless" THEN r.dead \union {r.id} ELSE r.dead
        /\ Enqueued(r) = [id |-> Enqueued(r).id, state |-> Enqueued(r).state, dead |-> Enqueued(r).dead]
    BY <1>2 DEF Enqueued, NewRow
  <2>2. Enqueued(r).dead \subseteq 1..MaxIds /\ Enqueued(r).id \in 0..MaxIds
    BY <1>1, <1>2, <2>1
  <2>3. Enqueued(r) \in Job
    BY <2>1, <2>2 DEF Job
  <2> QED BY <1>1, <1>2, <2>1, <2>3
<1>3. CASE r.state \notin {"done", "hopeless"}
  <2>1. Enqueued(r) = [r EXCEPT !.state = IF @ = "failed" THEN "pending" ELSE @]
    BY <1>3 DEF Enqueued
  <2>2. Enqueued(r) \in Job
    BY <2>1 DEF Job
  <2> QED BY <1>1, <1>3, <2>1, <2>2 DEF Job
<1> QED BY <1>2, <1>3

LEMMA SubmitTyped == ASSUME PollerTyped, SubmitSession PROVE PollerTyped'
<1> DEFINE s == Head(pass.todo)
           wanted == {f \in pass.wanted : f[1] = s}
           new == Enqueued(row[s])
<1>1. pass.at = "submit" /\ pass.todo # <<>> /\ new.id <= MaxIds
  BY DEF SubmitSession
<1>2. s \in Session /\ Tail(pass.todo) \in Seq(Session) /\ pass.first \in Nat
  BY <1>1, AtSession
<1>3. row[s] \in Job /\ (row[s].state # "done" => row[s].id # 0)
  BY <1>2 DEF PollerTyped, QueueTyped
<1>4. /\ new \in Job /\ row[s].id <= new.id /\ new.id \in Nat \ {0}
      /\ row[s].state = "running" <=> new.state = "running"
  BY <1>1, <1>3, EnqueuedIs
<1>5. DiskTyped'
  BY DEF SubmitSession, PollerTyped, DiskTyped
<1>6. row' = [row EXCEPT ![s] = new] /\ offsets' = offsets
  BY DEF SubmitSession
<1>7. \A n \in 0..2 : Earlier(n) \in 0..2
  BY DEF Earlier
<1>8. ack' \in [File -> OrNothing(Ack)]
  <2>1. ASSUME NEW f \in File, ack[f] # Nothing PROVE [ack[f] EXCEPT !.newer = Earlier(@)] \in Ack
    BY <1>7, <2>1 DEF PollerTyped, QueueTyped, OrNothing, Ack
  <2>2. ack' = [f \in File |-> IF f \in wanted /\ ack[f] # Nothing
                               THEN [ack[f] EXCEPT !.newer = Earlier(@)] ELSE ack[f]]
    BY DEF SubmitSession
  <2> HIDE DEF wanted
  <2> QED BY <2>1, <2>2 DEF PollerTyped, QueueTyped, OrNothing
<1>9. /\ run' \in [Session -> Run]
      /\ \A t \in Session : /\ run[t].read = Nothing => run'[t] = run[t]
                            /\ run'[t].ahead = run[t].ahead
  <2>1. CASE run[s].read # Nothing
    <3>1. run[s] \in Run /\ run[s].read \in Read
      BY <1>2, <2>1 DEF PollerTyped, QueueTyped, Run, OrNothing
    <3>2. [run[s].read EXCEPT !.newer = Earlier(@)] \in Read
      BY <1>7, <3>1 DEF Read
    <3>3. PICK read : read = [run[s].read EXCEPT !.newer = Earlier(@)]
      OBVIOUS
    <3>4. [run[s] EXCEPT !.read = read] \in Run /\ [run[s] EXCEPT !.read = read].ahead = run[s].ahead
      BY <3>1, <3>2, <3>3 DEF Run, OrNothing
    <3>5. run' = run \/ run' = [run EXCEPT ![s] = [run[s] EXCEPT !.read = read]]
      BY <3>3 DEF SubmitSession
    <3> QED BY <1>2, <2>1, <3>4, <3>5 DEF PollerTyped, QueueTyped
  <2>2. CASE run[s].read = Nothing
    BY <2>2 DEF SubmitSession, PollerTyped, QueueTyped
  <2> QED BY <2>1, <2>2
<1>10. QueueTyped'
  <2>1. row' \in [Session -> Job]
    BY <1>4, <1>6 DEF PollerTyped, QueueTyped
  <2>2. ASSUME NEW t \in Session
        PROVE  /\ row'[t].state # "running" => run'[t] = NoRun
               /\ run'[t].read # Nothing => run'[t].ahead # <<>>
               /\ row'[t].state # "done" => row'[t].id # 0
    <3>1. t # s => row'[t] = row[t]
      BY <1>6 DEF PollerTyped, QueueTyped
    <3>2. t = s => row'[t] = new
      BY <1>6 DEF PollerTyped, QueueTyped
    <3>3. NoRun.read = Nothing
      BY DEF NoRun
    <3>4. row[t].state # "running" => run[t] = NoRun
      BY DEF PollerTyped, QueueTyped
    <3>5. run[t].read # Nothing => run[t].ahead # <<>>
      BY DEF PollerTyped, QueueTyped
    <3>6. row'[t].state # "running" => row[t].state # "running"
      BY <1>4, <3>1, <3>2
    <3>7. row'[t].state # "done" => row'[t].id # 0
      BY <1>4, <3>1, <3>2 DEF PollerTyped, QueueTyped
    <3> QED BY <1>9, <3>3, <3>4, <3>5, <3>6, <3>7
  <2> QED BY <1>6, <1>8, <1>9, <2>1, <2>2 DEF PollerTyped, QueueTyped
<1>11. \A t \in Session : row[t].id \in Nat /\ row'[t].id \in Nat /\ row[t].id <= row'[t].id
  BY <1>4, <1>6, PollerAssumption DEF PollerTyped, QueueTyped, Job
<1>12. MemoryTyped'
  <2>1. Submitted(lag)'
    <3>1. lag' = lag
      BY DEF SubmitSession
    <3>2. Submitted(lag)
      BY DEF PollerTyped, MemoryTyped
    <3>3. ASSUME NEW f \in File, lag[f] # Nothing PROVE lag[f].job \in 1..row'[f[1]].id
      <4>1. PICK n \in Nat, m \in Nat : n = row[f[1]].id /\ m = row'[f[1]].id /\ n <= m
        BY <1>11, SessionIs
      <4>2. lag[f].job \in 1..n
        BY <3>2, <3>3, <4>1 DEF Submitted
      <4> QED BY <4>1, <4>2
    <3> QED BY <3>1, <3>2, <3>3 DEF Submitted
  <2>2. after' = IF pass.first = 0 THEN s ELSE after
    BY DEF SubmitSession, Turn
  <2>3. /\ folders' = [folders EXCEPT ![s] = Found]
        /\ UNCHANGED <<observed, unreadable, stalled>>
    BY DEF SubmitSession
  <2> HIDE DEF s
  <2> QED BY <1>2, <2>1, <2>2, <2>3 DEF PollerTyped, MemoryTyped
<1>13. PassTyped'
  <2>1. PICK entries : entries = [f \in File |-> IF f \in wanted THEN Resubmitted(f, new.id)
                                                 ELSE pass.lag[f]]
    OBVIOUS
  <2>2. pass' = [MoveOn(s) EXCEPT !.lag = entries, !.sent = @ \union wanted]
    <3>1. MoveOn(s).lag = pass.lag
      BY <1>1, MoveOnIs
    <3> QED BY <2>1, <3>1 DEF SubmitSession
  <2>3. ASSUME NEW f \in File, f \in wanted
        PROVE  Resubmitted(f, new.id) \in Entry /\ Resubmitted(f, new.id).job = new.id
    <3>1. /\ pass.lag[f] # Nothing => pass.lag[f] \in Entry
          /\ pass.cursors[f] \in OrNothing(Offset) /\ pass.disk[f].rev \in Nat
      BY <1>1 DEF PollerTyped, PassTyped, Submitted, OrNothing, Disk
    <3>2. PICK Cursor : Cursor = OrNothing(Offset)
      OBVIOUS
    <3>3. 0 \in 0..StallPasses
      BY PollerAssumption
    <3> QED BY <1>4, <3>1, <3>2, <3>3 DEF Resubmitted, Entry
  <2>4. /\ entries \in [File -> OrNothing(Entry)]
        /\ \A f \in File : entries[f] # Nothing => entries[f].job \in 1..row'[f[1]].id
    <3>1. ASSUME NEW f \in File, entries[f] # Nothing
          PROVE  entries[f] \in Entry /\ entries[f].job \in 1..row'[f[1]].id
      <4>1. CASE f \in wanted
        <5>1. f[1] = s /\ row'[s].id = new.id
          BY <1>2, <1>6, <4>1 DEF PollerTyped, QueueTyped
        <5>2. entries[f].job = new.id /\ entries[f] \in Entry
          BY <2>1, <2>3, <4>1
        <5> QED BY <1>4, <5>1, <5>2
      <4>2. CASE f \notin wanted
        <5>1. entries[f] = pass.lag[f] /\ f[1] \in Session
          BY <2>1, <4>2, SessionIs
        <5>2. pass.lag[f] \in Entry /\ pass.lag[f].job \in 1..row[f[1]].id
          BY <1>1, <3>1, <5>1 DEF PollerTyped, PassTyped, Submitted, OrNothing
        <5> QED BY <1>11, <5>1, <5>2
      <4> QED BY <4>1, <4>2
    <3> QED BY <2>1, <3>1 DEF OrNothing
  <2>5. /\ DOMAIN pass' = DOMAIN Idle /\ pass'.at = "submit" /\ pass'.disk = pass.disk
        /\ pass'.seen = HadItsTurn(s) /\ pass'.cursors = pass.cursors /\ pass'.lag = entries
        /\ pass'.wanted = pass.wanted /\ pass'.waiting = pass.waiting
        /\ pass'.todo = Tail(pass.todo)
        /\ pass'.first = IF pass.first = 0 THEN 0 ELSE pass.first - 1
    <3> HIDE DEF s, wanted
    <3>1. PICK moved : moved = MoveOn(s)
      OBVIOUS
    <3> QED BY <1>1, <2>2, <3>1, MoveOnIs DEF Idle
  <2>6. DOMAIN pass'.seen \subseteq File /\ pass'.first \in Nat
    BY <1>1, <1>2, <2>5, HadItsTurnIs DEF PollerTyped, PassTyped
  <2>7. Submitted(pass.lag)' /\ Listed(pass.disk)' = Listed(pass.disk)
    BY <2>4, <2>5 DEF Submitted, Listed, There
  <2> HIDE DEF s, wanted, new
  <2> QED BY <1>1, <1>2, <2>5, <2>6, <2>7 DEF PollerTyped, PassTyped, PassKind
<1> QED BY <1>5, <1>10, <1>12, <1>13 DEF PollerTyped

LEMMA RecordTyped == ASSUME PollerTyped, RecordPass PROVE PollerTyped'
<1>1. DiskTyped' /\ PassTyped'
  BY IdleTyped DEF RecordPass, PollerTyped, DiskTyped
<1>2. MemoryTyped'
  <2>1. Submitted(lag)'
    BY DEF RecordPass, PollerTyped, PassTyped, Submitted
  <2>2. stalled' \in BOOLEAN
    BY DEF RecordPass
  <2>3. observed' = pass.seen /\ DOMAIN pass.seen \subseteq File
    BY DEF RecordPass, PollerTyped, PassTyped
  <2>4. UNCHANGED <<unreadable, folders, after>>
    BY DEF RecordPass
  <2> QED BY <2>1, <2>2, <2>3, <2>4 DEF PollerTyped, MemoryTyped
<1>3. \A n \in 0..2 : Retained(n) \in 0..2
  BY DEF Retained
<1>4. ack' \in [File -> OrNothing(Ack)]
  <2>1. ASSUME NEW f \in File, ack[f] # Nothing PROVE [ack[f] EXCEPT !.newer = Retained(@)] \in Ack
    BY <1>3, <2>1 DEF PollerTyped, QueueTyped, OrNothing, Ack
  <2>2. ack' = [f \in File |-> IF f \in pass.sent /\ ack[f] # Nothing
                               THEN [ack[f] EXCEPT !.newer = Retained(@)] ELSE ack[f]]
    BY DEF RecordPass
  <2> QED BY <2>1, <2>2 DEF PollerTyped, QueueTyped, OrNothing
<1>5. ASSUME NEW s \in Session
      PROVE  /\ run'[s] \in Run /\ run'[s].ahead = run[s].ahead
             /\ run[s].read = Nothing => run'[s] = run[s]
  <2>1. run'[s] = run[s] \/ (run[s].read # Nothing /\ run'[s] = [run[s] EXCEPT !.read.newer = Retained(@)])
    BY DEF RecordPass
  <2>2. run[s] \in Run
    BY DEF PollerTyped, QueueTyped
  <2>3. CASE run'[s] = run[s]
    BY <2>2, <2>3
  <2>4. CASE run[s].read # Nothing /\ run'[s] = [run[s] EXCEPT !.read.newer = Retained(@)]
    <3>1. run[s].read \in Read
      BY <2>2, <2>4 DEF Run, OrNothing
    <3>2. PICK read \in Read : read = [run[s].read EXCEPT !.newer = Retained(@)]
      BY <1>3, <3>1 DEF Read
    <3>3. [run[s] EXCEPT !.read = read] \in Run /\ [run[s] EXCEPT !.read = read].ahead = run[s].ahead
      BY <2>2, <3>2 DEF Run, OrNothing
    <3> QED BY <2>4, <3>2, <3>3
  <2> QED BY <2>1, <2>3, <2>4
<1>6. QueueTyped'
  <2>1. UNCHANGED <<offsets, row>>
    BY DEF RecordPass
  <2>2. run' = [s \in Session |-> run'[s]]
    BY DEF RecordPass
  <2>3. run' \in [Session -> Run]
    BY <1>5, <2>2
  <2>4. NoRun.read = Nothing
    BY DEF NoRun
  <2> QED BY <1>4, <1>5, <2>1, <2>3, <2>4 DEF PollerTyped, QueueTyped
<1> QED BY <1>1, <1>2, <1>6 DEF PollerTyped

LEMMA FailsTyped == ASSUME PollerTyped, PassFails PROVE PollerTyped'
<1>1. PassTyped'
  BY IdleTyped DEF PassFails
<1>2. after' \in Session \union {0}
  <2>1. CASE pass.at = "submit"
    <3>1. pass.todo # <<>>
      BY <2>1 DEF PassFails
    <3> QED BY <2>1, <3>1, AtSession DEF PassFails, Turn, PollerTyped, MemoryTyped
  <2>2. CASE pass.at # "submit"
    BY <2>2 DEF PassFails, PollerTyped, MemoryTyped
  <2> QED BY <2>1, <2>2
<1>3. UNCHANGED <<disk, writes, queue, observed, lag, unreadable, folders, stalled>>
  BY DEF PassFails
<1>4. Submitted(lag)'
  BY <1>3 DEF PollerTyped, MemoryTyped, Submitted, queue
<1>5. MemoryTyped'
  BY <1>2, <1>3, <1>4 DEF PollerTyped, MemoryTyped
<1> QED BY <1>1, <1>3, <1>5, PassFrame

LEMMA StutterTyped == ASSUME PollerTyped, UNCHANGED pvars PROVE PollerTyped'
<1>1. UNCHANGED <<disk, writes, queue, memory, pass>>
  BY DEF pvars
<1>2. QueueTyped'
  BY <1>1 DEF PollerTyped, QueueTyped, queue
<1>3. \A s \in Session : row[s].id <= row'[s].id
  BY <1>1, PollerAssumption DEF PollerTyped, QueueTyped, queue, Job
<1> QED BY <1>1, <1>2, <1>3, RestTyped DEF PollerTyped, DiskTyped

LEMMA NextTyped == ASSUME PollerTyped, [PollerNext]_pvars PROVE PollerTyped'
<1>1. CASE PassStep
  BY <1>1, DiscoverTyped, LoadTyped, WeighTyped, SelectTyped, SkipTyped, SubmitTyped, RecordTyped
     DEF PassStep
<1>2. CASE PassFails \/ Restart
  BY <1>2, FailsTyped, RestartTyped
<1>3. CASE \E f \in File : WriteLine(f) \/ WritePart(f) \/ Touch(f) \/ Replace(f)
  BY <1>3, HarnessTyped
<1>4. CASE \E s \in Session : JobStep(s) \/ RetryJob(s) \/ FailJob(s)
  BY <1>4, JobTyped
<1> QED BY <1>1, <1>2, <1>3, <1>4, StutterTyped DEF PollerNext

LEMMA TypedIs == PollerTyped => PollerTypeOK
<1> SUFFICES ASSUME PollerTyped PROVE PollerTypeOK
  OBVIOUS
<1>1. \A s \in Session : /\ run[s].read \in OrNothing(Read) /\ run[s].moved \subseteq File
                         /\ row[s].state # "running" => run[s] = NoRun
  BY DEF PollerTyped, QueueTyped, Run
<1> QED BY <1>1 DEF PollerTyped, DiskTyped, QueueTyped, MemoryTyped, Submitted, PollerTypeOK, Job

\* The poller's memory has the types its fields allow, and every entry it keeps
\* of a file it waits for names a job that was submitted (convo_poll.rs:379).
THEOREM PollerTypeCorrect == PollerSpec => []PollerTypeOK
<1>1. PollerInit => PollerTyped
  BY InitTyped
<1>2. PollerTyped /\ [PollerNext]_pvars => PollerTyped'
  BY NextTyped
<1> QED BY <1>1, <1>2, TypedIs, PTL DEF PollerSpec

-----------------------------------------------------------------------------
(* The rotation is fair.                                                   *)

LEMMA TypedFacts ==
  ASSUME PollerTyped
  PROVE  /\ after \in Nat /\ \A s \in Session : Ahead(after, s) \in Nat /\ Ahead(after, s) < Left
         /\ Left \in Nat
         /\ pass.at = "submit" => /\ pass.todo \in Seq(Session) /\ pass.first \in Nat
                                  /\ pass.waiting \subseteq Session
                                  /\ DOMAIN pass.todo = 1..Len(pass.todo)
                                  /\ Len(pass.todo) \in Nat
<1>1. after \in Nat
  BY SessionIs DEF PollerTyped, MemoryTyped
<1> QED BY <1>1, AheadIs, SessionIs DEF Left, PollerTyped, PassTyped

LEMMA InitFair == ASSUME PollerInit PROVE RotationFair
<1>1. \A s \in Session : passed[s] = 0 /\ Ahead(after, s) \in Nat /\ Ahead(after, s) < Left
  BY TypedFacts, InitTyped DEF PollerInit
<1>2. pass.at = "idle" /\ passed \in [Session -> Nat]
  BY DEF PollerInit, Idle
<1> QED BY <1>1, <1>2 DEF RotationFair, BetweenPasses

LEMMA FairFrame == ASSUME RotationFair, UNCHANGED <<pass, passed, after>> PROVE RotationFair'
BY DEF RotationFair, BetweenPasses, DuringSubmission, Due, Turns, Left, Ahead, InFront

\* Steps between two submissions.
LEMMA BetweenFair ==
  ASSUME RotationFair, pass.at # "submit", pass'.at # "submit", UNCHANGED <<passed, after>>
  PROVE  RotationFair'
BY DEF RotationFair, BetweenPasses, Left, Ahead, InFront

LEMMA SelectFair == ASSUME PollerTyped, RotationFair, Select PROVE RotationFair'
<1> DEFINE todo == pass'.todo
           first == pass'.first
<1>1. /\ todo \in Seq(Session) /\ first \in Nat /\ pass'.waiting = Backlog \ Range(todo)
      /\ first <= Len(todo) /\ Len(todo) <= first + Len(Rotated)
      /\ Backlog # {} => first < Len(todo)
      /\ \A i \in 1..Len(todo) : i > first => todo[i] = Rotated[i - first]
  BY Selected
<1>2. /\ pass.at = "select" /\ pass'.at = "submit" /\ UNCHANGED <<passed, after>>
  BY DEF Select, Idle, PollerTyped, PassTyped, ghosts, memory
<1>3. /\ Backlog \subseteq Session /\ Rotated \in Seq(Session)
      /\ \A s \in Backlog : \E i \in 1..Len(Rotated) : Rotated[i] = s
      /\ \A i, j \in 1..Len(Rotated) : i < j => Precedes(after, Rotated[i], Rotated[j])
  BY <1>2, RotatedIs
<1>4. PICK n \in Nat, r \in Nat : n = Len(todo) /\ r = Len(Rotated) /\ DOMAIN todo = 1..n
  BY <1>1, <1>3, LenProperties
<1>5. \A s \in Session : /\ passed[s] \in Nat /\ Ahead(after, s) \in Nat /\ Left \in Nat
                         /\ passed[s] + Ahead(after, s) < Left
  BY <1>2, TypedFacts DEF RotationFair, BetweenPasses
<1>6. Turns' = {i \in 1..n : i > first}
  BY <1>4 DEF Turns
<1>7. \A i \in Turns' : i \in 1..n /\ i - first \in 1..r /\ todo[i] = Rotated[i - first]
  BY <1>1, <1>4, <1>6
<1>8. \A s \in pass'.waiting : s \in Backlog /\ \A i \in 1..n : todo[i] # s
  <2>1. Range(todo) = {todo[i] : i \in DOMAIN todo}
    BY DEF Range
  <2> HIDE DEF todo
  <2> QED BY <1>1, <1>4, <2>1
<1> HIDE DEF todo, first
<1>9. \A s \in (Due' \union pass'.waiting) : s \in Session
  <2>1. Due' = {todo[i] : i \in Turns'}
    BY DEF Due, todo
  <2>2. \A i \in Turns' : todo[i] \in Session
    BY <1>1, <1>4, <1>7
  <2> QED BY <1>3, <1>8, <2>1, <2>2
<1>10. Turns' = {} => pass'.waiting = {}
  <2>1. SUFFICES ASSUME Turns' = {}, NEW s \in pass'.waiting PROVE FALSE
    OBVIOUS
  <2>2. first < n
    BY <1>1, <1>4, <1>8
  <2>3. n \in Turns'
    BY <1>1, <1>4, <1>6, <2>2
  <2> QED BY <2>1, <2>3
<1>11. \A i, j \in Turns' : i < j => Precedes(after, todo[i], todo[j])
  <2> SUFFICES ASSUME NEW i \in Turns', NEW j \in Turns', i < j
               PROVE  Precedes(after, todo[i], todo[j])
    OBVIOUS
  <2>1. /\ i - first \in 1..r /\ j - first \in 1..r /\ i - first < j - first
        /\ todo[i] = Rotated[i - first] /\ todo[j] = Rotated[j - first]
    BY <1>1, <1>7
  <2> QED BY <1>3, <1>4, <2>1
<1>12. \A i \in Turns' : \A s \in pass'.waiting : Precedes(after, todo[i], s)
  <2> SUFFICES ASSUME NEW i \in Turns', NEW s \in pass'.waiting
               PROVE  Precedes(after, todo[i], s)
    OBVIOUS
  <2>1. PICK m \in 1..r : Rotated[m] = s
    BY <1>3, <1>4, <1>8
  <2>2. ~ (m <= n - first)
    <3>1. SUFFICES ASSUME m <= n - first PROVE FALSE
      OBVIOUS
    <3>2. m + first \in 1..n /\ m + first > first /\ m + first - first = m
      BY <1>1, <1>4, <3>1
    <3>3. todo[m + first] = s
      BY <1>1, <1>4, <2>1, <3>2
    <3> QED BY <1>8, <3>2, <3>3
  <2>3. i - first \in 1..r /\ i - first < m /\ todo[i] = Rotated[i - first]
    BY <1>1, <1>4, <1>7, <2>2
  <2> QED BY <1>3, <1>4, <2>1, <2>3
<1>13. DuringSubmission'
  <2>1. Left' = Left /\ \A s : Ahead(after, s)' = Ahead(after, s)
    BY <1>2 DEF Left, Ahead, InFront
  <2>2. \A s \in Session : passed'[s] < Left' /\ passed'[s] + Ahead(after, s)' < Left'
    <3>1. ASSUME NEW p \in Nat, NEW a \in Nat, NEW c \in Nat, p + a < c PROVE p < c
      BY <3>1
    <3> QED BY <1>2, <1>5, <2>1, <3>1
  <2>3. \A s \in Due' \union pass'.waiting : passed'[s] + Ahead(after, s)' < Left'
    BY <1>9, <2>2
  <2> QED BY <1>2, <1>10, <1>11, <1>12, <2>2, <2>3 DEF DuringSubmission, todo
<1> QED BY <1>2, <1>13 DEF RotationFair

\* A turn taken: what is behind it, with the rotation where it moved to.
Behind == {i \in 1..Len(Tail(pass.todo)) : i > IF pass.first = 0 THEN 0 ELSE pass.first - 1}
Moved == IF pass.first = 0 THEN Head(pass.todo) ELSE after

LEMMA TurnTaken ==
  ASSUME PollerTyped, RotationFair, pass.at = "submit", pass.todo # <<>>
  PROVE  /\ Moved \in Nat
         /\ ToCome = {Tail(pass.todo)[i] : i \in Behind}
         /\ \A s \in ToCome \union pass.waiting :
              /\ s \in Session
              /\ passed[s] + Ahead(Moved, s) < Left
              /\ Behind = {} => passed[s] + 1 + Ahead(Moved, s) < Left
         /\ \A i, j \in Behind : i < j => Precedes(Moved, Tail(pass.todo)[i], Tail(pass.todo)[j])
         /\ \A i \in Behind : \A s \in pass.waiting : Precedes(Moved, Tail(pass.todo)[i], s)
<1> DEFINE rest == Tail(pass.todo)
           s0 == Head(pass.todo)
<1>1. PICK n \in Nat : n = Len(pass.todo) /\ n > 0
  BY TypedFacts
<1>2. /\ pass.todo \in [1..n -> Session] /\ pass.first \in Nat /\ s0 \in Session /\ s0 \in Nat
      /\ s0 = pass.todo[1] /\ pass.waiting \subseteq Session /\ after \in Nat
      /\ Turns = {i \in 1..n : i > pass.first}
  <2>1. /\ pass.todo \in Seq(Session) /\ pass.first \in Nat /\ pass.waiting \subseteq Session
        /\ DOMAIN pass.todo = 1..n /\ after \in Nat
    BY <1>1, TypedFacts
  <2>2. s0 \in Session /\ s0 \in Nat
    BY AtSession, SessionIs
  <2>3. pass.todo \in [1..n -> Session] /\ s0 = pass.todo[1]
    BY <1>1, <2>1
  <2> QED BY <2>1, <2>2, <2>3 DEF Turns
<1>3. Len(rest) = n - 1 /\ \A i \in 1..(n - 1) : rest[i] = pass.todo[i + 1]
  BY <1>1, TypedFacts, HeadTailProperties
<1> HIDE DEF rest, s0
<1>4. \A i \in Behind : i \in 1..(n - 1) /\ i + 1 \in Turns /\ rest[i] = pass.todo[i + 1]
  BY <1>1, <1>2, <1>3 DEF Behind, rest
<1>5. \A i \in 1..n : i > 1 /\ i > pass.first => i - 1 \in Behind /\ rest[i - 1] = pass.todo[i]
  <2> SUFFICES ASSUME NEW i \in 1..n, i > 1, i > pass.first
               PROVE  i - 1 \in Behind /\ rest[i - 1] = pass.todo[i]
    OBVIOUS
  <2>1. i - 1 \in 1..(n - 1) /\ i - 1 + 1 = i
    BY <1>1
  <2> QED BY <1>1, <1>2, <1>3, <2>1 DEF Behind, rest
<1>6. ToCome = {rest[i] : i \in Behind}
  <2>1. ToCome = {pass.todo[i] : i \in {j \in 1..n : j > 1 /\ j > pass.first}}
    BY <1>2 DEF ToCome
  <2>2. \A i \in Behind : i + 1 \in 1..n /\ i + 1 > 1 /\ i + 1 > pass.first
    BY <1>1, <1>2, <1>4
  <2> QED BY <1>4, <1>5, <2>1, <2>2
<1>7. \A s \in ToCome : s \in Session /\ s \in Due
  BY <1>2, <1>4, <1>6 DEF Due
<1>8. DuringSubmission
  BY DEF RotationFair
<1>9. \A s \in ToCome \union pass.waiting :
        /\ s \in Session /\ passed[s] \in Nat /\ Left \in Nat /\ Ahead(after, s) \in Nat
        /\ passed[s] + Ahead(after, s) < Left
  BY <1>2, <1>7, <1>8, TypedFacts DEF DuringSubmission, RotationFair
<1>10. CASE pass.first > 0
  <2>1. Moved = after
    BY <1>10 DEF Moved
  <2>2. Behind = {} => Turns = {}
    <3> SUFFICES ASSUME NEW i \in Turns PROVE Behind # {}
      OBVIOUS
    <3>1. i \in 1..n /\ i > 1 /\ i > pass.first
      BY <1>2, <1>10
    <3> QED BY <1>5, <3>1
  <2>3. Behind = {} => \A s \in ToCome \union pass.waiting : passed[s] + 1 + Ahead(after, s) < Left
    BY <1>6, <1>8, <2>2 DEF DuringSubmission
  <2>4. \A i, j \in Behind : i < j => Precedes(after, rest[i], rest[j])
    <3> SUFFICES ASSUME NEW i \in Behind, NEW j \in Behind, i < j
                 PROVE  Precedes(after, rest[i], rest[j])
      OBVIOUS
    <3>1. i + 1 < j + 1
      BY <1>1, <1>4
    <3> QED BY <1>4, <1>8, <3>1 DEF DuringSubmission
  <2>5. \A i \in Behind : \A s \in pass.waiting : Precedes(after, rest[i], s)
    BY <1>4, <1>8 DEF DuringSubmission
  <2> QED BY <1>2, <1>6, <1>9, <2>1, <2>3, <2>4, <2>5 DEF rest
<1>11. CASE pass.first = 0
  <2>1. Moved = s0
    BY <1>11 DEF Moved, s0
  <2>2. 1 \in Turns
    BY <1>1, <1>2, <1>11
  <2>3. \A i \in Behind : Precedes(after, s0, rest[i])
    <3> SUFFICES ASSUME NEW i \in Behind PROVE Precedes(after, s0, rest[i])
      OBVIOUS
    <3>1. 1 < i + 1
      BY <1>1, <1>4
    <3> QED BY <1>2, <1>4, <1>8, <2>2, <3>1 DEF DuringSubmission
  <2>4. \A s \in pass.waiting : Precedes(after, s0, s)
    BY <1>2, <1>8, <2>2 DEF DuringSubmission
  <2>5. \A s \in ToCome \union pass.waiting : Precedes(after, s0, s)
    BY <1>6, <2>3, <2>4
  <2>6. ASSUME NEW s \in ToCome \union pass.waiting
        PROVE  passed[s] + 1 + Ahead(s0, s) < Left /\ passed[s] + Ahead(s0, s) < Left
    <3>1. Ahead(s0, s) < Ahead(after, s) /\ Ahead(s0, s) \in Nat
      BY <1>2, <1>9, <2>5, Shift, AheadIs
    <3> QED BY <1>9, <3>1
  <2>7. \A t \in Session, s \in ToCome \union pass.waiting :
          Precedes(after, s0, t) /\ Precedes(after, t, s) => Precedes(s0, t, s)
    BY <1>2, <1>9, <2>5, Shift
  <2>8. \A i, j \in Behind : i < j => Precedes(s0, rest[i], rest[j])
    <3> SUFFICES ASSUME NEW i \in Behind, NEW j \in Behind, i < j
                 PROVE  Precedes(s0, rest[i], rest[j])
      OBVIOUS
    <3>1. i + 1 < j + 1 /\ rest[j] \in ToCome /\ rest[i] \in Session
      BY <1>1, <1>4, <1>6, <1>7
    <3>2. Precedes(after, rest[i], rest[j])
      BY <1>4, <1>8, <3>1 DEF DuringSubmission
    <3> QED BY <2>3, <2>7, <3>1, <3>2
  <2>9. \A i \in Behind : \A s \in pass.waiting : Precedes(s0, rest[i], s)
    <3> SUFFICES ASSUME NEW i \in Behind, NEW s \in pass.waiting PROVE Precedes(s0, rest[i], s)
      OBVIOUS
    <3>1. Precedes(after, rest[i], s) /\ rest[i] \in Session
      BY <1>4, <1>6, <1>7, <1>8 DEF DuringSubmission
    <3> QED BY <2>3, <2>7, <3>1
  <2> QED BY <1>2, <1>6, <1>9, <2>1, <2>6, <2>8, <2>9 DEF rest
<1>12. pass.first = 0 \/ pass.first > 0
  BY <1>2
<1> QED BY <1>10, <1>11, <1>12

LEMMA TurnFair ==
  ASSUME PollerTyped, RotationFair, SkipFolderless \/ SubmitSession
  PROVE  RotationFair'
<1> DEFINE s0 == Head(pass.todo)
<1>1. /\ pass.at = "submit" /\ pass.todo # <<>> /\ after' = Moved /\ passed' = passed
  BY DEF SkipFolderless, SubmitSession, Turn, Moved, ghosts
<1>2. /\ pass'.at = "submit" /\ pass'.todo = Tail(pass.todo) /\ pass'.waiting = pass.waiting
      /\ pass'.first = IF pass.first = 0 THEN 0 ELSE pass.first - 1
  <2>1. CASE SkipFolderless
    BY <1>1, <2>1, MoveOnIs DEF SkipFolderless
  <2>2. CASE SubmitSession
    <3>1. PICK moved, entries, sent :
            moved = MoveOn(s0) /\ pass' = [moved EXCEPT !.lag = entries, !.sent = sent]
      BY <2>2 DEF SubmitSession
    <3> HIDE DEF s0
    <3> QED BY <1>1, <3>1, MoveOnIs DEF Idle
  <2> QED BY <2>1, <2>2
<1>3. Tail(pass.todo) \in Seq(Session)
  BY <1>1, AtSession
<1>4. Turns' = Behind
  <2>1. DOMAIN Tail(pass.todo) = 1..Len(Tail(pass.todo))
    BY <1>3, LenProperties
  <2> QED BY <1>2, <2>1 DEF Turns, Behind
<1>5. Due' = ToCome
  <2>1. Due' = {Tail(pass.todo)[i] : i \in Behind}
    BY <1>2, <1>4 DEF Due
  <2> QED BY <1>1, <2>1, TurnTaken
<1>6. Left' = Left /\ \A s : Ahead(after, s)' = Ahead(Moved, s)
  BY <1>1 DEF Left, Ahead, InFront
<1>7. /\ \A s \in ToCome \union pass.waiting :
              /\ s \in Session
              /\ passed[s] + Ahead(Moved, s) < Left
              /\ Behind = {} => passed[s] + 1 + Ahead(Moved, s) < Left
      /\ \A i, j \in Behind : i < j => Precedes(Moved, Tail(pass.todo)[i], Tail(pass.todo)[j])
      /\ \A i \in Behind : \A s \in pass.waiting : Precedes(Moved, Tail(pass.todo)[i], s)
  BY <1>1, TurnTaken
<1>8. /\ passed \in [Session -> Nat] /\ \A s \in Session : passed[s] < Left
  BY <1>1 DEF RotationFair, DuringSubmission
<1>9. DuringSubmission'
  BY <1>1, <1>2, <1>4, <1>5, <1>6, <1>7, <1>8 DEF DuringSubmission
<1> QED BY <1>1, <1>2, <1>8, <1>9 DEF RotationFair

LEMMA RecordFair == ASSUME PollerTyped, RotationFair, RecordPass PROVE RotationFair'
<1>1. /\ pass.at = "submit" /\ pass.todo = <<>> /\ pass'.at = "idle" /\ after' = after
      /\ passed' = [s \in Session |-> IF s \in pass.waiting THEN passed[s] + 1 ELSE 0]
  BY DEF RecordPass, Idle
<1>2. Turns = {}
  BY <1>1 DEF Turns
<1>3. \A s \in pass.waiting : passed[s] + 1 + Ahead(after, s) < Left
  BY <1>1, <1>2 DEF RotationFair, DuringSubmission
<1>4. Left' = Left /\ \A s : Ahead(after, s)' = Ahead(after, s)
  BY <1>1 DEF Left, Ahead, InFront
<1>5. \A s \in Session : Ahead(after, s) \in Nat /\ Ahead(after, s) < Left
  BY TypedFacts
<1>6. BetweenPasses'
  BY <1>1, <1>3, <1>4, <1>5 DEF BetweenPasses
<1>7. passed' \in [Session -> Nat]
  BY <1>1 DEF RotationFair
<1> QED BY <1>1, <1>6, <1>7 DEF RotationFair

LEMMA FailsFair == ASSUME PollerTyped, RotationFair, PassFails PROVE RotationFair'
<1>1. pass'.at = "idle"
  BY DEF PassFails, Idle
<1>2. CASE pass.at = "submit"
  <2>1. /\ pass.todo # <<>> /\ after' = Moved
        /\ passed' = [s \in Session |-> IF s \in pass.waiting \union ToCome THEN passed[s] ELSE 0]
    BY <1>2 DEF PassFails, Turn, Moved
  <2>2. /\ Moved \in Nat
        /\ \A s \in ToCome \union pass.waiting : passed[s] + Ahead(Moved, s) < Left
    BY <1>2, <2>1, TurnTaken
  <2>3. Left' = Left /\ \A s : Ahead(after, s)' = Ahead(Moved, s)
    BY <2>1 DEF Left, Ahead, InFront
  <2>4. \A s \in Session : Ahead(Moved, s) \in Nat /\ Ahead(Moved, s) < Left
    BY <2>2, AheadIs DEF Left
  <2>5. BetweenPasses'
    BY <2>1, <2>2, <2>3, <2>4 DEF BetweenPasses
  <2>6. passed' \in [Session -> Nat]
    BY <2>1 DEF RotationFair
  <2> QED BY <1>1, <2>5, <2>6 DEF RotationFair
<1>3. CASE pass.at # "submit"
  <2>1. UNCHANGED <<passed, after>>
    BY <1>3 DEF PassFails
  <2> QED BY <1>1, <1>3, <2>1, BetweenFair
<1> QED BY <1>2, <1>3

LEMMA RestartFair == ASSUME PollerTyped, Restart PROVE RotationFair'
<1>1. /\ pass'.at = "idle" /\ after' = 0 /\ passed' = [s \in Session |-> 0]
  BY DEF Restart, Idle
<1>2. Left' = Left /\ \A s : Ahead(after, s)' = Ahead(0, s)
  BY <1>1 DEF Left, Ahead, InFront
<1>3. \A s \in Session : Ahead(0, s) \in Nat /\ Ahead(0, s) < Left
  BY AheadIs DEF Left
<1>4. BetweenPasses'
  BY <1>1, <1>2, <1>3 DEF BetweenPasses
<1> QED BY <1>1, <1>4 DEF RotationFair

LEMMA PassFair ==
  ASSUME PollerTyped, RotationFair, PassStep PROVE RotationFair'
<1>1. CASE Discover
  <2>1. pass.at # "submit" /\ pass'.at # "submit" /\ UNCHANGED <<passed, after>>
    BY <1>1 DEF Discover, Idle, ghosts
  <2> QED BY <2>1, BetweenFair
<1>2. CASE LoadAcks \/ LoadOutcomes \/ Weigh
  <2>1. DOMAIN pass = DOMAIN Idle
    BY DEF PollerTyped, PassTyped
  <2>2. pass.at # "submit" /\ pass'.at # "submit" /\ UNCHANGED <<passed, after>>
    BY <1>2, <2>1 DEF LoadAcks, LoadOutcomes, Weigh, Idle, ghosts, memory
  <2> QED BY <2>2, BetweenFair
<1> QED BY <1>1, <1>2, SelectFair, TurnFair, RecordFair DEF PassStep

LEMMA NextFair ==
  ASSUME PollerTyped, RotationFair, [PollerNext]_pvars PROVE RotationFair'
<1>1. CASE \E f \in File : WriteLine(f) \/ WritePart(f) \/ Touch(f) \/ Replace(f)
  BY <1>1, FairFrame DEF WriteLine, WritePart, Touch, Replace, Write, memory, ghosts
<1>2. CASE \E s \in Session : JobStep(s) \/ RetryJob(s) \/ FailJob(s)
  BY <1>2, FairFrame
     DEF JobStep, ClaimJob, ReadFile, CommitFile, Finish, RetryJob, FailJob, memory, ghosts
<1>3. CASE UNCHANGED pvars
  BY <1>3, FairFrame DEF pvars, memory, ghosts
<1> QED BY <1>1, <1>2, <1>3, PassFair, FailsFair, RestartFair DEF PollerNext

LEMMA FairIs == PollerTyped /\ RotationFair => BacklogHasItsTurn
<1> SUFFICES ASSUME PollerTyped, RotationFair, NEW s \in Session PROVE passed[s] < Left
  BY DEF RotationFair, BacklogHasItsTurn, Left
<1>1. passed[s] \in Nat /\ Ahead(after, s) \in Nat /\ Left \in Nat
  BY TypedFacts DEF RotationFair
<1> QED BY <1>1 DEF RotationFair, DuringSubmission, BetweenPasses

\* With any number of sessions, under any cap, whatever is live, however long,
\* and whichever passes fail: a session of the backlog is reached before
\* as many passes have left it waiting as there are sessions (convo_poll.rs:188).
THEOREM BacklogIsServed == PollerSpec => []BacklogHasItsTurn
<1>1. PollerInit => PollerTyped /\ RotationFair
  BY InitTyped, InitFair
<1>2. PollerTyped /\ RotationFair /\ [PollerNext]_pvars => (PollerTyped /\ RotationFair)'
  BY NextTyped, NextFair
<1> QED BY <1>1, <1>2, FairIs, PTL DEF PollerSpec

-----------------------------------------------------------------------------
(* Attempts without progress.  What the queue shows of a file: the cursor,   *)
(* the acknowledgement, the newest revision and where it ends, the session's *)
(* row, the read its job has open, and whether the job is past it.           *)

View == [offset : OrNothing(Offset), ack : OrNothing(Ack), rev : Nat, end : Offset, row : Job,
         read : OrNothing(Read), passed : BOOLEAN]

\* A cursor does not go back: an inode is newer than the last, and lines are
\* only added.
AtMost(c, d) == c = Nothing \/ (d # Nothing /\ c.inode <= d.inode /\ c.lines <= d.lines)

SoundRead(v) ==
  /\ v.row.state = "running" /\ v.read.rev <= v.rev
  /\ v.read.rev = v.rev => v.read.end = v.end
  /\ AtMost(v.offset, v.read.end) /\ AtMost(v.read.end, v.end)
  /\ ~ v.read.empty => v.offset # v.read.end
  /\ v.ack # Nothing => v.ack.stamp <= v.read.rev

Sound(v) ==
  /\ v \in View
  /\ AtMost(v.offset, v.end)
  /\ v.ack # Nothing => v.ack.stamp <= v.rev
  /\ v.passed => v.read = Nothing /\ v.row.state = "running"
  /\ v.read # Nothing => SoundRead(v)

\* The job of an entry ended done, and a pass has not counted it yet.
JobDone(r, e) == e.job \notin r.dead /\ (e.job = r.id => r.state = "done")
Uncounted(e) == e.last # e.job
One(P) == IF P THEN 1 ELSE 0

\* The attempts counted, and those that are to be counted should nothing come
\* of them: the entry's job once it is past the file, and one behind it.
Owed(v, e) ==
  e.tries + One(Uncounted(e) /\ (JobDone(v.row, e) \/ (v.row.id = e.job /\ v.passed)))
          + One(v.row.id # e.job /\ v.passed)

\* What the queue knows of an entry of the file.
Placed(v, e) ==
  /\ e \in Entry /\ e.job \in 1..v.row.id
  /\ e.stamp <= v.rev /\ AtMost(e.cursor, v.offset)
  /\ Uncounted(e) \/ JobDone(v.row, e)

Progressed(v, e) == v.offset # e.cursor

\* The acknowledgement voids the entry at the next pass, and so does what an
\* open read may put in its place.
Voided(h, v, e) ==
  /\ v.ack # Nothing /\ (v.ack.newer > h \/ v.ack.stamp = e.stamp)
  /\ v.read # Nothing => v.read.newer > h \/ v.read.rev = e.stamp

\* Each attempt had a revision of its own, and an open read will void the entry
\* unless it is the entry's own job's.
Covered(h, v, e) ==
  /\ Owed(v, e) <= v.rev
  /\ v.read # Nothing => /\ Owed(v, e) <= v.read.rev
                         /\ v.read.newer > h \/ (v.row.id = e.job /\ e.tries <= e.stamp)

Resting(h, v, e) == Progressed(v, e) \/ Voided(h, v, e) \/ Covered(h, v, e)

-----------------------------------------------------------------------------
(* What harnesses and jobs do to it.  A claim lists the files anew, so a job *)
(* is past none that is known.                                              *)

Writes(v, w) ==
  \E n \in Nat, c \in Offset :
    n > v.rev /\ AtMost(v.end, c) /\ w = [v EXCEPT !.rev = n, !.end = c]

Claims(known, v, w) ==
  \E past \in BOOLEAN :
    /\ v.row.state = "pending" /\ (known => ~ past)
    /\ w = [v EXCEPT !.row = [v.row EXCEPT !.state = "running"], !.passed = past]

Reads(v, w) ==
  \E empty \in BOOLEAN :
    /\ v.row.state = "running" /\ v.read = Nothing /\ ~ v.passed
    /\ ~ empty => v.offset # v.end
    /\ w = [v EXCEPT !.read = [end |-> v.end, rev |-> v.rev, newer |-> 2, empty |-> empty]]

Commits(v, w) ==
  \E past \in BOOLEAN :
    /\ v.read # Nothing
    /\ w = [v EXCEPT
         !.offset = IF v.read.empty /\ v.offset = Nothing THEN v.offset ELSE v.read.end,
         !.ack = IF v.read.empty THEN [stamp |-> v.read.rev, newer |-> v.read.newer] ELSE v.ack,
         !.read = Nothing, !.passed = past]

Ends(v, w) ==
  \E state \in {"pending", "done", "failed", "hopeless"} :
    /\ v.row.state = "running" /\ (state = "done" => v.passed)
    /\ w = [v EXCEPT !.row = [v.row EXCEPT !.state = state], !.read = Nothing, !.passed = FALSE]

QueueStep(known, v, w) ==
  w = v \/ Writes(v, w) \/ Claims(known, v, w) \/ Reads(v, w) \/ Commits(v, w) \/ Ends(v, w)

LEMMA CursorsAdvance ==
  ASSUME NEW a \in OrNothing(Offset), NEW b \in OrNothing(Offset), NEW c \in OrNothing(Offset)
  PROVE  /\ AtMost(a, a) /\ (AtMost(a, b) /\ AtMost(b, c) => AtMost(a, c))
         /\ AtMost(a, b) /\ AtMost(b, a) => a = b
<1>1. /\ a \in Offset => a # Nothing /\ a.inode \in Nat /\ a.lines \in Nat
      /\ b \in Offset => b # Nothing /\ b.inode \in Nat /\ b.lines \in Nat
      /\ c \in Offset => c # Nothing /\ c.inode \in Nat /\ c.lines \in Nat
  BY NothingAssumption DEF Offset
<1>2. AtMost(a, a) /\ (AtMost(a, b) /\ AtMost(b, c) => AtMost(a, c))
  BY <1>1 DEF AtMost, OrNothing
<1>3. ASSUME AtMost(a, b), AtMost(b, a) PROVE a = b
  <2>1. CASE a = Nothing
    BY <1>3, <2>1 DEF AtMost
  <2>2. CASE a # Nothing
    <3>1. a \in Offset /\ b \in Offset /\ a.inode = b.inode /\ a.lines = b.lines
      BY <1>1, <1>3, <2>2 DEF AtMost, OrNothing
    <3> QED BY <3>1 DEF Offset
  <2> QED BY <2>1, <2>2
<1> QED BY <1>2, <1>3

LEMMA WritesIs ==
  ASSUME NEW v, NEW w, Sound(v), Writes(v, w)
  PROVE  /\ w \in View /\ w.rev > v.rev /\ AtMost(v.end, w.end)
         /\ w.offset = v.offset /\ w.ack = v.ack /\ w.row = v.row /\ w.read = v.read
         /\ w.passed = v.passed
BY DEF Writes, Sound, View

LEMMA ClaimsIs ==
  ASSUME NEW v, NEW w, NEW known, Sound(v), Claims(known, v, w)
  PROVE  /\ w \in View /\ (known => ~ w.passed) /\ v.row.state = "pending"
         /\ w.row.state = "running" /\ w.row.id = v.row.id /\ w.row.dead = v.row.dead
         /\ w.offset = v.offset /\ w.ack = v.ack /\ w.rev = v.rev /\ w.end = v.end
         /\ v.read = Nothing /\ w.read = Nothing /\ ~ v.passed
<1>1. v \in View /\ v.row \in Job
  BY DEF Sound, View
<1>2. [v.row EXCEPT !.state = "running"] \in Job
  BY <1>1 DEF Job
<1>3. v.read = Nothing /\ ~ v.passed
  BY DEF Sound, SoundRead, Claims
<1> QED BY <1>1, <1>2, <1>3 DEF Claims, View, Job

LEMMA ReadsIs ==
  ASSUME NEW v, NEW w, Sound(v), Reads(v, w)
  PROVE  /\ w \in View /\ v.row.state = "running" /\ v.read = Nothing /\ ~ v.passed
         /\ w.read # Nothing /\ w.read.end = v.end /\ w.read.rev = v.rev /\ w.read.newer = 2
         /\ ~ w.read.empty => v.offset # v.end
         /\ w.offset = v.offset /\ w.ack = v.ack /\ w.rev = v.rev /\ w.end = v.end
         /\ w.row = v.row /\ ~ w.passed
<1>1. v \in View /\ v.end \in Offset /\ v.rev \in Nat
  BY DEF Sound, View
<1>2. PICK empty \in BOOLEAN :
        /\ v.row.state = "running" /\ v.read = Nothing /\ ~ v.passed
        /\ ~ empty => v.offset # v.end
        /\ w = [v EXCEPT !.read = [end |-> v.end, rev |-> v.rev, newer |-> 2, empty |-> empty]]
  BY DEF Reads
<1>3. PICK read : read = [end |-> v.end, rev |-> v.rev, newer |-> 2, empty |-> empty]
  OBVIOUS
<1>4. read \in Read
  BY <1>1, <1>3 DEF Read
<1>5. read # Nothing
  BY <1>4, NothingAssumption
<1> QED BY <1>1, <1>2, <1>3, <1>4, <1>5 DEF View, OrNothing

LEMMA CommitsIs ==
  ASSUME NEW v, NEW w, Sound(v), Commits(v, w)
  PROVE  /\ w \in View /\ v.read # Nothing /\ v.read \in Read /\ w.read = Nothing
         /\ w.offset = IF v.read.empty /\ v.offset = Nothing THEN v.offset ELSE v.read.end
         /\ v.read.empty => /\ w.ack # Nothing /\ w.ack.stamp = v.read.rev
                            /\ w.ack.newer = v.read.newer
         /\ ~ v.read.empty => w.ack = v.ack
         /\ w.rev = v.rev /\ w.end = v.end /\ w.row = v.row
         /\ SoundRead(v) /\ ~ v.passed
<1>1. v \in View /\ v.read # Nothing /\ v.read \in Read /\ v.read.end \in Offset
  BY DEF Commits, Sound, View, OrNothing, Read
<1>1a. PICK ack1, offset1 :
         /\ offset1 = IF v.read.empty /\ v.offset = Nothing THEN v.offset ELSE v.read.end
         /\ ack1 = IF v.read.empty THEN [stamp |-> v.read.rev, newer |-> v.read.newer] ELSE v.ack
  OBVIOUS
<1>2. PICK past \in BOOLEAN :
        w = [v EXCEPT !.offset = offset1, !.ack = ack1, !.read = Nothing, !.passed = past]
  BY <1>1a DEF Commits
<1>3. [stamp |-> v.read.rev, newer |-> v.read.newer] \in Ack
  BY <1>1 DEF Read, Ack
<1>4. [stamp |-> v.read.rev, newer |-> v.read.newer] # Nothing
  BY <1>3, NothingAssumption
<1>5. offset1 \in OrNothing(Offset) /\ ack1 \in OrNothing(Ack)
  BY <1>1, <1>1a, <1>3 DEF View, OrNothing
<1>6. w \in View
  BY <1>1, <1>2, <1>5 DEF View, OrNothing
<1>7. /\ w.read = Nothing /\ w.offset = offset1 /\ w.ack = ack1
      /\ w.rev = v.rev /\ w.end = v.end /\ w.row = v.row
  BY <1>1, <1>2 DEF View
<1>8. SoundRead(v) /\ ~ v.passed
  BY <1>1 DEF Sound
<1> QED BY <1>1, <1>1a, <1>4, <1>6, <1>7, <1>8

LEMMA EndsIs ==
  ASSUME NEW v, NEW w, Sound(v), Ends(v, w)
  PROVE  /\ w \in View /\ v.row.state = "running" /\ w.row.state # "running"
         /\ w.row.state = "done" => v.passed
         /\ w.row.id = v.row.id /\ w.row.dead = v.row.dead
         /\ w.offset = v.offset /\ w.ack = v.ack /\ w.rev = v.rev /\ w.end = v.end
         /\ w.read = Nothing /\ ~ w.passed
<1>1. v \in View /\ v.row \in Job
  BY DEF Sound, View
<1>2. PICK state \in {"pending", "done", "failed", "hopeless"} :
        /\ v.row.state = "running" /\ (state = "done" => v.passed)
        /\ w = [v EXCEPT !.row = [v.row EXCEPT !.state = state], !.read = Nothing, !.passed = FALSE]
  BY DEF Ends
<1>3. PICK row1 : row1 = [v.row EXCEPT !.state = state]
  OBVIOUS
<1>4. row1 \in Job /\ row1.state = state /\ row1.id = v.row.id /\ row1.dead = v.row.dead
  BY <1>1, <1>3 DEF Job
<1>5. w \in View
  BY <1>1, <1>2, <1>3, <1>4 DEF View, OrNothing
<1>6. /\ w.row = row1 /\ w.read = Nothing /\ w.passed = FALSE
      /\ w.offset = v.offset /\ w.ack = v.ack /\ w.rev = v.rev /\ w.end = v.end
  BY <1>1, <1>2, <1>3 DEF View
<1> QED BY <1>2, <1>4, <1>5, <1>6

\* The numbers of a view.
LEMMA ViewIs ==
  ASSUME NEW v \in View
  PROVE  /\ v.offset \in OrNothing(Offset) /\ v.end \in Offset /\ v.end \in OrNothing(Offset)
         /\ v.rev \in Nat /\ v.row \in Job /\ v.row.id \in Nat /\ v.row.dead \subseteq 1..MaxIds
         /\ v.ack # Nothing => v.ack \in Ack /\ v.ack.stamp \in Nat /\ v.ack.newer \in 0..2
         /\ v.read # Nothing => /\ v.read \in Read /\ v.read.rev \in Nat /\ v.read.newer \in 0..2
                                /\ v.read.end \in Offset /\ v.read.end \in OrNothing(Offset)
                                /\ v.read.empty \in BOOLEAN
         /\ v.passed \in BOOLEAN
<1>1. v.ack # Nothing => v.ack \in Ack
  BY DEF View, OrNothing
<1>2. v.read # Nothing => v.read \in Read
  BY DEF View, OrNothing
<1>3. v.row \in Job /\ v.offset \in OrNothing(Offset) /\ v.end \in Offset /\ v.rev \in Nat
      /\ v.passed \in BOOLEAN
  BY DEF View
<1>4. v.row.id \in Nat /\ v.row.dead \subseteq 1..MaxIds
  BY <1>3, PollerAssumption DEF Job
<1> QED BY <1>1, <1>2, <1>3, <1>4 DEF Ack, Read, OrNothing

LEMMA SoundKept ==
  ASSUME NEW v, NEW w, NEW known, Sound(v), QueueStep(known, v, w)
  PROVE  Sound(w)
<1>1. /\ v \in View /\ v.offset \in OrNothing(Offset) /\ v.end \in OrNothing(Offset)
      /\ v.rev \in Nat /\ (v.ack # Nothing => v.ack.stamp \in Nat)
      /\ v.read # Nothing => v.read.rev \in Nat /\ v.read.end \in OrNothing(Offset)
  BY ViewIs DEF Sound
<1>2. CASE Writes(v, w)
  <2>1. /\ w \in View /\ w.rev > v.rev /\ AtMost(v.end, w.end)
        /\ w.offset = v.offset /\ w.ack = v.ack /\ w.row = v.row /\ w.read = v.read
        /\ w.passed = v.passed
    BY <1>2, WritesIs
  <2>2. w.rev \in Nat /\ w.end \in OrNothing(Offset)
    BY <2>1, ViewIs
  <2>3. AtMost(w.offset, w.end) /\ (v.read # Nothing => AtMost(w.read.end, w.end))
    BY <1>1, <2>1, <2>2, CursorsAdvance DEF Sound, SoundRead
  <2> QED BY <1>1, <2>1, <2>2, <2>3 DEF Sound, SoundRead
<1>3. CASE Claims(known, v, w)
  BY <1>3, ClaimsIs DEF Sound
<1>4. CASE Reads(v, w)
  <2>1. AtMost(v.end, v.end)
    BY <1>1, CursorsAdvance
  <2> QED BY <1>1, <1>4, <2>1, ReadsIs DEF Sound, SoundRead
<1>5. CASE Commits(v, w)
  <2>1. /\ w \in View /\ w.read = Nothing /\ v.read # Nothing
        /\ w.offset = IF v.read.empty /\ v.offset = Nothing THEN v.offset ELSE v.read.end
        /\ w.ack = v.ack \/ (w.ack.stamp = v.read.rev)
        /\ w.rev = v.rev /\ w.end = v.end /\ w.row = v.row /\ SoundRead(v)
    BY <1>5, CommitsIs
  <2> QED BY <1>1, <2>1 DEF Sound, SoundRead
<1>6. CASE Ends(v, w)
  BY <1>6, EndsIs DEF Sound
<1> QED BY <1>2, <1>3, <1>4, <1>5, <1>6 DEF QueueStep

\* A step moves a cursor forward or not at all, and leaves of a done row what it
\* was.
LEMMA StepForward ==
  ASSUME NEW v, NEW w, NEW known, Sound(v), QueueStep(known, v, w)
  PROVE  /\ AtMost(v.offset, w.offset) /\ v.rev <= w.rev
         /\ w.row.id = v.row.id /\ w.row.dead = v.row.dead
         /\ v.row.state = "done" => w.row.state = "done"
<1>1. /\ v \in View /\ v.offset \in OrNothing(Offset) /\ v.rev \in Nat
      /\ AtMost(v.offset, v.offset)
  BY ViewIs, CursorsAdvance DEF Sound
<1>2. CASE Writes(v, w)
  <2>1. w \in View /\ w.rev > v.rev /\ w.offset = v.offset /\ w.row = v.row
    BY <1>2, WritesIs
  <2>2. w.rev \in Nat
    BY <2>1, ViewIs
  <2> QED BY <1>1, <2>1, <2>2
<1>3. CASE Claims(known, v, w)
  BY <1>1, <1>3, ClaimsIs
<1>4. CASE Reads(v, w)
  BY <1>1, <1>4, ReadsIs
<1>5. CASE Commits(v, w)
  <2>1. /\ w.offset = v.offset \/ w.offset = v.read.end
        /\ w.rev = v.rev /\ w.row = v.row /\ AtMost(v.offset, v.read.end)
    BY <1>5, CommitsIs DEF SoundRead
  <2> QED BY <1>1, <2>1
<1>6. CASE Ends(v, w)
  BY <1>1, <1>6, EndsIs
<1> QED BY <1>1, <1>2, <1>3, <1>4, <1>5, <1>6 DEF QueueStep

LEMMA PlacedKept ==
  ASSUME NEW v, NEW w, NEW known, NEW e, Sound(v), QueueStep(known, v, w), Placed(v, e)
  PROVE  Placed(w, e) /\ (JobDone(v.row, e) => JobDone(w.row, e))
<1>1. /\ AtMost(v.offset, w.offset) /\ v.rev <= w.rev
      /\ w.row.id = v.row.id /\ w.row.dead = v.row.dead
      /\ v.row.state = "done" => w.row.state = "done"
  BY StepForward
<1>2. Sound(w) /\ v \in View /\ w \in View
  BY SoundKept DEF Sound
<1>3. /\ v.offset \in OrNothing(Offset) /\ w.offset \in OrNothing(Offset)
      /\ v.rev \in Nat /\ w.rev \in Nat
  BY <1>2, ViewIs
<1>4. e.cursor \in OrNothing(Offset) /\ e.stamp \in Nat
  BY DEF Placed, Entry
<1>5. AtMost(e.cursor, w.offset)
  BY <1>1, <1>3, <1>4, CursorsAdvance DEF Placed
<1>6. JobDone(v.row, e) => JobDone(w.row, e)
  BY <1>1 DEF JobDone
<1> QED BY <1>1, <1>3, <1>4, <1>5, <1>6 DEF Placed

\* Progress is for good.
LEMMA ProgressKept ==
  ASSUME NEW v, NEW w, NEW known, NEW e, Sound(v), QueueStep(known, v, w), Placed(v, e),
         Progressed(v, e)
  PROVE  Progressed(w, e)
<1>1. AtMost(v.offset, w.offset) /\ AtMost(e.cursor, v.offset) /\ v.offset # e.cursor
  BY StepForward DEF Placed, Progressed
<1>2. /\ e.cursor \in OrNothing(Offset) /\ v.offset \in OrNothing(Offset)
      /\ w.offset \in OrNothing(Offset)
  BY SoundKept, ViewIs DEF Placed, Entry, Sound
<1> QED BY <1>1, <1>2, CursorsAdvance DEF Progressed

LEMMA OwedIs ==
  ASSUME NEW v, NEW e, Placed(v, e)
  PROVE  /\ e.tries \in Nat /\ e.stamp \in Nat /\ Owed(v, e) \in Nat /\ e.tries <= Owed(v, e)
         /\ v.row.id = e.job /\ ~ v.passed /\ v.row.state # "done" => Owed(v, e) = e.tries
<1>1. e.tries \in Nat /\ e.stamp \in Nat
  BY PollerAssumption DEF Placed, Entry
<1>2. v.row.id = e.job /\ v.row.state # "done" => ~ JobDone(v.row, e)
  BY DEF JobDone
<1> QED BY <1>1, <1>2 DEF Owed, One

\* A step owes nothing more, but for the commit that brings a job past the
\* file, which owes one more at most.
LEMMA OwedStep ==
  ASSUME NEW v, NEW w, NEW e, Sound(v), QueueStep(TRUE, v, w), Placed(v, e)
  PROVE  IF Commits(v, w) THEN Owed(w, e) <= Owed(v, e) + 1 ELSE Owed(w, e) <= Owed(v, e)
<1>1. e.tries \in Nat /\ Owed(v, e) \in Nat /\ Owed(w, e) \in Nat
  BY PlacedKept, OwedIs
<1>2. /\ w.row.id = v.row.id /\ w.row.dead = v.row.dead
      /\ v.row.state = "done" => w.row.state = "done"
  BY StepForward
<1>3. CASE w = v
  BY <1>1, <1>3
<1>4. CASE Writes(v, w)
  BY <1>1, <1>4, WritesIs DEF Owed
<1>5. CASE Claims(TRUE, v, w)
  <2>1. /\ v.row.state = "pending" /\ w.row.state = "running" /\ ~ w.passed /\ ~ v.passed
    BY <1>5, ClaimsIs
  <2>2. JobDone(w.row, e) <=> JobDone(v.row, e)
    BY <1>2, <2>1 DEF JobDone
  <2> QED BY <1>1, <1>2, <2>1, <2>2 DEF Owed, One
<1>6. CASE Reads(v, w)
  BY <1>1, <1>6, ReadsIs DEF Owed, One
<1>7. CASE Commits(v, w)
  <2>1. w.row = v.row /\ ~ v.passed
    BY <1>7, CommitsIs
  <2>2. Owed(w, e) <= Owed(v, e) + 1
    BY <1>1, <2>1 DEF Owed, One
  <2> QED BY <1>7, <2>2
<1>8. CASE Ends(v, w)
  <2>1. /\ v.row.state = "running" /\ ~ w.passed /\ (w.row.state = "done" => v.passed)
    BY <1>8, EndsIs
  <2>2. JobDone(w.row, e) => JobDone(v.row, e) \/ (v.row.id = e.job /\ v.passed)
    BY <1>2, <2>1 DEF JobDone
  <2>3. Owed(w, e) <= Owed(v, e)
    BY <1>1, <1>2, <2>1, <2>2 DEF Owed, One
  <2> QED BY <1>1, <2>3
<1> QED BY <1>3, <1>4, <1>5, <1>6, <1>7, <1>8 DEF QueueStep

\* A commit that leaves the cursor has read nothing and says so.
LEMMA CommitSays ==
  ASSUME NEW v, NEW w, NEW e, Sound(v), Commits(v, w), Placed(v, e), ~ Progressed(w, e)
  PROVE  /\ ~ Progressed(v, e) /\ w.ack # Nothing /\ w.ack.stamp = v.read.rev
         /\ w.ack.newer = v.read.newer
<1>1. /\ v.read # Nothing /\ SoundRead(v)
      /\ w.offset = IF v.read.empty /\ v.offset = Nothing THEN v.offset ELSE v.read.end
      /\ v.read.empty => /\ w.ack # Nothing /\ w.ack.stamp = v.read.rev
                         /\ w.ack.newer = v.read.newer
  BY CommitsIs
<1>2. ~ Progressed(v, e)
  <2>1. QueueStep(TRUE, v, w)
    BY DEF QueueStep
  <2> QED BY <2>1, ProgressKept
<1>3. v.read.empty
  BY <1>1, <1>2 DEF SoundRead, Progressed
<1> QED BY <1>1, <1>2, <1>3

LEMMA VoidedKept ==
  ASSUME NEW v, NEW w, NEW e, NEW h \in {0, 1}, Sound(v), QueueStep(TRUE, v, w), Placed(v, e),
         Voided(h, v, e)
  PROVE  Progressed(w, e) \/ Voided(h, w, e)
<1>1. CASE Writes(v, w)
  BY <1>1, WritesIs DEF Voided
<1>2. CASE Claims(TRUE, v, w)
  BY <1>2, ClaimsIs DEF Voided
<1>3. CASE Reads(v, w)
  BY <1>3, ReadsIs DEF Voided
<1>4. CASE Commits(v, w)
  <2>1. ~ Progressed(w, e) => /\ w.ack # Nothing /\ w.ack.stamp = v.read.rev
                              /\ w.ack.newer = v.read.newer
    BY <1>4, CommitSays
  <2>2. v.read # Nothing /\ w.read = Nothing
    BY <1>4, CommitsIs
  <2> QED BY <2>1, <2>2 DEF Voided
<1>5. CASE Ends(v, w)
  BY <1>5, EndsIs DEF Voided
<1> QED BY <1>1, <1>2, <1>3, <1>4, <1>5 DEF QueueStep

LEMMA CoveredKept ==
  ASSUME NEW v, NEW w, NEW e, NEW h \in {0, 1}, Sound(v), QueueStep(TRUE, v, w), Placed(v, e),
         Covered(h, v, e)
  PROVE  Resting(h, w, e)
<1>1. /\ e.tries \in Nat /\ e.stamp \in Nat /\ Owed(v, e) \in Nat /\ e.tries <= Owed(v, e)
      /\ Owed(w, e) \in Nat
  BY PlacedKept, OwedIs
<1>2. v \in View /\ w \in View /\ v.rev \in Nat /\ w.rev \in Nat /\ v.rev <= w.rev
  BY SoundKept, ViewIs, StepForward DEF Sound
<1>3. IF Commits(v, w) THEN Owed(w, e) <= Owed(v, e) + 1 ELSE Owed(w, e) <= Owed(v, e)
  BY OwedStep
<1>4. CASE Commits(v, w)
  <2>1. SUFFICES ASSUME ~ Progressed(w, e), ~ Voided(h, w, e) PROVE Covered(h, w, e)
    BY DEF Resting
  <2>2. /\ w.ack # Nothing /\ w.ack.stamp = v.read.rev /\ w.ack.newer = v.read.newer
    BY <1>4, <2>1, CommitSays
  <2>3. /\ v.read # Nothing /\ w.read = Nothing /\ w.rev = v.rev /\ w.row = v.row
        /\ SoundRead(v) /\ ~ v.passed
    BY <1>4, CommitsIs
  <2>4. ~ (v.read.newer > h) /\ v.read.rev # e.stamp
    BY <2>1, <2>2, <2>3 DEF Voided
  <2>5. v.row.id = e.job /\ e.tries <= e.stamp /\ Owed(v, e) <= v.read.rev
    BY <2>3, <2>4 DEF Covered
  <2>6. Owed(v, e) = e.tries
    BY <2>3, <2>5, OwedIs DEF SoundRead
  <2>7. v.read.rev \in Nat /\ v.read.rev <= v.rev /\ e.stamp <= v.rev
    BY <1>2, <2>3, ViewIs DEF SoundRead, Placed
  <2>8. Owed(w, e) <= e.tries + 1
    BY <1>3, <1>4, <2>6
  <2>9. e.tries + 1 <= v.rev
    BY <1>1, <1>2, <2>4, <2>5, <2>6, <2>7
  <2> QED BY <1>1, <1>2, <2>3, <2>8, <2>9 DEF Covered
<1>5. CASE w = v
  BY <1>5 DEF Resting
<1>6. CASE Writes(v, w) /\ ~ Commits(v, w)
  BY <1>1, <1>2, <1>3, <1>6, WritesIs, ViewIs DEF Resting, Covered
<1>7. CASE (Claims(TRUE, v, w) \/ Ends(v, w)) /\ ~ Commits(v, w)
  <2>1. w.read = Nothing /\ w.rev = v.rev /\ Owed(w, e) <= Owed(v, e)
    BY <1>3, <1>7, ClaimsIs, EndsIs
  <2> QED BY <1>1, <1>2, <2>1 DEF Resting, Covered
<1>8. CASE Reads(v, w) /\ ~ Commits(v, w)
  <2>1. w.read.rev = v.rev /\ w.rev = v.rev /\ w.read.newer = 2
    BY <1>8, ReadsIs
  <2> QED BY <1>1, <1>2, <1>3, <1>8, <2>1 DEF Resting, Covered
<1> QED BY <1>4, <1>5, <1>6, <1>7, <1>8 DEF QueueStep

LEMMA RestingKept ==
  ASSUME NEW v, NEW w, NEW e, NEW h \in {0, 1}, Sound(v), QueueStep(TRUE, v, w), Placed(v, e),
         Resting(h, v, e)
  PROVE  Resting(h, w, e)
BY ProgressKept, VoidedKept, CoveredKept DEF Resting

-----------------------------------------------------------------------------
(* What a pass that saw revision d of the file knows of its entry.           *)

\* The attempts a pass may have counted already, or will count as of a job it
\* has seen end.
Base(v, e) == e.tries + One(Uncounted(e) /\ JobDone(v.row, e) /\ v.row.id # e.job)

\* An acknowledgement, as the pass read it, that does not void the entry.
Alive(a, e) == a = Nothing \/ (a.newer = 0 /\ a.stamp # e.stamp)

\* Each attempt had a revision, or the file was acknowledged at that of the
\* pass, and any further attempt is of a newer one.
Caught(d, v, e) ==
  \/ Owed(v, e) <= v.rev /\ (v.read # Nothing => Owed(v, e) <= v.read.rev)
  \/ v.ack # Nothing /\ v.ack.stamp >= d

SeenAt(d, v, e) == Progressed(v, e) \/ Voided(0, v, e) \/ Base(v, e) <= d

LoadedAt(d, a, v, e) ==
  Progressed(v, e) \/ ~ Alive(a, e) \/ (Base(v, e) <= d /\ Caught(d, v, e))

\* What the pass is to submit again.
OpenAt(d, v, e) ==
  \/ Progressed(v, e)
  \/ /\ e.tries <= d \/ (e.tries = d + 1 /\ v.row.id = e.job /\ v.row.state = "done")
     /\ Caught(d, v, e)

LEMMA BaseIs ==
  ASSUME NEW v, NEW e, Placed(v, e)
  PROVE  Base(v, e) \in Nat /\ e.tries <= Base(v, e) /\ Base(v, e) <= Owed(v, e)
<1>1. e.tries \in Nat
  BY OwedIs
<1> QED BY <1>1 DEF Base, Owed, One

LEMMA BaseStep ==
  ASSUME NEW v, NEW w, NEW e, Sound(v), QueueStep(TRUE, v, w), Placed(v, e)
  PROVE  Base(w, e) = Base(v, e)
<1>1. w.row.id = v.row.id /\ w.row.dead = v.row.dead
  BY StepForward
<1>2. v.row.id # e.job => (JobDone(w.row, e) <=> JobDone(v.row, e))
  BY <1>1 DEF JobDone
<1> QED BY <1>1, <1>2 DEF Base

LEMMA CaughtKept ==
  ASSUME NEW v, NEW w, NEW e, NEW d \in Nat, d <= v.rev, Sound(v), QueueStep(TRUE, v, w),
         Placed(v, e), Caught(d, v, e)
  PROVE  Progressed(w, e) \/ Caught(d, w, e)
<1>1. Owed(v, e) \in Nat /\ Owed(w, e) \in Nat
  BY PlacedKept, OwedIs
<1>2. v \in View /\ w \in View /\ v.rev \in Nat /\ w.rev \in Nat /\ v.rev <= w.rev
  BY SoundKept, ViewIs, StepForward DEF Sound
<1>3. IF Commits(v, w) THEN Owed(w, e) <= Owed(v, e) + 1 ELSE Owed(w, e) <= Owed(v, e)
  BY OwedStep
<1>4. CASE Commits(v, w)
  <2>1. SUFFICES ASSUME ~ Progressed(w, e) PROVE Caught(d, w, e)
    OBVIOUS
  <2>2. w.ack # Nothing /\ w.ack.stamp = v.read.rev
    BY <1>4, <2>1, CommitSays
  <2>3. v.read # Nothing /\ w.read = Nothing /\ w.rev = v.rev /\ SoundRead(v)
    BY <1>4, CommitsIs
  <2>4. v.read.rev \in Nat /\ v.read.rev <= v.rev
    BY <1>2, <2>3, ViewIs DEF SoundRead
  <2>5. CASE v.read.rev >= d
    BY <2>2, <2>5 DEF Caught
  <2>6. CASE v.read.rev < d
    <3>1. ~ (v.ack # Nothing /\ v.ack.stamp >= d)
      BY <1>2, <2>3, <2>4, <2>6, ViewIs DEF SoundRead
    <3>2. Owed(v, e) <= v.read.rev
      BY <2>3, <3>1 DEF Caught
    <3> QED BY <1>1, <1>2, <1>3, <1>4, <2>3, <2>4, <2>6, <3>2 DEF Caught
  <2> QED BY <2>4, <2>5, <2>6
<1>5. CASE w = v
  BY <1>5
<1>6. CASE Writes(v, w) /\ ~ Commits(v, w)
  BY <1>1, <1>2, <1>3, <1>6, WritesIs, ViewIs DEF Caught
<1>7. CASE (Claims(TRUE, v, w) \/ Ends(v, w)) /\ ~ Commits(v, w)
  <2>1. w.read = Nothing /\ w.rev = v.rev /\ Owed(w, e) <= Owed(v, e) /\ w.ack = v.ack
    BY <1>3, <1>7, ClaimsIs, EndsIs
  <2> QED BY <1>1, <1>2, <2>1 DEF Caught
<1>8. CASE Reads(v, w) /\ ~ Commits(v, w)
  <2>1. w.read.rev = v.rev /\ w.rev = v.rev /\ w.ack = v.ack
    BY <1>8, ReadsIs
  <2> QED BY <1>1, <1>2, <1>3, <1>8, <2>1 DEF Caught
<1> QED BY <1>4, <1>5, <1>6, <1>7, <1>8 DEF QueueStep

\* All three are kept by what harnesses and jobs do.
LEMMA PassKnows ==
  ASSUME NEW v, NEW w, NEW e, NEW d \in Nat, NEW a, d <= v.rev, Sound(v),
         QueueStep(TRUE, v, w), Placed(v, e)
  PROVE  /\ SeenAt(d, v, e) => SeenAt(d, w, e)
         /\ LoadedAt(d, a, v, e) => LoadedAt(d, a, w, e)
         /\ OpenAt(d, v, e) => OpenAt(d, w, e)
<1>1. Base(w, e) = Base(v, e) /\ (Progressed(v, e) => Progressed(w, e))
  BY BaseStep, ProgressKept
<1>2. Voided(0, v, e) => Progressed(w, e) \/ Voided(0, w, e)
  BY VoidedKept
<1>3. Caught(d, v, e) => Progressed(w, e) \/ Caught(d, w, e)
  BY CaughtKept
<1>4. w.row.id = v.row.id /\ (v.row.state = "done" => w.row.state = "done")
  BY StepForward
<1> QED BY <1>1, <1>2, <1>3, <1>4 DEF SeenAt, LoadedAt, OpenAt

\* A file at rest is one the pass has seen, and then loaded.
LEMMA RestingIsSeen ==
  ASSUME NEW v, NEW e, Sound(v), Placed(v, e), Resting(0, v, e)
  PROVE  SeenAt(v.rev, v, e)
<1>1. Base(v, e) \in Nat /\ Base(v, e) <= Owed(v, e) /\ Owed(v, e) \in Nat /\ v.rev \in Nat
  BY BaseIs, OwedIs, ViewIs DEF Sound
<1> QED BY <1>1 DEF Resting, Covered, SeenAt

LEMMA SeenIsLoaded ==
  ASSUME NEW v, NEW e, NEW d, Resting(0, v, e), SeenAt(d, v, e),
         v.ack # Nothing => v.ack.newer \in 0..2
  PROVE  LoadedAt(d, v.ack, v, e)
BY DEF Resting, SeenAt, LoadedAt, Covered, Caught, Alive, Voided

\* An entry the pass weighs: it is counted no further than the revision the
\* pass saw allows, and is as fit to rest and to be submitted again as it was.
LEMMA CountedIs ==
  ASSUME NEW v, NEW e, NEW d \in Nat, NEW a, NEW outcome, Sound(v), Placed(v, e),
         Resting(0, v, e), LoadedAt(d, a, v, e), Alive(a, e), ~ Progressed(v, e),
         outcome = "done" => JobDone(v.row, e)
  PROVE  /\ Counted(e, outcome).tries <= d + 1 /\ Placed(v, Counted(e, outcome))
         /\ Resting(0, v, Counted(e, outcome)) /\ OpenAt(d, v, Counted(e, outcome))
<1>1. /\ e \in Entry /\ e.tries \in Nat /\ Base(v, e) \in Nat /\ e.tries <= Base(v, e)
      /\ Base(v, e) <= d /\ Caught(d, v, e)
  BY OwedIs, BaseIs DEF Placed, LoadedAt
<1>2. CASE Counted(e, outcome) = e
  BY <1>1, <1>2 DEF OpenAt
<1>3. CASE Counted(e, outcome) # e
  <2>1. PICK n : n = Counted(e, outcome)
    OBVIOUS
  <2>2. /\ n = [e EXCEPT !.tries = @ + 1, !.last = e.job] /\ outcome = "done"
        /\ Uncounted(e)
    BY <1>3, <2>1 DEF Counted, Uncounted
  <2>3. /\ n \in Entry /\ n.tries = e.tries + 1 /\ n.last = e.job /\ n.job = e.job
        /\ n.stamp = e.stamp /\ n.cursor = e.cursor
    BY <1>1, <2>1, <2>2, CountedTyped DEF Entry
  <2>4. JobDone(v.row, e) /\ JobDone(v.row, n) /\ ~ Uncounted(n)
    BY <2>2, <2>3 DEF JobDone, Uncounted
  <2>5. Owed(v, n) = Owed(v, e)
    BY <1>1, <2>2, <2>3, <2>4 DEF Owed, One
  <2>6. Placed(v, n)
    BY <2>3, <2>4 DEF Placed
  <2>7. v.row.id = e.job => v.row.state = "done"
    BY <2>4 DEF JobDone
  <2>8. Resting(0, v, n)
    <3>1. v.read # Nothing => v.row.state = "running"
      BY DEF Sound, SoundRead
    <3> QED BY <2>3, <2>5, <2>7, <3>1 DEF Resting, Progressed, Voided, Covered
  <2>9. OpenAt(d, v, n)
    <3>1. Caught(d, v, n)
      BY <1>1, <2>5 DEF Caught
    <3>2. v.row.id # e.job => Base(v, e) = e.tries + 1
      BY <1>1, <2>2, <2>4 DEF Base, One
    <3>3. n.tries <= d \/ (n.tries = d + 1 /\ v.row.id = n.job /\ v.row.state = "done")
      BY <1>1, <2>3, <2>7, <3>2
    <3> QED BY <3>1, <3>3 DEF OpenAt
  <2> QED BY <1>1, <2>1, <2>3, <2>6, <2>8, <2>9
<1> QED BY <1>2, <1>3

-----------------------------------------------------------------------------
(* What a submission and its record do to the queue.                       *)

Aged(a) == IF a = Nothing THEN Nothing ELSE [a EXCEPT !.newer = Earlier(@)]
Kept(a) == IF a = Nothing THEN Nothing ELSE [a EXCEPT !.newer = Retained(@)]

\* A session's submission; the file is one of those it is for, or not.
Submits(wanted, v, w) ==
  w = [v EXCEPT !.row = Enqueued(v.row), !.ack = IF wanted THEN Aged(v.ack) ELSE v.ack,
                !.read = IF wanted THEN Aged(v.read) ELSE v.read]

Records(sent, v, w) ==
  w = [v EXCEPT !.ack = IF sent THEN Kept(v.ack) ELSE v.ack,
                !.read = IF sent THEN Kept(v.read) ELSE v.read]

Submittable(r) == Enqueued(r).id <= MaxIds /\ (r.state # "done" => r.id # 0)

LEMMA Ageing ==
  ASSUME NEW v \in View
  PROVE  /\ Aged(v.ack) \in OrNothing(Ack) /\ Kept(v.ack) \in OrNothing(Ack)
         /\ Aged(v.read) \in OrNothing(Read) /\ Kept(v.read) \in OrNothing(Read)
         /\ v.ack = Nothing => Aged(v.ack) = Nothing /\ Kept(v.ack) = Nothing
         /\ v.ack # Nothing =>
              /\ Aged(v.ack) # Nothing /\ Aged(v.ack).stamp = v.ack.stamp
              /\ Aged(v.ack).newer = Earlier(v.ack.newer)
              /\ Kept(v.ack) # Nothing /\ Kept(v.ack).stamp = v.ack.stamp
              /\ Kept(v.ack).newer = Retained(v.ack.newer)
         /\ v.read = Nothing => Aged(v.read) = Nothing /\ Kept(v.read) = Nothing
         /\ v.read # Nothing =>
              /\ Aged(v.read) # Nothing /\ Aged(v.read).rev = v.read.rev
              /\ Aged(v.read).end = v.read.end /\ Aged(v.read).empty = v.read.empty
              /\ Aged(v.read).newer = Earlier(v.read.newer)
              /\ Kept(v.read) # Nothing /\ Kept(v.read).rev = v.read.rev
              /\ Kept(v.read).end = v.read.end /\ Kept(v.read).empty = v.read.empty
              /\ Kept(v.read).newer = Retained(v.read.newer)
<1>1. \A n \in 0..2 : Earlier(n) \in 0..2 /\ Retained(n) \in 0..2
  BY DEF Earlier, Retained
<1>2. ASSUME v.ack # Nothing
      PROVE  v.ack \in Ack /\ Aged(v.ack) \in Ack /\ Kept(v.ack) \in Ack
  BY <1>1, <1>2 DEF View, OrNothing, Ack, Aged, Kept
<1>3. ASSUME v.read # Nothing
      PROVE  v.read \in Read /\ Aged(v.read) \in Read /\ Kept(v.read) \in Read
  <2>1. v.read \in Read
    BY <1>3 DEF View, OrNothing
  <2> QED BY <1>1, <1>3, <2>1 DEF Read, Aged, Kept
<1>4. /\ Aged(v.ack) \in OrNothing(Ack) /\ Kept(v.ack) \in OrNothing(Ack)
      /\ Aged(v.read) \in OrNothing(Read) /\ Kept(v.read) \in OrNothing(Read)
  BY <1>2, <1>3 DEF OrNothing, Aged, Kept
<1>5. /\ v.ack # Nothing => Aged(v.ack) # Nothing /\ Kept(v.ack) # Nothing
      /\ v.read # Nothing => Aged(v.read) # Nothing /\ Kept(v.read) # Nothing
  BY <1>2, <1>3, NothingAssumption
<1>6. v.ack # Nothing =>
        /\ Aged(v.ack).stamp = v.ack.stamp /\ Aged(v.ack).newer = Earlier(v.ack.newer)
        /\ Kept(v.ack).stamp = v.ack.stamp /\ Kept(v.ack).newer = Retained(v.ack.newer)
  BY <1>2 DEF Aged, Kept, Ack
<1>7. v.read # Nothing =>
        /\ Aged(v.read).rev = v.read.rev /\ Aged(v.read).end = v.read.end
        /\ Aged(v.read).empty = v.read.empty /\ Aged(v.read).newer = Earlier(v.read.newer)
        /\ Kept(v.read).rev = v.read.rev /\ Kept(v.read).end = v.read.end
        /\ Kept(v.read).empty = v.read.empty /\ Kept(v.read).newer = Retained(v.read.newer)
  BY <1>3 DEF Aged, Kept, Read
<1> QED BY <1>4, <1>5, <1>6, <1>7 DEF Aged, Kept

\* A row that is enqueued is the session's next, or the one it had.
LEMMA EnqueuedRow ==
  ASSUME NEW r \in Job, Submittable(r)
  PROVE  /\ Enqueued(r) \in Job /\ r.id \in Nat /\ Enqueued(r).id \in Nat
         /\ Enqueued(r).id = r.id \/ Enqueued(r).id = r.id + 1
         /\ Enqueued(r).state # "done" /\ Enqueued(r).id > 0
         /\ Enqueued(r).state = "running" <=> r.state = "running"
         /\ r.state = "running" => Enqueued(r).id = r.id
         /\ r.state = "done" => Enqueued(r).id = r.id + 1
         /\ \A e : e.job \in 1..r.id => (JobDone(Enqueued(r), e) <=> JobDone(r, e))
<1>1. /\ Enqueued(r) \in Job /\ Enqueued(r).id \in Nat \ {0} /\ r.id \in Nat
      /\ Enqueued(r).state = "running" <=> r.state = "running"
  BY EnqueuedIs, PollerAssumption DEF Submittable, Job
<1>2. CASE r.state \in {"done", "hopeless"}
  <2>1. /\ Enqueued(r).id = r.id + 1 /\ Enqueued(r).state = "pending"
        /\ Enqueued(r).dead = IF r.state = "hopeless" THEN r.dead \union {r.id} ELSE r.dead
    BY <1>2 DEF Enqueued, NewRow
  <2>2. ASSUME NEW e, e.job \in 1..r.id PROVE JobDone(Enqueued(r), e) <=> JobDone(r, e)
    BY <1>1, <1>2, <2>1, <2>2 DEF JobDone
  <2> QED BY <1>1, <1>2, <2>1, <2>2
<1>3. CASE r.state \notin {"done", "hopeless"}
  <2>1. /\ Enqueued(r).id = r.id /\ Enqueued(r).dead = r.dead
        /\ Enqueued(r).state = IF r.state = "failed" THEN "pending" ELSE r.state
    BY <1>3 DEF Enqueued, Job
  <2>2. ASSUME NEW e PROVE JobDone(Enqueued(r), e) <=> JobDone(r, e)
    BY <1>3, <2>1 DEF JobDone
  <2> QED BY <1>1, <1>3, <2>1, <2>2
<1> QED BY <1>2, <1>3

LEMMA SubmitsIs ==
  ASSUME NEW v, NEW w, NEW wanted, Sound(v), Submits(wanted, v, w), Submittable(v.row)
  PROVE  /\ Sound(w) /\ w.row = Enqueued(v.row)
         /\ w.offset = v.offset /\ w.rev = v.rev /\ w.end = v.end /\ w.passed = v.passed
         /\ v.ack = Nothing <=> w.ack = Nothing
         /\ v.ack # Nothing => /\ w.ack.stamp = v.ack.stamp
                               /\ w.ack.newer = v.ack.newer \/ w.ack.newer = Earlier(v.ack.newer)
                               /\ wanted => w.ack.newer = Earlier(v.ack.newer)
         /\ v.read = Nothing <=> w.read = Nothing
         /\ v.read # Nothing => /\ w.read.rev = v.read.rev
                                /\ w.read.newer = v.read.newer \/ w.read.newer = Earlier(v.read.newer)
                                /\ wanted => w.read.newer = Earlier(v.read.newer)
<1>1. v \in View /\ v.row \in Job
  BY DEF Sound, View
<1>2. PICK row1, ack1, read1 :
        /\ row1 = Enqueued(v.row) /\ ack1 = (IF wanted THEN Aged(v.ack) ELSE v.ack)
        /\ read1 = (IF wanted THEN Aged(v.read) ELSE v.read)
  OBVIOUS
<1>3. w = [v EXCEPT !.row = row1, !.ack = ack1, !.read = read1]
  BY <1>2 DEF Submits
<1>4. row1 \in Job /\ (row1.state = "running" <=> v.row.state = "running")
  BY <1>1, <1>2, EnqueuedRow
<1>5. ack1 \in OrNothing(Ack) /\ read1 \in OrNothing(Read)
  BY <1>1, <1>2, Ageing DEF View
<1>6. /\ w \in View /\ w.row = row1 /\ w.ack = ack1 /\ w.read = read1
      /\ w.offset = v.offset /\ w.rev = v.rev /\ w.end = v.end /\ w.passed = v.passed
  BY <1>1, <1>3, <1>4, <1>5 DEF View
<1>7. /\ v.ack = Nothing <=> ack1 = Nothing
      /\ v.ack # Nothing => /\ ack1.stamp = v.ack.stamp
                            /\ ack1.newer = v.ack.newer \/ ack1.newer = Earlier(v.ack.newer)
                            /\ wanted => ack1.newer = Earlier(v.ack.newer)
  BY <1>1, <1>2, Ageing
<1>8. /\ v.read = Nothing <=> read1 = Nothing
      /\ v.read # Nothing => /\ read1.rev = v.read.rev /\ read1.end = v.read.end
                             /\ read1.empty = v.read.empty
                             /\ read1.newer = v.read.newer \/ read1.newer = Earlier(v.read.newer)
                             /\ wanted => read1.newer = Earlier(v.read.newer)
  BY <1>1, <1>2, Ageing
<1>9. Sound(w)
  BY <1>4, <1>6, <1>7, <1>8 DEF Sound, SoundRead
<1> QED BY <1>2, <1>6, <1>7, <1>8, <1>9

\* The entry of before stands as it stood.
LEMMA SubmitKeeps ==
  ASSUME NEW v, NEW w, NEW wanted, NEW e, Sound(v), Submits(wanted, v, w), Submittable(v.row),
         Placed(v, e)
  PROVE  Placed(w, e) /\ (Resting(0, v, e) => Resting(0, w, e))
<1>1. /\ w.row = Enqueued(v.row)
      /\ w.offset = v.offset /\ w.rev = v.rev /\ w.passed = v.passed
      /\ v.ack = Nothing <=> w.ack = Nothing
      /\ v.read = Nothing <=> w.read = Nothing
      /\ v.ack # Nothing => /\ w.ack.stamp = v.ack.stamp
                            /\ w.ack.newer = v.ack.newer \/ w.ack.newer = Earlier(v.ack.newer)
      /\ v.read # Nothing => /\ w.read.rev = v.read.rev
                             /\ w.read.newer = v.read.newer \/ w.read.newer = Earlier(v.read.newer)
  BY SubmitsIs
<1>2. /\ v.row \in Job /\ e.job \in 1..v.row.id
      /\ v.passed \/ v.read # Nothing => v.row.state = "running"
      /\ v.ack # Nothing => v.ack.newer \in 0..2
      /\ v.read # Nothing => v.read.newer \in 0..2
  BY ViewIs DEF Sound, SoundRead, View, Placed
<1>3. /\ w.row.id \in Nat /\ v.row.id \in Nat
      /\ w.row.id = v.row.id \/ w.row.id = v.row.id + 1
      /\ v.row.state = "running" => w.row.id = v.row.id
      /\ JobDone(w.row, e) <=> JobDone(v.row, e)
  BY <1>1, <1>2, EnqueuedRow
<1>4. Placed(w, e)
  BY <1>1, <1>3 DEF Placed
<1>5. Owed(w, e) = Owed(v, e)
  BY <1>1, <1>2, <1>3 DEF Owed
<1>6. \A n \in 0..2 : n > 0 => Earlier(n) > 0
  BY DEF Earlier
<1>7. /\ v.ack # Nothing /\ v.ack.newer > 0 => w.ack.newer > 0
      /\ v.read # Nothing /\ v.read.newer > 0 => w.read.newer > 0
  BY <1>1, <1>2, <1>6
<1>8. ASSUME Resting(0, v, e) PROVE Resting(0, w, e)
  BY <1>1, <1>2, <1>3, <1>5, <1>7, <1>8 DEF Resting, Progressed, Voided, Covered
<1> QED BY <1>4, <1>8

\* A wanted file that had no entry: a job already past it has left a trace.
FreshAt(c, v) == v.passed => v.rev > 0 \/ v.ack # Nothing \/ v.offset # c

\* A job that found a file as it was at boot has read all of it.
AtBoot(v) == v.passed /\ v.rev = 0 => v.ack # Nothing \/ v.offset = v.end

LEMMA BootKept ==
  ASSUME NEW v, NEW w, NEW c \in OrNothing(Offset), Sound(v), QueueStep(TRUE, v, w)
  PROVE  /\ AtBoot(v) => AtBoot(w)
         /\ AtMost(c, v.offset) => AtMost(c, w.offset) /\ (FreshAt(c, v) => FreshAt(c, w))
<1>1. /\ v \in View /\ w \in View /\ v.rev \in Nat /\ w.rev \in Nat
      /\ v.offset \in OrNothing(Offset) /\ w.offset \in OrNothing(Offset)
  BY SoundKept, ViewIs DEF Sound
<1>2. AtMost(c, v.offset) => AtMost(c, w.offset)
  BY <1>1, StepForward, CursorsAdvance
<1>3. CASE w = v
  BY <1>2, <1>3
<1>4. CASE Writes(v, w)
  <2>1. w.rev > 0
    BY <1>1, <1>4, WritesIs
  <2> QED BY <1>1, <1>2, <2>1 DEF AtBoot, FreshAt
<1>5. CASE Claims(TRUE, v, w) \/ Reads(v, w) \/ Ends(v, w)
  <2>1. ~ w.passed
    BY <1>5, ClaimsIs, ReadsIs, EndsIs
  <2> QED BY <1>2, <2>1 DEF AtBoot, FreshAt
<1>6. CASE Commits(v, w)
  <2>1. /\ v.read # Nothing /\ SoundRead(v) /\ w.rev = v.rev /\ w.end = v.end
        /\ w.offset = IF v.read.empty /\ v.offset = Nothing THEN v.offset ELSE v.read.end
        /\ v.read.empty => w.ack # Nothing
    BY <1>6, CommitsIs
  <2>2. CASE v.read.empty
    BY <1>2, <2>1, <2>2 DEF AtBoot, FreshAt
  <2>3. CASE ~ v.read.empty
    <3>1. w.offset = v.read.end /\ v.offset # v.read.end /\ AtMost(v.offset, w.offset)
      BY <2>1, <2>3 DEF SoundRead
    <3>2. v.rev = 0 => w.offset = w.end
      BY <1>1, <2>1, <3>1, ViewIs DEF SoundRead
    <3>3. AtMost(c, v.offset) => w.offset # c
      BY <1>1, <3>1, CursorsAdvance
    <3> QED BY <1>2, <2>1, <3>2, <3>3 DEF AtBoot, FreshAt
  <2> QED BY <2>2, <2>3
<1> QED BY <1>3, <1>4, <1>5, <1>6 DEF QueueStep

Resubmission(e, c, d, id) ==
  [cursor |-> IF e = Nothing THEN c ELSE e.cursor, stamp |-> d, job |-> id,
   tries |-> IF e = Nothing THEN 0 ELSE e.tries,
   last |-> IF e = Nothing \/ e.last = id THEN 0 ELSE e.last]

\* A submission of a file the pass saw at revision d: each attempt counted had
\* a revision of its own, up to d, and one more has one that is newer; so the
\* entry can rest.
LEMMA ResubmissionIs ==
  ASSUME NEW v, NEW w, NEW c \in OrNothing(Offset), NEW d \in Nat, NEW e,
         Sound(v), Submits(TRUE, v, w), Submittable(v.row), d <= v.rev, AtMost(c, v.offset),
         e = Nothing => FreshAt(c, v),
         e # Nothing => Placed(v, e) /\ OpenAt(d, v, e)
  PROVE  /\ Placed(w, Resubmission(e, c, d, w.row.id))
         /\ Resubmission(e, c, d, w.row.id).job = w.row.id
         /\ Resting(1, w, Resubmission(e, c, d, w.row.id))
<1>1. PICK n : n = Resubmission(e, c, d, w.row.id)
  OBVIOUS
<1>2. /\ w.row = Enqueued(v.row) /\ Sound(w)
      /\ w.offset = v.offset /\ w.rev = v.rev /\ w.passed = v.passed
      /\ v.ack = Nothing <=> w.ack = Nothing
      /\ v.read = Nothing <=> w.read = Nothing
      /\ v.ack # Nothing => w.ack.stamp = v.ack.stamp
      /\ v.read # Nothing => w.read.rev = v.read.rev
  <2>1. PICK wanted : wanted = TRUE
    OBVIOUS
  <2>2. Submits(wanted, v, w)
    BY <2>1
  <2> QED BY <2>2, SubmitsIs
<1>3. /\ v \in View /\ v.row \in Job /\ v.rev \in Nat
      /\ v.ack # Nothing => v.ack.stamp \in Nat /\ v.ack.stamp <= v.rev
      /\ v.read # Nothing => /\ v.read.rev \in Nat
                             /\ v.ack # Nothing => v.ack.stamp <= v.read.rev
      /\ v.passed \/ v.read # Nothing => v.row.state = "running"
      /\ v.passed => v.read = Nothing
  BY ViewIs DEF Sound, SoundRead
<1>4. /\ w.row.id \in Nat /\ w.row.id > 0 /\ w.row.state # "done" /\ v.row.id \in Nat
      /\ v.row.state = "running" => w.row.id = v.row.id
      /\ v.row.state = "done" => w.row.id = v.row.id + 1
  BY <1>2, <1>3, EnqueuedRow
<1>5. e # Nothing => /\ e \in Entry /\ e.tries \in 0..StallPasses /\ e.last \in Nat
                     /\ e.cursor \in OrNothing(Offset)
  BY DEF Placed, Entry
<1>6. /\ n.cursor = (IF e = Nothing THEN c ELSE e.cursor) /\ n.stamp = d /\ n.job = w.row.id
      /\ n.tries = (IF e = Nothing THEN 0 ELSE e.tries)
      /\ n.last = (IF e = Nothing \/ e.last = w.row.id THEN 0 ELSE e.last)
  BY <1>1 DEF Resubmission
<1>7. n \in Entry /\ n.tries \in Nat
  <2>1. /\ n.cursor \in OrNothing(Offset) /\ n.tries \in 0..StallPasses /\ n.last \in Nat
        /\ StallPasses \in Nat
    BY <1>5, <1>6, PollerAssumption
  <2>2. n = [cursor |-> n.cursor, stamp |-> n.stamp, job |-> n.job, tries |-> n.tries,
             last |-> n.last]
    BY <1>1, <1>6 DEF Resubmission
  <2> QED BY <1>4, <1>6, <2>1, <2>2 DEF Entry
<1>8. Uncounted(n) /\ ~ JobDone(w.row, n)
  BY <1>4, <1>6 DEF Uncounted, JobDone
<1>9. Placed(w, n)
  <2>1. AtMost(n.cursor, w.offset)
    BY <1>2, <1>6 DEF Placed
  <2> QED BY <1>2, <1>4, <1>6, <1>7, <1>8, <2>1 DEF Placed
<1>10. Owed(w, n) = n.tries + One(v.passed)
  BY <1>2, <1>6, <1>7, <1>8 DEF Owed, One
<1>11. ASSUME ~ Progressed(w, n), ~ Voided(1, w, n) PROVE Covered(1, w, n)
  <2>1. v.ack # Nothing /\ v.read = Nothing => v.ack.stamp # d
    BY <1>2, <1>6, <1>11 DEF Voided
  <2>2. SUFFICES /\ n.tries + One(v.passed) <= v.rev
                 /\ v.read # Nothing => n.tries <= v.read.rev /\ n.tries <= d
    BY <1>2, <1>3, <1>6, <1>7, <1>10 DEF Covered, One
  <2>3. CASE e = Nothing
    <3>1. n.tries = 0 /\ ~ (v.offset # c)
      BY <1>2, <1>6, <1>11, <2>3 DEF Progressed
    <3>2. v.passed => v.rev > 0
      BY <1>3, <2>1, <2>3, <3>1 DEF FreshAt
    <3> QED BY <1>3, <3>1, <3>2 DEF One
  <2>4. CASE e # Nothing
    <3>1. n.tries = e.tries /\ ~ Progressed(v, e) /\ Placed(v, e)
      BY <1>2, <1>6, <1>11, <2>4 DEF Progressed
    <3>2. /\ e.tries <= d \/ (e.tries = d + 1 /\ v.row.state = "done")
          /\ Caught(d, v, e)
      BY <2>4, <3>1 DEF OpenAt
    <3>3. e.tries \in Nat /\ Owed(v, e) \in Nat /\ e.tries <= Owed(v, e)
      BY <3>1, OwedIs
    <3>4. v.passed => Owed(v, e) >= e.tries + 1
      <4>1. v.row.id = e.job /\ v.passed => Uncounted(e)
        BY <1>3, <3>1 DEF Placed, JobDone
      <4> QED BY <3>3, <4>1 DEF Owed, One
    <3>5. CASE Owed(v, e) <= v.rev /\ (v.read # Nothing => Owed(v, e) <= v.read.rev)
      BY <1>3, <3>1, <3>2, <3>3, <3>4, <3>5 DEF One
    <3>6. CASE v.ack # Nothing /\ v.ack.stamp >= d
      <4>1. v.read = Nothing => v.rev >= d + 1
        BY <1>3, <2>1, <3>6
      <4>2. v.read # Nothing => v.read.rev >= d /\ e.tries <= d
        BY <1>3, <3>2, <3>6
      <4>3. e.tries <= d + 1 /\ (v.passed => e.tries <= d)
        BY <1>3, <3>2, <3>3
      <4> QED BY <1>3, <3>1, <3>3, <4>1, <4>2, <4>3 DEF One
    <3> QED BY <3>2, <3>5, <3>6 DEF Caught
  <2> QED BY <2>3, <2>4
<1> QED BY <1>1, <1>6, <1>9, <1>11 DEF Resting

\* What the pass records it retains: an entry it submitted is at rest.
LEMMA RecordsIs ==
  ASSUME NEW v, NEW w, NEW sent, Sound(v), Records(sent, v, w)
  PROVE  /\ Sound(w) /\ (AtBoot(v) => AtBoot(w)) /\ w.row = v.row /\ w.offset = v.offset
         /\ \A e : Placed(v, e) =>
              /\ Placed(w, e)
              /\ (IF sent THEN Resting(1, v, e) ELSE Resting(0, v, e)) => Resting(0, w, e)
<1>1. CASE ~ sent
  <2>1. w = [v EXCEPT !.ack = v.ack, !.read = v.read]
    BY <1>1 DEF Records
  <2>2. w = v
    BY <2>1 DEF Sound, View
  <2> QED BY <1>1, <2>2
<1>2. CASE sent
  <2>1. v \in View /\ w = [v EXCEPT !.ack = Kept(v.ack), !.read = Kept(v.read)]
    BY <1>2 DEF Records, Sound
  <2>2. PICK ack1, read1 : ack1 = Kept(v.ack) /\ read1 = Kept(v.read)
    OBVIOUS
  <2>3. /\ ack1 \in OrNothing(Ack) /\ read1 \in OrNothing(Read)
        /\ v.ack = Nothing <=> ack1 = Nothing
        /\ v.ack # Nothing => ack1.stamp = v.ack.stamp /\ ack1.newer = Retained(v.ack.newer)
        /\ v.read = Nothing <=> read1 = Nothing
        /\ v.read # Nothing => /\ read1.rev = v.read.rev /\ read1.end = v.read.end
                               /\ read1.empty = v.read.empty
                               /\ read1.newer = Retained(v.read.newer)
    BY <2>1, <2>2, Ageing
  <2>4. /\ w \in View /\ w.ack = ack1 /\ w.read = read1 /\ w.row = v.row
        /\ w.offset = v.offset /\ w.rev = v.rev /\ w.end = v.end /\ w.passed = v.passed
    BY <2>1, <2>2, <2>3 DEF View
  <2>5. Sound(w)
    BY <2>3, <2>4 DEF Sound, SoundRead
  <2>6. AtBoot(v) => AtBoot(w)
    BY <2>3, <2>4 DEF AtBoot
  <2>7. /\ v.ack # Nothing => v.ack.newer \in 0..2
        /\ v.read # Nothing => v.read.newer \in 0..2
    BY <2>1, ViewIs
  <2>8. \A n \in 0..2 : n > 1 => Retained(n) > 0
    BY DEF Retained
  <2>9. /\ v.ack # Nothing /\ v.ack.newer > 1 => w.ack.newer > 0
        /\ v.read # Nothing /\ v.read.newer > 1 => w.read.newer > 0
    BY <2>3, <2>4, <2>7, <2>8
  <2>10. ASSUME NEW e, Placed(v, e) PROVE Placed(w, e) /\ (Resting(1, v, e) => Resting(0, w, e))
    <3>1. Placed(w, e) /\ Owed(w, e) = Owed(v, e)
      BY <2>4, <2>10 DEF Placed, Owed
    <3>2. Progressed(w, e) <=> Progressed(v, e)
      BY <2>4 DEF Progressed
    <3>3. Voided(1, v, e) => Voided(0, w, e)
      BY <2>3, <2>4, <2>9 DEF Voided
    <3>4. Covered(1, v, e) => Covered(0, w, e)
      BY <2>3, <2>4, <2>9, <3>1 DEF Covered
    <3> QED BY <3>1, <3>2, <3>3, <3>4 DEF Resting
  <2> QED BY <1>2, <2>4, <2>5, <2>6, <2>10
<1> QED BY <1>1, <1>2

-----------------------------------------------------------------------------
(* What a state shows of a file, and what the steps do to it.               *)

Reading(f) == run[f[1]].read # Nothing /\ Head(run[f[1]].ahead) = f
Passed(f) == row[f[1]].state = "running" /\ f \notin Range(run[f[1]].ahead)

FileView(f) ==
  [offset |-> offsets[f], ack |-> ack[f], rev |-> disk[f].rev, end |-> EndOf(f),
   row |-> row[f[1]], read |-> IF Reading(f) THEN run[f[1]].read ELSE Nothing,
   passed |-> Passed(f)]

\* The files whose jobs read them, and those whose jobs do not.
Reach == {f \in File : f[1] \notin Mislaid}
Astray == {f \in File : f[1] \in Mislaid}

LEMMA HeadFirst ==
  ASSUME NEW S, NEW q \in Seq(S), q # <<>>
  PROVE  /\ Head(q) \in Range(q)
         /\ \A x : x # Head(q) => (x \in Range(q) <=> x \in Range(Tail(q)))
<1>1. /\ Len(q) \in Nat /\ Len(q) > 0 /\ DOMAIN q = 1..Len(q) /\ Head(q) = q[1]
      /\ Tail(q) \in Seq(S) /\ Len(Tail(q)) = Len(q) - 1
      /\ \A i \in 1..(Len(q) - 1) : Tail(q)[i] = q[i + 1]
  BY HeadTailProperties, LenProperties, EmptySeq
<1>2. DOMAIN Tail(q) = 1..(Len(q) - 1)
  BY <1>1, LenProperties
<1>3. ASSUME NEW x, x # Head(q), x \in Range(q) PROVE x \in Range(Tail(q))
  <2>1. PICK i \in 1..Len(q) : q[i] = x
    BY <1>1, <1>3 DEF Range
  <2>2. i - 1 \in 1..(Len(q) - 1) /\ Tail(q)[i - 1] = x
    BY <1>1, <1>3, <2>1
  <2> QED BY <1>2, <2>2 DEF Range
<1>4. ASSUME NEW x, x \in Range(Tail(q)) PROVE x \in Range(q)
  <2>1. PICK i \in 1..(Len(q) - 1) : Tail(q)[i] = x
    BY <1>2, <1>4 DEF Range
  <2>2. i + 1 \in 1..Len(q) /\ q[i + 1] = x
    BY <1>1, <2>1
  <2> QED BY <1>1, <2>2 DEF Range
<1> QED BY <1>1, <1>3, <1>4 DEF Range

LEMMA ViewTyped ==
  ASSUME PollerTyped, NEW f \in File
  PROVE  /\ FileView(f) \in View
         /\ FileView(f).passed => /\ FileView(f).read = Nothing
                                  /\ FileView(f).row.state = "running"
         /\ FileView(f).read # Nothing => FileView(f).row.state = "running"
<1>1. f[1] \in Session
  BY SessionIs
<1>2. /\ offsets[f] \in OrNothing(Offset) /\ ack[f] \in OrNothing(Ack) /\ disk[f] \in Disk
      /\ row[f[1]] \in Job /\ run[f[1]] \in Run
      /\ row[f[1]].state # "running" => run[f[1]] = NoRun
      /\ run[f[1]].read # Nothing => run[f[1]].ahead # <<>>
  BY <1>1 DEF PollerTyped, DiskTyped, QueueTyped
<1>3. EndOf(f) \in Offset /\ disk[f].rev \in Nat
  BY <1>2 DEF EndOf, Disk, Offset
<1>4. /\ run[f[1]].read \in OrNothing(Read) /\ run[f[1]].ahead \in Seq(File)
      /\ NoRun.read = Nothing
  BY <1>2 DEF Run, NoRun
<1>5. PICK read : read = IF Reading(f) THEN run[f[1]].read ELSE Nothing
  OBVIOUS
<1>5a. PICK past \in BOOLEAN : past = Passed(f)
  BY DEF Passed
<1>6. read \in OrNothing(Read)
  BY <1>4, <1>5 DEF OrNothing
<1>7. /\ FileView(f) = [offset |-> offsets[f], ack |-> ack[f], rev |-> disk[f].rev,
                        end |-> EndOf(f), row |-> row[f[1]], read |-> read, passed |-> past]
  BY <1>5, <1>5a DEF FileView
<1>8. FileView(f) \in View
  BY <1>2, <1>3, <1>6, <1>7 DEF View
<1>9. read # Nothing => /\ row[f[1]].state = "running" /\ f \in Range(run[f[1]].ahead)
  BY <1>2, <1>4, <1>5, HeadFirst DEF Reading
<1>10. past => read = Nothing /\ row[f[1]].state = "running"
  BY <1>5a, <1>9 DEF Passed
<1> QED BY <1>7, <1>8, <1>9, <1>10

LEMMA NextView ==
  ASSUME NEW f \in File PROVE (PollerTyped => FileView(f) \in View)'
<1>1. PollerTyped => FileView(f) \in View
  BY ViewTyped
<1> QED BY <1>1, PTL

LEMMA Fields ==
  ASSUME NEW f \in File
  PROVE  /\ FileView(f).offset = offsets[f] /\ FileView(f).ack = ack[f]
         /\ FileView(f).rev = disk[f].rev /\ FileView(f).end = EndOf(f)
         /\ FileView(f).row = row[f[1]] /\ FileView(f).passed = Passed(f)
         /\ FileView(f).read = IF Reading(f) THEN run[f[1]].read ELSE Nothing
         /\ FileView(f)'.offset = offsets'[f] /\ FileView(f)'.ack = ack'[f]
         /\ FileView(f)'.rev = disk'[f].rev /\ FileView(f)'.end = EndOf(f)'
         /\ FileView(f)'.row = row'[f[1]] /\ FileView(f)'.passed = Passed(f)'
         /\ FileView(f)'.read = IF Reading(f)' THEN run'[f[1]].read ELSE Nothing
BY DEF FileView

\* A step of the queue by what it leaves and what it changes.
LEMMA StepIf ==
  ASSUME NEW v \in View, NEW w \in View, NEW known
  PROVE  /\ /\ w.offset = v.offset /\ w.ack = v.ack /\ w.rev = v.rev /\ w.end = v.end
            /\ w.row = v.row /\ w.read = v.read /\ w.passed = v.passed
            => w = v
         /\ /\ w.offset = v.offset /\ w.ack = v.ack /\ w.row = v.row /\ w.read = v.read
            /\ w.passed = v.passed /\ w.rev > v.rev /\ AtMost(v.end, w.end)
            => Writes(v, w)
         /\ /\ w.offset = v.offset /\ w.ack = v.ack /\ w.rev = v.rev /\ w.end = v.end
            /\ w.read = v.read /\ v.row.state = "pending"
            /\ w.row = [v.row EXCEPT !.state = "running"] /\ (known => ~ w.passed)
            => Claims(known, v, w)
         /\ /\ w.offset = v.offset /\ w.ack = v.ack /\ w.rev = v.rev /\ w.end = v.end
            /\ w.row = v.row /\ w.passed = v.passed
            /\ v.row.state = "running" /\ v.read = Nothing /\ ~ v.passed
            /\ w.read \in Read /\ (~ w.read.empty => v.offset # v.end)
            /\ w.read = [end |-> v.end, rev |-> v.rev, newer |-> 2, empty |-> w.read.empty]
            => Reads(v, w)
         /\ /\ v.read # Nothing /\ w.read = Nothing
            /\ w.rev = v.rev /\ w.end = v.end /\ w.row = v.row
            /\ w.offset = (IF v.read.empty /\ v.offset = Nothing THEN v.offset ELSE v.read.end)
            /\ w.ack = (IF v.read.empty THEN [stamp |-> v.read.rev, newer |-> v.read.newer]
                        ELSE v.ack)
            => Commits(v, w)
         /\ \A state \in {"pending", "done", "failed", "hopeless"} :
              /\ w.offset = v.offset /\ w.ack = v.ack /\ w.rev = v.rev /\ w.end = v.end
              /\ v.row.state = "running" /\ (state = "done" => v.passed)
              /\ w.row = [v.row EXCEPT !.state = state] /\ w.read = Nothing /\ ~ w.passed
              => Ends(v, w)
<1>1. v.passed \in BOOLEAN /\ w.passed \in BOOLEAN /\ w.end \in Offset /\ w.rev \in Nat
  BY DEF View
<1>3. /\ w.offset = v.offset /\ w.ack = v.ack /\ w.rev = v.rev /\ w.end = v.end
      /\ w.row = v.row /\ w.read = v.read /\ w.passed = v.passed
      => w = v
  BY DEF View
<1>4. /\ w.offset = v.offset /\ w.ack = v.ack /\ w.row = v.row /\ w.read = v.read
      /\ w.passed = v.passed /\ w.rev > v.rev /\ AtMost(v.end, w.end)
      => Writes(v, w)
  <2> SUFFICES ASSUME w.offset = v.offset, w.ack = v.ack, w.row = v.row, w.read = v.read,
                      w.passed = v.passed
               PROVE  w = [v EXCEPT !.rev = w.rev, !.end = w.end]
    BY <1>1 DEF Writes
  <2> QED BY DEF View
<1>5. /\ w.offset = v.offset /\ w.ack = v.ack /\ w.rev = v.rev /\ w.end = v.end
      /\ w.read = v.read /\ v.row.state = "pending"
      /\ w.row = [v.row EXCEPT !.state = "running"] /\ (known => ~ w.passed)
      => Claims(known, v, w)
  <2> SUFFICES ASSUME w.offset = v.offset, w.ack = v.ack, w.rev = v.rev, w.end = v.end,
                      w.read = v.read, NEW row1, w.row = row1
               PROVE  w = [v EXCEPT !.row = row1, !.passed = w.passed]
    BY <1>1 DEF Claims
  <2> QED BY DEF View
<1>6. /\ w.offset = v.offset /\ w.ack = v.ack /\ w.rev = v.rev /\ w.end = v.end
      /\ w.row = v.row /\ w.passed = v.passed
      /\ v.row.state = "running" /\ v.read = Nothing /\ ~ v.passed
      /\ w.read \in Read /\ (~ w.read.empty => v.offset # v.end)
      /\ w.read = [end |-> v.end, rev |-> v.rev, newer |-> 2, empty |-> w.read.empty]
      => Reads(v, w)
  <2> SUFFICES ASSUME w.offset = v.offset, w.ack = v.ack, w.rev = v.rev, w.end = v.end,
                      w.row = v.row, w.passed = v.passed, NEW read1, w.read = read1
               PROVE  w = [v EXCEPT !.read = read1]
    BY <1>1 DEF Reads, Read
  <2> QED BY DEF View
<1>7. /\ v.read # Nothing /\ w.read = Nothing
      /\ w.rev = v.rev /\ w.end = v.end /\ w.row = v.row
      /\ w.offset = (IF v.read.empty /\ v.offset = Nothing THEN v.offset ELSE v.read.end)
      /\ w.ack = (IF v.read.empty THEN [stamp |-> v.read.rev, newer |-> v.read.newer]
                  ELSE v.ack)
      => Commits(v, w)
  <2> SUFFICES ASSUME v.read # Nothing, w.rev = v.rev, w.end = v.end, w.row = v.row,
                      w.read = Nothing, NEW offset1, w.offset = offset1,
                      offset1 = IF v.read.empty /\ v.offset = Nothing THEN v.offset ELSE v.read.end,
                      NEW ack1, w.ack = ack1,
                      ack1 = IF v.read.empty THEN [stamp |-> v.read.rev, newer |-> v.read.newer]
                             ELSE v.ack
               PROVE  Commits(v, w)
    OBVIOUS
  <2>1. w = [v EXCEPT !.offset = offset1, !.ack = ack1, !.read = Nothing, !.passed = w.passed]
    BY DEF View
  <2> QED BY <1>1, <2>1 DEF Commits
<1>8. ASSUME NEW state \in {"pending", "done", "failed", "hopeless"},
             w.offset = v.offset, w.ack = v.ack, w.rev = v.rev, w.end = v.end,
             v.row.state = "running", state = "done" => v.passed,
             w.row = [v.row EXCEPT !.state = state], w.read = Nothing, ~ w.passed
      PROVE  Ends(v, w)
  <2>1. w.passed = FALSE
    BY <1>1, <1>8
  <2>2. PICK row1 : w.row = row1
    OBVIOUS
  <2>3. w = [v EXCEPT !.row = row1, !.read = Nothing, !.passed = FALSE]
    BY <1>8, <2>1, <2>2 DEF View
  <2> QED BY <1>8, <2>2, <2>3 DEF Ends
<1> QED BY <1>3, <1>4, <1>5, <1>6, <1>7, <1>8

LEMMA WriteView ==
  ASSUME PollerTyped, PollerTyped', NEW g \in File, NEW kind, NEW changed,
         Write(g, kind, changed), disk[g].rev <= writes, changed \in Disk,
         changed.inode >= disk[g].inode, changed.lines >= disk[g].lines, NEW f \in File
  PROVE  /\ QueueStep(TRUE, FileView(f), FileView(f)')
         /\ f # g => disk'[f] = disk[f]
         /\ disk'[g].rev = writes + 1 /\ disk'[g].torn = changed.torn
<1>1. /\ disk' = [disk EXCEPT ![g] = [changed EXCEPT !.rev = writes + 1]]
      /\ UNCHANGED <<offsets, ack, row, run>>
  BY DEF Write, queue
<1>2. disk \in [File -> Disk] /\ writes \in Nat /\ disk[g].rev \in Nat
  BY PollerAssumption DEF PollerTyped, DiskTyped, Disk
<1>3. /\ disk'[g] = [changed EXCEPT !.rev = writes + 1] /\ (f # g => disk'[f] = disk[f])
      /\ Reading(f)' = Reading(f) /\ Passed(f)' = Passed(f)
  BY <1>1, <1>2 DEF Reading, Passed
<1>4. /\ disk'[g] \in Disk /\ disk'[g].rev = writes + 1 /\ disk'[g].torn = changed.torn
      /\ disk'[g].inode = changed.inode /\ disk'[g].lines = changed.lines
  BY <1>2, <1>3 DEF Disk
<1>5. PICK v, w : v = FileView(f) /\ w = FileView(f)'
  OBVIOUS
<1>6. /\ v \in View /\ w \in View
      /\ w.offset = v.offset /\ w.ack = v.ack /\ w.row = v.row /\ w.read = v.read
      /\ w.passed = v.passed
      /\ w.rev = disk'[f].rev /\ v.rev = disk[f].rev /\ w.end = EndOf(f)' /\ v.end = EndOf(f)
  <2>1. v \in View /\ w \in View
    BY <1>5, ViewTyped, NextView
  <2>2. /\ w.offset = v.offset /\ w.ack = v.ack /\ w.row = v.row
        /\ w.rev = disk'[f].rev /\ v.rev = disk[f].rev /\ w.end = EndOf(f)' /\ v.end = EndOf(f)
    BY <1>1, <1>5, Fields
  <2>3. w.read = v.read
    BY <1>1, <1>3, <1>5, Fields
  <2>4. w.passed = v.passed
    BY <1>3, <1>5, Fields
  <2> QED BY <2>1, <2>2, <2>3, <2>4
<1>7. CASE f # g
  <2>1. w.rev = v.rev /\ w.end = v.end
    BY <1>3, <1>6, <1>7 DEF EndOf
  <2>2. w = v
    BY <1>6, <2>1, StepIf
  <2> QED BY <1>3, <1>4, <1>5, <2>2 DEF QueueStep
<1>8. CASE f = g
  <2>1. EndOf(f) \in Offset /\ EndOf(f)' \in Offset /\ AtMost(EndOf(f), EndOf(f)')
    <3>1. disk[f] \in Disk /\ disk'[f] \in Disk
      BY <1>2, <1>4, <1>8
    <3>2. EndOf(f) \in Offset /\ EndOf(f)' \in Offset
      BY <3>1 DEF EndOf, Offset, Disk
    <3>3. EndOf(f)'.inode >= EndOf(f).inode /\ EndOf(f)'.lines >= EndOf(f).lines
      BY <1>4, <1>8 DEF EndOf
    <3> QED BY <3>2, <3>3, NothingAssumption DEF AtMost, Offset
  <2>2. w.rev > v.rev
    BY <1>2, <1>4, <1>6, <1>8
  <2>3. Writes(v, w)
    BY <1>6, <2>1, <2>2, StepIf
  <2> QED BY <1>4, <1>5, <1>8, <2>3 DEF QueueStep
<1> QED BY <1>7, <1>8

\* What a job does shows of no other session's files.
LEMMA OthersView ==
  ASSUME NEW f \in File, UNCHANGED disk, row'[f[1]] = row[f[1]], run'[f[1]] = run[f[1]],
         offsets'[f] = offsets[f], ack'[f] = ack[f]
  PROVE  FileView(f)' = FileView(f)
BY DEF FileView, Reading, Passed, EndOf

LEMMA ClaimView ==
  ASSUME PollerTyped, PollerTyped', NEW s \in Session, ClaimJob(s), NEW f \in Reach
  PROVE  QueueStep(f \in Listed(disk), FileView(f), FileView(f)')
<1>1. /\ row[s].state = "pending" /\ row' = [row EXCEPT ![s].state = "running"]
      /\ UNCHANGED <<disk, offsets, ack>>
  BY DEF ClaimJob
<1>2. /\ f \in File /\ f[1] \in Session /\ row \in [Session -> Job] /\ run \in [Session -> Run]
      /\ row[s].state # "running" => run[s] = NoRun
  BY SessionIs DEF Reach, PollerTyped, QueueTyped
<1>3. PICK files :
        /\ run' = [run EXCEPT ![s].ahead = files]
        /\ s \notin Mislaid =>
             files = InOrder(FilesOf(disk, s), {fg \in File \X File : fg[1][2] < fg[2][2]})
  BY DEF ClaimJob
<1>4. CASE f[1] # s
  <2>1. row'[f[1]] = row[f[1]] /\ run'[f[1]] = run[f[1]]
    BY <1>1, <1>2, <1>3, <1>4
  <2> QED BY <1>1, <1>2, <2>1, OthersView DEF QueueStep
<1>5. CASE f[1] = s
  <2>1. /\ row'[s] = [row[s] EXCEPT !.state = "running"]
        /\ run[s].read = Nothing /\ run'[s].read = Nothing /\ run'[s].ahead = files
    BY <1>1, <1>2, <1>3 DEF NoRun, Run
  <2>2. f \in Listed(disk) => f \in Range(files)
    <3>1. f \in Listed(disk) => f \in FilesOf(disk, s)
      BY <1>5 DEF FilesOf
    <3> QED BY <1>2, <1>3, <1>5, <3>1, FilesInOrder DEF Reach
  <2>3. /\ FileView(f)'.offset = FileView(f).offset /\ FileView(f)'.ack = FileView(f).ack
        /\ FileView(f)'.rev = FileView(f).rev /\ FileView(f)'.end = FileView(f).end
        /\ FileView(f)'.row = [FileView(f).row EXCEPT !.state = "running"]
        /\ FileView(f).row.state = "pending"
    BY <1>1, <1>2, <1>5, <2>1, Fields DEF EndOf
  <2>4. FileView(f)'.read = FileView(f).read
    BY <1>2, <1>5, <2>1, Fields DEF Reading
  <2>5. f \in Listed(disk) => ~ FileView(f)'.passed
    BY <1>2, <1>5, <2>1, <2>2, Fields DEF Passed
  <2>6. FileView(f) \in View /\ FileView(f)' \in View
    BY <1>2, ViewTyped, NextView
  <2>7. Claims(f \in Listed(disk), FileView(f), FileView(f)')
    BY <2>3, <2>4, <2>5, <2>6, StepIf
  <2> QED BY <2>7 DEF QueueStep
<1> QED BY <1>4, <1>5

LEMMA ReadView ==
  ASSUME PollerTyped, PollerTyped', NEW s \in Session, ReadFile(s), NEW f \in File, NEW known
  PROVE  QueueStep(known, FileView(f), FileView(f)')
<1> DEFINE g == Head(run[s].ahead)
<1>1. /\ row[s].state = "running" /\ run[s].ahead # <<>> /\ run[s].read = Nothing
      /\ UNCHANGED <<disk, offsets, ack, row>>
  BY DEF ReadFile
<1>2. PICK read : /\ run' = [run EXCEPT ![s].read = read]
                  /\ read = [end |-> EndOf(g), rev |-> disk[g].rev, newer |-> 2,
                             empty |-> g \in Wordless \/ StartOf(g) = disk[g].lines]
  BY DEF ReadFile
<1>3. /\ f[1] \in Session /\ run \in [Session -> Run] /\ run[s] \in Run
      /\ g \in File /\ run[s].ahead \in Seq(File) /\ g \in Range(run[s].ahead)
      /\ disk[g] \in Disk
  <2>1. run[s] \in Run /\ g \in File /\ disk[g] \in Disk
    BY <1>1, AtFile
  <2> QED BY <1>1, <2>1, SessionIs, HeadFirst DEF PollerTyped, QueueTyped, Run
<1>4. CASE f[1] # s
  <2>1. run'[f[1]] = run[f[1]]
    BY <1>2, <1>3, <1>4
  <2> QED BY <1>1, <2>1, OthersView DEF QueueStep
<1>5. CASE f[1] = s
  <2>1. run'[s].read = read /\ run'[s].ahead = run[s].ahead
    BY <1>2, <1>3 DEF Run
  <2>2. FileView(f) \in View /\ FileView(f)' \in View
    BY ViewTyped, NextView
  <2>3. /\ FileView(f)'.offset = FileView(f).offset /\ FileView(f)'.ack = FileView(f).ack
        /\ FileView(f)'.rev = FileView(f).rev /\ FileView(f)'.end = FileView(f).end
        /\ FileView(f)'.row = FileView(f).row /\ FileView(f)'.passed = FileView(f).passed
        /\ FileView(f).read = Nothing /\ FileView(f).row.state = "running"
    <3>1. Passed(f)' = Passed(f) /\ EndOf(f)' = EndOf(f) /\ ~ Reading(f)
      BY <1>1, <1>5, <2>1 DEF Passed, EndOf, Reading
    <3> QED BY <1>1, <1>5, <3>1, Fields
  <2>4. CASE f # g
    <3>1. ~ Reading(f)'
      BY <1>5, <2>1, <2>4 DEF Reading
    <3>2. FileView(f)'.read = Nothing
      BY <3>1, Fields
    <3> QED BY <2>2, <2>3, <3>2, StepIf DEF QueueStep
  <2>5. CASE f = g
    <3>1. read \in Read /\ read # Nothing
      <4>1. EndOf(g) \in Offset /\ disk[g].rev \in Nat
        BY <1>3 DEF EndOf, Offset, Disk
      <4>2. PICK empty \in BOOLEAN : empty = (g \in Wordless \/ StartOf(g) = disk[g].lines)
        OBVIOUS
      <4>3. read = [end |-> EndOf(g), rev |-> disk[g].rev, newer |-> 2, empty |-> empty]
        BY <1>2, <4>2
      <4> HIDE DEF g
      <4>4. read \in Read
        BY <4>1, <4>3 DEF Read
      <4> QED BY <4>4, NothingAssumption
    <3>2. FileView(f)'.read = read
      BY <1>5, <2>1, <2>5, <3>1, Fields DEF Reading
    <3>3. ~ FileView(f).passed
      BY <1>3, <1>5, <2>5, Fields DEF Passed
    <3>4. ~ read.empty => FileView(f).offset # FileView(f).end
      <4>1. ~ read.empty => StartOf(g) # disk[g].lines
        BY <1>2
      <4>2. offsets[g] = EndOf(g) => StartOf(g) = disk[g].lines
        <5>1. disk[g].inode \in Nat /\ disk[g].lines \in Nat /\ EndOf(g) \in Offset
          BY <1>3 DEF EndOf, Offset, Disk
        <5> HIDE DEF g
        <5> QED BY <5>1, NothingAssumption DEF StartOf, EndOf
      <4> QED BY <2>5, <4>1, <4>2, Fields
    <3>5. read = [end |-> FileView(f).end, rev |-> FileView(f).rev, newer |-> 2,
                  empty |-> read.empty]
      BY <1>2, <2>5, Fields
    <3>6. Reads(FileView(f), FileView(f)')
      BY <2>2, <2>3, <3>1, <3>2, <3>3, <3>4, <3>5, StepIf
    <3> QED BY <3>6 DEF QueueStep
  <2> QED BY <2>4, <2>5
<1> QED BY <1>4, <1>5

LEMMA CommitView ==
  ASSUME PollerTyped, PollerTyped', NEW s \in Session, CommitFile(s), NEW f \in File, NEW known,
         \A x \in Range(run[s].ahead) : x[1] = s
  PROVE  QueueStep(known, FileView(f), FileView(f)')
<1> DEFINE g == Head(run[s].ahead)
           read == run[s].read
<1>1. /\ row[s].state = "running" /\ read # Nothing /\ run[s].ahead # <<>>
      /\ UNCHANGED <<disk, row>>
  BY DEF CommitFile, PollerTyped, QueueTyped
<1>2. PICK moved : run' = [run EXCEPT ![s] = [ahead |-> Tail(run[s].ahead), read |-> Nothing,
                                              moved |-> moved]]
  BY DEF CommitFile
<1>3. /\ offsets' = IF read.empty /\ offsets[g] = Nothing THEN offsets
                    ELSE [offsets EXCEPT ![g] = read.end]
      /\ ack' = IF read.empty THEN [ack EXCEPT ![g] = [stamp |-> read.rev, newer |-> read.newer]]
                ELSE ack
  BY DEF CommitFile
<1>4. /\ f[1] \in Session /\ run \in [Session -> Run] /\ run[s] \in Run
      /\ g \in File /\ run[s].ahead \in Seq(File)
      /\ offsets \in [File -> OrNothing(Offset)] /\ ack \in [File -> OrNothing(Ack)]
  <2>1. run[s] \in Run /\ g \in File
    BY <1>1, AtFile
  <2> QED BY <2>1, SessionIs DEF PollerTyped, QueueTyped, Run
<1>5. run'[s].read = Nothing /\ run'[s].ahead = Tail(run[s].ahead)
      /\ (f[1] # s => run'[f[1]] = run[f[1]])
  BY <1>2, <1>4
<1>6. f # g => offsets'[f] = offsets[f] /\ ack'[f] = ack[f]
  BY <1>3, <1>4
<1>7. FileView(f) \in View /\ FileView(f)' \in View
  BY ViewTyped, NextView
<1>8. CASE f[1] # s /\ f # g
  BY <1>1, <1>5, <1>6, <1>8, OthersView DEF QueueStep
<1>9. CASE f[1] = s /\ f # g
  <2>1. ~ Reading(f) /\ ~ Reading(f)'
    BY <1>5, <1>9 DEF Reading
  <2>2. Passed(f)' <=> Passed(f)
    BY <1>1, <1>4, <1>5, <1>9, HeadFirst DEF Passed
  <2>3. EndOf(f)' = EndOf(f)
    BY <1>1 DEF EndOf
  <2>4. FileView(f)'.read = Nothing /\ FileView(f).read = Nothing
    BY <2>1, Fields
  <2>5. FileView(f)'.passed = FileView(f).passed
    <3>1. (Passed(f)' \in BOOLEAN) /\ (Passed(f) \in BOOLEAN)
      BY DEF Passed
    <3> QED BY <2>2, <3>1, Fields
  <2>6. /\ FileView(f)'.offset = FileView(f).offset /\ FileView(f)'.ack = FileView(f).ack
        /\ FileView(f)'.rev = FileView(f).rev /\ FileView(f)'.end = FileView(f).end
        /\ FileView(f)'.row = FileView(f).row
    BY <1>1, <1>6, <1>9, <2>3, Fields
  <2> QED BY <1>7, <2>4, <2>5, <2>6, StepIf DEF QueueStep
<1>10. CASE f = g /\ f[1] = s
  <2>1. FileView(f).read = read
    BY <1>1, <1>10, Fields DEF Reading
  <2>2. FileView(f)'.read = Nothing
    BY <1>5, <1>10, Fields DEF Reading
  <2>3. EndOf(f)' = EndOf(f)
    BY <1>1 DEF EndOf
  <2>4. /\ FileView(f)'.rev = FileView(f).rev /\ FileView(f)'.end = FileView(f).end
        /\ FileView(f)'.row = FileView(f).row
    BY <1>1, <2>3, Fields
  <2>5. FileView(f)'.offset = IF read.empty /\ FileView(f).offset = Nothing
                              THEN FileView(f).offset ELSE read.end
    BY <1>3, <1>4, <1>10, Fields
  <2>6. FileView(f)'.ack = IF read.empty THEN [stamp |-> read.rev, newer |-> read.newer]
                           ELSE FileView(f).ack
    BY <1>3, <1>4, <1>10, Fields
  <2> HIDE DEF read
  <2>7. Commits(FileView(f), FileView(f)')
    BY <1>1, <1>7, <2>1, <2>2, <2>4, <2>5, <2>6, StepIf
  <2> QED BY <2>7 DEF QueueStep
<1>11. g[1] = s
  BY <1>1, <1>4, HeadFirst
<1> HIDE DEF g
<1> QED BY <1>8, <1>9, <1>10, <1>11

\* A job that ends; one that ends done is past every file.
LEMMA SettledView ==
  ASSUME PollerTyped, PollerTyped', NEW s \in Session, row[s].state = "running",
         NEW state \in {"pending", "done", "failed", "hopeless"}, Settled(s, state),
         state = "done" => run[s].ahead = <<>>, UNCHANGED <<disk, offsets, ack>>,
         NEW f \in File, NEW known
  PROVE  QueueStep(known, FileView(f), FileView(f)')
<1>1. /\ row' = [row EXCEPT ![s].state = state] /\ run' = [run EXCEPT ![s] = NoRun]
  BY DEF Settled
<1>2. /\ f[1] \in Session /\ row \in [Session -> Job] /\ run \in [Session -> Run]
      /\ row[s] \in Job
  BY SessionIs DEF PollerTyped, QueueTyped
<1>3. CASE f[1] # s
  <2>1. row'[f[1]] = row[f[1]] /\ run'[f[1]] = run[f[1]]
    BY <1>1, <1>2, <1>3
  <2> QED BY <2>1, OthersView DEF QueueStep
<1>4. CASE f[1] = s
  <2>1. row'[s] = [row[s] EXCEPT !.state = state] /\ row'[s].state = state
        /\ run'[s] = NoRun /\ NoRun.read = Nothing /\ NoRun.ahead = <<>>
    BY <1>1, <1>2 DEF Job, NoRun
  <2>2. FileView(f) \in View /\ FileView(f)' \in View
    BY ViewTyped, NextView
  <2>3. ~ Reading(f)' /\ ~ Passed(f)' /\ EndOf(f)' = EndOf(f)
    BY <1>4, <2>1 DEF Reading, Passed, EndOf
  <2>4. state = "done" => Passed(f)
    BY <1>4, EmptySeq DEF Passed, Range
  <2>5. /\ FileView(f)'.offset = FileView(f).offset /\ FileView(f)'.ack = FileView(f).ack
        /\ FileView(f)'.rev = FileView(f).rev /\ FileView(f)'.end = FileView(f).end
        /\ FileView(f)'.row = [FileView(f).row EXCEPT !.state = state]
        /\ FileView(f).row.state = "running" /\ (state = "done" => FileView(f).passed)
        /\ FileView(f)'.read = Nothing /\ ~ FileView(f)'.passed
    BY <1>4, <2>1, <2>3, <2>4, Fields
  <2>6. Ends(FileView(f), FileView(f)')
    BY <2>2, <2>5, StepIf
  <2> QED BY <2>6 DEF QueueStep
<1> QED BY <1>3, <1>4

-----------------------------------------------------------------------------
(* The invariant.  First what holds of the files and the jobs, whatever a    *)
(* pass does.                                                              *)

DiskGrounds ==
  \A f \in File : disk[f].rev <= writes /\ (disk[f].rev = 0 => ~ disk[f].torn)

\* A session that ever had a job is there; its jobs read its own files, or none.
JobGrounds ==
  \A s \in Session :
    /\ row[s].id > 0 => There(disk, Main(s))
    /\ \A f \in Range(run[s].ahead) : f[1] = s
    /\ s \in Mislaid => run[s].ahead = <<>> /\ run[s].moved = {}

SoundFiles ==
  \A f \in Reach : Sound(FileView(f)) /\ (f \notin Later => AtBoot(FileView(f)))

Grounds == DiskGrounds /\ JobGrounds /\ SoundFiles

\* What harnesses and jobs do beside a pass.
Outside ==
  /\ UNCHANGED <<memory, pass>>
  /\ \A f \in Reach : QueueStep(f \in Listed(disk), FileView(f), FileView(f)')
  /\ \A f \in File : disk'[f] = disk[f] \/ disk'[f].rev > disk[f].rev
  /\ \A s \in Session : /\ row'[s].id = row[s].id /\ row'[s].dead = row[s].dead
                        /\ row[s].state = "done" => row'[s].state = "done"

LEMMA Growing ==
  ASSUME PollerTyped, PollerTyped', \A f \in File : disk'[f] = disk[f] \/ disk'[f].rev > disk[f].rev
  PROVE  /\ \A f \in File : disk[f].rev \in Nat /\ disk'[f].rev \in Nat /\ disk[f].rev <= disk'[f].rev
         /\ \A f \in File : There(disk, f) => There(disk', f)
         /\ Listed(disk) \subseteq Listed(disk')
<1>1. \A f \in File : disk[f].rev \in Nat /\ disk'[f].rev \in Nat
  BY DEF PollerTyped, DiskTyped, Disk
<1>2. \A f \in File : disk[f].rev <= disk'[f].rev
  BY <1>1
<1>3. \A f \in File : There(disk, f) => There(disk', f)
  BY <1>1, <1>2 DEF There
<1> QED BY <1>1, <1>2, <1>3, SessionIs DEF Listed

LEMMA SoundOutside ==
  ASSUME PollerTyped, PollerTyped', Grounds, Outside PROVE SoundFiles'
<1> SUFFICES ASSUME NEW f \in Reach
             PROVE  Sound(FileView(f)') /\ (f \notin Later => AtBoot(FileView(f)'))
  BY DEF SoundFiles
<1>1. PICK v, w, known : v = FileView(f) /\ w = FileView(f)' /\ known = (f \in Listed(disk))
  OBVIOUS
<1>2. f \in File /\ f[1] \in Session /\ Main(f[1]) \in File
  BY SessionIs DEF Reach
<1>3. Sound(v) /\ (f \notin Later => AtBoot(v)) /\ QueueStep(known, v, w)
  BY <1>1 DEF Grounds, SoundFiles, Outside
<1>4. Sound(w)
  BY <1>3, SoundKept
<1>5. ASSUME f \notin Later PROVE AtBoot(w)
  <2>1. v.row.state = "pending" => known
    <3>1. v.row = row[f[1]]
      BY <1>1, <1>2, Fields
    <3>2. row[f[1]].state = "pending" => row[f[1]].id > 0
      BY <1>2, PollerAssumption DEF PollerTyped, QueueTyped, Job
    <3> QED BY <1>1, <1>2, <1>5, <3>1, <3>2 DEF Grounds, JobGrounds, Listed, There
  <2>2. QueueStep(TRUE, v, w)
    BY <1>3, <2>1 DEF QueueStep, Claims
  <2>3. Nothing \in OrNothing(Offset)
    BY DEF OrNothing
  <2> QED BY <1>3, <1>5, <2>2, <2>3, BootKept
<1> QED BY <1>1, <1>4, <1>5

LEMMA HarnessOutside ==
  ASSUME PollerTyped, PollerTyped', Grounds, NEW g \in File,
         WriteLine(g) \/ WritePart(g) \/ Touch(g) \/ Replace(g)
  PROVE  Outside /\ DiskGrounds' /\ JobGrounds'
<1>1. disk[g] \in Disk /\ disk[g].inode \in Nat /\ disk[g].lines \in Nat
  BY DEF PollerTyped, DiskTyped, Disk
<1>2. \E kind, changed : /\ Write(g, kind, changed) /\ changed \in Disk
                         /\ changed.inode >= disk[g].inode /\ changed.lines >= disk[g].lines
  <2>1. CASE WriteLine(g)
    <3>1. PICK changed : changed = [disk[g] EXCEPT !.lines = @ + 1, !.torn = FALSE]
      OBVIOUS
    <3>2. PICK n : n = disk[g].lines + 1
      OBVIOUS
    <3>2a. changed = [disk[g] EXCEPT !.lines = n, !.torn = FALSE] /\ n \in Nat
      BY <1>1, <3>1, <3>2
    <3>2b. changed \in Disk /\ changed.inode = disk[g].inode /\ changed.lines = n
      BY <1>1, <3>2a DEF Disk
    <3>3. Write(g, "line", changed)
      BY <2>1, <3>1 DEF WriteLine
    <3> QED BY <1>1, <3>2, <3>2b, <3>3
  <2>2. CASE WritePart(g)
    <3>1. PICK changed : changed = [disk[g] EXCEPT !.torn = TRUE]
      OBVIOUS
    <3>2. changed \in Disk /\ changed.inode = disk[g].inode /\ changed.lines = disk[g].lines
      BY <1>1, <3>1 DEF Disk
    <3>3. Write(g, "part", changed)
      BY <2>2, <3>1 DEF WritePart
    <3> QED BY <1>1, <3>2, <3>3
  <2>3. CASE Touch(g)
    BY <1>1, <2>3 DEF Touch
  <2>4. CASE Replace(g)
    <3>1. PICK changed : changed = [disk[g] EXCEPT !.inode = @ + 1, !.torn = FALSE]
      OBVIOUS
    <3>2. PICK n : n = disk[g].inode + 1
      OBVIOUS
    <3>2a. changed = [disk[g] EXCEPT !.inode = n, !.torn = FALSE] /\ n \in Nat
      BY <1>1, <3>1, <3>2
    <3>2b. changed \in Disk /\ changed.inode = n /\ changed.lines = disk[g].lines
      BY <1>1, <3>2a DEF Disk
    <3>3. Write(g, "replace", changed)
      BY <2>4, <3>1 DEF Replace
    <3> QED BY <1>1, <3>2, <3>2b, <3>3
  <2> QED BY <2>1, <2>2, <2>3, <2>4
<1>3. PICK kind, changed : /\ Write(g, kind, changed) /\ changed \in Disk
                           /\ changed.inode >= disk[g].inode /\ changed.lines >= disk[g].lines
  BY <1>2
<1>4. disk[g].rev <= writes /\ writes \in Nat /\ writes' = writes + 1
  BY <1>3, PollerAssumption DEF Grounds, DiskGrounds, PollerTyped, DiskTyped, Write
<1>5. \A f \in File : /\ QueueStep(TRUE, FileView(f), FileView(f)')
                      /\ f # g => disk'[f] = disk[f]
  BY <1>3, <1>4, WriteView
<1>5a. disk'[g].rev = writes + 1
  BY <1>3, <1>4, WriteView
<1>6. \A f \in File : disk[f].rev \in Nat /\ disk[f].rev <= writes
  BY DEF PollerTyped, DiskTyped, Disk, Grounds, DiskGrounds
<1>7. ASSUME NEW f \in File
      PROVE  /\ disk'[f] = disk[f] \/ disk'[f].rev > disk[f].rev
             /\ disk'[f].rev <= writes' /\ (disk'[f].rev = 0 => ~ disk'[f].torn)
  <2>1. CASE f = g
    BY <1>4, <1>5a, <1>6, <2>1
  <2>2. CASE f # g
    <3>1. disk'[f] = disk[f]
      BY <1>5, <2>2
    <3>2. disk[f].rev \in Nat /\ disk[f].rev <= writes /\ (disk[f].rev = 0 => ~ disk[f].torn)
      BY <1>6 DEF Grounds, DiskGrounds
    <3> QED BY <1>4, <3>1, <3>2
  <2> QED BY <2>1, <2>2
<1>8. UNCHANGED <<memory, pass, row, run>>
  BY <1>3 DEF Write, queue
<1>9. \A f \in Reach : QueueStep(f \in Listed(disk), FileView(f), FileView(f)')
  BY <1>5 DEF Reach, QueueStep, Claims
<1>10. Outside
  BY <1>7, <1>8, <1>9 DEF Outside
<1>11. DiskGrounds'
  BY <1>7 DEF DiskGrounds
<1>12. JobGrounds'
  BY <1>7, <1>8, Growing, SessionIs, PollerAssumption DEF Grounds, JobGrounds
<1> QED BY <1>10, <1>11, <1>12

LEMMA JobOutside ==
  ASSUME PollerTyped, PollerTyped', Grounds, NEW s \in Session,
         JobStep(s) \/ RetryJob(s) \/ FailJob(s)
  PROVE  Outside /\ DiskGrounds' /\ JobGrounds'
<1>1. /\ row \in [Session -> Job] /\ run \in [Session -> Run]
      /\ \A t \in Session : /\ row[t].state # "running" => run[t] = NoRun
                            /\ row[t].state = "pending" => row[t].id # 0
      /\ \A f \in Range(run[s].ahead) : f[1] = s
  BY DEF PollerTyped, QueueTyped, Grounds, JobGrounds
<1>2. UNCHANGED <<disk, writes, memory, pass>>
  BY DEF JobStep, ClaimJob, ReadFile, CommitFile, Finish, RetryJob, FailJob
<1>3. \A f \in Reach : QueueStep(f \in Listed(disk), FileView(f), FileView(f)')
  <2> SUFFICES ASSUME NEW f \in Reach
               PROVE  QueueStep(f \in Listed(disk), FileView(f), FileView(f)')
    OBVIOUS
  <2>1. f \in File
    BY DEF Reach
  <2>2. PICK known : known = (f \in Listed(disk))
    OBVIOUS
  <2>3. CASE ClaimJob(s)
    BY <2>3, ClaimView
  <2>4. CASE ReadFile(s)
    BY <2>1, <2>2, <2>4, ReadView
  <2>5. CASE CommitFile(s)
    BY <1>1, <2>1, <2>2, <2>5, CommitView
  <2>6. CASE Finish(s) \/ RetryJob(s) \/ FailJob(s)
    BY <2>1, <2>2, <2>6, SettledView DEF Finish, RetryJob, FailJob
  <2> QED BY <2>3, <2>4, <2>5, <2>6 DEF JobStep
<1>4. \A t \in Session : /\ row'[t].id = row[t].id /\ row'[t].dead = row[t].dead
                         /\ row[t].state = "done" => row'[t].state = "done"
  <2>1. CASE ClaimJob(s)
    BY <1>1, <2>1 DEF ClaimJob, Job
  <2>2. CASE ReadFile(s) \/ CommitFile(s)
    BY <2>2 DEF ReadFile, CommitFile
  <2>3. CASE Finish(s) \/ RetryJob(s) \/ FailJob(s)
    BY <1>1, <2>3 DEF Finish, RetryJob, FailJob, Settled, Job
  <2> QED BY <2>1, <2>2, <2>3 DEF JobStep
<1>5. DiskGrounds'
  BY <1>2 DEF Grounds, DiskGrounds
<1>6. \A t \in Session : /\ \A f \in Range(run'[t].ahead) : f[1] = t
                         /\ t \in Mislaid => run'[t].ahead = <<>> /\ run'[t].moved = {}
  <2>1. CASE ClaimJob(s)
    <3>1. PICK files : /\ run' = [run EXCEPT ![s].ahead = files]
                       /\ s \in Mislaid => files = <<>>
                       /\ s \notin Mislaid =>
                            files = InOrder(FilesOf(disk, s), {fg \in File \X File : fg[1][2] < fg[2][2]})
      BY <2>1 DEF ClaimJob
    <3>2. run'[s].ahead = files /\ run'[s].moved = run[s].moved
          /\ \A t \in Session : t # s => run'[t] = run[t]
      BY <1>1, <3>1 DEF Run
    <3>3. \A f \in Range(files) : f[1] = s
      <4>1. CASE s \in Mislaid
        BY <3>1, <4>1, EmptySeq DEF Range
      <4>2. CASE s \notin Mislaid
        BY <3>1, <4>2, FilesInOrder DEF FilesOf
      <4> QED BY <4>1, <4>2
    <3> QED BY <3>1, <3>2, <3>3 DEF Grounds, JobGrounds
  <2>2. CASE ReadFile(s)
    <3>1. \A t \in Session : run'[t].ahead = run[t].ahead /\ run'[t].moved = run[t].moved
      BY <1>1, <2>2 DEF ReadFile, Run
    <3> QED BY <3>1 DEF Grounds, JobGrounds
  <2>3. CASE CommitFile(s)
    <3>1. run[s].ahead # <<>> /\ run[s] \in Run /\ run[s].ahead \in Seq(File) /\ s \notin Mislaid
      BY <1>1, <2>3 DEF CommitFile, PollerTyped, QueueTyped, Run, Grounds, JobGrounds
    <3>2. /\ run'[s].ahead = Tail(run[s].ahead)
          /\ \A t \in Session : t # s => run'[t] = run[t]
      BY <1>1, <2>3 DEF CommitFile
    <3>3. \A f \in Range(Tail(run[s].ahead)) : f[1] = s
      BY <1>1, <3>1, HeadFirst
    <3> QED BY <3>1, <3>2, <3>3 DEF Grounds, JobGrounds
  <2>4. CASE Finish(s) \/ RetryJob(s) \/ FailJob(s)
    <3>1. run' = [run EXCEPT ![s] = NoRun]
      BY <2>4 DEF Finish, RetryJob, FailJob, Settled
    <3>2. NoRun.ahead = <<>> /\ NoRun.moved = {} /\ \A f \in Range(<<>>) : f[1] = s
      BY DEF NoRun, Range
    <3> QED BY <1>1, <3>1, <3>2 DEF Grounds, JobGrounds
  <2> QED BY <2>1, <2>2, <2>3, <2>4 DEF JobStep
<1>7. JobGrounds'
  BY <1>2, <1>4, <1>6 DEF Grounds, JobGrounds
<1> QED BY <1>2, <1>3, <1>4, <1>5, <1>7 DEF Outside

-----------------------------------------------------------------------------
(* Then what a pass has seen, and what it and the record of the last one hold *)
(* of the files that jobs read.                                             *)

Sighted ==
  pass.at # "idle" =>
    \A f \in File : /\ pass.disk[f].rev <= disk[f].rev
                    /\ pass.disk[f].rev = disk[f].rev => pass.disk[f] = disk[f]

\* No session is submitted twice in a pass.
Queued ==
  /\ pass.at # "submit" => pass.sent = {}
  /\ pass.at = "submit" =>
       /\ Range(pass.todo) \subseteq Candidates
       /\ \A i, j \in DOMAIN pass.todo : pass.todo[i] = pass.todo[j] => i = j
       /\ \A f \in pass.sent : f[1] \notin Range(pass.todo)

Known(f, e) == f \in Listed(disk) /\ Placed(FileView(f), e)
Rests(h, f, e) == e # Nothing => Known(f, e) /\ Resting(h, FileView(f), e)

AtRest == \A f \in Reach : Rests(0, f, lag[f])

Loading ==
  /\ pass.at = "acks" =>
       \A f \in Reach : lag[f] # Nothing => SeenAt(pass.disk[f].rev, FileView(f), lag[f])
  /\ pass.at \in {"outcomes", "cursors"} =>
       \A f \in Reach :
         lag[f] # Nothing => LoadedAt(pass.disk[f].rev, pass.acks[f], FileView(f), lag[f])

EndedDone ==
  pass.at = "cursors" =>
    \A f \in File : lag[f] # Nothing /\ pass.outcomes[f] = "done" => JobDone(row[f[1]], lag[f])

\* What the pass is to submit it can.
Open(f) ==
  /\ AtMost(pass.cursors[f], offsets[f])
  /\ IF pass.lag[f] = Nothing THEN FreshAt(pass.cursors[f], FileView(f))
     ELSE OpenAt(pass.disk[f].rev, FileView(f), pass.lag[f])

Choosing ==
  pass.at \in {"select", "submit"} =>
    \A f \in Reach : IF f \in pass.sent THEN Rests(1, f, pass.lag[f])
                     ELSE Rests(0, f, pass.lag[f]) /\ (f \in pass.wanted => Open(f))

(* And of the files that jobs do not find: each job that ended done moved     *)
(* nothing of them.                                                         *)

Earns(f, e) ==
  \/ fruitless[f] = StallPasses
  \/ e.tries + One(Uncounted(e) /\ JobDone(row[f[1]], e)) <= fruitless[f]

Missed ==
  /\ fruitless \in [File -> 0..StallPasses]
  /\ \A f \in Astray :
       /\ lag[f] # Nothing => Earns(f, lag[f])
       /\ pass.at \in {"select", "submit"} /\ pass.lag[f] # Nothing => Earns(f, pass.lag[f])

Remembered == AtRest /\ Loading /\ EndedDone /\ Choosing
StallInv == Grounds /\ Sighted /\ Queued /\ Remembered /\ Missed

-----------------------------------------------------------------------------
(* All of it is kept beside the pass.                                       *)

\* The job of a file that is known passes it only once it has read it.
LEMMA KnownStep ==
  ASSUME PollerTyped, PollerTyped', Grounds, Outside, NEW f \in Reach, f \in Listed(disk)
  PROVE  /\ QueueStep(TRUE, FileView(f), FileView(f)') /\ Sound(FileView(f))
         /\ f \in Listed(disk')
<1>1. PICK known : known = (f \in Listed(disk))
  OBVIOUS
<1>2. QueueStep(known, FileView(f), FileView(f)') /\ Sound(FileView(f))
  BY <1>1 DEF Outside, Grounds, SoundFiles
<1>3. QueueStep(TRUE, FileView(f), FileView(f)')
  BY <1>1, <1>2 DEF QueueStep, Claims
<1>4. f \in Listed(disk')
  BY Growing DEF Outside
<1> QED BY <1>2, <1>3, <1>4

LEMMA RestsOutside ==
  ASSUME PollerTyped, PollerTyped', Grounds, Outside, NEW f \in Reach, NEW h \in {0, 1}, NEW e,
         e # Nothing, Rests(h, f, e)
  PROVE  f \in Listed(disk') /\ Placed(FileView(f)', e) /\ Resting(h, FileView(f)', e)
<1>1. PICK v, w : v = FileView(f) /\ w = FileView(f)'
  OBVIOUS
<1>2. f \in Listed(disk) /\ Placed(v, e) /\ Resting(h, v, e)
  BY <1>1 DEF Rests, Known
<1>3. QueueStep(TRUE, v, w) /\ Sound(v) /\ f \in Listed(disk')
  BY <1>1, <1>2, KnownStep
<1>4. Placed(w, e)
  <2>1. PICK known : known = TRUE
    OBVIOUS
  <2>2. QueueStep(known, v, w)
    BY <1>3, <2>1
  <2> QED BY <1>2, <1>3, <2>2, PlacedKept
<1>5. Resting(h, w, e)
  BY <1>2, <1>3, RestingKept
<1> QED BY <1>1, <1>3, <1>4, <1>5

LEMMA SightedOutside ==
  ASSUME PollerTyped, PollerTyped', Sighted, Outside PROVE Sighted'
<1> SUFFICES ASSUME pass.at # "idle", NEW f \in File
             PROVE  /\ pass.disk[f].rev <= disk'[f].rev
                    /\ pass.disk[f].rev = disk'[f].rev => pass.disk[f] = disk'[f]
  BY DEF Sighted, Outside
<1>1. /\ disk'[f] = disk[f] \/ disk'[f].rev > disk[f].rev
      /\ disk[f].rev \in Nat /\ disk'[f].rev \in Nat
  BY Growing DEF Outside
<1>2. /\ pass.disk[f].rev \in Nat /\ pass.disk[f].rev <= disk[f].rev
      /\ pass.disk[f].rev = disk[f].rev => pass.disk[f] = disk[f]
  BY DEF Sighted, PollerTyped, PassTyped, Disk
<1> QED BY <1>1, <1>2

\* What the pass knows of a file it has seen.
LEMMA SeenRev ==
  ASSUME PollerTyped, Sighted, pass.at # "idle", NEW f \in File
  PROVE  pass.disk[f].rev \in Nat /\ pass.disk[f].rev <= FileView(f).rev
BY Fields DEF Sighted, PollerTyped, PassTyped, Disk

LEMMA LoadingOutside ==
  ASSUME PollerTyped, PollerTyped', Grounds, Sighted, AtRest, Loading, Outside PROVE Loading'
<1>1. pass' = pass /\ lag' = lag
  BY DEF Outside, memory
<1>2. ASSUME NEW f \in Reach, lag[f] # Nothing, pass.at # "idle"
      PROVE  /\ SeenAt(pass.disk[f].rev, FileView(f), lag[f])
                  => SeenAt(pass.disk[f].rev, FileView(f)', lag[f])
             /\ LoadedAt(pass.disk[f].rev, pass.acks[f], FileView(f), lag[f])
                  => LoadedAt(pass.disk[f].rev, pass.acks[f], FileView(f)', lag[f])
  <2>1. PICK v, w, e, d, a : /\ v = FileView(f) /\ w = FileView(f)' /\ e = lag[f]
                             /\ d = pass.disk[f].rev /\ a = pass.acks[f]
    OBVIOUS
  <2>2. Placed(v, e) /\ f \in Listed(disk)
    BY <1>2, <2>1 DEF AtRest, Rests, Known
  <2>3. QueueStep(TRUE, v, w) /\ Sound(v)
    BY <2>1, <2>2, KnownStep
  <2>4. d \in Nat /\ d <= v.rev
    BY <1>2, <2>1, SeenRev DEF Reach
  <2>5. /\ SeenAt(d, v, e) => SeenAt(d, w, e)
        /\ LoadedAt(d, a, v, e) => LoadedAt(d, a, w, e)
    BY <2>2, <2>3, <2>4, PassKnows
  <2> QED BY <2>1, <2>5
<1> QED BY <1>1, <1>2 DEF Loading

LEMMA EndedOutside ==
  ASSUME PollerTyped, EndedDone, Outside PROVE EndedDone'
<1> SUFFICES ASSUME pass.at = "cursors", NEW f \in File, lag[f] # Nothing, pass.outcomes[f] = "done"
             PROVE  JobDone(row'[f[1]], lag[f])
  BY DEF EndedDone, Outside, memory
<1>1. f[1] \in Session /\ JobDone(row[f[1]], lag[f])
  BY SessionIs DEF EndedDone
<1> QED BY <1>1 DEF JobDone, Outside

LEMMA ChoosingOutside ==
  ASSUME PollerTyped, PollerTyped', Grounds, Sighted, Choosing, Outside PROVE Choosing'
<1>1. pass' = pass
  BY DEF Outside
<1> SUFFICES ASSUME pass.at \in {"select", "submit"}, NEW f \in Reach
             PROVE  (IF f \in pass.sent THEN Rests(1, f, pass.lag[f])
                     ELSE Rests(0, f, pass.lag[f]) /\ (f \in pass.wanted => Open(f)))'
  BY <1>1 DEF Choosing
<1>2. IF f \in pass.sent THEN Rests(1, f, pass.lag[f])
      ELSE Rests(0, f, pass.lag[f]) /\ (f \in pass.wanted => Open(f))
  BY DEF Choosing
<1>3. ASSUME NEW h \in {0, 1}, Rests(h, f, pass.lag[f])
      PROVE  pass.lag[f] # Nothing =>
               f \in Listed(disk') /\ Placed(FileView(f)', pass.lag[f])
               /\ Resting(h, FileView(f)', pass.lag[f])
  BY <1>3, RestsOutside
<1>4. ASSUME f \notin pass.sent, f \in pass.wanted PROVE Open(f)'
  <2>1. PICK v, w, e, d, c : /\ v = FileView(f) /\ w = FileView(f)' /\ e = pass.lag[f]
                             /\ d = pass.disk[f].rev /\ c = pass.cursors[f]
    OBVIOUS
  <2>2. f \in File /\ offsets[f] = v.offset /\ offsets'[f] = w.offset
    BY <2>1, Fields DEF Reach
  <2>3. f \in Listed(disk) /\ c \in OrNothing(Offset)
    <3>1. f \in Listed(pass.disk) /\ pass.cursors \in [File -> OrNothing(Offset)]
      BY <1>4 DEF PollerTyped, PassTyped
    <3>2. \A g \in File : There(pass.disk, g) => There(disk, g)
      <4>1. \A g \in File : pass.disk[g].rev \in Nat /\ disk[g].rev \in Nat
                            /\ pass.disk[g].rev <= disk[g].rev
        BY DEF Sighted, PollerTyped, DiskTyped, PassTyped, Disk
      <4> QED BY <4>1 DEF There
    <3> QED BY <2>1, <2>2, <3>1, <3>2, SessionIs DEF Listed
  <2>4. QueueStep(TRUE, v, w) /\ Sound(v)
    BY <2>1, <2>3, KnownStep
  <2>5. d \in Nat /\ d <= v.rev
    BY <2>1, <2>2, SeenRev
  <2>6. AtMost(c, v.offset) /\ IF e = Nothing THEN FreshAt(c, v) ELSE OpenAt(d, v, e)
    BY <1>2, <1>4, <2>1, <2>2 DEF Open
  <2>7. AtMost(c, w.offset) /\ (FreshAt(c, v) => FreshAt(c, w))
    BY <2>3, <2>4, <2>6, BootKept
  <2>8. e # Nothing => OpenAt(d, w, e)
    <3>1. e # Nothing => Placed(v, e)
      BY <1>2, <1>4, <2>1 DEF Rests, Known
    <3> QED BY <2>4, <2>5, <2>6, <3>1, PassKnows
  <2> QED BY <1>1, <2>1, <2>2, <2>6, <2>7, <2>8 DEF Open
<1> QED BY <1>1, <1>2, <1>3, <1>4 DEF Rests, Known

LEMMA OutsideKeeps ==
  ASSUME PollerTyped, PollerTyped', Grounds, Sighted, Queued, Remembered, Outside
  PROVE  SoundFiles' /\ Sighted' /\ Queued' /\ Remembered'
<1>1. AtRest'
  BY RestsOutside DEF Remembered, AtRest, Rests, Known, Outside, memory
<1>2. Queued'
  BY DEF Queued, Candidates, Outside
<1> QED BY <1>1, <1>2, SoundOutside, SightedOutside, LoadingOutside, EndedOutside, ChoosingOutside
        DEF Remembered

-----------------------------------------------------------------------------
(* The steps of a pass that leave the queue alone.                          *)

LEMMA SameGrounds ==
  ASSUME Grounds, UNCHANGED <<disk, writes, queue>>
  PROVE  Grounds' /\ Listed(disk') = Listed(disk) /\ \A f \in File : FileView(f)' = FileView(f)
<1>1. UNCHANGED <<disk, writes, offsets, ack, row, run>>
  BY DEF queue
<1>2. \A f \in File : FileView(f)' = FileView(f)
  BY <1>1, OthersView
<1>3. SoundFiles'
  BY <1>2 DEF Grounds, SoundFiles, Reach
<1>4. DiskGrounds' /\ JobGrounds'
  BY <1>1 DEF Grounds, DiskGrounds, JobGrounds
<1> QED BY <1>1, <1>2, <1>3, <1>4 DEF Grounds

\* What rested still rests, also where the poller keeps it elsewhere.
LEMMA SameRests ==
  ASSUME UNCHANGED <<disk, writes, queue>>, Grounds
  PROVE  \A f \in File : \A h, e :
           Rests(h, f, e) => (e # Nothing => /\ f \in Listed(disk') /\ Placed(FileView(f)', e)
                                             /\ Resting(h, FileView(f)', e))
BY SameGrounds DEF Rests, Known

LEMMA SameAtRest ==
  ASSUME UNCHANGED <<disk, writes, queue>>, lag' = lag, Grounds, AtRest PROVE AtRest'
BY SameRests DEF AtRest, Rests, Known, Reach

LEMMA DiscoverKeeps ==
  ASSUME PollerTyped, StallInv, Discover PROVE StallInv'
<1>1. /\ UNCHANGED <<disk, writes, queue, lag, fruitless>> /\ pass'.at = "acks"
      /\ pass'.disk = disk /\ pass'.sent = {}
  BY DEF Discover, Idle, ghosts
<1>2. Grounds' /\ AtRest' /\ \A f \in File : FileView(f)' = FileView(f)
  BY <1>1, SameGrounds, SameAtRest DEF StallInv, Remembered
<1>3. ASSUME NEW f \in Reach, lag[f] # Nothing
      PROVE  SeenAt(disk[f].rev, FileView(f), lag[f])
  <2>1. PICK v : v = FileView(f)
    OBVIOUS
  <2>2. v.rev = disk[f].rev
    BY <2>1, Fields DEF Reach
  <2>3. Sound(v) /\ Placed(v, lag[f]) /\ Resting(0, v, lag[f])
    BY <1>3, <2>1 DEF StallInv, Grounds, SoundFiles, Remembered, AtRest, Rests, Known
  <2>4. SeenAt(v.rev, v, lag[f])
    BY <2>3, RestingIsSeen
  <2> QED BY <2>1, <2>2, <2>4
<1>4. Loading'
  BY <1>1, <1>2, <1>3 DEF Loading, Reach
<1>5. Sighted' /\ Queued' /\ EndedDone' /\ Choosing'
  BY <1>1 DEF Sighted, Queued, EndedDone, Choosing, DiskTyped, PollerTyped, Disk
<1>6. Missed'
  BY <1>1 DEF StallInv, Missed, Earns, queue
<1> QED BY <1>2, <1>4, <1>5, <1>6 DEF StallInv, Remembered

LEMMA LoadAcksKeeps ==
  ASSUME PollerTyped, StallInv, LoadAcks PROVE StallInv'
<1>1. /\ UNCHANGED <<disk, writes, queue, lag, fruitless>>
      /\ pass.at = "acks" /\ pass'.at = "outcomes" /\ pass'.disk = pass.disk
      /\ pass'.sent = pass.sent /\ pass'.acks = ack
  BY DEF LoadAcks, Idle, memory, ghosts, PollerTyped, PassTyped
<1>2. Grounds' /\ AtRest' /\ \A f \in File : FileView(f)' = FileView(f)
  BY <1>1, SameGrounds, SameAtRest DEF StallInv, Remembered
<1>3. ASSUME NEW f \in Reach, lag[f] # Nothing
      PROVE  LoadedAt(pass.disk[f].rev, ack[f], FileView(f), lag[f])
  <2>1. PICK v, d : v = FileView(f) /\ d = pass.disk[f].rev
    OBVIOUS
  <2>2. v.ack = ack[f]
    BY <2>1, Fields DEF Reach
  <2>3. v \in View /\ Resting(0, v, lag[f]) /\ SeenAt(d, v, lag[f])
    BY <1>1, <1>3, <2>1
       DEF StallInv, Grounds, SoundFiles, Sound, Remembered, AtRest, Rests, Loading
  <2>4. LoadedAt(d, v.ack, v, lag[f])
    BY <2>3, SeenIsLoaded, ViewIs
  <2> QED BY <2>1, <2>2, <2>4
<1>4. Loading'
  BY <1>1, <1>2, <1>3 DEF Loading, Reach
<1>5. Sighted' /\ Queued' /\ EndedDone' /\ Choosing'
  BY <1>1 DEF StallInv, Sighted, Queued, EndedDone, Choosing
<1>6. Missed'
  BY <1>1 DEF StallInv, Missed, Earns, queue
<1> QED BY <1>2, <1>4, <1>5, <1>6 DEF StallInv, Remembered

LEMMA LoadOutcomesKeeps ==
  ASSUME PollerTyped, StallInv, LoadOutcomes PROVE StallInv'
<1>1. /\ UNCHANGED <<disk, writes, queue, lag, fruitless>>
      /\ pass.at = "outcomes" /\ pass'.at = "cursors" /\ pass'.disk = pass.disk
      /\ pass'.sent = pass.sent /\ pass'.acks = pass.acks
      /\ pass'.outcomes = [f \in File |-> Outcome(f)]
  BY DEF LoadOutcomes, Idle, memory, ghosts, PollerTyped, PassTyped
<1>2. Grounds' /\ AtRest' /\ \A f \in File : FileView(f)' = FileView(f)
  BY <1>1, SameGrounds, SameAtRest DEF StallInv, Remembered
<1>3. Loading'
  BY <1>1, <1>2 DEF Loading, Reach, StallInv, Remembered
<1>4. EndedDone'
  <2>1. \A f \in File : lag[f] # Nothing /\ Outcome(f) = "done" => JobDone(row[f[1]], lag[f])
    BY DEF Outcome, JobDone
  <2> QED BY <1>1, <2>1 DEF EndedDone, queue
<1>5. Sighted' /\ Queued' /\ Choosing'
  BY <1>1 DEF StallInv, Sighted, Queued, Choosing
<1>6. Missed'
  BY <1>1 DEF StallInv, Missed, Earns, queue
<1> QED BY <1>2, <1>3, <1>4, <1>5, <1>6 DEF StallInv, Remembered

LEMMA PassFailsKeeps ==
  ASSUME PollerTyped, StallInv, PassFails PROVE StallInv'
<1>1. UNCHANGED <<disk, writes, queue, lag, fruitless>> /\ pass'.at = "idle" /\ pass'.sent = {}
  BY DEF PassFails, Idle
<1>2. Grounds' /\ AtRest'
  BY <1>1, SameGrounds, SameAtRest DEF StallInv, Remembered
<1>3. Sighted' /\ Queued' /\ Loading' /\ EndedDone' /\ Choosing'
  BY <1>1 DEF Sighted, Queued, Loading, EndedDone, Choosing
<1>4. Missed'
  BY <1>1 DEF StallInv, Missed, Earns, queue
<1> QED BY <1>2, <1>3, <1>4 DEF StallInv, Remembered

-----------------------------------------------------------------------------
(* What a pass makes of it.                                                 *)

\* A file that is behind, and no job of which has read it, was written since
\* boot or was not there; if it has no entry, its job has left a trace.
LEMMA WantedFresh ==
  ASSUME PollerTyped, StallInv, pass.at = "cursors", NEW f \in Reach, f \in Listed(pass.disk),
         IsBehind(f)
  PROVE  FreshAt(offsets[f], FileView(f))
<1>1. f \in File
  BY DEF Reach
<1>2. SUFFICES ASSUME Passed(f), disk[f].rev = 0, ack[f] = Nothing PROVE FALSE
  <2>1. disk[f].rev \in Nat
    BY <1>1 DEF PollerTyped, DiskTyped, Disk
  <2> QED BY <1>1, <2>1, Fields DEF FreshAt
<1>3. pass.disk[f] = disk[f] /\ pass.disk[f].rev = 0
  <2>1. pass.disk[f].rev \in Nat /\ pass.disk[f].rev <= disk[f].rev
    BY <1>1, SeenRev, Fields DEF StallInv
  <2> QED BY <1>1, <1>2, <2>1 DEF StallInv, Sighted
<1>4. f \notin Later
  BY <1>3 DEF Listed, There
<1>5. offsets[f] = EndOf(f)
  <2>1. AtBoot(FileView(f))
    BY <1>4 DEF StallInv, Grounds, SoundFiles
  <2> QED BY <1>1, <1>2, <2>1, Fields DEF AtBoot
<1>6. ~ disk[f].torn
  BY <1>1, <1>2 DEF StallInv, Grounds, DiskGrounds
<1>7. EndOf(f) # Nothing
  <2>1. EndOf(f) \in Offset
    BY <1>1 DEF EndOf, Offset, PollerTyped, DiskTyped, Disk
  <2> QED BY <2>1, NothingAssumption
<1> QED BY <1>3, <1>5, <1>6, <1>7 DEF IsBehind, FileBehind, EndOf

\* An entry that the pass weighs: what it comes to is within the bound, and it
\* can rest and be submitted again.
LEMMA WeighedIs ==
  ASSUME PollerTyped, StallInv, pass.at = "cursors", NEW f \in Reach, Lagging[f] # Nothing
  PROVE  /\ Lagging[f].tries <= pass.disk[f].rev + 1
         /\ Rests(0, f, Lagging[f]) /\ OpenAt(pass.disk[f].rev, FileView(f), Lagging[f])
<1>1. PICK v, e, d, a, outcome : /\ v = FileView(f) /\ e = lag[f] /\ d = pass.disk[f].rev
                                 /\ a = pass.acks[f] /\ outcome = pass.outcomes[f]
  OBVIOUS
<1>2. f \in File /\ Lagging[f] = Counted(e, outcome) /\ Unmoved(f)
  BY <1>1 DEF Lagging, Reach
<1>3. /\ e # Nothing /\ e.cursor = offsets[f]
      /\ a = Nothing \/ (a.newer = 0 /\ a.stamp # e.stamp)
  BY <1>1, <1>2 DEF Unmoved
<1>4. Sound(v) /\ f \in Listed(disk) /\ Placed(v, e) /\ Resting(0, v, e) /\ LoadedAt(d, a, v, e)
  BY <1>1, <1>3 DEF StallInv, Grounds, SoundFiles, Remembered, AtRest, Rests, Known, Loading
<1>5. Alive(a, e)
  BY <1>3 DEF Alive
<1>6. v.offset = offsets[f] /\ v.row = row[f[1]]
  BY <1>1, <1>2, Fields
<1>7. ~ Progressed(v, e)
  BY <1>3, <1>6 DEF Progressed
<1>8. outcome = "done" => JobDone(v.row, e)
  BY <1>1, <1>2, <1>3, <1>6 DEF StallInv, Remembered, EndedDone
<1>9. d \in Nat
  BY <1>1, <1>2, SeenRev DEF StallInv
<1>10. /\ Counted(e, outcome).tries <= d + 1 /\ Placed(v, Counted(e, outcome))
       /\ Resting(0, v, Counted(e, outcome)) /\ OpenAt(d, v, Counted(e, outcome))
  BY <1>4, <1>5, <1>7, <1>8, <1>9, CountedIs
<1> QED BY <1>1, <1>2, <1>4, <1>10 DEF Rests, Known

\* The same where jobs do not find the file.
LEMMA MissedIs ==
  ASSUME PollerTyped, StallInv, pass.at = "cursors", NEW f \in Astray, Lagging[f] # Nothing
  PROVE  Lagging[f].tries <= fruitless[f] /\ Earns(f, Lagging[f])
<1>1. PICK e, outcome, n : e = lag[f] /\ outcome = pass.outcomes[f] /\ n = Counted(e, outcome)
  OBVIOUS
<1>2. f \in File /\ Lagging[f] = n /\ Unmoved(f) /\ e # Nothing
  BY <1>1 DEF Lagging, Astray, Unmoved
<1>3. e \in Entry /\ Earns(f, e) /\ (outcome = "done" => JobDone(row[f[1]], e))
  BY <1>1, <1>2 DEF StallInv, Missed, Remembered, EndedDone, PollerTyped, MemoryTyped, Submitted,
                    OrNothing
<1>4. n \in Entry /\ e.tries \in 0..StallPasses /\ n.tries \in 0..StallPasses
      /\ fruitless[f] \in 0..StallPasses /\ StallPasses \in Nat
  BY <1>1, <1>2, <1>3, CountedTyped, PollerAssumption DEF Entry, StallInv, Missed
<1>5. CASE n = e
  BY <1>1, <1>2, <1>3, <1>4, <1>5 DEF Earns, One
<1>6. CASE n # e
  <2>1. /\ n = [e EXCEPT !.tries = @ + 1, !.last = e.job] /\ outcome = "done" /\ Uncounted(e)
    BY <1>1, <1>6 DEF Counted, Uncounted
  <2>2. n.tries = e.tries + 1 /\ ~ Uncounted(n)
    BY <1>3, <2>1 DEF Entry, Uncounted
  <2> QED BY <1>1, <1>2, <1>3, <1>4, <2>1, <2>2 DEF Earns, One
<1> QED BY <1>5, <1>6

LEMMA WeighKeeps ==
  ASSUME PollerTyped, StallInv, Weigh PROVE StallInv'
<1>1. /\ UNCHANGED <<disk, writes, queue, lag, fruitless>>
      /\ pass.at = "cursors" /\ pass'.at = "select" /\ pass'.disk = pass.disk
      /\ pass'.sent = pass.sent /\ pass'.cursors = offsets /\ pass'.lag = Lagging
      /\ pass'.wanted = Wanted
  BY DEF Weigh, Idle, ghosts, PollerTyped, PassTyped
<1>2. Grounds' /\ AtRest' /\ \A f \in File : FileView(f)' = FileView(f)
  BY <1>1, SameGrounds, SameAtRest DEF StallInv, Remembered
<1>3. ASSUME NEW f \in Reach
      PROVE  (Rests(0, f, pass.lag[f]) /\ (f \in pass.wanted => Open(f)))'
  <2>1. f \in File /\ offsets'[f] = offsets[f]
    BY <1>1 DEF Reach, queue
  <2>2. Rests(0, f, Lagging[f])
    BY <1>1, WeighedIs DEF Rests
  <2>3. Rests(0, f, pass.lag[f])'
    BY <1>1, <2>1, <2>2, SameRests DEF StallInv, Rests, Known
  <2>4. ASSUME f \in Wanted PROVE Open(f)'
    <3>1. f \in Listed(pass.disk) /\ IsBehind(f)
      BY <2>4 DEF Wanted, Looked
    <3>2. FreshAt(offsets[f], FileView(f))
      BY <1>1, <3>1, WantedFresh
    <3>3. Lagging[f] # Nothing => OpenAt(pass.disk[f].rev, FileView(f), Lagging[f])
      BY <1>1, WeighedIs
    <3>4. AtMost(offsets[f], offsets[f])
      BY <2>1, CursorsAdvance DEF PollerTyped, QueueTyped
    <3> QED BY <1>1, <1>2, <2>1, <3>2, <3>3, <3>4 DEF Open
  <2> QED BY <1>1, <2>3, <2>4
<1>4. Sighted' /\ Queued' /\ Loading' /\ EndedDone'
  BY <1>1 DEF StallInv, Sighted, Queued, Loading, EndedDone
<1>5. Choosing'
  BY <1>1, <1>3, <1>4 DEF Choosing, Queued, Reach
<1>6. Missed'
  <2>1. \A f \in Astray : Lagging[f] # Nothing => Earns(f, Lagging[f])
    BY <1>1, MissedIs
  <2> QED BY <1>1, <2>1 DEF StallInv, Missed, Earns, queue
<1> QED BY <1>2, <1>4, <1>5, <1>6 DEF StallInv, Remembered

\* A pass weighs no entry to more than is earned.
LEMMA EarnedIs ==
  ASSUME PollerTyped, StallInv, [PollerNext]_pvars PROVE Earned
<1> SUFFICES ASSUME pass.at = "cursors", pass'.at = "select", NEW f \in DOMAIN fruitless,
                    pass'.lag[f] # Nothing
             PROVE  pass'.lag[f].tries <= IF f[1] \in Mislaid THEN fruitless[f]
                                          ELSE pass.disk[f].rev + 1
  BY DEF Earned
<1>1. Weigh
  <2>1. pass' # pass
    OBVIOUS
  <2>2. Idle.at = "idle"
    BY DEF Idle
  <2>3. PassStep => Weigh
    BY DEF PassStep, Discover, LoadAcks, LoadOutcomes, Select, SkipFolderless, SubmitSession,
           RecordPass
  <2>4. ~ PassFails /\ ~ Restart
    BY <2>2 DEF PassFails, Restart
  <2>5. ~ \E g \in File : WriteLine(g) \/ WritePart(g) \/ Touch(g) \/ Replace(g)
    BY <2>1 DEF WriteLine, WritePart, Touch, Replace, Write
  <2>6. ~ \E s \in Session : JobStep(s) \/ RetryJob(s) \/ FailJob(s)
    BY <2>1 DEF JobStep, ClaimJob, ReadFile, CommitFile, Finish, RetryJob, FailJob
  <2> QED BY <2>1, <2>3, <2>4, <2>5, <2>6 DEF PollerNext, pvars
<1>2. pass'.lag = Lagging /\ f \in File
  BY <1>1 DEF Weigh, PollerTyped, PassTyped, Idle, StallInv, Missed
<1> QED BY <1>2, WeighedIs, MissedIs DEF Reach, Astray

LEMMA SelectedOnce ==
  ASSUME PollerTyped, Select
  PROVE  /\ Range(pass'.todo) \subseteq Candidates
         /\ \A i, j \in DOMAIN pass'.todo : pass'.todo[i] = pass'.todo[j] => i = j
<1>1. pass.at = "select"
  BY DEF Select
<1>2. PICK todo, n, l, r, p, q :
        /\ todo = pass'.todo /\ n = pass'.first /\ l = Len(todo) /\ r = Len(Rotated)
        /\ p = Prioritized /\ q = Rotated
  OBVIOUS
<1>3. /\ todo \in Seq(Session) /\ n \in Nat /\ n <= Len(p)
      /\ n <= l /\ l <= n + r
      /\ \A i \in 1..l : i > n => todo[i] = q[i - n]
      /\ \A i \in 1..n : todo[i] = p[i]
  BY <1>2, Selected
<1>4. l \in Nat /\ r \in Nat /\ Len(p) \in Nat /\ DOMAIN todo = 1..l
  <2>1. Prioritized \in Seq(Session) /\ Rotated \in Seq(Session)
    BY <1>1, PrioritizedIs, RotatedIs
  <2> QED BY <1>2, <1>3, <2>1, LenProperties
<1>5. /\ \A i \in 1..Len(p) : p[i] \in Candidates \ Backlog
      /\ \A i, j \in 1..Len(p) : p[i] = p[j] => i = j
  BY <1>1, <1>2, PrioritizedIs
<1>6. /\ \A i \in 1..r : q[i] \in Backlog
      /\ \A i, j \in 1..r : i < j => Precedes(after, q[i], q[j])
      /\ Backlog \subseteq Session
  BY <1>1, <1>2, RotatedIs
<1>7. \A i, j \in 1..r : q[i] = q[j] => i = j
  <2> SUFFICES ASSUME NEW i \in 1..r, NEW j \in 1..r, q[i] = q[j], i # j PROVE FALSE
    OBVIOUS
  <2>1. i < j \/ j < i
    BY <1>4
  <2>2. Precedes(after, q[i], q[i])
    BY <1>6, <2>1
  <2>3. q[i] \in Nat
    BY <1>6, SessionIs
  <2> QED BY <2>2, <2>3 DEF Precedes
<1>8. ASSUME NEW i \in 1..l
      PROVE  IF i <= n THEN i \in 1..Len(p) /\ todo[i] = p[i] /\ todo[i] \in Candidates \ Backlog
             ELSE i - n \in 1..r /\ todo[i] = q[i - n] /\ todo[i] \in Backlog
  <2>1. CASE i <= n
    <3>1. i \in 1..n /\ i \in 1..Len(p)
      BY <1>3, <1>4, <2>1
    <3> QED BY <1>3, <1>5, <2>1, <3>1
  <2>2. CASE ~ (i <= n)
    <3>1. i > n /\ i - n \in 1..r
      BY <1>3, <1>4, <2>2
    <3> QED BY <1>3, <1>6, <2>2, <3>1
  <2> QED BY <2>1, <2>2
<1>9. \A i \in 1..l : todo[i] \in Candidates
  <2>1. Backlog \subseteq Candidates
    BY DEF Backlog
  <2> QED BY <1>8, <2>1
<1>10. ASSUME NEW i \in 1..l, NEW j \in 1..l, todo[i] = todo[j] PROVE i = j
  <2>1. i <= n <=> j <= n
    BY <1>8, <1>10
  <2>2. CASE i <= n
    BY <1>5, <1>8, <1>10, <2>1, <2>2
  <2>3. CASE ~ (i <= n)
    <3>1. i - n = j - n
      BY <1>7, <1>8, <1>10, <2>1, <2>3
    <3> QED BY <1>3, <1>4, <3>1
  <2> QED BY <2>2, <2>3
<1> QED BY <1>2, <1>4, <1>9, <1>10 DEF Range

\* The other parts, of a pass that goes on with what it weighed.
LEMMA GoesOn ==
  ASSUME StallInv, UNCHANGED <<disk, writes, queue, lag, fruitless>>,
         pass.at \in {"select", "submit"}, pass'.at = "submit", pass'.disk = pass.disk,
         pass'.sent = pass.sent, pass'.cursors = pass.cursors, pass'.lag = pass.lag,
         pass'.wanted = pass.wanted
  PROVE  Grounds' /\ Sighted' /\ Remembered' /\ Missed'
<1>1. Grounds' /\ AtRest' /\ \A f \in File : FileView(f)' = FileView(f)
  BY SameGrounds, SameAtRest DEF StallInv, Remembered
<1>2. ASSUME NEW f \in Reach
      PROVE  (IF f \in pass.sent THEN Rests(1, f, pass.lag[f])
              ELSE Rests(0, f, pass.lag[f]) /\ (f \in pass.wanted => Open(f)))'
  <2>1. IF f \in pass.sent THEN Rests(1, f, pass.lag[f])
        ELSE Rests(0, f, pass.lag[f]) /\ (f \in pass.wanted => Open(f))
    BY DEF StallInv, Remembered, Choosing
  <2>2. f \in File /\ offsets' = offsets /\ FileView(f)' = FileView(f)
    BY <1>1 DEF Reach, queue
  <2>3. \A h : Rests(h, f, pass.lag[f]) =>
                 (Rests(h, f, pass.lag[f]))'
    BY <2>2, SameRests DEF StallInv, Rests, Known
  <2>4. Open(f) => Open(f)'
    BY <2>2 DEF Open
  <2> QED BY <2>1, <2>3, <2>4
<1>3. Choosing'
  BY <1>2 DEF Choosing, Reach
<1>4. Sighted' /\ Loading' /\ EndedDone'
  BY DEF StallInv, Sighted, Loading, EndedDone
<1>5. Missed'
  BY DEF StallInv, Missed, Earns, queue
<1> QED BY <1>1, <1>3, <1>4, <1>5 DEF Remembered

LEMMA SelectKeeps ==
  ASSUME PollerTyped, StallInv, Select PROVE StallInv'
<1>1. /\ UNCHANGED <<disk, writes, queue, lag, fruitless>>
      /\ pass.at = "select" /\ pass'.at = "submit" /\ pass'.disk = pass.disk
      /\ pass'.sent = pass.sent /\ pass'.cursors = pass.cursors /\ pass'.lag = pass.lag
      /\ pass'.wanted = pass.wanted
  BY DEF Select, Idle, memory, ghosts, PollerTyped, PassTyped
<1>2. Queued'
  BY <1>1, SelectedOnce DEF StallInv, Queued, Candidates
<1> QED BY <1>1, <1>2, GoesOn DEF StallInv

\* What is left to submit once the first is done.
LEMMA NextTurn ==
  ASSUME PollerTyped, Queued, pass.at = "submit", pass.todo # <<>>
  PROVE  /\ Head(pass.todo) \in Candidates /\ Head(pass.todo) \notin Range(Tail(pass.todo))
         /\ Range(Tail(pass.todo)) \subseteq Range(pass.todo)
         /\ \A i, j \in DOMAIN Tail(pass.todo) :
              Tail(pass.todo)[i] = Tail(pass.todo)[j] => i = j
         /\ \A f \in pass.sent : f[1] # Head(pass.todo) /\ f[1] \notin Range(Tail(pass.todo))
<1>1. PICK todo, n, rest : todo = pass.todo /\ n = Len(todo) /\ rest = Tail(todo)
  OBVIOUS
<1>2. /\ todo \in Seq(Session) /\ n \in Nat /\ n > 0 /\ DOMAIN todo = 1..n
      /\ Head(todo) = todo[1] /\ rest \in Seq(Session) /\ Len(rest) = n - 1
      /\ DOMAIN rest = 1..(n - 1) /\ \A i \in 1..(n - 1) : rest[i] = todo[i + 1]
  BY <1>1, HeadTailProperties, LenProperties, EmptySeq DEF PollerTyped, PassTyped
<1>3. /\ \A i, j \in 1..n : todo[i] = todo[j] => i = j
      /\ \A i \in 1..n : todo[i] \in Candidates
  BY <1>1, <1>2 DEF Queued, Range
<1>4. \A i \in 1..(n - 1) : i + 1 \in 1..n /\ rest[i] = todo[i + 1]
  BY <1>2
<1>5. Range(rest) \subseteq Range(todo) /\ Head(todo) \in Range(todo)
  <2>1. \A i \in 1..n : todo[i] \in Range(todo)
    BY <1>2 DEF Range
  <2>2. 1 \in 1..n
    BY <1>2
  <2>3. \A i \in 1..(n - 1) : rest[i] \in Range(todo)
    BY <1>4, <2>1
  <2> QED BY <1>2, <2>1, <2>2, <2>3 DEF Range
<1>6. Head(todo) \notin Range(rest)
  <2> SUFFICES ASSUME NEW i \in 1..(n - 1), rest[i] = todo[1] PROVE FALSE
    BY <1>2 DEF Range
  <2>1. i + 1 \in 1..n /\ 1 \in 1..n /\ todo[i + 1] = todo[1] /\ i + 1 # 1
    BY <1>2, <1>4
  <2> QED BY <1>3, <2>1
<1>7. ASSUME NEW i \in 1..(n - 1), NEW j \in 1..(n - 1), rest[i] = rest[j] PROVE i = j
  <2>1. i + 1 = j + 1
    BY <1>3, <1>4, <1>7
  <2> QED BY <1>2, <2>1
<1>8. \A f \in pass.sent : f[1] \notin Range(todo)
  BY <1>1 DEF Queued
<1>9. Head(todo) \in Candidates
  BY <1>2, <1>3
<1> QED BY <1>1, <1>2, <1>5, <1>6, <1>7, <1>8, <1>9

LEMMA SkipKeeps ==
  ASSUME PollerTyped, StallInv, SkipFolderless PROVE StallInv'
<1>1. /\ UNCHANGED <<disk, writes, queue, lag, fruitless>>
      /\ pass.at = "submit" /\ pass.todo # <<>> /\ pass' = MoveOn(Head(pass.todo))
  BY DEF SkipFolderless, ghosts
<1>2. /\ pass'.at = "submit" /\ pass'.disk = pass.disk /\ pass'.cursors = pass.cursors
      /\ pass'.lag = pass.lag /\ pass'.wanted = pass.wanted /\ pass'.todo = Tail(pass.todo)
      /\ pass'.sent = pass.sent
  BY <1>1, MoveOnIs
<1>3. Queued'
  <2>1. /\ Range(pass.todo) \subseteq Candidates /\ Range(Tail(pass.todo)) \subseteq Range(pass.todo)
        /\ \A i, j \in DOMAIN Tail(pass.todo) :
             Tail(pass.todo)[i] = Tail(pass.todo)[j] => i = j
        /\ \A f \in pass.sent : f[1] \notin Range(Tail(pass.todo))
    BY <1>1, NextTurn DEF StallInv, Queued
  <2>2. Candidates' = Candidates
    BY <1>2 DEF Candidates
  <2>3. Range(pass.todo)' = Range(Tail(pass.todo))
    BY <1>2
  <2> QED BY <1>2, <2>1, <2>2, <2>3 DEF Queued
<1> QED BY <1>1, <1>2, <1>3, GoesOn DEF StallInv

-----------------------------------------------------------------------------
(* A submission.                                                           *)

LEMMA SubmitFacts ==
  ASSUME PollerTyped, SubmitSession, NEW s, s = Head(pass.todo)
  PROVE  /\ s \in Session /\ pass.at = "submit" /\ pass.todo # <<>>
         /\ UNCHANGED <<disk, writes, offsets, lag, fruitless>>
         /\ row[s] \in Job /\ Submittable(row[s]) /\ row'[s] = Enqueued(row[s])
         /\ \A t \in Session : t # s => row'[t] = row[t] /\ run'[t] = run[t]
         /\ \A f \in File : ack'[f] = IF f \in pass.wanted /\ f[1] = s THEN Aged(ack[f]) ELSE ack[f]
         /\ run'[s].ahead = run[s].ahead /\ run'[s].moved = run[s].moved
         /\ run'[s].read = IF /\ run[s].read # Nothing
                              /\ Head(run[s].ahead) \in pass.wanted /\ Head(run[s].ahead)[1] = s
                           THEN Aged(run[s].read) ELSE run[s].read
<1> DEFINE wanted == {f \in pass.wanted : f[1] = s}
<1>1. /\ pass.at = "submit" /\ pass.todo # <<>> /\ Enqueued(row[s]).id <= MaxIds
      /\ UNCHANGED <<disk, writes, offsets, lag, fruitless>>
      /\ row' = [row EXCEPT ![s] = Enqueued(row[s])]
  BY DEF SubmitSession, ghosts
<1>2. s \in Session
  BY <1>1, AtSession
<1>3. row \in [Session -> Job] /\ run \in [Session -> Run] /\ (row[s].state # "done" => row[s].id # 0)
  BY <1>2 DEF PollerTyped, QueueTyped
<1>4. ack' = [f \in File |-> IF f \in wanted /\ ack[f] # Nothing
                             THEN [ack[f] EXCEPT !.newer = Earlier(@)] ELSE ack[f]]
  BY DEF SubmitSession
<1>5. \A f \in File : ack'[f] = IF f \in pass.wanted /\ f[1] = s THEN Aged(ack[f]) ELSE ack[f]
  BY <1>4 DEF Aged
<1>6. run' = IF run[s].read # Nothing /\ Head(run[s].ahead) \in wanted
             THEN [run EXCEPT ![s].read.newer = Earlier(@)] ELSE run
  BY DEF SubmitSession
<1>7. CASE run[s].read # Nothing /\ Head(run[s].ahead) \in wanted
  <2>1. PICK read : read = Aged(run[s].read)
    OBVIOUS
  <2>2. run' = [run EXCEPT ![s] = [run[s] EXCEPT !.read = read]]
    BY <1>6, <1>7, <2>1 DEF Aged
  <2>3. /\ run'[s] = [run[s] EXCEPT !.read = read] /\ run[s] \in Run
        /\ \A t \in Session : t # s => run'[t] = run[t]
    BY <1>2, <1>3, <2>2
  <2>4. run'[s].ahead = run[s].ahead /\ run'[s].moved = run[s].moved /\ run'[s].read = read
    BY <2>3 DEF Run
  <2> QED BY <1>1, <1>2, <1>3, <1>5, <1>7, <2>1, <2>3, <2>4 DEF Submittable
<1>8. CASE ~ (run[s].read # Nothing /\ Head(run[s].ahead) \in wanted)
  BY <1>1, <1>2, <1>3, <1>5, <1>6, <1>8 DEF Submittable
<1> QED BY <1>7, <1>8

LEMMA SubmitView ==
  ASSUME PollerTyped, PollerTyped', SubmitSession, NEW f \in File
  PROVE  IF f[1] = Head(pass.todo)
         THEN /\ Submits(f \in pass.wanted, FileView(f), FileView(f)')
              /\ Submittable(FileView(f).row)
         ELSE FileView(f)' = FileView(f)
<1>1. PICK s, wanted : s = Head(pass.todo) /\ wanted = (f \in pass.wanted)
  OBVIOUS
<1>2. /\ s \in Session /\ UNCHANGED <<disk, offsets>>
      /\ row[s] \in Job /\ Submittable(row[s]) /\ row'[s] = Enqueued(row[s])
      /\ \A t \in Session : t # s => row'[t] = row[t] /\ run'[t] = run[t]
      /\ ack'[f] = IF f \in pass.wanted /\ f[1] = s THEN Aged(ack[f]) ELSE ack[f]
      /\ run'[s].ahead = run[s].ahead
      /\ run'[s].read = IF /\ run[s].read # Nothing
                           /\ Head(run[s].ahead) \in pass.wanted /\ Head(run[s].ahead)[1] = s
                        THEN Aged(run[s].read) ELSE run[s].read
  BY <1>1, SubmitFacts
<1>3. f[1] \in Session
  BY SessionIs
<1>4. CASE f[1] # s
  BY <1>1, <1>2, <1>3, <1>4, OthersView
<1>5. CASE f[1] = s
  <2>1. PICK v, w : v = FileView(f) /\ w = FileView(f)'
    OBVIOUS
  <2>2. v \in View /\ w \in View
    BY <2>1, ViewTyped, NextView
  <2>3. EndOf(f)' = EndOf(f)
    BY <1>2 DEF EndOf
  <2>4. /\ w.offset = v.offset /\ w.rev = v.rev /\ w.end = v.end
        /\ w.row = Enqueued(v.row) /\ v.row = row[s]
        /\ w.ack = IF wanted THEN Aged(v.ack) ELSE v.ack
    <3>1. /\ w.offset = offsets'[f] /\ v.offset = offsets[f] /\ w.rev = disk'[f].rev
          /\ v.rev = disk[f].rev /\ w.end = EndOf(f)' /\ v.end = EndOf(f)
      BY <2>1, Fields
    <3>2. w.row = row'[f[1]] /\ v.row = row[f[1]]
      BY <2>1, Fields
    <3>3. w.ack = ack'[f] /\ v.ack = ack[f]
      BY <2>1, Fields
    <3>4. w.offset = v.offset /\ w.rev = v.rev /\ w.end = v.end
      BY <1>2, <2>3, <3>1
    <3>5. w.row = Enqueued(v.row) /\ v.row = row[s]
      BY <1>2, <1>5, <3>2
    <3>6. w.ack = IF wanted THEN Aged(v.ack) ELSE v.ack
      BY <1>1, <1>2, <1>5, <3>3
    <3> QED BY <3>4, <3>5, <3>6
  <2>5. w.passed = v.passed
    <3>1. row'[s].state = "running" <=> row[s].state = "running"
      BY <1>2, EnqueuedRow
    <3>2. Passed(f)' <=> Passed(f)
      BY <1>2, <1>5, <3>1 DEF Passed
    <3>3. (Passed(f)' \in BOOLEAN) /\ (Passed(f) \in BOOLEAN)
      BY DEF Passed
    <3> QED BY <2>1, <3>2, <3>3, Fields
  <2>6. w.read = IF wanted THEN Aged(v.read) ELSE v.read
    <3>1. Aged(Nothing) = Nothing
      BY DEF Aged
    <3>2. v.read = IF Reading(f) THEN run[s].read ELSE Nothing
      BY <1>5, <2>1, Fields
    <3>3. w.read = IF Reading(f)' THEN run'[s].read ELSE Nothing
      BY <1>5, <2>1, Fields
    <3>4. CASE Reading(f)
      <4>1. run[s].read # Nothing /\ Head(run[s].ahead) = f
        BY <1>5, <3>4 DEF Reading
      <4>2. run'[s].read = IF wanted THEN Aged(run[s].read) ELSE run[s].read
        BY <1>1, <1>2, <1>5, <4>1
      <4>3. run[s].read \in Read => Aged(run[s].read) # Nothing
        BY <2>1, <2>2, <3>2, <3>4, <4>1, Ageing
      <4>4. run[s].read \in Read
        BY <2>2, <3>2, <3>4, <4>1 DEF View, OrNothing
      <4>5. Reading(f)'
        BY <1>2, <1>5, <4>1, <4>2, <4>3, <4>4 DEF Reading
      <4> QED BY <3>2, <3>3, <3>4, <4>2, <4>5
    <3>5. CASE ~ Reading(f)
      <4>1. ~ Reading(f)'
        <5>1. run[s].read = Nothing => run'[s].read = Nothing
          BY <1>2
        <5> QED BY <1>2, <1>5, <3>5, <5>1 DEF Reading
      <4> QED BY <3>1, <3>2, <3>3, <3>5, <4>1
    <3> QED BY <3>4, <3>5
  <2>7. w = [v EXCEPT !.row = Enqueued(v.row), !.ack = IF wanted THEN Aged(v.ack) ELSE v.ack,
                      !.read = IF wanted THEN Aged(v.read) ELSE v.read]
    <3>1. PICK row1, ack1, read1 : row1 = w.row /\ ack1 = w.ack /\ read1 = w.read
      OBVIOUS
    <3>2. w = [v EXCEPT !.row = row1, !.ack = ack1, !.read = read1]
      BY <2>2, <2>4, <2>5, <3>1 DEF View
    <3> QED BY <2>4, <2>6, <3>1, <3>2
  <2> QED BY <1>1, <1>2, <1>5, <2>1, <2>4, <2>7 DEF Submits
<1> QED BY <1>1, <1>4, <1>5

\* What is submitted the pass has seen, and it is there.
LEMMA WantedThere ==
  ASSUME PollerTyped, Sighted, pass.at \in {"select", "submit"}, NEW f \in pass.wanted
  PROVE  f \in File /\ f \in Listed(disk) /\ There(disk, Main(f[1]))
<1>1. f \in Listed(pass.disk) /\ f \in File
  BY DEF PollerTyped, PassTyped, Listed
<1>2. \A g \in File : There(pass.disk, g) => There(disk, g)
  <2>1. \A g \in File : pass.disk[g].rev \in Nat /\ disk[g].rev \in Nat
                        /\ pass.disk[g].rev <= disk[g].rev
    BY DEF Sighted, PollerTyped, DiskTyped, PassTyped, Disk
  <2> QED BY <2>1 DEF There
<1> QED BY <1>1, <1>2, SessionIs DEF Listed

LEMMA SubmitGrounds ==
  ASSUME PollerTyped, PollerTyped', StallInv, SubmitSession PROVE Grounds'
<1>1. PICK s : s = Head(pass.todo)
  OBVIOUS
<1>2. /\ s \in Session /\ pass.at = "submit" /\ pass.todo # <<>>
      /\ UNCHANGED <<disk, writes>>
      /\ \A t \in Session : t # s => row'[t] = row[t] /\ run'[t] = run[t]
      /\ run'[s].ahead = run[s].ahead /\ run'[s].moved = run[s].moved
  BY <1>1, SubmitFacts
<1>3. There(disk, Main(s))
  <2>1. s \in Candidates
    BY <1>1, <1>2, NextTurn DEF StallInv
  <2>2. PICK f \in pass.wanted : f[1] = s
    BY <2>1 DEF Candidates
  <2> QED BY <1>2, <2>2, WantedThere DEF StallInv
<1>4. JobGrounds'
  BY <1>2, <1>3 DEF StallInv, Grounds, JobGrounds
<1>5. DiskGrounds'
  BY <1>2 DEF StallInv, Grounds, DiskGrounds
<1>6. ASSUME NEW f \in Reach
      PROVE  Sound(FileView(f)') /\ (f \notin Later => AtBoot(FileView(f)'))
  <2>1. PICK v, w, wanted : v = FileView(f) /\ w = FileView(f)' /\ wanted = (f \in pass.wanted)
    OBVIOUS
  <2>2. Sound(v) /\ (f \notin Later => AtBoot(v))
    BY <2>1 DEF StallInv, Grounds, SoundFiles
  <2>3. w = v \/ (Submits(wanted, v, w) /\ Submittable(v.row))
    BY <2>1, SubmitView DEF Reach
  <2>4. Sound(w) /\ (AtBoot(v) => AtBoot(w))
    BY <2>2, <2>3, SubmitsIs DEF AtBoot
  <2> QED BY <2>1, <2>2, <2>4
<1> QED BY <1>4, <1>5, <1>6 DEF Grounds, SoundFiles, Reach

LEMMA SubmitPass ==
  ASSUME PollerTyped, SubmitSession, NEW s, s = Head(pass.todo)
  PROVE  /\ pass'.at = "submit" /\ pass'.disk = pass.disk /\ pass'.cursors = pass.cursors
         /\ pass'.wanted = pass.wanted /\ pass'.todo = Tail(pass.todo)
         /\ pass'.sent = pass.sent \union {f \in pass.wanted : f[1] = s}
         /\ \A f \in File :
              pass'.lag[f] = IF f \in pass.wanted /\ f[1] = s
                             THEN Resubmission(pass.lag[f], pass.cursors[f], pass.disk[f].rev,
                                               row'[s].id)
                             ELSE pass.lag[f]
<1> DEFINE wanted == {f \in pass.wanted : f[1] = s}
<1>1. pass.at = "submit" /\ pass.todo # <<>>
  BY DEF SubmitSession
<1>2. s \in Session /\ row'[s] = Enqueued(row[s])
  BY SubmitFacts
<1>3. PICK moved, new : moved = MoveOn(s) /\ new = Enqueued(row[s])
  OBVIOUS
<1>4. /\ DOMAIN moved = DOMAIN Idle
      /\ moved.at = "submit" /\ moved.disk = pass.disk /\ moved.cursors = pass.cursors
      /\ moved.lag = pass.lag /\ moved.wanted = pass.wanted /\ moved.sent = pass.sent
      /\ moved.todo = Tail(pass.todo)
  BY <1>1, <1>3, MoveOnIs
<1>5. pass' = [moved EXCEPT
                 !.lag = [f \in File |-> IF f \in wanted THEN Resubmitted(f, new.id) ELSE @[f]],
                 !.sent = @ \union wanted]
  BY <1>3 DEF SubmitSession
<1>6. PICK entries, sent :
        /\ entries = [f \in File |-> IF f \in wanted THEN Resubmitted(f, new.id) ELSE moved.lag[f]]
        /\ sent = moved.sent \union wanted
  OBVIOUS
<1>7. pass' = [moved EXCEPT !.lag = entries, !.sent = sent]
  BY <1>5, <1>6
<1>8. /\ pass'.lag = entries /\ pass'.sent = sent /\ pass'.at = moved.at
      /\ pass'.disk = moved.disk /\ pass'.cursors = moved.cursors
      /\ pass'.wanted = moved.wanted /\ pass'.todo = moved.todo
  BY <1>4, <1>7 DEF Idle
<1>9. \A f \in File : Resubmitted(f, new.id)
                        = Resubmission(pass.lag[f], pass.cursors[f], pass.disk[f].rev, new.id)
  BY DEF Resubmitted, Resubmission
<1> QED BY <1>2, <1>3, <1>4, <1>6, <1>8, <1>9

\* What the session's files leave of it, and the others'.
LEMMA SubmitRests ==
  ASSUME PollerTyped, PollerTyped', StallInv, SubmitSession, NEW f \in Reach, NEW e
  PROVE  Rests(0, f, e) => (e # Nothing => /\ f \in Listed(disk') /\ Placed(FileView(f)', e)
                                           /\ Resting(0, FileView(f)', e))
<1> SUFFICES ASSUME e # Nothing, Rests(0, f, e)
             PROVE  /\ f \in Listed(disk') /\ Placed(FileView(f)', e)
                    /\ Resting(0, FileView(f)', e)
  OBVIOUS
<1>1. PICK v, w, wanted : v = FileView(f) /\ w = FileView(f)' /\ wanted = (f \in pass.wanted)
  OBVIOUS
<1>2. f \in Listed(disk) /\ Placed(v, e) /\ Resting(0, v, e)
  BY <1>1 DEF Rests, Known
<1>3. disk' = disk
  BY DEF SubmitSession
<1>4. w = v \/ (Submits(wanted, v, w) /\ Submittable(v.row))
  BY <1>1, SubmitView DEF Reach
<1>5. Sound(v)
  BY <1>1 DEF StallInv, Grounds, SoundFiles
<1>6. Placed(w, e) /\ Resting(0, w, e)
  BY <1>2, <1>4, <1>5, SubmitKeeps
<1> QED BY <1>1, <1>2, <1>3, <1>6

\* What is submitted can rest again once the pass has recorded it.
LEMMA SentRests ==
  ASSUME PollerTyped, PollerTyped', StallInv, SubmitSession, NEW f \in Reach,
         f \in pass.wanted, f[1] = Head(pass.todo), f \notin pass.sent
  PROVE  Rests(1, f, pass.lag[f])'
<1>1. PICK s, v, w, e, c, d, new :
        /\ s = Head(pass.todo) /\ v = FileView(f) /\ w = FileView(f)' /\ e = pass.lag[f]
        /\ c = pass.cursors[f] /\ d = pass.disk[f].rev /\ new = Resubmission(e, c, d, w.row.id)
  OBVIOUS
<1>2. f \in File /\ pass.at = "submit" /\ disk' = disk
  BY DEF Reach, SubmitSession
<1>3. f \in Listed(disk)
  BY <1>2, WantedThere DEF StallInv
<1>4. Rests(0, f, e) /\ Open(f)
  BY <1>1, <1>2 DEF StallInv, Remembered, Choosing
<1>5. Submits(TRUE, v, w) /\ Submittable(v.row)
  <2>1. PICK wanted : wanted = (f \in pass.wanted)
    OBVIOUS
  <2>2. wanted = TRUE
    BY <2>1
  <2> QED BY <1>1, <1>2, <2>1, <2>2, SubmitView
<1>6. Sound(v)
  BY <1>1 DEF StallInv, Grounds, SoundFiles
<1>7. d \in Nat /\ d <= v.rev
  BY <1>1, <1>2, SeenRev DEF StallInv
<1>8. c \in OrNothing(Offset)
  BY <1>1, <1>2 DEF PollerTyped, PassTyped
<1>9. AtMost(c, v.offset) /\ (e = Nothing => FreshAt(c, v))
      /\ (e # Nothing => Placed(v, e) /\ OpenAt(d, v, e))
  BY <1>1, <1>2, <1>4, Fields DEF Open, Rests, Known
<1>10. Placed(w, new) /\ Resting(1, w, new)
  BY <1>1, <1>5, <1>6, <1>7, <1>8, <1>9, ResubmissionIs
<1>11. pass'.lag[f] = new
  BY <1>1, <1>2, SubmitPass, Fields
<1> QED BY <1>1, <1>2, <1>3, <1>10, <1>11 DEF Rests, Known

LEMMA SubmitChoosing ==
  ASSUME PollerTyped, PollerTyped', StallInv, SubmitSession PROVE Choosing'
<1>1. PICK s : s = Head(pass.todo)
  OBVIOUS
<1>2. /\ pass.at = "submit" /\ pass.todo # <<>> /\ UNCHANGED <<disk, offsets>>
  BY DEF SubmitSession
<1>3. /\ pass'.disk = pass.disk /\ pass'.cursors = pass.cursors /\ pass'.wanted = pass.wanted
      /\ pass'.sent = pass.sent \union {f \in pass.wanted : f[1] = s}
      /\ \A f \in File : f \notin pass.wanted \/ f[1] # s => pass'.lag[f] = pass.lag[f]
  BY <1>1, SubmitPass
<1>4. \A f \in pass.sent : f[1] # s
  BY <1>1, <1>2, NextTurn DEF StallInv
<1> SUFFICES ASSUME NEW f \in Reach
             PROVE  (IF f \in pass.sent THEN Rests(1, f, pass.lag[f])
                     ELSE Rests(0, f, pass.lag[f]) /\ (f \in pass.wanted => Open(f)))'
  BY DEF Choosing
<1>5. f \in File
  BY DEF Reach
<1>6. IF f \in pass.sent THEN Rests(1, f, pass.lag[f])
      ELSE Rests(0, f, pass.lag[f]) /\ (f \in pass.wanted => Open(f))
  BY <1>2 DEF StallInv, Remembered, Choosing
<1>7. f[1] # s => FileView(f)' = FileView(f)
  BY <1>1, <1>5, SubmitView
<1>8. CASE f \in pass.wanted /\ f[1] = s
  <2>1. f \in pass'.sent /\ f \notin pass.sent
    BY <1>3, <1>4, <1>8
  <2> QED BY <1>1, <1>8, <2>1, SentRests
<1>9. CASE f \in pass.sent
  <2>1. f[1] # s /\ f \in pass'.sent /\ pass'.lag[f] = pass.lag[f]
    BY <1>3, <1>4, <1>5, <1>9
  <2> QED BY <1>2, <1>6, <1>7, <1>9, <2>1 DEF Rests, Known
<1>10. CASE f \notin pass.sent /\ ~ (f \in pass.wanted /\ f[1] = s)
  <2>1. f \notin pass'.sent /\ pass'.lag[f] = pass.lag[f]
    BY <1>3, <1>5, <1>10
  <2>2. Rests(0, f, pass.lag[f])'
    BY <1>6, <1>10, <2>1, SubmitRests DEF Rests, Known
  <2>3. f \in pass.wanted => Open(f)'
    BY <1>2, <1>3, <1>6, <1>7, <1>10, <2>1 DEF Open
  <2> QED BY <1>3, <2>1, <2>2, <2>3
<1> QED BY <1>8, <1>9, <1>10

LEMMA SubmitMissed ==
  ASSUME PollerTyped, StallInv, SubmitSession PROVE Missed'
<1>1. PICK s : s = Head(pass.todo)
  OBVIOUS
<1>2. /\ s \in Session /\ pass.at = "submit" /\ UNCHANGED <<lag, fruitless>>
      /\ row[s] \in Job /\ Submittable(row[s]) /\ row'[s] = Enqueued(row[s])
      /\ \A t \in Session : t # s => row'[t] = row[t]
  BY <1>1, SubmitFacts
<1>3. \A f \in File :
        pass'.lag[f] = IF f \in pass.wanted /\ f[1] = s
                       THEN Resubmission(pass.lag[f], pass.cursors[f], pass.disk[f].rev, row'[s].id)
                       ELSE pass.lag[f]
  BY <1>1, SubmitPass
<1>4. Submitted(lag) /\ Submitted(pass.lag) /\ fruitless \in [File -> 0..StallPasses]
  BY <1>2 DEF PollerTyped, MemoryTyped, PassTyped, StallInv, Missed
<1>5. ASSUME NEW f \in File, NEW e, e.job \in 1..row[f[1]].id
      PROVE  JobDone(row'[f[1]], e) <=> JobDone(row[f[1]], e)
  BY <1>2, <1>5, EnqueuedRow, SessionIs
<1>6. ASSUME NEW f \in Astray, lag[f] # Nothing PROVE Earns(f, lag[f])'
  <2>1. f \in File /\ Earns(f, lag[f])
    BY <1>6 DEF StallInv, Missed, Astray
  <2>2. JobDone(row'[f[1]], lag[f]) <=> JobDone(row[f[1]], lag[f])
    BY <1>4, <1>5, <1>6, <2>1 DEF Submitted
  <2> QED BY <1>2, <2>1, <2>2 DEF Earns, One
<1>7. ASSUME NEW f \in Astray, pass'.lag[f] # Nothing PROVE Earns(f, pass.lag[f])'
  <2>1. f \in File /\ (pass.lag[f] # Nothing => Earns(f, pass.lag[f]))
    BY <1>2 DEF StallInv, Missed, Astray
  <2>2. CASE f \in pass.wanted /\ f[1] = s
    <3>1. PICK e, new : /\ e = pass.lag[f]
                        /\ new = Resubmission(e, pass.cursors[f], pass.disk[f].rev, row'[s].id)
      OBVIOUS
    <3>2. new.job = row'[s].id /\ new.tries = IF e = Nothing THEN 0 ELSE e.tries
      BY <3>1 DEF Resubmission
    <3>3. ~ JobDone(row'[s], new)
      BY <1>2, <3>2, EnqueuedRow DEF JobDone
    <3>4. e # Nothing => e.tries \in 0..StallPasses
      BY <1>4, <2>1, <3>1 DEF Submitted, OrNothing, Entry
    <3>5. fruitless[f] \in 0..StallPasses
      BY <1>4, <2>1
    <3>6. fruitless[f] = StallPasses \/ new.tries <= fruitless[f]
      BY <2>1, <3>1, <3>2, <3>4, <3>5, PollerAssumption DEF Earns, One
    <3>7. fruitless[f] = StallPasses
          \/ new.tries + One(Uncounted(new) /\ JobDone(row'[s], new)) <= fruitless[f]
      BY <3>2, <3>3, <3>4, <3>6 DEF One
    <3> QED BY <1>2, <1>3, <2>1, <2>2, <3>1, <3>7 DEF Earns
  <2>3. CASE ~ (f \in pass.wanted /\ f[1] = s)
    <3>1. pass'.lag[f] = pass.lag[f] /\ pass.lag[f] # Nothing
      BY <1>3, <1>7, <2>1, <2>3
    <3>2. JobDone(row'[f[1]], pass.lag[f]) <=> JobDone(row[f[1]], pass.lag[f])
      BY <1>4, <1>5, <2>1, <3>1 DEF Submitted
    <3> QED BY <1>2, <2>1, <3>1, <3>2 DEF Earns, One
  <2> QED BY <2>2, <2>3
<1> QED BY <1>2, <1>4, <1>6, <1>7 DEF Missed

LEMMA SubmissionKeeps ==
  ASSUME PollerTyped, PollerTyped', StallInv, SubmitSession PROVE StallInv'
<1>1. PICK s : s = Head(pass.todo)
  OBVIOUS
<1>2. /\ pass.at = "submit" /\ pass.todo # <<>> /\ UNCHANGED <<disk, lag>>
  BY DEF SubmitSession
<1>3. /\ pass'.at = "submit" /\ pass'.disk = pass.disk
      /\ pass'.wanted = pass.wanted /\ pass'.todo = Tail(pass.todo)
      /\ pass'.sent = pass.sent \union {f \in pass.wanted : f[1] = s}
  BY <1>1, SubmitPass
<1>4. Sighted' /\ Loading' /\ EndedDone'
  BY <1>2, <1>3 DEF StallInv, Sighted, Loading, EndedDone
<1>5. Queued'
  <2>1. /\ Range(pass.todo) \subseteq Candidates /\ Range(Tail(pass.todo)) \subseteq Range(pass.todo)
        /\ \A i, j \in DOMAIN Tail(pass.todo) :
             Tail(pass.todo)[i] = Tail(pass.todo)[j] => i = j
        /\ \A f \in pass.sent : f[1] \notin Range(Tail(pass.todo))
        /\ s \notin Range(Tail(pass.todo))
    BY <1>1, <1>2, NextTurn DEF StallInv, Queued
  <2>2. Candidates' = Candidates
    BY <1>3 DEF Candidates
  <2>3. Range(pass.todo)' = Range(Tail(pass.todo))
    BY <1>3
  <2> QED BY <1>3, <2>1, <2>2, <2>3 DEF Queued
<1>6. AtRest'
  BY <1>2, SubmitRests DEF StallInv, Remembered, AtRest, Rests, Known
<1> QED BY <1>4, <1>5, <1>6, SubmitGrounds, SubmitChoosing, SubmitMissed DEF StallInv, Remembered

-----------------------------------------------------------------------------
(* The record of a pass.                                                   *)

LEMMA RecordFacts ==
  ASSUME PollerTyped, RecordPass
  PROVE  /\ pass.at = "submit" /\ UNCHANGED <<disk, writes, offsets, row, fruitless>>
         /\ lag' = pass.lag /\ pass'.at = "idle" /\ pass'.sent = {}
         /\ \A f \in File : ack'[f] = IF f \in pass.sent THEN Kept(ack[f]) ELSE ack[f]
         /\ \A s \in Session :
              /\ run'[s].ahead = run[s].ahead /\ run'[s].moved = run[s].moved
              /\ run'[s].read = IF run[s].read # Nothing /\ Head(run[s].ahead) \in pass.sent
                                THEN Kept(run[s].read) ELSE run[s].read
<1>1. /\ pass.at = "submit" /\ UNCHANGED <<disk, writes, offsets, row, fruitless>>
      /\ lag' = pass.lag /\ pass'.at = "idle" /\ pass'.sent = {}
  BY DEF RecordPass, Idle
<1>2. \A f \in File : ack'[f] = IF f \in pass.sent THEN Kept(ack[f]) ELSE ack[f]
  BY DEF RecordPass, Kept
<1>3. ASSUME NEW s \in Session
      PROVE  /\ run'[s].ahead = run[s].ahead /\ run'[s].moved = run[s].moved
             /\ run'[s].read = IF run[s].read # Nothing /\ Head(run[s].ahead) \in pass.sent
                               THEN Kept(run[s].read) ELSE run[s].read
  <2>1. run[s] \in Run
    BY DEF PollerTyped, QueueTyped
  <2>2. run'[s] = IF run[s].read # Nothing /\ Head(run[s].ahead) \in pass.sent
                  THEN [run[s] EXCEPT !.read.newer = Retained(@)] ELSE run[s]
    BY DEF RecordPass
  <2>3. CASE run[s].read # Nothing /\ Head(run[s].ahead) \in pass.sent
    <3>1. PICK read : read = Kept(run[s].read)
      OBVIOUS
    <3>2. run'[s] = [run[s] EXCEPT !.read = read]
      BY <2>2, <2>3, <3>1 DEF Kept
    <3> QED BY <2>1, <2>3, <3>1, <3>2 DEF Run
  <2>4. CASE ~ (run[s].read # Nothing /\ Head(run[s].ahead) \in pass.sent)
    BY <2>2, <2>4
  <2> QED BY <2>3, <2>4
<1> QED BY <1>1, <1>2, <1>3

LEMMA RecordView ==
  ASSUME PollerTyped, PollerTyped', RecordPass, NEW f \in File
  PROVE  Records(f \in pass.sent, FileView(f), FileView(f)')
<1>1. PICK s, sent, v, w : /\ s = f[1] /\ sent = (f \in pass.sent)
                           /\ v = FileView(f) /\ w = FileView(f)'
  OBVIOUS
<1>2. s \in Session /\ v \in View /\ w \in View
  BY <1>1, SessionIs, ViewTyped, NextView
<1>3. /\ UNCHANGED <<disk, offsets, row>>
      /\ ack'[f] = IF f \in pass.sent THEN Kept(ack[f]) ELSE ack[f]
      /\ run'[s].ahead = run[s].ahead
      /\ run'[s].read = IF run[s].read # Nothing /\ Head(run[s].ahead) \in pass.sent
                        THEN Kept(run[s].read) ELSE run[s].read
  BY <1>2, RecordFacts
<1>4. w.offset = v.offset /\ w.rev = v.rev /\ w.end = v.end /\ w.row = v.row
  <2>1. EndOf(f)' = EndOf(f)
    BY <1>3 DEF EndOf
  <2>2. /\ w.offset = offsets'[f] /\ v.offset = offsets[f] /\ w.rev = disk'[f].rev
        /\ v.rev = disk[f].rev /\ w.end = EndOf(f)' /\ v.end = EndOf(f)
        /\ w.row = row'[f[1]] /\ v.row = row[f[1]]
    BY <1>1, Fields
  <2> QED BY <1>3, <2>1, <2>2
<1>5. w.ack = IF sent THEN Kept(v.ack) ELSE v.ack
  <2>1. w.ack = ack'[f] /\ v.ack = ack[f]
    BY <1>1, Fields
  <2> QED BY <1>1, <1>3, <2>1
<1>6. w.passed = v.passed
  <2>1. Passed(f)' <=> Passed(f)
    BY <1>1, <1>3 DEF Passed
  <2>2. (Passed(f)' \in BOOLEAN) /\ (Passed(f) \in BOOLEAN)
    BY DEF Passed
  <2> QED BY <1>1, <2>1, <2>2, Fields
<1>7. w.read = IF sent THEN Kept(v.read) ELSE v.read
  <2>1. Kept(Nothing) = Nothing
    BY DEF Kept
  <2>2. v.read = IF Reading(f) THEN run[s].read ELSE Nothing
    BY <1>1, Fields
  <2>3. w.read = IF Reading(f)' THEN run'[s].read ELSE Nothing
    BY <1>1, Fields
  <2>4. CASE Reading(f)
    <3>1. run[s].read # Nothing /\ Head(run[s].ahead) = f
      BY <1>1, <2>4 DEF Reading
    <3>2. run'[s].read = IF sent THEN Kept(run[s].read) ELSE run[s].read
      BY <1>1, <1>3, <3>1
    <3>3. v.read = run[s].read
      BY <2>2, <2>4
    <3>4. Kept(run[s].read) # Nothing
      BY <1>2, <3>1, <3>3, Ageing
    <3>5. Reading(f)'
      BY <1>1, <1>3, <3>1, <3>2, <3>4 DEF Reading
    <3> QED BY <2>3, <3>2, <3>3, <3>5
  <2>5. CASE ~ Reading(f)
    <3>1. run[s].read = Nothing => run'[s].read = Nothing
      BY <1>3
    <3>2. ~ Reading(f)'
      BY <1>1, <1>3, <2>5, <3>1 DEF Reading
    <3> QED BY <2>1, <2>2, <2>3, <2>5, <3>2
  <2> QED BY <2>4, <2>5
<1>8. w = [v EXCEPT !.ack = IF sent THEN Kept(v.ack) ELSE v.ack,
                    !.read = IF sent THEN Kept(v.read) ELSE v.read]
  <2>1. PICK ack1, read1 : ack1 = w.ack /\ read1 = w.read
    OBVIOUS
  <2>2. w = [v EXCEPT !.ack = ack1, !.read = read1]
    BY <1>2, <1>4, <1>6, <2>1 DEF View
  <2> QED BY <1>5, <1>7, <2>1, <2>2
<1> QED BY <1>1, <1>8 DEF Records

LEMMA RecordKeeps ==
  ASSUME PollerTyped, PollerTyped', StallInv, RecordPass PROVE StallInv'
<1>1. /\ pass.at = "submit" /\ UNCHANGED <<disk, writes, offsets, row, fruitless>>
      /\ lag' = pass.lag /\ pass'.at = "idle" /\ pass'.sent = {}
      /\ \A s \in Session : run'[s].ahead = run[s].ahead /\ run'[s].moved = run[s].moved
  BY RecordFacts
<1>2. Sighted' /\ Queued' /\ Loading' /\ EndedDone' /\ Choosing'
  BY <1>1 DEF Sighted, Queued, Loading, EndedDone, Choosing
<1>3. ASSUME NEW f \in Reach
      PROVE  /\ Sound(FileView(f)') /\ (f \notin Later => AtBoot(FileView(f)'))
             /\ Rests(0, f, lag[f])'
  <2>1. PICK v, w, e, sent : /\ v = FileView(f) /\ w = FileView(f)' /\ e = pass.lag[f]
                             /\ sent = (f \in pass.sent)
    OBVIOUS
  <2>2. Sound(v) /\ (f \notin Later => AtBoot(v))
    BY <2>1 DEF StallInv, Grounds, SoundFiles
  <2>3. Records(sent, v, w)
    BY <2>1, RecordView DEF Reach
  <2>4. Sound(w) /\ (AtBoot(v) => AtBoot(w))
    BY <2>2, <2>3, RecordsIs
  <2>5. IF sent THEN Rests(1, f, e) ELSE Rests(0, f, e)
    BY <1>1, <2>1 DEF StallInv, Remembered, Choosing
  <2>6. e # Nothing => /\ f \in Listed(disk) /\ Placed(v, e)
                       /\ IF sent THEN Resting(1, v, e) ELSE Resting(0, v, e)
    BY <2>1, <2>5 DEF Rests, Known
  <2>7. e # Nothing => f \in Listed(disk) /\ Placed(w, e) /\ Resting(0, w, e)
    BY <2>2, <2>3, <2>6, RecordsIs
  <2>8. Rests(0, f, lag[f])'
    BY <1>1, <2>1, <2>7 DEF Rests, Known
  <2> QED BY <2>1, <2>2, <2>4, <2>8
<1>4. AtRest'
  BY <1>3 DEF AtRest
<1>5. Grounds'
  <2>1. DiskGrounds' /\ JobGrounds'
    BY <1>1 DEF StallInv, Grounds, DiskGrounds, JobGrounds
  <2> QED BY <1>3, <2>1 DEF Grounds, SoundFiles
<1>6. Missed'
  BY <1>1 DEF StallInv, Missed, Earns
<1> QED BY <1>2, <1>4, <1>5, <1>6 DEF StallInv, Remembered

-----------------------------------------------------------------------------
(* A restart, and what is counted of files that jobs do not find.           *)

LEMMA RestartKeeps ==
  ASSUME PollerTyped, PollerTyped', StallInv, Restart PROVE StallInv'
<1>1. /\ UNCHANGED <<disk, writes, offsets, fruitless>>
      /\ \A f \in File : ack'[f] = Nothing /\ lag'[f] = Nothing
      /\ pass'.at = "idle" /\ pass'.sent = {}
  BY DEF Restart, Blank, Idle
<1>2. \A s \in Session : /\ row'[s].id = row[s].id /\ row'[s].state # "running"
                         /\ run'[s] = NoRun
  BY DEF Restart, PollerTyped, QueueTyped, Job
<1>3. Sighted' /\ Queued' /\ Loading' /\ EndedDone' /\ Choosing'
  BY <1>1 DEF Sighted, Queued, Loading, EndedDone, Choosing
<1>4. AtRest' /\ Missed'
  BY <1>1 DEF AtRest, Rests, StallInv, Missed, Reach, Astray
<1>5. DiskGrounds' /\ JobGrounds'
  <2>1. NoRun.ahead = <<>> /\ NoRun.moved = {} /\ Range(<<>>) = {}
    BY DEF NoRun, Range
  <2> QED BY <1>1, <1>2, <2>1 DEF StallInv, Grounds, DiskGrounds, JobGrounds
<1>6. ASSUME NEW f \in Reach
      PROVE  Sound(FileView(f)') /\ AtBoot(FileView(f)')
  <2>1. PICK v, w : v = FileView(f) /\ w = FileView(f)'
    OBVIOUS
  <2>2. f \in File /\ f[1] \in Session
    BY SessionIs DEF Reach
  <2>3. w \in View /\ Sound(v)
    BY <2>1, <2>2, NextView DEF StallInv, Grounds, SoundFiles
  <2>4. w.ack = Nothing
    BY <1>1, <2>1, <2>2, Fields
  <2>5. w.read = Nothing /\ ~ w.passed
    <3>1. ~ Reading(f)' /\ ~ Passed(f)'
      BY <1>2, <2>2 DEF Reading, Passed, NoRun
    <3>2. w.read = IF Reading(f)' THEN run'[f[1]].read ELSE Nothing
      BY <2>1, <2>2, Fields
    <3>3. w.passed = Passed(f)'
      BY <2>1, <2>2, Fields
    <3> QED BY <3>1, <3>2, <3>3
  <2>6. w.offset = v.offset /\ w.end = v.end
    <3>1. EndOf(f)' = EndOf(f)
      BY <1>1 DEF EndOf
    <3>2. /\ w.offset = offsets'[f] /\ v.offset = offsets[f]
          /\ w.end = EndOf(f)' /\ v.end = EndOf(f)
      BY <2>1, <2>2, Fields
    <3> QED BY <1>1, <3>1, <3>2
  <2> QED BY <2>1, <2>3, <2>4, <2>5, <2>6 DEF Sound, AtBoot
<1> QED BY <1>3, <1>4, <1>5, <1>6 DEF StallInv, Grounds, SoundFiles, Remembered

\* A job that ends done is one more of them.
LEMMA MissedOutside ==
  ASSUME PollerTyped, Missed, Outside, fruitless' \in [File -> 0..StallPasses],
         \A f \in Astray :
           \/ /\ fruitless'[f] = fruitless[f]
              /\ row'[f[1]].state = "done" => row[f[1]].state = "done"
           \/ fruitless'[f] = fruitless[f] + 1
           \/ fruitless'[f] = StallPasses
  PROVE  Missed'
<1>1. lag' = lag /\ pass' = pass
  BY DEF Outside, memory
<1>2. ASSUME NEW f \in Astray, NEW e \in Entry, Earns(f, e)
      PROVE  \/ fruitless'[f] = StallPasses
             \/ e.tries + One(Uncounted(e) /\ JobDone(row'[f[1]], e)) <= fruitless'[f]
  <2>1. /\ f \in File /\ f[1] \in Session /\ e.tries \in Nat
        /\ fruitless[f] \in 0..StallPasses /\ fruitless'[f] \in 0..StallPasses
        /\ StallPasses \in Nat
    BY SessionIs, PollerAssumption DEF Missed, Astray, Entry
  <2>2. row'[f[1]].id = row[f[1]].id /\ row'[f[1]].dead = row[f[1]].dead
    BY <2>1 DEF Outside
  <2>3. \/ fruitless[f] = StallPasses
        \/ e.tries + One(Uncounted(e) /\ JobDone(row[f[1]], e)) <= fruitless[f]
    BY <1>2 DEF Earns
  <2>4. CASE /\ fruitless'[f] = fruitless[f]
             /\ row'[f[1]].state = "done" => row[f[1]].state = "done"
    <3>1. JobDone(row'[f[1]], e) => JobDone(row[f[1]], e)
      BY <2>2, <2>4 DEF JobDone
    <3> QED BY <2>1, <2>3, <2>4, <3>1 DEF One
  <2>5. CASE fruitless'[f] = fruitless[f] + 1
    BY <2>1, <2>3, <2>5 DEF One
  <2> QED BY <2>4, <2>5
<1>3. /\ \A f \in File : lag[f] # Nothing => lag[f] \in Entry
      /\ pass.at \in {"select", "submit"} =>
           \A f \in File : pass.lag[f] # Nothing => pass.lag[f] \in Entry
  BY DEF PollerTyped, MemoryTyped, PassTyped, Submitted, OrNothing
<1> QED BY <1>1, <1>2, <1>3 DEF Missed, Earns, Astray

LEMMA HarnessKeeps ==
  ASSUME PollerTyped, PollerTyped', StallInv, NEW f \in File,
         WriteLine(f) \/ WritePart(f) \/ Touch(f) \/ Replace(f)
  PROVE  StallInv'
<1>1. Outside /\ DiskGrounds' /\ JobGrounds'
  BY HarnessOutside DEF StallInv
<1>2. SoundFiles' /\ Sighted' /\ Queued' /\ Remembered'
  BY <1>1, OutsideKeeps DEF StallInv
<1>3. UNCHANGED <<row, fruitless>>
  BY DEF WriteLine, WritePart, Touch, Replace, Write, queue, ghosts
<1>4. Missed'
  BY <1>1, <1>3, MissedOutside DEF StallInv, Missed
<1> QED BY <1>1, <1>2, <1>4 DEF StallInv, Grounds

LEMMA JobMissed ==
  ASSUME PollerTyped, Grounds, Missed, Outside, NEW s \in Session,
         JobStep(s) \/ RetryJob(s) \/ FailJob(s)
  PROVE  Missed'
<1>1. /\ row \in [Session -> Job] /\ run \in [Session -> Run]
      /\ fruitless \in [File -> 0..StallPasses] /\ StallPasses \in Nat
  BY PollerAssumption DEF PollerTyped, QueueTyped, Missed
<1>2. \A f \in Astray : f \in File /\ f[1] \in Session /\ f[1] \in Mislaid
  BY SessionIs DEF Astray
<1>3. CASE ClaimJob(s)
  <2>1. fruitless' = fruitless /\ \A t \in Session : row'[t].state = "done" => row[t].state = "done"
    BY <1>1, <1>3 DEF ClaimJob, Job, ghosts
  <2> QED BY <1>1, <1>2, <2>1, MissedOutside
<1>4. CASE ReadFile(s)
  <2>1. fruitless' = fruitless /\ row' = row
    BY <1>4 DEF ReadFile, ghosts
  <2> QED BY <1>1, <1>2, <2>1, MissedOutside
<1>5. CASE CommitFile(s)
  <2>1. run[s].ahead # <<>> /\ s \notin Mislaid
    BY <1>5 DEF CommitFile, PollerTyped, QueueTyped, Grounds, JobGrounds
  <2>2. Head(run[s].ahead)[1] = s
    <3>1. run[s].ahead \in Seq(File)
      BY <1>1 DEF Run
    <3> QED BY <2>1, <3>1, HeadFirst DEF Grounds, JobGrounds
  <2>3. row' = row /\ (fruitless' = fruitless
                       \/ fruitless' = [fruitless EXCEPT ![Head(run[s].ahead)] = 0])
    BY <1>5 DEF CommitFile
  <2>4. \A f \in Astray : fruitless'[f] = fruitless[f]
    BY <1>1, <1>2, <2>1, <2>2, <2>3
  <2>5. fruitless' \in [File -> 0..StallPasses]
    BY <1>1, <2>3
  <2> QED BY <2>3, <2>4, <2>5, MissedOutside
<1>6. CASE Finish(s)
  <2>1. /\ \A t \in Session : t # s => row'[t] = row[t]
        /\ fruitless' = [f \in File |->
             IF f[1] = s /\ f \notin run[s].moved /\ fruitless[f] < StallPasses
             THEN fruitless[f] + 1 ELSE fruitless[f]]
    BY <1>1, <1>6 DEF Finish, Settled
  <2>2. fruitless' \in [File -> 0..StallPasses]
    BY <1>1, <2>1
  <2>3. s \in Mislaid => run[s].moved = {}
    BY DEF Grounds, JobGrounds
  <2>4. ASSUME NEW f \in Astray
        PROVE  \/ /\ fruitless'[f] = fruitless[f]
                  /\ row'[f[1]].state = "done" => row[f[1]].state = "done"
               \/ fruitless'[f] = fruitless[f] + 1
               \/ fruitless'[f] = StallPasses
    <3>1. CASE f[1] = s
      BY <1>1, <1>2, <2>1, <2>3, <3>1
    <3>2. CASE f[1] # s
      BY <1>2, <2>1, <3>2
    <3> QED BY <3>1, <3>2
  <2> QED BY <2>2, <2>4, MissedOutside
<1>7. CASE RetryJob(s) \/ FailJob(s)
  <2>1. fruitless' = fruitless
    BY <1>7 DEF RetryJob, FailJob, ghosts
  <2>2. \A t \in Session : row'[t].state = "done" => row[t].state = "done"
    BY <1>1, <1>7 DEF RetryJob, FailJob, Settled, Job
  <2> QED BY <1>1, <1>2, <2>1, <2>2, MissedOutside
<1> QED BY <1>3, <1>4, <1>5, <1>6, <1>7 DEF JobStep

LEMMA JobKeeps ==
  ASSUME PollerTyped, PollerTyped', StallInv, NEW s \in Session,
         JobStep(s) \/ RetryJob(s) \/ FailJob(s)
  PROVE  StallInv'
<1>1. Outside /\ DiskGrounds' /\ JobGrounds'
  BY JobOutside DEF StallInv
<1>2. SoundFiles' /\ Sighted' /\ Queued' /\ Remembered'
  BY <1>1, OutsideKeeps DEF StallInv
<1>3. Missed'
  BY <1>1, JobMissed DEF StallInv
<1> QED BY <1>1, <1>2, <1>3 DEF StallInv, Grounds

LEMMA StutterKeeps ==
  ASSUME PollerTyped, StallInv, UNCHANGED pvars PROVE StallInv'
<1>1. UNCHANGED <<disk, writes, queue, lag, pass, fruitless>>
  BY DEF pvars, memory, ghosts
<1>2. Grounds' /\ AtRest' /\ \A f \in File : FileView(f)' = FileView(f)
  BY <1>1, SameGrounds, SameAtRest DEF StallInv, Remembered
<1>3. UNCHANGED <<disk, offsets, row>>
  BY <1>1 DEF queue
<1>4. Sighted' /\ Queued' /\ Loading' /\ EndedDone' /\ Missed'
  BY <1>1, <1>2, <1>3
     DEF StallInv, Remembered, Sighted, Queued, Candidates, Loading, EndedDone, Missed, Earns, Reach
<1>5. Choosing'
  BY <1>1, <1>2, <1>3 DEF StallInv, Remembered, Choosing, Rests, Known, Open, Reach
<1> QED BY <1>2, <1>4, <1>5 DEF StallInv, Remembered

LEMMA InitKeeps ==
  ASSUME PollerTyped, PollerInit PROVE StallInv
<1>1. /\ writes = 0 /\ \A f \in File : /\ disk[f].rev = 0 /\ disk[f].inode = 0
                                       /\ disk[f].torn = FALSE
                                       /\ disk[f].lines = IF f \in Bare THEN 0 ELSE 1
      /\ \A f \in File : ack[f] = Nothing /\ lag[f] = Nothing
      /\ \A s \in Session : row[s].id = 0 /\ row[s].state = "done" /\ run[s] = NoRun
      /\ pass.at = "idle" /\ pass.sent = {} /\ fruitless = [f \in File |-> 0]
  BY DEF PollerInit, Blank, Idle
<1>2. PICK known \in SUBSET (File \ (Bare \union Wordless)) :
        offsets = [f \in File |-> IF f \in known THEN [inode |-> 0, lines |-> 0] ELSE Nothing]
  BY DEF PollerInit
<1>3. NoRun.ahead = <<>> /\ NoRun.read = Nothing /\ NoRun.moved = {} /\ Range(<<>>) = {}
  BY DEF NoRun, Range
<1>4. DiskGrounds
  BY <1>1 DEF DiskGrounds
<1>5. JobGrounds
  BY <1>1, <1>3 DEF JobGrounds
<1>6. ASSUME NEW f \in Reach PROVE Sound(FileView(f)) /\ AtBoot(FileView(f))
  <2>1. PICK v : v = FileView(f)
    OBVIOUS
  <2>2. f \in File /\ f[1] \in Session
    BY SessionIs DEF Reach
  <2>3. v \in View
    BY <2>1, <2>2, ViewTyped
  <2>4. v.ack = Nothing
    BY <1>1, <2>1, <2>2, Fields
  <2>5. v.read = Nothing /\ ~ v.passed
    <3>1. ~ Reading(f) /\ ~ Passed(f)
      BY <1>1, <1>3, <2>2 DEF Reading, Passed
    <3>2. v.passed = Passed(f) /\ v.read = IF Reading(f) THEN run[f[1]].read ELSE Nothing
      BY <2>1, <2>2, Fields
    <3> QED BY <3>1, <3>2
  <2>6. AtMost(v.offset, v.end)
    <3>1. v.offset = offsets[f] /\ v.end = EndOf(f)
      BY <2>1, <2>2, Fields
    <3>2. EndOf(f).inode = 0 /\ EndOf(f).lines = IF f \in Bare THEN 0 ELSE 1
      BY <1>1, <2>2 DEF EndOf
    <3>3. offsets[f] = Nothing \/ (offsets[f].inode = 0 /\ offsets[f].lines = 0)
      BY <1>2, <2>2
    <3>4. EndOf(f) # Nothing
      BY <2>3, <3>1, ViewIs, NothingAssumption
    <3> QED BY <3>1, <3>2, <3>3, <3>4 DEF AtMost
  <2> QED BY <2>1, <2>3, <2>4, <2>5, <2>6 DEF Sound, AtBoot
<1>7. SoundFiles
  BY <1>6 DEF SoundFiles
<1>8. Sighted /\ Queued /\ Loading /\ EndedDone /\ Choosing
  BY <1>1 DEF Sighted, Queued, Loading, EndedDone, Choosing
<1>9. AtRest /\ Missed
  BY <1>1, PollerAssumption DEF AtRest, Rests, Missed, Reach, Astray
<1> QED BY <1>4, <1>5, <1>7, <1>8, <1>9 DEF StallInv, Grounds, Remembered

LEMMA PassKeeps ==
  ASSUME PollerTyped, PollerTyped', StallInv, PassStep PROVE StallInv'
BY DiscoverKeeps, LoadAcksKeeps, LoadOutcomesKeeps, WeighKeeps, SelectKeeps, SkipKeeps,
   SubmissionKeeps, RecordKeeps DEF PassStep

LEMMA NextKeeps ==
  ASSUME PollerTyped, StallInv, [PollerNext]_pvars PROVE StallInv'
<1>1. PollerTyped'
  BY NextTyped
<1>2. CASE PassStep
  BY <1>1, <1>2, PassKeeps
<1>3. CASE PassFails
  BY <1>3, PassFailsKeeps
<1>4. CASE Restart
  BY <1>1, <1>4, RestartKeeps
<1>5. CASE \E f \in File : WriteLine(f) \/ WritePart(f) \/ Touch(f) \/ Replace(f)
  BY <1>1, <1>5, HarnessKeeps
<1>6. CASE \E s \in Session : JobStep(s) \/ RetryJob(s) \/ FailJob(s)
  BY <1>1, <1>6, JobKeeps
<1>7. CASE UNCHANGED pvars
  BY <1>7, StutterKeeps
<1> QED BY <1>2, <1>3, <1>4, <1>5, <1>6, <1>7 DEF PollerNext

\* No pass counts more attempts without progress against a file than came of
\* it: where jobs read the file, one for each write the pass can have seen and
\* one of a job that ended after the acknowledgements were loaded; where they
\* do not find it, one for each job in a row that ended done and moved nothing
\* of it (convo_poll.rs:52).
THEOREM StallsAreEarned == PollerSpec => StallIsEarned
<1>1. PollerInit => PollerTyped /\ StallInv
  BY InitTyped, InitKeeps
<1>2. PollerTyped /\ StallInv /\ [PollerNext]_pvars => PollerTyped' /\ StallInv'
  BY NextTyped, NextKeeps
<1>3. PollerTyped /\ StallInv /\ [PollerNext]_pvars => [Earned]_pvars
  BY EarnedIs
<1> QED BY <1>1, <1>2, <1>3, PTL DEF PollerSpec, StallIsEarned
=============================================================================
