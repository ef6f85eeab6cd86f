------------------------- MODULE ConvoIngestProofs --------------------------
(***************************************************************************)
(* Proofs about ConvoIngest, for any number of sessions and of records,    *)
(* faults and files.  The argument: a session that appends holds the lock, *)
(* so what it read of the conversation, the ledger and the cursor is still *)
(* what they are; it reads on from a cursor whose every earlier record is  *)
(* in the ledger, so what it appends is new and later than all before; and *)
(* a cursor is committed only over records the ledger already covers.      *)
(* The faults that break each of these are named in the property: each     *)
(* part of the invariant supposes that its own never happened.             *)
(***************************************************************************)
EXTENDS ConvoIngest, RecursionTheorems, FiniteSetTheorems, SequenceTheorems, TLAPS

LOCAL INSTANCE FiniteSetsExt

-----------------------------------------------------------------------------
(* What Unledgered computes.                                               *)

Increasing(s) == \A i, j \in DOMAIN s : i < j => s[i] < s[j]

\* The recursion of Unledgered.
Keeps(f, s, D) ==
  f = [i \in 0..Len(s) |->
         IF i = 0 THEN <<>>
         ELSE IF s[i] \in D THEN f[i - 1] ELSE Append(f[i - 1], s[i])]

\* The recursion has a solution, so kept is one.
LEMMA KeptExists ==
  ASSUME NEW s \in Seq(Nat), NEW D
  PROVE  \E f : Keeps(f, s, D)
<1> DEFINE Value(g, i) == IF i = 0 THEN <<>>
                          ELSE IF s[i] \in D THEN g[i - 1] ELSE Append(g[i - 1], s[i])
           S == {n \in Nat : \E g : g = [i \in 0..n |-> Value(g, i)]}
<1>1. 0 \in S
  <2>1. [i \in 0..0 |-> <<>>] = [i \in 0..0 |-> Value([j \in 0..0 |-> <<>>], i)]
    OBVIOUS
  <2> QED BY <2>1
<1>2. ASSUME NEW n \in Nat, n \in S PROVE n + 1 \in S
  <2>1. PICK g : g = [i \in 0..n |-> Value(g, i)]
    BY <1>2
  <2> DEFINE h == [i \in 0..n + 1 |-> IF i = n + 1 THEN Value(g, n + 1) ELSE g[i]]
  <2>4. \A i \in 0..n : g[i] = Value(g, i)
    <3> HIDE DEF Value
    <3> QED BY <2>1
  <2>2. ASSUME NEW i \in 0..n + 1 PROVE h[i] = Value(h, i)
    <3>1. i = 0 \/ (i # 0 /\ i - 1 \in 0..n /\ h[i - 1] = g[i - 1])
      OBVIOUS
    <3>2. CASE i = n + 1
      BY <3>1, <3>2
    <3>3. CASE i # n + 1
      <4>1. i \in 0..n /\ h[i] = g[i] /\ g[i] = Value(g, i)
        <5> HIDE DEF Value
        <5> QED BY <2>4, <3>3
      <4> QED BY <3>1, <4>1
    <3> QED BY <3>2, <3>3
  <2>3. h = [i \in 0..n + 1 |-> Value(h, i)]
    <3> HIDE DEF Value
    <3> QED BY <2>2
  <2> HIDE DEF h, Value
  <2> QED BY <2>3
<1>3. Len(s) \in S
  <2> HIDE DEF S
  <2> QED BY <1>1, <1>2, InductionOnSet
<1> QED BY <1>3 DEF Keeps

\* Along the recursion: a prefix of the batch less what the ledger has, in
\* the order of the batch.
LEMMA KeptValues ==
  ASSUME NEW s \in Seq(Nat), NEW D, NEW f,
         \A n \in 0..Len(s) :
           f[n] = IF n = 0 THEN <<>>
                  ELSE IF s[n] \in D THEN f[n - 1] ELSE Append(f[n - 1], s[n])
  PROVE  \A n \in 0..Len(s) :
           /\ f[n] \in Seq(Nat)
           /\ \A r : (\E k \in DOMAIN f[n] : f[n][k] = r) <=> (\E k \in 1..n : s[k] = r) /\ r \notin D
           /\ Increasing(s) => Increasing(f[n])
<1> DEFINE Good(n) == /\ f[n] \in Seq(Nat)
                      /\ \A r : (\E k \in DOMAIN f[n] : f[n][k] = r)
                                  <=> (\E k \in 1..n : s[k] = r) /\ r \notin D
                      /\ Increasing(s) => Increasing(f[n])
           S == {n \in Nat : n <= Len(s) => Good(n)}
<1>1. Good(0)
  <2>1. f[0] = <<>>
    OBVIOUS
  <2>2. DOMAIN f[0] = {} /\ 1..0 = {}
    BY <2>1
  <2> QED BY <2>1, <2>2 DEF Increasing
<1>2. ASSUME NEW n \in Nat, n + 1 <= Len(s), Good(n) PROVE Good(n + 1)
  <2>1. /\ n + 1 \in 0..Len(s) /\ n + 1 # 0 /\ n + 1 - 1 = n /\ s[n + 1] \in Nat
        /\ DOMAIN s = 1..Len(s)
    BY <1>2
  <2>2. \A r : (\E k \in 1..n + 1 : s[k] = r) <=> (\E k \in 1..n : s[k] = r) \/ r = s[n + 1]
    OBVIOUS
  <2>3. CASE s[n + 1] \in D
    <3>1. f[n + 1] = f[n]
      BY <2>1, <2>3
    <3> QED BY <1>2, <2>2, <2>3, <3>1
  <2>4. CASE s[n + 1] \notin D
    <3>1. PICK g : g = f[n]
      OBVIOUS
    <3>2. f[n + 1] = Append(g, s[n + 1])
      <4>1. f[n + 1] = IF n + 1 = 0 THEN <<>>
                       ELSE IF s[n + 1] \in D THEN f[n + 1 - 1] ELSE Append(f[n + 1 - 1], s[n + 1])
        BY <2>1
      <4> QED BY <2>1, <2>4, <3>1, <4>1
    <3>3. /\ Append(g, s[n + 1]) \in Seq(Nat)
          /\ DOMAIN Append(g, s[n + 1]) = 1..Len(g) + 1
          /\ DOMAIN g = 1..Len(g) /\ Len(g) \in Nat /\ g \in Seq(Nat)
          /\ \A k \in 1..Len(g) : Append(g, s[n + 1])[k] = g[k]
          /\ Append(g, s[n + 1])[Len(g) + 1] = s[n + 1]
      BY <1>2, <2>1, <3>1
    <3>4. \A r : (\E k \in DOMAIN f[n + 1] : f[n + 1][k] = r)
                   <=> (\E k \in DOMAIN g : g[k] = r) \/ r = s[n + 1]
      BY <3>2, <3>3
    <3>5. \A r : (\E k \in DOMAIN g : g[k] = r) <=> (\E k \in 1..n : s[k] = r) /\ r \notin D
      BY <1>2, <3>1
    <3>6. ASSUME Increasing(s) PROVE Increasing(f[n + 1])
      <4>1. ASSUME NEW k \in DOMAIN g PROVE g[k] < s[n + 1]
        <5>1. \A r : (\E m \in DOMAIN g : g[m] = r) => \E m \in 1..n : s[m] = r
          BY <3>5
        <5>2. PICK j \in 1..n : s[j] = g[k]
          BY <5>1
        <5>3. j \in DOMAIN s /\ n + 1 \in DOMAIN s /\ j < n + 1
          BY <2>1
        <5> QED BY <3>6, <5>2, <5>3 DEF Increasing
      <4>2. Increasing(g)
        BY <1>2, <3>1, <3>6
      <4> QED BY <3>2, <3>3, <4>1, <4>2 DEF Increasing
    <3>7. f[n + 1] \in Seq(Nat)
      BY <3>2, <3>3
    <3>8. \A r : (\E k \in DOMAIN f[n + 1] : f[n + 1][k] = r)
                   <=> (\E k \in 1..n + 1 : s[k] = r) /\ r \notin D
      BY <2>2, <2>4, <3>4, <3>5
    <3> QED BY <3>6, <3>7, <3>8
  <2> QED BY <2>3, <2>4
<1> HIDE DEF Good
<1>3. \A n \in Nat : n \in S
  <2>1. 0 \in S
    BY <1>1
  <2>2. ASSUME NEW n \in Nat, n \in S PROVE n + 1 \in S
    <3>1. ASSUME n + 1 <= Len(s) PROVE Good(n + 1)
      <4>1. n <= Len(s) => Good(n)
        BY <2>2
      <4>2. n <= Len(s)
        BY <3>1
      <4>3. Good(n)
        BY <4>1, <4>2
      <4> QED BY <1>2, <3>1, <4>3
    <3>2. n + 1 \in Nat
      OBVIOUS
    <3> QED BY <3>1, <3>2
  <2> HIDE DEF S
  <2> QED BY <2>1, <2>2, InductionOnSet
<1>4. \A n \in 0..Len(s) : Good(n)
  BY <1>3
<1> QED BY <1>4 DEF Good

\* prepare_batch drops what the ledger has and nothing else, and keeps the
\* order of the batch.
LEMMA UnledgeredKeeps ==
  ASSUME NEW s \in Seq(Nat)
  PROVE  /\ Unledgered(s) \in Seq(Nat)
         /\ Range(Unledgered(s)) = Range(s) \ DOMAIN ledger
         /\ Increasing(s) => Increasing(Unledgered(s))
<1> DEFINE D == DOMAIN ledger
           kept == CHOOSE f : Keeps(f, s, D)
<1>1. Keeps(kept, s, D)
  <2>1. \E f : Keeps(f, s, D)
    BY KeptExists
  <2> QED BY <2>1
<1>2. Unledgered(s) = kept[Len(s)]
  BY DEF Unledgered, Keeps
<1>3. \A n \in 0..Len(s) : kept[n] = IF n = 0 THEN <<>>
                                     ELSE IF s[n] \in D THEN kept[n - 1]
                                     ELSE Append(kept[n - 1], s[n])
  BY <1>1 DEF Keeps
<1> HIDE DEF kept
<1>4. Len(s) \in 0..Len(s) /\ DOMAIN s = 1..Len(s)
  OBVIOUS
<1>5. /\ kept[Len(s)] \in Seq(Nat)
      /\ \A r : (\E k \in DOMAIN kept[Len(s)] : kept[Len(s)][k] = r)
                  <=> (\E k \in 1..Len(s) : s[k] = r) /\ r \notin D
      /\ Increasing(s) => Increasing(kept[Len(s)])
  <2>1. \A n \in 0..Len(s) :
           /\ kept[n] \in Seq(Nat)
           /\ \A r : (\E k \in DOMAIN kept[n] : kept[n][k] = r)
                       <=> (\E k \in 1..n : s[k] = r) /\ r \notin D
           /\ Increasing(s) => Increasing(kept[n])
    BY <1>3, KeptValues
  <2> QED BY <1>4, <2>1
<1>6. \A r : r \in Range(kept[Len(s)]) <=> r \in Range(s) /\ r \notin D
  BY <1>4, <1>5 DEF Range
<1>7. Range(kept[Len(s)]) = Range(s) \ D
  BY <1>6
<1> QED BY <1>2, <1>5, <1>7

-----------------------------------------------------------------------------
(* Turn numbers.                                                           *)

\* A bounded set of numbers has its maximum among its members.
LEMMA MaxOfBounded ==
  ASSUME NEW S, S \subseteq Nat, S # {}, NEW b \in Nat, \A x \in S : x <= b
  PROVE  Max(S) \in S /\ \A x \in S : x <= Max(S)
<1> DEFINE T == {c \in Nat : \A x \in S : x <= c}
<1>1. PICK m \in T : \A c \in T : m <= c
  <2>1. b \in T /\ T \subseteq Nat
    OBVIOUS
  <2> HIDE DEF T
  <2> QED BY <2>1, LeastMember
<1>2. m \in S
  <2> SUFFICES ASSUME m \notin S PROVE FALSE
    OBVIOUS
  <2>1. \A x \in S : x \in Nat /\ x <= m /\ x # m
    OBVIOUS
  <2>2. m # 0 /\ m - 1 \in Nat
    <3>1. PICK x \in S : TRUE
      OBVIOUS
    <3>2. x \in Nat /\ x <= m /\ x # m /\ m \in Nat
      BY <2>1
    <3> QED BY <3>2
  <2>3. \A x \in S : x <= m - 1
    BY <2>1, <2>2
  <2>4. m - 1 \in T
    BY <2>2, <2>3
  <2> QED BY <1>1, <2>2, <2>4
<1>3. \A x \in S : m >= x
  OBVIOUS
<1>4. Max(S) \in S /\ \A x \in S : Max(S) >= x
  BY <1>2, <1>3 DEF Max
<1> QED BY <1>4

\* Some number is no less than any turn's.
Bounded == \E b \in Nat : \A n \in DOMAIN turns : n <= b

\* The next number is above every number that was given.
LEMMA NextTurnNoIsNext ==
  ASSUME DOMAIN turns \subseteq TurnNo, Bounded
  PROVE  /\ NextTurnNo \in TurnNo
         /\ NextTurnNo = 1 \/ NextTurnNo - 1 \in DOMAIN turns
         /\ \A n \in DOMAIN turns : n < NextTurnNo
<1> DEFINE S == DOMAIN turns \union {0}
<1>1. S \subseteq Nat /\ S # {}
  BY DEF TurnNo
<1>2. PICK b \in Nat : \A n \in DOMAIN turns : n <= b
  BY DEF Bounded
<1>3. \A x \in S : x <= b
  BY <1>2
<1>4. NextTurnNo = Max(S) + 1
  BY DEF NextTurnNo
<1> HIDE DEF S
<1>5. Max(S) \in S /\ \A x \in S : x <= Max(S)
  BY <1>1, <1>3, MaxOfBounded
<1> QED BY <1>1, <1>4, <1>5 DEF S, TurnNo

-----------------------------------------------------------------------------
(* Sequences.                                                              *)

\* A run of a sequence.
LEMMA RunOf ==
  ASSUME NEW S, NEW s \in Seq(S), NEW i \in 1..Len(s) + 1, NEW j \in 0..Len(s)
  PROVE  /\ SubSeq(s, i, j) \in Seq(S)
         /\ Len(SubSeq(s, i, j)) = IF i <= j THEN j - i + 1 ELSE 0
         /\ DOMAIN SubSeq(s, i, j) = 1..j - i + 1
         /\ \A k \in 1..j - i + 1 : i + k - 1 \in DOMAIN s /\ SubSeq(s, i, j)[k] = s[i + k - 1]
OBVIOUS

\* It is increasing when the sequence is.
LEMMA RunIncreasing ==
  ASSUME NEW s \in Seq(Nat), NEW i \in 1..Len(s) + 1, NEW j \in 0..Len(s), Increasing(s)
  PROVE  Increasing(SubSeq(s, i, j))
<1>1. /\ DOMAIN SubSeq(s, i, j) = 1..j - i + 1
      /\ \A k \in 1..j - i + 1 : i + k - 1 \in DOMAIN s /\ SubSeq(s, i, j)[k] = s[i + k - 1]
  BY RunOf
<1>2. ASSUME NEW k \in 1..j - i + 1, NEW m \in 1..j - i + 1, k < m
      PROVE  SubSeq(s, i, j)[k] < SubSeq(s, i, j)[m]
  <2>1. i + k - 1 \in DOMAIN s /\ i + m - 1 \in DOMAIN s /\ i + k - 1 < i + m - 1
    BY <1>1, <1>2
  <2>2. s[i + k - 1] < s[i + m - 1]
    BY <2>1 DEF Increasing
  <2> QED BY <1>1, <2>2
<1> QED BY <1>1, <1>2 DEF Increasing

LEMMA RangeTyped ==
  ASSUME NEW S, NEW s \in Seq(S)
  PROVE  /\ Range(s) \subseteq S
         /\ Range(s) = {} <=> s = <<>>
         /\ \A r : r \in Range(s) <=> \E i \in DOMAIN s : s[i] = r
BY DEF Range

\* A sequence of what T has is one of T.
LEMMA SeqNarrowed ==
  ASSUME NEW S, NEW T, NEW s \in Seq(S), Range(s) \subseteq T
  PROVE  s \in Seq(T)
<1>1. \A i \in 1..Len(s) : s[i] \in T
  BY DEF Range
<1>2. s = [i \in 1..Len(s) |-> s[i]] /\ Len(s) \in Nat
  OBVIOUS
<1> QED BY <1>1, <1>2

-----------------------------------------------------------------------------
(* The inductive invariant.                                                *)

Reading == Step \ {"idle", "lock"}

\* What a poll has read and not yet committed.
InHand(p) == Range(p.batch) \union Range(p.fresh)

Above(r, S) == \A s \in S : s < r

\* The file's lines are records, in the order the harness wrote them;
\* nothing is stored that it did not write.
LinesFit ==
  /\ Len(file.lines) <= written
  /\ \A i \in DOMAIN file.lines : file.lines[i] <= written
  /\ Increasing(file.lines)
  /\ \A r \in Stored : r <= written
  /\ Bounded

\* A poll's locals are those of its step.
LocalsFit ==
  \A a \in Address :
    LET p == poll[a]
    IN  /\ p.batch # <<>> => p.at \in {"header", "view"}
        /\ p.fresh # <<>> => p.at \in {"number", "append", "commit", "enrich"}
        /\ p.from # NoCursor => p.at = "read"
        /\ p.upto # NoCursor <=> p.at \in {"header", "view", "number", "append", "commit"}
        /\ p.at \in {"append", "commit"} => p.first \in TurnNo
        /\ p.due <= written
        /\ \A r \in InHand(p) : r <= written

\* While its session lives, the lock excludes.
LockHeld ==
  Never({"lock_lost"}) => \A a \in Address : poll[a].at \in Reading => lock = a

\* The numbers a poll was given follow the turns there were.
NumbersFollow(p) ==
  p.at = "append" /\ (conversation \/ Never({"remove"}))
    => p.first = 1 \/ p.first - 1 \in DOMAIN turns

\* A poll between its append and its commit finds its records at its numbers.
Numbered(p) ==
  p.at = "commit" /\ (conversation \/ Never({"remove"}))
    => \A i \in DOMAIN p.fresh : /\ p.first + i - 1 \in DOMAIN turns
                                 /\ turns[p.first + i - 1] = p.fresh[i]

Dense == \A n \in DOMAIN turns : \A m \in 1..n : m \in DOMAIN turns

LedgerInv ==
  Never({"remove"}) \/ Never({"lock_lost"}) =>
    /\ \A r \in DOMAIN ledger : ledger[r] \in DOMAIN turns /\ turns[ledger[r]] = r
    /\ Dense
    /\ \A a \in Address : NumbersFollow(poll[a]) /\ Numbered(poll[a])

\* No turn was stored since the poll that holds the lock took its numbers.
NumbersFree ==
  Never({"lock_lost"}) =>
    \A a \in Address : poll[a].at = "append" /\ conversation
                         => \A n \in DOMAIN turns : n < poll[a].first

\* A poll between its append and its end has r's enrichment yet to queue.
Owed(r) ==
  \E a \in Address : poll[a].at \in {"commit", "enrich"} /\ r \in Range(poll[a].fresh)

EnrichInv ==
  Never({"error", "lock_lost"}) => \A r \in Stored : r \in queued \/ r \in over \/ Owed(r)

\* What cursor c leaves behind it in file f is in S.
Covers(f, c, S) ==
  c # NoCursor =>
    /\ c.id <= f.id
    /\ c.id = f.id => /\ c.offset <= Len(f.lines)
                      /\ \A i \in 1..c.offset : f.lines[i] \in S

\* A poll with the read behind it left out nothing that it was to read.
DueRead(f, p, S) ==
  p.at \in Reading \ {"load", "read"} =>
    \A i \in DOMAIN f.lines : f.lines[i] <= p.due => f.lines[i] \in S \union InHand(p)

Covered(f, p, S, known) ==
  /\ Covers(f, p.from, S)
  /\ p.from # NoCursor => known
  /\ Covers(f, p.upto, S \union InHand(p))
  /\ p.at \in {"commit", "enrich"} => Range(p.fresh) \subseteq S
  /\ DueRead(f, p, S)

CursorInv ==
  Never({"remove", "truncate"}) =>
    /\ Covers(file, cursor, Stored)
    /\ DOMAIN ledger \subseteq Stored
    /\ \A a \in Address : Covered(file, poll[a], Stored, conversation)

\* Each line of the file is in S or comes after all of S.
Continues(f, S) == \A i \in DOMAIN f.lines : f.lines[i] \in S \/ Above(f.lines[i], S)

Ordered(f, p, S) ==
  /\ Increasing(p.batch) /\ Increasing(p.fresh)
  /\ p.at \in {"header", "view"} => \A r \in Range(p.batch) : r \in S \/ Above(r, S)
  /\ p.at \in {"number", "append"} => \A r \in Range(p.fresh) : Above(r, S)
  /\ p.at \in {"header", "view", "number", "append"} => Continues(f, S \union InHand(p))

\* A poll between its append and its commit holds r.
Uncommitted(r) == \E a \in Address : poll[a].at = "commit" /\ r \in Range(poll[a].fresh)

TurnsAscend == \A m, n \in DOMAIN turns : m < n => turns[m] < turns[n]

\* What the file holds and the store does not comes after what the store does.
OrderInv ==
  ~torn /\ Never({"lock_lost", "remove", "truncate"}) =>
    /\ TurnsAscend
    /\ Continues(file, Stored)
    /\ \A r \in Stored : r \in DOMAIN ledger \/ Uncommitted(r)
    /\ \A a \in Address : Ordered(file, poll[a], Stored)

\* A poll's job is running.
PollsRun == \A a \in Address : poll[a].at # "idle" => job[a] = "running"

TypeInv == IngestTypeOK /\ LinesFit /\ LocalsFit /\ PollsRun

IInv ==
  /\ TypeInv /\ LockHeld /\ LedgerInv /\ NumbersFree /\ EnrichInv /\ CursorInv /\ OrderInv

-----------------------------------------------------------------------------
(* What each step does to the polls.                                       *)

Others(a) == \A b \in Address \ {a} : poll'[b] = poll[b]

\* The locals other than the step stay.
SameLocals(p, q) ==
  /\ q.known = p.known /\ q.due = p.due /\ q.from = p.from /\ q.upto = p.upto
  /\ q.stamp = p.stamp /\ q.batch = p.batch /\ q.fresh = p.fresh /\ q.first = p.first

LEMMA PollTyped ==
  ASSUME IngestTypeOK, NEW a \in Address
  PROVE  /\ poll[a] \in Poll /\ poll[a].at \in Step
         /\ poll[a].known \in BOOLEAN /\ poll[a].due \in 0..MaxRecords
         /\ poll[a].from \in Cursor \union {NoCursor}
         /\ poll[a].upto \in Cursor \union {NoCursor}
         /\ poll[a].stamp \in Stamp \union {NoStamp}
         /\ poll[a].batch \in Seq(Record) /\ poll[a].fresh \in Seq(Record)
         /\ poll[a].first \in Nat
BY DEF IngestTypeOK, Poll

\* A step that only goes on.
LEMMA GoesDoes ==
  ASSUME IngestTypeOK, NEW a \in Address, NEW step, Goes(a, step)
  PROVE  Others(a) /\ poll'[a].at = step /\ SameLocals(poll[a], poll'[a])
<1>1. poll[a] \in Poll /\ poll \in [Address -> Poll]
  BY PollTyped DEF IngestTypeOK
<1>2. poll'[a] = [poll[a] EXCEPT !.at = step] /\ Others(a)
  BY <1>1 DEF Goes, Others
<1> QED BY <1>1, <1>2 DEF SameLocals, Poll

LEMMA SettleDoes ==
  ASSUME IngestTypeOK, NEW a \in Address, NEW states, Settle(a, states)
  PROVE  /\ Others(a) /\ poll'[a] = NoPoll /\ lock' = Released(a)
         /\ \A b \in Address \ {a} : job'[b] = job[b]
         /\ job'[a] \in states
<1>1. poll \in [Address -> Poll] /\ job \in [Address -> {"pending", "running", "done", "failed"}]
  BY DEF IngestTypeOK
<1> QED BY <1>1 DEF Settle, Others

LEMMA ClaimDoes ==
  ASSUME IngestTypeOK, NEW a \in Address, Claim(a)
  PROVE  /\ Others(a)
         /\ poll'[a].at = "lock" /\ poll'[a].known = (cursor # NoCursor) /\ poll'[a].due = written
         /\ poll'[a].from = NoCursor /\ poll'[a].upto = NoCursor /\ poll'[a].stamp = NoStamp
         /\ poll'[a].batch = <<>> /\ poll'[a].fresh = <<>> /\ poll'[a].first = 0
<1>1. poll \in [Address -> Poll]
  BY DEF IngestTypeOK
<1> QED BY <1>1 DEF Claim, Others, NoPoll

LEMMA LoadCursorDoes ==
  ASSUME IngestTypeOK, NEW a \in Address, LoadCursor(a)
  PROVE  /\ Others(a)
         /\ poll'[a].at = "read" /\ poll'[a].known = poll[a].known /\ poll'[a].due = poll[a].due
         /\ poll'[a].from = cursor /\ poll'[a].upto = poll[a].upto
         /\ poll'[a].stamp = poll[a].stamp
         /\ poll'[a].batch = poll[a].batch /\ poll'[a].fresh = poll[a].fresh
         /\ poll'[a].first = poll[a].first
<1>1. poll \in [Address -> Poll] /\ poll[a] \in Poll
  BY DEF IngestTypeOK
<1> QED BY <1>1 DEF LoadCursor, Others, Poll

LEMMA ReadRecordsDoes ==
  ASSUME IngestTypeOK, NEW a \in Address, ReadRecords(a)
  PROVE  /\ Others(a)
         /\ poll'[a].at = "header" /\ poll'[a].known = FALSE /\ poll'[a].due = poll[a].due
         /\ poll'[a].from = NoCursor /\ poll'[a].upto = End /\ poll'[a].stamp = poll[a].stamp
         /\ poll'[a].batch = Unread(poll[a].from) /\ poll'[a].fresh = poll[a].fresh
         /\ poll'[a].first = poll[a].first
<1>1. poll \in [Address -> Poll] /\ poll[a] \in Poll
  BY DEF IngestTypeOK
<1> QED BY <1>1 DEF ReadRecords, Others, Poll

LEMMA ReadNothingDoes ==
  ASSUME IngestTypeOK, NEW a \in Address, ReadNothing(a)
  PROVE  /\ Others(a)
         /\ poll'[a].at = "view" /\ poll'[a].known = FALSE /\ poll'[a].due = poll[a].due
         /\ poll'[a].from = NoCursor /\ poll'[a].upto = End /\ poll'[a].stamp = Revision
         /\ poll'[a].batch = poll[a].batch /\ poll'[a].fresh = poll[a].fresh
         /\ poll'[a].first = poll[a].first
<1>1. poll \in [Address -> Poll] /\ poll[a] \in Poll
  BY DEF IngestTypeOK
<1> QED BY <1>1 DEF ReadNothing, Others, Poll

LEMMA ViewDoes ==
  ASSUME IngestTypeOK, NEW a \in Address, View(a)
  PROVE  /\ Others(a)
         /\ poll'[a].at = "number" /\ poll'[a].known = poll[a].known /\ poll'[a].due = poll[a].due
         /\ poll'[a].from = poll[a].from /\ poll'[a].upto = poll[a].upto
         /\ poll'[a].stamp = poll[a].stamp
         /\ poll'[a].batch = <<>> /\ poll'[a].fresh = Unledgered(poll[a].batch)
         /\ poll'[a].first = poll[a].first
<1>1. poll \in [Address -> Poll] /\ poll[a] \in Poll
  BY DEF IngestTypeOK
<1> QED BY <1>1 DEF View, Others, Poll

LEMMA NumberTurnsDoes ==
  ASSUME IngestTypeOK, NEW a \in Address, NumberTurns(a)
  PROVE  /\ Others(a)
         /\ poll'[a].at = "append" /\ poll'[a].known = poll[a].known /\ poll'[a].due = poll[a].due
         /\ poll'[a].from = poll[a].from /\ poll'[a].upto = poll[a].upto
         /\ poll'[a].stamp = poll[a].stamp
         /\ poll'[a].batch = poll[a].batch /\ poll'[a].fresh = poll[a].fresh
         /\ poll'[a].first = NextTurnNo
<1>1. poll \in [Address -> Poll] /\ poll[a] \in Poll
  BY DEF IngestTypeOK
<1> QED BY <1>1 DEF NumberTurns, Others, Poll

LEMMA CommitPollDoes ==
  ASSUME IngestTypeOK, NEW a \in Address, CommitPoll(a)
  PROVE  /\ Others(a)
         /\ poll'[a].at = "enrich" /\ poll'[a].known = poll[a].known /\ poll'[a].due = poll[a].due
         /\ poll'[a].from = poll[a].from /\ poll'[a].upto = NoCursor
         /\ poll'[a].stamp = NoStamp
         /\ poll'[a].batch = poll[a].batch /\ poll'[a].fresh = poll[a].fresh
         /\ poll'[a].first = 0
<1>1. poll \in [Address -> Poll] /\ poll[a] \in Poll
  BY DEF IngestTypeOK
<1> QED BY <1>1 DEF CommitPoll, Others, Poll

\* A fault of one kind is counted, and those of the other kinds are not.
LEMMA SpendDoes ==
  ASSUME IngestTypeOK, NEW kind \in FaultKind, Spend(kind)
  PROVE  /\ spent' \in [FaultKind -> Nat] /\ spent'[kind] # 0
         /\ \A other \in FaultKind : spent[other] # 0 => spent'[other] # 0
         /\ \A other \in FaultKind \ {kind} : spent'[other] = spent[other]
<1>1. spent \in [FaultKind -> Nat]
  BY DEF IngestTypeOK
<1>2. spent' = [spent EXCEPT ![kind] = @ + 1]
  BY DEF Spend
<1> QED BY <1>1, <1>2

\* Which steps touch the rest.
LEMMA SpentFrame ==
  ASSUME [Next]_vars
  PROVE  UNCHANGED spent \/ \E kind \in FaultKind : Spend(kind)
BY DEF Next, vars, Advance, WriteRecord, Rotate, Truncate, DeleteConversation, CrashAndBoot,
       PollerSubmits, Submit, Claim, TakeLock, Contended, LoadCursor, ReadRecords, ReadNothing,
       Acknowledge, UpsertHeader, View, NumberTurns, AppendTurns, CommitPoll, RefuseOrphan, Enrich,
       StepFails, LoseLock, FaultKind

LEMMA TornFrame ==
  ASSUME [Next]_vars
  PROVE  CrashAndBoot \/ (\E a \in Address : StepFails(a)) \/ UNCHANGED torn
<1>1. ASSUME NEW a \in Address, Advance(a) PROVE UNCHANGED torn
  BY <1>1 DEF Advance, Claim, TakeLock, Contended, LoadCursor, ReadRecords, ReadNothing, Acknowledge,
         UpsertHeader, View, NumberTurns, AppendTurns, CommitPoll, RefuseOrphan, Enrich
<1>2. ASSUME NEW a \in Address, Submit(a) \/ LoseLock(a) PROVE UNCHANGED torn
  BY <1>2 DEF Submit, LoseLock
<1>3. CASE WriteRecord \/ Rotate \/ Truncate \/ DeleteConversation \/ PollerSubmits
  BY <1>3 DEF WriteRecord, Rotate, Truncate, DeleteConversation, PollerSubmits, Submit
<1> QED BY <1>1, <1>2, <1>3 DEF Next, vars

\* Only a boot leaves anything over.
LEMMA OverFrame ==
  ASSUME [Next]_vars
  PROVE  \/ CrashAndBoot
         \/ UNCHANGED over
<1>1. ASSUME NEW a \in Address, Advance(a) PROVE UNCHANGED over
  BY <1>1 DEF Advance, Claim, TakeLock, Contended, LoadCursor, ReadRecords, ReadNothing, Acknowledge,
         UpsertHeader, View, NumberTurns, AppendTurns, CommitPoll, RefuseOrphan, Enrich
<1>2. ASSUME NEW a \in Address, Submit(a) \/ LoseLock(a) \/ StepFails(a) PROVE UNCHANGED over
  BY <1>2 DEF Submit, LoseLock, StepFails
<1>3. CASE WriteRecord \/ Rotate \/ Truncate \/ DeleteConversation \/ PollerSubmits
  BY <1>3 DEF WriteRecord, Rotate, Truncate, DeleteConversation, PollerSubmits, Submit
<1> QED BY <1>1, <1>2, <1>3 DEF Next, vars

\* The sweep queues what was missing, up to its limit.
LEMMA SweepDoes ==
  ASSUME CrashAndBoot
  PROVE  /\ queued' \union over' = queued \union Stored
         /\ over' \subseteq Stored /\ queued' \subseteq queued \union Stored
<1>1. PICK some \in Swept : queued' = queued \union some /\ over' = Missing \ some
  BY DEF CrashAndBoot
<1>2. some \subseteq Missing /\ Missing = Stored \ queued
  BY DEF Swept, Missing
<1> QED BY <1>1, <1>2

LEMMA AckedFrame ==
  ASSUME [Next]_vars
  PROVE  (\E a \in Address : CommitPoll(a)) \/ acked' \in BOOLEAN \/ UNCHANGED acked
<1>1. ASSUME NEW a \in Address, Advance(a), ~CommitPoll(a)
      PROVE  acked' \in BOOLEAN \/ UNCHANGED acked
  BY <1>1 DEF Advance, Claim, TakeLock, Contended, LoadCursor, ReadRecords, ReadNothing,
         Acknowledge, UpsertHeader, View, NumberTurns, AppendTurns, RefuseOrphan, Enrich
<1>2. ASSUME NEW a \in Address, Submit(a) \/ LoseLock(a) \/ StepFails(a) PROVE UNCHANGED acked
  BY <1>2 DEF Submit, LoseLock, StepFails
<1>3. CASE WriteRecord \/ Rotate \/ Truncate \/ DeleteConversation \/ PollerSubmits \/ CrashAndBoot
  BY <1>3 DEF WriteRecord, Rotate, Truncate, DeleteConversation, PollerSubmits, Submit, CrashAndBoot
<1> QED BY <1>1, <1>2, <1>3 DEF Next, vars

LEMMA LockFrame ==
  ASSUME [Next]_vars
  PROVE  \/ \E a \in Address : TakeLock(a)
         \/ \E a \in Address : lock' = Released(a)
         \/ lock' = Nobody \/ UNCHANGED lock
<1>1. ASSUME NEW a \in Address, Advance(a)
      PROVE  TakeLock(a) \/ lock' = Released(a) \/ UNCHANGED lock
  BY <1>1 DEF Advance, Claim, Contended, LoadCursor, ReadRecords, ReadNothing,
         Acknowledge, UpsertHeader, View, NumberTurns, AppendTurns, CommitPoll, RefuseOrphan, Enrich, Settle
<1>2. ASSUME NEW a \in Address, Submit(a) \/ LoseLock(a) \/ StepFails(a)
      PROVE  lock' = Released(a) \/ lock' = Nobody \/ UNCHANGED lock
  BY <1>2 DEF Submit, LoseLock, StepFails, Settle
<1>3. CASE WriteRecord \/ Rotate \/ Truncate \/ DeleteConversation \/ PollerSubmits \/ CrashAndBoot
  BY <1>3 DEF WriteRecord, Rotate, Truncate, DeleteConversation, PollerSubmits, Submit, CrashAndBoot
<1> QED BY <1>1, <1>2, <1>3 DEF Next, vars

LEMMA PollFrame ==
  ASSUME [Next]_vars
  PROVE  \/ \E a \in Address :
              \/ Claim(a) \/ TakeLock(a) \/ Contended(a) \/ LoadCursor(a) \/ ReadRecords(a)
              \/ ReadNothing(a) \/ Acknowledge(a) \/ UpsertHeader(a) \/ View(a) \/ NumberTurns(a) \/ AppendTurns(a)
              \/ CommitPoll(a) \/ RefuseOrphan(a) \/ Enrich(a) \/ StepFails(a)
         \/ CrashAndBoot
         \/ UNCHANGED poll
<1>1. CASE WriteRecord \/ Rotate \/ Truncate \/ DeleteConversation \/ PollerSubmits
  BY <1>1 DEF WriteRecord, Rotate, Truncate, DeleteConversation, PollerSubmits, Submit
<1>2. CASE \E a \in Address : Submit(a) \/ LoseLock(a)
  BY <1>2 DEF Submit, LoseLock
<1> QED BY <1>1, <1>2 DEF Next, vars, Advance

\* What is true while some faults never happened was true before.
LEMMA NeverBefore ==
  ASSUME IngestTypeOK, [Next]_vars, NEW kinds \in SUBSET FaultKind, Never(kinds)'
  PROVE  Never(kinds)
<1>1. spent \in [FaultKind -> Nat]
  BY DEF IngestTypeOK
<1>2. \A k \in kinds : k \in FaultKind
  OBVIOUS
<1>3. UNCHANGED spent \/ \E kind \in FaultKind : Spend(kind)
  BY SpentFrame
<1>4. CASE UNCHANGED spent
  BY <1>4 DEF Never
<1>5. CASE \E kind \in FaultKind : Spend(kind)
  BY <1>2, <1>5, SpendDoes DEF Never
<1> QED BY <1>3, <1>4, <1>5

-----------------------------------------------------------------------------
(* Types.                                                                  *)

\* read_lines starts within the file.
LEMMA StartFits ==
  ASSUME TypeInv, NEW from \in Cursor \union {NoCursor}
  PROVE  Start(from) \in 0..Len(file.lines)
<1>1. Len(file.lines) \in Nat
  BY DEF TypeInv, IngestTypeOK
<1>2. from # NoCursor => from.offset \in Nat
  BY DEF Cursor
<1> QED BY <1>1, <1>2 DEF Start

\* What is read is the rest of the file.
LEMMA UnreadIs ==
  ASSUME TypeInv, NEW from \in Cursor \union {NoCursor}
  PROVE  /\ Unread(from) \in Seq(Record)
         /\ \A r : r \in Range(Unread(from))
                     <=> \E i \in Start(from) + 1..Len(file.lines) : file.lines[i] = r
         /\ Unread(from) = <<>> <=> Start(from) = Len(file.lines)
         /\ Increasing(Unread(from))
<1>1. file.lines \in Seq(Record) /\ Len(file.lines) \in Nat /\ Increasing(file.lines)
  BY DEF TypeInv, IngestTypeOK, LinesFit
<1>2. Start(from) + 1 \in 1..Len(file.lines) + 1 /\ Start(from) \in 0..Len(file.lines)
      /\ Len(file.lines) \in 0..Len(file.lines)
  BY <1>1, StartFits
<1> DEFINE s == file.lines
           i == Start(from) + 1
           j == Len(file.lines)
<1>3. Unread(from) = SubSeq(s, i, j) /\ s \in Seq(Record) /\ s \in Seq(Nat)
      /\ i \in 1..Len(s) + 1 /\ j \in 0..Len(s) /\ j = Len(s)
  <2>1. \A r \in Record : r \in Nat
    BY IngestAssumption DEF Record
  <2>2. file.lines \in Seq(Nat)
    <3>1. Range(file.lines) \subseteq Record
      BY <1>1, RangeTyped
    <3>2. Range(file.lines) \subseteq Nat
      BY <2>1, <3>1
    <3> QED BY <1>1, <3>2, SeqNarrowed
  <2> QED BY <1>1, <1>2, <2>2 DEF Unread
<1> HIDE DEF s, i, j
<1>4. /\ SubSeq(s, i, j) \in Seq(Record)
      /\ Len(SubSeq(s, i, j)) = IF i <= j THEN j - i + 1 ELSE 0
      /\ DOMAIN SubSeq(s, i, j) = 1..j - i + 1
      /\ \A k \in 1..j - i + 1 : i + k - 1 \in DOMAIN s /\ SubSeq(s, i, j)[k] = s[i + k - 1]
  BY <1>3, RunOf
<1>5. ASSUME NEW r
      PROVE  r \in Range(SubSeq(s, i, j)) <=> \E n \in i..j : s[n] = r
  <2>1. ASSUME NEW k \in DOMAIN SubSeq(s, i, j), SubSeq(s, i, j)[k] = r
        PROVE  \E n \in i..j : s[n] = r
    <3>1. i + k - 1 \in i..j /\ s[i + k - 1] = r
      BY <1>3, <1>4, <2>1
    <3> QED BY <3>1
  <2>2. ASSUME NEW n \in i..j, s[n] = r
        PROVE  \E k \in DOMAIN SubSeq(s, i, j) : SubSeq(s, i, j)[k] = r
    <3>1. n - i + 1 \in 1..j - i + 1 /\ i + (n - i + 1) - 1 = n
      BY <1>3
    <3>2. SubSeq(s, i, j)[n - i + 1] = s[n]
      BY <1>4, <3>1
    <3> QED BY <1>4, <2>2, <3>1, <3>2
  <2> QED BY <2>1, <2>2 DEF Range
<1>6. SubSeq(s, i, j) = <<>> <=> i > j
  <2>1. i \in Nat /\ j \in Nat
    BY <1>3
  <2>2. SubSeq(s, i, j) = <<>> <=> Len(SubSeq(s, i, j)) = 0
    BY <1>4
  <2> QED BY <1>4, <2>1, <2>2
<1>7. Increasing(SubSeq(s, i, j))
  <2>1. Increasing(s)
    BY <1>1 DEF s
  <2> QED BY <1>3, <2>1, RunIncreasing
<1>8. i > j <=> Start(from) = Len(file.lines)
  BY <1>2 DEF i, j
<1> QED BY <1>3, <1>4, <1>5, <1>6, <1>7, <1>8 DEF i, j, s

LEMMA EndTyped ==
  ASSUME TypeInv
  PROVE  End \in Cursor /\ End # NoCursor /\ End.id = file.id /\ End.offset = Len(file.lines)
<1>1. file.id \in 1..MaxFiles /\ Len(file.lines) \in Nat /\ Len(file.lines) <= written
      /\ written \in 0..MaxRecords
  BY DEF TypeInv, IngestTypeOK, LinesFit
<1>2. Len(file.lines) \in 0..MaxRecords
  BY <1>1, IngestAssumption
<1>3. End \in Cursor /\ End \in [id : Nat, offset : Nat]
  BY <1>1, <1>2, IngestAssumption DEF End, Cursor
<1> QED BY <1>3, IngestAssumption DEF End

\* prepare_batch gives back records of the batch.
LEMMA UnledgeredTyped ==
  ASSUME TypeInv, NEW s \in Seq(Record)
  PROVE  /\ Unledgered(s) \in Seq(Record)
         /\ Range(Unledgered(s)) = Range(s) \ DOMAIN ledger
         /\ Increasing(s) => Increasing(Unledgered(s))
<1>1. s \in Seq(Nat) /\ Range(s) \subseteq Record
  <2>1. \A r \in Record : r \in Nat
    BY IngestAssumption DEF Record
  <2>2. Range(s) \subseteq Record
    BY RangeTyped
  <2>3. s \in Seq(Nat)
    <3>1. Range(s) \subseteq Nat
      BY <2>1, <2>2
    <3> QED BY <3>1, SeqNarrowed
  <2> QED BY <2>2, <2>3
<1>2. /\ Unledgered(s) \in Seq(Nat)
      /\ Range(Unledgered(s)) = Range(s) \ DOMAIN ledger
      /\ Increasing(s) => Increasing(Unledgered(s))
  BY <1>1, UnledgeredKeeps
<1>3. Unledgered(s) \in Seq(Record)
  <2>1. Range(Unledgered(s)) \subseteq Record
    BY <1>1, <1>2
  <2> QED BY <1>2, <2>1, SeqNarrowed
<1> QED BY <1>2, <1>3

\* The polls keep their type at every step.
LEMMA PollsTyped ==
  ASSUME TypeInv, [Next]_vars
  PROVE  poll' \in [Address -> Poll]
<1>1. poll \in [Address -> Poll] /\ written \in 0..MaxRecords
      /\ cursor \in Cursor \union {NoCursor} /\ \A a \in Address : poll[a] \in Poll
  BY DEF TypeInv, IngestTypeOK
<1>2. NoPoll \in Poll
  BY IngestAssumption DEF NoPoll, Poll, Step
<1>3. ASSUME NEW a \in Address, NEW step \in Step, Goes(a, step) PROVE poll' \in [Address -> Poll]
  <2>1. [poll[a] EXCEPT !.at = step] \in Poll
    BY <1>1 DEF Poll
  <2> QED BY <1>1, <1>3, <2>1 DEF Goes
<1>4. ASSUME NEW a \in Address, NEW states, Settle(a, states) PROVE poll' \in [Address -> Poll]
  BY <1>1, <1>2, <1>4 DEF Settle
<1>5. ASSUME NEW a \in Address, Claim(a) PROVE poll' \in [Address -> Poll]
  <2>1. [NoPoll EXCEPT !.at = "lock", !.known = cursor # NoCursor, !.due = written] \in Poll
    BY <1>1, <1>2 DEF Poll, Step
  <2> QED BY <1>1, <1>5, <2>1 DEF Claim
<1>6. ASSUME NEW a \in Address, LoadCursor(a) PROVE poll' \in [Address -> Poll]
  <2>1. [poll[a] EXCEPT !.at = "read", !.from = cursor] \in Poll
    BY <1>1 DEF Poll, Step
  <2> QED BY <1>1, <1>6, <2>1 DEF LoadCursor
<1>7. ASSUME NEW a \in Address, ReadRecords(a) PROVE poll' \in [Address -> Poll]
  <2>1. Unread(poll[a].from) \in Seq(Record) /\ End \in Cursor
    BY UnreadIs, EndTyped, PollTyped DEF TypeInv
  <2>2. [poll[a] EXCEPT !.at = "header", !.batch = Unread(poll[a].from), !.upto = End,
                        !.known = FALSE, !.from = NoCursor] \in Poll
    BY <1>1, <2>1 DEF Poll, Step
  <2> QED BY <1>1, <1>7, <2>2 DEF ReadRecords
<1>8. ASSUME NEW a \in Address, ReadNothing(a) PROVE poll' \in [Address -> Poll]
  <2>1. Revision \in Stamp /\ End \in Cursor
    BY EndTyped DEF TypeInv, IngestTypeOK, Revision, Stamp, FaultKind
  <2>2. [poll[a] EXCEPT !.at = "view", !.stamp = Revision, !.upto = End,
                        !.known = FALSE, !.from = NoCursor] \in Poll
    BY <1>1, <2>1 DEF Poll, Step
  <2> QED BY <1>1, <1>8, <2>2 DEF ReadNothing
<1>9. ASSUME NEW a \in Address, View(a) PROVE poll' \in [Address -> Poll]
  <2>1. Unledgered(poll[a].batch) \in Seq(Record)
    BY UnledgeredTyped, PollTyped DEF TypeInv
  <2>2. [poll[a] EXCEPT !.at = "number", !.batch = <<>>,
                        !.fresh = Unledgered(poll[a].batch)] \in Poll
    <3>1. PICK s : s = Unledgered(poll[a].batch)
      OBVIOUS
    <3>2. s \in Seq(Record) /\ <<>> \in Seq(Record)
      BY <2>1, <3>1
    <3>3. [poll[a] EXCEPT !.at = "number", !.batch = <<>>, !.fresh = s] \in Poll
      BY <1>1, <3>2 DEF Poll, Step
    <3> QED BY <3>1, <3>3
  <2> QED BY <1>1, <1>9, <2>2 DEF View
<1>16. ASSUME NEW a \in Address, NumberTurns(a) PROVE poll' \in [Address -> Poll]
  <2>1. NextTurnNo \in Nat
    BY NextTurnNoIsNext DEF TypeInv, IngestTypeOK, LinesFit, TurnNo
  <2>2. [poll[a] EXCEPT !.at = "append", !.first = NextTurnNo] \in Poll
    BY <1>1, <2>1 DEF Poll, Step
  <2> QED BY <1>1, <1>16, <2>2 DEF NumberTurns
<1>10. ASSUME NEW a \in Address, CommitPoll(a) PROVE poll' \in [Address -> Poll]
  <2>1. [poll[a] EXCEPT !.at = "enrich", !.upto = NoCursor, !.stamp = NoStamp, !.first = 0] \in Poll
    BY <1>1 DEF Poll, Step
  <2> QED BY <1>1, <1>10, <2>1 DEF CommitPoll
<1>11. CASE CrashAndBoot
  BY <1>2, <1>11 DEF CrashAndBoot
<1>12. CASE \E a \in Address : StepFails(a) \/ Contended(a) \/ Acknowledge(a) \/ RefuseOrphan(a)
                              \/ Enrich(a)
  BY <1>4, <1>12 DEF StepFails, Contended, Acknowledge, RefuseOrphan, Enrich
<1>13. CASE \E a \in Address : TakeLock(a) \/ UpsertHeader(a)
  BY <1>3, <1>13 DEF TakeLock, UpsertHeader, Step
<1>14. CASE \E a \in Address : AppendTurns(a)
  BY <1>3, <1>4, <1>14 DEF AppendTurns, Step
<1>15. CASE UNCHANGED poll
  BY <1>1, <1>15
<1> QED
  BY <1>5, <1>6, <1>7, <1>8, <1>9, <1>10, <1>11, <1>12, <1>13, <1>14, <1>15, <1>16
  DEF Next, Advance, vars, WriteRecord, Rotate, Truncate, DeleteConversation, PollerSubmits,
      Submit, LoseLock

\* Those steps of Next leave the file alone that are not the harness's.
LEMMA FileFrame ==
  ASSUME [Next]_vars
  PROVE  WriteRecord \/ Rotate \/ Truncate \/ UNCHANGED <<file, written>>
<1>1. ASSUME NEW a \in Address, Submit(a) \/ Advance(a) \/ StepFails(a) \/ LoseLock(a)
      PROVE  UNCHANGED <<file, written>>
  <2>1. CASE Submit(a) \/ StepFails(a) \/ LoseLock(a)
    BY <2>1 DEF Submit, StepFails, LoseLock
  <2>2. CASE Advance(a)
    BY <2>2 DEF Advance, Claim, TakeLock, Contended, LoadCursor, ReadRecords, ReadNothing,
                Acknowledge, UpsertHeader, View, NumberTurns, AppendTurns, CommitPoll, RefuseOrphan, Enrich
  <2> QED BY <1>1, <2>1, <2>2
<1>2. CASE DeleteConversation \/ CrashAndBoot \/ PollerSubmits
  BY <1>2 DEF DeleteConversation, CrashAndBoot, PollerSubmits, Submit
<1> QED BY <1>1, <1>2 DEF Next, vars

\* And those leave the store alone that are none of these.
LEMMA StoreFrame ==
  ASSUME [Next]_vars
  PROVE  \/ DeleteConversation
         \/ \E a \in Address : UpsertHeader(a) \/ AppendTurns(a) \/ CommitPoll(a)
         \/ UNCHANGED store
BY DEF Next, vars, Advance, WriteRecord, Rotate, Truncate, CrashAndBoot, PollerSubmits, Submit,
       Claim, TakeLock, Contended, LoadCursor, ReadRecords, ReadNothing, Acknowledge, View, NumberTurns,
       RefuseOrphan, Enrich, StepFails, LoseLock

LEMMA FileTyped ==
  ASSUME TypeInv, [Next]_vars
  PROVE  /\ file' \in [id : 1..MaxFiles, lines : Seq(Record)] /\ written' \in 0..MaxRecords
         /\ Len(file'.lines) <= written'
         /\ \A i \in DOMAIN file'.lines : file'.lines[i] <= written'
         /\ Increasing(file'.lines)
         /\ written <= written'
<1>1. /\ file \in [id : 1..MaxFiles, lines : Seq(Record)] /\ written \in 0..MaxRecords
      /\ Len(file.lines) <= written /\ \A i \in DOMAIN file.lines : file.lines[i] <= written
      /\ Increasing(file.lines) /\ file.lines \in Seq(Record) /\ file.id \in 1..MaxFiles
      /\ Len(file.lines) \in Nat
  BY DEF TypeInv, IngestTypeOK, LinesFit
<1>2. file.lines \in Seq(Nat)
  <2>1. \A r \in Record : r \in Nat
    BY IngestAssumption DEF Record
  <2>2. Range(file.lines) \subseteq Record
    BY <1>1, RangeTyped
  <2> QED BY <1>1, <2>1, <2>2, SeqNarrowed
<1>3. ASSUME NEW i \in 1..Len(file.lines) + 1, NEW j \in 0..Len(file.lines)
      PROVE  /\ SubSeq(file.lines, i, j) \in Seq(Record)
             /\ Len(SubSeq(file.lines, i, j)) <= written
             /\ \A k \in DOMAIN SubSeq(file.lines, i, j) : SubSeq(file.lines, i, j)[k] <= written
             /\ Increasing(SubSeq(file.lines, i, j))
  <2>1. Increasing(SubSeq(file.lines, i, j))
    BY <1>1, <1>2, RunIncreasing
  <2>2. /\ SubSeq(file.lines, i, j) \in Seq(Record)
        /\ Len(SubSeq(file.lines, i, j)) = IF i <= j THEN j - i + 1 ELSE 0
        /\ DOMAIN SubSeq(file.lines, i, j) = 1..j - i + 1
        /\ \A k \in 1..j - i + 1 : /\ i + k - 1 \in DOMAIN file.lines
                                   /\ SubSeq(file.lines, i, j)[k] = file.lines[i + k - 1]
    BY <1>1, RunOf
  <2> QED BY <1>1, <2>1, <2>2
<1>4. CASE WriteRecord
  <2> DEFINE s == file.lines
             t == Append(s, written + 1)
  <2>1. /\ file'.lines = t /\ file'.id = file.id /\ file' = [id |-> file.id, lines |-> t]
        /\ written' = written + 1 /\ written < MaxRecords
    BY <1>1, <1>4 DEF WriteRecord
  <2>2. written + 1 \in Record /\ written + 1 \in 0..MaxRecords
    BY <1>1, <2>1, IngestAssumption DEF Record
  <2>3. /\ t \in Seq(Record) /\ DOMAIN t = 1..Len(s) + 1 /\ Len(t) = Len(s) + 1
        /\ \A i \in 1..Len(s) : t[i] = s[i]
        /\ t[Len(s) + 1] = written + 1
    BY <1>1, <2>2
  <2>4. \A i \in 1..Len(s) : s[i] \in Nat /\ s[i] <= written /\ i \in DOMAIN s
    BY <1>1, <1>2
  <2>5. Increasing(t)
    <3>1. \A i, j \in 1..Len(s) : i < j => s[i] < s[j]
      BY <1>1 DEF Increasing
    <3> HIDE DEF t, s
    <3>2. Len(s) \in Nat /\ written \in Nat
      BY <1>1 DEF s
    <3> QED BY <2>3, <2>4, <3>1, <3>2 DEF Increasing
  <2>6. \A i \in DOMAIN t : t[i] <= written + 1
    <3> HIDE DEF t, s
    <3>2. Len(s) \in Nat /\ written \in Nat
      BY <1>1 DEF s
    <3> QED BY <2>3, <2>4, <3>2
  <2>7. Len(t) <= written'
    BY <1>1, <2>1, <2>3
  <2> HIDE DEF t, s
  <2>8. file' \in [id : 1..MaxFiles, lines : Seq(Record)]
    BY <1>1, <2>1, <2>3
  <2> QED BY <1>1, <2>1, <2>2, <2>5, <2>6, <2>7, <2>8
<1>5. CASE Rotate
  <2>1. PICK i \in 1..Len(file.lines) + 1, j \in 0..Len(file.lines) :
          file' = [id |-> file.id + 1, lines |-> SubSeq(file.lines, i, j)]
    BY <1>5 DEF Rotate
  <2>2. file.id + 1 \in 1..MaxFiles /\ written' = written
    BY <1>1, <1>5, IngestAssumption DEF Rotate
  <2> QED BY <1>1, <1>3, <2>1, <2>2
<1>6. CASE Truncate
  <2>1. PICK n \in 0..Len(file.lines) - 1 : file' = [file EXCEPT !.lines = SubSeq(@, 1, n)]
    BY <1>6 DEF Truncate
  <2>2. file' = [id |-> file.id, lines |-> SubSeq(file.lines, 1, n)] /\ written' = written
    BY <1>1, <1>6, <2>1 DEF Truncate
  <2>3. 1 \in 1..Len(file.lines) + 1 /\ n \in 0..Len(file.lines)
    BY <1>1
  <2> QED BY <1>1, <1>3, <2>2, <2>3
<1>7. CASE UNCHANGED <<file, written>>
  BY <1>1, <1>7
<1> QED BY <1>4, <1>5, <1>6, <1>7, FileFrame

\* append_turns adds the batch's records under the batch's numbers, and
\* changes no turn that is there.
LEMMA AppendTurnsDoes ==
  ASSUME TypeInv, NEW a \in Address, AppendTurns(a)
  PROVE  /\ DOMAIN turns' = DOMAIN turns \union Numbers(poll[a])
         /\ \A n \in DOMAIN turns : turns'[n] = turns[n]
         /\ \A n \in Numbers(poll[a]) \ DOMAIN turns :
              /\ n - poll[a].first + 1 \in DOMAIN poll[a].fresh
              /\ turns'[n] = poll[a].fresh[n - poll[a].first + 1]
         /\ Numbers(poll[a]) \subseteq TurnNo
         /\ \A i \in DOMAIN poll[a].fresh : poll[a].first + i - 1 \in Numbers(poll[a])
         /\ Stored \subseteq Stored'
         /\ Stored' \subseteq Stored \union Range(poll[a].fresh)
         /\ ~Disagrees(poll[a]) => Stored' = Stored \union Range(poll[a].fresh)
<1> DEFINE p == poll[a]
<1>1. /\ p.first \in TurnNo /\ p.fresh \in Seq(Record) /\ DOMAIN p.fresh = 1..Len(p.fresh)
      /\ Len(p.fresh) \in Nat
  BY PollTyped DEF TypeInv, LocalsFit, AppendTurns
<1>2. \A n \in Numbers(p) : n \in TurnNo /\ n - p.first + 1 \in DOMAIN p.fresh
  BY <1>1 DEF Numbers, TurnNo
<1>3. \A i \in DOMAIN p.fresh : p.first + i - 1 \in Numbers(p)
  BY <1>1 DEF Numbers, TurnNo
<1>4. turns' = [n \in DOMAIN turns \union Numbers(p) |->
                  IF n \in DOMAIN turns THEN turns[n] ELSE p.fresh[n - p.first + 1]]
  BY DEF AppendTurns, Appended
<1> HIDE DEF p
<1>5. DOMAIN turns' = DOMAIN turns \union Numbers(p)
  BY <1>4
<1>6. \A n \in DOMAIN turns : turns'[n] = turns[n]
  BY <1>4
<1>7. \A n \in Numbers(p) \ DOMAIN turns : turns'[n] = p.fresh[n - p.first + 1]
  BY <1>4
<1>8. Stored \subseteq Stored'
  BY <1>5, <1>6 DEF Stored
<1>9. Stored' \subseteq Stored \union Range(p.fresh)
  <2>1. ASSUME NEW n \in DOMAIN turns' PROVE turns'[n] \in Stored \union Range(p.fresh)
    <3>1. CASE n \in DOMAIN turns
      BY <1>6, <3>1 DEF Stored
    <3>2. CASE n \notin DOMAIN turns
      <4>1. n \in Numbers(p) /\ turns'[n] = p.fresh[n - p.first + 1]
            /\ n - p.first + 1 \in DOMAIN p.fresh
        BY <1>2, <1>5, <1>7, <2>1, <3>2
      <4> QED BY <4>1 DEF Range
    <3> QED BY <3>1, <3>2
  <2> QED BY <2>1 DEF Stored
<1>10. ASSUME ~Disagrees(p) PROVE Range(p.fresh) \subseteq Stored'
  <2>1. ASSUME NEW i \in DOMAIN p.fresh PROVE p.fresh[i] \in Stored'
    <3>1. PICK n : n = p.first + i - 1
      OBVIOUS
    <3>2. n \in Numbers(p) /\ n \notin DOMAIN turns
      BY <1>3, <1>10, <3>1 DEF Disagrees
    <3>3. n - p.first + 1 = i
      BY <1>1, <3>1 DEF TurnNo
    <3>4. turns'[n] = p.fresh[i] /\ n \in DOMAIN turns'
      BY <1>5, <1>7, <3>2, <3>3
    <3> QED BY <3>4 DEF Stored
  <2> QED BY <2>1 DEF Range
<1> QED BY <1>2, <1>3, <1>5, <1>6, <1>7, <1>8, <1>9, <1>10 DEF p

\* commit_poll gives a new record its number, and keeps an old one's.
LEMMA CommitLedgers ==
  ASSUME TypeInv, NEW a \in Address, CommitPoll(a)
  PROVE  /\ DOMAIN ledger' = DOMAIN ledger \union Range(poll[a].fresh)
         /\ \A r \in DOMAIN ledger : ledger'[r] = ledger[r]
         /\ \A r \in DOMAIN ledger' \ DOMAIN ledger :
              \E i \in DOMAIN poll[a].fresh : /\ poll[a].fresh[i] = r
                                              /\ ledger'[r] = poll[a].first + i - 1
<1> DEFINE p == poll[a]
           at(r) == CHOOSE i \in DOMAIN p.fresh : p.fresh[i] = r
<1>1. ledger' = [r \in DOMAIN ledger \union Range(p.fresh) |->
                   IF r \in DOMAIN ledger THEN ledger[r] ELSE p.first + at(r) - 1]
  BY DEF CommitPoll, Ledgered, Range
<1>2. \A r \in Range(p.fresh) : at(r) \in DOMAIN p.fresh /\ p.fresh[at(r)] = r
  BY DEF Range
<1> HIDE DEF at, p
<1>3. DOMAIN ledger' = DOMAIN ledger \union Range(p.fresh)
  BY <1>1
<1>4. \A r \in DOMAIN ledger : ledger'[r] = ledger[r]
  BY <1>1
<1>5. \A r \in DOMAIN ledger' \ DOMAIN ledger : r \in Range(p.fresh) /\ ledger'[r] = p.first + at(r) - 1
  BY <1>1, <1>3
<1>6. \A r \in DOMAIN ledger' \ DOMAIN ledger :
        \E i \in DOMAIN p.fresh : p.fresh[i] = r /\ ledger'[r] = p.first + i - 1
  BY <1>2, <1>5
<1> QED BY <1>3, <1>4, <1>6 DEF p

LEMMA StoreTyped ==
  ASSUME TypeInv, [Next]_vars
  PROVE  /\ conversation' \in BOOLEAN
         /\ DOMAIN turns' \subseteq TurnNo /\ Stored' \subseteq Record
         /\ cursor' \in Cursor \union {NoCursor}
         /\ DOMAIN ledger' \subseteq Record /\ \A r \in DOMAIN ledger' : ledger'[r] \in TurnNo
         /\ turns' # Empty \/ cursor' # NoCursor => conversation'
         /\ cursor' = NoCursor => ledger' = Empty
         /\ \A r \in Stored' : r <= written
         /\ Bounded'
<1>1. /\ conversation \in BOOLEAN
      /\ DOMAIN turns \subseteq TurnNo /\ Stored \subseteq Record
      /\ cursor \in Cursor \union {NoCursor}
      /\ DOMAIN ledger \subseteq Record /\ \A r \in DOMAIN ledger : ledger[r] \in TurnNo
      /\ turns # Empty \/ cursor # NoCursor => conversation
      /\ cursor = NoCursor => ledger = Empty
      /\ \A r \in Stored : r <= written
      /\ Bounded
  BY DEF TypeInv, IngestTypeOK, LinesFit
<1>2. CASE DeleteConversation
  <2>1. /\ conversation' = FALSE /\ turns' = Empty /\ cursor' = NoCursor /\ ledger' = Empty
    BY <1>2 DEF DeleteConversation
  <2>2. DOMAIN Empty = {}
    BY DEF Empty
  <2>3. Stored' = {} /\ Bounded'
    BY <2>1, <2>2 DEF Stored, Bounded
  <2> QED BY <2>1, <2>2, <2>3
<1>3. ASSUME NEW a \in Address, UpsertHeader(a)
      PROVE  conversation' = TRUE /\ UNCHANGED <<turns, cursor, ledger>>
  BY <1>3 DEF UpsertHeader
<1>4. CASE \E a \in Address : UpsertHeader(a)
  <2>1. conversation' = TRUE /\ UNCHANGED <<turns, cursor, ledger>>
    BY <1>3, <1>4
  <2> QED BY <1>1, <2>1 DEF Stored, Bounded
<1>5. ASSUME NEW a \in Address, AppendTurns(a)
      PROVE  /\ DOMAIN turns' \subseteq TurnNo /\ Stored' \subseteq Record
             /\ turns' # Empty => conversation
             /\ \A r \in Stored' : r <= written
             /\ Bounded'
             /\ UNCHANGED <<conversation, cursor, ledger>>
  <2> DEFINE p == poll[a]
  <2>1. /\ p.first \in Nat /\ p.fresh \in Seq(Record) /\ Len(p.fresh) \in Nat
        /\ Range(p.fresh) \subseteq Record
        /\ \A r \in Range(p.fresh) : r <= written
        /\ p.at = "append"
    BY <1>5, PollTyped, RangeTyped DEF TypeInv, LocalsFit, InHand, AppendTurns
  <2>2. UNCHANGED <<conversation, cursor, ledger>>
    BY <1>5 DEF AppendTurns
  <2>3. /\ DOMAIN turns' = DOMAIN turns \union Numbers(p)
        /\ Numbers(p) \subseteq TurnNo
        /\ Stored' \subseteq Stored \union Range(p.fresh)
    BY <1>5, AppendTurnsDoes
  <2>4. Bounded'
    <3>1. PICK b \in Nat : \A n \in DOMAIN turns : n <= b
      BY <1>1 DEF Bounded
    <3>2. \A n \in Numbers(p) : n <= p.first + Len(p.fresh)
      BY <2>1 DEF Numbers
    <3> HIDE DEF p
    <3>3. \A n \in DOMAIN turns' : n \in Nat
      BY <1>1, <2>3 DEF TurnNo
    <3>4. \A n \in DOMAIN turns' : n <= b + p.first + Len(p.fresh)
      BY <2>1, <2>3, <3>1, <3>2, <3>3
    <3> QED BY <2>1, <3>1, <3>4 DEF Bounded
  <2>5. ASSUME ~conversation PROVE turns' = Empty
    <3>1. p.fresh = <<>> /\ turns = Empty
      BY <1>1, <1>5, <2>1, <2>5 DEF AppendTurns, Orphaned
    <3>2. Numbers(p) = {} /\ DOMAIN turns = {}
      BY <2>1, <3>1 DEF Numbers, Empty
    <3>3. turns' = [n \in {} |-> IF n \in DOMAIN turns THEN turns[n] ELSE p.fresh[n - p.first + 1]]
      BY <1>5, <3>2 DEF AppendTurns, Appended
    <3> QED BY <3>3 DEF Empty
  <2> QED BY <1>1, <2>1, <2>2, <2>3, <2>4, <2>5
<1>6. CASE \E a \in Address : AppendTurns(a)
  <2>1. PICK a \in Address : AppendTurns(a)
    BY <1>6
  <2>2. /\ DOMAIN turns' \subseteq TurnNo /\ Stored' \subseteq Record
        /\ turns' # Empty => conversation
        /\ \A r \in Stored' : r <= written
        /\ Bounded'
        /\ UNCHANGED <<conversation, cursor, ledger>>
    BY <1>5, <2>1
  <2> QED BY <1>1, <2>2
<1>7. CASE \E a \in Address : CommitPoll(a)
  <2>1. PICK a \in Address : CommitPoll(a)
    BY <1>7
  <2> DEFINE p == poll[a]
  <2>2. /\ p.first \in TurnNo /\ p.fresh \in Seq(Record) /\ DOMAIN p.fresh = 1..Len(p.fresh)
        /\ Range(p.fresh) \subseteq Record
        /\ p.at = "commit" /\ p.upto \in Cursor /\ p.upto # NoCursor
    BY <2>1, PollTyped, RangeTyped DEF TypeInv, LocalsFit, CommitPoll
  <2>3. conversation /\ cursor' = p.upto /\ UNCHANGED <<conversation, turns>>
    BY <1>1, <2>1 DEF CommitPoll, Orphaned
  <2>4. /\ DOMAIN ledger' = DOMAIN ledger \union Range(p.fresh)
        /\ \A r \in DOMAIN ledger : ledger'[r] = ledger[r]
        /\ \A r \in DOMAIN ledger' \ DOMAIN ledger :
             \E i \in DOMAIN p.fresh : p.fresh[i] = r /\ ledger'[r] = p.first + i - 1
    BY <2>1, CommitLedgers
  <2>5. \A r \in DOMAIN ledger' : ledger'[r] \in TurnNo
    <3> HIDE DEF p
    <3>1. \A i \in DOMAIN p.fresh : i \in Nat /\ i >= 1
      BY <2>2, RangeTyped
    <3>2. \A i \in DOMAIN p.fresh : p.first + i - 1 \in TurnNo
      BY <2>2, <3>1 DEF TurnNo
    <3> QED BY <1>1, <2>4, <3>2
  <2>6. Stored' = Stored /\ Bounded'
    BY <1>1, <2>3 DEF Stored, Bounded
  <2> QED BY <1>1, <2>2, <2>3, <2>4, <2>5, <2>6
<1>8. CASE UNCHANGED store
  BY <1>1, <1>8 DEF store, Stored, Bounded
<1> QED BY <1>2, <1>4, <1>6, <1>7, <1>8, StoreFrame

LEMMA RestTyped ==
  ASSUME TypeInv, [Next]_vars
  PROVE  /\ torn' \in BOOLEAN /\ acked' \in BOOLEAN
         /\ queued' \subseteq Record /\ over' \subseteq Record
         /\ lock' \in Address \union {Nobody}
         /\ job' \in [Address -> {"pending", "running", "done", "failed"}]
         /\ spent' \in [FaultKind -> Nat]
<1>1. /\ torn \in BOOLEAN /\ acked \in BOOLEAN
      /\ queued \subseteq Record /\ over \subseteq Record /\ Stored \subseteq Record
      /\ lock \in Address \union {Nobody}
      /\ job \in [Address -> {"pending", "running", "done", "failed"}]
      /\ spent \in [FaultKind -> Nat]
  BY DEF TypeInv, IngestTypeOK
<1>2. ASSUME NEW a \in Address
      PROVE  /\ poll[a].fresh \in Seq(Record)
             /\ Range(poll[a].fresh) \subseteq Record
             /\ \A n \in 0..Len(poll[a].fresh) : Range(SubSeq(poll[a].fresh, 1, n)) \subseteq Record
  <2>1. poll[a].fresh \in Seq(Record)
    BY PollTyped DEF TypeInv
  <2>2. ASSUME NEW n \in 0..Len(poll[a].fresh) PROVE SubSeq(poll[a].fresh, 1, n) \in Seq(Record)
    <3>1. 1 \in 1..Len(poll[a].fresh) + 1
      BY <2>1
    <3> QED BY <2>1, <3>1, RunOf
  <2>3. Range(poll[a].fresh) \subseteq Record
    BY <2>1, RangeTyped
  <2>4. \A n \in 0..Len(poll[a].fresh) : Range(SubSeq(poll[a].fresh, 1, n)) \subseteq Record
    <3>1. ASSUME NEW n \in 0..Len(poll[a].fresh)
          PROVE  Range(SubSeq(poll[a].fresh, 1, n)) \subseteq Record
      <4>1. PICK t : t = SubSeq(poll[a].fresh, 1, n)
        OBVIOUS
      <4>2. t \in Seq(Record)
        BY <2>2, <4>1
      <4>3. Range(t) \subseteq Record
        BY <4>2, RangeTyped
      <4> QED BY <4>1, <4>3
    <3> QED BY <3>1
  <2> QED BY <2>1, <2>3, <2>4
<1>3. torn' \in BOOLEAN
  <2>1. CASE CrashAndBoot \/ \E a \in Address : StepFails(a)
    BY <1>1, <2>1 DEF CrashAndBoot, StepFails
  <2> QED BY <1>1, <2>1, TornFrame
<1>4. acked' \in BOOLEAN
  <2>1. CASE \E a \in Address : CommitPoll(a)
    BY <1>1, <2>1 DEF CommitPoll
  <2> QED BY <1>1, <2>1, AckedFrame
<1>5. spent' \in [FaultKind -> Nat]
  BY <1>1, SpentFrame, SpendDoes DEF TypeInv
<1>9. lock' \in Address \union {Nobody}
  <2>1. CASE \E a \in Address : TakeLock(a)
    BY <2>1 DEF TakeLock
  <2>2. CASE \E a \in Address : lock' = Released(a)
    BY <1>1, <2>2 DEF Released
  <2> QED BY <1>1, <2>1, <2>2, LockFrame
<1>6. ASSUME NEW a \in Address, NEW states,
             states \subseteq {"pending", "running", "done", "failed"}, Settle(a, states)
      PROVE  job' \in [Address -> {"pending", "running", "done", "failed"}]
  BY <1>1, <1>6 DEF Settle
<1>7. job' \in [Address -> {"pending", "running", "done", "failed"}]
  <2>1. CASE \E a \in Address : AppendTurns(a) \/ StepFails(a) \/ Contended(a) \/ Acknowledge(a)
                                \/ RefuseOrphan(a) \/ Enrich(a)
    BY <1>1, <1>6, <2>1 DEF AppendTurns, StepFails, Contended, Acknowledge, RefuseOrphan, Enrich,
       Retryable, Final
  <2>2. CASE \E a \in Address : Submit(a) \/ Claim(a)
    BY <1>1, <2>2 DEF Submit, Claim
  <2>3. CASE CrashAndBoot
    BY <1>1, <2>3 DEF CrashAndBoot
  <2>4. CASE PollerSubmits
    BY <1>1, <2>4, IngestAssumption DEF PollerSubmits, Submit
  <2>5. CASE UNCHANGED job
    BY <1>1, <2>5
  <2> QED
    BY <2>1, <2>2, <2>3, <2>4, <2>5
    DEF Next, vars, Advance, WriteRecord, Rotate, Truncate, DeleteConversation, TakeLock,
        LoadCursor, ReadRecords, ReadNothing, UpsertHeader, View, NumberTurns, CommitPoll, LoseLock
<1>8. queued' \subseteq Record
  <2>1. CASE \E a \in Address : StepFails(a) \/ Enrich(a)
    BY <1>1, <1>2, <2>1 DEF StepFails, Enrich
  <2>2. CASE CrashAndBoot
    BY <1>1, <2>2, SweepDoes
  <2>3. CASE UNCHANGED queued
    BY <1>1, <2>3
  <2> QED
    BY <2>1, <2>2, <2>3
    DEF Next, vars, Advance, WriteRecord, Rotate, Truncate, DeleteConversation, PollerSubmits,
        Submit, Claim, TakeLock, Contended, LoadCursor, ReadRecords, ReadNothing, Acknowledge,
        UpsertHeader, View, NumberTurns, AppendTurns, CommitPoll, RefuseOrphan, LoseLock
<1>10. over' \subseteq Record
  BY <1>1, OverFrame, SweepDoes
<1> QED BY <1>3, <1>4, <1>5, <1>7, <1>8, <1>9, <1>10

\* A poll holds what its step has a use for.
Placed(p) ==
  /\ p.batch # <<>> => p.at \in {"header", "view"}
  /\ p.fresh # <<>> => p.at \in {"number", "append", "commit", "enrich"}
  /\ p.from # NoCursor => p.at = "read"
  /\ p.upto # NoCursor <=> p.at \in {"header", "view", "number", "append", "commit"}
  /\ p.at \in {"append", "commit"} => p.first \in TurnNo

\* And no record that the harness did not write.
Old(p, last) ==
  /\ p.due <= last
  /\ \A r \in InHand(p) : r <= last

LEMMA LocalsStep ==
  ASSUME TypeInv, [Next]_vars
  PROVE  LocalsFit'
<1>1. \A b \in Address : Placed(poll[b]) /\ Old(poll[b], written)
  BY DEF TypeInv, LocalsFit, Placed, Old
<1>2. /\ written \in Nat /\ written' \in Nat /\ written <= written'
      /\ \A b \in Address : poll[b].due \in Nat
      /\ \A b \in Address : InHand(poll[b]) \subseteq Nat
  <2>1. written \in Nat /\ written' \in Nat /\ written <= written'
    BY FileTyped, IngestAssumption DEF TypeInv, IngestTypeOK
  <2>2. ASSUME NEW b \in Address PROVE poll[b].due \in Nat /\ InHand(poll[b]) \subseteq Nat
    <3>1. poll[b].due \in 0..MaxRecords /\ poll[b].batch \in Seq(Record) /\ poll[b].fresh \in Seq(Record)
      BY PollTyped DEF TypeInv
    <3>2. Range(poll[b].batch) \subseteq Record /\ Range(poll[b].fresh) \subseteq Record
      BY <3>1, RangeTyped
    <3> QED BY <3>1, <3>2, IngestAssumption DEF InHand, Record
  <2> QED BY <2>1, <2>2
<1>3. ASSUME NEW b \in Address, NEW p, p.due = poll[b].due, InHand(p) \subseteq InHand(poll[b])
      PROVE  Old(p, written')
  <2>1. poll[b].due <= written /\ \A r \in InHand(poll[b]) : r <= written
    BY <1>1 DEF Old
  <2> QED BY <1>2, <1>3, <2>1 DEF Old
<1>4. \A r : r \notin Range(<<>>)
  BY DEF Range
<1>5. ASSUME NEW b \in Address, poll'[b] = NoPoll
      PROVE  Placed(poll'[b]) /\ Old(poll'[b], written')
  BY <1>2, <1>4, <1>5 DEF Placed, Old, InHand, NoPoll
<1>6. ASSUME NEW a \in Address, Others(a), Placed(poll'[a]), Old(poll'[a], written')
      PROVE  LocalsFit'
  <2>1. ASSUME NEW b \in Address PROVE Placed(poll'[b]) /\ Old(poll'[b], written')
    <3>1. CASE b = a
      BY <1>6, <3>1
    <3>2. CASE b # a
      BY <1>1, <1>3, <1>6, <3>2 DEF Others
    <3> QED BY <3>1, <3>2
  <2> QED BY <2>1 DEF LocalsFit, Placed, Old
<1>21. ASSUME NEW a \in Address, Others(a), poll'[a].due = poll[a].due,
              poll'[a].batch = poll[a].batch, poll'[a].fresh = poll[a].fresh, Placed(poll'[a])
       PROVE  LocalsFit'
  <2>1. Old(poll'[a], written')
    BY <1>3, <1>21 DEF InHand
  <2> QED BY <1>6, <1>21, <2>1
<1>7. ASSUME NEW a \in Address, \E states : Settle(a, states) PROVE LocalsFit'
  BY <1>5, <1>6, <1>7, SettleDoes DEF TypeInv
<1>8. ASSUME NEW a \in Address, Claim(a) PROVE LocalsFit'
  <2>1. /\ Others(a)
        /\ poll'[a].at = "lock" /\ poll'[a].due = written
        /\ poll'[a].from = NoCursor /\ poll'[a].upto = NoCursor
        /\ poll'[a].batch = <<>> /\ poll'[a].fresh = <<>>
    BY <1>8, ClaimDoes DEF TypeInv
  <2>2. Placed(poll'[a])
    BY <2>1 DEF Placed
  <2>3. Old(poll'[a], written')
    BY <1>2, <1>4, <2>1 DEF Old, InHand
  <2> QED BY <1>6, <2>1, <2>2, <2>3
<1>9. ASSUME NEW a \in Address, TakeLock(a) PROVE LocalsFit'
  <2>1. Others(a) /\ poll'[a].at = "load" /\ SameLocals(poll[a], poll'[a]) /\ poll[a].at = "lock"
    BY <1>9, GoesDoes DEF TypeInv, TakeLock
  <2>2. Placed(poll'[a])
    BY <1>1, <2>1 DEF Placed, SameLocals
  <2> QED BY <1>21, <2>1, <2>2 DEF SameLocals
<1>10. ASSUME NEW a \in Address, LoadCursor(a) PROVE LocalsFit'
  <2>1. /\ Others(a) /\ poll[a].at = "load"
        /\ poll'[a].at = "read" /\ poll'[a].due = poll[a].due
        /\ poll'[a].from = cursor /\ poll'[a].upto = poll[a].upto
        /\ poll'[a].batch = poll[a].batch /\ poll'[a].fresh = poll[a].fresh
    BY <1>10, LoadCursorDoes DEF TypeInv, LoadCursor
  <2>2. Placed(poll'[a])
    BY <1>1, <2>1 DEF Placed
  <2> QED BY <1>21, <2>1, <2>2
<1>11. ASSUME NEW a \in Address, ReadRecords(a) PROVE LocalsFit'
  <2>1. /\ Others(a) /\ poll[a].at = "read"
        /\ poll'[a].at = "header" /\ poll'[a].due = poll[a].due
        /\ poll'[a].from = NoCursor /\ poll'[a].upto = End
        /\ poll'[a].batch = Unread(poll[a].from) /\ poll'[a].fresh = poll[a].fresh
    BY <1>11, ReadRecordsDoes DEF TypeInv, ReadRecords
  <2>2. \A r \in Range(Unread(poll[a].from)) : r <= written
    <3>1. poll[a].from \in Cursor \union {NoCursor}
      BY PollTyped DEF TypeInv
    <3>2. Start(poll[a].from) \in 0..Len(file.lines) /\ file.lines \in Seq(Record)
          /\ \A i \in DOMAIN file.lines : file.lines[i] <= written
      BY <3>1, StartFits DEF TypeInv, IngestTypeOK, LinesFit
    <3>3. \A r : r \in Range(Unread(poll[a].from))
                   <=> \E i \in Start(poll[a].from) + 1..Len(file.lines) : file.lines[i] = r
      BY <3>1, UnreadIs
    <3>4. \A i \in Start(poll[a].from) + 1..Len(file.lines) : i \in DOMAIN file.lines
      BY <3>2
    <3> QED BY <3>2, <3>3, <3>4
  <2>3. \A r \in Range(Unread(poll[a].from)) : r \in Nat
    <3>1. Unread(poll[a].from) \in Seq(Record)
      BY UnreadIs, PollTyped DEF TypeInv
    <3>2. Range(Unread(poll[a].from)) \subseteq Record
      BY <3>1, RangeTyped
    <3> QED BY <3>2, IngestAssumption DEF Record
  <2>4. Placed(poll'[a])
    BY <1>1, <2>1, EndTyped DEF Placed
  <2>5. Old(poll'[a], written')
    <3>1. \A r \in InHand(poll'[a]) : r <= written /\ r \in Nat
      BY <1>1, <1>2, <2>1, <2>2, <2>3 DEF InHand, Old
    <3>2. poll'[a].due <= written /\ poll'[a].due \in Nat
      BY <1>1, <1>2, <2>1 DEF Old
    <3> QED BY <1>2, <3>1, <3>2 DEF Old
  <2> QED BY <1>6, <2>1, <2>4, <2>5
<1>12. ASSUME NEW a \in Address, ReadNothing(a) PROVE LocalsFit'
  <2>1. /\ Others(a) /\ poll[a].at = "read"
        /\ poll'[a].at = "view" /\ poll'[a].due = poll[a].due
        /\ poll'[a].from = NoCursor /\ poll'[a].upto = End
        /\ poll'[a].batch = poll[a].batch /\ poll'[a].fresh = poll[a].fresh
    BY <1>12, ReadNothingDoes DEF TypeInv, ReadNothing
  <2>2. Placed(poll'[a])
    BY <1>1, <2>1, EndTyped DEF Placed
  <2> QED BY <1>21, <2>1, <2>2
<1>13. ASSUME NEW a \in Address, UpsertHeader(a) PROVE LocalsFit'
  <2>1. Others(a) /\ poll'[a].at = "view" /\ SameLocals(poll[a], poll'[a]) /\ poll[a].at = "header"
    BY <1>13, GoesDoes DEF TypeInv, UpsertHeader
  <2>2. Placed(poll'[a])
    BY <1>1, <2>1 DEF Placed, SameLocals
  <2> QED BY <1>21, <2>1, <2>2 DEF SameLocals
<1>14. ASSUME NEW a \in Address, View(a) PROVE LocalsFit'
  <2>1. /\ Others(a) /\ poll[a].at = "view"
        /\ poll'[a].at = "number" /\ poll'[a].due = poll[a].due
        /\ poll'[a].from = poll[a].from /\ poll'[a].upto = poll[a].upto
        /\ poll'[a].batch = <<>> /\ poll'[a].fresh = Unledgered(poll[a].batch)
    BY <1>14, ViewDoes DEF TypeInv, View
  <2>2. Range(Unledgered(poll[a].batch)) = Range(poll[a].batch) \ DOMAIN ledger
    BY UnledgeredTyped, PollTyped DEF TypeInv
  <2>3. Placed(poll'[a])
    BY <1>1, <2>1 DEF Placed
  <2>4. Old(poll'[a], written')
    BY <1>3, <1>4, <2>1, <2>2 DEF InHand
  <2> QED BY <1>6, <2>1, <2>3, <2>4
<1>20. ASSUME NEW a \in Address, NumberTurns(a) PROVE LocalsFit'
  <2>1. /\ Others(a) /\ poll[a].at = "number"
        /\ poll'[a].at = "append" /\ poll'[a].due = poll[a].due
        /\ poll'[a].from = poll[a].from /\ poll'[a].upto = poll[a].upto
        /\ poll'[a].batch = poll[a].batch /\ poll'[a].fresh = poll[a].fresh
        /\ poll'[a].first = NextTurnNo
    BY <1>20, NumberTurnsDoes DEF TypeInv, NumberTurns
  <2>2. NextTurnNo \in TurnNo
    BY NextTurnNoIsNext DEF TypeInv, IngestTypeOK, LinesFit
  <2>3. Placed(poll'[a])
    BY <1>1, <2>1, <2>2 DEF Placed
  <2> QED BY <1>21, <2>1, <2>3
<1>15. ASSUME NEW a \in Address, AppendTurns(a) PROVE LocalsFit'
  <2>1. CASE Settle(a, Final)
    BY <1>7, <2>1
  <2>2. CASE Goes(a, "commit")
    <3>1. Others(a) /\ poll'[a].at = "commit" /\ SameLocals(poll[a], poll'[a]) /\ poll[a].at = "append"
      BY <1>15, <2>2, GoesDoes DEF TypeInv, AppendTurns
    <3>2. Placed(poll'[a])
      BY <1>1, <3>1 DEF Placed, SameLocals
    <3> QED BY <1>21, <3>1, <3>2 DEF SameLocals
  <2> QED BY <1>15, <2>1, <2>2 DEF AppendTurns
<1>16. ASSUME NEW a \in Address, CommitPoll(a) PROVE LocalsFit'
  <2>1. /\ Others(a) /\ poll[a].at = "commit"
        /\ poll'[a].at = "enrich" /\ poll'[a].due = poll[a].due
        /\ poll'[a].from = poll[a].from /\ poll'[a].upto = NoCursor
        /\ poll'[a].batch = poll[a].batch /\ poll'[a].fresh = poll[a].fresh
    BY <1>16, CommitPollDoes DEF TypeInv, CommitPoll
  <2>2. Placed(poll'[a])
    BY <1>1, <2>1 DEF Placed
  <2> QED BY <1>21, <2>1, <2>2
<1>17. CASE CrashAndBoot
  <2>1. \A b \in Address : poll'[b] = NoPoll
    BY <1>17 DEF CrashAndBoot
  <2>2. ASSUME NEW b \in Address PROVE Placed(poll'[b]) /\ Old(poll'[b], written')
    BY <1>5, <2>1
  <2> QED BY <2>2 DEF LocalsFit, Placed, Old
<1>18. CASE UNCHANGED poll
  <2>1. ASSUME NEW b \in Address PROVE Placed(poll'[b]) /\ Old(poll'[b], written')
    BY <1>1, <1>3, <1>18
  <2> QED BY <2>1 DEF LocalsFit, Placed, Old
<1>19. ASSUME NEW a \in Address,
             Contended(a) \/ Acknowledge(a) \/ RefuseOrphan(a) \/ Enrich(a) \/ StepFails(a)
       PROVE LocalsFit'
  <2>1. \E states : Settle(a, states)
    BY <1>19 DEF Contended, Acknowledge, RefuseOrphan, Enrich, StepFails
  <2> QED BY <1>7, <2>1
<1> QED
  BY <1>8, <1>9, <1>10, <1>11, <1>12, <1>13, <1>14, <1>15, <1>16, <1>17, <1>18, <1>19, <1>20, PollFrame

LEMMA PollsRunStep ==
  ASSUME TypeInv, [Next]_vars
  PROVE  PollsRun'
<1>1. /\ \A b \in Address : poll[b].at # "idle" => job[b] = "running"
      /\ job \in [Address -> {"pending", "running", "done", "failed"}]
  BY DEF TypeInv, PollsRun, IngestTypeOK
<1>2. ASSUME NEW a \in Address, \E states : Settle(a, states) PROVE PollsRun'
  BY <1>1, <1>2, SettleDoes DEF TypeInv, PollsRun, Others, NoPoll
<1>3. ASSUME NEW a \in Address, Others(a), poll[a].at # "idle", UNCHANGED job PROVE PollsRun'
  BY <1>1, <1>3 DEF PollsRun, Others
<1>4. ASSUME NEW a \in Address, Submit(a) PROVE PollsRun'
  BY <1>1, <1>4 DEF Submit, PollsRun
<1>5. ASSUME NEW a \in Address, Claim(a) PROVE PollsRun'
  BY <1>1, <1>5, ClaimDoes DEF Claim, PollsRun, Others, TypeInv
<1>6. CASE \E a \in Address : Submit(a) \/ PollerSubmits
  BY <1>4, <1>6, IngestAssumption DEF PollerSubmits
<1>7. CASE CrashAndBoot
  BY <1>7 DEF CrashAndBoot, PollsRun, NoPoll
<1>8. CASE UNCHANGED <<poll, job>>
  BY <1>1, <1>8 DEF PollsRun
<1>9. ASSUME NEW a \in Address, TakeLock(a) \/ UpsertHeader(a) PROVE PollsRun'
  BY <1>3, <1>9, GoesDoes DEF TakeLock, UpsertHeader, TypeInv
<1>10. ASSUME NEW a \in Address,
              LoadCursor(a) \/ ReadRecords(a) \/ ReadNothing(a) \/ View(a)
                \/ NumberTurns(a) \/ CommitPoll(a)
       PROVE  PollsRun'
  <2>1. Others(a)
    BY <1>10, LoadCursorDoes, ReadRecordsDoes, ReadNothingDoes, ViewDoes, NumberTurnsDoes,
       CommitPollDoes DEF TypeInv
  <2>2. poll[a].at # "idle" /\ UNCHANGED job
    BY <1>10 DEF LoadCursor, ReadRecords, ReadNothing, View, NumberTurns, CommitPoll
  <2> QED BY <1>3, <2>1, <2>2
<1>11. ASSUME NEW a \in Address, AppendTurns(a) PROVE PollsRun'
  <2>1. CASE Settle(a, Final)
    BY <1>2, <2>1
  <2>2. CASE Goes(a, "commit") /\ UNCHANGED <<lock, job>>
    BY <1>3, <1>11, <2>2, GoesDoes DEF AppendTurns, TypeInv
  <2> QED BY <1>11, <2>1, <2>2 DEF AppendTurns
<1>12. ASSUME NEW a \in Address,
              Contended(a) \/ Acknowledge(a) \/ RefuseOrphan(a) \/ Enrich(a) \/ StepFails(a)
       PROVE PollsRun'
  <2>1. \E states : Settle(a, states)
    BY <1>12 DEF Contended, Acknowledge, RefuseOrphan, Enrich, StepFails
  <2> QED BY <1>2, <2>1
<1>13. CASE WriteRecord \/ Rotate \/ Truncate \/ DeleteConversation \/ UNCHANGED vars
  BY <1>8, <1>13 DEF WriteRecord, Rotate, Truncate, DeleteConversation, vars
<1>14. CASE \E a \in Address : LoseLock(a)
  BY <1>8, <1>14 DEF LoseLock
<1> QED
  BY <1>4, <1>5, <1>6, <1>7, <1>9, <1>10, <1>11, <1>12, <1>13, <1>14, IngestAssumption
  DEF Next, Advance

LEMMA TypeStep ==
  ASSUME TypeInv, [Next]_vars
  PROVE  TypeInv'
<1>1. IngestTypeOK'
  BY FileTyped, StoreTyped, RestTyped, PollsTyped DEF IngestTypeOK
<1>2. LinesFit'
  <2>1. written \in Nat /\ written' \in Nat /\ Stored' \subseteq Record
    BY FileTyped, StoreTyped, IngestAssumption DEF TypeInv, IngestTypeOK
  <2>2. \A r \in Stored' : r <= written'
    BY <2>1, FileTyped, StoreTyped, IngestAssumption DEF Record
  <2> QED BY <2>2, FileTyped, StoreTyped DEF LinesFit
<1> QED BY <1>1, <1>2, LocalsStep, PollsRunStep DEF TypeInv

-----------------------------------------------------------------------------
(* The steps, sorted by what they may disturb.                             *)

\* A step of the queue alone.
Still == UNCHANGED <<file, written, store, queued, over, lock, poll, spent, torn>>

\* A step that ends a poll and leaves the store alone.
Ends(a) ==
  Contended(a) \/ Acknowledge(a) \/ RefuseOrphan(a) \/ Enrich(a) \/ StepFails(a)

\* A step from the claim to what was read, which leaves the store alone.
Reads(a) ==
  Claim(a) \/ TakeLock(a) \/ LoadCursor(a) \/ ReadRecords(a) \/ ReadNothing(a)

LEMMA NextCases ==
  ASSUME [Next]_vars
  PROVE  \/ WriteRecord \/ Rotate \/ Truncate \/ DeleteConversation \/ CrashAndBoot \/ Still
         \/ \E a \in Address : LoseLock(a) \/ Reads(a) \/ UpsertHeader(a) \/ View(a)
                               \/ NumberTurns(a) \/ AppendTurns(a) \/ CommitPoll(a) \/ Ends(a)
<1>1. ASSUME NEW a \in Address, Submit(a) PROVE Still
  BY <1>1 DEF Submit, Still
<1>2. PollerSubmits => Still
  BY DEF PollerSubmits, Submit, Still
<1>3. UNCHANGED vars => Still
  BY DEF vars, Still
<1> QED BY <1>1, <1>2, <1>3 DEF Next, Advance, Reads, Ends

LEMMA EndsDoes ==
  ASSUME TypeInv, NEW a \in Address, Ends(a)
  PROVE  /\ Others(a) /\ poll'[a] = NoPoll /\ lock' = Released(a)
         /\ UNCHANGED <<file, written, store>>
         /\ poll[a].at = "commit" /\ poll[a].fresh # <<>> => torn' \/ ~conversation
<1>1. \E states : Settle(a, states)
  BY DEF Ends, Contended, Acknowledge, RefuseOrphan, Enrich, StepFails
<1>2. UNCHANGED <<file, written, store>>
  BY DEF Ends, Contended, Acknowledge, RefuseOrphan, Enrich, StepFails
<1>3. poll[a].at = "commit" /\ poll[a].fresh # <<>> => torn' \/ ~conversation
  BY DEF Ends, Contended, Acknowledge, RefuseOrphan, Enrich, StepFails, Orphaned, Appending
<1> QED BY <1>1, <1>2, <1>3, SettleDoes DEF TypeInv

LEMMA ReadsDoes ==
  ASSUME TypeInv, NEW a \in Address, Reads(a)
  PROVE  /\ Others(a) /\ poll'[a].at \in {"lock", "load", "read", "header", "view"}
         /\ poll'[a].fresh = <<>>
         /\ poll[a].at \in {"idle", "lock", "load", "read"}
         /\ poll'[a].at \in Reading => poll[a].at \in Reading \/ (lock = Nobody /\ lock' = a)
         /\ lock' = lock \/ (lock = Nobody /\ lock' = a)
         /\ UNCHANGED <<file, written, store, queued, spent, torn>>
<1>1. poll[a].fresh # <<>> => poll[a].at \in {"number", "append", "commit", "enrich"}
  BY DEF TypeInv, LocalsFit
<1>2. CASE Claim(a)
  <2>1. Others(a) /\ poll'[a].at = "lock" /\ poll'[a].fresh = <<>>
    BY <1>2, ClaimDoes DEF TypeInv
  <2>2. poll[a].at = "idle"
    BY <1>2, PollTyped DEF TypeInv, PollsRun, Claim
  <2> QED BY <1>2, <2>1, <2>2 DEF Claim, Reading
<1>3. CASE TakeLock(a)
  <2>1. Others(a) /\ poll'[a].at = "load" /\ poll'[a].fresh = poll[a].fresh /\ poll[a].at = "lock"
    BY <1>3, GoesDoes DEF TypeInv, TakeLock, SameLocals
  <2> QED BY <1>1, <1>3, <2>1 DEF TakeLock
<1>4. CASE LoadCursor(a)
  <2>1. Others(a) /\ poll'[a].at = "read" /\ poll'[a].fresh = poll[a].fresh /\ poll[a].at = "load"
    BY <1>4, LoadCursorDoes DEF TypeInv, LoadCursor
  <2> QED BY <1>1, <1>4, <2>1 DEF LoadCursor, Reading, Step
<1>5. CASE ReadRecords(a)
  <2>1. Others(a) /\ poll'[a].at = "header" /\ poll'[a].fresh = poll[a].fresh /\ poll[a].at = "read"
    BY <1>5, ReadRecordsDoes DEF TypeInv, ReadRecords
  <2> QED BY <1>1, <1>5, <2>1 DEF ReadRecords, Reading, Step
<1>6. CASE ReadNothing(a)
  <2>1. Others(a) /\ poll'[a].at = "view" /\ poll'[a].fresh = poll[a].fresh /\ poll[a].at = "read"
    BY <1>6, ReadNothingDoes DEF TypeInv, ReadNothing
  <2> QED BY <1>1, <1>6, <2>1 DEF ReadNothing, Reading, Step
<1> QED BY <1>2, <1>3, <1>4, <1>5, <1>6 DEF Reads

-----------------------------------------------------------------------------
(* The lock.                                                               *)

LEMMA LockStep ==
  ASSUME TypeInv, LockHeld, [Next]_vars
  PROVE  LockHeld'
<1> SUFFICES ASSUME Never({"lock_lost"})', NEW b \in Address, poll'[b].at \in Reading
             PROVE  lock' = b
  BY DEF LockHeld
<1>1. Never({"lock_lost"})
  BY NeverBefore DEF FaultKind, TypeInv
<1>2. \A c \in Address : poll[c].at \in Reading => lock = c
  BY <1>1 DEF LockHeld
<1>3. "idle" \notin Reading
  BY DEF Reading
<1>4. CASE \E a \in Address : Ends(a)
  <2>1. PICK a \in Address : Ends(a)
    BY <1>4
  <2>2. Others(a) /\ poll'[a] = NoPoll /\ lock' = Released(a)
    BY <2>1, EndsDoes
  <2>3. b # a /\ poll[b].at \in Reading
    BY <1>3, <2>2 DEF NoPoll, Others
  <2> QED BY <1>2, <2>2, <2>3 DEF Released
<1>5. CASE \E a \in Address : Reads(a)
  <2>1. PICK a \in Address : Reads(a)
    BY <1>5
  <2>2. /\ Others(a)
        /\ poll'[a].at \in Reading => poll[a].at \in Reading \/ (lock = Nobody /\ lock' = a)
        /\ lock' = lock \/ (lock = Nobody /\ lock' = a)
    BY <2>1, ReadsDoes
  <2> QED BY <1>2, <2>2, IngestAssumption DEF Others
<1>6. ASSUME NEW a \in Address, Others(a), poll[a].at \in Reading, lock' = lock PROVE lock' = b
  BY <1>2, <1>6 DEF Others
<1>7. CASE \E a \in Address : UpsertHeader(a)
  BY <1>6, <1>7, GoesDoes DEF UpsertHeader, Reading, Step, TypeInv
<1>8. CASE \E a \in Address : View(a)
  BY <1>6, <1>8, ViewDoes DEF View, Reading, Step, TypeInv
<1>14. CASE \E a \in Address : NumberTurns(a)
  BY <1>6, <1>14, NumberTurnsDoes DEF NumberTurns, Reading, Step, TypeInv
<1>9. CASE \E a \in Address : CommitPoll(a)
  BY <1>6, <1>9, CommitPollDoes DEF CommitPoll, Reading, Step, TypeInv
<1>10. CASE \E a \in Address : AppendTurns(a)
  <2>1. PICK a \in Address : AppendTurns(a)
    BY <1>10
  <2>2. CASE Goes(a, "commit") /\ UNCHANGED <<lock, job>>
    BY <1>6, <2>1, <2>2, GoesDoes DEF AppendTurns, Reading, Step, TypeInv
  <2>3. CASE Settle(a, Final)
    <3>1. Others(a) /\ poll'[a] = NoPoll /\ lock' = Released(a)
      BY <2>3, SettleDoes DEF TypeInv
    <3>2. b # a /\ poll[b].at \in Reading
      BY <1>3, <3>1 DEF NoPoll, Others
    <3> QED BY <1>2, <3>1, <3>2 DEF Released
  <2> QED BY <2>1, <2>2, <2>3 DEF AppendTurns
<1>11. CASE \E a \in Address : LoseLock(a)
  <2>1. spent'["lock_lost"] # 0
    BY <1>11, SpendDoes DEF LoseLock, FaultKind, TypeInv
  <2> QED BY <2>1 DEF Never
<1>12. CASE CrashAndBoot
  BY <1>3, <1>12 DEF CrashAndBoot, NoPoll
<1>13. CASE WriteRecord \/ Rotate \/ Truncate \/ DeleteConversation \/ Still
  <2>1. lock' = lock /\ poll' = poll
    BY <1>13 DEF WriteRecord, Rotate, Truncate, DeleteConversation, Still
  <2> QED BY <1>2, <2>1
<1> QED
  BY <1>4, <1>5, <1>7, <1>8, <1>9, <1>10, <1>11, <1>12, <1>13, <1>14, NextCases

-----------------------------------------------------------------------------
(* Turn numbers and the ledger.                                            *)

\* Two polls past the lock are one, while its session lives.
LEMMA OneReads ==
  ASSUME TypeInv, LockHeld, Never({"lock_lost"}), NEW a \in Address, NEW b \in Address,
         poll[a].at \in Reading, poll[b].at \in Reading
  PROVE  a = b
BY DEF LockHeld

LEMMA AtReading ==
  {"load", "read", "header", "view", "number", "append", "commit", "enrich"} = Reading
BY DEF Reading, Step

LEMMA NumbersFreeStep ==
  ASSUME TypeInv, LockHeld, NumbersFree, [Next]_vars
  PROVE  NumbersFree'
<1> SUFFICES ASSUME Never({"lock_lost"})', NEW b \in Address, poll'[b].at = "append",
                    conversation', NEW n \in DOMAIN turns'
             PROVE  n < poll'[b].first
  BY DEF NumbersFree
<1>1. Never({"lock_lost"})
  BY NeverBefore DEF FaultKind, TypeInv
<1>2. \A c \in Address : poll[c].at = "append" /\ conversation
                           => \A m \in DOMAIN turns : m < poll[c].first
  BY <1>1 DEF NumbersFree
<1>3. CASE UNCHANGED <<turns, conversation>> /\ poll'[b] = poll[b]
  BY <1>2, <1>3
<1>4. CASE WriteRecord \/ Rotate \/ Truncate \/ Still \/ \E a \in Address : LoseLock(a)
  <2>1. UNCHANGED <<turns, conversation, poll>>
    BY <1>4 DEF WriteRecord, Rotate, Truncate, Still, LoseLock, store
  <2> QED BY <1>3, <2>1
<1>5. CASE DeleteConversation
  BY <1>5 DEF DeleteConversation
<1>6. CASE CrashAndBoot
  BY <1>6 DEF CrashAndBoot, NoPoll
<1>7. CASE \E a \in Address : Reads(a) \/ Ends(a)
  <2>1. PICK a \in Address : Reads(a) \/ Ends(a)
    BY <1>7
  <2>2. Others(a) /\ poll'[a].at # "append" /\ UNCHANGED store
    BY <2>1, ReadsDoes, EndsDoes DEF NoPoll
  <2> QED BY <1>3, <2>2 DEF Others, store
<1>8. CASE \E a \in Address : CommitPoll(a)
  <2>1. PICK a \in Address : CommitPoll(a)
    BY <1>8
  <2>2. Others(a) /\ poll'[a].at # "append" /\ UNCHANGED <<turns, conversation>>
    BY <2>1, CommitPollDoes DEF TypeInv, CommitPoll
  <2> QED BY <1>3, <2>2 DEF Others
<1>11. CASE \E a \in Address : View(a)
  <2>1. PICK a \in Address : View(a)
    BY <1>11
  <2>2. Others(a) /\ poll'[a].at # "append" /\ UNCHANGED <<turns, conversation>>
    BY <2>1, ViewDoes DEF TypeInv, View, store
  <2> QED BY <1>3, <2>2 DEF Others
<1>9. CASE \E a \in Address : NumberTurns(a)
  <2>1. PICK a \in Address : NumberTurns(a)
    BY <1>9
  <2>2. /\ Others(a) /\ poll'[a].first = NextTurnNo
        /\ UNCHANGED <<turns, conversation>>
    BY <2>1, NumberTurnsDoes DEF TypeInv, NumberTurns, store
  <2>3. \A m \in DOMAIN turns : m < NextTurnNo
    BY NextTurnNoIsNext DEF TypeInv, IngestTypeOK, LinesFit
  <2> QED BY <1>3, <2>2, <2>3 DEF Others
<1>10. CASE \E a \in Address : UpsertHeader(a) \/ AppendTurns(a)
  <2>1. PICK a \in Address : UpsertHeader(a) \/ AppendTurns(a)
    BY <1>10
  <2>2. Others(a) /\ poll'[a].at # "append" /\ poll[a].at \in Reading
    <3>1. CASE UpsertHeader(a)
      BY <3>1, GoesDoes, AtReading DEF TypeInv, UpsertHeader
    <3>2. CASE AppendTurns(a)
      BY <3>2, GoesDoes, SettleDoes, AtReading DEF TypeInv, AppendTurns, NoPoll
    <3> QED BY <2>1, <3>1, <3>2
  <2>3. b # a /\ poll[b].at \in Reading
    BY <2>2, AtReading DEF Others
  <2> QED BY <1>1, <2>2, <2>3, OneReads
<1> QED BY <1>4, <1>5, <1>6, <1>7, <1>8, <1>9, <1>10, <1>11, NextCases

\* What LedgerInv says of what is stored.
LedgerNames == \A r \in DOMAIN ledger : ledger[r] \in DOMAIN turns /\ turns[ledger[r]] = r

LEMMA LedgerStep ==
  ASSUME TypeInv, LockHeld, LedgerInv, [Next]_vars
  PROVE  LedgerInv'
<1> SUFFICES ASSUME Never({"remove"})' \/ Never({"lock_lost"})'
             PROVE  /\ LedgerNames' /\ Dense'
                    /\ \A b \in Address : NumbersFollow(poll[b])' /\ Numbered(poll[b])'
  BY DEF LedgerInv, LedgerNames
<1>1. (Never({"remove"})' => Never({"remove"})) /\ (Never({"lock_lost"})' => Never({"lock_lost"}))
  BY NeverBefore DEF FaultKind, TypeInv
<1>2. /\ LedgerNames /\ Dense
      /\ \A b \in Address : NumbersFollow(poll[b]) /\ Numbered(poll[b])
  BY <1>1 DEF LedgerInv, LedgerNames
<1>3. ASSUME UNCHANGED <<turns, conversation>>, NEW b \in Address, poll'[b] = poll[b]
      PROVE  NumbersFollow(poll[b])' /\ Numbered(poll[b])'
  BY <1>1, <1>2, <1>3 DEF NumbersFollow, Numbered
<1>4. CASE WriteRecord \/ Rotate \/ Truncate \/ Still \/ \E a \in Address : LoseLock(a)
  <2>1. UNCHANGED <<turns, ledger, conversation, poll>>
    BY <1>4 DEF WriteRecord, Rotate, Truncate, Still, LoseLock, store
  <2>2. LedgerNames' /\ Dense'
    BY <1>2, <2>1 DEF LedgerNames, Dense
  <2> QED BY <1>2, <1>3, <2>1, <2>2
<1>5. CASE DeleteConversation
  <2>1. DOMAIN turns' = {} /\ DOMAIN ledger' = {} /\ conversation' = FALSE
    BY <1>5 DEF DeleteConversation, Empty
  <2>2. ~Never({"remove"})'
    BY <1>5, SpendDoes DEF DeleteConversation, FaultKind, TypeInv, Never
  <2> QED BY <2>1, <2>2 DEF LedgerNames, Dense, NumbersFollow, Numbered
<1>6. CASE CrashAndBoot
  <2>1. UNCHANGED <<turns, ledger>> /\ \A b \in Address : poll'[b].at = "idle"
    BY <1>6 DEF CrashAndBoot, NoPoll, store
  <2> QED BY <1>2, <2>1 DEF LedgerNames, Dense, NumbersFollow, Numbered
<1>7. CASE \E a \in Address : Reads(a) \/ Ends(a)
  <2>1. PICK a \in Address : Reads(a) \/ Ends(a)
    BY <1>7
  <2>2. Others(a) /\ poll'[a].at \notin {"append", "commit"} /\ UNCHANGED store
    BY <2>1, ReadsDoes, EndsDoes DEF NoPoll
  <2>3. LedgerNames' /\ Dense'
    BY <1>2, <2>2 DEF LedgerNames, Dense, store
  <2>4. NumbersFollow(poll[a])' /\ Numbered(poll[a])'
    BY <2>2 DEF NumbersFollow, Numbered
  <2> QED BY <1>2, <1>3, <2>2, <2>3, <2>4 DEF Others, store
<1>8. CASE \E a \in Address : CommitPoll(a)
  <2>1. PICK a \in Address : CommitPoll(a)
    BY <1>8
  <2>2. /\ Others(a) /\ poll'[a].at = "enrich" /\ UNCHANGED <<turns, conversation>>
        /\ poll[a].at = "commit" /\ conversation
    BY <2>1, CommitPollDoes DEF TypeInv, CommitPoll, Orphaned
  <2>3. LedgerNames'
    <3>1. \A i \in DOMAIN poll[a].fresh :
            /\ poll[a].first + i - 1 \in DOMAIN turns
            /\ turns[poll[a].first + i - 1] = poll[a].fresh[i]
      BY <1>2, <2>2 DEF Numbered
    <3>2. /\ \A r \in DOMAIN ledger : ledger'[r] = ledger[r]
          /\ \A r \in DOMAIN ledger' \ DOMAIN ledger :
               \E i \in DOMAIN poll[a].fresh : /\ poll[a].fresh[i] = r
                                               /\ ledger'[r] = poll[a].first + i - 1
      BY <2>1, CommitLedgers
    <3> QED BY <1>2, <2>2, <3>1, <3>2 DEF LedgerNames
  <2>4. NumbersFollow(poll[a])' /\ Numbered(poll[a])'
    BY <2>2 DEF NumbersFollow, Numbered
  <2>5. Dense'
    BY <1>2, <2>2 DEF Dense
  <2> QED BY <1>2, <1>3, <2>2, <2>3, <2>4, <2>5 DEF Others
<1>12. CASE \E a \in Address : View(a)
  <2>1. PICK a \in Address : View(a)
    BY <1>12
  <2>2. /\ Others(a) /\ poll'[a].at = "number"
        /\ UNCHANGED <<turns, ledger, conversation>>
    BY <2>1, ViewDoes DEF TypeInv, View, store
  <2>3. NumbersFollow(poll[a])' /\ Numbered(poll[a])'
    BY <2>2 DEF NumbersFollow, Numbered
  <2>4. LedgerNames' /\ Dense'
    BY <1>2, <2>2 DEF LedgerNames, Dense
  <2> QED BY <1>2, <1>3, <2>2, <2>3, <2>4 DEF Others
<1>9. CASE \E a \in Address : NumberTurns(a)
  <2>1. PICK a \in Address : NumberTurns(a)
    BY <1>9
  <2>2. /\ Others(a) /\ poll'[a].at = "append" /\ poll'[a].first = NextTurnNo
        /\ UNCHANGED <<turns, ledger, conversation>>
    BY <2>1, NumberTurnsDoes DEF TypeInv, NumberTurns, store
  <2>3. NextTurnNo = 1 \/ NextTurnNo - 1 \in DOMAIN turns
    BY NextTurnNoIsNext DEF TypeInv, IngestTypeOK, LinesFit
  <2>4. NumbersFollow(poll[a])' /\ Numbered(poll[a])'
    BY <2>2, <2>3 DEF NumbersFollow, Numbered
  <2>5. LedgerNames' /\ Dense'
    BY <1>2, <2>2 DEF LedgerNames, Dense
  <2> QED BY <1>2, <1>3, <2>2, <2>4, <2>5 DEF Others
<1>10. CASE \E a \in Address : UpsertHeader(a)
  <2>1. PICK a \in Address : UpsertHeader(a)
    BY <1>10
  <2>2. /\ Others(a) /\ poll'[a].at = "view" /\ poll[a].at = "header"
        /\ UNCHANGED <<turns, ledger>>
    BY <2>1, GoesDoes DEF TypeInv, UpsertHeader
  <2>3. ASSUME NEW b \in Address PROVE NumbersFollow(poll[b])' /\ Numbered(poll[b])'
    <3>1. CASE b = a
      BY <2>2, <3>1 DEF NumbersFollow, Numbered
    <3>2. CASE b # a /\ Never({"remove"})'
      BY <1>1, <1>2, <2>2, <3>2 DEF Others, NumbersFollow, Numbered
    <3>3. CASE b # a /\ Never({"lock_lost"})'
      <4>1. poll'[b] = poll[b] /\ poll[b].at \notin {"append", "commit"}
        BY <1>1, <2>2, <3>3, OneReads, AtReading DEF Others
      <4> QED BY <4>1 DEF NumbersFollow, Numbered
    <3> QED BY <3>1, <3>2, <3>3
  <2>4. LedgerNames' /\ Dense'
    BY <1>2, <2>2 DEF LedgerNames, Dense
  <2> QED BY <2>3, <2>4
<1>11. CASE \E a \in Address : AppendTurns(a)
  <2>1. PICK a \in Address : AppendTurns(a)
    BY <1>11
  <2> DEFINE p == poll[a]
  <2>2. /\ p.at = "append" /\ UNCHANGED <<ledger, conversation>>
        /\ p.first \in TurnNo /\ p.fresh \in Seq(Record)
        /\ DOMAIN p.fresh = 1..Len(p.fresh) /\ Len(p.fresh) \in Nat
        /\ DOMAIN turns \subseteq TurnNo
        /\ p.fresh # <<>> => conversation
    BY <2>1, PollTyped DEF TypeInv, LocalsFit, AppendTurns, Orphaned, IngestTypeOK
  <2>3. /\ DOMAIN turns' = DOMAIN turns \union Numbers(p)
        /\ \A n \in DOMAIN turns : turns'[n] = turns[n]
        /\ \A n \in Numbers(p) \ DOMAIN turns :
             /\ n - p.first + 1 \in DOMAIN p.fresh
             /\ turns'[n] = p.fresh[n - p.first + 1]
        /\ \A i \in DOMAIN p.fresh : p.first + i - 1 \in Numbers(p)
    BY <2>1, AppendTurnsDoes
  <2>4. LedgerNames'
    BY <1>2, <2>2, <2>3 DEF LedgerNames
  <2>5. Dense'
    <3> SUFFICES ASSUME NEW n \in DOMAIN turns', NEW m \in 1..n PROVE m \in DOMAIN turns'
      BY DEF Dense
    <3>1. CASE n \in DOMAIN turns
      BY <1>2, <2>3, <3>1 DEF Dense
    <3>2. CASE n \in Numbers(p)
      <4>1. n \in p.first .. p.first + Len(p.fresh) - 1
        BY <3>2 DEF Numbers
      <4>2. p.fresh # <<>>
        BY <2>2, <4>1 DEF TurnNo
      <4>3. p.first = 1 \/ p.first - 1 \in DOMAIN turns
        BY <1>2, <2>2, <4>2 DEF NumbersFollow
      <4>4. CASE m < p.first
        <5>1. p.first - 1 \in DOMAIN turns /\ m \in 1..p.first - 1
          BY <2>2, <4>3, <4>4 DEF TurnNo
        <5> QED BY <1>2, <2>3, <5>1 DEF Dense
      <4>5. CASE m >= p.first
        <5>1. m \in p.first .. p.first + Len(p.fresh) - 1
          BY <2>2, <4>1, <4>5 DEF TurnNo
        <5> QED BY <2>3, <5>1 DEF Numbers
      <4>6. m < p.first \/ m >= p.first
        BY <2>2, <4>1 DEF TurnNo
      <4> QED BY <4>4, <4>5, <4>6
    <3> QED BY <2>3, <3>1, <3>2
  <2>6. ASSUME NEW b \in Address, poll'[b] = poll[b]
        PROVE  NumbersFollow(poll[b])' /\ Numbered(poll[b])'
    BY <1>1, <1>2, <2>2, <2>3, <2>6 DEF NumbersFollow, Numbered
  <2>7. CASE Settle(a, Final)
    <3>1. Others(a) /\ poll'[a] = NoPoll
      BY <2>7, SettleDoes DEF TypeInv
    <3>2. NumbersFollow(poll[a])' /\ Numbered(poll[a])'
      BY <3>1 DEF NumbersFollow, Numbered, NoPoll
    <3> QED BY <1>2, <2>4, <2>5, <2>6, <3>1, <3>2 DEF Others
  <2>8. CASE Goes(a, "commit") /\ ~Disagrees(p)
    <3>1. Others(a) /\ poll'[a].at = "commit" /\ SameLocals(p, poll'[a])
      BY <2>8, GoesDoes DEF TypeInv
    <3>2. \A i \in DOMAIN p.fresh : /\ p.first + i - 1 \in DOMAIN turns'
                                    /\ turns'[p.first + i - 1] = p.fresh[i]
      <4>1. ASSUME NEW i \in DOMAIN p.fresh, NEW n, n = p.first + i - 1
            PROVE  n \in DOMAIN turns' /\ turns'[n] = p.fresh[i]
        <5>1. n \in Numbers(p) /\ n \notin DOMAIN turns
          BY <2>3, <2>8, <4>1 DEF Disagrees
        <5>2. n - p.first + 1 = i
          BY <2>2, <4>1 DEF TurnNo
        <5> QED BY <2>3, <5>1, <5>2
      <4> QED BY <4>1
    <3>3. NumbersFollow(poll[a])' /\ Numbered(poll[a])'
      BY <3>1, <3>2 DEF NumbersFollow, Numbered, SameLocals
    <3> QED BY <1>2, <2>4, <2>5, <2>6, <3>1, <3>3 DEF Others
  <2> QED BY <2>1, <2>7, <2>8 DEF AppendTurns
<1> QED BY <1>4, <1>5, <1>6, <1>7, <1>8, <1>9, <1>10, <1>11, <1>12, NextCases

-----------------------------------------------------------------------------
(* Enrichment.                                                             *)

\* While its lock excludes, a poll's numbers are free.
LEMMA NoDisagreement ==
  ASSUME TypeInv, NumbersFree, Never({"lock_lost"}), NEW a \in Address, AppendTurns(a)
  PROVE  ~Disagrees(poll[a]) /\ \A n \in DOMAIN turns : n < poll[a].first
<1>1. \A n \in DOMAIN turns : n < poll[a].first
  <2>1. CASE conversation
    BY <2>1 DEF NumbersFree, AppendTurns
  <2>2. CASE ~conversation
    BY <2>2 DEF TypeInv, IngestTypeOK, Empty
  <2> QED BY <2>1, <2>2
<1>2. poll[a].first \in Nat /\ DOMAIN turns \subseteq Nat
  BY PollTyped DEF TypeInv, IngestTypeOK, TurnNo
<1>3. \A n \in Numbers(poll[a]) : n >= poll[a].first
  BY <1>2 DEF Numbers
<1> QED BY <1>1, <1>2, <1>3 DEF Disagrees

\* An empty store has no turns.
LEMMA NoConversation ==
  ASSUME TypeInv, ~conversation
  PROVE  Stored = {} /\ DOMAIN turns = {} /\ cursor = NoCursor
BY DEF TypeInv, IngestTypeOK, Stored, Empty

LEMMA EnrichStep ==
  ASSUME TypeInv, NumbersFree, EnrichInv, [Next]_vars
  PROVE  EnrichInv'
<1> SUFFICES ASSUME Never({"error", "lock_lost"})', NEW r \in Stored'
             PROVE  r \in queued' \/ r \in over' \/ Owed(r)'
  BY DEF EnrichInv
<1>1. Never({"error", "lock_lost"}) /\ Never({"lock_lost"})
  BY NeverBefore DEF FaultKind, TypeInv, Never
<1>7. CASE CrashAndBoot
  <2>1. Stored' = Stored
    BY <1>7 DEF CrashAndBoot, Stored, store
  <2> QED BY <1>7, <2>1, SweepDoes
<1>14. CASE r \in over /\ UNCHANGED over
  BY <1>14
<1> SUFFICES ASSUME ~CrashAndBoot, r \notin over
             PROVE  r \in queued' \/ Owed(r)'
  BY <1>7, <1>14, OverFrame
<1>2. \A s \in Stored \ over : s \in queued \/ Owed(s)
  BY <1>1 DEF EnrichInv
<1>3. ASSUME NEW a \in Address, Others(a), Owed(r), queued \subseteq queued',
             poll[a].at \in {"commit", "enrich"}
               => poll'[a].at \in {"commit", "enrich"} /\ poll'[a].fresh = poll[a].fresh
      PROVE  Owed(r)'
  BY <1>3 DEF Owed, Others
<1>4. CASE UNCHANGED <<turns, poll, queued>>
  BY <1>2, <1>4 DEF Stored, Owed
<1>5. CASE WriteRecord \/ Rotate \/ Truncate \/ Still \/ \E a \in Address : LoseLock(a)
  BY <1>4, <1>5 DEF WriteRecord, Rotate, Truncate, Still, LoseLock, store
<1>6. CASE DeleteConversation
  BY <1>6 DEF DeleteConversation, Stored, Empty
<1>8. CASE \E a \in Address : Reads(a)
  <2>1. PICK a \in Address : Reads(a)
    BY <1>8
  <2>2. /\ Others(a) /\ poll[a].at \notin {"commit", "enrich"}
        /\ UNCHANGED <<turns, queued>>
    BY <2>1, ReadsDoes DEF store
  <2> QED BY <1>2, <1>3, <2>2 DEF Stored
<1>9. CASE \E a \in Address : Ends(a)
  <2>1. PICK a \in Address : Ends(a)
    BY <1>9
  <2>2. Others(a) /\ UNCHANGED turns
    BY <2>1, EndsDoes DEF store
  <2>3. CASE Contended(a) \/ Acknowledge(a)
    <3>1. poll[a].at \notin {"commit", "enrich"} /\ UNCHANGED queued
      BY <2>3 DEF Contended, Acknowledge
    <3> QED BY <1>2, <1>3, <2>2, <3>1 DEF Stored
  <2>4. CASE RefuseOrphan(a)
    <3>1. ~conversation
      BY <2>4 DEF RefuseOrphan, Orphaned
    <3> QED BY <2>2, <3>1, NoConversation DEF Stored
  <2>5. CASE Enrich(a)
    <3>1. queued' = queued \union Range(poll[a].fresh)
      BY <2>5 DEF Enrich
    <3>2. r \in queued \/ Owed(r)
      BY <1>2, <2>2 DEF Stored
    <3>3. ASSUME NEW b \in Address, poll[b].at \in {"commit", "enrich"}, r \in Range(poll[b].fresh)
          PROVE  r \in queued' \/ Owed(r)'
      <4>1. CASE b = a
        BY <3>1, <3>3, <4>1
      <4>2. CASE b # a
        BY <2>2, <3>3, <4>2 DEF Owed, Others
      <4> QED BY <4>1, <4>2
    <3> QED BY <3>1, <3>2, <3>3 DEF Owed
  <2>6. CASE StepFails(a)
    <3>1. spent'["error"] # 0
      BY <2>6, SpendDoes DEF StepFails, FaultKind, TypeInv
    <3> QED BY <3>1 DEF Never
  <2> QED BY <2>1, <2>3, <2>4, <2>5, <2>6 DEF Ends
<1>10. CASE \E a \in Address : UpsertHeader(a)
  <2>1. PICK a \in Address : UpsertHeader(a)
    BY <1>10
  <2>2. Others(a) /\ poll[a].at = "header" /\ UNCHANGED <<turns, queued>>
    BY <2>1, GoesDoes DEF UpsertHeader, TypeInv
  <2> QED BY <1>2, <1>3, <2>2 DEF Stored
<1>11. CASE \E a \in Address : View(a)
  <2>1. PICK a \in Address : View(a)
    BY <1>11
  <2>2. Others(a) /\ poll[a].at = "view" /\ UNCHANGED <<turns, queued>>
    BY <2>1, ViewDoes DEF View, TypeInv, store
  <2> QED BY <1>2, <1>3, <2>2 DEF Stored
<1>15. CASE \E a \in Address : NumberTurns(a)
  <2>1. PICK a \in Address : NumberTurns(a)
    BY <1>15
  <2>2. Others(a) /\ poll[a].at = "number" /\ UNCHANGED <<turns, queued>>
    BY <2>1, NumberTurnsDoes DEF NumberTurns, TypeInv, store
  <2> QED BY <1>2, <1>3, <2>2 DEF Stored
<1>12. CASE \E a \in Address : CommitPoll(a)
  <2>1. PICK a \in Address : CommitPoll(a)
    BY <1>12
  <2>2. Others(a) /\ poll'[a].at = "enrich" /\ poll'[a].fresh = poll[a].fresh
        /\ UNCHANGED <<turns, queued>>
    BY <2>1, CommitPollDoes DEF CommitPoll, TypeInv
  <2> QED BY <1>2, <1>3, <2>2 DEF Stored
<1>13. CASE \E a \in Address : AppendTurns(a)
  <2>1. PICK a \in Address : AppendTurns(a)
    BY <1>13
  <2>2. ~Disagrees(poll[a]) /\ Stored' = Stored \union Range(poll[a].fresh)
    BY <1>1, <2>1, NoDisagreement, AppendTurnsDoes
  <2>3. /\ Others(a) /\ poll'[a].at = "commit" /\ poll'[a].fresh = poll[a].fresh
        /\ poll[a].at = "append" /\ UNCHANGED queued
    BY <2>1, <2>2, GoesDoes DEF AppendTurns, TypeInv, SameLocals
  <2>4. CASE r \in Stored
    BY <1>2, <1>3, <2>3, <2>4
  <2>5. CASE r \in Range(poll[a].fresh)
    BY <2>3, <2>5 DEF Owed
  <2> QED BY <2>2, <2>4, <2>5
<1> QED BY <1>5, <1>6, <1>8, <1>9, <1>10, <1>11, <1>12, <1>13, <1>15, NextCases

-----------------------------------------------------------------------------
(* The cursor.                                                             *)

\* What the harness may do to a file that nothing truncates.
Grows(f, g) ==
  \/ /\ g.id = f.id
     /\ Len(f.lines) <= Len(g.lines)
     /\ \A i \in DOMAIN f.lines : i \in DOMAIN g.lines /\ g.lines[i] = f.lines[i]
     /\ \A i \in DOMAIN g.lines \ DOMAIN f.lines : g.lines[i] > written
  \/ /\ g.id > f.id
     /\ \A i \in DOMAIN g.lines : \E j \in DOMAIN f.lines : g.lines[i] = f.lines[j]

LEMMA FileGrows ==
  ASSUME TypeInv, [Next]_vars, Never({"truncate"})'
  PROVE  Grows(file, file')
<1>1. /\ file.lines \in Seq(Record) /\ Len(file.lines) \in Nat /\ written \in Nat
      /\ file.id \in Nat /\ file \in [id : 1..MaxFiles, lines : Seq(Record)]
  BY IngestAssumption DEF TypeInv, IngestTypeOK
<1>2. CASE UNCHANGED <<file, written>>
  BY <1>1, <1>2 DEF Grows
<1>3. CASE WriteRecord
  <2> DEFINE s == file.lines
             t == Append(s, written + 1)
  <2>1. file'.lines = t /\ file'.id = file.id
    BY <1>1, <1>3 DEF WriteRecord
  <2>2. /\ DOMAIN t = 1..Len(s) + 1 /\ Len(t) = Len(s) + 1
        /\ DOMAIN s = 1..Len(s)
        /\ \A i \in 1..Len(s) : t[i] = s[i]
        /\ t[Len(s) + 1] = written + 1
    BY <1>1
  <2> HIDE DEF t
  <2>3. \A i \in DOMAIN t \ DOMAIN s : t[i] > written
    BY <1>1, <2>2
  <2>4. Len(s) <= Len(t)
    BY <1>1, <2>2
  <2> QED BY <2>1, <2>2, <2>3, <2>4 DEF Grows
<1>4. CASE Rotate
  <2>1. PICK i \in 1..Len(file.lines) + 1, j \in 0..Len(file.lines) :
          file' = [id |-> file.id + 1, lines |-> SubSeq(file.lines, i, j)]
    BY <1>4 DEF Rotate
  <2>2. /\ DOMAIN SubSeq(file.lines, i, j) = 1..j - i + 1
        /\ \A k \in 1..j - i + 1 : /\ i + k - 1 \in DOMAIN file.lines
                                   /\ SubSeq(file.lines, i, j)[k] = file.lines[i + k - 1]
    BY <1>1, RunOf
  <2> DEFINE run == SubSeq(file.lines, i, j)
  <2>3. file'.lines = run /\ file'.id = file.id + 1
    BY <2>1
  <2>4. \A k \in DOMAIN run : run[k] = file.lines[i + k - 1] /\ i + k - 1 \in DOMAIN file.lines
    BY <2>2
  <2> HIDE DEF run
  <2>5. \A k \in DOMAIN file'.lines : \E m \in DOMAIN file.lines : file'.lines[k] = file.lines[m]
    BY <2>3, <2>4
  <2>6. file'.id > file.id
    BY <1>1, <2>3
  <2> QED BY <2>5, <2>6 DEF Grows
<1>5. CASE Truncate
  <2>1. spent'["truncate"] # 0
    BY <1>5, SpendDoes DEF Truncate, FaultKind, TypeInv
  <2> QED BY <2>1 DEF Never
<1> QED BY <1>2, <1>3, <1>4, <1>5, FileFrame

\* What was covered stays covered while nothing is removed.
LEMMA CoversKept ==
  ASSUME TypeInv, [Next]_vars, Never({"truncate"})', NEW c \in Cursor \union {NoCursor},
         NEW S, NEW T, S \subseteq T, Covers(file, c, S)
  PROVE  Covers(file', c, T)
<1>1. /\ Len(file.lines) \in Nat /\ file.id \in Nat /\ DOMAIN file.lines = 1..Len(file.lines)
      /\ Len(file'.lines) \in Nat /\ file'.id \in Nat
  BY FileTyped, IngestAssumption DEF TypeInv, IngestTypeOK
<1>2. Grows(file, file')
  BY FileGrows
<1> SUFFICES ASSUME c # NoCursor
             PROVE  /\ c.id <= file'.id
                    /\ c.id = file'.id => /\ c.offset <= Len(file'.lines)
                                          /\ \A i \in 1..c.offset : file'.lines[i] \in T
  BY DEF Covers
<1>3. /\ c.id \in Nat /\ c.offset \in Nat
      /\ c.id <= file.id /\ (c.id = file.id => /\ c.offset <= Len(file.lines)
                                               /\ \A i \in 1..c.offset : file.lines[i] \in S)
  BY IngestAssumption DEF Covers, Cursor
<1>4. CASE file'.id > file.id
  BY <1>1, <1>3, <1>4
<1>5. CASE ~(file'.id > file.id)
  <2>1. /\ file'.id = file.id /\ Len(file.lines) <= Len(file'.lines)
        /\ \A i \in DOMAIN file.lines : file'.lines[i] = file.lines[i]
    BY <1>2, <1>5 DEF Grows
  <2>2. ASSUME c.id = file.id, NEW i \in 1..c.offset PROVE file'.lines[i] \in T
    <3>1. i \in DOMAIN file.lines /\ file.lines[i] \in S
      BY <1>1, <1>3, <2>2
    <3> QED BY <2>1, <3>1
  <2> QED BY <1>1, <1>3, <2>1, <2>2
<1> QED BY <1>4, <1>5

\* So do the polls that a step leaves alone.
LEMMA CoveredKept ==
  ASSUME TypeInv, [Next]_vars, Never({"truncate"})', NEW a \in Address,
         Covered(file, poll[a], Stored, conversation),
         NEW S, Stored \subseteq S, NEW known, conversation => known
  PROVE  Covered(file', poll[a], S, known)
<1> DEFINE p == poll[a]
<1>1. /\ p.from \in Cursor \union {NoCursor} /\ p.upto \in Cursor \union {NoCursor}
      /\ p.due \in Nat /\ p.due <= written /\ written \in Nat
  BY PollTyped, IngestAssumption DEF TypeInv, LocalsFit, IngestTypeOK
<1>2. Covers(file', p.from, S)
  BY <1>1, CoversKept DEF Covered
<1>3. Covers(file', p.upto, S \union InHand(p))
  BY <1>1, CoversKept DEF Covered
<1>4. DueRead(file', p, S)
  <2> SUFFICES ASSUME p.at \in Reading \ {"load", "read"}, NEW i \in DOMAIN file'.lines,
                      file'.lines[i] <= p.due
               PROVE  file'.lines[i] \in S \union InHand(p)
    BY DEF DueRead
  <2>1. \A j \in DOMAIN file.lines : file.lines[j] <= p.due => file.lines[j] \in Stored \union InHand(p)
    BY DEF Covered, DueRead
  <2>2. file'.lines[i] \in Nat
    BY FileTyped, IngestAssumption DEF Record
  <2>3. PICK j \in DOMAIN file.lines : file'.lines[i] = file.lines[j]
    BY <1>1, <2>2, FileGrows DEF Grows
  <2> QED BY <2>1, <2>3
<1> QED BY <1>2, <1>3, <1>4 DEF Covered

\* Nothing stored is lost but to a removal.
LEMMA StoreGrows ==
  ASSUME TypeInv, [Next]_vars, Never({"remove"})'
  PROVE  Stored \subseteq Stored' /\ (conversation => conversation')
<1>1. CASE DeleteConversation
  <2>1. spent'["remove"] # 0
    BY <1>1, SpendDoes DEF DeleteConversation, FaultKind, TypeInv
  <2> QED BY <2>1 DEF Never
<1>2. CASE \E a \in Address : AppendTurns(a)
  <2>1. PICK a \in Address : AppendTurns(a)
    BY <1>2
  <2> QED BY <2>1, AppendTurnsDoes DEF AppendTurns
<1>3. CASE \E a \in Address : UpsertHeader(a) \/ CommitPoll(a)
  BY <1>3 DEF UpsertHeader, CommitPoll, Stored
<1>4. CASE UNCHANGED store
  BY <1>4 DEF store, Stored
<1> QED BY <1>1, <1>2, <1>3, <1>4, StoreFrame

\* What is read and what was stored are together all that the file has.
LEMMA AllRead ==
  ASSUME TypeInv, NEW a \in Address, Covers(file, poll[a].from, Stored)
  PROVE  \A i \in DOMAIN file.lines :
           file.lines[i] \in Stored \/ file.lines[i] \in Range(Unread(poll[a].from))
<1> DEFINE c == poll[a].from
<1>1. c \in Cursor \union {NoCursor}
  BY PollTyped DEF TypeInv
<1>2. Start(c) \in 0..Len(file.lines) /\ Len(file.lines) \in Nat
      /\ DOMAIN file.lines = 1..Len(file.lines)
  BY <1>1, StartFits DEF TypeInv, IngestTypeOK
<1>3. \A r : r \in Range(Unread(c)) <=> \E i \in Start(c) + 1..Len(file.lines) : file.lines[i] = r
  BY <1>1, UnreadIs
<1>4. \A i \in 1..Start(c) : file.lines[i] \in Stored
  <2>1. CASE Start(c) = 0
    BY <2>1
  <2>2. CASE Start(c) # 0
    <3>1. c # NoCursor /\ c.id = file.id /\ Start(c) = c.offset
      BY <2>2 DEF Start
    <3> QED BY <3>1 DEF Covers
  <2> QED BY <2>1, <2>2
<1> HIDE DEF c
<1>5. ASSUME NEW i \in DOMAIN file.lines PROVE i \in 1..Start(c) \/ i \in Start(c) + 1..Len(file.lines)
  BY <1>2
<1> QED BY <1>3, <1>4, <1>5 DEF c

LEMMA CursorStep ==
  ASSUME TypeInv, CursorInv, [Next]_vars
  PROVE  CursorInv'
<1> SUFFICES ASSUME Never({"remove", "truncate"})'
             PROVE  /\ Covers(file', cursor', Stored')
                    /\ DOMAIN ledger' \subseteq Stored'
                    /\ \A b \in Address : Covered(file', poll'[b], Stored', conversation')
  BY DEF CursorInv
<1>1. Never({"remove"})' /\ Never({"truncate"})' /\ Never({"remove", "truncate"})
  BY NeverBefore DEF FaultKind, TypeInv, Never
<1>2. /\ Covers(file, cursor, Stored)
      /\ DOMAIN ledger \subseteq Stored
      /\ \A b \in Address : Covered(file, poll[b], Stored, conversation)
  BY <1>1 DEF CursorInv
<1>3. Stored \subseteq Stored' /\ (conversation => conversation')
  BY <1>1, StoreGrows
<1>4. ASSUME NEW b \in Address, poll'[b] = poll[b]
      PROVE  Covered(file', poll'[b], Stored', conversation')
  <2>1. Covered(file', poll[b], Stored', conversation')
    BY <1>1, <1>2, <1>3, CoveredKept
  <2> QED BY <1>4, <2>1
<1>5. ASSUME NEW a \in Address, Others(a), UNCHANGED <<cursor, ledger>>,
             Covered(file', poll'[a], Stored', conversation')
      PROVE  /\ Covers(file', cursor', Stored')
             /\ DOMAIN ledger' \subseteq Stored'
             /\ \A b \in Address : Covered(file', poll'[b], Stored', conversation')
  <2>1. Covers(file', cursor, Stored')
    BY <1>1, <1>2, <1>3, CoversKept DEF TypeInv, IngestTypeOK
  <2> QED BY <1>2, <1>3, <1>4, <1>5, <2>1 DEF Others
<1>6. ASSUME NEW p, p = NoPoll PROVE Covered(file', p, Stored', conversation')
  BY <1>6 DEF Covered, Covers, DueRead, NoPoll, Reading
<1>7. CASE WriteRecord \/ Rotate \/ Truncate \/ Still \/ \E a \in Address : LoseLock(a)
  <2>1. UNCHANGED <<cursor, ledger, poll>>
    BY <1>7 DEF WriteRecord, Rotate, Truncate, Still, LoseLock, store
  <2>2. Covers(file', cursor, Stored')
    BY <1>1, <1>2, <1>3, CoversKept DEF TypeInv, IngestTypeOK
  <2> QED BY <1>2, <1>3, <1>4, <2>1, <2>2
<1>8. CASE DeleteConversation
  <2>1. spent'["remove"] # 0
    BY <1>8, SpendDoes DEF DeleteConversation, FaultKind, TypeInv
  <2> QED BY <1>1, <2>1 DEF Never
<1>9. CASE CrashAndBoot
  <2>1. UNCHANGED <<cursor, ledger>> /\ \A b \in Address : poll'[b] = NoPoll
    BY <1>9 DEF CrashAndBoot, store
  <2>2. Covers(file', cursor, Stored')
    BY <1>1, <1>2, <1>3, CoversKept DEF TypeInv, IngestTypeOK
  <2> QED BY <1>2, <1>3, <1>6, <2>1, <2>2
<1>10. CASE \E a \in Address : Ends(a)
  <2>1. PICK a \in Address : Ends(a)
    BY <1>10
  <2>2. Others(a) /\ poll'[a] = NoPoll /\ UNCHANGED <<cursor, ledger>>
    BY <2>1, EndsDoes DEF store
  <2> QED BY <1>5, <1>6, <2>2
<1>11. CASE \E a \in Address : Reads(a)
  <2>1. PICK a \in Address : Reads(a)
    BY <1>11
  <2> DEFINE p == poll[a]
             q == poll'[a]
  <2>2. Others(a) /\ UNCHANGED <<file, written, store>> /\ q.fresh = <<>>
    BY <2>1, ReadsDoes
  <2>3. /\ Covered(file, p, Stored, conversation)
        /\ p.upto # NoCursor <=> p.at \in {"header", "view", "number", "append", "commit"}
        /\ p.from # NoCursor => p.at = "read"
        /\ p.batch # <<>> => p.at \in {"header", "view"}
    BY <1>2 DEF TypeInv, LocalsFit
  <2>4. Stored' = Stored /\ conversation' = conversation /\ file' = file
    BY <2>2 DEF Stored, store
  <2>5. ASSUME q.from = NoCursor \/ q.from = cursor, q.upto = NoCursor,
               q.at \in {"lock", "load", "read"}
        PROVE  Covered(file, q, Stored, conversation)
    <3>1. cursor # NoCursor => conversation
      BY DEF TypeInv, IngestTypeOK
    <3> QED BY <1>2, <2>5, <3>1 DEF Covered, Covers, DueRead, Reading
  <2>6. ASSUME Claim(a) PROVE Covered(file, q, Stored, conversation)
    BY <2>1, <2>5, <2>6, ClaimDoes DEF TypeInv
  <2>7. ASSUME TakeLock(a) PROVE Covered(file, q, Stored, conversation)
    BY <2>3, <2>5, <2>7, GoesDoes DEF TypeInv, TakeLock, SameLocals
  <2>8. ASSUME LoadCursor(a) PROVE Covered(file, q, Stored, conversation)
    BY <2>3, <2>5, <2>8, LoadCursorDoes DEF TypeInv, LoadCursor
  <2>9. ASSUME ReadRecords(a) \/ ReadNothing(a) PROVE Covered(file, q, Stored, conversation)
    <3>1. /\ q.from = NoCursor /\ q.upto = End /\ q.batch = Unread(p.from) /\ q.at \in {"header", "view"}
      <4>1. CASE ReadRecords(a)
        BY <4>1, ReadRecordsDoes DEF TypeInv
      <4>2. CASE ReadNothing(a)
        BY <2>3, <4>2, ReadNothingDoes DEF TypeInv, ReadNothing
      <4> QED BY <2>9, <4>1, <4>2
    <3>2. \A i \in DOMAIN file.lines : file.lines[i] \in Stored \union InHand(q)
      BY <2>3, <3>1, AllRead DEF Covered, InHand
    <3>3. Covers(file, End, Stored \union InHand(q))
      <4>1. Len(file.lines) \in Nat /\ file.id \in Nat /\ DOMAIN file.lines = 1..Len(file.lines)
        BY IngestAssumption DEF TypeInv, IngestTypeOK
      <4> QED BY <3>2, <4>1, EndTyped DEF Covers
    <3> QED BY <3>1, <3>2, <3>3 DEF Covered, Covers, DueRead
  <2>10. Covered(file, q, Stored, conversation)
    BY <2>1, <2>6, <2>7, <2>8, <2>9 DEF Reads
  <2> QED BY <1>5, <2>2, <2>4, <2>10 DEF store
<1>12. CASE \E a \in Address : UpsertHeader(a)
  <2>1. PICK a \in Address : UpsertHeader(a)
    BY <1>12
  <2>2. /\ Others(a) /\ poll[a].at = "header" /\ poll'[a].at = "view" /\ SameLocals(poll[a], poll'[a])
        /\ UNCHANGED <<file, turns, cursor, ledger>>
    BY <2>1, GoesDoes DEF TypeInv, UpsertHeader
  <2>3. Covered(file', poll[a], Stored', conversation')
    BY <1>1, <1>2, <1>3, CoveredKept
  <2>4. Covered(file', poll'[a], Stored', conversation')
    BY <2>2, <2>3 DEF Covered, DueRead, InHand, SameLocals, Reading, Step
  <2> QED BY <1>5, <2>2, <2>4
<1>13. CASE \E a \in Address : View(a)
  <2>1. PICK a \in Address : View(a)
    BY <1>13
  <2>2. /\ Others(a) /\ poll[a].at = "view" /\ poll'[a].at = "number" /\ poll'[a].due = poll[a].due
        /\ poll'[a].from = poll[a].from /\ poll'[a].upto = poll[a].upto
        /\ poll'[a].batch = <<>> /\ poll'[a].fresh = Unledgered(poll[a].batch)
        /\ UNCHANGED <<file, turns, cursor, ledger, conversation>>
    BY <2>1, ViewDoes DEF TypeInv, View, store
  <2>3. Stored \union InHand(poll[a]) \subseteq Stored \union InHand(poll'[a])
    <3>1. Range(Unledgered(poll[a].batch)) = Range(poll[a].batch) \ DOMAIN ledger
      BY UnledgeredTyped, PollTyped DEF TypeInv
    <3>2. poll[a].fresh = <<>> /\ \A r : r \notin Range(<<>>)
      BY <2>2 DEF TypeInv, LocalsFit, Range
    <3> QED BY <1>2, <2>2, <3>1, <3>2 DEF InHand
  <2>4. Covered(file, poll[a], Stored, conversation)
    BY <1>2
  <2>5. Covers(file, poll[a].upto, Stored \union InHand(poll'[a]))
    BY <2>3, <2>4 DEF Covered, Covers
  <2>6. Covered(file, poll'[a], Stored, conversation)
    BY <2>2, <2>3, <2>4, <2>5 DEF Covered, DueRead, Reading, Step
  <2> QED BY <1>5, <2>2, <2>6 DEF Stored
<1>16. CASE \E a \in Address : NumberTurns(a)
  <2>1. PICK a \in Address : NumberTurns(a)
    BY <1>16
  <2>2. /\ Others(a) /\ poll[a].at = "number" /\ poll'[a].at = "append" /\ poll'[a].due = poll[a].due
        /\ poll'[a].from = poll[a].from /\ poll'[a].upto = poll[a].upto
        /\ poll'[a].batch = poll[a].batch /\ poll'[a].fresh = poll[a].fresh
        /\ UNCHANGED <<file, turns, cursor, ledger, conversation>>
    BY <2>1, NumberTurnsDoes DEF TypeInv, NumberTurns, store
  <2>3. Covered(file, poll[a], Stored, conversation)
    BY <1>2
  <2>4. Covered(file, poll'[a], Stored, conversation)
    BY <2>2, <2>3 DEF Covered, DueRead, InHand, Reading, Step
  <2> QED BY <1>5, <2>2, <2>4 DEF Stored
<1>14. CASE \E a \in Address : AppendTurns(a)
  <2>1. PICK a \in Address : AppendTurns(a)
    BY <1>14
  <2>2. poll[a].at = "append" /\ UNCHANGED <<file, cursor, ledger, conversation>>
    BY <2>1 DEF AppendTurns
  <2>3. CASE Settle(a, Final)
    BY <1>5, <1>6, <2>2, <2>3, SettleDoes DEF TypeInv
  <2>4. CASE Goes(a, "commit") /\ ~Disagrees(poll[a])
    <3>1. Others(a) /\ poll'[a].at = "commit" /\ SameLocals(poll[a], poll'[a])
      BY <2>4, GoesDoes DEF TypeInv
    <3>2. Range(poll[a].fresh) \subseteq Stored'
      BY <2>1, <2>4, AppendTurnsDoes
    <3>3. Covered(file', poll[a], Stored', conversation')
      BY <1>1, <1>2, <1>3, CoveredKept
    <3>4. Covered(file', poll'[a], Stored', conversation')
      BY <2>2, <3>1, <3>2, <3>3 DEF Covered, DueRead, InHand, SameLocals, Reading, Step
    <3> QED BY <1>5, <2>2, <3>1, <3>4
  <2> QED BY <2>1, <2>3, <2>4 DEF AppendTurns
<1>15. CASE \E a \in Address : CommitPoll(a)
  <2>1. PICK a \in Address : CommitPoll(a)
    BY <1>15
  <2>2. /\ Others(a) /\ poll[a].at = "commit" /\ poll'[a].at = "enrich" /\ poll'[a].due = poll[a].due
        /\ poll'[a].from = poll[a].from /\ poll'[a].upto = NoCursor
        /\ poll'[a].batch = poll[a].batch /\ poll'[a].fresh = poll[a].fresh
        /\ UNCHANGED <<file, turns, conversation>> /\ cursor' = poll[a].upto
    BY <2>1, CommitPollDoes DEF TypeInv, CommitPoll
  <2>3. Covered(file, poll[a], Stored, conversation)
    BY <1>2
  <2>4. Stored \union InHand(poll[a]) = Stored
    <3>1. poll[a].batch = <<>> /\ \A r : r \notin Range(<<>>)
      BY <2>2 DEF TypeInv, LocalsFit, Range
    <3> QED BY <2>2, <2>3, <3>1 DEF Covered, InHand
  <2>5. Covers(file', cursor', Stored')
    BY <2>2, <2>3, <2>4 DEF Covered, Stored
  <2>6. DOMAIN ledger' \subseteq Stored'
    <3>1. DOMAIN ledger' = DOMAIN ledger \union Range(poll[a].fresh)
      BY <2>1, CommitLedgers
    <3> QED BY <1>2, <2>2, <2>3, <3>1 DEF Covered, Stored
  <2>7. Covered(file, poll'[a], Stored, conversation)
    BY <2>2, <2>3 DEF Covered, Covers, DueRead, InHand, Reading, Step
  <2> QED BY <1>4, <2>2, <2>5, <2>6, <2>7 DEF Others, Stored
<1> QED
  BY <1>7, <1>8, <1>9, <1>10, <1>11, <1>12, <1>13, <1>14, <1>15, <1>16, NextCases

-----------------------------------------------------------------------------
(* The order of the turns.                                                 *)

\* What continues S still does when the harness writes or rotates.
LEMMA ContinuesKept ==
  ASSUME TypeInv, [Next]_vars, Never({"truncate"})', NEW S, S \subseteq Nat,
         \A r \in S : r <= written, Continues(file, S)
  PROVE  Continues(file', S)
<1>1. Grows(file, file')
  BY FileGrows
<1>2. /\ \A i \in DOMAIN file'.lines : file'.lines[i] \in Nat
      /\ \A i \in DOMAIN file.lines : file.lines[i] \in Nat
      /\ written \in Nat
  <2>1. file'.lines \in Seq(Record) /\ file.lines \in Seq(Record) /\ written \in Nat
    BY FileTyped, IngestAssumption DEF TypeInv, IngestTypeOK
  <2>2. /\ \A i \in DOMAIN file'.lines : file'.lines[i] \in Record
        /\ \A i \in DOMAIN file.lines : file.lines[i] \in Record
    BY <2>1
  <2> QED BY <2>1, <2>2, IngestAssumption DEF Record
<1>3. ASSUME NEW i \in DOMAIN file'.lines
      PROVE  \/ \E j \in DOMAIN file.lines : file'.lines[i] = file.lines[j]
             \/ file'.lines[i] > written
  BY <1>1 DEF Grows
<1>4. ASSUME NEW i \in DOMAIN file'.lines PROVE file'.lines[i] \in S \/ Above(file'.lines[i], S)
  <2>1. CASE \E j \in DOMAIN file.lines : file'.lines[i] = file.lines[j]
    BY <2>1 DEF Continues
  <2>2. CASE file'.lines[i] > written
    <3>1. \A r \in S : r \in Nat /\ r <= written
      OBVIOUS
    <3> QED BY <1>2, <2>2, <3>1 DEF Above
  <2> QED BY <1>3, <2>1, <2>2
<1> QED BY <1>4 DEF Continues

LEMMA NumbersTyped ==
  ASSUME TypeInv
  PROVE  /\ Stored \subseteq Nat /\ \A r \in Stored : r <= written
         /\ \A a \in Address : InHand(poll[a]) \subseteq Nat /\ \A r \in InHand(poll[a]) : r <= written
<1>1. Stored \subseteq Nat /\ \A r \in Stored : r <= written
  BY IngestAssumption DEF TypeInv, IngestTypeOK, LinesFit, Record
<1>2. ASSUME NEW a \in Address PROVE InHand(poll[a]) \subseteq Nat
  <2>1. poll[a].batch \in Seq(Record) /\ poll[a].fresh \in Seq(Record)
    BY PollTyped DEF TypeInv
  <2>2. Range(poll[a].batch) \subseteq Record /\ Range(poll[a].fresh) \subseteq Record
    BY <2>1, RangeTyped
  <2> QED BY <2>2, IngestAssumption DEF InHand, Record
<1>3. \A a \in Address : \A r \in InHand(poll[a]) : r <= written
  BY DEF TypeInv, LocalsFit
<1> QED BY <1>1, <1>2, <1>3

LEMMA OrderedKept ==
  ASSUME TypeInv, [Next]_vars, Never({"truncate"})', NEW a \in Address,
         Ordered(file, poll[a], Stored)
  PROVE  Ordered(file', poll[a], Stored)
<1>1. Stored \union InHand(poll[a]) \subseteq Nat /\ \A r \in Stored \union InHand(poll[a]) : r <= written
  BY NumbersTyped
<1>2. Continues(file, Stored \union InHand(poll[a])) => Continues(file', Stored \union InHand(poll[a]))
  BY <1>1, ContinuesKept
<1> QED BY <1>2 DEF Ordered

LEMMA OrderStep ==
  ASSUME TypeInv, LockHeld, NumbersFree, CursorInv, OrderInv, [Next]_vars
  PROVE  OrderInv'
<1> SUFFICES ASSUME ~torn', Never({"lock_lost", "remove", "truncate"})'
             PROVE  /\ TurnsAscend'
                    /\ Continues(file', Stored')
                    /\ \A r \in Stored' : r \in DOMAIN ledger' \/ Uncommitted(r)'
                    /\ \A b \in Address : Ordered(file', poll'[b], Stored')
  BY DEF OrderInv
<1>1. /\ Never({"truncate"})' /\ Never({"remove"})'
      /\ Never({"lock_lost", "remove", "truncate"}) /\ Never({"lock_lost"})
      /\ Never({"remove", "truncate"})
  BY NeverBefore DEF FaultKind, TypeInv, Never
<1>2. ~torn
  BY TornFrame DEF CrashAndBoot, StepFails
<1>3. /\ TurnsAscend
      /\ Continues(file, Stored)
      /\ \A r \in Stored : r \in DOMAIN ledger \/ Uncommitted(r)
      /\ \A b \in Address : Ordered(file, poll[b], Stored)
      /\ DOMAIN ledger \subseteq Stored
      /\ \A b \in Address : Covered(file, poll[b], Stored, conversation)
  BY <1>1, <1>2 DEF OrderInv, CursorInv
<1>4. ASSUME NEW b \in Address, poll'[b] = poll[b], Stored' = Stored
      PROVE  Ordered(file', poll'[b], Stored')
  <2>1. Ordered(file', poll[b], Stored)
    BY <1>1, <1>3, OrderedKept
  <2> QED BY <1>4, <2>1
<1>5. Continues(file', Stored)
  BY <1>1, <1>3, NumbersTyped, ContinuesKept
<1>6. ASSUME NEW p, p.at \notin {"header", "view", "number", "append"}, p.batch = <<>>, p.fresh = <<>>
      PROVE  Ordered(file', p, Stored')
  BY <1>6 DEF Ordered, Increasing
<1>7. ASSUME NEW a \in Address, Others(a), UNCHANGED turns,
             Ordered(file', poll'[a], Stored'),
             \A r : r \in DOMAIN ledger \/ Uncommitted(r) => r \in DOMAIN ledger' \/ Uncommitted(r)'
      PROVE  /\ TurnsAscend'
             /\ Continues(file', Stored')
             /\ \A r \in Stored' : r \in DOMAIN ledger' \/ Uncommitted(r)'
             /\ \A b \in Address : Ordered(file', poll'[b], Stored')
  <2>1. Stored' = Stored
    BY <1>7 DEF Stored
  <2> QED BY <1>3, <1>4, <1>5, <1>7, <2>1 DEF TurnsAscend, Others
<1>8. ASSUME NEW a \in Address, Others(a), UNCHANGED ledger,
             poll[a].at # "commit" \/ poll[a].fresh = <<>>
      PROVE  \A r : r \in DOMAIN ledger \/ Uncommitted(r) => r \in DOMAIN ledger' \/ Uncommitted(r)'
  <2>1. \A r : r \notin Range(<<>>)
    BY DEF Range
  <2> QED BY <1>8, <2>1 DEF Uncommitted, Others
<1>9. CASE WriteRecord \/ Rotate \/ Truncate \/ Still \/ \E a \in Address : LoseLock(a)
  <2>1. UNCHANGED <<turns, ledger, poll>>
    BY <1>9 DEF WriteRecord, Rotate, Truncate, Still, LoseLock, store
  <2>2. Stored' = Stored /\ TurnsAscend' /\ \A r : Uncommitted(r) => Uncommitted(r)'
    BY <1>3, <2>1 DEF Stored, TurnsAscend, Uncommitted
  <2> QED BY <1>3, <1>4, <1>5, <2>1, <2>2
<1>10. CASE DeleteConversation
  <2>1. spent'["remove"] # 0
    BY <1>10, SpendDoes DEF DeleteConversation, FaultKind, TypeInv
  <2> QED BY <1>1, <2>1 DEF Never
<1>11. CASE CrashAndBoot
  <2>1. UNCHANGED <<turns, ledger>> /\ \A b \in Address : poll'[b] = NoPoll /\ ~Appending(b)
    BY <1>11 DEF CrashAndBoot, store
  <2>2. Stored' = Stored /\ TurnsAscend'
    BY <1>3, <2>1 DEF Stored, TurnsAscend
  <2>3. \A r : ~Uncommitted(r)
    BY <2>1 DEF Uncommitted, Appending, Range
  <2>4. \A b \in Address : Ordered(file', poll'[b], Stored')
    BY <1>6, <2>1 DEF NoPoll
  <2> QED BY <1>3, <1>5, <2>1, <2>2, <2>3, <2>4
<1>12. CASE \E a \in Address : Ends(a)
  <2>1. PICK a \in Address : Ends(a)
    BY <1>12
  <2>2. /\ Others(a) /\ poll'[a] = NoPoll /\ UNCHANGED <<turns, ledger>>
        /\ poll[a].at = "commit" /\ poll[a].fresh # <<>> => ~conversation
    BY <2>1, EndsDoes DEF store
  <2>3. Ordered(file', poll'[a], Stored')
    BY <1>6, <2>2 DEF NoPoll
  <2>4. CASE conversation
    BY <1>7, <1>8, <2>2, <2>3, <2>4
  <2>5. CASE ~conversation
    <3>1. Stored' = Stored /\ Stored = {} /\ TurnsAscend'
      BY <1>3, <2>2, <2>5, NoConversation DEF Stored, TurnsAscend
    <3> QED BY <1>4, <1>5, <2>2, <2>3, <3>1 DEF Others
  <2> QED BY <2>4, <2>5
<1>13. CASE \E a \in Address : Reads(a)
  <2>1. PICK a \in Address : Reads(a)
    BY <1>13
  <2> DEFINE p == poll[a]
             q == poll'[a]
  <2>2. /\ Others(a) /\ UNCHANGED <<file, written, store>> /\ q.fresh = <<>>
        /\ p.at \in {"idle", "lock", "load", "read"}
    BY <2>1, ReadsDoes
  <2>3. p.batch = <<>> /\ p.fresh = <<>>
    BY <2>2 DEF TypeInv, LocalsFit
  <2>4. Stored' = Stored /\ file' = file
    BY <2>2 DEF Stored, store
  <2>5. ASSUME Claim(a) \/ TakeLock(a) \/ LoadCursor(a) PROVE Ordered(file', q, Stored')
    <3>1. q.batch = <<>> /\ q.at \notin {"header", "view", "number", "append"}
      BY <2>3, <2>5, ClaimDoes, GoesDoes, LoadCursorDoes DEF TakeLock, SameLocals, TypeInv
    <3> QED BY <1>6, <2>2, <3>1
  <2>6. ASSUME ReadRecords(a) \/ ReadNothing(a) PROVE Ordered(file', q, Stored')
    <3>1. q.batch = Unread(p.from) /\ q.at \in {"header", "view"}
      <4>1. CASE ReadRecords(a)
        BY <4>1, ReadRecordsDoes DEF TypeInv
      <4>2. CASE ReadNothing(a)
        BY <2>3, <4>2, ReadNothingDoes DEF TypeInv, ReadNothing
      <4> QED BY <2>6, <4>1, <4>2
    <3>2. Continues(file, Stored \union InHand(q))
      BY <1>3, <3>1, AllRead DEF Covered, InHand, Continues
    <3>3. \A r \in Range(q.batch) : r \in Stored \/ Above(r, Stored)
      <4>1. p.from \in Cursor \union {NoCursor}
        BY PollTyped DEF TypeInv
      <4>2. Start(p.from) \in 0..Len(file.lines) /\ DOMAIN file.lines = 1..Len(file.lines)
        BY <4>1, StartFits DEF TypeInv, IngestTypeOK
      <4>3. \A r : r \in Range(Unread(p.from))
                     <=> \E i \in Start(p.from) + 1..Len(file.lines) : file.lines[i] = r
        BY <4>1, UnreadIs
      <4>4. \A i \in Start(p.from) + 1..Len(file.lines) : i \in DOMAIN file.lines
        BY <4>2
      <4> QED BY <1>3, <3>1, <4>3, <4>4 DEF Continues
    <3>4. Increasing(q.batch) /\ Increasing(q.fresh)
      <4>1. Increasing(Unread(p.from))
        BY UnreadIs, PollTyped DEF TypeInv
      <4> QED BY <2>2, <3>1, <4>1 DEF Increasing
    <3> QED BY <2>4, <3>1, <3>2, <3>3, <3>4 DEF Ordered
  <2>7. Ordered(file', q, Stored')
    BY <2>1, <2>5, <2>6 DEF Reads
  <2> QED BY <1>7, <1>8, <2>2, <2>3, <2>7 DEF store
<1>14. CASE \E a \in Address : UpsertHeader(a)
  <2>1. PICK a \in Address : UpsertHeader(a)
    BY <1>14
  <2>2. /\ Others(a) /\ poll[a].at = "header" /\ poll'[a].at = "view" /\ SameLocals(poll[a], poll'[a])
        /\ UNCHANGED <<file, turns, ledger>>
    BY <2>1, GoesDoes DEF TypeInv, UpsertHeader
  <2>3. Ordered(file, poll'[a], Stored)
    BY <1>3, <2>2 DEF Ordered, InHand, SameLocals
  <2> QED BY <1>7, <1>8, <2>2, <2>3 DEF Stored
<1>15. CASE \E a \in Address : View(a)
  <2>1. PICK a \in Address : View(a)
    BY <1>15
  <2> DEFINE p == poll[a]
             q == poll'[a]
  <2>2. /\ Others(a) /\ p.at = "view" /\ q.at = "number"
        /\ q.batch = <<>> /\ q.fresh = Unledgered(p.batch)
        /\ UNCHANGED <<file, turns, ledger>>
    BY <2>1, ViewDoes DEF TypeInv, View, store
  <2>3. /\ Range(q.fresh) = Range(p.batch) \ DOMAIN ledger
        /\ Increasing(p.batch) => Increasing(q.fresh)
    BY <2>2, UnledgeredTyped, PollTyped DEF TypeInv
  <2>4. p.fresh = <<>> /\ Range(<<>>) = {}
    BY <2>2 DEF TypeInv, LocalsFit, Range
  <2>5. Stored \union InHand(q) = Stored \union InHand(p)
    BY <1>3, <2>2, <2>3, <2>4 DEF InHand
  <2>6. \A r \in Range(q.fresh) : Above(r, Stored)
    <3>1. \A r : ~Uncommitted(r)
      <4>1. \A c \in Address : poll[c].at # "commit"
        BY <1>1, <2>2, OneReads, AtReading
      <4> QED BY <4>1 DEF Uncommitted
    <3>2. \A r \in Range(q.fresh) : r \in Range(p.batch) /\ r \notin Stored
      BY <1>3, <2>3, <3>1
    <3> QED BY <1>3, <2>2, <3>2 DEF Ordered
  <2>7. Increasing(q.batch) /\ Increasing(q.fresh)
    <3>1. Increasing(<<>>)
      BY DEF Increasing
    <3>2. Increasing(p.batch)
      BY <1>3 DEF Ordered
    <3> QED BY <2>2, <2>3, <3>1, <3>2
  <2>8. Ordered(file, q, Stored)
    BY <1>3, <2>2, <2>5, <2>6, <2>7 DEF Ordered
  <2> QED BY <1>7, <1>8, <2>2, <2>8 DEF Stored
<1>18. CASE \E a \in Address : NumberTurns(a)
  <2>1. PICK a \in Address : NumberTurns(a)
    BY <1>18
  <2>2. /\ Others(a) /\ poll[a].at = "number" /\ poll'[a].at = "append"
        /\ poll'[a].batch = poll[a].batch /\ poll'[a].fresh = poll[a].fresh
        /\ UNCHANGED <<file, turns, ledger>>
    BY <2>1, NumberTurnsDoes DEF TypeInv, NumberTurns, store
  <2>3. Ordered(file, poll'[a], Stored)
    BY <1>3, <2>2 DEF Ordered, InHand
  <2> QED BY <1>7, <1>8, <2>2, <2>3 DEF Stored
<1>16. CASE \E a \in Address : CommitPoll(a)
  <2>1. PICK a \in Address : CommitPoll(a)
    BY <1>16
  <2>2. /\ Others(a) /\ poll[a].at = "commit" /\ poll'[a].at = "enrich"
        /\ poll'[a].batch = poll[a].batch /\ poll'[a].fresh = poll[a].fresh
        /\ UNCHANGED <<file, turns>>
    BY <2>1, CommitPollDoes DEF TypeInv, CommitPoll
  <2>3. DOMAIN ledger' = DOMAIN ledger \union Range(poll[a].fresh)
    BY <2>1, CommitLedgers
  <2>4. Ordered(file, poll'[a], Stored)
    BY <1>3, <2>2 DEF Ordered
  <2>5. \A r : r \in DOMAIN ledger \/ Uncommitted(r) => r \in DOMAIN ledger' \/ Uncommitted(r)'
    BY <2>2, <2>3 DEF Uncommitted, Others
  <2> QED BY <1>7, <2>2, <2>4, <2>5 DEF Stored
<1>17. CASE \E a \in Address : AppendTurns(a)
  <2>1. PICK a \in Address : AppendTurns(a)
    BY <1>17
  <2> DEFINE p == poll[a]
  <2>2. /\ ~Disagrees(p) /\ \A n \in DOMAIN turns : n < p.first
    BY <1>1, <2>1, NoDisagreement
  <2>3. /\ Others(a) /\ p.at = "append" /\ poll'[a].at = "commit" /\ SameLocals(p, poll'[a])
        /\ UNCHANGED <<file, ledger>>
    BY <2>1, <2>2, GoesDoes DEF AppendTurns, TypeInv
  <2>4. /\ DOMAIN turns' = DOMAIN turns \union Numbers(p)
        /\ \A n \in DOMAIN turns : turns'[n] = turns[n]
        /\ \A n \in Numbers(p) \ DOMAIN turns :
             /\ n - p.first + 1 \in DOMAIN p.fresh
             /\ turns'[n] = p.fresh[n - p.first + 1]
        /\ Stored' = Stored \union Range(p.fresh)
    BY <2>1, <2>2, AppendTurnsDoes
  <2>5. /\ p.first \in Nat /\ DOMAIN turns \subseteq Nat /\ p.fresh \in Seq(Record)
        /\ Len(p.fresh) \in Nat
    BY PollTyped DEF TypeInv, IngestTypeOK, TurnNo
  <2>6. /\ Increasing(p.batch) /\ Increasing(p.fresh)
        /\ \A r \in Range(p.fresh) : Above(r, Stored)
        /\ Continues(file, Stored \union InHand(p))
    BY <1>3, <2>3 DEF Ordered
  <2>7. TurnsAscend'
    <3> SUFFICES ASSUME NEW m \in DOMAIN turns', NEW n \in DOMAIN turns', m < n
                 PROVE  turns'[m] < turns'[n]
      BY DEF TurnsAscend
    <3> HIDE DEF p
    <3>1. \A k \in Numbers(p) : k \in Nat /\ k >= p.first /\ k \notin DOMAIN turns
      BY <2>2, <2>5 DEF Numbers, Disagrees
    <3>2. CASE m \in DOMAIN turns /\ n \in DOMAIN turns
      BY <1>3, <2>4, <3>2 DEF TurnsAscend
    <3>3. CASE m \in DOMAIN turns /\ n \in Numbers(p)
      <4>1. turns'[n] \in Range(p.fresh)
        BY <2>4, <3>1, <3>3 DEF Range
      <4>2. turns'[m] \in Stored
        BY <2>4, <3>3 DEF Stored
      <4> QED BY <2>6, <4>1, <4>2 DEF Above
    <3>4. CASE m \in Numbers(p) /\ n \in DOMAIN turns
      <4>1. n < p.first /\ m >= p.first /\ n \in Nat /\ m \in Nat
        BY <2>2, <2>5, <3>1, <3>4
      <4> QED BY <2>5, <4>1
    <3>5. CASE m \in Numbers(p) /\ n \in Numbers(p)
      <4>1. PICK i, j : i = m - p.first + 1 /\ j = n - p.first + 1
        OBVIOUS
      <4>2. i < j
        BY <2>5, <3>1, <3>5, <4>1
      <4>3. /\ i \in DOMAIN p.fresh /\ turns'[m] = p.fresh[i]
            /\ j \in DOMAIN p.fresh /\ turns'[n] = p.fresh[j]
        BY <2>4, <3>1, <3>5, <4>1
      <4> QED BY <2>6, <4>2, <4>3 DEF Increasing
    <3> QED BY <2>4, <3>2, <3>3, <3>4, <3>5
  <2>8. Continues(file', Stored')
    <3>1. p.batch = <<>> /\ Range(<<>>) = {}
      BY <2>3 DEF TypeInv, LocalsFit, Range
    <3>2. Stored' = Stored \union InHand(p)
      BY <2>4, <3>1 DEF InHand
    <3> QED BY <2>3, <2>6, <3>2
  <2>9. \A r \in Stored' : r \in DOMAIN ledger' \/ Uncommitted(r)'
    <3>1. \A r \in Range(p.fresh) : Uncommitted(r)'
      BY <2>3 DEF Uncommitted, SameLocals
    <3>2. \A r \in Stored : r \in DOMAIN ledger' \/ Uncommitted(r)'
      BY <1>3, <1>8, <2>3
    <3> QED BY <2>4, <3>1, <3>2
  <2>10. ASSUME NEW b \in Address PROVE Ordered(file', poll'[b], Stored')
    <3>1. CASE b = a
      BY <2>3, <2>6, <3>1 DEF Ordered, SameLocals
    <3>2. CASE b # a
      <4>1. poll'[b] = poll[b] /\ poll[b].at \notin Reading
        BY <1>1, <2>3, <3>2, OneReads, AtReading DEF Others
      <4>2. poll[b].batch = <<>> /\ poll[b].fresh = <<>>
        BY <4>1, AtReading DEF TypeInv, LocalsFit
      <4> QED BY <1>6, <4>1, <4>2, AtReading
    <3> QED BY <3>1, <3>2
  <2> QED BY <2>7, <2>8, <2>9, <2>10
<1> QED
  BY <1>9, <1>10, <1>11, <1>12, <1>13, <1>14, <1>15, <1>16, <1>17, <1>18, NextCases

-----------------------------------------------------------------------------
(* The theorems.                                                           *)

LEMMA InitInv == Init => IInv
<1> SUFFICES ASSUME Init PROVE IInv
  OBVIOUS
<1> USE DEF Init
<1>1. Stored = {} /\ DOMAIN turns = {} /\ DOMAIN ledger = {}
  BY DEF Stored, Empty
<1>2. TypeInv
  <2>1. NoPoll \in Poll
    BY IngestAssumption DEF NoPoll, Poll, Step
  <2>2. file \in [id : 1..MaxFiles, lines : Seq(Record)] /\ written \in 0..MaxRecords
    BY IngestAssumption
  <2>3. poll \in [Address -> Poll]
    BY <2>1
  <2>4. IngestTypeOK
    BY <1>1, <2>2, <2>3, IngestAssumption DEF IngestTypeOK
  <2>5. LinesFit
    BY <1>1 DEF LinesFit, Increasing, Bounded
  <2>6. LocalsFit /\ PollsRun
    BY DEF LocalsFit, PollsRun, NoPoll, InHand, Range
  <2> QED BY <2>4, <2>5, <2>6 DEF TypeInv
<1>3. LockHeld
  BY DEF LockHeld, NoPoll, Reading
<1>4. LedgerInv /\ NumbersFree /\ EnrichInv
  BY <1>1 DEF LedgerInv, Dense, NumbersFollow, Numbered, NumbersFree, EnrichInv, NoPoll
<1>5. CursorInv
  <2>1. Covers(file, cursor, Stored) /\ DOMAIN ledger \subseteq Stored
    BY <1>1 DEF Covers
  <2>2. \A a \in Address : Covered(file, poll[a], Stored, conversation)
    BY DEF Covered, Covers, DueRead, NoPoll, Reading
  <2> QED BY <2>1, <2>2 DEF CursorInv
<1>6. OrderInv
  BY <1>1 DEF OrderInv, TurnsAscend, Continues, Ordered, Increasing, NoPoll
<1> QED BY <1>2, <1>3, <1>4, <1>5, <1>6 DEF IInv

LEMMA NextInv == IInv /\ [Next]_vars => IInv'
BY TypeStep, LockStep, LedgerStep, NumbersFreeStep, EnrichStep, CursorStep, OrderStep DEF IInv

\* The inductive invariant holds: for any number of keys, records and files,
\* any faults, and no bound on their number but the constants'.
THEOREM Invariance == Spec => []IInv
BY InitInv, NextInv, PTL DEF Spec

\* The rows of the store and the locals of the polls stay what their columns
\* and types allow.
THEOREM IngestTypeCorrect == Spec => []IngestTypeOK
<1>1. IInv => IngestTypeOK
  BY DEF IInv, TypeInv
<1> QED BY <1>1, Invariance, PTL

\* While no poll dies between its append and its commit, the turns are the
\* records in the order they were written, each once.
THEOREM TurnsInOrderOnce == Spec => []InOrderOnce
<1>1. IInv => InOrderOnce
  BY DEF IInv, OrderInv, InOrderOnce, TurnsAscend
<1> QED BY <1>1, Invariance, PTL

\* The cursor never passes a record that is not stored, whatever crashes,
\* fails, rotates or loses its lock.
THEOREM CursorNeverAhead == Spec => []CursorTrails
<1>1. IInv => CursorTrails
  <2> SUFFICES ASSUME IInv, Never({"remove", "truncate"}), cursor # NoCursor, cursor.id = file.id,
                      NEW i \in 1..Len(file.lines), i <= cursor.offset
               PROVE  file.lines[i] \in Stored
    BY DEF CursorTrails, NothingSkipped
  <2>1. Covers(file, cursor, Stored)
    BY DEF IInv, CursorInv
  <2>2. cursor.offset \in Nat
    BY DEF IInv, TypeInv, IngestTypeOK, Cursor
  <2>3. i \in 1..cursor.offset
    BY <2>2
  <2> QED BY <2>1, <2>3 DEF Covers
<1> QED BY <1>1, Invariance, PTL

\* A dense set of turn numbers is an interval from 1.
LEMMA DenseIsInterval ==
  ASSUME TypeInv, Dense
  PROVE  DOMAIN turns = 1..Cardinality(DOMAIN turns)
<1>1. DOMAIN turns \subseteq Nat \ {0} /\ Bounded
  BY DEF TypeInv, IngestTypeOK, LinesFit, TurnNo
<1>2. PICK n \in Nat : DOMAIN turns = 1..n
  <2>1. CASE DOMAIN turns = {}
    <3>1. DOMAIN turns = 1..0
      BY <2>1
    <3> QED BY <3>1
  <2>2. CASE DOMAIN turns # {}
    <3>1. PICK b \in Nat : \A n \in DOMAIN turns : n <= b
      BY <1>1 DEF Bounded
    <3>2. PICK m : m = Max(DOMAIN turns)
      OBVIOUS
    <3>3. m \in DOMAIN turns /\ \A n \in DOMAIN turns : n <= m
      BY <1>1, <2>2, <3>1, <3>2, MaxOfBounded
    <3>4. \A n \in DOMAIN turns : n \in 1..m
      BY <1>1, <3>3
    <3>5. \A n \in 1..m : n \in DOMAIN turns
      BY <3>3 DEF Dense
    <3>6. DOMAIN turns = 1..m
      BY <3>4, <3>5
    <3> QED BY <1>1, <3>3, <3>6
  <2> QED BY <2>1, <2>2
<1>3. Cardinality(1..n) = n
  <2>1. 1 \in Int /\ n \in Int
    OBVIOUS
  <2>2. Cardinality(1..n) = IF 1 > n THEN 0 ELSE n - 1 + 1
    BY <2>1, FS_Interval
  <2> QED BY <2>2
<1> QED BY <1>2, <1>3

\* Each ledger row names the turn that holds its record, and the turn numbers
\* have no hole.
THEOREM LedgerHolds == Spec => []LedgerTrue
<1>1. IInv => LedgerTrue
  BY DenseIsInterval DEF IInv, LedgerInv, LedgerTrue
<1> QED BY <1>1, Invariance, PTL

\* When no poll is between its append and its end, every turn was queued for
\* enrichment.
THEOREM EverythingEnriched == Spec => []EnrichedAtRest
<1>1. IInv => EnrichedAtRest
  BY DEF IInv, EnrichInv, EnrichedAtRest, Owed
<1> QED BY <1>1, Invariance, PTL

\* A run that settles done leaves every record that stood in the file at its
\* claim stored.
THEOREM DoneHasRead == Spec => DoneMeansRead
<1>1. IInv /\ IInv' /\ [Next]_vars
        => [\A a \in Address :
              job[a] = "running" /\ job'[a] = "done" /\ Never({"remove", "truncate"})
                => {r \in Range(file.lines) : r <= poll[a].due} \subseteq Stored']_vars
  <2> SUFFICES ASSUME IInv, [Next]_vars, NEW a \in Address, job[a] = "running", job'[a] = "done",
                      Never({"remove", "truncate"}),
                      NEW r \in Range(file.lines), r <= poll[a].due
               PROVE  r \in Stored'
    OBVIOUS
  <2>1. PICK i \in DOMAIN file.lines : file.lines[i] = r
    BY DEF Range
  <2>2. TypeInv /\ Covered(file, poll[a], Stored, conversation)
    BY DEF IInv, CursorInv
  <2>3. \A b \in Address : job[b] \in {"pending", "running", "done", "failed"}
        /\ DOMAIN job = Address
    BY <2>2 DEF TypeInv, IngestTypeOK
  <2>4. ASSUME NEW b \in Address, NEW states, "done" \notin states, Settle(b, states) PROVE FALSE
    <3>1. \A c \in Address \ {b} : job'[c] = job[c]
      BY <2>2, <2>4, SettleDoes DEF TypeInv
    <3>2. job'[b] \in states
      BY <2>2, <2>4, SettleDoes DEF TypeInv
    <3> QED BY <2>4, <3>1, <3>2
  <2>5. Enrich(a) \/ Acknowledge(a)
    <3>1. CASE \E b \in Address : Acknowledge(b) \/ Enrich(b)
      <4>1. PICK b \in Address : Acknowledge(b) \/ Enrich(b)
        BY <3>1
      <4>2. \A c \in Address \ {b} : job'[c] = job[c]
        BY <2>2, <4>1, SettleDoes DEF TypeInv, Acknowledge, Enrich
      <4> QED BY <4>1, <4>2
    <3>2. CASE \E b \in Address : Contended(b) \/ RefuseOrphan(b) \/ StepFails(b)
      BY <2>4, <3>2 DEF Contended, RefuseOrphan, StepFails, Retryable, Final
    <3>3. CASE \E b \in Address : AppendTurns(b)
      BY <2>4, <3>3 DEF AppendTurns, Final
    <3>4. CASE \E b \in Address : Submit(b) \/ Claim(b)
      BY <2>3, <3>4 DEF Submit, Claim
    <3>5. CASE PollerSubmits
      BY <2>3, <3>5 DEF PollerSubmits, Submit
    <3>6. CASE CrashAndBoot
      BY <3>6 DEF CrashAndBoot
    <3>7. CASE UNCHANGED job
      BY <3>7
    <3> QED
      BY <3>1, <3>2, <3>3, <3>4, <3>5, <3>6, <3>7
      DEF Next, Advance, vars, WriteRecord, Rotate, Truncate, DeleteConversation, TakeLock,
          LoadCursor, ReadRecords, ReadNothing, UpsertHeader, View, NumberTurns, CommitPoll, LoseLock
  <2>6. CASE Enrich(a)
    <3>1. poll[a].at = "enrich" /\ UNCHANGED turns /\ poll[a].batch = <<>> /\ Range(<<>>) = {}
      BY <2>2, <2>6 DEF Enrich, store, TypeInv, LocalsFit, Range
    <3>2. r \in Stored \union InHand(poll[a])
      BY <2>1, <2>2, <3>1 DEF Covered, DueRead, Reading, Step
    <3>3. InHand(poll[a]) \subseteq Stored
      BY <2>2, <3>1 DEF Covered, InHand
    <3> QED BY <3>1, <3>2, <3>3 DEF Stored
  <2>7. CASE Acknowledge(a)
    <3>1. /\ Unread(poll[a].from) = <<>> /\ ~conversation /\ Range(<<>>) = {}
      BY <2>7 DEF Acknowledge, Range
    <3>2. file.lines[i] \in Stored \/ file.lines[i] \in Range(Unread(poll[a].from))
      BY <2>2, AllRead DEF Covered
    <3>3. Stored = {}
      BY <2>2, <3>1, NoConversation
    <3> QED BY <3>1, <3>2, <3>3
  <2> QED BY <2>5, <2>6, <2>7
<1> QED BY <1>1, Invariance, PTL DEF Spec, DoneMeansRead
=============================================================================
