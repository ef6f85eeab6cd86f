---------------------------- MODULE EnrichmentProofs ------------------------
(***************************************************************************)
(* Proofs about the content layer, for any blobs, texts and number of      *)
(* workers, changes, faults and boots: the types, and that nothing a root  *)
(* holds is stranded without its vectors or its summary.                   *)
(*                                                                         *)
(* What is followed is every parsed blob, held or not: whatever its parse  *)
(* earned is still to be queued, or comes, or was dropped and is said so.  *)
(***************************************************************************)
EXTENDS MCContent, IndexingProofs, TLAPS

-----------------------------------------------------------------------------
(* Keys and what they deliver.                                             *)

Summaries == {SummaryOf(t) : t \in Marked}
Deliverable == Source \union Summaries

LEMMA TheOnlyIs == ASSUME NEW x PROVE TheOnly({x}) = x
BY DEF TheOnly

LEMMA ScanKeyIs ==
  ASSUME NEW b \in Blob
  PROVE  /\ ScanKey(b) \in Key /\ ScanKey(b).kind = "scan" /\ ScanKey(b).of = {b}
         /\ TheOnly(ScanKey(b).of) = b /\ Delivers(ScanKey(b)) = {}
<1> DEFINE k == ScanKey(b)
<1>1. k \in Key
  BY DEF Key
<1>2. k.kind = "scan" /\ k.of = {b}
  BY DEF ScanKey
<1>3. Delivers(k) = {}
  BY <1>2 DEF Delivers
<1> QED
  BY <1>1, <1>2, <1>3, TheOnlyIs

LEMMA SummarizeKeyIs ==
  ASSUME NEW t \in Marked, NEW who \in Identity
  PROVE  LET k == SummarizeKey(t, who)
         IN  /\ k \in Key /\ k.kind = "summarize" /\ k.of = {t} /\ k.who = who
             /\ TheOnly(k.of) = t /\ Delivers(k) = {SummaryOf(t)}
<1> DEFINE k == SummarizeKey(t, who)
<1>1. k \in Key
  BY DEF Key
<1>2. k.kind = "summarize" /\ k.of = {t} /\ k.who = who
  BY DEF SummarizeKey
<1>3. Delivers(k) = {SummaryOf(t)}
  BY <1>2 DEF Delivers
<1> QED
  BY <1>1, <1>2, <1>3, TheOnlyIs

LEMMA EmbedKeyIs ==
  ASSUME NEW items \in Batch, NEW who \in Identity
  PROVE  LET k == EmbedKey(items, who)
         IN  /\ k \in Key /\ k.kind = "embed" /\ k.of = items /\ k.who = who
             /\ Delivers(k) = items
<1> DEFINE k == EmbedKey(items, who)
<1>1. k \in Key
  BY DEF Key
<1>2. k.kind = "embed" /\ k.of = items /\ k.who = who
  BY DEF EmbedKey
<1>3. Delivers(k) = items
  BY <1>2 DEF Delivers
<1> QED
  BY <1>1, <1>2, <1>3

LEMMA KeyCases ==
  ASSUME NEW k \in Key
  PROVE  \/ k.kind = "scan" /\ \E b \in Blob : k = ScanKey(b)
         \/ k.kind = "summarize" /\ \E t \in Marked, who \in Identity : k = SummarizeKey(t, who)
         \/ k.kind = "embed" /\ \E items \in Batch, who \in Identity : k = EmbedKey(items, who)
BY ScanKeyIs, SummarizeKeyIs, EmbedKeyIs DEF Key

LEMMA SourceIs ==
  /\ \A t \in Text : RawOf(t) \in Source
  /\ \A t \in Marked, v \in 1..MaxVersion : SmartOf(t, v) \in Source
BY DEF Source

LEMMA BatchIs ==
  /\ \A items \in Batch : items \subseteq Source
  /\ \A ts \in (SUBSET Text) \ {{}} : {RawOf(t) : t \in ts} \in Batch
  /\ \A t \in Marked, v \in 1..MaxVersion : {SmartOf(t, v)} \in Batch
<1>1. \A ts \in (SUBSET Text) \ {{}} : {RawOf(t) : t \in ts} \in Batch
  BY DEF Batch
<1>2. \A t \in Marked, v \in 1..MaxVersion : {SmartOf(t, v)} \in Batch
  BY DEF Batch
<1>3. \A items \in Batch : items \subseteq Source
  BY DEF Batch, Source
<1> QED
  BY <1>1, <1>2, <1>3

LEMMA DeliversTyped == ASSUME NEW k \in Key PROVE Delivers(k) \subseteq Deliverable
<1>1. CASE k.kind = "scan"
  BY <1>1 DEF Delivers
<1>2. ASSUME NEW t \in Marked, NEW who \in Identity, k = SummarizeKey(t, who)
      PROVE  Delivers(k) \subseteq Deliverable
  BY <1>2, SummarizeKeyIs DEF Deliverable, Summaries
<1>3. ASSUME NEW items \in Batch, NEW who \in Identity, k = EmbedKey(items, who)
      PROVE  Delivers(k) \subseteq Deliverable
  BY <1>3, EmbedKeyIs, BatchIs DEF Deliverable
<1> QED
  BY <1>1, <1>2, <1>3, KeyCases

\* A vector is no summary.
LEMMA Apart ==
  ASSUME NEW s \in Source, NEW t
  PROVE  s # SummaryOf(t)
BY DEF Source, RawOf, SmartOf, SummaryOf

RawsOf(b) == {RawOf(t) : t \in Carries[b]}

\* What a parse earns: a batch of raw vectors and the summaries.
LEMMA EarnedIs ==
  ASSUME NEW b \in Blob
  PROVE  /\ Carries[b] \subseteq Text /\ Carries[b] # {}
         /\ RawsOf(b) \in Batch /\ EmbedKey(RawsOf(b), "repo") \in Earned(b)
         /\ \A t \in Carries[b] \intersect Marked : SummarizeKey(t, "repo") \in Earned(b)
         /\ \A e \in Earned(b) :
              \/ e = EmbedKey(RawsOf(b), "repo")
              \/ \E t \in Carries[b] \intersect Marked : e = SummarizeKey(t, "repo")
         /\ Earned(b) \subseteq Key
<1>1. Carries[b] \subseteq Text /\ Carries[b] # {}
  BY EnrichmentAssumption
<1>2. RawsOf(b) \in Batch
  BY <1>1, BatchIs DEF RawsOf
<1>3. /\ EmbedKey(RawsOf(b), "repo") \in Earned(b)
      /\ \A t \in Carries[b] \intersect Marked : SummarizeKey(t, "repo") \in Earned(b)
      /\ \A e \in Earned(b) :
           \/ e = EmbedKey(RawsOf(b), "repo")
           \/ \E t \in Carries[b] \intersect Marked : e = SummarizeKey(t, "repo")
  BY DEF Earned, RawsOf
<1>4. Earned(b) \subseteq Key
  BY <1>2, <1>3, EmbedKeyIs, SummarizeKeyIs DEF Identity
<1> QED
  BY <1>1, <1>2, <1>3, <1>4

-----------------------------------------------------------------------------
(* The types, a variable at a time, and the shape of a worker's task.      *)

JobState == {"none", "pending", "running", "failed"}
TaskStep == {"idle", "parse", "emit", "guard", "look", "pay", "put", "filter", "buy", "settle"}
WorkerTask == [at : TaskStep, todo : SUBSET (Key \union Source)]

ContentTyped == added \in BOOLEAN /\ held \subseteq Blob /\ parsed \subseteq Blob
SummaryTyped == summary \in [Text -> 0..MaxVersion]
VectorsTyped == vectors \subseteq Source
JobTyped == rows \in [Key -> JobState]
TaskTyped == works \in [Key -> WorkerTask]
BusyTyped == \A k \in Key : rows[k] = "running" => works[k].at # "idle"
GcTyped == gc \in 0..4
BoughtTyped == bought \in [Text -> 0..MaxVersion]
LapsedTyped == lapsed \subseteq Deliverable
LeftTyped == left \in [{"changes", "faults", "boots"} -> Nat]

\* A scan's row may be deleted or queued again under its worker, which is by
\* then past the parse.
ScanShape(k) ==
  /\ works[k].at \in {"idle", "parse", "emit", "settle"}
  /\ works[k].at = "parse" => rows[k] = "running"
  /\ rows[k] = "running" => works[k].at # "idle"
  /\ works[k].at # "emit" => works[k].todo = {}
  /\ works[k].todo \subseteq Earned(TheOnly(k.of))

\* A summary is put, and its vector queued, under a version that was paid for.
SummarizeShape(k) ==
  /\ works[k].at \in {"idle", "guard", "look", "pay", "put", "emit", "settle"}
  /\ works[k].at # "idle" <=> rows[k] = "running"
  /\ works[k].at \notin {"put", "emit"} => works[k].todo = {}
  /\ works[k].at \in {"put", "emit"} =>
       \E v \in 1..bought[TheOnly(k.of)] :
         works[k].todo = {EmbedKey({SmartOf(TheOnly(k.of), v)}, k.who)}

EmbedShape(k) ==
  /\ works[k].at \in {"idle", "filter", "guard", "buy", "settle"}
  /\ works[k].at # "idle" <=> rows[k] = "running"
  /\ works[k].at \notin {"guard", "buy"} => works[k].todo = {}
  /\ works[k].todo \subseteq k.of

Shape(k) ==
  /\ k.kind = "scan" => ScanShape(k)
  /\ k.kind = "summarize" => SummarizeShape(k)
  /\ k.kind = "embed" => EmbedShape(k)

Shaped == \A k \in Key : Shape(k)

\* What is stored was paid for, and only of a text that earns a summary.
StoredIsBought ==
  \A t \in Text : summary[t] <= bought[t] /\ (bought[t] # 0 => t \in Marked)

Typed ==
  /\ ContentTyped /\ SummaryTyped /\ VectorsTyped /\ JobTyped /\ TaskTyped /\ GcTyped
  /\ BoughtTyped /\ LapsedTyped /\ LeftTyped
  /\ Shaped /\ StoredIsBought

LEMMA TypedIs == Typed => EnrichmentTypeOK
<1> SUFFICES ASSUME Typed PROVE EnrichmentTypeOK
  OBVIOUS
<1>1. \A k \in Key : rows[k] = "running" => works[k].at # "idle"
  BY KeyCases DEF Typed, Shaped, Shape, ScanShape, SummarizeShape, EmbedShape
<1> QED
  BY <1>1 DEF Typed, EnrichmentTypeOK, ContentTyped, SummaryTyped, VectorsTyped, JobTyped,
       JobState, TaskTyped, WorkerTask, TaskStep, GcTyped, BoughtTyped, LapsedTyped, LeftTyped,
       Deliverable, Summaries

LEMMA Framed ==
  /\ ContentTyped /\ UNCHANGED content => ContentTyped'
  /\ SummaryTyped /\ UNCHANGED summary => SummaryTyped'
  /\ VectorsTyped /\ UNCHANGED vectors => VectorsTyped'
  /\ JobTyped /\ UNCHANGED rows => JobTyped'
  /\ TaskTyped /\ UNCHANGED works => TaskTyped'
  /\ GcTyped /\ UNCHANGED gc => GcTyped'
  /\ BoughtTyped /\ UNCHANGED bought => BoughtTyped'
  /\ LapsedTyped /\ UNCHANGED lapsed => LapsedTyped'
  /\ LeftTyped /\ UNCHANGED left => LeftTyped'
  /\ StoredIsBought /\ UNCHANGED <<summary, bought>> => StoredIsBought'
BY DEF ContentTyped, content, SummaryTyped, VectorsTyped, JobTyped, TaskTyped, GcTyped,
       BoughtTyped, LapsedTyped, LeftTyped, StoredIsBought

\* A task that stands keeps its shape while its row goes on running, or not.
LEMMA ShapeStays ==
  ASSUME NEW k \in Key, Shape(k), BoughtTyped,
         works'[k] = works[k], rows'[k] = "running" <=> rows[k] = "running",
         \A t \in Text : bought[t] <= bought'[t] /\ bought'[t] \in Nat
  PROVE  Shape(k)'
<1>1. ScanShape(k) => ScanShape(k)'
  BY DEF ScanShape
<1>2. EmbedShape(k) => EmbedShape(k)'
  BY DEF EmbedShape
<1>3. ASSUME NEW t \in Marked, NEW who \in Identity, k = SummarizeKey(t, who), SummarizeShape(k)
      PROVE  SummarizeShape(k)'
  <2>1. TheOnly(k.of) = t /\ t \in Text
    BY <1>3, SummarizeKeyIs, EnrichmentAssumption
  <2>2. bought[t] \in Nat /\ bought'[t] \in Nat /\ bought[t] <= bought'[t]
    BY <2>1 DEF BoughtTyped
  <2>3. 1..bought[t] \subseteq 1..bought'[t]
    BY <2>2
  <2> QED
    BY <1>3, <2>1, <2>3 DEF SummarizeShape
<1> QED
  BY <1>1, <1>2, <1>3, KeyCases DEF Shape

\* What the helpers do to a row and to a task.
LEMMA GotoIs ==
  ASSUME TaskTyped, NEW k \in Key, NEW at, NEW todo, Goto(k, at, todo)
  PROVE  /\ works'[k] = [at |-> at, todo |-> todo]
         /\ \A j \in Key \ {k} : works'[j] = works[j]
         /\ at \in TaskStep /\ todo \subseteq Key \union Source => TaskTyped'
BY DEF TaskTyped, Goto, WorkerTask

LEMMA GotoAt ==
  ASSUME TaskTyped, NEW k \in Key, NEW at, NEW todo, Goto(k, at, todo)
  PROVE  works'[k].at = at /\ works'[k].todo = todo
<1>1. works'[k] = [at |-> at, todo |-> todo]
  BY GotoIs
<1> QED
  BY <1>1

LEMMA GotoIfAnyIs ==
  ASSUME NEW k, NEW at, NEW todo, GotoIfAny(k, at, todo)
  PROVE  Goto(k, IF todo = {} THEN "settle" ELSE at, todo)
BY DEF GotoIfAny

LEMMA EnqueueIs ==
  ASSUME JobTyped, NEW keys, Enqueue(keys)
  PROVE  /\ \A j \in Key : rows'[j] = IF j \in keys /\ rows[j] # "running" THEN "pending" ELSE rows[j]
         /\ \A j \in Key : rows'[j] = "running" <=> rows[j] = "running"
         /\ JobTyped'
BY DEF JobTyped, JobState, Enqueue

LEMMA CloseIs ==
  ASSUME JobTyped, TaskTyped, NEW k \in Key, NEW state \in JobState, Close(k, state)
  PROVE  /\ rows'[k] = IF rows[k] = "running" THEN state ELSE rows[k]
         /\ works'[k] = NoWork
         /\ \A j \in Key \ {k} : rows'[j] = rows[j] /\ works'[j] = works[j]
         /\ JobTyped' /\ TaskTyped'
BY DEF JobTyped, TaskTyped, Close, WorkerTask, TaskStep, NoWork

\* A step of one worker.
LEMMA OneShape ==
  ASSUME Typed, NEW k \in Key, Shape(k)',
         \A j \in Key \ {k} : works'[j] = works[j],
         \A j \in Key \ {k} : rows'[j] = "running" <=> rows[j] = "running",
         \A t \in Text : bought[t] <= bought'[t] /\ bought'[t] \in Nat
  PROVE  Shaped'
BY ShapeStays DEF Typed, Shaped

-----------------------------------------------------------------------------
(* Every step keeps the types and the shapes.                              *)

\* Which worker is at a step.
LEMMA AtIs ==
  ASSUME Typed, NEW k \in Key
  PROVE  /\ works[k].at = "parse" => k.kind = "scan"
         /\ works[k].at \in {"look", "pay", "put"} => k.kind = "summarize"
         /\ works[k].at \in {"filter", "buy"} => k.kind = "embed"
         /\ works[k].at = "emit" => k.kind \in {"scan", "summarize"}
         /\ k.kind # "scan" => (works[k].at # "idle" <=> rows[k] = "running")
         /\ works[k] \in WorkerTask
         /\ works[k].at \in {"idle", "settle"} => works[k].todo = {}
BY KeyCases DEF Typed, Shaped, Shape, ScanShape, SummarizeShape, EmbedShape, TaskTyped

LEMMA BoughtStays ==
  ASSUME BoughtTyped, UNCHANGED bought
  PROVE  \A t \in Text : bought[t] <= bought'[t] /\ bought'[t] \in Nat
BY DEF BoughtTyped

LEMMA SpendingTyped ==
  ASSUME LeftTyped, NEW what \in {"changes", "faults", "boots"}, SpendOn(what)
  PROVE  LeftTyped'
BY DEF LeftTyped, SpendOn

LEMMA ClaimedTyped ==
  ASSUME Typed, NEW k \in Key, ClaimRow(k)
  PROVE  Typed'
<1>1. /\ rows[k] = "pending" /\ works[k].at = "idle"
      /\ rows' = [rows EXCEPT ![k] = "running"] /\ Goto(k, Begin(k), {})
      /\ UNCHANGED <<content, summary, vectors, gc, bought, lapsed, left>>
  BY DEF ClaimRow, stored
<1>2. JobTyped' /\ rows'[k] = "running" /\ \A j \in Key \ {k} : rows'[j] = rows[j]
  BY <1>1 DEF Typed, JobTyped, JobState
<1>3. /\ works'[k] = [at |-> Begin(k), todo |-> {}]
      /\ \A j \in Key \ {k} : works'[j] = works[j]
      /\ TaskTyped'
  BY <1>1, GotoIs DEF Typed, Begin, TaskStep
<1>4. Shape(k)'
  BY <1>2, <1>3, KeyCases DEF Begin, Shape, ScanShape, SummarizeShape, EmbedShape
<1>5. Shaped'
  BY <1>1, <1>2, <1>3, <1>4, OneShape, BoughtStays DEF Typed
<1> QED
  BY <1>1, <1>2, <1>3, <1>5, Framed DEF Typed

LEMMA SettledTyped ==
  ASSUME Typed, NEW k \in Key, SettleRow(k)
  PROVE  Typed'
<1>1. /\ works[k].at = "settle" /\ Close(k, "none")
      /\ UNCHANGED <<content, summary, vectors, gc, bought, lapsed, left>>
  BY DEF SettleRow, stored
<1>2. /\ rows'[k] # "running"
      /\ works'[k] = NoWork
      /\ \A j \in Key \ {k} : rows'[j] = rows[j] /\ works'[j] = works[j]
      /\ JobTyped' /\ TaskTyped'
  BY <1>1, CloseIs DEF Typed, JobState
<1>3. Shape(k)'
  BY <1>2, KeyCases DEF NoWork, Shape, ScanShape, SummarizeShape, EmbedShape
<1>4. Shaped'
  BY <1>1, <1>2, <1>3, OneShape, BoughtStays DEF Typed
<1> QED
  BY <1>1, <1>2, <1>4, Framed DEF Typed

LEMMA FailTyped ==
  ASSUME Typed, NEW k \in Key, Fail(k)
  PROVE  Typed'
<1>1. PICK state \in {"pending", "failed"} : Close(k, state)
  BY DEF Fail
<1>2. /\ SpendOn("faults")
      /\ lapsed' = IF k.kind = "scan" /\ rows[k] # "running"
                   THEN lapsed \union UNION {Delivers(j) : j \in works[k].todo} ELSE lapsed
      /\ UNCHANGED <<content, summary, vectors, gc, bought>>
  BY DEF Fail, stored
<1>3. /\ rows'[k] # "running"
      /\ works'[k] = NoWork
      /\ \A j \in Key \ {k} : rows'[j] = rows[j] /\ works'[j] = works[j]
      /\ JobTyped' /\ TaskTyped'
  BY <1>1, CloseIs DEF Typed, JobState
<1>4. Shape(k)'
  BY <1>3, KeyCases DEF NoWork, Shape, ScanShape, SummarizeShape, EmbedShape
<1>5. Shaped'
  BY <1>2, <1>3, <1>4, OneShape, BoughtStays DEF Typed
<1>6. LapsedTyped'
  <2>1. CASE k.kind = "scan"
    <3>1. works[k].todo \subseteq Key
      BY <2>1, KeyCases, ScanKeyIs, EarnedIs DEF Typed, Shaped, Shape, ScanShape
    <3> QED
      BY <1>2, <3>1, DeliversTyped DEF Typed, LapsedTyped
  <2>2. CASE k.kind # "scan"
    BY <1>2, <2>2 DEF Typed, LapsedTyped
  <2> QED
    BY <2>1, <2>2
<1>7. LeftTyped'
  BY <1>2, SpendingTyped DEF Typed
<1> QED
  BY <1>2, <1>3, <1>5, <1>6, <1>7, Framed DEF Typed

LEMMA ParseTyped ==
  ASSUME Typed, NEW k \in Key, Parse(k)
  PROVE  /\ Typed'
         /\ \E b \in Blob : /\ k = ScanKey(b) /\ parsed' = parsed \union {b}
                            /\ works'[k] = [at |-> "emit", todo |-> Earned(b)]
<1>1. works[k].at = "parse" /\ k.kind = "scan"
  BY AtIs DEF Parse
<1>2. PICK b \in Blob : k = ScanKey(b)
  BY <1>1, KeyCases
<1>3. k.of = {b} /\ TheOnly(k.of) = b
  BY <1>2, ScanKeyIs
<1>4. /\ parsed' = parsed \union {b} /\ GotoIfAny(k, "emit", Earned(b))
      /\ UNCHANGED <<added, held, summary, vectors, rows, gc, bought, lapsed, left>>
  BY <1>3 DEF Parse, stored
<1>5. Earned(b) # {} /\ Earned(b) \subseteq Key
  BY EarnedIs
<1>6. Goto(k, "emit", Earned(b))
  BY <1>4, <1>5, GotoIfAnyIs
<1>7. /\ works'[k] = [at |-> "emit", todo |-> Earned(b)]
      /\ \A j \in Key \ {k} : works'[j] = works[j]
      /\ TaskTyped'
  BY <1>5, <1>6, GotoIs DEF Typed, TaskStep
<1>8. Shape(k)'
  BY <1>1, <1>3, <1>7 DEF Shape, ScanShape
<1>9. Shaped'
  BY <1>4, <1>7, <1>8, OneShape, BoughtStays DEF Typed
<1>10. ContentTyped'
  BY <1>4 DEF Typed, ContentTyped
<1> QED
  BY <1>2, <1>4, <1>7, <1>9, <1>10, Framed DEF Typed

\* A worker that queues has a key to queue.
LEMMA EmitIs ==
  ASSUME Typed, NEW k \in Key, Emit(k)
  PROVE  \E e \in Key :
           /\ e \in works[k].todo /\ Enqueue({e})
           /\ Goto(k, IF works[k].todo \ {e} = {} THEN "settle" ELSE "emit", works[k].todo \ {e})
<1>1. PICK e \in works[k].todo : Enqueue({e}) /\ GotoIfAny(k, "emit", works[k].todo \ {e})
  BY DEF Emit
<1>2. e \in Key
  <2>1. CASE k.kind = "scan"
    BY <2>1, KeyCases, ScanKeyIs, EarnedIs DEF Typed, Shaped, Shape, ScanShape
  <2>2. ASSUME NEW t \in Marked, NEW who \in Identity, k = SummarizeKey(t, who)
        PROVE  e \in Key
    <3>1. TheOnly(k.of) = t /\ k.who = who /\ k.kind = "summarize" /\ t \in Text
      BY <2>2, SummarizeKeyIs, EnrichmentAssumption
    <3>2. PICK v \in 1..bought[t] : works[k].todo = {EmbedKey({SmartOf(t, v)}, who)}
      BY <3>1 DEF Emit, Typed, Shaped, Shape, SummarizeShape
    <3>3. v \in 1..MaxVersion
      BY <3>1, EnrichmentAssumption DEF Typed, BoughtTyped
    <3>4. e = EmbedKey({SmartOf(t, v)}, who)
      BY <1>1, <3>2
    <3>5. {SmartOf(t, v)} \in Batch
      BY <3>3, BatchIs
    <3> QED
      BY <3>4, <3>5, EmbedKeyIs
  <2>3. k.kind \in {"scan", "summarize"}
    BY AtIs DEF Emit
  <2> QED
    BY <2>1, <2>2, <2>3, KeyCases
<1> QED
  BY <1>1, <1>2, GotoIfAnyIs

LEMMA LapsedOfEnqueue ==
  ASSUME LapsedTyped, NEW keys \in SUBSET Key, Enqueue(keys)
  PROVE  LapsedTyped'
BY DeliversTyped DEF LapsedTyped, Enqueue

LEMMA EmitTyped ==
  ASSUME Typed, NEW k \in Key, Emit(k)
  PROVE  Typed'
<1>1. PICK e \in Key :
        /\ e \in works[k].todo /\ Enqueue({e})
        /\ Goto(k, IF works[k].todo \ {e} = {} THEN "settle" ELSE "emit", works[k].todo \ {e})
  BY EmitIs
<1>2. /\ works[k].at = "emit"
      /\ UNCHANGED <<content, summary, vectors, gc, bought, left>>
  BY DEF Emit, stored
<1>3. JobTyped' /\ \A j \in Key : rows'[j] = "running" <=> rows[j] = "running"
  BY <1>1, EnqueueIs DEF Typed
<1>4. works[k] \in WorkerTask
  BY AtIs
<1>5. /\ works'[k] = [at |-> IF works[k].todo \ {e} = {} THEN "settle" ELSE "emit",
                     todo |-> works[k].todo \ {e}]
      /\ \A j \in Key \ {k} : works'[j] = works[j]
      /\ TaskTyped'
  BY <1>1, <1>4, GotoIs DEF Typed, WorkerTask, TaskStep
<1>6. LapsedTyped'
  BY <1>1, LapsedOfEnqueue DEF Typed
<1>7. Shape(k)'
  <2>1. CASE k.kind = "scan"
    BY <1>2, <1>3, <1>5, <2>1 DEF Typed, Shaped, Shape, ScanShape
  <2>2. CASE k.kind = "summarize"
    <3>1. works[k].todo = {e}
      BY <1>1, <1>2, <2>2 DEF Typed, Shaped, Shape, SummarizeShape
    <3>2. works'[k].at = "settle" /\ works'[k].todo = {}
      BY <1>5, <3>1
    <3> QED
      BY <1>2, <1>3, <2>2, <3>2 DEF Typed, Shaped, Shape, SummarizeShape
  <2> QED
    BY <1>2, <2>1, <2>2, AtIs DEF Shape
<1>8. Shaped'
  BY <1>2, <1>3, <1>5, <1>7, OneShape, BoughtStays DEF Typed
<1> QED
  BY <1>2, <1>3, <1>5, <1>6, <1>8, Framed DEF Typed

\* A step of one worker that leaves every row alone.
LEMMA WorkerTyped ==
  ASSUME Typed, NEW k \in Key, NEW at \in TaskStep, NEW todo,
         Goto(k, at, todo), todo \subseteq Key \union Source,
         UNCHANGED <<content, rows, gc, left>>,
         SummaryTyped', VectorsTyped', BoughtTyped', LapsedTyped', StoredIsBought',
         \A t \in Text : bought[t] <= bought'[t] /\ bought'[t] \in Nat,
         works'[k] = [at |-> at, todo |-> todo] => Shape(k)'
  PROVE  Typed'
<1>1. /\ works'[k] = [at |-> at, todo |-> todo]
      /\ \A j \in Key \ {k} : works'[j] = works[j]
      /\ TaskTyped'
  BY GotoIs DEF Typed
<1>2. Shaped'
  BY <1>1, OneShape
<1> QED
  BY <1>1, <1>2, Framed DEF Typed

LEMMA Kept ==
  ASSUME Typed
  PROVE  /\ UNCHANGED summary => SummaryTyped'
         /\ UNCHANGED vectors => VectorsTyped'
         /\ UNCHANGED lapsed => LapsedTyped'
         /\ UNCHANGED bought => /\ BoughtTyped'
                               /\ \A t \in Text : bought[t] <= bought'[t] /\ bought'[t] \in Nat
         /\ UNCHANGED <<summary, bought>> => StoredIsBought'
BY BoughtStays, Framed DEF Typed

\* A step of one worker that only moves it on.
LEMMA MoveTyped ==
  ASSUME Typed, NEW k \in Key, NEW at \in TaskStep, NEW todo,
         Goto(k, at, todo), todo \subseteq Key \union Source,
         UNCHANGED <<content, summary, vectors, rows, gc, bought, lapsed, left>>,
         works'[k] = [at |-> at, todo |-> todo] => Shape(k)'
  PROVE  Typed'
<1>1. SummaryTyped' /\ VectorsTyped' /\ LapsedTyped' /\ BoughtTyped' /\ StoredIsBought'
  BY Kept
<1>2. \A t \in Text : bought[t] <= bought'[t] /\ bought'[t] \in Nat
  BY Kept
<1>3. UNCHANGED <<content, rows, gc, left>>
  OBVIOUS
<1> QED
  BY <1>1, <1>2, <1>3, WorkerTyped

LEMMA GuardSummaryTyped ==
  ASSUME Typed, NEW k \in Key, GuardSummary(k)
  PROVE  Typed'
<1>1. /\ works[k].at = "guard" /\ k.kind = "summarize"
      /\ UNCHANGED <<content, summary, vectors, rows, gc, bought, left>>
  BY DEF GuardSummary, stored
<1>2. PICK at \in {"look", "settle"} : Goto(k, at, {})
  BY DEF GuardSummary
<1>3. LapsedTyped'
  BY DeliversTyped DEF GuardSummary, Typed, LapsedTyped
<1>4. works'[k] = [at |-> at, todo |-> {}] => Shape(k)'
  BY <1>1, <1>2 DEF Typed, Shaped, Shape, SummarizeShape
<1>5. at \in TaskStep /\ {} \subseteq Key \union Source
  BY <1>2 DEF TaskStep
<1>6. /\ SummaryTyped' /\ VectorsTyped' /\ BoughtTyped' /\ StoredIsBought'
      /\ \A t \in Text : bought[t] <= bought'[t] /\ bought'[t] \in Nat
  BY <1>1, Kept
<1>7. UNCHANGED <<content, rows, gc, left>>
  BY <1>1
<1> QED
  BY <1>2, <1>3, <1>4, <1>5, <1>6, <1>7, WorkerTyped

\* What is stored is of a marked text, under a version the model has.
LEMMA StoredIs ==
  ASSUME Typed, NEW t \in Text, summary[t] # 0
  PROVE  t \in Marked /\ summary[t] \in 1..bought[t] /\ summary[t] \in 1..MaxVersion
BY EnrichmentAssumption DEF Typed, SummaryTyped, BoughtTyped, StoredIsBought

\* What a summarizer puts and queues.
LEMMA QueuesIs ==
  ASSUME Typed, NEW t \in Marked, NEW who \in Identity,
         works[SummarizeKey(t, who)].at \in {"put", "emit"}
  PROVE  \E v \in 1..MaxVersion :
           /\ v \in 1..bought[t]
           /\ works[SummarizeKey(t, who)].todo = {EmbedKey({SmartOf(t, v)}, who)}
<1> DEFINE k == SummarizeKey(t, who)
<1>1. k \in Key /\ TheOnly(k.of) = t /\ k.who = who /\ k.kind = "summarize" /\ t \in Text
  BY SummarizeKeyIs, EnrichmentAssumption
<1>2. PICK v \in 1..bought[t] : works[k].todo = {EmbedKey({SmartOf(t, v)}, who)}
  BY <1>1 DEF Typed, Shaped, Shape, SummarizeShape
<1>3. v \in 1..MaxVersion
  BY <1>1, EnrichmentAssumption DEF Typed, BoughtTyped
<1> QED
  BY <1>2, <1>3

LEMMA QueuesShape ==
  ASSUME NEW k \in Key, NEW t \in Marked, NEW who \in Identity, k = SummarizeKey(t, who),
         rows'[k] = "running", NEW v \in 1..bought'[t], NEW at \in {"put", "emit"},
         works'[k] = [at |-> at, todo |-> {EmbedKey({SmartOf(t, v)}, who)}]
  PROVE  Shape(k)'
<1>1. k.kind = "summarize" /\ TheOnly(k.of) = t /\ k.who = who
  BY SummarizeKeyIs
<1>2. works'[k].at = at /\ works'[k].todo = {EmbedKey({SmartOf(t, v)}, who)}
  OBVIOUS
<1>3. \E w \in 1..bought'[TheOnly(k.of)] :
        works'[k].todo = {EmbedKey({SmartOf(TheOnly(k.of), w)}, k.who)}
  BY <1>1, <1>2
<1>4. at \in {"put", "emit"} /\ at # "idle"
  OBVIOUS
<1>5. SummarizeShape(k)'
  BY <1>2, <1>3, <1>4 DEF SummarizeShape
<1> QED
  BY <1>1, <1>5 DEF Shape

LEMMA LookForSummaryTyped ==
  ASSUME Typed, NEW k \in Key, LookForSummary(k)
  PROVE  Typed'
<1>1. /\ works[k].at = "look" /\ k.kind = "summarize"
      /\ UNCHANGED <<content, summary, vectors, rows, gc, bought, lapsed, left>>
  BY AtIs DEF LookForSummary, stored
<1>2. PICK t \in Marked, who \in Identity : k = SummarizeKey(t, who)
  BY <1>1, KeyCases
<1>3. TheOnly(k.of) = t /\ k.who = who /\ t \in Text
  BY <1>2, SummarizeKeyIs, EnrichmentAssumption
<1>4. CASE summary[t] = 0
  <2>1. Goto(k, "pay", {})
    BY <1>3, <1>4 DEF LookForSummary
  <2>2. works'[k] = [at |-> "pay", todo |-> {}] => Shape(k)'
    BY <1>1 DEF Typed, Shaped, Shape, SummarizeShape
  <2>3. "pay" \in TaskStep /\ {} \subseteq Key \union Source
    BY DEF TaskStep
  <2> QED
    BY <1>1, <2>1, <2>2, <2>3, MoveTyped
<1>5. CASE summary[t] # 0
  <2>1. Goto(k, "emit", {EmbedKey({SmartOf(t, summary[t])}, who)})
    BY <1>3, <1>5, GotoIfAnyIs DEF LookForSummary, ExistingEarns
  <2>2. summary[t] \in 1..bought[t] /\ summary[t] \in 1..MaxVersion
    BY <1>3, <1>5, StoredIs
  <2>3. EmbedKey({SmartOf(t, summary[t])}, who) \in Key
    BY <2>2, BatchIs, EmbedKeyIs
  <2>4. works'[k] = [at |-> "emit", todo |-> {EmbedKey({SmartOf(t, summary[t])}, who)}]
          => Shape(k)'
    <3>1. rows'[k] = "running" /\ summary[t] \in 1..bought'[t]
      BY <1>1, <2>2, AtIs
    <3> QED
      BY <1>2, <3>1, QueuesShape
  <2>5. "emit" \in TaskStep
    BY DEF TaskStep
  <2> QED
    BY <1>1, <2>1, <2>3, <2>4, <2>5, MoveTyped
<1> QED
  BY <1>4, <1>5

LEMMA PayForSummaryTyped ==
  ASSUME Typed, NEW k \in Key, PayForSummary(k)
  PROVE  Typed'
<1>1. /\ works[k].at = "pay" /\ k.kind = "summarize"
      /\ UNCHANGED <<content, summary, vectors, rows, gc, lapsed, left>>
  BY AtIs DEF PayForSummary, stored
<1>2. PICK t \in Marked, who \in Identity : k = SummarizeKey(t, who)
  BY <1>1, KeyCases
<1>3. TheOnly(k.of) = t /\ k.who = who /\ t \in Text
  BY <1>2, SummarizeKeyIs, EnrichmentAssumption
<1>4. /\ bought[t] < MaxVersion /\ bought' = [bought EXCEPT ![t] = @ + 1]
      /\ Goto(k, "put", {EmbedKey({SmartOf(t, bought'[t])}, who)})
  BY <1>3 DEF PayForSummary
<1>5. /\ BoughtTyped' /\ bought'[t] \in 1..MaxVersion
      /\ \A u \in Text : bought[u] <= bought'[u] /\ bought'[u] \in Nat
      /\ \A u \in Text \ {t} : bought'[u] = bought[u]
  BY <1>3, <1>4, EnrichmentAssumption DEF Typed, BoughtTyped
<1>6. EmbedKey({SmartOf(t, bought'[t])}, who) \in Key
  BY <1>5, BatchIs, EmbedKeyIs
<1>7. StoredIsBought'
  <2> SUFFICES ASSUME NEW u \in Text
               PROVE  summary[u] <= bought'[u] /\ (bought'[u] # 0 => u \in Marked)
    BY <1>1 DEF StoredIsBought
  <2>1. summary[u] <= bought[u] /\ (bought[u] # 0 => u \in Marked) /\ summary[u] \in Nat
        /\ bought[u] \in Nat
    BY DEF Typed, StoredIsBought, SummaryTyped, BoughtTyped
  <2> QED
    BY <1>5, <2>1
<1>8. works'[k] = [at |-> "put", todo |-> {EmbedKey({SmartOf(t, bought'[t])}, who)}]
        => Shape(k)'
  <2>1. rows'[k] = "running"
    BY <1>1, AtIs
  <2>2. bought'[t] \in 1..bought'[t]
    BY <1>5
  <2> QED
    BY <1>2, <2>1, <2>2, QueuesShape
<1>9. /\ "put" \in TaskStep
      /\ {EmbedKey({SmartOf(t, bought'[t])}, who)} \subseteq Key \union Source
  BY <1>6 DEF TaskStep
<1>10. SummaryTyped' /\ VectorsTyped' /\ LapsedTyped' /\ UNCHANGED <<content, rows, gc, left>>
  BY <1>1, Framed DEF Typed
<1>11. Goto(k, "put", {EmbedKey({SmartOf(t, bought'[t])}, who)})
  BY <1>4
<1> HIDE DEF Typed
<1> QED
  BY <1>5, <1>7, <1>8, <1>9, <1>10, <1>11, WorkerTyped

LEMMA PutSummaryTyped ==
  ASSUME Typed, NEW k \in Key, PutSummary(k)
  PROVE  /\ Typed'
         /\ \E t \in Marked, who \in Identity, v \in 1..MaxVersion :
              /\ k = SummarizeKey(t, who) /\ summary' = [summary EXCEPT ![t] = v]
              /\ works[k].todo = {EmbedKey({SmartOf(t, v)}, who)}
              /\ works'[k] = [at |-> "emit", todo |-> works[k].todo]
<1>1. /\ works[k].at = "put" /\ k.kind = "summarize"
      /\ UNCHANGED <<content, vectors, rows, gc, bought, lapsed, left>>
      /\ Goto(k, "emit", works[k].todo)
  BY AtIs DEF PutSummary, stored
<1>2. PICK t \in Marked, who \in Identity : k = SummarizeKey(t, who)
  BY <1>1, KeyCases
<1>3. TheOnly(k.of) = t /\ k.who = who /\ t \in Text
  BY <1>2, SummarizeKeyIs, EnrichmentAssumption
<1>4. PICK v \in 1..MaxVersion :
        v \in 1..bought[t] /\ works[k].todo = {EmbedKey({SmartOf(t, v)}, who)}
  BY <1>1, <1>2, QueuesIs
<1>5. TheOnly(TheOnly(works[k].todo).of) = SmartOf(t, v)
  <2> DEFINE e == EmbedKey({SmartOf(t, v)}, who)
  <2>1. e.of = {SmartOf(t, v)}
    BY <1>4, EmbedKeyIs, BatchIs
  <2>2. TheOnly(works[k].todo) = e
    BY <1>4, TheOnlyIs
  <2>3. TheOnly({SmartOf(t, v)}) = SmartOf(t, v)
    BY TheOnlyIs
  <2> QED
    BY <2>1, <2>2, <2>3
<1>6. summary' = [summary EXCEPT ![t] = v]
  BY <1>5 DEF PutSummary, SmartOf
<1>7. SummaryTyped'
  <2>1. v \in 0..MaxVersion
    BY EnrichmentAssumption
  <2> QED
    BY <1>6, <2>1 DEF Typed, SummaryTyped
<1>8. StoredIsBought'
  <2> SUFFICES ASSUME NEW u \in Text
               PROVE  summary'[u] <= bought[u] /\ (bought[u] # 0 => u \in Marked)
    BY <1>1 DEF StoredIsBought
  <2>1. summary[u] <= bought[u] /\ (bought[u] # 0 => u \in Marked)
    BY DEF Typed, StoredIsBought
  <2>2. summary'[u] = IF u = t THEN v ELSE summary[u]
    BY <1>6 DEF Typed, SummaryTyped
  <2> QED
    BY <1>4, <2>1, <2>2
<1>9. works'[k] = [at |-> "emit", todo |-> works[k].todo] => Shape(k)'
  <2>1. rows'[k] = "running" /\ v \in 1..bought'[t]
    BY <1>1, <1>4, AtIs
  <2> QED
    BY <1>2, <1>4, <2>1, QueuesShape
<1>10. works[k].todo \subseteq Key \union Source /\ "emit" \in TaskStep
  BY AtIs DEF WorkerTask, TaskStep
<1>11. Typed'
  <2>1. /\ VectorsTyped' /\ BoughtTyped' /\ LapsedTyped'
        /\ \A u \in Text : bought[u] <= bought'[u] /\ bought'[u] \in Nat
    BY <1>1, Kept
  <2>2. UNCHANGED <<content, rows, gc, left>> /\ Goto(k, "emit", works[k].todo)
    BY <1>1
  <2> QED
    BY <1>7, <1>8, <1>9, <1>10, <2>1, <2>2, WorkerTyped
<1>12. works'[k] = [at |-> "emit", todo |-> works[k].todo]
  BY <1>1, GotoIs DEF Typed
<1> QED
  BY <1>2, <1>4, <1>6, <1>11, <1>12

LEMMA FilterStoredTyped ==
  ASSUME Typed, NEW k \in Key, FilterStored(k)
  PROVE  Typed'
<1>1. /\ works[k].at = "filter" /\ k.kind = "embed"
      /\ UNCHANGED <<content, summary, vectors, rows, gc, bought, lapsed, left>>
  BY AtIs DEF FilterStored, stored
<1> DEFINE todo == k.of \ vectors
           at == IF todo = {} THEN "settle" ELSE "guard"
<1>2. Goto(k, at, todo)
  BY GotoIfAnyIs DEF FilterStored
<1>3. todo \subseteq Source
  BY <1>1, KeyCases, EmbedKeyIs, BatchIs
<1>4. works'[k] = [at |-> at, todo |-> todo] => Shape(k)'
  <2>1. rows[k] = "running"
    BY <1>1, AtIs
  <2> QED
    BY <1>1, <2>1 DEF Shape, EmbedShape
<1>5. at \in TaskStep
  BY DEF TaskStep
<1> HIDE DEF todo, at
<1> QED
  BY <1>1, <1>2, <1>3, <1>4, <1>5, MoveTyped

LEMMA GuardVectorsTyped ==
  ASSUME Typed, NEW k \in Key, GuardVectors(k)
  PROVE  Typed'
<1> DEFINE live == {s \in works[k].todo : SourceReferenced(s)}
           at == IF live = {} THEN "settle" ELSE "buy"
<1>1. /\ works[k].at = "guard" /\ k.kind = "embed" /\ GotoIfAny(k, "buy", live)
      /\ lapsed' = lapsed \union (works[k].todo \ live)
      /\ UNCHANGED <<content, summary, vectors, rows, gc, bought, left>>
  BY DEF GuardVectors, stored
<1>2. Goto(k, at, live)
  BY <1>1, GotoIfAnyIs
<1>3. works[k].todo \subseteq k.of /\ k.of \subseteq Source
  BY <1>1, KeyCases, EmbedKeyIs, BatchIs DEF Typed, Shaped, Shape, EmbedShape
<1>4. LapsedTyped'
  BY <1>1, <1>3 DEF Typed, LapsedTyped, Deliverable
<1>5. works'[k] = [at |-> at, todo |-> live] => Shape(k)'
  <2>1. rows[k] = "running"
    BY <1>1, AtIs
  <2> QED
    BY <1>1, <1>3, <2>1 DEF Shape, EmbedShape
<1>6. at \in TaskStep /\ live \subseteq Key \union Source
  BY <1>3 DEF TaskStep
<1>7. /\ SummaryTyped' /\ VectorsTyped' /\ BoughtTyped' /\ StoredIsBought'
      /\ \A t \in Text : bought[t] <= bought'[t] /\ bought'[t] \in Nat
  BY <1>1, Kept
<1>8. UNCHANGED <<content, rows, gc, left>>
  BY <1>1
<1> HIDE DEF live, at
<1> QED
  BY <1>2, <1>4, <1>5, <1>6, <1>7, <1>8, WorkerTyped

LEMMA PutVectorsTyped ==
  ASSUME Typed, NEW k \in Key, PutVectors(k)
  PROVE  Typed'
<1> DEFINE nothing == {}
<1>1. /\ works[k].at = "buy" /\ k.kind = "embed" /\ Goto(k, "settle", nothing)
      /\ vectors' = vectors \union works[k].todo
      /\ UNCHANGED <<content, summary, rows, gc, bought, lapsed, left>>
  BY AtIs DEF PutVectors
<1>2. works[k].todo \subseteq k.of /\ k.of \subseteq Source
  BY <1>1, KeyCases, EmbedKeyIs, BatchIs DEF Typed, Shaped, Shape, EmbedShape
<1>3. VectorsTyped'
  BY <1>1, <1>2 DEF Typed, VectorsTyped
<1>4. works'[k] = [at |-> "settle", todo |-> nothing] => Shape(k)'
  <2>1. rows[k] = "running"
    BY <1>1, AtIs
  <2> QED
    BY <1>1, <2>1 DEF Shape, EmbedShape
<1>5. "settle" \in TaskStep /\ nothing \subseteq Key \union Source
  BY DEF TaskStep
<1>6. /\ SummaryTyped' /\ BoughtTyped' /\ LapsedTyped' /\ StoredIsBought'
      /\ \A t \in Text : bought[t] <= bought'[t] /\ bought'[t] \in Nat
  BY <1>1, Kept
<1>7. UNCHANGED <<content, rows, gc, left>>
  BY <1>1
<1> HIDE DEF nothing
<1> QED
  BY <1>1, <1>3, <1>4, <1>5, <1>6, <1>7, WorkerTyped

\* Rows change under workers that stand.
LEMMA RowsShaped ==
  ASSUME Typed, UNCHANGED <<works, bought>>,
         \A j \in Key : rows'[j] = "running" <=> rows[j] = "running"
  PROVE  Shaped'
<1>1. \A t \in Text : bought[t] <= bought'[t] /\ bought'[t] \in Nat
  BY BoughtStays DEF Typed
<1> QED
  BY <1>1, ShapeStays DEF Typed, Shaped

LEMMA WalkedTyped ==
  ASSUME Typed, NEW S \in SUBSET Blob, Walk(S)
  PROVE  Typed'
<1> DEFINE keys == {ScanKey(b) : b \in S \ (IF added THEN held \intersect parsed ELSE parsed)}
<1>1. /\ SpendOn("changes") /\ added' = TRUE /\ held' = S /\ Enqueue(keys)
      /\ UNCHANGED <<parsed, summary, vectors, works, gc, bought>>
  BY DEF Walk, stored
<1>2. keys \in SUBSET Key
  BY ScanKeyIs
<1> HIDE DEF keys
<1>3. JobTyped' /\ \A j \in Key : rows'[j] = "running" <=> rows[j] = "running"
  BY <1>1, EnqueueIs DEF Typed
<1>4. LapsedTyped'
  BY <1>1, <1>2, LapsedOfEnqueue DEF Typed
<1>5. ContentTyped'
  BY <1>1 DEF Typed, ContentTyped
<1>6. LeftTyped'
  BY <1>1, SpendingTyped DEF Typed
<1>7. Shaped'
  BY <1>1, <1>3, RowsShaped
<1> QED
  BY <1>1, <1>3, <1>4, <1>5, <1>6, <1>7, Framed DEF Typed

LEMMA RootRemovedTyped ==
  ASSUME Typed, DropRoot
  PROVE  Typed'
<1> DEFINE bs == {c \in parsed : rows[ScanKey(c)] = "pending" \/ works[ScanKey(c)].at = "parse"}
<1>1. /\ SpendOn("changes") /\ added' = FALSE /\ held' = {}
      /\ rows' = [k \in Key |-> IF k.kind = "scan" /\ rows[k] # "failed" THEN "none" ELSE rows[k]]
      /\ works' = [k \in Key |-> IF works[k].at = "parse" THEN NoWork ELSE works[k]]
      /\ lapsed' = lapsed \union UNION {UNION {Delivers(k) : k \in Earned(b)} : b \in bs}
      /\ UNCHANGED <<parsed, summary, vectors, gc, bought>>
  BY DEF DropRoot, stored
<1>2. ContentTyped'
  BY <1>1 DEF Typed, ContentTyped
<1>3. JobTyped'
  BY <1>1 DEF Typed, JobTyped, JobState
<1>4. TaskTyped'
  BY <1>1 DEF Typed, TaskTyped, WorkerTask, TaskStep, NoWork
<1>5. LapsedTyped'
  <2>1. \A b \in bs : Earned(b) \subseteq Key
    BY EarnedIs DEF Typed, ContentTyped
  <2>2. UNION {UNION {Delivers(k) : k \in Earned(b)} : b \in bs} \subseteq Deliverable
    BY <2>1, DeliversTyped
  <2> QED
    BY <1>1, <2>2 DEF Typed, LapsedTyped
<1>6. LeftTyped'
  BY <1>1, SpendingTyped DEF Typed
<1>7. ASSUME NEW k \in Key PROVE Shape(k)'
  <2>1. rows'[k] = IF k.kind = "scan" /\ rows[k] # "failed" THEN "none" ELSE rows[k]
    BY <1>1
  <2>2. works'[k] = IF works[k].at = "parse" THEN NoWork ELSE works[k]
    BY <1>1
  <2>3. Shape(k) /\ BoughtTyped
    BY DEF Typed, Shaped
  <2>4. CASE k.kind = "scan"
    BY <2>1, <2>2, <2>3, <2>4 DEF Shape, ScanShape, NoWork
  <2>5. CASE k.kind # "scan"
    <3>1. works[k].at # "parse"
      BY <2>5, AtIs
    <3>2. rows'[k] = rows[k] /\ works'[k] = works[k]
      BY <2>1, <2>2, <2>5, <3>1
    <3>3. \A t \in Text : bought[t] <= bought'[t] /\ bought'[t] \in Nat
      BY <1>1, <2>3, BoughtStays
    <3> QED
      BY <2>3, <3>2, <3>3, ShapeStays
  <2> QED
    BY <2>4, <2>5
<1>8. Shaped'
  BY <1>7 DEF Shaped
<1> HIDE DEF bs
<1> QED
  BY <1>1, <1>2, <1>3, <1>4, <1>5, <1>6, <1>8, Framed DEF Typed

LEMMA RebootTyped ==
  ASSUME Typed, Reboot
  PROVE  Typed' /\ \A k \in Key : rows'[k] # "running" /\ works'[k] = NoWork
<1>1. /\ SpendOn("boots")
      /\ works' = [k \in Key |-> NoWork]
      /\ gc' = 0
      /\ UNCHANGED <<content, summary, vectors, bought>>
  BY DEF Reboot, stored
<1> PICK raw \in UpTo(VectorSweep, RawMissing), smart \in UpTo(VectorSweep, SmartMissing),
         texts \in UpTo(SummarySweep, SummaryMissing) :
      /\ rows' = [k \in Key |->
                   IF \/ k \in Requeues(raw, smart, texts)
                      \/ rows[k] = "running" \/ (rows[k] = "failed" /\ k.kind # "scan")
                   THEN "pending" ELSE rows[k]]
      /\ lapsed' = (RawMissing \ raw) \union (SmartMissing \ smart)
                     \union {SummaryOf(t) : t \in SummaryMissing \ texts}
  BY DEF Reboot
<1>2. JobTyped' /\ \A k \in Key : rows'[k] # "running"
  BY DEF Typed, JobTyped, JobState
<1>3. TaskTyped' /\ \A k \in Key : works'[k] = NoWork
  BY <1>1 DEF TaskTyped, WorkerTask, TaskStep, NoWork
<1>4. GcTyped' /\ LapsedTyped'
  <2>1. Carried(parsed) \subseteq Text
    BY EarnedIs DEF Carried, Typed, ContentTyped
  <2>2. RawMissing \subseteq Source /\ SummaryMissing \subseteq Marked
    BY <2>1 DEF RawMissing, SummaryMissing, Source
  <2>3. SmartMissing \subseteq Source
    <3>1. \A t \in Carried(parsed) : summary[t] # 0 => t \in Marked /\ summary[t] \in 1..MaxVersion
      BY <2>1 DEF Typed, StoredIsBought, SummaryTyped, BoughtTyped
    <3> QED
      BY <3>1 DEF SmartMissing, Source
  <2> QED
    BY <1>1, <2>2, <2>3 DEF GcTyped, LapsedTyped, Deliverable, Summaries
<1>5. LeftTyped'
  BY <1>1, SpendingTyped DEF Typed
<1>6. \A k \in Key : Shape(k)'
  BY <1>2, <1>3, KeyCases DEF Shape, ScanShape, SummarizeShape, EmbedShape, NoWork
<1>7. Shaped'
  BY <1>6 DEF Shaped
<1> QED
  BY <1>1, <1>2, <1>3, <1>4, <1>5, <1>7, Framed DEF Typed

LEMMA CollectedTyped ==
  ASSUME Typed, Collect
  PROVE  Typed'
<1>1. CASE CollectJobs
  <2>1. /\ gc' = 1 /\ rows' = [k \in Key |-> IF k \in UnreferencedJobs THEN "none" ELSE rows[k]]
        /\ lapsed' = lapsed \union {w \in UNION {Delivers(k) : k \in UnreferencedJobs} :
                                     ~SourceReferenced(w)}
        /\ UNCHANGED <<content, summary, vectors, works, bought, left>>
    BY <1>1 DEF CollectJobs, Level, stored
  <2>2. \A k \in UnreferencedJobs : k \in Key /\ rows[k] = "pending"
    BY DEF UnreferencedJobs
  <2>3. JobTyped' /\ \A j \in Key : rows'[j] = "running" <=> rows[j] = "running"
    BY <2>1, <2>2 DEF Typed, JobTyped, JobState
  <2>4. LapsedTyped'
    BY <2>1, <2>2, DeliversTyped DEF Typed, LapsedTyped
  <2>5. Shaped'
    BY <2>1, <2>3, RowsShaped
  <2>6. GcTyped'
    BY <2>1 DEF GcTyped
  <2> QED
    BY <2>1, <2>3, <2>4, <2>5, <2>6, Framed DEF Typed
<1>2. CASE CollectElements
  <2>1. /\ gc' = 2 /\ parsed' = parsed \intersect held
        /\ UNCHANGED <<added, held, summary, vectors, rows, works, bought, lapsed, left>>
    BY <1>2 DEF CollectElements, Level, stored
  <2>2. ContentTyped' /\ GcTyped'
    BY <2>1 DEF Typed, ContentTyped, GcTyped
  <2>3. Shaped'
    BY <2>1, RowsShaped
  <2> QED
    BY <2>1, <2>2, <2>3, Framed DEF Typed
<1>3. CASE CollectSummaries
  <2>1. /\ gc' = 3
        /\ summary' = [t \in Text |-> IF t \in UnreferencedSummaries THEN 0 ELSE summary[t]]
        /\ UNCHANGED <<content, vectors, rows, works, bought, lapsed, left>>
    BY <1>3 DEF CollectSummaries, Level
  <2>2. SummaryTyped' /\ GcTyped'
    BY <2>1, EnrichmentAssumption DEF Typed, SummaryTyped, GcTyped
  <2>3. Shaped'
    BY <2>1, RowsShaped
  <2>4. StoredIsBought'
    BY <2>1 DEF Typed, StoredIsBought, BoughtTyped
  <2> QED
    BY <2>1, <2>2, <2>3, <2>4, Framed DEF Typed
<1>4. CASE CollectVectors
  <2>1. /\ gc' = 4 /\ vectors' = vectors \ UnreferencedVectors
        /\ UNCHANGED <<content, summary, rows, works, bought, lapsed, left>>
    BY <1>4 DEF CollectVectors, Level
  <2>2. VectorsTyped' /\ GcTyped'
    BY <2>1 DEF Typed, VectorsTyped, GcTyped
  <2>3. Shaped'
    BY <2>1, RowsShaped
  <2> QED
    BY <2>1, <2>2, <2>3, Framed DEF Typed
<1>5. CASE EndPass
  <2>1. gc' = 0 /\ UNCHANGED <<content, summary, vectors, rows, works, bought, lapsed, left>>
    BY <1>5 DEF EndPass, stored
  <2>2. GcTyped'
    BY <2>1 DEF GcTyped
  <2>3. Shaped'
    BY <2>1, RowsShaped
  <2> QED
    BY <2>1, <2>2, <2>3, Framed DEF Typed
<1> QED
  BY <1>1, <1>2, <1>3, <1>4, <1>5 DEF Collect

LEMMA ContentInitTyped == ASSUME EnrichmentInit PROVE Typed
<1>1. ContentTyped /\ SummaryTyped /\ VectorsTyped /\ GcTyped /\ BoughtTyped /\ LapsedTyped
  BY EnrichmentAssumption DEF EnrichmentInit, ContentTyped, SummaryTyped, VectorsTyped, GcTyped,
    BoughtTyped, LapsedTyped
<1>2. LeftTyped
  BY EnrichmentAssumption DEF EnrichmentInit, LeftTyped
<1>3. JobTyped /\ \A k \in Key : rows[k] # "running"
  BY DEF EnrichmentInit, JobTyped, JobState
<1>4. TaskTyped /\ \A k \in Key : works[k] = NoWork
  BY DEF EnrichmentInit, TaskTyped, WorkerTask, TaskStep, NoWork
<1>5. Shaped
  BY <1>3, <1>4, KeyCases
  DEF Shaped, Shape, ScanShape, SummarizeShape, EmbedShape, NoWork
<1>6. StoredIsBought
  BY DEF EnrichmentInit, StoredIsBought
<1> QED
  BY <1>1, <1>2, <1>3, <1>4, <1>5, <1>6 DEF Typed

LEMMA StutterTyped == ASSUME Typed, UNCHANGED evars PROVE Typed'
<1>1. UNCHANGED <<content, summary, vectors, rows, works, gc, bought, lapsed, left>>
  BY DEF evars, stored
<1>2. Shaped'
  BY <1>1, RowsShaped
<1> QED
  BY <1>1, <1>2, Framed DEF Typed

LEMMA ContentStepTyped ==
  ASSUME Typed, [EnrichmentNext]_evars
  PROVE  Typed'
<1>1. ASSUME NEW k \in Key, Work(k) PROVE Typed'
  BY <1>1, SettledTyped, ParseTyped, EmitTyped, GuardSummaryTyped, LookForSummaryTyped,
     PayForSummaryTyped, PutSummaryTyped, FilterStoredTyped, GuardVectorsTyped, PutVectorsTyped
  DEF Work
<1> QED
  BY <1>1, ClaimedTyped, FailTyped, WalkedTyped, RootRemovedTyped, RebootTyped, CollectedTyped,
     StutterTyped
  DEF EnrichmentNext

\* Every variable keeps its type: no row is run by two workers or by none,
\* and no summary is stored, or its vector queued, that was not paid for.
THEOREM EnrichmentTypeCorrect == EnrichmentSpec => []EnrichmentTypeOK
<1>1. EnrichmentInit => Typed
  BY ContentInitTyped
<1>2. Typed /\ [EnrichmentNext]_evars => Typed'
  BY ContentStepTyped
<1> QED
  BY <1>1, <1>2, TypedIs, PTL DEF EnrichmentSpec

-----------------------------------------------------------------------------
(* What is still to come: the invariant, and when a step keeps it.          *)

Leads(k, s) == s \in k.of /\ (Queued(k) \/ works[k].at = "filter" \/ s \in works[k].todo)

\* A row or a worker that stores the summary, or queues the vector of the one
\* that is stored.
Makes(t, who) ==
  LET k == SummarizeKey(t, who)
  IN  \/ Queued(k) \/ works[k].at \in {"guard", "look", "pay", "put"}
      \/ works[k].at = "emit" /\ works[k].todo = {EmbedKey({SmartOf(t, summary[t])}, who)}

SumComes(t) ==
  \/ SummaryOf(t) \in lapsed
  \/ \E who \in Identity : Makes(t, who)
  \/ summary[t] # 0 /\ VectorComes(SmartOf(t, summary[t]))

\* What a parse earned comes.
ItComes(e) ==
  /\ e.kind = "embed" => \A s \in e.of : VectorComes(s)
  /\ e.kind = "summarize" => \A t \in e.of : SumComes(t)

ScanFirst(b) == Queued(ScanKey(b)) \/ works[ScanKey(b)].at = "parse"

StillOwes(b, e) == works[ScanKey(b)].at = "emit" /\ e \in works[ScanKey(b)].todo

Accounted(b) == ScanFirst(b) \/ \A e \in Earned(b) : ItComes(e) \/ StillOwes(b, e)

\* Held or not: a walk that lists the blob again in a root it knows does not
\* scan it again.
AllAccounted == \A b \in parsed : Accounted(b)

VectorsKept == \A s \in Source : VectorComes(s) => VectorComes(s)'
SummariesKept == \A t \in Marked : SumComes(t) => SumComes(t)'
LapsedKept ==
  /\ \A s \in Source : s \in lapsed => VectorComes(s)'
  /\ \A t \in Marked : SummaryOf(t) \in lapsed => SumComes(t)'
EarnedKept == \A b \in parsed : \A e \in Earned(b) : ItComes(e) => ItComes(e)'
Stays(k) == works'[k] = works[k] /\ (Queued(k) => Queued(k)')

LEMMA VectorIs ==
  ASSUME NEW s, VectorComes(s)
  PROVE  \/ s \in vectors \/ s \in lapsed
         \/ \E items \in Batch, who \in Identity : Leads(EmbedKey(items, who), s)
BY EmbedKeyIs DEF VectorComes, Leads

LEMMA LeadIs ==
  ASSUME NEW items \in Batch, NEW who \in Identity, NEW s, Leads(EmbedKey(items, who), s)'
  PROVE  VectorComes(s)'
BY EmbedKeyIs DEF VectorComes, Leads

LEMMA StoredOrLapsed ==
  ASSUME NEW s, s \in vectors' \/ s \in lapsed'
  PROVE  VectorComes(s)'
BY DEF VectorComes

LEMMA LapsedGrows == ASSUME lapsed \subseteq lapsed' PROVE LapsedKept
BY StoredOrLapsed DEF LapsedKept, SumComes

LEMMA LeadStays ==
  ASSUME NEW k, NEW s, Leads(k, s), Stays(k)
  PROVE  Leads(k, s)'
BY DEF Leads, Stays

LEMMA MakesStay ==
  ASSUME NEW t, NEW who, Makes(t, who), Stays(SummarizeKey(t, who)), summary'[t] = summary[t]
  PROVE  Makes(t, who)'
BY DEF Makes, Stays

LEMMA MakesIs ==
  ASSUME NEW t, NEW who \in Identity, Makes(t, who)'
  PROVE  SumComes(t)'
BY DEF SumComes

LEMMA MakesNow ==
  ASSUME NEW t \in Marked, NEW who \in Identity, NEW k, k = SummarizeKey(t, who),
         Queued(k)' \/ works'[k].at \in {"guard", "look", "pay", "put"}
  PROVE  SumComes(t)'
<1>1. Makes(t, who)'
  BY DEF Makes
<1> QED
  BY <1>1, MakesIs

\* Nothing is forgotten: what was stored stays, and every row and worker that
\* led to something still does, or has stored or dropped it.
LEMMA NothingForgotten ==
  ASSUME vectors \subseteq vectors', LapsedKept,
         \A items \in Batch, who \in Identity : \A s \in items :
           Leads(EmbedKey(items, who), s) =>
             Leads(EmbedKey(items, who), s)' \/ s \in vectors' \/ s \in lapsed',
         \A t \in Marked, who \in Identity : Makes(t, who) => SumComes(t)',
         \A t \in Marked : summary'[t] = summary[t] \/ SumComes(t)',
         \A t \in Marked : summary[t] # 0 => SmartOf(t, summary[t]) \in Source
  PROVE  VectorsKept /\ SummariesKept
<1>1. ASSUME NEW s \in Source, VectorComes(s) PROVE VectorComes(s)'
  <2>1. CASE s \in vectors
    BY <2>1, StoredOrLapsed
  <2>2. CASE s \in lapsed
    BY <2>2 DEF LapsedKept
  <2>3. ASSUME NEW items \in Batch, NEW who \in Identity, Leads(EmbedKey(items, who), s)
        PROVE  VectorComes(s)'
    <3>1. s \in items
      BY <2>3, EmbedKeyIs DEF Leads
    <3> QED
      BY <2>3, <3>1, LeadIs, StoredOrLapsed
  <2> QED
    BY <1>1, <2>1, <2>2, <2>3, VectorIs
<1>2. ASSUME NEW t \in Marked, SumComes(t) PROVE SumComes(t)'
  <2>1. CASE SummaryOf(t) \in lapsed
    BY <2>1 DEF LapsedKept
  <2>2. ASSUME NEW who \in Identity, Makes(t, who)
        PROVE  SumComes(t)'
    BY <2>2
  <2>3. CASE summary[t] # 0 /\ VectorComes(SmartOf(t, summary[t])) /\ summary'[t] = summary[t]
    <3>1. PICK s \in Source : s = SmartOf(t, summary[t])
      BY <2>3
    <3>2. VectorComes(s)'
      BY <1>1, <2>3, <3>1
    <3>3. SmartOf(t, summary'[t]) = s
      BY <2>3, <3>1
    <3> QED
      BY <2>3, <3>2, <3>3 DEF SumComes
  <2> QED
    BY <1>2, <2>1, <2>2, <2>3 DEF SumComes
<1> QED
  BY <1>1, <1>2 DEF VectorsKept, SummariesKept

LEMMA EarnedStays ==
  ASSUME parsed \subseteq Blob, VectorsKept, SummariesKept
  PROVE  EarnedKept
<1> SUFFICES ASSUME NEW b \in parsed, NEW e \in Earned(b), ItComes(e) PROVE ItComes(e)'
  BY DEF EarnedKept
<1>1. CASE e = EmbedKey(RawsOf(b), "repo")
  <2>1. e.kind = "embed" /\ e.of \subseteq Source
    BY <1>1, EarnedIs, EmbedKeyIs, BatchIs DEF Identity
  <2> QED
    BY <2>1 DEF ItComes, VectorsKept
<1>2. ASSUME NEW t \in Carries[b] \intersect Marked, e = SummarizeKey(t, "repo")
      PROVE  ItComes(e)'
  <2>1. e.kind = "summarize" /\ e.of = {t}
    BY <1>2, SummarizeKeyIs DEF Identity
  <2> QED
    BY <2>1 DEF ItComes, SummariesKept
<1> QED
  BY <1>1, <1>2, EarnedIs

\* The blobs whose scan the step leaves alone stay accounted for.
LEMMA StillAccounted ==
  ASSUME AllAccounted, EarnedKept,
         \A b \in parsed' : Accounted(b)' \/ (b \in parsed /\ Stays(ScanKey(b)))
  PROVE  AllAccounted'
<1> SUFFICES ASSUME NEW b \in parsed', b \in parsed, Stays(ScanKey(b)) PROVE Accounted(b)'
  BY DEF AllAccounted
<1>1. ScanFirst(b) => ScanFirst(b)'
  BY DEF ScanFirst, Stays
<1>2. \A e : StillOwes(b, e) => StillOwes(b, e)'
  BY DEF StillOwes, Stays
<1>3. \A e \in Earned(b) : ItComes(e) => ItComes(e)'
  BY DEF EarnedKept
<1> QED
  BY <1>1, <1>2, <1>3 DEF AllAccounted, Accounted

LEMMA SmartStored ==
  ASSUME Typed, NEW t \in Marked, summary[t] # 0
  PROVE  SmartOf(t, summary[t]) \in Source
BY StoredIs, SourceIs, EnrichmentAssumption

\* A step of one worker: what it led to still comes.
LEMMA WorkerKeeps ==
  ASSUME Typed, NEW k \in Key, \A j \in Key \ {k} : Stays(j),
         vectors \subseteq vectors', LapsedKept,
         k.kind = "embed" =>
           \A s \in k.of : Leads(k, s) => Leads(k, s)' \/ s \in vectors' \/ s \in lapsed',
         \A t \in Marked, who \in Identity :
           k = SummarizeKey(t, who) /\ Makes(t, who) => SumComes(t)',
         \A t \in Marked : summary'[t] = summary[t] \/ SumComes(t)'
  PROVE  EarnedKept /\ VectorsKept
<1>1. ASSUME NEW items \in Batch, NEW who \in Identity, NEW s \in items,
             Leads(EmbedKey(items, who), s)
      PROVE  Leads(EmbedKey(items, who), s)' \/ s \in vectors' \/ s \in lapsed'
  <2> DEFINE j == EmbedKey(items, who)
  <2>1. j \in Key /\ j.kind = "embed" /\ j.of = items
    BY EmbedKeyIs
  <2>2. CASE j = k
    BY <1>1, <2>1, <2>2
  <2>3. CASE j # k
    BY <1>1, <2>1, <2>3, LeadStays
  <2> QED
    BY <2>2, <2>3
<1>2. ASSUME NEW t \in Marked, NEW who \in Identity, Makes(t, who)
      PROVE  SumComes(t)'
  <2>1. CASE SummarizeKey(t, who) = k
    BY <1>2, <2>1
  <2>2. CASE SummarizeKey(t, who) # k /\ summary'[t] = summary[t]
    BY <1>2, <2>2, SummarizeKeyIs, MakesStay, MakesIs
  <2> QED
    BY <2>1, <2>2
<1>3. VectorsKept /\ SummariesKept
  BY <1>1, <1>2, SmartStored, NothingForgotten
<1> QED
  BY <1>3, EarnedStays DEF Typed, ContentTyped

LEMMA WorkerAccounted ==
  ASSUME Typed, NEW k \in Key, \A j \in Key \ {k} : Stays(j),
         AllAccounted, EarnedKept, parsed' \subseteq Blob,
         \A b \in parsed' : b \in parsed \/ k = ScanKey(b),
         \A b \in parsed' : k = ScanKey(b) => Accounted(b)'
  PROVE  AllAccounted'
<1>1. ASSUME NEW b \in parsed', k # ScanKey(b) PROVE b \in parsed /\ Stays(ScanKey(b))
  BY <1>1, ScanKeyIs
<1> QED
  BY <1>1, StillAccounted

\* A step of a worker that is no scan.
LEMMA EnricherAccounted ==
  ASSUME Typed, NEW k \in Key, \A j \in Key \ {k} : Stays(j),
         AllAccounted, EarnedKept, parsed' = parsed, k.kind # "scan"
  PROVE  AllAccounted'
<1>1. \A b \in parsed' : k # ScanKey(b)
  BY DEF ScanKey
<1> QED
  BY <1>1, WorkerAccounted DEF Typed, ContentTyped

\* What is dropped is said to be.
LEMMA LapsedComes ==
  ASSUME NEW b \in Blob, NEW e \in Earned(b), Delivers(e) \subseteq lapsed'
  PROVE  ItComes(e)'
<1>1. CASE e = EmbedKey(RawsOf(b), "repo")
  <2>1. e.kind = "embed" /\ e.of = Delivers(e)
    BY <1>1, EarnedIs, EmbedKeyIs DEF Identity
  <2>2. \A s \in e.of : VectorComes(s)'
    BY <2>1, StoredOrLapsed
  <2> QED
    BY <2>1, <2>2 DEF ItComes
<1>2. ASSUME NEW t \in Carries[b] \intersect Marked, e = SummarizeKey(t, "repo")
      PROVE  ItComes(e)'
  <2>1. e.kind = "summarize" /\ e.of = {t} /\ Delivers(e) = {SummaryOf(t)}
    BY <1>2, SummarizeKeyIs DEF Identity
  <2>2. SumComes(t)'
    BY <2>1 DEF SumComes
  <2> QED
    BY <2>1, <2>2 DEF ItComes
<1> QED
  BY <1>1, <1>2, EarnedIs

LEMMA TaskStays ==
  ASSUME TaskTyped, NEW k \in Key, NEW at, NEW todo, Goto(k, at, todo), UNCHANGED rows
  PROVE  \A j \in Key \ {k} : Stays(j)
BY GotoIs DEF Stays, Queued

-----------------------------------------------------------------------------
(* Every step keeps it: the workers'.                                       *)

LEMMA ClaimAccounted ==
  ASSUME Typed, AllAccounted, NEW k \in Key, ClaimRow(k)
  PROVE  AllAccounted'
<1>1. /\ rows[k] = "pending" /\ works[k].at = "idle"
      /\ rows' = [rows EXCEPT ![k] = "running"] /\ Goto(k, Begin(k), {})
      /\ UNCHANGED <<added, held, parsed, summary, vectors, gc, bought, lapsed, left>>
  BY DEF ClaimRow, stored, content
<1>2. \A j \in Key \ {k} : Stays(j)
  BY <1>1, GotoIs DEF Typed, JobTyped, Stays, Queued
<1>3. works'[k].at = Begin(k) /\ works[k].todo = {}
  <2>1. works'[k] = [at |-> Begin(k), todo |-> {}]
    BY <1>1, GotoIs DEF Typed
  <2> QED
    BY <1>1, <2>1, AtIs
<1>4. EarnedKept
  <2>1. k.kind = "embed" => \A s \in k.of : Leads(k, s)'
    BY <1>3 DEF Begin, Leads
  <2>2. \A t \in Marked, who \in Identity : k = SummarizeKey(t, who) => SumComes(t)'
    <3> SUFFICES ASSUME NEW t \in Marked, NEW who \in Identity, k = SummarizeKey(t, who)
                 PROVE  SumComes(t)'
      OBVIOUS
    <3>1. works'[k].at = "guard"
      BY <1>3, SummarizeKeyIs DEF Begin
    <3> QED
      BY <3>1, MakesNow
  <2>3. LapsedKept
    BY <1>1, LapsedGrows
  <2> QED
    BY <1>1, <1>2, <2>1, <2>2, <2>3, WorkerKeeps
<1>5. \A b \in parsed' : k = ScanKey(b) => Accounted(b)'
  BY <1>3 DEF Begin, ScanKey, Accounted, ScanFirst
<1>6. parsed' \subseteq Blob
  BY <1>1 DEF Typed, ContentTyped
<1> QED
  BY <1>1, <1>2, <1>4, <1>5, <1>6, WorkerAccounted

LEMMA SettleAccounted ==
  ASSUME Typed, AllAccounted, NEW k \in Key, SettleRow(k)
  PROVE  AllAccounted'
<1>1. /\ works[k].at = "settle" /\ Close(k, "none")
      /\ UNCHANGED <<added, held, parsed, summary, vectors, gc, bought, lapsed, left>>
  BY DEF SettleRow, stored, content
<1>2. /\ rows'[k] = IF rows[k] = "running" THEN "none" ELSE rows[k]
      /\ \A j \in Key \ {k} : rows'[j] = rows[j] /\ works'[j] = works[j]
  BY <1>1, CloseIs DEF Typed, JobState
<1>3. \A j \in Key \ {k} : Stays(j)
  BY <1>2 DEF Stays, Queued
<1>4. works[k].todo = {} /\ (k.kind # "scan" => rows[k] = "running")
  BY <1>1, AtIs
<1>5. EarnedKept
  <2>1. k.kind = "embed" => \A s \in k.of : ~Leads(k, s)
    BY <1>1, <1>4 DEF Leads, Queued
  <2>2. \A t \in Marked, who \in Identity : k = SummarizeKey(t, who) => ~Makes(t, who)
    BY <1>1, <1>4, SummarizeKeyIs DEF Makes, Queued
  <2>3. LapsedKept
    BY <1>1, LapsedGrows
  <2> QED
    BY <1>1, <1>3, <2>1, <2>2, <2>3, WorkerKeeps
<1>6. ASSUME NEW b \in parsed', k = ScanKey(b) PROVE Accounted(b)'
  <2>1. b \in parsed /\ Accounted(b) /\ \A e : ~StillOwes(b, e)
    BY <1>1, <1>6 DEF AllAccounted, StillOwes
  <2>2. ScanFirst(b) => ScanFirst(b)'
    BY <1>1, <1>2, <1>6 DEF ScanFirst, Queued
  <2> QED
    BY <1>5, <2>1, <2>2 DEF Accounted, EarnedKept
<1>7. parsed' \subseteq Blob
  BY <1>1 DEF Typed, ContentTyped
<1> QED
  BY <1>1, <1>3, <1>5, <1>6, <1>7, WorkerAccounted

LEMMA FailAccounted ==
  ASSUME Typed, AllAccounted, NEW k \in Key, Fail(k)
  PROVE  AllAccounted'
<1>1. PICK state \in {"pending", "failed"} : Close(k, state)
  BY DEF Fail
<1>2. /\ works[k].at # "idle"
      /\ lapsed' = IF k.kind = "scan" /\ rows[k] # "running"
                   THEN lapsed \union UNION {Delivers(j) : j \in works[k].todo} ELSE lapsed
      /\ UNCHANGED <<added, held, parsed, summary, vectors, gc, bought>>
  BY DEF Fail, stored, content
<1>3. /\ rows'[k] = IF rows[k] = "running" THEN state ELSE rows[k]
      /\ \A j \in Key \ {k} : rows'[j] = rows[j] /\ works'[j] = works[j]
  BY <1>1, CloseIs DEF Typed, JobState
<1>4. \A j \in Key \ {k} : Stays(j)
  BY <1>3 DEF Stays, Queued
<1>5. k.kind # "scan" => Queued(k)'
  BY <1>2, <1>3, AtIs DEF Queued
<1>6. EarnedKept
  <2>1. k.kind = "embed" => \A s \in k.of : Leads(k, s)'
    BY <1>5 DEF Leads
  <2>2. \A t \in Marked, who \in Identity : k = SummarizeKey(t, who) => SumComes(t)'
    <3> SUFFICES ASSUME NEW t \in Marked, NEW who \in Identity, k = SummarizeKey(t, who)
                 PROVE  SumComes(t)'
      OBVIOUS
    <3>1. k.kind = "summarize"
      BY SummarizeKeyIs
    <3> QED
      BY <1>5, <3>1, MakesNow
  <2>3. LapsedKept
    BY <1>2, LapsedGrows
  <2> QED
    BY <1>2, <1>4, <2>1, <2>2, <2>3, WorkerKeeps
<1>7. ASSUME NEW b \in parsed', k = ScanKey(b) PROVE Accounted(b)'
  <2>1. b \in parsed /\ b \in Blob /\ Accounted(b) /\ k.kind = "scan"
    BY <1>2, <1>7, ScanKeyIs DEF AllAccounted, Typed, ContentTyped
  <2>2. CASE rows[k] = "running" \/ Queued(k)
    BY <1>3, <1>7, <2>2 DEF Accounted, ScanFirst, Queued
  <2>3. CASE rows[k] # "running" /\ ~Queued(k)
    <3>1. ~ScanFirst(b)
      BY <1>7, <2>1, <2>3 DEF ScanFirst, Typed, Shaped, Shape, ScanShape
    <3>2. ASSUME NEW e \in Earned(b) PROVE ItComes(e)'
      <4>1. CASE ItComes(e)
        BY <1>2, <1>6, <4>1 DEF EarnedKept
      <4>2. CASE StillOwes(b, e)
        BY <1>2, <1>7, <2>1, <2>3, <4>2, LapsedComes DEF StillOwes
      <4> QED
        BY <2>1, <3>1, <4>1, <4>2 DEF Accounted
    <3> QED
      BY <3>2 DEF Accounted
  <2> QED
    BY <2>2, <2>3
<1>8. parsed' \subseteq Blob
  BY <1>2 DEF Typed, ContentTyped
<1> QED
  BY <1>2, <1>4, <1>6, <1>7, <1>8, WorkerAccounted

LEMMA ParseAccounted ==
  ASSUME Typed, AllAccounted, NEW k \in Key, Parse(k)
  PROVE  AllAccounted'
<1>1. PICK b \in Blob : /\ k = ScanKey(b) /\ parsed' = parsed \union {b}
                        /\ works'[k] = [at |-> "emit", todo |-> Earned(b)]
  BY ParseTyped
<1>2. UNCHANGED <<summary, vectors, rows, lapsed>> /\ \E at, todo : Goto(k, at, todo)
  BY DEF Parse, GotoIfAny, stored
<1>3. \A j \in Key \ {k} : Stays(j)
  BY <1>2, TaskStays DEF Typed
<1>4. k.kind = "scan"
  BY <1>1, ScanKeyIs
<1>5. EarnedKept
  <2>1. \A t \in Marked, who \in Identity : k # SummarizeKey(t, who)
    BY <1>4, SummarizeKeyIs
  <2>2. LapsedKept
    BY <1>2, LapsedGrows
  <2> QED
    BY <1>2, <1>3, <1>4, <2>1, <2>2, WorkerKeeps
<1>6. ASSUME NEW c \in parsed', k = ScanKey(c) PROVE Accounted(c)'
  <2>1. c = b
    BY <1>1, <1>6 DEF ScanKey
  <2>2. \A e \in Earned(b) : StillOwes(b, e)'
    BY <1>1 DEF StillOwes
  <2> QED
    BY <2>1, <2>2 DEF Accounted
<1>7. parsed' \subseteq Blob
  BY <1>1 DEF Typed, ContentTyped
<1>8. \A c \in parsed' : c \in parsed \/ k = ScanKey(c)
  BY <1>1
<1> QED
  BY <1>3, <1>5, <1>6, <1>7, <1>8, WorkerAccounted

\* What is enqueued comes, whatever its row was doing.
LEMMA Enqueued ==
  ASSUME Typed, NEW e \in Key, Enqueue({e})
  PROVE  /\ Queued(e)' \/ Delivers(e) \subseteq lapsed'
         /\ lapsed \ Delivers(e) \subseteq lapsed'
         /\ \A j \in Key : Queued(j) => Queued(j)'
<1>1. rows' = [j \in Key |-> IF j \in {e} /\ rows[j] # "running" THEN "pending" ELSE rows[j]]
  BY DEF Enqueue
<1>2. CASE rows[e] = "running"
  <2>1. lapsed' = (lapsed \ UNION {Delivers(j) : j \in {e}})
                    \union UNION {Delivers(j) : j \in {e}}
    <3>1. {j \in {e} : rows[j] = "running"} = {e}
      BY <1>2
    <3> QED
      BY <3>1 DEF Enqueue
  <2>2. UNION {Delivers(j) : j \in {e}} = Delivers(e)
    OBVIOUS
  <2> QED
    BY <1>1, <2>1, <2>2 DEF Queued
<1>3. CASE rows[e] # "running"
  <2>1. lapsed' = (lapsed \ UNION {Delivers(j) : j \in {e}}) \union UNION {Delivers(j) : j \in {}}
    <3>1. {j \in {e} : rows[j] = "running"} = {}
      BY <1>3
    <3> QED
      BY <3>1 DEF Enqueue
  <2>2. UNION {Delivers(j) : j \in {e}} = Delivers(e)
    OBVIOUS
  <2> QED
    BY <1>1, <1>3, <2>1, <2>2 DEF Queued
<1> QED
  BY <1>2, <1>3

LEMMA EnqueuedVector ==
  ASSUME Typed, NEW items \in Batch, NEW who \in Identity, Enqueue({EmbedKey(items, who)}),
         NEW s \in items
  PROVE  VectorComes(s)'
<1> DEFINE e == EmbedKey(items, who)
<1>1. e \in Key /\ e.of = items /\ Delivers(e) = items
  BY EmbedKeyIs
<1>2. CASE Queued(e)'
  <2>1. Leads(e, s)'
    BY <1>1, <1>2 DEF Leads
  <2> QED
    BY <2>1, LeadIs
<1>3. CASE Delivers(e) \subseteq lapsed'
  BY <1>1, <1>3, StoredOrLapsed
<1> QED
  BY <1>1, <1>2, <1>3, Enqueued

LEMMA EnqueuedSummary ==
  ASSUME Typed, NEW t \in Marked, NEW who \in Identity, Enqueue({SummarizeKey(t, who)})
  PROVE  SumComes(t)'
<1> DEFINE e == SummarizeKey(t, who)
<1>1. e \in Key /\ Delivers(e) = {SummaryOf(t)}
  BY SummarizeKeyIs
<1>2. CASE Queued(e)'
  BY <1>2, MakesNow
<1>3. CASE Delivers(e) \subseteq lapsed'
  BY <1>1, <1>3 DEF SumComes
<1> QED
  BY <1>1, <1>2, <1>3, Enqueued

\* What was dropped stays said so, or is queued again.
LEMMA EnqueueKeepsLapsed ==
  ASSUME Typed, NEW e \in Key, Enqueue({e})
  PROVE  LapsedKept
<1>1. ASSUME NEW s \in Source, s \in lapsed PROVE VectorComes(s)'
  <2>1. CASE s \notin Delivers(e)
    BY <1>1, <2>1, Enqueued, StoredOrLapsed
  <2>2. ASSUME s \in Delivers(e), NEW items \in Batch, NEW who \in Identity,
               e = EmbedKey(items, who)
        PROVE  VectorComes(s)'
    BY <2>2, EmbedKeyIs, EnqueuedVector
  <2>3. ASSUME s \in Delivers(e), NEW t \in Marked, NEW who \in Identity,
               e = SummarizeKey(t, who)
        PROVE  FALSE
    BY <2>3, SummarizeKeyIs, Apart
  <2> QED
    BY <2>1, <2>2, <2>3, KeyCases, ScanKeyIs
<1>2. ASSUME NEW t \in Marked, SummaryOf(t) \in lapsed PROVE SumComes(t)'
  <2>1. CASE SummaryOf(t) \notin Delivers(e)
    BY <1>2, <2>1, Enqueued DEF SumComes
  <2>2. ASSUME SummaryOf(t) \in Delivers(e), NEW items \in Batch, NEW who \in Identity,
               e = EmbedKey(items, who)
        PROVE  FALSE
    BY <2>2, EmbedKeyIs, BatchIs, Apart
  <2>3. ASSUME SummaryOf(t) \in Delivers(e), NEW u \in Marked, NEW who \in Identity,
               e = SummarizeKey(u, who)
        PROVE  SumComes(t)'
    <3>1. SummaryOf(t) = SummaryOf(u)
      BY <2>3, SummarizeKeyIs
    <3>2. t = u
      BY <3>1 DEF SummaryOf
    <3> QED
      BY <2>3, <3>2, EnqueuedSummary
  <2> QED
    BY <2>1, <2>2, <2>3, KeyCases, ScanKeyIs
<1> QED
  BY <1>1, <1>2 DEF LapsedKept

\* The scan hands over what its parse earned; the summarizer, the vector of
\* the summary it stored or found, unless another's has replaced it.
LEMMA EmitAccounted ==
  ASSUME Typed, AllAccounted, NEW k \in Key, Emit(k)
  PROVE  AllAccounted'
<1>1. PICK e \in Key :
        /\ e \in works[k].todo /\ Enqueue({e})
        /\ Goto(k, IF works[k].todo \ {e} = {} THEN "settle" ELSE "emit", works[k].todo \ {e})
  BY EmitIs
<1>2. works[k].at = "emit" /\ UNCHANGED <<added, held, parsed, summary, vectors>>
  BY DEF Emit, stored, content
<1>3. /\ works'[k] = [at |-> IF works[k].todo \ {e} = {} THEN "settle" ELSE "emit",
                     todo |-> works[k].todo \ {e}]
      /\ \A j \in Key \ {k} : works'[j] = works[j]
  BY <1>1, GotoIs DEF Typed
<1>4. \A j \in Key : Queued(j) => Queued(j)'
  BY <1>1, Enqueued
<1>5. \A j \in Key \ {k} : Stays(j)
  BY <1>3, <1>4 DEF Stays
<1>6. LapsedKept
  BY <1>1, EnqueueKeepsLapsed
<1>7. k.kind # "embed"
  BY <1>2, AtIs
<1>8. ASSUME NEW t \in Marked, NEW who \in Identity, k = SummarizeKey(t, who), Makes(t, who)
      PROVE  SumComes(t)'
  <2>1. PICK v \in 1..MaxVersion : works[k].todo = {EmbedKey({SmartOf(t, v)}, who)}
    BY <1>2, <1>8, QueuesIs
  <2>2. {SmartOf(t, v)} \in Batch /\ e = EmbedKey({SmartOf(t, v)}, who)
    BY <1>1, <2>1, BatchIs
  <2>3. VectorComes(SmartOf(t, v))'
    <3>1. PICK s \in {SmartOf(t, v)} : s = SmartOf(t, v)
      OBVIOUS
    <3>2. VectorComes(s)'
      BY <1>1, <2>2, EnqueuedVector
    <3> QED
      BY <3>1, <3>2
  <2>4. CASE Queued(k)
    BY <1>4, <1>8, <2>4, MakesNow
  <2>5. CASE works[k].todo = {EmbedKey({SmartOf(t, summary[t])}, who)}
    <3>1. EmbedKey({SmartOf(t, v)}, who) = EmbedKey({SmartOf(t, summary[t])}, who)
      BY <2>1, <2>5
    <3>2. {SmartOf(t, v)} = {SmartOf(t, summary[t])}
      BY <3>1 DEF EmbedKey
    <3>3. SmartOf(t, v) = SmartOf(t, summary[t])
      BY <3>2
    <3>4. v = summary[t]
      BY <3>3 DEF SmartOf
    <3>5. summary'[t] = v /\ v # 0
      BY <1>2, <3>4
    <3> QED
      BY <2>3, <3>5 DEF SumComes
  <2> QED
    BY <1>2, <1>8, <2>4, <2>5 DEF Makes
<1>9. EarnedKept
  BY <1>2, <1>5, <1>6, <1>7, <1>8, WorkerKeeps
<1>10. ASSUME NEW b \in parsed', k = ScanKey(b) PROVE Accounted(b)'
  <2>1. b \in parsed /\ b \in Blob /\ Accounted(b)
    BY <1>2 DEF AllAccounted, Typed, ContentTyped
  <2>2. ScanFirst(b) => ScanFirst(b)'
    BY <1>2, <1>4, <1>10 DEF ScanFirst
  <2>3. ASSUME NEW f \in Earned(b), StillOwes(b, f), f # e PROVE StillOwes(b, f)'
    BY <1>3, <1>10, <2>3 DEF StillOwes
  <2>4. ASSUME e \in Earned(b) PROVE ItComes(e)'
    <3>1. CASE e = EmbedKey(RawsOf(b), "repo")
      <4>1. RawsOf(b) \in Batch /\ "repo" \in Identity /\ e.kind = "embed" /\ e.of = RawsOf(b)
        BY <2>1, <3>1, EarnedIs, EmbedKeyIs DEF Identity
      <4>2. \A s \in e.of : VectorComes(s)'
        BY <1>1, <3>1, <4>1, EnqueuedVector
      <4> QED
        BY <4>1, <4>2 DEF ItComes
    <3>2. ASSUME NEW t \in Carries[b] \intersect Marked, e = SummarizeKey(t, "repo")
          PROVE  ItComes(e)'
      <4>1. "repo" \in Identity /\ e.kind = "summarize" /\ e.of = {t}
        BY <3>2, SummarizeKeyIs DEF Identity
      <4>2. SumComes(t)'
        BY <1>1, <3>2, <4>1, EnqueuedSummary
      <4> QED
        BY <4>1, <4>2 DEF ItComes
    <3> QED
      BY <2>1, <2>4, <3>1, <3>2, EarnedIs
  <2> QED
    BY <1>9, <2>1, <2>2, <2>3, <2>4 DEF Accounted, EarnedKept
<1>11. parsed' \subseteq Blob
  BY <1>2 DEF Typed, ContentTyped
<1> QED
  BY <1>2, <1>5, <1>9, <1>10, <1>11, WorkerAccounted

\* A summarizer's step that stores nothing.
LEMMA SummarizerAccounted ==
  ASSUME Typed, AllAccounted,
         NEW t \in Marked, NEW who \in Identity, NEW k, k = SummarizeKey(t, who),
         NEW at, NEW todo, Goto(k, at, todo),
         UNCHANGED <<parsed, summary, vectors, rows>>, lapsed \subseteq lapsed', SumComes(t)'
  PROVE  AllAccounted'
<1>1. k \in Key /\ k.kind = "summarize"
  BY SummarizeKeyIs
<1>2. \A j \in Key \ {k} : Stays(j)
  BY <1>1, TaskStays DEF Typed
<1>3. \A u \in Marked, w \in Identity : k = SummarizeKey(u, w) => u = t
  BY DEF SummarizeKey
<1>4. EarnedKept
  BY <1>1, <1>2, <1>3, LapsedGrows, WorkerKeeps
<1> QED
  BY <1>1, <1>2, <1>4, EnricherAccounted

LEMMA GuardSummaryAccounted ==
  ASSUME Typed, AllAccounted, NEW k \in Key, GuardSummary(k)
  PROVE  AllAccounted'
<1>1. UNCHANGED <<parsed, summary, vectors, rows>>
  BY DEF GuardSummary, content, stored
<1>2. PICK t \in Marked, who \in Identity : k = SummarizeKey(t, who)
  BY KeyCases DEF GuardSummary
<1>3. CASE Referenced(TheOnly(k.of))
  <2>1. Goto(k, "look", {}) /\ lapsed' = lapsed
    BY <1>3 DEF GuardSummary
  <2>2. works'[k].at = "look"
    BY <2>1, GotoAt DEF Typed
  <2>3. SumComes(t)'
    BY <1>2, <2>2, MakesNow
  <2> QED
    BY <1>1, <1>2, <2>1, <2>3, SummarizerAccounted
<1>4. CASE ~Referenced(TheOnly(k.of))
  <2>1. Goto(k, "settle", {}) /\ lapsed' = lapsed \union Delivers(k)
    BY <1>4 DEF GuardSummary
  <2>2. SumComes(t)'
    BY <1>2, <2>1, SummarizeKeyIs DEF SumComes
  <2> QED
    BY <1>1, <1>2, <2>1, <2>2, SummarizerAccounted
<1> QED
  BY <1>3, <1>4

LEMMA LookForSummaryAccounted ==
  ASSUME Typed, AllAccounted, NEW k \in Key, LookForSummary(k)
  PROVE  AllAccounted'
<1>1. UNCHANGED <<parsed, summary, vectors, rows, lapsed>> /\ works[k].at = "look"
  BY DEF LookForSummary, content, stored
<1>2. PICK t \in Marked, who \in Identity : k = SummarizeKey(t, who)
  BY <1>1, KeyCases, AtIs
<1>3. TheOnly(k.of) = t /\ k.who = who
  BY <1>2, SummarizeKeyIs
<1>4. CASE summary[t] = 0
  <2>1. Goto(k, "pay", {})
    BY <1>3, <1>4 DEF LookForSummary
  <2>2. works'[k].at = "pay"
    BY <2>1, GotoAt DEF Typed
  <2>3. SumComes(t)'
    BY <1>2, <2>2, MakesNow
  <2> QED
    BY <1>1, <1>2, <2>1, <2>3, SummarizerAccounted
<1>5. CASE summary[t] # 0
  <2> DEFINE todo == {EmbedKey({SmartOf(t, summary[t])}, who)}
  <2>1. Goto(k, "emit", todo)
    BY <1>3, <1>5, GotoIfAnyIs DEF LookForSummary, ExistingEarns
  <2>2. works'[k] = [at |-> "emit", todo |-> todo]
    BY <2>1, GotoIs DEF Typed
  <2>3. Makes(t, who)'
    BY <1>1, <1>2, <2>2 DEF Makes
  <2> QED
    BY <1>1, <1>2, <2>1, <2>3, MakesIs, SummarizerAccounted
<1> QED
  BY <1>4, <1>5

LEMMA PayForSummaryAccounted ==
  ASSUME Typed, AllAccounted, NEW k \in Key, PayForSummary(k)
  PROVE  AllAccounted'
<1>1. UNCHANGED <<parsed, summary, vectors, rows, lapsed>> /\ works[k].at = "pay"
  BY DEF PayForSummary, content, stored
<1>2. PICK t \in Marked, who \in Identity : k = SummarizeKey(t, who)
  BY <1>1, KeyCases, AtIs
<1>3. PICK todo : Goto(k, "put", todo)
  BY DEF PayForSummary
<1>4. works'[k].at = "put"
  BY <1>3, GotoAt DEF Typed
<1>5. SumComes(t)'
  BY <1>2, <1>4, MakesNow
<1> QED
  BY <1>1, <1>2, <1>3, <1>5, SummarizerAccounted

\* The summary another had stored is replaced; the vector of this one is next.
LEMMA PutSummaryAccounted ==
  ASSUME Typed, AllAccounted, NEW k \in Key, PutSummary(k)
  PROVE  AllAccounted'
<1>1. UNCHANGED <<parsed, vectors, rows, lapsed>> /\ Goto(k, "emit", works[k].todo)
  BY DEF PutSummary, content
<1>2. PICK t \in Marked, who \in Identity, v \in 1..MaxVersion :
        /\ k = SummarizeKey(t, who) /\ summary' = [summary EXCEPT ![t] = v]
        /\ works[k].todo = {EmbedKey({SmartOf(t, v)}, who)}
        /\ works'[k] = [at |-> "emit", todo |-> works[k].todo]
  BY PutSummaryTyped
<1>3. k.kind = "summarize"
  BY <1>2, SummarizeKeyIs
<1>4. \A j \in Key \ {k} : Stays(j)
  BY <1>1, TaskStays DEF Typed
<1>5. summary'[t] = v /\ \A u \in Marked \ {t} : summary'[u] = summary[u]
  BY <1>2, EnrichmentAssumption DEF Typed, SummaryTyped
<1>6. Makes(t, who)'
  BY <1>2, <1>5 DEF Makes
<1>7. SumComes(t)'
  BY <1>6, MakesIs
<1>8. \A u \in Marked, w \in Identity : k = SummarizeKey(u, w) => u = t
  BY <1>2 DEF SummarizeKey
<1>9. \A u \in Marked : summary'[u] = summary[u] \/ SumComes(u)'
  BY <1>5, <1>7
<1>10. EarnedKept
  BY <1>1, <1>3, <1>4, <1>7, <1>8, <1>9, LapsedGrows, WorkerKeeps
<1> QED
  BY <1>1, <1>3, <1>4, <1>10, EnricherAccounted

\* An embedder's step that leaves every source it led to led to, stored or
\* dropped.
LEMMA EmbedderAccounted ==
  ASSUME Typed, AllAccounted, NEW k \in Key, k.kind = "embed",
         NEW at, NEW todo, Goto(k, at, todo),
         UNCHANGED <<parsed, summary, rows>>, vectors \subseteq vectors', lapsed \subseteq lapsed',
         \A s \in k.of : Leads(k, s) => s \in todo \/ s \in vectors' \/ s \in lapsed'
  PROVE  AllAccounted'
<1>1. \A j \in Key \ {k} : Stays(j)
  BY TaskStays DEF Typed
<1>2. works'[k].todo = todo
  BY GotoAt DEF Typed
<1>3. \A s \in k.of : Leads(k, s) => Leads(k, s)' \/ s \in vectors' \/ s \in lapsed'
  BY <1>2 DEF Leads
<1>4. \A t \in Marked, who \in Identity : k # SummarizeKey(t, who)
  BY SummarizeKeyIs
<1>5. EarnedKept
  BY <1>1, <1>3, <1>4, LapsedGrows, WorkerKeeps
<1> QED
  BY <1>1, <1>5, EnricherAccounted

LEMMA FilterStoredAccounted ==
  ASSUME Typed, AllAccounted, NEW k \in Key, FilterStored(k)
  PROVE  AllAccounted'
<1>1. UNCHANGED <<parsed, summary, vectors, rows, lapsed>> /\ k.kind = "embed"
  BY AtIs DEF FilterStored, content, stored
<1>2. PICK at : Goto(k, at, k.of \ vectors)
  BY GotoIfAnyIs DEF FilterStored
<1>3. \A s \in k.of : s \in k.of \ vectors \/ s \in vectors'
  BY <1>1
<1> QED
  BY <1>1, <1>2, <1>3, EmbedderAccounted

\* An embedder past its filter leads to what it has in hand.
LEMMA InOneHand ==
  ASSUME Typed, NEW k \in Key, k.kind = "embed", works[k].at \in {"guard", "buy"},
         NEW s \in k.of, Leads(k, s)
  PROVE  s \in works[k].todo
<1>1. rows[k] = "running"
  BY AtIs
<1> QED
  BY <1>1 DEF Leads, Queued

LEMMA GuardVectorsAccounted ==
  ASSUME Typed, AllAccounted, NEW k \in Key, GuardVectors(k)
  PROVE  AllAccounted'
<1> DEFINE live == {s \in works[k].todo : SourceReferenced(s)}
<1>1. /\ UNCHANGED <<parsed, summary, vectors, rows>> /\ k.kind = "embed" /\ works[k].at = "guard"
      /\ GotoIfAny(k, "buy", live) /\ lapsed' = lapsed \union (works[k].todo \ live)
  BY DEF GuardVectors, content, stored
<1>2. PICK at : Goto(k, at, live)
  BY <1>1, GotoIfAnyIs
<1>3. \A s \in works[k].todo : s \in live \/ s \in lapsed'
  BY <1>1
<1> HIDE DEF live
<1>4. \A s \in k.of : Leads(k, s) => s \in live \/ s \in lapsed'
  BY <1>1, <1>3, InOneHand
<1> QED
  BY <1>1, <1>2, <1>4, EmbedderAccounted

LEMMA PutVectorsAccounted ==
  ASSUME Typed, AllAccounted, NEW k \in Key, PutVectors(k)
  PROVE  AllAccounted'
<1>1. /\ UNCHANGED <<parsed, summary, rows, lapsed>> /\ k.kind = "embed" /\ works[k].at = "buy"
      /\ Goto(k, "settle", {}) /\ vectors' = vectors \union works[k].todo
  BY AtIs DEF PutVectors, content
<1>2. \A s \in k.of : Leads(k, s) => s \in vectors'
  BY <1>1, InOneHand
<1> QED
  BY <1>1, <1>2, EmbedderAccounted

-----------------------------------------------------------------------------
(* Every step keeps it: walks, removal, boots and the collector.            *)

LEMMA EnrichersStay ==
  ASSUME Typed, \A j \in Key : j.kind # "scan" => Stays(j),
         UNCHANGED <<summary, vectors>>, lapsed \subseteq lapsed'
  PROVE  EarnedKept
<1>1. ASSUME NEW items \in Batch, NEW who \in Identity, NEW s \in items,
             Leads(EmbedKey(items, who), s)
      PROVE  Leads(EmbedKey(items, who), s)'
  BY <1>1, EmbedKeyIs, LeadStays
<1>2. ASSUME NEW t \in Marked, NEW who \in Identity, Makes(t, who)
      PROVE  SumComes(t)'
  BY <1>2, SummarizeKeyIs, MakesStay, MakesIs
<1>3. VectorsKept /\ SummariesKept
  BY <1>1, <1>2, SmartStored, LapsedGrows, NothingForgotten
<1> QED
  BY <1>3, EarnedStays DEF Typed, ContentTyped

LEMMA WalkAccounted ==
  ASSUME Typed, AllAccounted, NEW S \in SUBSET Blob, Walk(S)
  PROVE  AllAccounted'
<1> DEFINE keys == {ScanKey(b) : b \in S \ (IF added THEN held \intersect parsed ELSE parsed)}
<1>1. Enqueue(keys) /\ UNCHANGED <<parsed, summary, vectors, works>>
  BY DEF Walk, stored
<1>2. \A k \in keys : Delivers(k) = {}
  BY DEF Delivers, ScanKey
<1> HIDE DEF keys
<1>3. \A j \in Key : Stays(j)
  BY <1>1, EnqueueIs DEF Typed, Stays, Queued
<1>4. lapsed' = lapsed
  BY <1>1, <1>2 DEF Enqueue
<1>5. EarnedKept
  BY <1>1, <1>3, <1>4, EnrichersStay
<1>6. \A b \in parsed' : b \in parsed /\ Stays(ScanKey(b))
  BY <1>1, <1>3, ScanKeyIs DEF Typed, ContentTyped
<1> QED
  BY <1>5, <1>6, StillAccounted

\* A scan that had not handed over what it parsed is dropped with the root;
\* what it handed over stays.
LEMMA RemoveRootAccounted ==
  ASSUME Typed, AllAccounted, DropRoot
  PROVE  AllAccounted'
<1> DEFINE bs == {c \in parsed : rows[ScanKey(c)] = "pending" \/ works[ScanKey(c)].at = "parse"}
<1>1. /\ rows' = [k \in Key |-> IF k.kind = "scan" /\ rows[k] # "failed" THEN "none" ELSE rows[k]]
      /\ works' = [k \in Key |-> IF works[k].at = "parse" THEN NoWork ELSE works[k]]
      /\ lapsed' = lapsed \union UNION {UNION {Delivers(k) : k \in Earned(b)} : b \in bs}
      /\ UNCHANGED <<parsed, summary, vectors>>
  BY DEF DropRoot, stored
<1>2. \A j \in Key : j.kind # "scan" => Stays(j)
  BY <1>1, AtIs DEF Stays, Queued
<1>3. EarnedKept
  BY <1>1, <1>2, EnrichersStay
<1>4. ASSUME NEW b \in parsed' PROVE Accounted(b)'
  <2>1. b \in parsed /\ b \in Blob /\ Accounted(b)
    BY <1>1 DEF AllAccounted, Typed, ContentTyped
  <2> DEFINE k == ScanKey(b)
  <2>2. k \in Key /\ k.kind = "scan"
    BY <2>1, ScanKeyIs
  <2>3. CASE b \in bs
    <3>1. \A e \in Earned(b) : Delivers(e) \subseteq lapsed'
      BY <1>1, <2>3
    <3>2. \A e \in Earned(b) : ItComes(e)'
      BY <2>1, <3>1, LapsedComes
    <3> QED
      BY <3>2 DEF Accounted
  <2>4. CASE b \notin bs
    <3>1. works'[k] = works[k] /\ (rows[k] = "failed" => rows'[k] = "failed")
          /\ rows[k] # "pending" /\ works[k].at # "parse"
      BY <1>1, <2>1, <2>2, <2>4
    <3>2. Stays(k)
      BY <3>1 DEF Stays, Queued
    <3>3. ScanFirst(b) => ScanFirst(b)'
      BY <3>1, <3>2 DEF ScanFirst, Stays
    <3>4. \A e : StillOwes(b, e) => StillOwes(b, e)'
      BY <3>1 DEF StillOwes
    <3> QED
      BY <1>3, <2>1, <3>3, <3>4 DEF Accounted, EarnedKept
  <2> QED
    BY <2>3, <2>4
<1> QED
  BY <1>4 DEF AllAccounted

\* The sweeps queue what a parsed blob carries and the layer lacks, or leave it to
\* another boot and say so.
LEMMA RebootAccounted ==
  ASSUME Typed, AllAccounted, Reboot
  PROVE  AllAccounted'
<1> DEFINE here == Carried(parsed)
<1>1. UNCHANGED <<parsed, summary, vectors>>
  BY DEF Reboot, content, stored
<1> PICK raw \in UpTo(VectorSweep, RawMissing), smart \in UpTo(VectorSweep, SmartMissing),
         texts \in UpTo(SummarySweep, SummaryMissing) :
      /\ \A k \in Key : k \in Requeues(raw, smart, texts) => rows'[k] = "pending"
      /\ lapsed' = (RawMissing \ raw) \union (SmartMissing \ smart)
                     \union {SummaryOf(t) : t \in SummaryMissing \ texts}
  BY DEF Reboot
<1>2. here \subseteq Text
  BY EarnedIs DEF Carried, Typed, ContentTyped
<1>3. raw \subseteq RawMissing
  BY DEF UpTo
<1>4. "recovery" \in Identity
  BY DEF Identity
<1>5. ASSUME NEW items \in Batch, EmbedKey(items, "recovery") \in Requeues(raw, smart, texts),
             NEW s \in items
      PROVE  VectorComes(s)'
  <2>1. Leads(EmbedKey(items, "recovery"), s)'
    BY <1>4, <1>5, EmbedKeyIs DEF Leads, Queued
  <2> QED
    BY <1>4, <2>1, LeadIs
<1>6. ASSUME NEW t \in here PROVE VectorComes(RawOf(t))'
  <2>1. CASE RawOf(t) \in vectors
    BY <1>1, <2>1, StoredOrLapsed
  <2>2. CASE RawOf(t) \in raw
    <3> DEFINE taken == {u \in here : RawOf(u) \in raw}
    <3>1. raw = {RawOf(u) : u \in taken} /\ taken # {} /\ taken \subseteq Text
      BY <1>2, <1>3, <2>2 DEF RawMissing
    <3> HIDE DEF taken
    <3>2. raw \in Batch /\ EmbedKey(raw, "recovery") \in Requeues(raw, smart, texts)
      BY <2>2, <3>1, BatchIs DEF Requeues
    <3> QED
      BY <1>5, <2>2, <3>2
  <2>3. CASE RawOf(t) \notin vectors /\ RawOf(t) \notin raw
    <3>1. RawOf(t) \in lapsed'
      BY <2>3 DEF RawMissing
    <3> QED
      BY <3>1, StoredOrLapsed
  <2> QED
    BY <2>1, <2>2, <2>3
<1>7. ASSUME NEW t \in here \intersect Marked PROVE SumComes(t)'
  <2>1. CASE summary[t] = 0 /\ t \in texts
    <3>1. SummarizeKey(t, "recovery") \in Requeues(raw, smart, texts)
      BY <2>1 DEF Requeues
    <3>2. Queued(SummarizeKey(t, "recovery"))'
      BY <1>1, <1>4, <3>1, SummarizeKeyIs DEF Queued
    <3> QED
      BY <1>4, <3>2, MakesNow
  <2>2. CASE summary[t] = 0 /\ t \notin texts
    <3>1. SummaryOf(t) \in lapsed'
      BY <1>2, <2>2 DEF SummaryMissing
    <3> QED
      BY <3>1 DEF SumComes
  <2>3. CASE summary[t] # 0
    <3>1. PICK s : s = SmartOf(t, summary[t])
      OBVIOUS
    <3>2. VectorComes(s)'
      <4>1. CASE s \in vectors
        BY <1>1, <4>1, StoredOrLapsed
      <4>2. CASE s \in smart
        <5>1. {s} \in Batch
          BY <1>2, <2>3, <3>1, StoredIs, BatchIs
        <5>2. EmbedKey({s}, "recovery") \in Requeues(raw, smart, texts)
          BY <4>2 DEF Requeues
        <5> QED
          BY <1>5, <5>1, <5>2
      <4>3. CASE s \notin vectors /\ s \notin smart
        <5>1. s \in lapsed'
          BY <2>3, <3>1, <4>3 DEF SmartMissing
        <5> QED
          BY <5>1, StoredOrLapsed
      <4> QED
        BY <4>1, <4>2, <4>3
    <3>3. summary'[t] # 0 /\ SmartOf(t, summary'[t]) = s
      BY <1>1, <2>3, <3>1
    <3> QED
      BY <3>2, <3>3 DEF SumComes
  <2> QED
    BY <2>1, <2>2, <2>3
<1>8. ASSUME NEW b \in parsed, NEW e \in Earned(b) PROVE ItComes(e)'
  <2>1. b \in Blob /\ \A t \in Carries[b] : t \in here
    BY DEF Typed, ContentTyped, Carried
  <2>2. CASE e = EmbedKey(RawsOf(b), "repo")
    <3>1. e.kind = "embed" /\ e.of = RawsOf(b)
      BY <2>1, <2>2, EarnedIs, EmbedKeyIs DEF Identity
    <3>2. ASSUME NEW s \in RawsOf(b) PROVE VectorComes(s)'
      <4>1. PICK t \in Carries[b] : s = RawOf(t)
        BY DEF RawsOf
      <4> QED
        BY <1>6, <2>1, <4>1
    <3> QED
      BY <3>1, <3>2 DEF ItComes
  <2>3. ASSUME NEW t \in Carries[b] \intersect Marked, e = SummarizeKey(t, "repo")
        PROVE  ItComes(e)'
    <3>1. e.kind = "summarize" /\ e.of = {t}
      BY <2>3, SummarizeKeyIs DEF Identity
    <3> QED
      BY <1>7, <2>1, <3>1 DEF ItComes
  <2> QED
    BY <2>1, <2>2, <2>3, EarnedIs
<1> QED
  BY <1>1, <1>8 DEF AllAccounted, Accounted
\* A row goes only when none of what it would deliver is referenced, and all
\* of that is then said to be dropped.
LEMMA CollectJobsAccounted ==
  ASSUME Typed, AllAccounted, CollectJobs
  PROVE  AllAccounted'
<1>1. /\ rows' = [k \in Key |-> IF k \in UnreferencedJobs THEN "none" ELSE rows[k]]
      /\ lapsed' = lapsed \union {w \in UNION {Delivers(k) : k \in UnreferencedJobs} :
                                   ~SourceReferenced(w)}
      /\ UNCHANGED <<parsed, summary, vectors, works>>
  BY DEF CollectJobs, content, stored
<1>2. \A k \in Key \ UnreferencedJobs : Stays(k)
  BY <1>1 DEF Stays, Queued
<1>3. ASSUME NEW k \in UnreferencedJobs PROVE Delivers(k) \subseteq lapsed'
  <2>1. k \in Key /\ k.kind # "scan" /\ ~Wanted(k)
    BY DEF UnreferencedJobs
  <2>2. ASSUME NEW w \in Delivers(k) PROVE ~SourceReferenced(w)
    <3>1. ASSUME NEW t \in Marked, NEW who \in Identity, k = SummarizeKey(t, who)
          PROVE  ~SourceReferenced(w)
      <4>1. k.kind = "summarize" /\ TheOnly(k.of) = t /\ w = SummaryOf(t)
        BY <3>1, SummarizeKeyIs
      <4>2. ~Referenced(t) /\ w.text = t
        BY <2>1, <4>1 DEF Wanted, SummaryOf
      <4> QED
        BY <4>2 DEF SourceReferenced
    <3>2. ASSUME NEW items \in Batch, NEW who \in Identity, k = EmbedKey(items, who)
          PROVE  ~SourceReferenced(w)
      <4>1. k.kind = "embed" /\ w \in k.of
        BY <3>2, EmbedKeyIs
      <4> QED
        BY <2>1, <4>1 DEF Wanted
    <3> QED
      BY <2>1, <3>1, <3>2, KeyCases
  <2> QED
    BY <1>1, <2>2
<1>4. ASSUME NEW items \in Batch, NEW who \in Identity, NEW s \in items,
             Leads(EmbedKey(items, who), s)
      PROVE  Leads(EmbedKey(items, who), s)' \/ s \in lapsed'
  BY <1>2, <1>3, <1>4, EmbedKeyIs, LeadStays
<1>5. ASSUME NEW t \in Marked, NEW who \in Identity, Makes(t, who)
      PROVE  SumComes(t)'
  <2>1. CASE SummarizeKey(t, who) \in UnreferencedJobs
    BY <1>3, <2>1, SummarizeKeyIs DEF SumComes
  <2>2. CASE SummarizeKey(t, who) \notin UnreferencedJobs
    BY <1>1, <1>2, <1>5, <2>2, SummarizeKeyIs, MakesStay, MakesIs
  <2> QED
    BY <2>1, <2>2
<1>6. lapsed \subseteq lapsed' /\ UNCHANGED <<summary, vectors>>
  BY <1>1
<1>7. VectorsKept /\ SummariesKept
  BY <1>4, <1>5, <1>6, SmartStored, LapsedGrows, NothingForgotten
<1>8. EarnedKept
  BY <1>7, EarnedStays DEF Typed, ContentTyped
<1>9. ASSUME NEW b \in parsed' PROVE b \in parsed /\ Stays(ScanKey(b))
  BY <1>1, <1>2, ScanKeyIs DEF UnreferencedJobs, Typed, ContentTyped
<1> QED
  BY <1>8, <1>9, StillAccounted

\* Nothing but the content layer changes: what is still carried by a parsed
\* blob keeps what it had there.
LEMMA LayerAccounted ==
  ASSUME Typed, AllAccounted, UNCHANGED <<parsed, rows, works, lapsed>>,
         \A t \in Carried(parsed) : summary'[t] = summary[t],
         \A t \in Carried(parsed) : \A s \in {RawOf(t), SmartOf(t, summary[t])} :
           VectorComes(s) => VectorComes(s)'
  PROVE  AllAccounted'
<1>1. ASSUME NEW t \in Carried(parsed) \intersect Marked, SumComes(t) PROVE SumComes(t)'
  <2>1. summary'[t] = summary[t]
    OBVIOUS
  <2>2. CASE SummaryOf(t) \in lapsed
    BY <2>2 DEF SumComes
  <2>3. ASSUME NEW who \in Identity, Makes(t, who) PROVE SumComes(t)'
    <3>1. Stays(SummarizeKey(t, who))
      BY DEF Stays, Queued
    <3> QED
      BY <2>1, <2>3, <3>1, MakesStay, MakesIs
  <2>4. CASE summary[t] # 0 /\ VectorComes(SmartOf(t, summary[t]))
    <3>1. PICK s : s = SmartOf(t, summary[t])
      OBVIOUS
    <3>2. VectorComes(s)' /\ s = SmartOf(t, summary'[t])
      BY <2>1, <2>4, <3>1
    <3> QED
      BY <2>1, <2>4, <3>2 DEF SumComes
  <2> QED
    BY <1>1, <2>2, <2>3, <2>4 DEF SumComes
<1>2. ASSUME NEW b \in parsed, NEW e \in Earned(b), ItComes(e) PROVE ItComes(e)'
  <2>1. b \in Blob /\ \A t \in Carries[b] : t \in Carried(parsed)
    BY DEF Typed, ContentTyped, Carried
  <2>2. CASE e = EmbedKey(RawsOf(b), "repo")
    <3>1. e.kind = "embed" /\ e.of = RawsOf(b)
      BY <2>1, <2>2, EarnedIs, EmbedKeyIs DEF Identity
    <3>2. ASSUME NEW s \in RawsOf(b) PROVE VectorComes(s)'
      <4>1. PICK t \in Carries[b] : s = RawOf(t)
        BY DEF RawsOf
      <4>2. VectorComes(s) /\ t \in Carried(parsed)
        BY <1>2, <2>1, <3>1, <4>1 DEF ItComes
      <4> QED
        BY <4>1, <4>2
    <3> QED
      BY <3>1, <3>2 DEF ItComes
  <2>3. ASSUME NEW t \in Carries[b] \intersect Marked, e = SummarizeKey(t, "repo")
        PROVE  ItComes(e)'
    <3>1. e.kind = "summarize" /\ e.of = {t}
      BY <2>3, SummarizeKeyIs DEF Identity
    <3> QED
      BY <1>1, <1>2, <2>1, <3>1 DEF ItComes
  <2> QED
    BY <2>1, <2>2, <2>3, EarnedIs
<1>3. EarnedKept
  BY <1>2 DEF EarnedKept
<1>4. \A b \in parsed' : b \in parsed /\ Stays(ScanKey(b))
  BY DEF Stays, Queued
<1> QED
  BY <1>3, <1>4, StillAccounted

LEMMA CollectSummariesAccounted ==
  ASSUME Typed, AllAccounted, CollectSummaries
  PROVE  AllAccounted'
<1>1. /\ summary' = [t \in Text |-> IF t \in UnreferencedSummaries THEN 0 ELSE summary[t]]
      /\ UNCHANGED <<parsed, vectors, rows, works, lapsed>>
  BY DEF CollectSummaries, content
<1>2. \A t \in Carried(parsed) : t \in Text
  BY EarnedIs DEF Carried, Typed, ContentTyped
<1>3. \A t \in Carried(parsed) : summary'[t] = summary[t]
  BY <1>1, <1>2 DEF UnreferencedSummaries
<1>4. \A s : VectorComes(s) => VectorComes(s)'
  BY <1>1 DEF VectorComes, Queued
<1> QED
  BY <1>1, <1>3, <1>4, LayerAccounted

LEMMA CollectVectorsAccounted ==
  ASSUME Typed, AllAccounted, CollectVectors
  PROVE  AllAccounted'
<1>1. /\ vectors' = vectors \ UnreferencedVectors
      /\ UNCHANGED <<parsed, summary, rows, works, lapsed>>
  BY DEF CollectVectors, content
<1>2. \A s : s \notin UnreferencedVectors /\ VectorComes(s) => VectorComes(s)'
  BY <1>1 DEF VectorComes, Queued
<1>3. \A t \in Carried(parsed) : RawOf(t) \notin UnreferencedVectors
  BY DEF UnreferencedVectors, RawOf
<1>4. \A t \in Carried(parsed) : SmartOf(t, summary[t]) \notin UnreferencedVectors
  BY DEF UnreferencedVectors, SmartOf
<1>5. \A t \in Carried(parsed) : summary'[t] = summary[t]
  BY <1>1
<1> QED
  BY <1>1, <1>2, <1>3, <1>4, <1>5, LayerAccounted

LEMMA UnchangedAccounted ==
  ASSUME Typed, AllAccounted,
         UNCHANGED <<parsed, summary, vectors, rows, works, lapsed>>
  PROVE  AllAccounted'
<1>1. \A j : Stays(j)
  BY DEF Stays, Queued
<1>2. EarnedKept
  BY <1>1, EnrichersStay
<1> QED
  BY <1>1, <1>2, StillAccounted

LEMMA CollectAccounted ==
  ASSUME Typed, AllAccounted, Collect
  PROVE  AllAccounted'
<1>1. CASE CollectElements
  <2>1. parsed' = parsed \intersect held /\ UNCHANGED <<summary, vectors, rows, works, lapsed>>
    BY <1>1 DEF CollectElements, stored
  <2>2. \A j \in Key : Stays(j)
    BY <2>1 DEF Stays, Queued
  <2>3. EarnedKept
    BY <2>1, <2>2, EnrichersStay
  <2>4. \A b \in parsed' : b \in parsed /\ Stays(ScanKey(b))
    BY <2>1, <2>2, ScanKeyIs DEF Typed, ContentTyped
  <2> QED
    BY <2>3, <2>4, StillAccounted
<1>2. CASE EndPass
  <2>1. UNCHANGED <<parsed, summary, vectors, rows, works, lapsed>>
    BY <1>2 DEF EndPass, content, stored
  <2> QED
    BY <2>1, UnchangedAccounted
<1> QED
  BY <1>1, <1>2, CollectJobsAccounted, CollectSummariesAccounted, CollectVectorsAccounted
  DEF Collect

LEMMA NextAccounted ==
  ASSUME Typed, AllAccounted, [EnrichmentNext]_evars
  PROVE  AllAccounted'
<1>1. ASSUME NEW k \in Key, Work(k) PROVE AllAccounted'
  BY <1>1, SettleAccounted, ParseAccounted, EmitAccounted, GuardSummaryAccounted,
     LookForSummaryAccounted, PayForSummaryAccounted, PutSummaryAccounted,
     FilterStoredAccounted, GuardVectorsAccounted, PutVectorsAccounted
  DEF Work
<1>2. CASE UNCHANGED evars
  <2>1. UNCHANGED <<parsed, summary, vectors, rows, works, lapsed>>
    BY <1>2 DEF evars, content, stored
  <2> QED
    BY <2>1, UnchangedAccounted
<1> QED
  BY <1>1, <1>2, ClaimAccounted, FailAccounted, WalkAccounted, RemoveRootAccounted,
     RebootAccounted, CollectAccounted
  DEF EnrichmentNext

-----------------------------------------------------------------------------
(* The theorems.                                                            *)

\* What comes of a parse is what the property asks for.
LEMMA AccountedIs ==
  ASSUME Typed, AllAccounted
  PROVE  NothingStranded
<1> SUFFICES ASSUME NEW b \in held \intersect parsed, ~ScanComes(b), NEW t \in Carries[b]
             PROVE  /\ VectorComes(RawOf(t))
                    /\ t \in Marked =>
                         \/ SummaryComes(t)
                         \/ summary[t] # 0 /\ VectorComes(SmartOf(t, summary[t]))
  BY DEF NothingStranded
<1>1. b \in Blob /\ \A e \in Earned(b) : ItComes(e)
  BY DEF AllAccounted, Accounted, ScanFirst, StillOwes, ScanComes, Typed, ContentTyped
<1>2. VectorComes(RawOf(t))
  <2> DEFINE e == EmbedKey(RawsOf(b), "repo")
  <2>1. e \in Earned(b) /\ e.kind = "embed" /\ RawOf(t) \in e.of
    BY <1>1, EarnedIs, EmbedKeyIs DEF Identity, RawsOf
  <2> QED
    BY <1>1, <2>1 DEF ItComes
<1>3. ASSUME t \in Marked
      PROVE  \/ SummaryComes(t)
             \/ summary[t] # 0 /\ VectorComes(SmartOf(t, summary[t]))
  <2> DEFINE e == SummarizeKey(t, "repo")
  <2>1. e \in Earned(b) /\ e.kind = "summarize" /\ t \in e.of
    BY <1>1, <1>3, EarnedIs, SummarizeKeyIs DEF Identity
  <2>2. SumComes(t)
    BY <1>1, <2>1 DEF ItComes
  <2> QED
    BY <2>2 DEF SumComes, Makes, SummaryComes
<1> QED
  BY <1>2, <1>3

\* The invariant: whatever crashes, retries, removals, walks and collections
\* interleave, what the parse of a blob earned, held or not, is still to be
\* queued, or comes, or was dropped since the boot and is said so.
THEOREM EnrichmentInvariance == EnrichmentSpec => [](Typed /\ AllAccounted)
<1>1. EnrichmentInit => Typed /\ AllAccounted
  BY ContentInitTyped DEF EnrichmentInit, AllAccounted
<1>2. Typed /\ AllAccounted /\ [EnrichmentNext]_evars => Typed' /\ AllAccounted'
  BY ContentStepTyped, NextAccounted
<1> QED
  BY <1>1, <1>2, PTL DEF EnrichmentSpec

\* No content that a root holds and the store has parsed is left without its
\* vectors and its summary with nothing on the way to make them.
THEOREM NothingIsStranded == EnrichmentSpec => []NothingStranded
<1>1. Typed /\ AllAccounted => NothingStranded
  BY AccountedIs
<1> QED
  BY <1>1, EnrichmentInvariance, PTL

-----------------------------------------------------------------------------
(* The two side by side, as MCContent composes them.                       *)

\* The index of a root and the content layer stay well formed, whichever of them
\* a behaviour is of.
THEOREM ContentTypeCorrect == MCSpec => []ContentTypeOK
<1>1. MCInit => IndexInit /\ EnrichmentInit
  BY DEF MCInit
<1>2. [MCNext]_mcvars => [IndexNext]_ivars /\ [EnrichmentNext]_evars
  BY DEF MCNext, mcvars, OfIndex, OfContent
<1>3. IndexSteps => []IndexTypeOK
  BY IndexAssumption, Bookkeeping, PTL
<1>4. EnrichmentInit => Typed
  BY ContentInitTyped
<1>5. Typed /\ [EnrichmentNext]_evars => Typed'
  BY ContentStepTyped
<1>6. IndexTypeOK /\ Typed => ContentTypeOK
  BY TypedIs DEF ContentTypeOK
<1> QED
  BY <1>1, <1>2, <1>3, <1>4, <1>5, <1>6, PTL DEF MCSpec, IndexSteps
=============================================================================
