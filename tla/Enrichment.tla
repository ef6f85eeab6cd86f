------------------------------ MODULE Enrichment ------------------------------
(***************************************************************************)
(* The content layer and what fills and empties it: the scan's enqueues     *)
(* and the summarize and embed handlers (crates/daemon/src/enrich.rs), the  *)
(* sweeps of a boot (crates/daemon/src/boot.rs, crates/store/src/smart.rs), *)
(* removal and the collector (crates/store/src/roots.rs).                   *)
(*                                                                         *)
(* One root, one summariser and one embedder.  A parse is atomic, and its   *)
(* raw vectors fit one batch.  A summary's text is the number of times its  *)
(* text was summarised: no two answers of a model are alike.  The queue is  *)
(* reduced to the state of each key's row; JobStore has the rest of it.     *)
(* Turns, which hold content as paths do, are left out.                     *)
(***************************************************************************)
EXTENDS Naturals, FiniteSets

CONSTANTS
  Blob,        \* file contents
  Text,        \* raw hashes
  Carries,     \* Blob -> the texts of its elements
  Marked,      \* the texts that earn a summary
  Workers,     \* jobs that run at the same time
  FirstHeld,   \* what the root maps when it is added
  VectorSweep, \* the missing vectors of either kind that one boot queues
  SummarySweep, \* the missing summaries that one boot queues
  MaxVersion,  \* bound on the summaries bought for one text
  Budgets      \* bounds: how many changes, faults and boots may come

ASSUME EnrichmentAssumption ==
  /\ Carries \in [Blob -> (SUBSET Text) \ {{}}] /\ Marked \subseteq Text
  /\ FirstHeld \subseteq Blob
  /\ Workers \in Nat \ {0} /\ MaxVersion \in Nat /\ VectorSweep \in Nat /\ SummarySweep \in Nat
  /\ Budgets \subseteq [changes : Nat, faults : Nat, boots : Nat]

VARIABLES
  added,     \* the root is registered
  held,      \* worktree_files: the blobs it maps
  parsed,    \* elements: the blobs parsed
  summary,   \* smart_content: Text -> the version stored, or 0
  vectors,   \* embeddings_1024
  rows,       \* Key -> the state of its row
  works,      \* Key -> what its worker is doing
  gc,        \* the collector's level, or 0 between passes
  bought,    \* Text -> the summaries paid for
  lapsed,    \* what was dropped, asked of a row already running, or over a sweep's limit
  left       \* what is left of the budget

content == <<added, held, parsed>>
stored == <<summary, vectors>>
evars == <<content, stored, rows, works, gc, bought, lapsed, left>>

RawOf(t) == [kind |-> "raw", text |-> t, version |-> 0]
SmartOf(t, v) == [kind |-> "smart", text |-> t, version |-> v]
SummaryOf(t) == [kind |-> "summary", text |-> t, version |-> 0]

\* What a vector is of: the hash of a text, or of a summary's text.
Source == {RawOf(t) : t \in Text} \union {SmartOf(t, v) : t \in Marked, v \in 1..MaxVersion}

\* Dedupe keys.  A boot's sweeps queue under an identity of their own.
Identity == {"repo", "recovery"}

ScanKey(b) == [kind |-> "scan", who |-> "repo", of |-> {b}]
SummarizeKey(t, who) == [kind |-> "summarize", who |-> who, of |-> {t}]
EmbedKey(items, who) == [kind |-> "embed", who |-> who, of |-> items]

Batch == {{RawOf(t) : t \in ts} : ts \in (SUBSET Text) \ {{}}}
           \union {{SmartOf(t, v)} : t \in Marked, v \in 1..MaxVersion}

Key == {ScanKey(b) : b \in Blob}
         \union {SummarizeKey(t, who) : t \in Marked, who \in Identity}
         \union {EmbedKey(items, who) : items \in Batch, who \in Identity}

TheOnly(S) == CHOOSE x \in S : TRUE

NoWork == [at |-> "idle", todo |-> {}]

\* A root has just been added.
EnrichmentInit ==
  /\ added = TRUE /\ held = FirstHeld /\ parsed = {}
  /\ summary = [t \in Text |-> 0] /\ vectors = {}
  /\ rows = [k \in Key |->
              IF k.kind = "scan" /\ k.of \subseteq FirstHeld THEN "pending" ELSE "none"]
  /\ works = [k \in Key |-> NoWork]
  /\ gc = 0
  /\ bought = [t \in Text |-> 0] /\ lapsed = {}
  /\ left \in Budgets

Carried(blobs) == UNION {Carries[b] : b \in blobs}

\* held_by_a_live_root, asked of the elements that carry the text.
Referenced(t) == t \in Carried(held \intersect parsed)

\* The source's row is there, and reaches a referenced element.
SourceReferenced(s) ==
  Referenced(s.text) /\ (s.kind = "smart" => summary[s.text] = s.version)

-----------------------------------------------------------------------------
(* The queue.                                                              *)

\* What a row would deliver.
Delivers(k) == IF k.kind = "summarize" THEN {SummaryOf(t) : t \in k.of}
               ELSE IF k.kind = "embed" THEN k.of ELSE {}

\* A live row absorbs the enqueue, and one that runs is not run again for it.
Enqueue(keys) ==
  /\ rows' = [k \in Key |-> IF k \in keys /\ rows[k] # "running" THEN "pending" ELSE rows[k]]
  /\ lapsed' = LET late == UNION {Delivers(k) : k \in {j \in keys : rows[j] = "running"}}
               IN  (lapsed \ UNION {Delivers(k) : k \in keys}) \union late

SpendOn(what) == left[what] > 0 /\ left' = [left EXCEPT ![what] = @ - 1]

Goto(k, at, todo) == works' = [works EXCEPT ![k] = [at |-> at, todo |-> todo]]

GotoIfAny(k, at, todo) == Goto(k, IF todo = {} THEN "settle" ELSE at, todo)

\* A row that was deleted under its worker stays deleted.
Close(k, state) ==
  /\ rows' = [rows EXCEPT ![k] = IF @ = "running" THEN state ELSE @]
  /\ works' = [works EXCEPT ![k] = NoWork]

Begin(k) == IF k.kind = "scan" THEN "parse" ELSE IF k.kind = "summarize" THEN "guard" ELSE "filter"

ClaimRow(k) ==
  /\ rows[k] = "pending" /\ works[k].at = "idle"
  /\ Cardinality({j \in Key : works[j].at # "idle"}) < Workers
  /\ rows' = [rows EXCEPT ![k] = "running"]
  /\ Goto(k, Begin(k), {})
  /\ UNCHANGED <<content, stored, gc, bought, lapsed, left>>

SettleRow(k) ==
  /\ works[k].at = "settle"
  /\ Close(k, "none")
  /\ UNCHANGED <<content, stored, gc, bought, lapsed, left>>

\* The store or the provider refuses: tried again, or out of attempts.
Fail(k) ==
  /\ works[k].at # "idle" /\ SpendOn("faults")
  /\ \E state \in {"pending", "failed"} : Close(k, state)
  /\ lapsed' = IF k.kind = "scan" /\ rows[k] # "running"
               THEN lapsed \union UNION {Delivers(j) : j \in works[k].todo} ELSE lapsed
  /\ UNCHANGED <<content, stored, gc, bought>>

-----------------------------------------------------------------------------
(* The scan job's part: parse, then enqueue_for_tree.                      *)

\* What a parse earns, whether or not it was there already.
Earned(b) == {EmbedKey({RawOf(t) : t \in Carries[b]}, "repo")}
               \union {SummarizeKey(t, "repo") : t \in Carries[b] \intersect Marked}

Parse(k) ==
  /\ works[k].at = "parse"
  /\ parsed' = parsed \union k.of
  /\ GotoIfAny(k, "emit", Earned(TheOnly(k.of)))
  /\ UNCHANGED <<added, held, stored, rows, gc, bought, lapsed, left>>

Emit(k) ==
  /\ works[k].at = "emit"
  /\ \E e \in works[k].todo :
       /\ Enqueue({e})
       /\ GotoIfAny(k, "emit", works[k].todo \ {e})
  /\ UNCHANGED <<content, stored, gc, bought, left>>

-----------------------------------------------------------------------------
(* summarize                                                               *)

\* raw_hash_is_referenced, at the point of spend.
GuardSummary(k) ==
  /\ works[k].at = "guard" /\ k.kind = "summarize"
  /\ IF Referenced(TheOnly(k.of))
     THEN Goto(k, "look", {}) /\ UNCHANGED lapsed
     ELSE Goto(k, "settle", {}) /\ lapsed' = lapsed \union Delivers(k)
  /\ UNCHANGED <<content, stored, rows, gc, bought, left>>

\* What a summary that is there still earns: its own vector.
ExistingEarns(k, t) == {EmbedKey({SmartOf(t, summary[t])}, k.who)}

LookForSummary(k) ==
  LET t == TheOnly(k.of)
  IN  /\ works[k].at = "look"
      /\ IF summary[t] = 0 THEN Goto(k, "pay", {})
         ELSE GotoIfAny(k, "emit", ExistingEarns(k, t))
      /\ UNCHANGED <<content, stored, rows, gc, bought, lapsed, left>>

PayForSummary(k) ==
  LET t == TheOnly(k.of)
  IN  /\ works[k].at = "pay" /\ bought[t] < MaxVersion
      /\ bought' = [bought EXCEPT ![t] = @ + 1]
      /\ Goto(k, "put", {EmbedKey({SmartOf(t, bought'[t])}, k.who)})
      /\ UNCHANGED <<content, stored, rows, gc, lapsed, left>>

PutSummary(k) ==
  LET s == TheOnly(TheOnly(works[k].todo).of)
  IN  /\ works[k].at = "put"
      /\ summary' = [summary EXCEPT ![s.text] = s.version]
      /\ Goto(k, "emit", works[k].todo)
      /\ UNCHANGED <<content, vectors, rows, gc, bought, lapsed, left>>

-----------------------------------------------------------------------------
(* embed_items                                                             *)

FilterStored(k) ==
  /\ works[k].at = "filter"
  /\ GotoIfAny(k, "guard", k.of \ vectors)
  /\ UNCHANGED <<content, stored, rows, gc, bought, lapsed, left>>

\* referenced_source_hashes
GuardVectors(k) ==
  LET live == {s \in works[k].todo : SourceReferenced(s)}
  IN  /\ works[k].at = "guard" /\ k.kind = "embed"
      /\ GotoIfAny(k, "buy", live)
      /\ lapsed' = lapsed \union (works[k].todo \ live)
      /\ UNCHANGED <<content, stored, rows, gc, bought, left>>

\* The provider calls, and one transaction for the vectors.
PutVectors(k) ==
  /\ works[k].at = "buy"
  /\ vectors' = vectors \union works[k].todo
  /\ Goto(k, "settle", {})
  /\ UNCHANGED <<content, summary, rows, gc, bought, lapsed, left>>

-----------------------------------------------------------------------------
(* Walks, removal and boots.                                               *)

\* A walk: what is new at its path or unparsed is queued, and in a root just
\* added only what is unparsed.
Walk(S) ==
  /\ SpendOn("changes")
  /\ added' = TRUE /\ held' = S
  /\ Enqueue({ScanKey(b) : b \in S \ (IF added THEN held \intersect parsed ELSE parsed)})
  /\ UNCHANGED <<parsed, stored, works, gc, bought>>

\* remove_root: its scans go, and one claimed just before does nothing; the
\* enrichment queued stays.
DropRoot ==
  /\ added /\ SpendOn("changes")
  /\ added' = FALSE /\ held' = {}
  /\ rows' = [k \in Key |-> IF k.kind = "scan" /\ rows[k] # "failed" THEN "none" ELSE rows[k]]
  /\ works' = [k \in Key |-> IF works[k].at = "parse" THEN NoWork ELSE works[k]]
  /\ lapsed' = lapsed \union UNION {UNION {Delivers(k) : k \in Earned(b)} :
                                     b \in {c \in parsed : \/ rows[ScanKey(c)] = "pending"
                                                         \/ works[ScanKey(c)].at = "parse"}}
  /\ UNCHANGED <<parsed, stored, gc, bought>>

\* What an element carries and the content layer lacks.
RawMissing == {RawOf(t) : t \in Carried(parsed)} \ vectors
SmartMissing == {SmartOf(t, summary[t]) : t \in {u \in Carried(parsed) : summary[u] # 0}} \ vectors
SummaryMissing == {t \in Carried(parsed) \intersect Marked : summary[t] = 0}

\* What a sweep with a limit may take of it.
UpTo(limit, missing) ==
  IF Cardinality(missing) <= limit THEN {missing}
                                   ELSE {some \in SUBSET missing : Cardinality(some) = limit}

\* requeue_missing_vectors and requeue_missing_summaries.
Requeues(raw, smart, texts) ==
  (IF raw = {} THEN {} ELSE {EmbedKey(raw, "recovery")})
    \union {EmbedKey({s}, "recovery") : s \in smart}
    \union {SummarizeKey(t, "recovery") : t \in texts}

\* The process dies and another boots: running rows and enrichment that had
\* failed are queued again, and so is what is missing, before any job runs.  What
\* is over a sweep's limit is left for another boot.
Reboot ==
  /\ SpendOn("boots")
  /\ \E raw \in UpTo(VectorSweep, RawMissing), smart \in UpTo(VectorSweep, SmartMissing),
        texts \in UpTo(SummarySweep, SummaryMissing) :
       /\ rows' = [k \in Key |->
                    IF \/ k \in Requeues(raw, smart, texts)
                       \/ rows[k] = "running" \/ (rows[k] = "failed" /\ k.kind # "scan")
                    THEN "pending" ELSE rows[k]]
       /\ lapsed' = (RawMissing \ raw) \union (SmartMissing \ smart)
                      \union {SummaryOf(t) : t \in SummaryMissing \ texts}
  /\ works' = [k \in Key |-> NoWork]
  /\ gc' = 0
  /\ UNCHANGED <<content, stored, bought>>

-----------------------------------------------------------------------------
(* collect_garbage: four levels from the top, each drained; a statement     *)
(* that finds nothing is no step.                                          *)

\* Mutant: the row is asked for the one hash an embed row does not have.
WantedByHash(k) == k.kind = "summarize" /\ Referenced(TheOnly(k.of))

\* job_is_still_wanted: any one of its items is.
Wanted(k) ==
  IF k.kind = "summarize" THEN Referenced(TheOnly(k.of)) ELSE \E s \in k.of : SourceReferenced(s)

UnreferencedJobs == {k \in Key : k.kind # "scan" /\ rows[k] = "pending" /\ ~Wanted(k)}

UnreferencedSummaries == {t \in Text : summary[t] # 0 /\ t \notin Carried(parsed)}

\* Mutant: only vectors of summaries are looked at.
UnreferencedVectorsOfSummaries ==
  {s \in vectors : s.kind = "smart" /\ summary[s.text] # s.version}

UnreferencedVectors ==
  {s \in vectors : IF s.kind = "raw" THEN s.text \notin Carried(parsed) ELSE summary[s.text] # s.version}

\* The pass is at this level, or comes to it having found nothing above.
Level(n) == gc <= n /\ gc' = n

CollectJobs ==
  /\ Level(1) /\ UnreferencedJobs # {}
  /\ rows' = [k \in Key |-> IF k \in UnreferencedJobs THEN "none" ELSE rows[k]]
  /\ lapsed' = lapsed \union {w \in UNION {Delivers(k) : k \in UnreferencedJobs} :
                               ~SourceReferenced(w)}
  /\ UNCHANGED <<content, stored, works, bought, left>>

CollectElements ==
  /\ Level(2) /\ ~(parsed \subseteq held)
  /\ parsed' = parsed \intersect held
  /\ UNCHANGED <<added, held, stored, rows, works, bought, lapsed, left>>

CollectSummaries ==
  /\ Level(3) /\ UnreferencedSummaries # {}
  /\ summary' = [t \in Text |-> IF t \in UnreferencedSummaries THEN 0 ELSE summary[t]]
  /\ UNCHANGED <<content, vectors, rows, works, bought, lapsed, left>>

CollectVectors ==
  /\ Level(4) /\ UnreferencedVectors # {}
  /\ vectors' = vectors \ UnreferencedVectors
  /\ UNCHANGED <<content, summary, rows, works, bought, lapsed, left>>

\* Nothing is found below, or a statement fails.
EndPass ==
  /\ gc # 0 /\ gc' = 0
  /\ UNCHANGED <<content, stored, rows, works, bought, lapsed, left>>

Collect == CollectJobs \/ CollectElements \/ CollectSummaries \/ CollectVectors \/ EndPass

-----------------------------------------------------------------------------

Work(k) ==
  \/ SettleRow(k) \/ Parse(k) \/ Emit(k)
  \/ GuardSummary(k) \/ LookForSummary(k) \/ PayForSummary(k) \/ PutSummary(k)
  \/ FilterStored(k) \/ GuardVectors(k) \/ PutVectors(k)

EnrichmentNext ==
  \/ \E k \in Key : ClaimRow(k) \/ Work(k) \/ Fail(k)
  \/ \E S \in SUBSET Blob : Walk(S)
  \/ DropRoot \/ Reboot \/ Collect

\* The runner claims what is due, its handlers end, and the collector's tick
\* comes round.
EnrichmentFairness ==
  /\ WF_evars(\E k \in Key : ClaimRow(k)) /\ WF_evars(\E k \in Key : Work(k))
  /\ WF_evars(Collect)

EnrichmentSpec == EnrichmentInit /\ [][EnrichmentNext]_evars /\ EnrichmentFairness

-----------------------------------------------------------------------------
(* Properties.                                                              *)

EnrichmentTypeOK ==
  /\ added \in BOOLEAN /\ held \subseteq Blob /\ parsed \subseteq Blob
  /\ summary \in [Text -> 0..MaxVersion] /\ vectors \subseteq Source
  /\ rows \in [Key -> {"none", "pending", "running", "failed"}]
  /\ works \in [Key -> [at : {"idle", "parse", "emit", "guard", "look", "pay", "put", "filter",
                             "buy", "settle"},
                       todo : SUBSET (Key \union Source)]]
  /\ \A k \in Key : rows[k] = "running" => works[k].at # "idle"
  /\ gc \in 0..4
  /\ bought \in [Text -> 0..MaxVersion] /\ lapsed \subseteq Source \union {SummaryOf(t) : t \in Marked}
  /\ left \in [{"changes", "faults", "boots"} -> Nat]

Queued(k) == rows[k] \in {"pending", "failed"}

\* A row, or a worker that has not finished, still leads to it.
SummaryComes(t) ==
  \/ SummaryOf(t) \in lapsed
  \/ \E who \in Identity :
       LET k == SummarizeKey(t, who)
       IN  Queued(k) \/ works[k].at \in {"guard", "look", "pay", "put", "emit"}

VectorComes(s) ==
  \/ s \in vectors \union lapsed
  \/ \E items \in Batch, who \in Identity :
       LET k == EmbedKey(items, who)
       IN  s \in items /\ (Queued(k) \/ works[k].at = "filter" \/ s \in works[k].todo)

ScanComes(b) == Queued(ScanKey(b)) \/ works[ScanKey(b)].at \in {"parse", "emit"}

\* "Invisible to search forever with nothing reporting a problem" does not
\* happen: whatever crashes, retries, removals, walks and collections
\* interleave, content that a root holds and the store has parsed has its
\* vectors and its summary, or a row of the queue leads to them.  Left out is
\* what the spend guard, the collector or a running row dropped since the boot,
\* and what was over the limit of the boot's sweep.
NothingStranded ==
  \A b \in held \intersect parsed : ScanComes(b) \/ \A t \in Carries[b] :
    /\ VectorComes(RawOf(t))
    /\ t \in Marked =>
         \/ SummaryComes(t)
         \/ summary[t] # 0 /\ VectorComes(SmartOf(t, summary[t]))

\* Once the roots are left alone, what no root holds is gone from every level
\* for good, though handlers still store what they bought for it.
GarbageGoes ==
  <>[][UNCHANGED held]_evars =>
    <>[](/\ parsed \subseteq held
         /\ \A t \in Text : summary[t] # 0 => t \in Carried(held)
         /\ \A s \in vectors : s.kind = "raw" => s.text \in Carried(held)
         /\ \A s \in vectors : s.kind = "smart" => summary[s.text] = s.version)

\* "Getting it wrong destroys paid LLM output for a root that is still
\* registered": the collector keeps a summary of text that a registered root
\* holds.
PaidOutputSurvives ==
  [][\A t \in Text : summary[t] # 0 /\ summary'[t] = 0 => t \notin Carried(held)]_evars
=============================================================================
