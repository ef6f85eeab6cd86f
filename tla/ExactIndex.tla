------------------------------ MODULE ExactIndex ------------------------------
(***************************************************************************)
(* The binary copy of the vectors that exact search may rank on: the        *)
(* triggers of migration 0033, the fill of `doctor exact-index` and the     *)
(* checks that keep its ready mark honest (crates/store/src/exact_index.rs, *)
(* crates/daemon/src/exact_index_guard.rs).                                 *)
(*                                                                         *)
(* Postgres is modelled row by row: what is committed, what an open         *)
(* transaction holds, and who waits for whom.  A statement reads what was   *)
(* committed when it began; a unique key waits for the transaction that     *)
(* has it in hand; a DELETE neither sees nor waits for a row that is not    *)
(* committed.  The vectors' key order is that of the naturals.              *)
(***************************************************************************)
EXTENDS Naturals, FiniteSets

CONSTANTS
  Vectors,    \* how many keys there are
  Value,      \* what a vector may be
  NoValue,    \* no row under the key
  Batch,      \* BACKFILL_BATCH
  MaxWrites,  \* bound on the writing transactions
  MaxAround,  \* bound on the writes that go around the triggers
  MaxBuilds   \* bound on the fills that are asked for

ASSUME ExactAssumption ==
  /\ Vectors \in Nat /\ Batch \in Nat \ {0} /\ NoValue \notin Value
  /\ MaxWrites \in Nat /\ MaxAround \in Nat /\ MaxBuilds \in Nat

VARIABLES
  vectors,  \* embeddings_1024: key -> value
  copies,   \* embeddings_1024_bq: key -> the value its bits are of
  ready,    \* the copy's row in search_index_ready
  writer,   \* key -> the open transaction that writes its vector
  build,    \* the fill in progress
  guard,    \* the check in progress
  around,   \* keys last written around the triggers
  tries     \* how many of each bounded thing have been

xvars == <<vectors, copies, ready, writer, build, guard, around, tries>>

Place == 1..Vectors
Stores == [Place -> Value \union {NoValue}]
None == [k \in Place |-> NoValue]
NoWriter == [at |-> "idle", value |-> NoValue]
NoBuild == [at |-> "idle", after |-> 0, upto |-> 0, seen |-> None, todo |-> {}, filled |-> {}]

\* Vectors stored before the migration have no copy.
ExactInit ==
  /\ vectors \in Stores /\ copies = None /\ ready = FALSE
  /\ writer = [k \in Place |-> NoWriter]
  /\ build = NoBuild /\ guard = "idle"
  /\ around = {}
  /\ tries = [writes |-> 0, around |-> 0, builds |-> 0]

Try(what, bound) == tries[what] < bound /\ tries' = [tries EXCEPT ![what] = @ + 1]

-----------------------------------------------------------------------------
(* The writers: put_embeddings, and the collector's deletes.                *)

\* The row is locked until its transaction ends.
PutVector(k) ==
  /\ writer[k].at = "idle"
  /\ Try("writes", MaxWrites)
  /\ \E v \in Value \union {NoValue} :
       /\ v = NoValue => vectors[k] # NoValue
       /\ writer' = [writer EXCEPT ![k] = [at |-> "trigger", value |-> v]]
  /\ UNCHANGED <<vectors, copies, ready, build, guard, around>>

\* The upsert waits for a fill that has the key in hand; the delete of a copy
\* that is not committed takes none.
TriggerFires(k) ==
  /\ writer[k].at = "trigger"
  /\ writer[k].value # NoValue => k \notin build.filled
  /\ writer' = [writer EXCEPT ![k].at =
                  IF writer[k].value = NoValue /\ copies[k] = NoValue THEN "bare" ELSE "commit"]
  /\ UNCHANGED <<vectors, copies, ready, build, guard, around, tries>>

Copied(k) == IF writer[k].at = "bare" THEN copies[k] ELSE writer[k].value

CommitVector(k) ==
  /\ writer[k].at \in {"commit", "bare"}
  /\ vectors' = [vectors EXCEPT ![k] = writer[k].value]
  /\ copies' = [copies EXCEPT ![k] = Copied(k)]
  /\ writer' = [writer EXCEPT ![k] = NoWriter]
  /\ around' = around \ {k}
  /\ UNCHANGED <<ready, build, guard, tries>>

AbortVector(k) ==
  /\ writer[k].at # "idle"
  /\ writer' = [writer EXCEPT ![k] = NoWriter]
  /\ UNCHANGED <<vectors, copies, ready, build, guard, around, tries>>

\* A copy deleted by hand, or a vector restored or loaded without its trigger.
WriteAround(k) ==
  /\ writer[k].at = "idle" /\ k \notin build.filled
  /\ Try("around", MaxAround)
  /\ \/ copies' = [copies EXCEPT ![k] = NoValue] /\ UNCHANGED vectors
     \/ \E v \in Value : vectors' = [vectors EXCEPT ![k] = v] /\ UNCHANGED copies
  /\ around' = around \union {k}
  /\ UNCHANGED <<ready, writer, build, guard>>

-----------------------------------------------------------------------------
(* The fill.                                                               *)

BeginBuild ==
  /\ build.at = "idle"
  /\ Try("builds", MaxBuilds)
  /\ build' = [NoBuild EXCEPT !.at = "bound"]
  /\ UNCHANGED <<vectors, copies, ready, writer, guard, around>>

\* Past the last batch, in key order.
Ahead == {k \in Place : k > build.after /\ vectors[k] # NoValue}

\* The key that ends this batch, or 0 when it is the last.
Bound ==
  LET ends == {k \in Ahead : Cardinality({j \in Ahead : j <= k}) = Batch}
  IN  IF ends = {} THEN 0 ELSE CHOOSE k \in ends : TRUE

ReadBound ==
  /\ build.at = "bound"
  /\ build' = [build EXCEPT !.at = "begin", !.upto = Bound]
  /\ UNCHANGED <<vectors, copies, ready, writer, guard, around, tries>>

\* The INSERT takes its snapshot.
BeginBatch ==
  /\ build.at = "begin"
  /\ build' = [build EXCEPT !.at = "insert", !.seen = vectors,
                 !.todo = {k \in Ahead : build.upto = 0 \/ k <= build.upto}]
  /\ UNCHANGED <<vectors, copies, ready, writer, guard, around, tries>>

\* Another transaction has the copy's key in hand.
InHand(k) == writer[k].at = "commit"

\* Mutant: ON CONFLICT DO UPDATE.
NeverHasCopy(k) == FALSE

HasCopy(k) == copies[k] # NoValue

\* ON CONFLICT DO NOTHING.
FillOne(k) ==
  /\ build.at = "insert" /\ k \in build.todo /\ ~InHand(k)
  /\ build' = [build EXCEPT !.todo = @ \ {k},
                 !.filled = IF HasCopy(k) THEN @ ELSE @ \union {k}]
  /\ UNCHANGED <<vectors, copies, ready, writer, guard, around, tries>>

CommitBatch ==
  /\ build.at = "insert" /\ build.todo = {}
  /\ copies' = [k \in Place |-> IF k \in build.filled THEN build.seen[k] ELSE copies[k]]
  /\ build' = IF build.upto = 0 THEN [NoBuild EXCEPT !.at = "count"]
                                 ELSE [NoBuild EXCEPT !.at = "bound", !.after = build.upto]
  /\ UNCHANGED <<vectors, ready, writer, guard, around, tries>>

\* exact_index_coverage: one statement over both tables.
AllCopied == \A k \in Place : vectors[k] # NoValue => copies[k] # NoValue

CountBuild ==
  /\ build.at = "count"
  /\ build' = IF AllCopied THEN [NoBuild EXCEPT !.at = "mark"] ELSE NoBuild
  /\ UNCHANGED <<vectors, copies, ready, writer, guard, around, tries>>

MarkReady ==
  /\ build.at = "mark"
  /\ ready' = TRUE
  /\ build' = NoBuild
  /\ UNCHANGED <<vectors, copies, writer, guard, around, tries>>

\* A statement fails, is chosen to break a deadlock, or the command is killed.
BuildFails ==
  /\ build.at # "idle"
  /\ build' = NoBuild
  /\ UNCHANGED <<vectors, copies, ready, writer, guard, around, tries>>

-----------------------------------------------------------------------------
(* The check, of the daemon or of the doctor: three statements.             *)

ReadMark ==
  /\ guard = "idle" /\ ready
  /\ guard' = "count"
  /\ UNCHANGED <<vectors, copies, ready, writer, build, around, tries>>

CountGuard ==
  /\ guard = "count"
  /\ guard' = IF AllCopied THEN "idle" ELSE "clear"
  /\ UNCHANGED <<vectors, copies, ready, writer, build, around, tries>>

ClearMark ==
  /\ guard = "clear"
  /\ ready' = FALSE /\ guard' = "idle"
  /\ UNCHANGED <<vectors, copies, writer, build, around, tries>>

-----------------------------------------------------------------------------
BuildSteps ==
  \/ ReadBound \/ BeginBatch \/ CommitBatch \/ CountBuild \/ MarkReady
  \/ \E k \in Place : FillOne(k)

ExactNext ==
  \/ \E k \in Place :
        PutVector(k) \/ TriggerFires(k) \/ CommitVector(k) \/ AbortVector(k) \/ WriteAround(k)
  \/ BeginBuild \/ BuildSteps \/ BuildFails
  \/ ReadMark \/ CountGuard \/ ClearMark

ExactSpec == ExactInit /\ [][ExactNext]_xvars

-----------------------------------------------------------------------------
(* Properties.                                                              *)

ExactTypeOK ==
  /\ vectors \in Stores /\ copies \in Stores /\ ready \in BOOLEAN
  /\ writer \in [Place -> [at : {"idle", "trigger", "commit", "bare"}, value : Value \union {NoValue}]]
  /\ build \in [at : {"idle", "bound", "begin", "insert", "count", "mark"}, after : 0..Vectors,
                upto : 0..Vectors, seen : Stores, todo : SUBSET Place, filled : SUBSET Place]
  /\ build.todo \intersect build.filled = {}
  /\ guard \in {"idle", "count", "clear"} /\ around \subseteq Place
  /\ tries \in [writes : 0..MaxWrites, around : 0..MaxAround, builds : 0..MaxBuilds]

\* While search may rank on the copies, every vector has one and it is of the
\* vector as it is now, however writers, fills and checks interleave ("compact
\* never ranks on a copy known to be incomplete", migration 0033): unless the
\* key was last written around the triggers.
CompactIsExact ==
  ready => \A k \in Place \ around : vectors[k] # NoValue => copies[k] = vectors[k]
=============================================================================
