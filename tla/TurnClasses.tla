------------------------------ MODULE TurnClasses -----------------------------
(***************************************************************************)
(* What the turns of one conversation are classed as, and the two loops     *)
(* that go back over the turns stored before they were: the classifier of   *)
(* crates/core/src/turn_class.rs, the appends and the windows of            *)
(* crates/store/src/conversations.rs, and turn_class_backfill.rs and        *)
(* intake_restate.rs, which one reconcile loop runs in turn.                *)
(*                                                                         *)
(* A turn is what the classifier can tell of it, and whether the old intake *)
(* stored a text for it that the present one would not.  That is a matter   *)
(* of the path of a write, a call that retrieves nothing and is classed the *)
(* same with either.  Numbers are given as ConvoIngest says, whose Enrich   *)
(* queues what an append stored.                                           *)
(***************************************************************************)
EXTENDS Naturals, Sequences

CONSTANTS
  Shape,         \* the turns that are spoken
  BackfillWindow, \* BACKFILL_WINDOW
  MaxTurns,      \* bound on the turns of the conversation
  MaxStored,     \* bound on those stored before the migrations
  MaxTogether,   \* bound on the turns of one append
  MaxStumbles     \* bound on failed passes, restarts and removals

\* said: words of its own.  hook: only a prompt-hook search.  calls and
\* results: none, all of them retrieval, or not all.
TurnShape ==
  [said : BOOLEAN, hook : BOOLEAN, calls : {"none", "retrieval", "other"},
   results : {"none", "echo", "other"}, old : BOOLEAN]

ASSUME TurnAssumption ==
  /\ Shape \subseteq TurnShape
  /\ \A t \in Shape : t.hook => t.calls = "none" /\ t.results = "none"
  /\ \A t \in Shape : t.old => t.calls = "other"
  /\ BackfillWindow \in Nat \ {0} /\ MaxTogether \in Nat
  /\ MaxTurns \in Nat /\ MaxStored \in 0..MaxTurns /\ MaxStumbles \in Nat

VARIABLES
  turns,     \* turn_no -> shape
  class,     \* turn_no -> elements.turn_class
  rewrite,   \* conversations.restate_after
  queued,     \* turns whose present text was queued for a vector
  missed,    \* turns a failed pass left unasked
  loop,      \* what the reconcile loop is at
  cuts,      \* first turns of appends that came in behind a turn of results
  stumbles    \* faults so far

tvars == <<turns, class, rewrite, queued, missed, loop, cuts, stumbles>>

Unclassed == "NULL"
Class == {"work", "tool_call", "tool_result", "retrieval_call", "retrieval_result"}
Rewritten == MaxTurns + 1

\* The loop where it has read nothing yet; replaced: turns still to be queued.
LoopAt(at, replaced) ==
  [at |-> at, after |-> 0, retrieval |-> FALSE, read |-> <<>>, written |-> FALSE,
   replaced |-> replaced]

-----------------------------------------------------------------------------
(* The classifier: whether the latest calls were all retrieval, and nothing *)
(* but results has come since.                                              *)

Classify(retrieval, t) ==
  LET echoed == t.results \in {"none", "echo"} \/ retrieval
  IN  CASE t.hook -> "retrieval_call"
        [] ~t.hook /\ (t.said \/ (t.calls = "none" /\ t.results = "none")) -> "work"
        [] ~t.said /\ t.calls # "none" ->
             IF t.calls = "retrieval" /\ echoed THEN "retrieval_call" ELSE "tool_call"
        [] OTHER -> IF echoed THEN "retrieval_result" ELSE "tool_result"

ResultsOnly(t) == t.calls = "none" /\ t.results # "none" /\ ~t.said

Advance(retrieval, t) ==
  IF t.calls = "none" THEN retrieval /\ ResultsOnly(t) ELSE t.calls = "retrieval"

\* What the classifier remembers before each turn of a run, and behind it.
Memory(retrieval, run) ==
  LET memory[i \in 1..Len(run) + 1] ==
        IF i = 1 THEN retrieval ELSE Advance(memory[i - 1], run[i - 1])
  IN  memory

Classes(retrieval, run) ==
  [i \in DOMAIN run |-> Classify(Memory(retrieval, run)[i], run[i])]

\* Mutant: every run is read as if a conversation began with it.
StartAfresh(n) == FALSE

\* TurnClassifier::after the turn before a run: all it looks back on.
PickUpAfter(n) == n # 0 /\ Advance(FALSE, turns[n])

TurnsInit ==
  /\ \E n \in 0..MaxStored : turns \in [1..n -> Shape]
  /\ \E n \in 0..Len(turns) :
       class = [i \in DOMAIN turns |-> IF i <= n THEN Unclassed ELSE Classes(FALSE, turns)[i]]
  /\ rewrite = 0 /\ queued = DOMAIN turns /\ missed = {}
  /\ loop = LoopAt("idle", {}) /\ cuts = {} /\ stumbles = 0

-----------------------------------------------------------------------------
(* Appends and removals, of other tasks.                                    *)

\* append_turns, one transaction.
AppendTurns(run) ==
  /\ run # <<>> /\ Len(turns) + Len(run) <= MaxTurns
  /\ \A i \in DOMAIN run : ~run[i].old
  /\ turns' = turns \o run
  /\ class' = class \o Classes(PickUpAfter(Len(turns)), run)
  /\ queued' = queued \union (DOMAIN turns' \ DOMAIN turns)
  /\ cuts' = IF turns # <<>> /\ ResultsOnly(turns[Len(turns)])
             THEN cuts \union {Len(turns) + 1} ELSE cuts
  /\ UNCHANGED <<rewrite, missed, loop, stumbles>>

Stumble == stumbles < MaxStumbles /\ stumbles' = stumbles + 1

\* delete_conversation; an append makes it anew, restated already.
RemoveTurns ==
  /\ Stumble
  /\ turns' = <<>> /\ class' = <<>> /\ rewrite' = Rewritten
  /\ queued' = {} /\ missed' = {} /\ cuts' = {}
  /\ UNCHANGED loop

-----------------------------------------------------------------------------
(* backfill_turn_classes: statements that commit one by one.                *)

LoopGoes(at) == loop' = LoopAt(at, {})

Tick ==
  /\ loop.at = "idle"
  /\ LoopGoes("probe")
  /\ UNCHANGED <<turns, class, rewrite, queued, missed, cuts, stumbles>>

ProbeUnclassed ==
  /\ loop.at = "probe"
  /\ LoopGoes(IF \E n \in DOMAIN class : class[n] = Unclassed THEN "read" ELSE "restate")
  /\ UNCHANGED <<turns, class, rewrite, queued, missed, cuts, stumbles>>

\* The turns behind one, as many as a window holds.
WindowAfter(n) ==
  SubSeq(turns, n + 1, IF n + BackfillWindow < Len(turns) THEN n + BackfillWindow ELSE Len(turns))

\* Mutant: the classifier begins anew at each window.
BeginAnew(run) == FALSE

\* What the classifier takes along to the next window.
TakeAlong(run) == Memory(loop.retrieval, run)[Len(run) + 1]

ReadWindow ==
  /\ loop.at = "read" /\ WindowAfter(loop.after) # <<>>
  /\ LET run == WindowAfter(loop.after)
     IN  loop' = [loop EXCEPT !.at = "write", !.read = Classes(loop.retrieval, run),
                    !.retrieval = TakeAlong(run)]
  /\ UNCHANGED <<turns, class, rewrite, queued, missed, cuts, stumbles>>

\* Only rows still NULL are written.
WriteWindow ==
  LET blank == {n \in DOMAIN class \intersect (loop.after + 1 .. loop.after + Len(loop.read)) :
                class[n] = Unclassed}
  IN  /\ loop.at = "write"
      /\ class' = [n \in DOMAIN class |->
                     IF n \in blank THEN loop.read[n - loop.after] ELSE class[n]]
      /\ loop' = [loop EXCEPT !.at = "read", !.after = @ + Len(loop.read), !.read = <<>>,
                     !.written = @ \/ blank # {}]
      /\ UNCHANGED <<turns, rewrite, queued, missed, cuts, stumbles>>

ReadToEnd ==
  /\ loop.at = "read" /\ WindowAfter(loop.after) = <<>>
  /\ LoopGoes(IF loop.written THEN "probe" ELSE "label")
  /\ UNCHANGED <<turns, class, rewrite, queued, missed, cuts, stumbles>>

\* What no stored turn stands behind is work.
LabelRest ==
  /\ loop.at = "label"
  /\ class' = [n \in DOMAIN class |-> IF class[n] = Unclassed THEN "work" ELSE class[n]]
  /\ LoopGoes("probe")
  /\ UNCHANGED <<turns, rewrite, queued, missed, cuts, stumbles>>

-----------------------------------------------------------------------------
(* IntakeRestate.                                                          *)

NothingToRestate ==
  /\ loop.at = "restate" /\ rewrite = Rewritten
  /\ LoopGoes("idle")
  /\ UNCHANGED <<turns, class, rewrite, queued, missed, cuts, stumbles>>

\* More enrichment waits than PENDING_CEILING.
WaitForQueue ==
  /\ loop.at = "restate" /\ rewrite # Rewritten
  /\ LoopGoes("idle")
  /\ UNCHANGED <<turns, class, rewrite, queued, missed, cuts, stumbles>>

\* restate_next_window, one transaction: a turn whose text changes gets
\* another element, of a class of its own.
RestateWindow ==
  LET run == WindowAfter(rewrite)
      stale == {n \in rewrite + 1 .. rewrite + Len(run) : turns[n].old}
  IN  /\ loop.at = "restate" /\ rewrite # Rewritten
      /\ turns' = [n \in DOMAIN turns |-> IF n \in stale THEN [turns[n] EXCEPT !.old = FALSE]
                                                       ELSE turns[n]]
      /\ class' = [n \in DOMAIN class |->
                     IF n \in stale THEN Classes(PickUpAfter(rewrite), run)[n - rewrite]
                                    ELSE class[n]]
      /\ queued' = queued \ stale
      /\ rewrite' = IF Len(run) < BackfillWindow THEN Rewritten ELSE rewrite + Len(run)
      /\ loop' = LoopAt("queue", stale)
      /\ UNCHANGED <<missed, cuts, stumbles>>

\* enqueue_for_turns, after the commit.
QueueReplaced ==
  /\ loop.at = "queue"
  /\ queued' = queued \union (loop.replaced \intersect DOMAIN turns)
  /\ LoopGoes("restate")
  /\ UNCHANGED <<turns, class, rewrite, missed, cuts, stumbles>>

-----------------------------------------------------------------------------
(* Faults.                                                                 *)

\* The next tick begins again; what was replaced is not queued for again.
PassStops ==
  /\ loop.at # "idle"
  /\ Stumble
  /\ missed' = missed \union (loop.replaced \intersect DOMAIN turns)
  /\ LoopGoes("idle")
  /\ UNCHANGED <<turns, class, rewrite, queued, cuts>>

\* A restart sweeps for texts without a vector.
RestartSweeps ==
  /\ Stumble
  /\ queued' = DOMAIN turns /\ missed' = {}
  /\ LoopGoes("idle")
  /\ UNCHANGED <<turns, class, rewrite, cuts>>

-----------------------------------------------------------------------------
LoopStep ==
  \/ Tick \/ ProbeUnclassed \/ ReadWindow \/ WriteWindow \/ ReadToEnd \/ LabelRest
  \/ NothingToRestate \/ QueueReplaced

TurnsNext ==
  \/ LoopStep \/ WaitForQueue \/ RestateWindow
  \/ \E n \in 0..MaxTogether : \E run \in [1..n -> Shape] : AppendTurns(run)
  \/ RemoveTurns \/ PassStops \/ RestartSweeps

\* The loop ticks for ever, and does not find the queue full each time it
\* comes to restate.
TurnsSpec ==
  TurnsInit /\ [][TurnsNext]_tvars /\ WF_tvars(LoopStep) /\ SF_tvars(RestateWindow)

-----------------------------------------------------------------------------
(* Properties.                                                              *)

TurnsTypeOK ==
  /\ turns \in Seq(TurnShape) /\ Len(turns) <= MaxTurns
  /\ DOMAIN class = DOMAIN turns /\ \A n \in DOMAIN class : class[n] \in Class \union {Unclassed}
  /\ rewrite \in 0..Rewritten
  /\ queued \subseteq DOMAIN turns /\ missed \subseteq DOMAIN turns /\ cuts \subseteq DOMAIN turns
  /\ loop.at \in {"idle", "probe", "read", "write", "label", "restate", "queue"}
  /\ loop.after \in 0..MaxTurns /\ Len(loop.read) <= BackfillWindow
  /\ loop.retrieval \in BOOLEAN /\ loop.written \in BOOLEAN /\ stumbles \in 0..MaxStumbles

\* The append that brought a turn, or a result it follows, began behind
\* another result: PickUpAfter has forgotten the call they all answer.
CutOff(n) ==
  /\ turns[n].results # "none"
  /\ \E c \in cuts : c <= n /\ \A m \in c .. n - 1 : ResultsOnly(turns[m])

\* A turn is classed as it is when its conversation is read from the start.
\* The exception is what an append cut off from its call: the code classes that
\* as other tool use, for good, though the call may have been a retrieval and
\* "the two can arrive in different appends" (conversations.rs:276).
ClassedAsRead(n) ==
  \/ class[n] = Classes(FALSE, turns)[n]
  \/ CutOff(n) /\ class[n] \in {"tool_call", "tool_result"}

\* The backfill never goes over a class again, so it has to be right when it
\* is given: as appends, windows read, windows written and restatements
\* interleave, no turn that no append cut off from its call (CutOff) is ever
\* classed as what it is not, and one that was is classed as tool use.
ClassedTruly == \A n \in DOMAIN turns : class[n] = Unclassed \/ ClassedAsRead(n)

\* However appends, windows, removals and restarts fall, in the end every
\* turn is classed, as it reads or, where an append cut it off from its call
\* (CutOff), as tool use; holds the text of today's intake; and has that text
\* queued for a vector, unless a pass failed between the two and no restart
\* has come since.
TurnsSettle ==
  <>[](\A n \in DOMAIN turns :
         ClassedAsRead(n) /\ ~turns[n].old /\ n \in queued \union missed)
=============================================================================
