------------------------------- MODULE Backlog ------------------------------
(***************************************************************************)
(* What the job queue promises its users, with no rows, no locks and no    *)
(* boots: each key is at most one piece of work, a piece of work is in the *)
(* hands of at most one worker, and work is handed out again only once     *)
(* nobody has it in hand.  JobRunner implements this (see its Abstract).   *)
(***************************************************************************)

CONSTANTS
  Key,      \* what work can be asked for
  Worker,   \* who may take it
  Nobody    \* not a worker

VARIABLES
  work,     \* how far the work of each key is
  worker    \* who has it in hand

vars == <<work, worker>>

\* "failed" is work that was tried, lost, and is still wanted.
Progress == {"idle", "queued", "claimed", "failed"}

TypeOK ==
  /\ work \in [Key -> Progress]
  /\ worker \in [Key -> Worker \union {Nobody}]

Init ==
  /\ work = [k \in Key |-> "idle"]
  /\ worker = [k \in Key |-> Nobody]

\* The keys of K, whose work is now `from`, move to `to` in the hands of w.
Move(K, from, to, w) ==
  /\ \A k \in K : work[k] = from
  /\ work' = [k \in Key |-> IF k \in K THEN to ELSE work[k]]
  /\ worker' = [k \in Key |-> IF k \in K THEN w ELSE worker[k]]

\* Asking again for work that is queued or in hand adds nothing.
Request(k) == \E from \in {"idle", "failed"} : Move({k}, from, "queued", Nobody)

Take(w, K) == Move(K, "queued", "claimed", w)

InHandOf(w) == {k \in Key : worker[k] = w}

\* A worker ends its own work: done for good, back in the queue, or failed.
Settle(w, k) ==
  /\ k \in InHandOf(w)
  /\ \E to \in {"idle", "queued", "failed"} : Move({k}, "claimed", to, Nobody)

\* A worker loses hold of work without a word about it.
LetGo(K) ==
  /\ work' = work
  /\ worker' = [k \in Key |-> IF k \in K THEN Nobody ELSE worker[k]]

\* Claimed work goes back to the queue: only work nobody has in hand.
Recover == Move({k \in InHandOf(Nobody) : work[k] = "claimed"}, "claimed", "queued", Nobody)

\* Failed work is wanted again, or given up for good.
Revive(K) == \E to \in {"queued", "idle"} : Move(K, "failed", to, Nobody)

\* The work is no longer wanted.
Cancel(k) == \E from \in {"queued", "claimed"} : Move({k}, from, "idle", Nobody)

Next ==
  \/ \E k \in Key : Request(k) \/ Cancel(k)
  \/ \E w \in Worker :
       \/ \E K \in SUBSET Key : Take(w, K)
       \/ \E k \in Key : Settle(w, k)
  \/ \E K \in SUBSET Key : LetGo(K) \/ Revive(K)
  \/ Recover

Spec == Init /\ [][Next]_vars
=============================================================================
