------------------------------- MODULE Worktrees -------------------------------
(***************************************************************************)
(* Linked git worktrees that come and go: the worktree supervisor           *)
(* (crates/daemon/src/worktrees.rs) beside users who add and remove roots    *)
(* and a disk whose directories vanish and return.                          *)
(***************************************************************************)
EXTENDS Naturals, Sequences

CONSTANTS
  Paths,      \* every path, in the order list_worktrees gives them
  Identity,   \* path -> the repository's identity
  Clone,      \* path -> the clone it is a checkout of
  Inside,     \* the pairs <<p, q>>, p being a directory inside the checkout q
  MaxChanges, MaxFailedPasses, MaxReboots   \* bounds on what the world does

ASSUME WorktreesAssumption ==
  /\ Paths \in Seq(DOMAIN Identity) \ {<<>>}
  /\ MaxChanges \in Nat /\ MaxFailedPasses \in Nat /\ MaxReboots \in Nat

Path == {Paths[n] : n \in DOMAIN Paths}

Checkout == {q \in Path : \A p \in Path : <<q, p>> \notin Inside}

\* The paths a checkout takes with it when it goes.
Within(q) == {p \in Path : p = q \/ <<p, q>> \in Inside}

VARIABLES
  disk,        \* the directories that exist
  linked,      \* the checkouts `git worktree list` names, of any clone
  roots,       \* the worktrees table
  missing,     \* path -> MISSING_PASSES_BEFORE_REMOVE counter
  sweep,       \* where the pass is, with its plan
  said,        \* path -> what the last two passes to check it saw, newest first
  changes, faults, reboots

wvars == <<disk, linked, roots, missing, sweep, said, changes, faults, reboots>>

Sight == {"there", "absent", "unknown"}

AtRest == [at |-> "rest", listed |-> {}, register |-> {}, remove |-> {}]

WorktreesInit ==
  /\ disk = Path /\ linked = Checkout
  /\ roots = {Head(Paths)}
  /\ missing = [p \in Path |-> 0] /\ said = [p \in Path |-> <<>>]
  /\ sweep = AtRest
  /\ changes = 0 /\ faults = 0 /\ reboots = 0

-----------------------------------------------------------------------------
(* The world.                                                              *)

World(what) ==
  /\ changes < MaxChanges /\ changes' = changes + 1 /\ what
  /\ UNCHANGED <<missing, sweep, said, faults, reboots>>

\* A directory is deleted or unmounted, and comes back as what it was.
Vanish(p) == p \in disk /\ disk' = disk \ Within(p) /\ UNCHANGED <<linked, roots>>
Return(p) ==
  /\ p \notin disk /\ \E q \in linked : p \in Within(q)
  /\ disk' = disk \union {p} \union {q \in linked : p \in Within(q)}
  /\ UNCHANGED <<linked, roots>>

\* git worktree add, and git worktree remove or prune
Link(p) ==
  /\ p \in Checkout \ linked
  /\ linked' = linked \union {p} /\ disk' = disk \union Within(p) /\ UNCHANGED roots
Unlink(p) ==
  /\ p \in linked
  /\ linked' = linked \ {p} /\ disk' = disk \ Within(p) /\ UNCHANGED roots

\* fs3 add, and fs3 remove
UserAdds(p) == p \in disk \ roots /\ roots' = roots \union {p} /\ UNCHANGED <<disk, linked>>
UserRemoves(p) == p \in roots /\ roots' = roots \ {p} /\ UNCHANGED <<disk, linked>>

WorldChanges == \E p \in Path :
  World(Vanish(p) \/ Return(p) \/ Link(p) \/ Unlink(p) \/ UserAdds(p) \/ UserRemoves(p))

-----------------------------------------------------------------------------
(* The pass.                                                               *)

EndPass == sweep' = AtRest

Fault == faults < MaxFailedPasses /\ faults' = faults + 1

ListRoots ==
  /\ sweep.at = "rest"
  /\ sweep' = [AtRest EXCEPT !.at = "listed", !.listed = roots]
  /\ UNCHANGED <<disk, linked, roots, missing, said, changes, faults, reboots>>

\* Mutant: every absence is the first one.
OneMore(count) == 1

\* MISSING_PASSES_BEFORE_REMOVE is two: no more than that is counted.
Absences(count) == IF count < 2 THEN count + 1 ELSE 2

\* Mutant: a root that could not be checked keeps its count.
UnknownKeeps(count) == count

UnknownBreaks(count) == 0

\* One more thing a pass saw of a path: the last two are kept.
Saw(p, what) == IF said[p] = <<>> THEN <<what>> ELSE <<what, said[p][1]>>

Before(p, q) == \E i, j \in DOMAIN Paths : i < j /\ Paths[i] = p /\ Paths[j] = q

\* A root cannot be checked: those before it have been counted, those after it
\* have not been looked at, and the pass is over.
CheckFails(p) ==
  /\ sweep.at = "listed" /\ p \in sweep.listed /\ Fault
  /\ LET seen == {q \in sweep.listed : Before(q, p)}
     IN  /\ missing' = [q \in Path |->
              IF q = p THEN UnknownBreaks(missing[q])
              ELSE IF q \in seen THEN IF q \in disk THEN 0 ELSE Absences(missing[q])
              ELSE missing[q]]
         /\ said' = [q \in Path |->
              IF q = p THEN Saw(q, "unknown")
              ELSE IF q \in seen THEN Saw(q, IF q \in disk THEN "there" ELSE "absent")
              ELSE said[q]]
  /\ EndPass
  /\ UNCHANGED <<disk, linked, roots, changes, reboots>>

\* Counts, of every root, and forgets the roots that are registered no more.
Counted ==
  [p \in Path |-> IF p \in sweep.listed \ disk THEN Absences(missing[p]) ELSE 0]

\* One root of each identity is asked: the first that exists.
Anchors ==
  {p \in sweep.listed \intersect disk :
     \A q \in sweep.listed \intersect disk : Identity[q] = Identity[p] => ~Before(q, p)}

InGit(p) == \E q \in linked : p \in Within(q)

\* What git names from there, less what is gone from the disk, what is
\* registered, and a checkout that a registered directory inside it stands for.
Appeared ==
  {c \in linked \intersect disk :
     /\ \E a \in Anchors :
          /\ InGit(a) /\ Clone[a] = Clone[c]
          /\ \A r \in sweep.listed \intersect disk :
               Identity[r] = Identity[a] => <<r, c>> \notin Inside
     /\ c \notin sweep.listed}

\* plan_reconciliation, when every root could be checked.  Git may fail after
\* the counting.
Plan ==
  /\ sweep.at = "listed"
  /\ missing' = Counted
  /\ said' = [p \in Path |->
       IF p \in sweep.listed THEN Saw(p, IF p \in disk THEN "there" ELSE "absent")
       ELSE <<>>]
  /\ \/ /\ sweep' = [sweep EXCEPT !.at = "apply", !.register = Appeared,
                                  !.remove = {p \in sweep.listed \ disk : Counted[p] = 2}]
        /\ UNCHANGED faults
     \/ Fault /\ EndPass
  /\ UNCHANGED <<disk, linked, roots, changes, reboots>>

\* add_root_with_priority, newest first: the order is left open.
RegisterOne(p) ==
  /\ sweep.at = "apply" /\ p \in sweep.register
  /\ \/ /\ p \in disk
        /\ roots' = roots \union {p}
        /\ sweep' = [sweep EXCEPT !.register = @ \ {p}]
        /\ UNCHANGED faults
     \/ /\ IF p \in disk THEN Fault ELSE UNCHANGED faults
        /\ EndPass /\ UNCHANGED roots
  /\ UNCHANGED <<disk, linked, missing, said, changes, reboots>>

\* remove::remove: the path may be registered no more, or be back on the disk.
RemoveOne(p) ==
  /\ sweep.at = "apply" /\ sweep.register = {} /\ p \in sweep.remove
  /\ \/ /\ roots' = roots \ {p}
        /\ missing' = [missing EXCEPT ![p] = IF p \in roots THEN 0 ELSE @]
        /\ sweep' = [sweep EXCEPT !.remove = @ \ {p}]
        /\ UNCHANGED faults
     \/ Fault /\ EndPass /\ UNCHANGED <<roots, missing>>
  /\ UNCHANGED <<disk, linked, said, changes, reboots>>

Finish ==
  /\ sweep.at = "apply" /\ sweep.register = {} /\ sweep.remove = {}
  /\ EndPass
  /\ UNCHANGED <<disk, linked, roots, missing, said, changes, faults, reboots>>

\* The counts are in memory only.
Reboot ==
  /\ reboots < MaxReboots /\ reboots' = reboots + 1
  /\ missing' = [p \in Path |-> 0] /\ said' = [p \in Path |-> <<>>]
  /\ EndPass
  /\ UNCHANGED <<disk, linked, roots, changes, faults>>

PassStep ==
  \/ ListRoots \/ Plan \/ Finish
  \/ \E p \in Path : RegisterOne(p) \/ RemoveOne(p)

WorktreesNext ==
  \/ WorldChanges \/ PassStep \/ Reboot
  \/ \E p \in Path : CheckFails(p)

\* The reconcile loop ticks.
WorktreesFairness == WF_wvars(PassStep)

WorktreesSpec == WorktreesInit /\ [][WorktreesNext]_wvars /\ WorktreesFairness

-----------------------------------------------------------------------------
(* Properties.                                                              *)

WorktreesTypeOK ==
  /\ disk \subseteq Path /\ linked \subseteq Path /\ roots \subseteq Path
  /\ missing \in [Path -> 0..2]
  /\ sweep \in [at : {"rest", "listed", "apply"}, listed : SUBSET Path,
                register : SUBSET Path, remove : SUBSET Path]
  /\ said \in [Path -> {<<>>} \union {<<what>> : what \in Sight} \union (Sight \X Sight)]
  /\ changes \in 0..MaxChanges /\ faults \in 0..MaxFailedPasses /\ reboots \in 0..MaxReboots

\* A root is planned for removal only when the last two passes that checked it
\* found it absent ("Ambiguity breaks consecutiveness", worktrees.rs:155), and
\* none since the first of the two found it unregistered.  Passes that ended
\* before they came to it do not count.
AbsentTwice == \A p \in sweep.remove : said[p] = <<"absent", "absent">>

\* Once the world is still, every checkout git names beside a registered one is
\* registered and every root that vanished is not, whatever order the changes,
\* the failed passes and the restarts came in.
Followed ==
  /\ roots \subseteq disk
  /\ \A c \in linked \intersect disk :
       (\E a \in roots : InGit(a) /\ Clone[a] = Clone[c]) =>
         roots \intersect Within(c) # {}

FollowsGit == <>[]Followed
=============================================================================
