------------------------------- MODULE Debounce -------------------------------
(***************************************************************************)
(* When a changed directory is re-listed: the debouncer                     *)
(* (crates/daemon/src/debounce.rs) and the part of the watcher's pass that   *)
(* feeds and sweeps it (crates/daemon/src/watch.rs).  A re-listing covers    *)
(* the directory's whole subtree and is one step here: what it does to the   *)
(* index is Indexing's subject.                                             *)
(***************************************************************************)
EXTENDS Naturals, Sequences, FiniteSets, Functions

CONSTANTS
  Dir,         \* the directories events happen in
  Under,       \* the pairs <<d, e>>, e being d or below it
  Root,        \* the directories that may be watched roots
  Window,      \* indexing.debounce_seconds
  MaxAge,      \* MAX_AGE_WINDOWS windows
  Cadence,     \* the longest time between two passes
  MaxEvents, MaxUnwatch, Horizon   \* bounds on the events, removals and the clock

ASSUME DebounceAssumption ==
  /\ IsFiniteSet(Dir) /\ Root \subseteq Dir
  /\ Under \subseteq Dir \X Dir
  /\ \A d \in Dir : <<d, d>> \in Under
  /\ \A d, e \in Dir : <<d, e>> \in Under /\ <<e, d>> \in Under => d = e
  /\ \A d, e, f \in Dir : <<d, e>> \in Under /\ <<e, f>> \in Under => <<d, f>> \in Under
  /\ Window \in Nat /\ MaxAge \in Nat /\ Window <= MaxAge
  /\ Cadence \in Nat \ {0} /\ MaxEvents \in Nat /\ MaxUnwatch \in Nat /\ Horizon \in Nat

VARIABLES
  now,         \* the supervisor's clock
  passed,      \* when the last pass ran
  registered,  \* the roots of the worktrees table
  watching,    \* the roots with an OS watcher
  inbox,       \* the events the watcher threads sent
  quiet,       \* the debouncer's pending directories
  owed,        \* when the oldest change was seen that no re-listing covers yet
  events, unwatched

dvars == <<now, passed, registered, watching, inbox, quiet, owed, events, unwatched>>

Time == 0..Horizon
Never == Horizon + 1
Roots(d) == {r \in Root : <<r, d>> \in Under}
Watchers(d) == Roots(d) \intersect watching

NoEntry == [root |-> "none", first |-> Never, last |-> Never]

DebounceInit ==
  /\ now = 0 /\ passed = 0
  /\ registered = Root /\ watching = Root
  /\ inbox = <<>>
  /\ quiet = [d \in Dir |-> NoEntry]
  /\ owed = [r \in Root |-> [d \in Dir |-> Never]]
  /\ events = 0 /\ unwatched = 0

Clock ==
  /\ now < Horizon /\ now < passed + Cadence
  /\ now' = now + 1
  /\ UNCHANGED <<passed, registered, watching, inbox, quiet, owed, events, unwatched>>

Orders(S) == {order \in [1..Cardinality(S) -> S] : Range(order) = S}

\* Every watcher above the directory reports the change, each on a thread of
\* its own, and the event is stamped where it is received.
Change(d) ==
  /\ events < MaxEvents /\ events' = events + 1
  /\ \E order \in Orders(Watchers(d)) :
       inbox' = inbox \o [i \in DOMAIN order |-> [root |-> order[i], dir |-> d, at |-> now]]
  /\ owed' = [r \in Root |-> [owed[r] EXCEPT ![d] =
                IF r \in Watchers(d) /\ @ = Never THEN now ELSE @]]
  /\ UNCHANGED <<now, passed, registered, watching, quiet, unwatched>>

Unregister(r) ==
  /\ r \in registered /\ unwatched < MaxUnwatch
  /\ unwatched' = unwatched + 1
  /\ registered' = registered \ {r}
  /\ UNCHANGED <<now, passed, watching, inbox, quiet, owed, events>>

Register(r) ==
  /\ r \in Root \ registered
  /\ registered' = registered \union {r}
  /\ UNCHANGED <<now, passed, watching, inbox, quiet, owed, events, unwatched>>

-----------------------------------------------------------------------------
(* The pass.                                                               *)

Pending(q) == {d \in Dir : q[d] # NoEntry}

\* Mutant: the directories of a root that is gone stay pending.
ForgetNone(q, roots) == q

\* forget_root, of every root that is watched no more.
Forget(q, roots) == [d \in Dir |-> IF q[d].root \in roots THEN q[d] ELSE NoEntry]

\* observe: the first event opens the entry, the next ones push its window out.
Observe(q, event) ==
  LET entry == q[event.dir]
  IN  [q EXCEPT ![event.dir] =
         IF entry = NoEntry THEN [root |-> event.root, first |-> event.at, last |-> event.at]
         ELSE [entry EXCEPT !.last = IF event.at > @ THEN event.at ELSE @]]

\* absorb_events: an event of a root that is not watched is dropped.
Absorb(q, roots) ==
  LET seen[n \in 0..Len(inbox)] ==
        IF n = 0 THEN q
        ELSE IF inbox[n].root \in roots THEN Observe(seen[n - 1], inbox[n])
        ELSE seen[n - 1]
  IN  seen[Len(inbox)]

\* Mutant: the window has no ceiling.
IsQuiet(entry) == now - entry.last >= Window

\* sweep: quiet for a window, or pending for too long.
IsReady(entry) == now - entry.last >= Window \/ now - entry.first >= MaxAge

Swept(q, settled) == [d \in Dir |-> IF d \in settled THEN NoEntry ELSE q[d]]

\* prune_nested: a settled ancestor covers what is below it.
PruneNested(settled) ==
  {d \in settled : \A a \in settled \ {d} : <<a, d>> \notin Under}

\* Re-listing a directory covers, for the root of its entry, all that is below.
Covered(q, kept, r, d) == \E k \in kept : q[k].root = r /\ <<k, d>> \in Under

\* reconcile_roots, absorb_events, the sweep and its re-listings.  A root that
\* cannot be watched is tried again by the next pass.
Reconcile ==
  /\ now > passed
  /\ \E started \in SUBSET (registered \ watching) :
       LET roots == (watching \intersect registered) \union started
           q == Absorb(Forget(quiet, roots), roots)
           settled == {d \in Pending(q) : IsReady(q[d])}
           kept == PruneNested(settled)
       IN  /\ watching' = roots
           /\ quiet' = Swept(q, settled)
           /\ owed' = [r \in Root |-> [d \in Dir |->
                         IF r \notin roots \/ Covered(q, kept, r, d) THEN Never ELSE owed[r][d]]]
  /\ inbox' = <<>> /\ passed' = now
  /\ UNCHANGED <<now, registered, events, unwatched>>

DebounceNext ==
  \/ Clock \/ Reconcile
  \/ \E d \in Dir : Change(d)
  \/ \E r \in Root : Unregister(r) \/ Register(r)

DebounceSpec == DebounceInit /\ [][DebounceNext]_dvars

-----------------------------------------------------------------------------
(* Properties.                                                              *)

\* A pending directory belongs to a root that is watched: one that is removed
\* takes its directories with it.
DebounceTypeOK ==
  /\ now \in Time /\ passed \in Time /\ passed <= now
  /\ registered \subseteq Root /\ watching \subseteq Root
  /\ inbox \in Seq([root : Root, dir : Dir, at : Time])
  /\ quiet \in [Dir -> [root : watching, first : Time, last : Time] \union {NoEntry}]
  /\ owed \in [Root -> [Dir -> Time \union {Never}]]
  /\ events \in 0..MaxEvents /\ unwatched \in 0..MaxUnwatch

\* However fast a directory is written, a change under a watched root is
\* re-listed for that root within the ceiling and one cadence: the entry of
\* another directory, a pruned descendant or a root that comes and goes never
\* swallows it.
ServedInTime ==
  \A r \in watching, d \in Dir : owed[r][d] # Never => now - owed[r][d] <= MaxAge + Cadence
=============================================================================
