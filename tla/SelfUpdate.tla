------------------------------ MODULE SelfUpdate ------------------------------
(***************************************************************************)
(* Self-update of one installation: the updater and its supervisor          *)
(* (crates/daemon/src/update.rs), its row and messages                      *)
(* (crates/store/src/updates.rs, messages.rs, crates/core/src/update.rs),    *)
(* and a person running `doctor upgrade` (crates/cli/src/upgrade.rs) beside  *)
(* the daemon.  A version is a number; 0 is none.                           *)
(***************************************************************************)
EXTENDS Naturals

CONSTANTS
  Daemon, Person,   \* the two that update the installation
  MaxVersion,
  MaxReleases, MaxTampers, MaxUpgrades, MaxCrashes, MaxFaults,  \* bounds
  MaxMishaps   \* bound on their sum

ASSUME SelfUpdateAssumption ==
  /\ Daemon # Person /\ MaxVersion \in Nat \ {0}
  /\ MaxReleases \in Nat /\ MaxTampers \in Nat /\ MaxUpgrades \in Nat
  /\ MaxCrashes \in Nat /\ MaxFaults \in Nat /\ MaxMishaps \in Nat

VARIABLES
  latest,    \* the version releases/latest points at, and whether it verifies
  installed, \* the version of the binary at the install path
  lockfile,  \* .flowspace3-update.lock
  row,       \* update_state of the install path
  due,       \* last_checked_at is an interval ago
  queue,     \* user_messages of the install path
  up,        \* where each updater is
  auto,      \* update.auto
  spent      \* how much of each bound is used

uvars == <<latest, installed, lockfile, row, due, queue, up, auto, spent>>

Version == 1..MaxVersion
Updater == {Daemon, Person}

NoLock == [held |-> FALSE, stale |-> FALSE]
EmptyRow == [seen |-> 0, installed |-> 0, blocked |-> FALSE]
Nothing == [release |-> 0, tamper |-> 0, upgrade |-> 0, crash |-> 0, fault |-> 0]

Resting(running) ==
  [at |-> "rest", running |-> running, booted |-> FALSE, checking |-> FALSE,
   target |-> 0, outcome |-> "none", found |-> 0, view |-> EmptyRow, gone |-> {}]

SelfUpdateInit ==
  /\ \E good \in BOOLEAN : latest = [version |-> 1, good |-> good]
  /\ installed = 1 /\ lockfile = NoLock
  /\ row = EmptyRow /\ due = TRUE /\ queue = {}
  /\ up = [u \in Updater |-> Resting(1)]
  /\ auto \in BOOLEAN
  /\ spent = Nothing

Spend(what, bound) ==
  /\ spent[what] < bound
  /\ spent.release + spent.tamper + spent.upgrade + spent.crash + spent.fault < MaxMishaps
  /\ spent' = [spent EXCEPT ![what] = @ + 1]

-----------------------------------------------------------------------------
(* The world.                                                              *)

\* A release is published, or yanked for another.
Release(v, good) ==
  /\ Spend("release", MaxReleases)
  /\ latest' = [version |-> v, good |-> good]
  /\ UNCHANGED <<installed, lockfile, row, due, queue, up, auto>>

\* Somebody reinstalls by hand.
Reinstall(v) ==
  /\ Spend("tamper", MaxTampers)
  /\ installed' = v
  /\ UNCHANGED <<latest, lockfile, row, due, queue, up, auto>>

IntervalPasses ==
  /\ ~due /\ due' = TRUE
  /\ UNCHANGED <<latest, installed, lockfile, row, queue, up, auto, spent>>

\* LOCK_STALE_AFTER is far longer than a swap: only a lock nobody works under
\* gets that old.
LockAges ==
  /\ lockfile = [held |-> TRUE, stale |-> FALSE]
  /\ \A u \in Updater : up[u].at \notin {"swap", "unlock"}
  /\ lockfile' = [lockfile EXCEPT !.stale = TRUE]
  /\ UNCHANGED <<latest, installed, row, due, queue, up, auto, spent>>

\* The daemon dies, or is restarted, and runs what is at the path.
Restart ==
  /\ Spend("crash", MaxCrashes)
  /\ up' = [up EXCEPT ![Daemon] = Resting(installed)]
  /\ UNCHANGED <<latest, installed, lockfile, row, due, queue, auto>>

-----------------------------------------------------------------------------
(* One pass of an updater.                                                 *)

At(u, place) == up[u].at = place
Goto(u, state) == up' = [up EXCEPT ![u] = state]

\* A pass of the supervisor.  The first one checks whatever the interval says,
\* the others when they can claim it, and `auto = false` never does.
BeginPass ==
  /\ At(Daemon, "rest")
  /\ LET first == ~up[Daemon].booted
         checking == auto /\ (first \/ due)
     IN  /\ due' = (due /\ ~checking)
         /\ Goto(Daemon, [up[Daemon] EXCEPT !.booted = TRUE, !.checking = checking \/ first,
                            !.at = IF checking THEN "probe" ELSE IF first THEN "disk" ELSE "read"])
  /\ UNCHANGED <<latest, installed, lockfile, row, queue, auto, spent>>

\* The statement that claims the check fails: the pass is over, and it was the
\* first.
ClaimFails ==
  /\ At(Daemon, "rest") /\ auto /\ Spend("fault", MaxFaults)
  /\ Goto(Daemon, [up[Daemon] EXCEPT !.booted = TRUE])
  /\ UNCHANGED <<latest, installed, lockfile, row, due, queue, auto>>

\* `doctor upgrade` does not ask the interval.
BeginUpgrade ==
  /\ At(Person, "rest") /\ Spend("upgrade", MaxUpgrades)
  /\ Goto(Person, [Resting(installed) EXCEPT !.at = "probe", !.checking = TRUE])
  /\ UNCHANGED <<latest, installed, lockfile, row, due, queue, auto>>

Conclude(u, outcome) == Goto(u, [up[u] EXCEPT !.at = "record", !.outcome = outcome])

\* is_upgrade
IsUpgrade(running, candidate) == candidate > running

\* run_once up to the download: the newest release, its checksums, its asset.
Probe(u) ==
  /\ At(u, "probe")
  /\ IF ~IsUpgrade(up[u].running, latest.version) THEN Conclude(u, "current")
     ELSE Goto(u, [up[u] EXCEPT !.target = latest.version,
                                !.at = IF latest.good THEN "lock" ELSE "record",
                                !.outcome = IF latest.good THEN @ ELSE "blocked"])
  /\ UNCHANGED <<latest, installed, lockfile, row, due, queue, auto, spent>>

\* run_once ends in an error, which nobody records: the daemon goes on to the
\* disk, doctor answers it.
CheckEnds(u) ==
  IF u = Daemon THEN Goto(u, [up[u] EXCEPT !.at = "disk"]) ELSE Goto(u, Resting(1))

\* The network fails, or the lock file cannot be made.
ProbeFails(u) ==
  /\ up[u].at \in {"probe", "lock"} /\ Spend("fault", MaxFaults)
  /\ CheckEnds(u)
  /\ UNCHANGED <<latest, installed, lockfile, row, due, queue, auto>>

\* Mutant: a lock is never too old.
NeverStale == FALSE

IsStale == lockfile.stale

\* Lock::take
TakeLock(u) ==
  /\ At(u, "lock")
  /\ \/ /\ ~lockfile.held
        /\ lockfile' = [held |-> TRUE, stale |-> FALSE]
        /\ Goto(u, [up[u] EXCEPT !.at = "swap"])
     \/ /\ lockfile.held /\ IsStale /\ UNCHANGED lockfile
        /\ Goto(u, [up[u] EXCEPT !.at = "break"])
     \/ /\ lockfile.held /\ ~IsStale /\ UNCHANGED lockfile
        /\ Conclude(u, "blocked")
  /\ UNCHANGED <<latest, installed, row, due, queue, auto, spent>>

\* The file is removed whoever made it, and created again once.
BreakLock(u) ==
  /\ At(u, "break")
  /\ \/ lockfile' = [held |-> TRUE, stale |-> FALSE] /\ Goto(u, [up[u] EXCEPT !.at = "swap"])
     \/ \* the other one breaks it too, and creates it first
        /\ \E w \in Updater \ {u} : At(w, "break")
        /\ UNCHANGED lockfile /\ Conclude(u, "blocked")
  /\ UNCHANGED <<latest, installed, row, due, queue, auto, spent>>

\* stage, staged_version and commit: the rename is atomic.
Swap(u) ==
  /\ At(u, "swap")
  /\ installed' = up[u].target
  /\ Goto(u, [up[u] EXCEPT !.at = "unlock", !.outcome = "installed"])
  /\ UNCHANGED <<latest, lockfile, row, due, queue, auto, spent>>

\* The binary cannot be staged, or moved to the path.
SwapFails(u) ==
  /\ At(u, "swap") /\ Spend("fault", MaxFaults)
  /\ Goto(u, [up[u] EXCEPT !.at = "unlock", !.outcome = "error"])
  /\ UNCHANGED <<latest, installed, lockfile, row, due, queue, auto>>

\* The binary that was staged does not say it is the release.
SwapRefused(u) ==
  /\ At(u, "swap") /\ Spend("fault", MaxFaults)
  /\ Goto(u, [up[u] EXCEPT !.at = "unlock", !.outcome = "blocked"])
  /\ UNCHANGED <<latest, installed, lockfile, row, due, queue, auto>>

Unlock(u) ==
  /\ At(u, "unlock")
  /\ lockfile' = NoLock
  /\ IF up[u].outcome = "error" THEN CheckEnds(u) ELSE Goto(u, [up[u] EXCEPT !.at = "record"])
  /\ UNCHANGED <<latest, installed, row, due, queue, auto, spent>>

\* record_clear, record_swapped, or record_seen with record_blocked to follow.
Record(u) ==
  /\ At(u, "record")
  /\ row' = [row EXCEPT !.blocked = @ /\ up[u].outcome = "blocked",
                        !.seen = IF up[u].outcome = "current" THEN @ ELSE up[u].target]
  /\ Goto(u, [up[u] EXCEPT !.at = IF up[u].outcome = "blocked" THEN "block" ELSE "disk"])
  /\ UNCHANGED <<latest, installed, lockfile, due, queue, auto, spent>>

RecordBlocked(u) ==
  /\ At(u, "block")
  /\ row' = [row EXCEPT !.blocked = TRUE]
  /\ Goto(u, [up[u] EXCEPT !.at = "disk"])
  /\ UNCHANGED <<latest, installed, lockfile, due, queue, auto, spent>>

\* on_disk_version
AskDisk(u) ==
  /\ At(u, "disk")
  /\ Goto(u, [up[u] EXCEPT !.at = "note", !.found = installed])
  /\ UNCHANGED <<latest, installed, lockfile, row, due, queue, auto, spent>>

\* Mutant: what is on disk is recorded only after a swap of our own.
NoteOfSwap(u) == IF up[u].outcome = "installed" THEN up[u].found ELSE row.installed

NoteOfDisk(u) == up[u].found

\* record_on_disk
NoteDisk(u) ==
  /\ At(u, "note")
  /\ row' = [row EXCEPT !.installed = NoteOfDisk(u)]
  /\ Goto(u, [up[u] EXCEPT !.at = "read"])
  /\ UNCHANGED <<latest, installed, lockfile, due, queue, auto, spent>>

ReadRow(u) ==
  /\ At(u, "read")
  /\ Goto(u, [up[u] EXCEPT !.at = "sync", !.view = row])
  /\ UNCHANGED <<latest, installed, lockfile, row, due, queue, auto, spent>>

\* desired_messages
Desired(state, running) ==
  (IF state.installed \notin {0, running} THEN {<<"installed", state.installed>>} ELSE {})
  \union (IF state.blocked THEN {<<"blocked", state.seen>>} ELSE {})

\* The primary key: there is one message about a blocked release.
KeyOf(message) == IF message[1] = "blocked" THEN <<"blocked", 0>> ELSE message

Declared(u) == {KeyOf(m) : m \in Desired(up[u].view, up[u].running)}

\* Rows that another's open transaction has deleted are locked until it ends.
Waits(u, keys) == \E w \in Updater \ {u} : At(w, "write") /\ keys \intersect up[w].gone # {}

\* sync_messages is one transaction: it retracts what is there and not declared,
\* then writes what is declared, and both are seen when it commits.
Retract(u) ==
  LET gone == {KeyOf(m) : m \in queue} \ Declared(u)
  IN  /\ At(u, "sync") /\ ~Waits(u, gone)
      /\ Goto(u, [up[u] EXCEPT !.at = "write", !.gone = gone])
      /\ UNCHANGED <<latest, installed, lockfile, row, due, queue, auto, spent>>

PassOver(u) == Goto(u, [Resting(up[u].running) EXCEPT !.booted = up[u].booted])

Sync(u) ==
  /\ At(u, "write") /\ ~Waits(u, Declared(u))
  /\ queue' = {m \in queue : KeyOf(m) \notin up[u].gone \union Declared(u)}
                \union Desired(up[u].view, up[u].running)
  /\ PassOver(u)
  /\ UNCHANGED <<latest, installed, lockfile, row, due, auto, spent>>

\* A statement fails, or is given up for another's that waits for it: the
\* daemon's pass is over, and so is what doctor records.
StoreFails(u) ==
  /\ up[u].at \in {"record", "block", "note", "read", "sync", "write"}
  /\ Spend("fault", MaxFaults)
  /\ PassOver(u)
  /\ UNCHANGED <<latest, installed, lockfile, row, due, queue, auto>>

UpdaterStep(u) ==
  \/ Probe(u) \/ TakeLock(u) \/ BreakLock(u) \/ Swap(u) \/ Unlock(u) \/ Record(u)
  \/ RecordBlocked(u) \/ AskDisk(u) \/ NoteDisk(u) \/ ReadRow(u) \/ Retract(u) \/ Sync(u)

SelfUpdateNext ==
  \/ \E v \in Version, good \in BOOLEAN : Release(v, good)
  \/ \E v \in Version : Reinstall(v)
  \/ IntervalPasses \/ LockAges \/ Restart \/ BeginPass \/ ClaimFails \/ BeginUpgrade
  \/ \E u \in Updater :
       UpdaterStep(u) \/ ProbeFails(u) \/ SwapFails(u) \/ SwapRefused(u) \/ StoreFails(u)

\* Time passes, the reconcile loop ticks, and who has begun goes on.
SelfUpdateFairness ==
  /\ WF_uvars(IntervalPasses) /\ WF_uvars(LockAges) /\ WF_uvars(BeginPass)
  /\ \A u \in Updater : WF_uvars(UpdaterStep(u))

SelfUpdateSpec == SelfUpdateInit /\ [][SelfUpdateNext]_uvars /\ SelfUpdateFairness

-----------------------------------------------------------------------------
(* Properties.                                                              *)

SelfUpdateTypeOK ==
  /\ latest \in [version : Version, good : BOOLEAN] /\ installed \in Version
  /\ lockfile \in [held : BOOLEAN, stale : BOOLEAN]
  /\ row \in [seen : Version \union {0}, installed : Version \union {0}, blocked : BOOLEAN]
  /\ due \in BOOLEAN /\ auto \in BOOLEAN
  /\ queue \subseteq {"installed", "blocked"} \X (Version \union {0})
  /\ DOMAIN up = Updater /\ \A u \in Updater : up[u].running \in Version

\* With updates on, once releases, hands and failures rest, the installation is
\* the newest release that can be verified, unless what runs is as new: a
\* crash in the middle of a swap, a failed check or another updater's lock
\* puts it off and never ends it.
KeepsCurrent ==
  auto => <>[](latest.good =>
    installed = latest.version \/ up[Daemon].running >= latest.version)

\* With updates on, the messages end up saying what is on disk and whether the
\* newest release is blocked, however the daemon and doctor interleaved.
TellsTruth ==
  auto => <>[](queue =
    (IF installed # up[Daemon].running THEN {<<"installed", installed>>} ELSE {}) \union
    (IF ~latest.good /\ latest.version > up[Daemon].running
     THEN {<<"blocked", latest.version>>} ELSE {}))

=============================================================================
