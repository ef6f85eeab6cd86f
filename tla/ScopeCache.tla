------------------------------ MODULE ScopeCache ------------------------------
(***************************************************************************)
(* The scope cache: crates/store/src/scope_cache.rs, the stamps of          *)
(* migration 0032, and the scope part of the search statement               *)
(* (crates/store/src/embeddings.rs, scope_ctes).                            *)
(*                                                                         *)
(* Postgres is modelled by its visibility rule: a snapshot is the set of    *)
(* transactions that had committed when it was taken, its xmin the oldest   *)
(* transaction it could not see.  A row version carries the transaction     *)
(* that wrote it, which is its changed_xid, and the one that deleted it.    *)
(* One key's scope is modelled, of blobs with one element each, and a       *)
(* builder's own transaction writes nothing another snapshot depends on.    *)
(***************************************************************************)
EXTENDS Naturals

CONSTANTS
  Blob,      \* blobs, each with one element and at most one summary
  Search,    \* searches that run at the same time
  NoSearch,  \* holder of a lock that is free
  MaxXid,    \* bound on the writing transactions
  MaxBoots   \* bound on the boots of another daemon

ASSUME ScopeAssumption == MaxXid \in Nat /\ MaxBoots \in Nat /\ NoSearch \notin Search

VARIABLES
  next,      \* the next xid
  tx,        \* Xid -> state of the transaction
  rows,      \* row versions of worktree_files, elements and smart_content
  cache,     \* the key's scope_cache row with its scope_sources, or NoScope
  lock,      \* the search that holds the key's build lock, or NoSearch
  search,    \* the state of each search
  boots

scvars == <<next, tx, rows, cache, lock, search, boots>>

Xid == 1..MaxXid
Table == {"path", "element", "summary"}
RowVersion == [of : Table, blob : Blob, by : Xid, gone : 0..MaxXid]
Source == {"raw", "smart"} \X Blob

NoScope == [built |-> FALSE, cutoff |-> 0, sources |-> {}]
IdleSearch == [at |-> "idle", seen |-> {}, cutoff |-> 0, saw |-> NoScope]

Running == {x \in Xid : tx[x] = "running"}
Committed == {x \in Xid : tx[x] = "committed"}

\* What a snapshot cannot see: its xmin is the oldest of them.
Unseen == Running \union {next}

ScopeInit ==
  /\ next = 1 /\ tx = [x \in Xid |-> "none"] /\ boots = 0
  /\ rows = {}
  /\ cache = NoScope /\ lock = NoSearch
  /\ search = [s \in Search |-> IdleSearch]

-----------------------------------------------------------------------------
(* Writers.                                                                *)

\* The xid is taken at the first write.
BeginWrite ==
  /\ next \in Xid
  /\ next' = next + 1
  /\ tx' = [tx EXCEPT ![next] = "running"]
  /\ UNCHANGED <<rows, cache, lock, search, boots>>

Visible(seen) == {v \in rows : v.by \in seen /\ v.gone \notin seen}

Stored(table, b, seen) == \E v \in Visible(seen) : v.of = table /\ v.blob = b

\* A row is written by one transaction at a time.
Settled(v) == v.gone \in Committed

\* fs3_stamp_changed: a path added or pointed here, a parse stored, a summary
\* bought.
Write(x, table, b) ==
  /\ x \in Running
  /\ \A v \in rows : v.of = table /\ v.blob = b => Settled(v)
  /\ rows' = rows \union {[of |-> table, blob |-> b, by |-> x, gone |-> 0]}
  /\ UNCHANGED <<next, tx, cache, lock, search, boots>>

\* A path removed or pointed elsewhere.  What leaves with it is counted in
\* scope_shrinks, for a rebuild to come the sooner: see TakeSnapshot.
RemovePath(x, b) ==
  /\ x \in Running
  /\ \E v \in Visible(Committed \union {x}) :
       /\ v.of = "path" /\ v.blob = b /\ v.gone = 0
       /\ rows' = (rows \ {v}) \union {[v EXCEPT !.gone = x]}
  /\ UNCHANGED <<next, tx, cache, lock, search, boots>>

Commit(x) ==
  /\ x \in Running
  /\ tx' = [tx EXCEPT ![x] = "committed"]
  /\ UNCHANGED <<next, rows, cache, lock, search, boots>>

Abort(x) ==
  /\ x \in Running
  /\ tx' = [tx EXCEPT ![x] = "aborted"]
  /\ rows' = {IF v.gone = x THEN [v EXCEPT !.gone = 0] ELSE v : v \in {w \in rows : w.by # x}}
  /\ UNCHANGED <<next, cache, lock, search, boots>>

-----------------------------------------------------------------------------
(* Searches.                                                               *)

\* What the scope admits in a snapshot, of the given blobs.
Admitted(blobs, seen) ==
  LET parsed == {b \in blobs : Stored("path", b, seen) /\ Stored("element", b, seen)}
  IN  ({"raw"} \X parsed) \union
      ({"smart"} \X {b \in parsed : Stored("summary", b, seen)})

FullScope(seen) == Admitted(Blob, seen)

\* Mutant: a blob is looked at again only when its path is new.
GrownPathsOnly(cutoff, seen) ==
  {b \in Blob : \E v \in Visible(seen) : v.blob = b /\ v.of = "path" /\ v.by >= cutoff}

\* scope_file_blobs with a cached scope: a path added or re-pointed, or a blob
\* that gained elements.
Grown(cutoff, seen) ==
  {b \in Blob : \E v \in Visible(seen) :
                  v.blob = b /\ v.of \in {"path", "element"} /\ v.by >= cutoff}

\* scope_late_summaries.
LateSummaries(cutoff, seen) ==
  {"smart"} \X {b \in Blob :
    /\ <<"raw", b>> \in cache.sources
    /\ \E v \in Visible(seen) : v.blob = b /\ v.of = "summary" /\ v.by >= cutoff}

\* admitted_sources: a search whose key has gone collects in full.
Found(cutoff, seen) ==
  IF ~cache.built THEN FullScope(seen)
  ELSE cache.sources \union Admitted(Grown(cutoff, seen), seen) \union LateSummaries(cutoff, seen)

Proceed(s, state) == search' = [search EXCEPT ![s] = state]

\* The key is fresh: its cutoff is bound.
Hit(s) ==
  /\ search[s].at = "idle" /\ cache.built
  /\ Proceed(s, [IdleSearch EXCEPT !.at = "read", !.cutoff = cache.cutoff])
  /\ UNCHANGED <<next, tx, rows, cache, lock, boots>>

\* It is missing, old, or has lost too much, and a build begins.  The
\* statement that tries the lock takes the transaction's snapshot first.
\* Whether it is old is left open, which covers the cooldown too: a search
\* that collects in full for itself takes no step here.
TakeSnapshot(s) ==
  /\ search[s].at = "idle"
  /\ \E xmin \in Unseen :
       /\ \A y \in Unseen : xmin <= y
       /\ Proceed(s, [at |-> "snapshot", seen |-> Committed, cutoff |-> xmin, saw |-> cache])
  /\ UNCHANGED <<next, tx, rows, cache, lock, boots>>

\* Busy: another search is building the key, and this one collects in full.
TryLock(s) ==
  /\ search[s].at = "snapshot"
  /\ IF lock = NoSearch
     THEN lock' = s /\ Proceed(s, [search[s] EXCEPT !.at = "build"])
     ELSE UNCHANGED lock /\ Proceed(s, IdleSearch)
  /\ UNCHANGED <<next, tx, rows, cache, boots>>

CutoffOf(s) == search[s].cutoff

\* Delete and insert under a repeatable-read snapshot: a key somebody else has
\* rewritten since is refused, and the search goes on without the cache.
Build(s) ==
  /\ search[s].at = "build"
  /\ lock' = NoSearch
  /\ IF search[s].saw = cache
     THEN /\ cache' = [built |-> TRUE, cutoff |-> CutoffOf(s), sources |-> FullScope(search[s].seen)]
          /\ Proceed(s, [IdleSearch EXCEPT !.at = "read", !.cutoff = CutoffOf(s)])
     ELSE UNCHANGED cache /\ Proceed(s, IdleSearch)
  /\ UNCHANGED <<next, tx, rows, boots>>

\* The search statement: its answer is Found(search[s].cutoff, Committed).
Read(s) ==
  /\ search[s].at = "read"
  /\ Proceed(s, IdleSearch)
  /\ UNCHANGED <<next, tx, rows, cache, lock, boots>>

\* A statement fails, or the caller goes away: the transaction rolls back.
GiveUp(s) ==
  /\ search[s].at \in {"snapshot", "build"}
  /\ Proceed(s, IdleSearch)
  /\ lock' = IF lock = s THEN NoSearch ELSE lock
  /\ UNCHANGED <<next, tx, rows, cache, boots>>

\* A build of another key drops this one an hour after it was built, when no
\* build that began before it can still be open.
DropIdle ==
  /\ cache.built
  /\ \A s \in Search : search[s].at \in {"snapshot", "build"} => search[s].saw = cache
  /\ cache' = NoScope
  /\ UNCHANGED <<next, tx, rows, lock, search, boots>>

\* reset_scope_cache, at boot: no search of the process before is left.
ResetScopeCache ==
  /\ boots < MaxBoots /\ boots' = boots + 1
  /\ cache' = NoScope /\ lock' = NoSearch
  /\ search' = [s \in Search |-> IdleSearch]
  /\ UNCHANGED <<next, tx, rows>>

ScopeNext ==
  \/ BeginWrite
  \/ \E x \in Xid :
       \/ \E table \in Table, b \in Blob : Write(x, table, b)
       \/ \E b \in Blob : RemovePath(x, b)
       \/ Commit(x) \/ Abort(x)
  \/ \E s \in Search : Hit(s) \/ TakeSnapshot(s) \/ TryLock(s) \/ Build(s) \/ Read(s) \/ GiveUp(s)
  \/ DropIdle \/ ResetScopeCache

ScopeSpec == ScopeInit /\ [][ScopeNext]_scvars

-----------------------------------------------------------------------------
(* Properties.                                                              *)

Scope == [built : BOOLEAN, cutoff : 0..MaxXid + 1, sources : SUBSET Source]

ScopeTypeOK ==
  /\ next \in 1..MaxXid + 1 /\ boots \in 0..MaxBoots
  /\ tx \in [Xid -> {"none", "running", "committed", "aborted"}]
  /\ rows \subseteq RowVersion
  /\ cache \in Scope
  /\ lock \in Search \union {NoSearch}
  /\ search \in [Search -> [at : {"idle", "snapshot", "build", "read"}, seen : SUBSET Xid,
                            cutoff : 0..MaxXid + 1, saw : Scope]]

\* "Never missing a source is the whole contract": whatever commits between a
\* key's check, its build and the search statement, the statement reads every
\* source the scope has by then.
NeverMissing ==
  \A s \in Search : search[s].at = "read" =>
    FullScope(Committed) \subseteq Found(search[s].cutoff, Committed)

=============================================================================
