-------------------------------- MODULE ScanAll --------------------------------
(***************************************************************************)
(* scanAll of relay/internal/store/store.go: the walk over the whole base  *)
(* store under the reindex, count and diff commands.  The base store has   *)
(* no cursor, so the walk pages backwards by an inclusive `until` and      *)
(* doubles the page while a page lies inside one second.  The relay is not *)
(* running, so the store does not change under the walk.                   *)
(***************************************************************************)
EXTENDS Naturals, Sequences, FiniteSets, SequencesExt, FiniteSetsExt

CONSTANTS
  Times,        \* the created_at values
  MaxEvents,    \* bound on the events stored
  PageSize,     \* reindexPageSize
  MaxPageSize   \* reindexMaxPageSize

ASSUME ScanAssumption ==
  /\ Times \subseteq Nat /\ MaxEvents \in Nat
  /\ PageSize \in Nat \ {0} /\ MaxPageSize \in Nat

VARIABLES
  stored,    \* the created_at of every event stored, newest first
  until,     \* the bound of the next page; 0 stands for none
  pageSize,
  seen,      \* the events handed to the caller, as positions in stored
  status

walkVars == <<stored, until, pageSize, seen, status>>

Descending(s) == \A i, j \in DOMAIN s : i < j => s[i] >= s[j]

WalkInit ==
  /\ stored \in {s \in BoundedSeq(Times, MaxEvents) : Descending(s)}
  /\ until = 0 /\ pageSize = PageSize /\ seen = {} /\ status = "scanning"

\* A fault: the bound is taken to be exclusive.
ExclusiveFetchPage(bound, limit) ==
  LET older == Cardinality({i \in DOMAIN stored : bound # 0 /\ stored[i] >= bound})
  IN {i \in DOMAIN stored : older < i /\ i <= older + limit}

\* The positions of the newest `limit` events at or before `bound`.
FetchPage(bound, limit) ==
  LET newer == Cardinality({i \in DOMAIN stored : bound # 0 /\ stored[i] > bound})
  IN {i \in DOMAIN stored : newer < i /\ i <= newer + limit}

Page == FetchPage(until, pageSize)

\* The created_at of the page's last event.
LastCreatedAt == stored[Max(Page)]

Full == Cardinality(Page) = pageSize

Scan == status = "scanning" /\ seen' = seen \cup Page

\* The page is empty or not full.
Done ==
  /\ Scan /\ ~Full
  /\ status' = "done"
  /\ UNCHANGED <<stored, until, pageSize>>

\* A fault: the page size stays as it is.
StuckGrow ==
  /\ Scan /\ Full /\ LastCreatedAt = until /\ pageSize < MaxPageSize
  /\ UNCHANGED <<stored, until, pageSize, status>>

\* The whole page lies inside one second.
Grow ==
  /\ Scan /\ Full /\ LastCreatedAt = until /\ pageSize < MaxPageSize
  /\ pageSize' = 2 * pageSize
  /\ UNCHANGED <<stored, until, status>>

Refuse ==
  /\ Scan /\ Full /\ LastCreatedAt = until /\ pageSize >= MaxPageSize
  /\ status' = "refused"
  /\ UNCHANGED <<stored, until, pageSize>>

Advance ==
  /\ Scan /\ Full /\ LastCreatedAt # until
  /\ until' = LastCreatedAt
  /\ UNCHANGED <<stored, pageSize, status>>

Ended == status # "scanning" /\ UNCHANGED walkVars

WalkNext == Done \/ Grow \/ Refuse \/ Advance \/ Ended

WalkSpec == WalkInit /\ [][WalkNext]_walkVars /\ WF_walkVars(Done \/ Grow \/ Refuse \/ Advance)

-----------------------------------------------------------------------------
(* Properties *)

\* A walk that ends without an error has handed every event to the caller, which
\* is what a reindex, a count and a diff stand on.
CompleteWhenDone == status = "done" => seen = DOMAIN stored

\* The walk ends.
Terminates == <>(status # "scanning")
=============================================================================
