------------------------------ MODULE RelayStore ------------------------------
(***************************************************************************)
(* The two stores of the relay: relay/internal/store (store.go, import.go) *)
(* as driven by StoreEvent in relay/internal/relay/relay.go and by the     *)
(* offline commands of relay/cmd/relay/main.go.  Saving an event is two    *)
(* writes, the boltdb base first and the bleve index second; connections   *)
(* save at the same time, either write may be the last before the process  *)
(* ends, and the index write may fail.                                     *)
(*                                                                         *)
(* A base write is durable when it returns, except during an import, which *)
(* runs without fsync until its end: the machine going down may then lose  *)
(* any of the events written so far.  An index write is durable.           *)
(***************************************************************************)
EXTENDS Naturals, FiniteSets

CONSTANTS
  Event,
  Searchable,  \* the events of an indexable kind
  Connection,  \* the connections that publish
  Importer,    \* the import command, as a writer
  NoEvent,
  Budget,      \* bound on index write failures and process ends, together
  MaxRuns      \* bound on the offline commands started

ASSUME RelayAssumption ==
  /\ Searchable \subseteq Event /\ NoEvent \notin Event
  /\ Importer \notin Connection
  /\ Budget \in Nat /\ MaxRuns \in Nat

VARIABLES
  base,      \* the events in the base store
  index,     \* the events with a document in the search index
  drift,     \* Dual.drift
  metric,    \* Metrics.StoreDrift
  writer,    \* where each writer is in SaveEvent and StoreEvent
  acked,     \* the events some client has had OK:true for
  unsynced,  \* the events of a running import that no fsync covers yet
  mode,      \* the process that has the stores open
  todo,      \* the events that process still has to replay or import
  spent,     \* how much of Budget is gone
  runs       \* how many of MaxRuns

vars == <<base, index, drift, metric, writer, acked, unsynced, mode, todo, spent, runs>>

Writer == Connection \cup {Importer}

Idle == [at |-> "idle", event |-> NoEvent, dup |-> FALSE, ok |-> FALSE, sample |-> 0]

Spend == spent < Budget /\ spent' = spent + 1

Init ==
  /\ base = {} /\ index = {} /\ acked = {} /\ unsynced = {} /\ todo = {}
  /\ drift = 0 /\ metric = 0 /\ spent = 0 /\ runs = 0
  /\ mode = "down"
  /\ writer = [w \in Writer |-> Idle]

-----------------------------------------------------------------------------
(* SaveEvent *)

\* The base write: ErrDupEvent decides whether the index write that follows is
\* the event's first or an attempt to heal.
BaseWrite(w, e) ==
  /\ writer[w] = Idle
  /\ base' = base \cup {e}
  /\ writer' = [writer EXCEPT ![w] =
                  [Idle EXCEPT !.at = "index", !.event = e, !.dup = e \in base]]

\* A fault: connections too write without fsync.
UnsyncedPublish(c, e) ==
  /\ mode = "up"
  /\ BaseWrite(c, e)
  /\ unsynced' = unsynced \cup ({e} \ base)
  /\ UNCHANGED <<index, drift, metric, acked, mode, todo, spent, runs>>

Publish(c, e) ==
  /\ mode = "up"
  /\ BaseWrite(c, e)
  /\ UNCHANGED <<index, drift, metric, acked, unsynced, mode, todo, spent, runs>>

\* A fault: a duplicate is taken to be indexed already.
UnhealedIndexWrite(w) ==
  /\ writer[w].at = "index"
  /\ index' = index \cup IF writer[w].dup THEN {} ELSE {writer[w].event} \cap Searchable

\* bleve ignores the kinds it does not index.
IndexWrite(w) ==
  /\ writer[w].at = "index"
  /\ index' = index \cup ({writer[w].event} \cap Searchable)

\* A fault: an index write that fails on a duplicate is not counted.
UncountedIndexWriteFails(w) ==
  /\ writer[w].at = "index" /\ writer[w].event \in Searchable
  /\ Spend
  /\ drift' = IF writer[w].dup THEN drift ELSE drift + 1

IndexWriteFails(w) ==
  /\ writer[w].at = "index" /\ writer[w].event \in Searchable
  /\ Spend
  /\ drift' = drift + 1

Indexed(c) ==
  /\ mode = "up" /\ c \in Connection
  /\ IndexWrite(c)
  /\ writer' = [writer EXCEPT ![c].at = "returned", ![c].ok = TRUE]
  /\ UNCHANGED <<base, drift, metric, acked, unsynced, mode, todo, spent, runs>>

\* The duplicate is answered with OK:true all the same.
NotIndexed(c) ==
  /\ mode = "up" /\ c \in Connection
  /\ IndexWriteFails(c)
  /\ writer' = [writer EXCEPT ![c].at = "returned", ![c].ok = writer[c].dup]
  /\ UNCHANGED <<base, index, metric, acked, unsynced, mode, todo, runs>>

\* StoreEvent reads the counter ...
ReadDrift(c) ==
  /\ writer[c].at = "returned"
  /\ writer' = [writer EXCEPT ![c].at = "read", ![c].sample = drift]
  /\ UNCHANGED <<base, index, drift, metric, acked, unsynced, mode, todo, spent, runs>>

\* ... and stores what it read, then answers.
Answer(c) ==
  /\ writer[c].at = "read"
  /\ metric' = writer[c].sample
  /\ acked' = IF writer[c].ok THEN acked \cup {writer[c].event} ELSE acked
  /\ writer' = [writer EXCEPT ![c] = Idle]
  /\ UNCHANGED <<base, index, drift, unsynced, mode, todo, spent, runs>>

-----------------------------------------------------------------------------
(* The processes *)

Start ==
  /\ mode = "down" /\ mode' = "up"
  /\ drift' = 0 /\ metric' = 0
  /\ UNCHANGED <<base, index, writer, acked, unsynced, todo, spent, runs>>

\* The process that has the stores open ends between two writes, killed or shut
\* down: websocket connections are not drained.
Stop ==
  /\ mode # "down" /\ mode' = "down"
  /\ Spend
  /\ \E lost \in SUBSET unsynced : base' = base \ lost
  /\ unsynced' = {} /\ todo' = {}
  /\ writer' = [w \in Writer |-> Idle]
  /\ UNCHANGED <<index, drift, metric, acked, runs>>

Run == mode = "down" /\ runs < MaxRuns /\ runs' = runs + 1

\* A fault: the old index is kept and added to.
AddingStartReindex ==
  /\ Run
  /\ mode' = "reindex" /\ todo' = base
  /\ UNCHANGED <<base, index, drift, metric, writer, acked, unsynced, spent>>

StartReindex ==
  /\ Run
  /\ mode' = "reindex" /\ index' = {} /\ todo' = base
  /\ UNCHANGED <<base, drift, metric, writer, acked, unsynced, spent>>

Replay(e) ==
  /\ mode = "reindex" /\ e \in todo
  /\ todo' = todo \ {e}
  /\ index' = index \cup ({e} \cap Searchable)
  /\ UNCHANGED <<base, drift, metric, writer, acked, unsynced, mode, spent, runs>>

\* The command gives up at the first event it cannot index.
ReplayFails(e) ==
  /\ mode = "reindex" /\ e \in todo \cap Searchable
  /\ Spend
  /\ mode' = "down" /\ todo' = {}
  /\ UNCHANGED <<base, index, drift, metric, writer, acked, unsynced, runs>>

StartImport(file) ==
  /\ Run
  /\ mode' = "import" /\ todo' = file
  /\ UNCHANGED <<base, index, drift, metric, writer, acked, unsynced, spent>>

Import(e) ==
  /\ mode = "import" /\ e \in todo
  /\ BaseWrite(Importer, e)
  /\ unsynced' = unsynced \cup ({e} \ base)
  /\ UNCHANGED <<index, drift, metric, acked, mode, todo, spent, runs>>

ImportNext ==
  /\ todo' = todo \ {writer[Importer].event}
  /\ writer' = [writer EXCEPT ![Importer] = Idle]

Imported ==
  /\ mode = "import"
  /\ IndexWrite(Importer)
  /\ ImportNext
  /\ UNCHANGED <<base, drift, metric, acked, unsynced, mode, spent, runs>>

\* A duplicate that cannot be indexed counts as a duplicate and the import goes
\* on; on an event it has just stored the import gives up.  What it wrote is
\* with the operating system, which writes it back once the command is gone.
ImportFails ==
  /\ mode = "import"
  /\ IndexWriteFails(Importer)
  /\ IF writer[Importer].dup
       THEN ImportNext /\ UNCHANGED <<mode, unsynced>>
       ELSE /\ mode' = "down" /\ todo' = {} /\ unsynced' = {}
            /\ writer' = [writer EXCEPT ![Importer] = Idle]
  /\ UNCHANGED <<base, index, metric, acked, runs>>

\* The command has handled every event; an import ends with one fsync.
Finish ==
  /\ mode \in {"reindex", "import"} /\ todo = {}
  /\ mode' = "down" /\ unsynced' = {}
  /\ UNCHANGED <<base, index, drift, metric, writer, acked, todo, spent, runs>>

Next ==
  \/ \E c \in Connection, e \in Event : Publish(c, e)
  \/ \E c \in Connection : Indexed(c) \/ NotIndexed(c) \/ ReadDrift(c) \/ Answer(c)
  \/ Start \/ Stop
  \/ StartReindex \/ \E e \in Event : Replay(e) \/ ReplayFails(e)
  \/ \E file \in SUBSET Event \ {{}} : StartImport(file)
  \/ \E e \in Event : Import(e)
  \/ Imported \/ ImportFails \/ Finish

Spec == Init /\ [][Next]_vars

\* A publisher sends an event again until it is told OK.
Retry(e) == e \notin acked /\ \E c \in Connection : Publish(c, e)

FairSpec ==
  /\ Spec
  /\ \A e \in Event : SF_vars(Retry(e))
  /\ \A c \in Connection : WF_vars(Indexed(c)) /\ WF_vars(ReadDrift(c)) /\ WF_vars(Answer(c))
  /\ WF_vars(Start)

-----------------------------------------------------------------------------
(* Properties *)

InFlight == {writer[w].event : w \in {v \in Writer : writer[v].at = "index"}}

\* What a search misses and no write under way will add.
Missing == ((base \cap Searchable) \ index) \ InFlight

WriterState ==
  [at : {"idle", "index", "returned", "read"}, event : Event \cup {NoEvent},
   dup : BOOLEAN, ok : BOOLEAN, sample : Nat]

\* Offline commands and connections never overlap.
OneProcess ==
  \A w \in Writer : writer[w] # Idle => mode = IF w = Importer THEN "import" ELSE "up"

\* The state has its type, and only the process that has the stores open writes.
TypeOK ==
  /\ base \subseteq Event /\ index \subseteq Searchable /\ acked \subseteq Event
  /\ unsynced \subseteq base /\ todo \subseteq Event
  /\ drift \in Nat /\ metric \in Nat /\ spent \in 0..Budget /\ runs \in 0..MaxRuns
  /\ mode \in {"up", "down", "reindex", "import"}
  /\ writer \in [Writer -> WriterState]
  /\ OneProcess

\* An OK:true is kept: the event is in the base store ever after, across process
\* ends, reindexing, and imports that lose their tail (NIP-20).
AckedIsStored == acked \subseteq base

\* The search index drifts only with notice: while the relay runs, an event
\* becomes missing from it by no step that does not count it (store.go, SaveEvent).
DriftIsCounted ==
  [][mode = "up" /\ mode' = "up" /\ Missing' \ Missing # {} => drift' > drift]_vars

\* A reindex that runs to its end reconciles the stores exactly: nothing stored
\* is missing, and no document is left of an event that an import lost.
ReindexReconciles ==
  [][mode = "reindex" /\ todo = {} /\ mode' = "down" => index' = base' \cap Searchable]_vars

\* One thing going wrong while the relay serves, an index write or the end of the
\* process, is healed by the publishers' retries alone: every stored event becomes
\* searchable, whichever of its writes was the last one to succeed.
RetryHeals == \A e \in Searchable : e \in base ~> e \in index \/ spent > 1 \/ runs > 0
=============================================================================
