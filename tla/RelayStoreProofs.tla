--------------------------- MODULE RelayStoreProofs ---------------------------
(***************************************************************************)
(* The two stores of the relay, for any events, connections and bounds:    *)
(* an OK is kept, drift is counted as it happens, a reindex that ends is   *)
(* exact.  And of the walk over the base store that a reindex replays: one *)
(* that ends has come past every event, so that StartReindex may set all   *)
(* of base as what is to do.  And of the search budget, which holds for    *)
(* every burst, rate and ceiling, however many requests run at once.       *)
(***************************************************************************)
EXTENDS RelayStore, ScanAll, SearchLimiter, FiniteSetTheorems, TLAPS

\* A write under way is of a stored event, and of the one an import is at.
WritesAreOfStored ==
  /\ \A w \in Writer : writer[w].at # "idle" => writer[w].event \in base
  /\ \A w \in Writer : writer[w].at = "idle" => writer[w] = Idle
  /\ writer[Importer] # Idle => writer[Importer].event \in todo

\* Only an import has events that the machine going down may lose, and none of
\* them has been acked.
AckedIsSynced ==
  /\ acked \subseteq base \ unsynced
  /\ mode # "import" => unsynced = {}

\* A reindex has given a document to what it has replayed and to nothing else.
ReplayedIsIndexed ==
  mode = "reindex" => todo \subseteq base /\ index = (base \ todo) \cap Searchable

RelayInv == TypeOK /\ WritesAreOfStored /\ AckedIsSynced /\ ReplayedIsIndexed

-----------------------------------------------------------------------------
\* The records SaveEvent and StoreEvent leave a writer with.
LEMMA IdleWriter == Idle \in WriterState /\ Idle.at = "idle"
  BY DEF Idle, WriterState

LEMMA StartedWriter ==
  ASSUME NEW e \in Event
  PROVE  [Idle EXCEPT !.at = "index", !.event = e, !.dup = e \in base] \in WriterState
<1>1. \A dup \in BOOLEAN :
        [Idle EXCEPT !.at = "index", !.event = e, !.dup = dup] \in WriterState
  BY DEF Idle, WriterState
<1>2. (e \in base) \in BOOLEAN
  OBVIOUS
<1>3. QED
  BY <1>1, <1>2

LEMMA SampledWriter ==
  ASSUME NEW s \in WriterState, NEW n \in Nat
  PROVE  [s EXCEPT !.at = "read", !.sample = n] \in WriterState
  BY DEF WriterState

LEMMA ReturnedWriter ==
  ASSUME NEW s \in WriterState, NEW done \in BOOLEAN
  PROVE  [s EXCEPT !.at = "returned", !.ok = done] \in WriterState
  BY DEF WriterState

LEMMA UpdatedWriters ==
  ASSUME writer \in [Writer -> WriterState], NEW w \in Writer, NEW s \in WriterState
  PROVE  [writer EXCEPT ![w] = s] \in [Writer -> WriterState]
  OBVIOUS

\* No connection and no import is in a save while the relay is down or reindexing.
LEMMA NobodyWrites ==
  ASSUME RelayInv, mode \in {"down", "reindex"}
  PROVE  \A w \in Writer : writer[w] = Idle /\ writer[w].at = "idle"
  BY IdleWriter DEF RelayInv, TypeOK, OneProcess

\* The relay starts with both stores empty.
LEMMA InitHasInv == Init => RelayInv
  BY RelayAssumption
  DEF Init, RelayInv, TypeOK, WriterState, OneProcess, WritesAreOfStored, AckedIsSynced,
      ReplayedIsIndexed, Idle, Writer

\* The base write of a save on one connection.
LEMMA PublishKeepsInv ==
  ASSUME RelayInv, NEW c \in Connection, NEW e \in Event, Publish(c, e)
  PROVE  RelayInv'
<1>1. writer' \in [Writer -> WriterState]
  <2>1. [Idle EXCEPT !.at = "index", !.event = e, !.dup = e \in base] \in WriterState
    BY StartedWriter
  <2>2. QED
    BY <2>1, UpdatedWriters DEF Publish, BaseWrite, RelayInv, TypeOK, Writer
<1>2. OneProcess'
  BY RelayAssumption
  DEF Publish, BaseWrite, RelayInv, TypeOK, OneProcess, WritesAreOfStored, Idle, Writer
<1>3. TypeOK'
  BY <1>1, <1>2, RelayAssumption
  DEF Publish, BaseWrite, RelayInv, TypeOK, WritesAreOfStored, Writer
<1>4. WritesAreOfStored'
  BY RelayAssumption
  DEF Publish, BaseWrite, RelayInv, TypeOK, WriterState, WritesAreOfStored, Idle, Writer
<1>5. AckedIsSynced'
  BY RelayAssumption
  DEF Publish, BaseWrite, RelayInv, TypeOK, WriterState, WritesAreOfStored, AckedIsSynced,
      Idle, Writer
<1>6. ReplayedIsIndexed'
  BY RelayAssumption DEF Publish, BaseWrite, RelayInv, ReplayedIsIndexed, AckedIsSynced
<1>7. QED
  BY <1>3, <1>4, <1>5, <1>6 DEF RelayInv

\* The rest of a save on one connection, up to its OK.
LEMMA ConnectionKeepsInv ==
  ASSUME RelayInv, NEW c \in Connection,
         Indexed(c) \/ NotIndexed(c) \/ ReadDrift(c) \/ Answer(c)
  PROVE  RelayInv'
<1>1. CASE Indexed(c)
  <2>1. writer' \in [Writer -> WriterState]
    <3>1. writer \in [Writer -> WriterState] /\ c \in Writer
      BY DEF RelayInv, TypeOK, Writer
    <3>2. writer[c] \in WriterState /\ TRUE \in BOOLEAN
      BY <3>1 DEF WriterState
    <3>3. [writer[c] EXCEPT !.at = "returned", !.ok = TRUE] \in WriterState
      BY <3>2, ReturnedWriter
    <3>4. writer' = [writer EXCEPT ![c] =
                       [writer[c] EXCEPT !.at = "returned", !.ok = TRUE]]
      BY <1>1, <3>1 DEF Indexed, IndexWrite
    <3>5. QED
      BY <3>1, <3>3, <3>4, UpdatedWriters
  <2>2. OneProcess'
    BY <1>1, RelayAssumption
    DEF Indexed, IndexWrite, RelayInv, TypeOK, OneProcess, WritesAreOfStored, Idle, Writer
  <2>3. TypeOK'
    BY <1>1, <2>1, <2>2, RelayAssumption
    DEF Indexed, IndexWrite, RelayInv, TypeOK, WritesAreOfStored, Writer
  <2>4. WritesAreOfStored'
    BY <1>1, RelayAssumption
    DEF Indexed, IndexWrite, RelayInv, TypeOK, WriterState, WritesAreOfStored, Idle,
        Writer
  <2>5. AckedIsSynced'
    BY <1>1, RelayAssumption
    DEF Indexed, IndexWrite, RelayInv, TypeOK, WriterState, WritesAreOfStored,
        AckedIsSynced, Idle, Writer
  <2>6. ReplayedIsIndexed'
    BY <1>1, RelayAssumption
    DEF Indexed, IndexWrite, RelayInv, ReplayedIsIndexed, AckedIsSynced
  <2>7. QED
    BY <2>3, <2>4, <2>5, <2>6 DEF RelayInv
<1>2. CASE NotIndexed(c)
  <2>1. writer' \in [Writer -> WriterState]
    <3>1. writer \in [Writer -> WriterState] /\ c \in Writer
      BY DEF RelayInv, TypeOK, Writer
    <3>2. writer[c] \in WriterState /\ writer[c].dup \in BOOLEAN
      BY <3>1 DEF WriterState
    <3>3. [writer[c] EXCEPT !.at = "returned", !.ok = writer[c].dup] \in WriterState
      BY <3>2, ReturnedWriter
    <3>4. writer' = [writer EXCEPT ![c] =
                       [writer[c] EXCEPT !.at = "returned", !.ok = writer[c].dup]]
      BY <1>2, <3>1 DEF NotIndexed, IndexWriteFails
    <3>5. QED
      BY <3>1, <3>3, <3>4, UpdatedWriters
  <2>2. OneProcess'
    BY <1>2, RelayAssumption
    DEF NotIndexed, IndexWriteFails, Spend, RelayInv, TypeOK, OneProcess,
        WritesAreOfStored, Idle, Writer
  <2>3. TypeOK'
    BY <1>2, <2>1, <2>2, RelayAssumption
    DEF NotIndexed, IndexWriteFails, Spend, RelayInv, TypeOK, WritesAreOfStored, Writer
  <2>4. WritesAreOfStored'
    <3>1. /\ writer \in [Writer -> WriterState] /\ c \in Writer
          /\ UNCHANGED <<base, unsynced>>
          /\ writer' = [writer EXCEPT ![c].at = "returned", ![c].ok = writer[c].dup]
          /\ writer[c].at = "index"
      BY <1>2 DEF NotIndexed, IndexWriteFails, RelayInv, TypeOK, Writer
    <3>2. QED
      BY ZenonT(30), <1>2, <3>1, RelayAssumption
      DEF NotIndexed, RelayInv, WriterState, WritesAreOfStored, Idle, Writer
  <2>5. AckedIsSynced'
    BY <1>2, RelayAssumption
    DEF NotIndexed, IndexWriteFails, Spend, RelayInv, TypeOK, WriterState,
        WritesAreOfStored, AckedIsSynced, Idle, Writer
  <2>6. ReplayedIsIndexed'
    BY <1>2, RelayAssumption
    DEF NotIndexed, IndexWriteFails, Spend, RelayInv, ReplayedIsIndexed, AckedIsSynced
  <2>7. QED
    BY <2>3, <2>4, <2>5, <2>6 DEF RelayInv
<1>3. CASE ReadDrift(c)
  <2>1. writer' \in [Writer -> WriterState]
    <3>1. [writer[c] EXCEPT !.at = "read", !.sample = drift] \in WriterState
      BY SampledWriter DEF RelayInv, TypeOK, Writer
    <3>2. writer' = [writer EXCEPT ![c] = [writer[c] EXCEPT !.at = "read", !.sample = drift]]
      BY <1>3 DEF ReadDrift
    <3>3. QED
      BY <3>1, <3>2, UpdatedWriters DEF RelayInv, TypeOK, Writer
  <2>2. OneProcess'
    BY <1>3, RelayAssumption
    DEF ReadDrift, RelayInv, TypeOK, OneProcess, WritesAreOfStored, Idle, Writer
  <2>3. TypeOK'
    BY <1>3, <2>1, <2>2, RelayAssumption
    DEF ReadDrift, RelayInv, TypeOK, WritesAreOfStored, Writer
  <2>4. WritesAreOfStored'
    BY <1>3, RelayAssumption
    DEF ReadDrift, RelayInv, TypeOK, WriterState, WritesAreOfStored, Idle, Writer
  <2>5. AckedIsSynced'
    BY <1>3, RelayAssumption
    DEF ReadDrift, RelayInv, TypeOK, WriterState, WritesAreOfStored, AckedIsSynced, Idle,
        Writer
  <2>6. ReplayedIsIndexed'
    BY <1>3, RelayAssumption DEF ReadDrift, RelayInv, ReplayedIsIndexed, AckedIsSynced
  <2>7. QED
    BY <2>3, <2>4, <2>5, <2>6 DEF RelayInv
<1>4. CASE Answer(c)
  <2>1. writer[c].event \in base /\ mode = "up" /\ unsynced = {}
    BY <1>4, RelayAssumption, IdleWriter
    DEF Answer, RelayInv, TypeOK, OneProcess, WritesAreOfStored, AckedIsSynced, Writer
  <2>2. writer' \in [Writer -> WriterState]
    BY <1>4, IdleWriter, UpdatedWriters DEF Answer, RelayInv, TypeOK, Writer
  <2>3. OneProcess'
    BY <1>4, RelayAssumption
    DEF Answer, RelayInv, TypeOK, OneProcess, WritesAreOfStored, Idle, Writer
  <2>4. TypeOK'
    <3>1. metric' \in Nat
      BY <1>4 DEF Answer, RelayInv, TypeOK, WriterState, Writer
    <3>2. acked' \subseteq Event
      BY <1>4, <2>1 DEF Answer, RelayInv, TypeOK
    <3>3. UNCHANGED <<base, index, drift, unsynced, mode, todo, spent, runs>>
      BY <1>4 DEF Answer
    <3>4. QED
      BY <2>2, <2>3, <3>1, <3>2, <3>3 DEF RelayInv, TypeOK
  <2>5. WritesAreOfStored'
    BY <1>4, RelayAssumption
    DEF Answer, RelayInv, TypeOK, WriterState, WritesAreOfStored, Idle, Writer
  <2>6. AckedIsSynced'
    BY <1>4, <2>1 DEF Answer, RelayInv, TypeOK, AckedIsSynced
  <2>7. ReplayedIsIndexed'
    BY <1>4, RelayAssumption DEF Answer, RelayInv, ReplayedIsIndexed, AckedIsSynced
  <2>8. QED
    BY <2>4, <2>5, <2>6, <2>7 DEF RelayInv
<1>5. QED
  BY <1>1, <1>2, <1>3, <1>4

\* The processes: start, end, and the end of a command.
LEMMA ProcessKeepsInv ==
  ASSUME RelayInv, Start \/ Stop \/ Finish
  PROVE  RelayInv'
<1>1. CASE Start
  <2>1. writer' \in [Writer -> WriterState]
    BY <1>1, RelayAssumption DEF Start, RelayInv, TypeOK, WriterState, Idle, Writer
  <2>2. OneProcess'
    BY <1>1, RelayAssumption
    DEF Start, RelayInv, TypeOK, OneProcess, WritesAreOfStored, Idle, Writer
  <2>3. TypeOK'
    BY <1>1, <2>1, <2>2, RelayAssumption
    DEF Start, RelayInv, TypeOK, WritesAreOfStored, Writer
  <2>4. WritesAreOfStored'
    BY <1>1, RelayAssumption
    DEF Start, RelayInv, TypeOK, WriterState, WritesAreOfStored, Idle, Writer
  <2>5. AckedIsSynced'
    BY <1>1, RelayAssumption
    DEF Start, RelayInv, TypeOK, WriterState, WritesAreOfStored, AckedIsSynced, Idle,
        Writer
  <2>6. ReplayedIsIndexed'
    BY <1>1, RelayAssumption DEF Start, RelayInv, ReplayedIsIndexed, AckedIsSynced
  <2>7. QED
    BY <2>3, <2>4, <2>5, <2>6 DEF RelayInv
<1>2. CASE Stop
  <2>1. writer' \in [Writer -> WriterState]
    BY <1>2, RelayAssumption DEF Stop, Spend, RelayInv, TypeOK, WriterState, Idle, Writer
  <2>2. OneProcess'
    BY <1>2, RelayAssumption
    DEF Stop, Spend, RelayInv, TypeOK, OneProcess, WritesAreOfStored, Idle, Writer
  <2>3. TypeOK'
    BY <1>2, <2>1, <2>2, RelayAssumption
    DEF Stop, Spend, RelayInv, TypeOK, WritesAreOfStored, Writer
  <2>4. WritesAreOfStored'
    BY <1>2, RelayAssumption
    DEF Stop, Spend, RelayInv, TypeOK, WriterState, WritesAreOfStored, Idle, Writer
  <2>5. AckedIsSynced'
    BY <1>2, RelayAssumption
    DEF Stop, Spend, RelayInv, TypeOK, WriterState, WritesAreOfStored, AckedIsSynced,
        Idle, Writer
  <2>6. ReplayedIsIndexed'
    BY <1>2, RelayAssumption DEF Stop, Spend, RelayInv, ReplayedIsIndexed, AckedIsSynced
  <2>7. QED
    BY <2>3, <2>4, <2>5, <2>6 DEF RelayInv
<1>3. CASE Finish
  <2>1. writer' \in [Writer -> WriterState]
    BY <1>3, RelayAssumption DEF Finish, RelayInv, TypeOK, WriterState, Idle, Writer
  <2>2. OneProcess'
    BY <1>3, RelayAssumption
    DEF Finish, RelayInv, TypeOK, OneProcess, WritesAreOfStored, Idle, Writer
  <2>3. TypeOK'
    BY <1>3, <2>1, <2>2, RelayAssumption
    DEF Finish, RelayInv, TypeOK, WritesAreOfStored, Writer
  <2>4. WritesAreOfStored'
    BY <1>3, RelayAssumption
    DEF Finish, RelayInv, TypeOK, WriterState, WritesAreOfStored, Idle, Writer
  <2>5. AckedIsSynced'
    BY <1>3, RelayAssumption
    DEF Finish, RelayInv, TypeOK, WriterState, WritesAreOfStored, AckedIsSynced, Idle,
        Writer
  <2>6. ReplayedIsIndexed'
    BY <1>3, RelayAssumption DEF Finish, RelayInv, ReplayedIsIndexed, AckedIsSynced
  <2>7. QED
    BY <2>3, <2>4, <2>5, <2>6 DEF RelayInv
<1>4. QED
  BY <1>1, <1>2, <1>3

\* The reindex command.
LEMMA ReindexKeepsInv ==
  ASSUME RelayInv, StartReindex \/ \E e \in Event : Replay(e) \/ ReplayFails(e)
  PROVE  RelayInv'
<1>1. CASE StartReindex
  <2>1. writer' \in [Writer -> WriterState]
    BY <1>1, RelayAssumption
    DEF StartReindex, Run, RelayInv, TypeOK, WriterState, Idle, Writer
  <2>2. OneProcess'
    BY <1>1, RelayAssumption
    DEF StartReindex, Run, RelayInv, TypeOK, OneProcess, WritesAreOfStored, Idle, Writer
  <2>3. TypeOK'
    BY <1>1, <2>1, <2>2, RelayAssumption
    DEF StartReindex, Run, RelayInv, TypeOK, WritesAreOfStored, Writer
  <2>4. WritesAreOfStored'
    BY <1>1, NobodyWrites, RelayAssumption DEF StartReindex, Run, WritesAreOfStored, Writer
  <2>5. AckedIsSynced'
    BY <1>1, RelayAssumption
    DEF StartReindex, Run, RelayInv, TypeOK, WriterState, WritesAreOfStored,
        AckedIsSynced, Idle, Writer
  <2>6. ReplayedIsIndexed'
    BY <1>1, RelayAssumption
    DEF StartReindex, Run, RelayInv, ReplayedIsIndexed, AckedIsSynced
  <2>7. QED
    BY <2>3, <2>4, <2>5, <2>6 DEF RelayInv
<1>2. ASSUME NEW e \in Event, Replay(e) PROVE RelayInv'
  <2>1. writer' \in [Writer -> WriterState]
    BY <1>2, RelayAssumption DEF Replay, RelayInv, TypeOK, WriterState, Idle, Writer
  <2>2. OneProcess'
    BY <1>2, RelayAssumption
    DEF Replay, RelayInv, TypeOK, OneProcess, WritesAreOfStored, Idle, Writer
  <2>3. TypeOK'
    BY <1>2, <2>1, <2>2, RelayAssumption
    DEF Replay, RelayInv, TypeOK, WritesAreOfStored, Writer
  <2>4. WritesAreOfStored'
    BY <1>2, NobodyWrites, RelayAssumption DEF Replay, WritesAreOfStored, Writer
  <2>5. AckedIsSynced'
    BY <1>2, RelayAssumption
    DEF Replay, RelayInv, TypeOK, WriterState, WritesAreOfStored, AckedIsSynced, Idle,
        Writer
  <2>6. ReplayedIsIndexed'
    BY <1>2, RelayAssumption DEF Replay, RelayInv, ReplayedIsIndexed, AckedIsSynced
  <2>7. QED
    BY <2>3, <2>4, <2>5, <2>6 DEF RelayInv
<1>3. ASSUME NEW e \in Event, ReplayFails(e) PROVE RelayInv'
  <2>1. writer' \in [Writer -> WriterState]
    BY <1>3, RelayAssumption
    DEF ReplayFails, Spend, RelayInv, TypeOK, WriterState, Idle, Writer
  <2>2. OneProcess'
    BY <1>3, RelayAssumption
    DEF ReplayFails, Spend, RelayInv, TypeOK, OneProcess, WritesAreOfStored, Idle, Writer
  <2>3. TypeOK'
    BY <1>3, <2>1, <2>2, RelayAssumption
    DEF ReplayFails, Spend, RelayInv, TypeOK, WritesAreOfStored, Writer
  <2>4. WritesAreOfStored'
    BY <1>3, NobodyWrites, RelayAssumption DEF ReplayFails, WritesAreOfStored, Writer
  <2>5. AckedIsSynced'
    BY <1>3, RelayAssumption
    DEF ReplayFails, Spend, RelayInv, TypeOK, WriterState, WritesAreOfStored,
        AckedIsSynced, Idle, Writer
  <2>6. ReplayedIsIndexed'
    BY <1>3, RelayAssumption
    DEF ReplayFails, Spend, RelayInv, ReplayedIsIndexed, AckedIsSynced
  <2>7. QED
    BY <2>3, <2>4, <2>5, <2>6 DEF RelayInv
<1>4. QED
  BY <1>1, <1>2, <1>3

\* The import command.
LEMMA ImportKeepsInv ==
  ASSUME RelayInv,
         \/ \E file \in SUBSET Event : StartImport(file)
         \/ \E e \in Event : Import(e)
         \/ Imported \/ ImportFails
  PROVE  RelayInv'
<1>1. ASSUME NEW file \in SUBSET Event, StartImport(file) PROVE RelayInv'
  <2>1. writer' \in [Writer -> WriterState]
    BY <1>1, RelayAssumption
    DEF StartImport, Run, RelayInv, TypeOK, WriterState, Idle, Writer
  <2>2. OneProcess'
    BY <1>1, RelayAssumption
    DEF StartImport, Run, RelayInv, TypeOK, OneProcess, WritesAreOfStored, Idle, Writer
  <2>3. TypeOK'
    BY <1>1, <2>1, <2>2, RelayAssumption
    DEF StartImport, Run, RelayInv, TypeOK, WritesAreOfStored, Writer
  <2>4. WritesAreOfStored'
    BY <1>1, NobodyWrites, RelayAssumption DEF StartImport, Run, WritesAreOfStored, Writer
  <2>5. AckedIsSynced'
    BY <1>1, RelayAssumption
    DEF StartImport, Run, RelayInv, TypeOK, WriterState, WritesAreOfStored, AckedIsSynced,
        Idle, Writer
  <2>6. ReplayedIsIndexed'
    BY <1>1, RelayAssumption
    DEF StartImport, Run, RelayInv, ReplayedIsIndexed, AckedIsSynced
  <2>7. QED
    BY <2>3, <2>4, <2>5, <2>6 DEF RelayInv
<1>2. ASSUME NEW e \in Event, Import(e) PROVE RelayInv'
  <2>1. writer' \in [Writer -> WriterState]
    <3>1. [Idle EXCEPT !.at = "index", !.event = e, !.dup = e \in base] \in WriterState
      BY StartedWriter
    <3>2. QED
      BY <1>2, <3>1, UpdatedWriters DEF Import, BaseWrite, RelayInv, TypeOK, Writer
  <2>2. OneProcess'
    BY <1>2, RelayAssumption
    DEF Import, BaseWrite, RelayInv, TypeOK, OneProcess, WritesAreOfStored, Idle, Writer
  <2>3. TypeOK'
    BY <1>2, <2>1, <2>2, RelayAssumption
    DEF Import, BaseWrite, RelayInv, TypeOK, WritesAreOfStored, Writer
  <2>4. WritesAreOfStored'
    BY <1>2, RelayAssumption
    DEF Import, BaseWrite, RelayInv, TypeOK, WriterState, WritesAreOfStored, Idle, Writer
  <2>5. AckedIsSynced'
    BY <1>2, RelayAssumption
    DEF Import, BaseWrite, RelayInv, TypeOK, WriterState, WritesAreOfStored,
        AckedIsSynced, Idle, Writer
  <2>6. ReplayedIsIndexed'
    BY <1>2, RelayAssumption
    DEF Import, BaseWrite, RelayInv, ReplayedIsIndexed, AckedIsSynced
  <2>7. QED
    BY <2>3, <2>4, <2>5, <2>6 DEF RelayInv
<1>3. CASE Imported
  <2>1. writer' \in [Writer -> WriterState]
    BY <1>3, RelayAssumption
    DEF Imported, IndexWrite, ImportNext, RelayInv, TypeOK, WriterState, Idle, Writer
  <2>2. OneProcess'
    BY <1>3, RelayAssumption
    DEF Imported, IndexWrite, ImportNext, RelayInv, TypeOK, OneProcess, WritesAreOfStored,
        Idle, Writer
  <2>3. TypeOK'
    BY <1>3, <2>1, <2>2, RelayAssumption
    DEF Imported, IndexWrite, ImportNext, RelayInv, TypeOK, WritesAreOfStored, Writer
  <2>4. WritesAreOfStored'
    BY <1>3, RelayAssumption
    DEF Imported, IndexWrite, ImportNext, RelayInv, TypeOK, WriterState,
        WritesAreOfStored, Idle, Writer
  <2>5. AckedIsSynced'
    BY <1>3, RelayAssumption
    DEF Imported, IndexWrite, ImportNext, RelayInv, TypeOK, WriterState,
        WritesAreOfStored, AckedIsSynced, Idle, Writer
  <2>6. ReplayedIsIndexed'
    BY <1>3, RelayAssumption
    DEF Imported, IndexWrite, ImportNext, RelayInv, ReplayedIsIndexed, AckedIsSynced
  <2>7. QED
    BY <2>3, <2>4, <2>5, <2>6 DEF RelayInv
<1>4. CASE ImportFails
  <2>1. writer' = [writer EXCEPT ![Importer] = Idle] /\ Importer \in Writer
    BY <1>4 DEF ImportFails, ImportNext, Writer
  <2>2. writer' \in [Writer -> WriterState]
    BY <2>1, IdleWriter, UpdatedWriters DEF RelayInv, TypeOK
  <2>3. OneProcess'
    BY <1>4, RelayAssumption
    DEF ImportFails, IndexWriteFails, ImportNext, Spend, RelayInv, TypeOK, OneProcess,
        WritesAreOfStored, Idle, Writer
  <2>4. TypeOK'
    BY <1>4, <2>2, <2>3, RelayAssumption
    DEF ImportFails, IndexWriteFails, ImportNext, Spend, RelayInv, TypeOK,
        WritesAreOfStored, Writer
  <2>5. WritesAreOfStored'
    <3>1. \A w \in Writer \ {Importer} : writer[w] = Idle
      BY <1>4, RelayAssumption DEF ImportFails, RelayInv, TypeOK, OneProcess, Writer
    <3>2. \A w \in Writer : writer'[w] = Idle
      BY <2>1, <3>1 DEF RelayInv, TypeOK
    <3>3. QED
      BY <2>1, <3>2, IdleWriter DEF WritesAreOfStored
  <2>6. AckedIsSynced'
    BY <1>4, RelayAssumption
    DEF ImportFails, IndexWriteFails, ImportNext, Spend, RelayInv, TypeOK, WriterState,
        WritesAreOfStored, AckedIsSynced, Idle, Writer
  <2>7. ReplayedIsIndexed'
    BY <1>4, RelayAssumption
    DEF ImportFails, IndexWriteFails, ImportNext, Spend, RelayInv, ReplayedIsIndexed,
        AckedIsSynced
  <2>8. QED
    BY <2>4, <2>5, <2>6, <2>7 DEF RelayInv
<1>5. QED
  BY <1>1, <1>2, <1>3, <1>4

\* A step that changes nothing.
LEMMA StutterKeepsInv == RelayInv /\ UNCHANGED vars => RelayInv'
  BY
  DEF vars, RelayInv, TypeOK, OneProcess, WritesAreOfStored, AckedIsSynced,
      ReplayedIsIndexed

\* The inductive invariant of the two stores under connections, process ends,
\* reindexes and imports.
THEOREM StoresInvariant == Spec => []RelayInv
<1>1. RelayInv /\ [Next]_vars => RelayInv'
  BY PublishKeepsInv, ConnectionKeepsInv, ProcessKeepsInv, ReindexKeepsInv, ImportKeepsInv,
     StutterKeepsInv
  DEF Next
<1>2. QED
  BY InitHasInv, <1>1, PTL DEF Spec

-----------------------------------------------------------------------------
\* An OK:true is kept, across process ends, reindexes and imports cut short.
THEOREM AcksAreKept == Spec => [](TypeOK /\ AckedIsStored)
<1>1. RelayInv => TypeOK /\ AckedIsStored
  BY DEF RelayInv, AckedIsSynced, AckedIsStored
<1>2. QED
  BY <1>1, StoresInvariant, PTL

\* While the relay runs, no event becomes missing from the index by a step that
\* does not count it.
THEOREM DriftIsNoticed == Spec => DriftIsCounted
<1> DEFINE Counted == mode = "up" /\ mode' = "up" /\ Missing' \ Missing # {} => drift' > drift
<1>1. RelayInv /\ [Next]_vars => [Counted]_vars
  <2> SUFFICES ASSUME RelayInv, Next, mode = "up", mode' = "up" PROVE Counted
    OBVIOUS
  <2>1. ASSUME NEW c \in Connection, NEW e \in Event, Publish(c, e) PROVE Counted
    BY <2>1, RelayAssumption
    DEF Publish, BaseWrite, Missing, InFlight, RelayInv, TypeOK, WriterState, Idle, Writer
  <2>2. ASSUME NEW c \in Connection, Indexed(c) PROVE Counted
    BY <2>2, RelayAssumption
    DEF Indexed, IndexWrite, Missing, InFlight, RelayInv, TypeOK, WriterState, Idle, Writer
  <2>3. ASSUME NEW c \in Connection, NotIndexed(c) PROVE Counted
    BY <2>3 DEF NotIndexed, IndexWriteFails, RelayInv, TypeOK
  <2>4. ASSUME NEW c \in Connection, ReadDrift(c) \/ Answer(c) PROVE Counted
    BY <2>4, RelayAssumption
    DEF ReadDrift, Answer, Missing, InFlight, RelayInv, TypeOK, WriterState, Idle, Writer
  <2>5. QED
    BY <2>1, <2>2, <2>3, <2>4
    DEF Next, Start, Stop, StartReindex, Replay, ReplayFails, StartImport, Import, Imported,
        ImportFails, Finish, Run
<1>2. QED
  BY <1>1, StoresInvariant, PTL DEF Spec, DriftIsCounted

\* A reindex that runs to its end leaves exactly the searchable stored events.
THEOREM ReindexIsExact == Spec => ReindexReconciles
<1> DEFINE Exact ==
             mode = "reindex" /\ todo = {} /\ mode' = "down" => index' = base' \cap Searchable
<1>1. RelayInv /\ [Next]_vars => [Exact]_vars
  <2> SUFFICES ASSUME RelayInv, Next, mode = "reindex", todo = {}, mode' = "down"
               PROVE index' = base' \cap Searchable
    OBVIOUS
  <2>1. index = base \cap Searchable /\ unsynced = {}
    BY DEF RelayInv, ReplayedIsIndexed, AckedIsSynced
  <2>2. Stop \/ Finish
    BY RelayAssumption
    DEF Next, Publish, Indexed, NotIndexed, ReadDrift, Answer, Start, StartReindex, Replay,
        ReplayFails, StartImport, Import, Imported, ImportFails, Run
  <2>3. QED
    BY <2>1, <2>2 DEF Stop, Finish
<1>2. QED
  BY <1>1, StoresInvariant, PTL DEF Spec, ReindexReconciles

-----------------------------------------------------------------------------
(* The walk under a reindex, scanAll *)

\* What the bound leaves behind has been handed to the caller.
SeenAbove == until # 0 => \A i \in DOMAIN stored : stored[i] > until => i \in seen

\* The walk has seen what is above its bound, and all of the store when it is done.
WalkInv ==
  /\ stored \in Seq(Times) /\ Descending(stored)
  /\ until \in Nat /\ pageSize \in Nat \ {0} /\ seen \subseteq DOMAIN stored
  /\ SeenAbove /\ CompleteWhenDone

\* Positions that start at the first make an interval.
LEMMA FirstPositions ==
  ASSUME NEW n \in Nat, NEW D \in SUBSET (1..n), \A i \in D : \A j \in 1..i : j \in D
  PROVE  Cardinality(D) \in 0..n /\ D = 1..Cardinality(D)
<1> DEFINE c == Cardinality(D)
<1>1. \A k \in Nat : IsFiniteSet(1..k) /\ Cardinality(1..k) = k
  <2> SUFFICES ASSUME NEW k \in Nat PROVE IsFiniteSet(1..k) /\ Cardinality(1..k) = k
    OBVIOUS
  <2>1. 1 \in Int /\ k \in Int /\ (IF 1 > k THEN 0 ELSE k - 1 + 1) = k
    OBVIOUS
  <2>2. QED
    BY <2>1, FS_Interval
<1>2. IsFiniteSet(D) /\ c \in 0..n
  <2>1. IsFiniteSet(D) /\ c <= n
    <3> DEFINE All == 1..n
    <3>1. IsFiniteSet(All) /\ Cardinality(All) = n /\ D \in SUBSET All
      BY <1>1
    <3> HIDE DEF All
    <3>2. IsFiniteSet(D) /\ Cardinality(D) <= Cardinality(All)
      BY <3>1, FS_Subset
    <3>3. QED
      BY <3>1, <3>2
  <2>2. c \in Nat
    BY <2>1, FS_CardinalityType
  <2> HIDE DEF c
  <2>3. QED
    BY <2>1, <2>2
<1>3. D \subseteq 1..c
  <2> SUFFICES ASSUME NEW i \in D, i > c PROVE FALSE
    BY <1>2
  <2>1. 1..i \in SUBSET D /\ i \in Nat
    OBVIOUS
  <2>2. Cardinality(1..i) <= c
    BY <1>2, <2>1, FS_Subset
  <2> HIDE DEF c
  <2>3. QED
    BY <1>1, <1>2, <2>1, <2>2
<1>4. D = 1..c
  <2>1. IsFiniteSet(1..c) /\ Cardinality(1..c) = c
    BY <1>1, <1>2
  <2>2. D \in SUBSET (1..c)
    BY <1>3
  <2>3. QED
    BY <2>1, <2>2, FS_Subset
<1>5. QED
  BY <1>2, <1>4

\* The store is a list of created_at values.
LEMMA StoredTimes ==
  ASSUME WalkInv
  PROVE  /\ DOMAIN stored = 1..Len(stored) /\ Len(stored) \in Nat
         /\ \A i \in DOMAIN stored : stored[i] \in Nat
<1>1. DOMAIN stored = 1..Len(stored) /\ Len(stored) \in Nat
  BY DEF WalkInv
<1>2. \A i \in 1..Len(stored) : stored[i] \in Times
  BY DEF WalkInv
<1>3. QED
  BY <1>1, <1>2, ScanAssumption

\* A page is an interval that starts behind what is newer than the bound.
LEMMA PageIsInterval ==
  ASSUME WalkInv
  PROVE  \E c \in 0..Len(stored) :
           /\ Page = {i \in DOMAIN stored : c < i /\ i <= c + pageSize}
           /\ \A i \in 1..c : i \in seen
<1> DEFINE D == {i \in DOMAIN stored : until # 0 /\ stored[i] > until}
           c == Cardinality(D)
<1>1. DOMAIN stored = 1..Len(stored) /\ Len(stored) \in Nat
  BY StoredTimes
<1>2. ASSUME NEW i \in D, NEW j \in 1..i PROVE j \in D
  <2>1. i \in DOMAIN stored /\ j \in DOMAIN stored /\ (j = i \/ j < i)
    BY <1>1
  <2>2. stored[i] \in Nat /\ stored[j] \in Nat
    BY <2>1, StoredTimes
  <2>3. stored[j] >= stored[i]
    BY <2>1, <2>2 DEF WalkInv, Descending
  <2>4. QED
    BY <2>1, <2>2, <2>3 DEF WalkInv
<1>3. c \in 0..Len(stored) /\ D = 1..c
  <2>1. D \in SUBSET (1..Len(stored))
    BY <1>1
  <2> HIDE DEF D
  <2>2. QED
    BY <1>1, <1>2, <2>1, FirstPositions
<1>4. Page = {i \in DOMAIN stored : c < i /\ i <= c + pageSize}
  BY DEF Page, FetchPage
<1>5. \A i \in 1..c : i \in seen
  BY <1>3 DEF WalkInv, SeenAbove
<1>6. QED
  BY <1>3, <1>4, <1>5

\* A page that is not full reaches the end of the store.
LEMMA PartialPageEnds ==
  ASSUME WalkInv, ~Full
  PROVE  seen \cup Page = DOMAIN stored
<1>1. DOMAIN stored = 1..Len(stored) /\ Len(stored) \in Nat
  BY StoredTimes
<1>2. PICK c \in 0..Len(stored) :
        /\ Page = {i \in DOMAIN stored : c < i /\ i <= c + pageSize}
        /\ \A i \in 1..c : i \in seen
  BY PageIsInterval
<1>3. ASSUME c + pageSize <= Len(stored) PROVE FALSE
  <2>1. Page = (c + 1)..(c + pageSize)
    BY <1>1, <1>2, <1>3 DEF WalkInv
  <2> DEFINE first == c + 1
             oldest == c + pageSize
  <2>2. first \in Int /\ oldest \in Int
    BY DEF WalkInv
  <2>3. (IF first > oldest THEN 0 ELSE oldest - first + 1) = pageSize
    BY DEF WalkInv
  <2>4. Cardinality(Page) = pageSize
    <3> HIDE DEF first, oldest
    <3>1. Cardinality(first..oldest) = pageSize
      BY <2>2, <2>3, FS_Interval
    <3>2. QED
      BY <2>1, <3>1 DEF first, oldest
  <2>5. QED
    BY <2>4 DEF Full
<1>4. QED
  BY <1>1, <1>2, <1>3 DEF WalkInv

\* A full page has a oldest event, and what is newer than that one is on the page or was seen.
LEMMA FullPageLast ==
  ASSUME WalkInv, Full
  PROVE  /\ LastCreatedAt \in Nat
         /\ \A i \in DOMAIN stored :
              stored[i] > LastCreatedAt => i \in seen \cup Page
<1>1. DOMAIN stored = 1..Len(stored) /\ Len(stored) \in Nat
  BY StoredTimes
<1>2. PICK c \in 0..Len(stored) :
        /\ Page = {i \in DOMAIN stored : c < i /\ i <= c + pageSize}
        /\ \A i \in 1..c : i \in seen
  BY PageIsInterval
<1>3. Page # {}
  BY FS_EmptySet DEF Full, WalkInv
<1> DEFINE m == IF c + pageSize <= Len(stored) THEN c + pageSize ELSE Len(stored)
<1>4. m \in Page /\ \A i \in Page : m >= i
  BY <1>1, <1>2, <1>3 DEF WalkInv
<1>5. Max(Page) = m
  <2> DEFINE IsMax(x) == x \in Page /\ \A i \in Page : x >= i
  <2>1. \A x : IsMax(x) => x = m
    BY <1>1, <1>2, <1>4
  <2>2. QED
    BY <1>4, <2>1 DEF Max
<1>6. LastCreatedAt = stored[m] /\ stored[m] \in Nat
  <2>1. m \in DOMAIN stored
    BY <1>2, <1>4
  <2>2. QED
    BY <1>5, <2>1, StoredTimes DEF LastCreatedAt
<1>7. ASSUME NEW i \in DOMAIN stored, stored[i] > stored[m] PROVE i \in seen \cup Page
  <2>1. stored[i] \in Nat
    BY StoredTimes
  <2>2. ~(m <= i)
    BY <1>2, <1>4, <1>6, <1>7, <2>1 DEF WalkInv, Descending
  <2>3. i \in Nat /\ m \in Nat /\ m <= c + pageSize
    BY <1>1 DEF WalkInv
  <2>4. i <= c + pageSize
    BY <2>2, <2>3 DEF WalkInv
  <2>5. QED
    BY <1>1, <1>2, <2>3, <2>4
<1>8. QED
  BY <1>6, <1>7

\* A page is of what is stored.
LEMMA PageIsStored == Page \subseteq DOMAIN stored
BY DEF Page, FetchPage

\* A walk starts with nothing seen and no bound.
LEMMA WalkStarts ==
  ASSUME WalkInit
  PROVE  WalkInv
<1>1. PICK m \in 0..MaxEvents : stored \in [1..m -> Times]
  BY DEF WalkInit, BoundedSeq, SeqOf
<1>2. stored \in Seq(Times)
  BY <1>1, ScanAssumption
<1>3. QED
  BY <1>2, ScanAssumption
  DEF WalkInit, WalkInv, SeenAbove, CompleteWhenDone

\* Each page keeps the invariant: a partial one ends the walk with everything seen, a full
\* one moves the bound no further than what has been seen.
LEMMA WalkSteps ==
  ASSUME WalkInv, [WalkNext]_walkVars
  PROVE  WalkInv'
<1>1. CASE Done
  BY <1>1, PartialPageEnds, PageIsStored
  DEF Done, Scan, WalkInv, SeenAbove, CompleteWhenDone
<1>2. CASE Grow
  BY <1>2, PageIsStored DEF Grow, Scan, WalkInv, SeenAbove, CompleteWhenDone
<1>3. CASE Refuse
  BY <1>3, PageIsStored DEF Refuse, Scan, WalkInv, SeenAbove, CompleteWhenDone
<1>4. CASE Advance
  <2>1. SeenAbove'
    BY <1>4, FullPageLast DEF Advance, Scan, SeenAbove
  <2>2. QED
    BY <1>4, <2>1, FullPageLast, PageIsStored
    DEF Advance, Scan, WalkInv, CompleteWhenDone
<1>5. CASE UNCHANGED walkVars
  BY <1>5 DEF walkVars, WalkInv, SeenAbove, CompleteWhenDone
<1>6. QED
  BY <1>1, <1>2, <1>3, <1>4, <1>5 DEF WalkNext, Ended

\* A walk over the base store that ends without an error has handed every event to the
\* caller, for any page size and ceiling and any created_at, however many share a second.
THEOREM WalkIsComplete == WalkSpec => []CompleteWhenDone
<1>1. WalkInv => CompleteWhenDone
  BY DEF WalkInv
<1>2. WalkInit => WalkInv
  BY WalkStarts
<1>3. WalkInv /\ [WalkNext]_walkVars => WalkInv'
  BY WalkSteps
<1>4. QED
  BY <1>1, <1>2, <1>3, PTL DEF WalkSpec

-----------------------------------------------------------------------------
(* The search limiter *)

\* The most a client is ever ahead of its refill.
Allowance == Burst + Rate * MaxStale

\* What a bucket is worth on the oldest clock a request may hold: a clock
\* older than the bucket's last take refills less.
WorthOf(bucket) == Min({Allowance, bucket.tokens + Rate * bucket.age})

\* A request of c comes from ip.
ComesFrom(c, ip) ==
  \E from \in ClaimsOf(c) :
    ip = ClientIP(cfg, [peer |-> PeerOf(c), forwardedFor |-> from,
                        path |-> "/", kind |-> "websocket"])

Address == (UNION {ClaimsOf(c) : c \in Client}) \cup {PeerOf(c) : c \in Client} \cup {NoAddress}

Bucket == [tokens : 0..Burst, age : 0..MaxAge]

LimiterTypeOK ==
  /\ \E env \in Env : Loads(env) /\ cfg = FromEnv(env)
  /\ buckets \in [DOMAIN buckets -> Bucket]
  /\ handler \in [Handler ->
       [client : Client \cup {NoClient}, ip : Address, stale : 0..MaxStale]]
  /\ debt \in [Client -> 0..MaxDebt]
  /\ swept \in BOOLEAN

\* A waiting request has the address its client's requests come from.
HandlersKnow ==
  \A h \in Handler : handler[h] # NoTake =>
    /\ handler[h].client \in Client
    /\ ComesFrom(handler[h].client, handler[h].ip)

\* What a client is ahead by, its bucket no longer has; without a bucket it has
\* been granted nothing.
Conserved ==
  ~swept => \A c \in Client :
    /\ \A ip \in DOMAIN buckets : ComesFrom(c, ip) => debt[c] + WorthOf(buckets[ip]) <= Allowance
    /\ (\A ip \in DOMAIN buckets : ~ComesFrom(c, ip)) => debt[c] = 0

LimiterInv == LimiterTypeOK /\ HandlersKnow /\ Conserved
-----------------------------------------------------------------------------
(* Arithmetic *)

LEMMA MinOfTwo ==
  ASSUME NEW a \in Int, NEW b \in Int
  PROVE  Min({a, b}) = IF a <= b THEN a ELSE b
BY DEF Min

LEMMA MaxOfTwo ==
  ASSUME NEW a \in Int, NEW b \in Int
  PROVE  Max({a, b}) = IF a >= b THEN a ELSE b
BY DEF Max

\* What refills in a time is linear in it, and a clock at its bound is worth the
\* allowance of a full bucket.
LEMMA RefillIsLinear ==
  /\ Rate \in Nat /\ Burst \in Nat /\ MaxStale \in Nat /\ Allowance \in Nat
  /\ Rate > 0 /\ Burst > 0 /\ MaxAge = Burst + MaxStale /\ MaxDebt = Allowance + 1
  /\ \A a \in Nat : Rate * a \in Nat /\ Rate * (a + 1) = Rate * a + Rate
  /\ \A a, s \in Nat : (a - s) * Rate = Rate * a - Rate * s
  /\ \A s \in 0..MaxStale : Burst + Rate * s <= Allowance
  /\ Rate * MaxAge >= Allowance
<1>1. Rate \in Nat /\ Burst \in Nat /\ MaxStale \in Nat /\ Rate > 0 /\ Burst > 0
  BY SearchLimiterAssumption
<1>2. /\ Allowance \in Nat /\ MaxDebt = Allowance + 1 /\ MaxAge = Burst + MaxStale
  BY <1>1 DEF Allowance, MaxDebt, MaxAge
<1>3. \A a \in Nat : Rate * a \in Nat /\ Rate * (a + 1) = Rate * a + Rate
  BY <1>1
<1>4. \A a, s \in Nat : (a - s) * Rate = Rate * a - Rate * s
  BY <1>1
<1>5. \A s \in 0..MaxStale : Burst + Rate * s <= Allowance
  <2>1. \A s \in 0..MaxStale : Rate * s <= Rate * MaxStale
    BY <1>1
  <2>2. QED
    BY <1>1, <1>3, <2>1 DEF Allowance
<1>6. Rate * MaxAge >= Allowance
  <2>1. Rate * (Burst + MaxStale) = Rate * Burst + Rate * MaxStale
    BY <1>1
  <2>2. Rate * Burst >= Burst
    BY <1>1
  <2>3. QED
    BY <1>1, <1>3, <2>1, <2>2 DEF Allowance, MaxAge
<1>7. QED
  BY <1>1, <1>2, <1>3, <1>4, <1>5, <1>6

\* The relay takes the requests of one client to come from one address.
LEMMA OneAddress ==
  ASSUME LimiterTypeOK, NEW c \in Client, NEW ip, NEW other, ComesFrom(c, ip), ComesFrom(c, other)
  PROVE  ip = other /\ ip \in Address
<1>1. PICK from \in ClaimsOf(c) :
        ip = ClientIP(cfg, [peer |-> PeerOf(c), forwardedFor |-> from,
                            path |-> "/", kind |-> "websocket"])
  BY DEF ComesFrom
<1>2. PICK from2 \in ClaimsOf(c) :
        other = ClientIP(cfg, [peer |-> PeerOf(c), forwardedFor |-> from2,
                            path |-> "/", kind |-> "websocket"])
  BY DEF ComesFrom
<1>3. from \in Address /\ PeerOf(c) \in Address
  <2>1. ClaimsOf(c) \in {ClaimsOf(d) : d \in Client}
    OBVIOUS
  <2>2. PeerOf(c) \in {PeerOf(d) : d \in Client}
    OBVIOUS
  <2>3. QED
    BY <2>1, <2>2, Zenon DEF Address
<1>4. CASE Trusted(cfg, PeerOf(c))
  <2>1. from = from2
    BY <1>4, ProxiesAssumption DEF LimiterTypeOK
  <2>2. QED
    BY <1>1, <1>2, <1>3, <2>1 DEF ClientIP
<1>5. CASE ~Trusted(cfg, PeerOf(c))
  BY <1>1, <1>2, <1>3, <1>5 DEF ClientIP
<1>6. QED
  BY <1>4, <1>5

-----------------------------------------------------------------------------
(* Buckets *)

\* The refill adds to the tokens no more than it takes from the age.
LEMMA RefillKeeps ==
  ASSUME NEW bucket \in Bucket, NEW stale \in 0..MaxStale
  PROVE  LET refilled == Refilled(bucket, stale)
         IN  /\ refilled \in Bucket
             /\ refilled.tokens + Rate * refilled.age <= Allowance
             /\ refilled.tokens + Rate * refilled.age <= WorthOf(bucket)
             /\ WorthOf(bucket) \in Nat
<1> DEFINE t == bucket.tokens
           a == bucket.age
           old == t + Rate * a
<1>1. /\ t \in 0..Burst /\ a \in 0..MaxAge /\ t \in Nat /\ a \in Nat /\ stale \in Nat
      /\ Rate * a \in Nat /\ Rate * stale \in Nat /\ Allowance \in Nat /\ Burst \in Nat
      /\ (a - stale) * Rate = Rate * a - Rate * stale
      /\ Burst + Rate * stale <= Allowance
  BY RefillIsLinear DEF Bucket
<1>2. stale \in 0..MaxAge
  BY RefillIsLinear
<1>3. WorthOf(bucket) = (IF Allowance <= old THEN Allowance ELSE old) /\ WorthOf(bucket) \in Nat
  BY <1>1, MinOfTwo DEF WorthOf
<1>4. CASE a > stale
  <2> DEFINE t2 == Min({Burst, t + (a - stale) * Rate})
  <2>1. Refilled(bucket, stale) = [tokens |-> t2, age |-> stale]
    BY <1>4 DEF Refilled
  <2>2. (a - stale) * Rate \in Nat
    <3>1. a - stale \in Nat
      BY <1>1, <1>4
    <3>2. QED
      BY <3>1, RefillIsLinear
  <2>3. t2 = IF Burst <= t + (a - stale) * Rate THEN Burst ELSE t + (a - stale) * Rate
    BY <1>1, <2>2, MinOfTwo
  <2>4. t2 \in 0..Burst /\ t2 + Rate * stale <= Allowance /\ t2 + Rate * stale <= old
    BY <1>1, <2>2, <2>3
  <2> HIDE DEF t2
  <2>5. QED
    BY <1>1, <1>2, <1>3, <2>1, <2>4 DEF Bucket
<1>5. CASE ~(a > stale)
  <2>1. Refilled(bucket, stale) = bucket
    BY <1>5 DEF Refilled
  <2>2. Rate * a <= Rate * stale
    BY <1>1, <1>5, RefillIsLinear
  <2>3. old <= Allowance
    BY <1>1, <2>2
  <2>4. QED
    BY <1>1, <1>3, <2>1, <2>3
<1>6. QED
  BY <1>4, <1>5

\* A tick makes a bucket worth at most what refills in it.
LEMMA TickKeeps ==
  ASSUME NEW bucket \in Bucket
  PROVE  LET older == [bucket EXCEPT !.age = Min({@ + 1, MaxAge})]
         IN  /\ older \in Bucket
             /\ WorthOf(older) <= WorthOf(bucket) + Rate
             /\ WorthOf(older) <= Allowance /\ WorthOf(older) \in Nat
<1> DEFINE t == bucket.tokens
           a == bucket.age
           a2 == Min({a + 1, MaxAge})
<1>1. /\ t \in Nat /\ a \in Nat /\ MaxAge \in Nat /\ a <= MaxAge
      /\ Rate \in Nat /\ Allowance \in Nat
  BY RefillIsLinear DEF Bucket
<1>2. a2 = (IF a + 1 <= MaxAge THEN a + 1 ELSE MaxAge) /\ a2 \in 0..MaxAge
  BY <1>1, MinOfTwo
<1>3. Rate * a2 \in Nat /\ Rate * a \in Nat /\ Rate * a2 <= Rate * a + Rate
  BY <1>1, <1>2, RefillIsLinear
<1>4. [bucket EXCEPT !.age = Min({@ + 1, MaxAge})] = [tokens |-> t, age |-> a2]
  BY DEF Bucket
<1> HIDE DEF a2
<1>5. [tokens |-> t, age |-> a2] \in Bucket
  BY <1>2 DEF Bucket
<1>6. /\ WorthOf(bucket) = IF Allowance <= t + Rate * a THEN Allowance ELSE t + Rate * a
      /\ WorthOf([tokens |-> t, age |-> a2])
           = IF Allowance <= t + Rate * a2 THEN Allowance ELSE t + Rate * a2
  BY <1>1, <1>3, MinOfTwo DEF WorthOf
<1>7. QED
  BY <1>1, <1>3, <1>4, <1>5, <1>6

-----------------------------------------------------------------------------
(* The steps *)

LEMMA LimiterStarts == LimiterInit => LimiterInv
<1> SUFFICES ASSUME LimiterInit PROVE LimiterInv
  OBVIOUS
<1>1. DOMAIN buckets = {} /\ buckets \in [DOMAIN buckets -> Bucket]
  BY DEF LimiterInit
<1>2. LimiterTypeOK
  <2>1. NoAddress \in Address /\ 0 \in 0..MaxStale /\ 0 \in 0..MaxDebt
    BY RefillIsLinear DEF Address
  <2>2. QED
    BY <1>1, <2>1 DEF LimiterInit, LimiterTypeOK, NoTake
<1>3. HandlersKnow /\ Conserved
  BY <1>1 DEF LimiterInit, HandlersKnow, Conserved
<1>4. QED
  BY <1>2, <1>3 DEF LimiterInv

LEMMA RequestStep ==
  ASSUME LimiterInv, NEW c \in Client, Asks(c)
  PROVE  LimiterInv'
<1> USE DEF LimiterInv
<1>1. PICK h \in Handler, filter \in Filter, from \in ClaimsOf(c) : Request(h, c, filter, from)
  BY DEF Asks
<1> DEFINE ip == ClientIP(cfg, [peer |-> PeerOf(c), forwardedFor |-> from,
                                path |-> "/", kind |-> "websocket"])
<1>2. /\ handler' = [handler EXCEPT ![h] = [client |-> c, ip |-> ip, stale |-> 0]]
      /\ UNCHANGED <<cfg, buckets, debt, swept, last>>
  BY <1>1 DEF Request
<1>3. ComesFrom(c, ip) /\ ip \in Address
  BY OneAddress DEF ComesFrom
<1> HIDE DEF ip
<1>4. LimiterTypeOK'
  <2>1. 0 \in 0..MaxStale
    BY RefillIsLinear
  <2>2. QED
    BY <1>2, <1>3, <2>1 DEF LimiterTypeOK
<1>5. \A d, o : ComesFrom(d, o)' <=> ComesFrom(d, o)
  BY <1>2 DEF ComesFrom
<1>6. HandlersKnow'
  BY <1>2, <1>3, <1>5 DEF HandlersKnow, LimiterTypeOK
<1>7. Conserved'
  BY <1>2, <1>5 DEF Conserved
<1>8. QED
  BY <1>4, <1>6, <1>7

LEMMA TickStep ==
  ASSUME LimiterInv, Tick
  PROVE  LimiterInv'
<1> USE DEF LimiterInv
<1>1. /\ buckets' = [ip \in DOMAIN buckets |->
            [buckets[ip] EXCEPT !.age = Min({@ + 1, MaxAge})]]
      /\ debt' = [c \in Client |-> Max({0, debt[c] - Rate})]
      /\ UNCHANGED <<cfg, swept, last>>
  BY DEF Tick
<1>2. /\ DOMAIN buckets' = DOMAIN buckets
      /\ \A ip \in DOMAIN buckets :
           /\ buckets[ip] \in Bucket /\ buckets'[ip] \in Bucket
           /\ WorthOf(buckets'[ip]) <= WorthOf(buckets[ip]) + Rate
           /\ WorthOf(buckets'[ip]) <= Allowance
           /\ WorthOf(buckets'[ip]) \in Nat /\ WorthOf(buckets[ip]) \in Nat
  <2>1. ASSUME NEW ip \in DOMAIN buckets
        PROVE  /\ buckets[ip] \in Bucket
               /\ buckets'[ip] = [buckets[ip] EXCEPT !.age = Min({@ + 1, MaxAge})]
    BY <1>1 DEF LimiterTypeOK
  <2>2. ASSUME NEW bucket \in Bucket
        PROVE  WorthOf(bucket) \in Nat
    <3>1. 0 \in 0..MaxStale
      BY RefillIsLinear
    <3>2. QED
      BY <3>1, RefillKeeps
  <2>3. QED
    BY <1>1, <2>1, <2>2, TickKeeps
<1>3. \A c \in Client :
        /\ debt[c] \in 0..MaxDebt /\ debt'[c] \in 0..MaxDebt
        /\ debt'[c] = IF debt[c] >= Rate THEN debt[c] - Rate ELSE 0
  <2> SUFFICES ASSUME NEW c \in Client
               PROVE  /\ debt[c] \in 0..MaxDebt /\ debt'[c] \in 0..MaxDebt
                      /\ debt'[c] = IF debt[c] >= Rate THEN debt[c] - Rate ELSE 0
    OBVIOUS
  <2>1. /\ debt[c] \in 0..MaxDebt /\ MaxDebt \in Nat /\ Rate \in Nat
        /\ debt'[c] = Max({0, debt[c] - Rate})
    <3>1. MaxDebt \in Nat /\ Rate \in Nat
      BY RefillIsLinear
    <3>2. QED
      BY <1>1, <3>1 DEF LimiterTypeOK
  <2>2. Max({0, debt[c] - Rate}) = IF 0 >= debt[c] - Rate THEN 0 ELSE debt[c] - Rate
    BY <2>1, MaxOfTwo
  <2>3. QED
    BY <2>1, <2>2
<1>4. /\ handler' \in [Handler ->
            [client : Client \cup {NoClient}, ip : Address, stale : 0..MaxStale]]
      /\ \A h \in Handler : /\ handler'[h].client = handler[h].client
                            /\ handler'[h].ip = handler[h].ip
                            /\ handler[h] = NoTake => handler'[h] = NoTake
  <2> SUFFICES ASSUME NEW h \in Handler
               PROVE  /\ handler'[h] \in
                          [client : Client \cup {NoClient}, ip : Address, stale : 0..MaxStale]
                      /\ handler'[h].client = handler[h].client
                      /\ handler'[h].ip = handler[h].ip
                      /\ handler[h] = NoTake => handler'[h] = NoTake
    BY DEF Tick
  <2>1. handler[h] \in [client : Client \cup {NoClient}, ip : Address, stale : 0..MaxStale]
    BY DEF LimiterTypeOK
  <2>2. CASE handler[h] = NoTake
    BY <2>1, <2>2 DEF Tick
  <2>3. CASE handler[h] # NoTake
    <3>1. handler[h].stale + 1 \in 0..MaxStale
      <4>1. handler[h].stale \in 0..MaxStale /\ handler[h].stale < MaxStale /\ MaxStale \in Nat
        BY <2>1, <2>3, RefillIsLinear DEF Tick
      <4>2. QED
        BY <4>1
    <3>2. handler'[h] = [handler[h] EXCEPT !.stale = @ + 1]
      BY <2>3 DEF Tick
    <3>3. QED
      BY <2>1, <2>3, <3>1, <3>2
  <2>4. QED
    BY <2>2, <2>3
<1>5. LimiterTypeOK'
  <2>1. buckets' \in [DOMAIN buckets' -> Bucket]
    BY <1>1, <1>2
  <2>2. debt' \in [Client -> 0..MaxDebt]
    BY <1>1, <1>3
  <2>3. QED
    BY <1>1, <1>4, <2>1, <2>2 DEF LimiterTypeOK
<1>6. \A d, o : ComesFrom(d, o)' <=> ComesFrom(d, o)
  BY <1>1 DEF ComesFrom
<1>7. HandlersKnow'
  BY <1>4, <1>6 DEF HandlersKnow
<1>8. Conserved'
  <2> SUFFICES ASSUME ~swept, NEW c \in Client
               PROVE  /\ \A ip \in DOMAIN buckets : ComesFrom(c, ip) =>
                           debt'[c] + WorthOf(buckets'[ip]) <= Allowance
                      /\ (\A ip \in DOMAIN buckets : ~ComesFrom(c, ip)) => debt'[c] = 0
    BY <1>1, <1>2, <1>6 DEF Conserved
  <2>1. ASSUME NEW ip \in DOMAIN buckets, ComesFrom(c, ip)
        PROVE  debt'[c] + WorthOf(buckets'[ip]) <= Allowance
    <3>1. debt[c] + WorthOf(buckets[ip]) <= Allowance
      BY <2>1 DEF Conserved
    <3>2. /\ debt[c] \in Nat /\ Rate \in Nat /\ Allowance \in Nat
          /\ WorthOf(buckets'[ip]) \in Nat /\ WorthOf(buckets[ip]) \in Nat
      BY <1>2, <1>3, <2>1, RefillIsLinear
    <3>3. QED
      BY <1>2, <1>3, <2>1, <3>1, <3>2
  <2>2. ASSUME \A ip \in DOMAIN buckets : ~ComesFrom(c, ip)
        PROVE  debt'[c] = 0
    <3>1. debt[c] = 0 /\ Rate > 0 /\ Rate \in Nat
      BY <2>2, RefillIsLinear DEF Conserved
    <3>2. QED
      BY <1>3, <3>1
  <2>3. QED
    BY <2>1, <2>2
<1>9. QED
  BY <1>5, <1>7, <1>8

LEMMA TakeStep ==
  ASSUME LimiterInv, NEW h \in Handler, Take(h)
  PROVE  LimiterInv'
<1> USE DEF LimiterInv
<1> DEFINE ip == handler[h].ip
           stale == handler[h].stale
           c == handler[h].client
           table == IF Crowded(ip) THEN Swept(stale) ELSE buckets
           bucket == IF ip \in DOMAIN table
                       THEN Refilled(table[ip], stale)
                       ELSE [tokens |-> Burst, age |-> stale]
           room == HasRoom(ip, table)
           granted == room /\ bucket.tokens >= 1
           left == [bucket EXCEPT !.tokens = IF granted THEN @ - 1 ELSE @]
           worth == bucket.tokens + Rate * bucket.age
           spends == IF granted THEN 1 ELSE 0
<1>1. /\ handler[h] # NoTake
      /\ handler' = [handler EXCEPT ![h] = NoTake]
      /\ buckets' = IF room THEN [o \in DOMAIN table \cup {ip} |-> IF o # ip THEN table[o] ELSE left]
                            ELSE table
      /\ debt' = [debt EXCEPT ![c] = IF granted THEN Min({@ + 1, MaxDebt}) ELSE @]
      /\ swept' = (swept \/ Crowded(ip))
      /\ UNCHANGED cfg
  BY DEF Take
<1>2. stale \in 0..MaxStale /\ stale \in 0..MaxAge /\ c \in Client /\ ip \in Address
      /\ ComesFrom(c, ip)
  <2>1. handler[h] \in [client : Client \cup {NoClient}, ip : Address, stale : 0..MaxStale]
    BY DEF LimiterTypeOK
  <2>2. c \in Client /\ ComesFrom(c, ip)
    BY <1>1 DEF HandlersKnow
  <2>3. ip \in Address /\ stale \in 0..MaxStale
    BY <2>1
  <2>4. stale \in 0..MaxAge
    BY <2>3, RefillIsLinear
  <2>5. QED
    BY <2>2, <2>3, <2>4
<1>3. /\ DOMAIN table \subseteq DOMAIN buckets
      /\ \A o \in DOMAIN table : table[o] = buckets[o] /\ table[o] \in Bucket
  BY DEF Swept, LimiterTypeOK
<1>4. table \in [DOMAIN table -> Bucket]
  BY DEF Swept, LimiterTypeOK
<1> HIDE DEF table
<1>5. /\ bucket \in Bucket
      /\ bucket.tokens + Rate * bucket.age <= Allowance
      /\ ip \in DOMAIN table =>
           /\ bucket.tokens + Rate * bucket.age <= WorthOf(table[ip])
           /\ WorthOf(table[ip]) \in Nat
  <2>1. CASE ip \in DOMAIN table
    BY <1>2, <1>3, <2>1, RefillKeeps
  <2>2. CASE ip \notin DOMAIN table
    BY <1>2, <2>2, RefillIsLinear DEF Bucket
  <2>3. QED
    BY <2>1, <2>2
<1> HIDE DEF bucket
<1>6. /\ left \in Bucket /\ WorthOf(left) = worth - spends
      /\ worth \in Nat /\ worth <= Allowance /\ spends \in {0, 1}
      /\ spends = 1 => room
  <2>1. /\ bucket.tokens \in 0..Burst /\ bucket.age \in 0..MaxAge /\ Burst \in Nat
        /\ Rate * bucket.age \in Nat /\ Allowance \in Nat
    BY <1>5, RefillIsLinear DEF Bucket
  <2>2. left = [tokens |-> IF granted THEN bucket.tokens - 1 ELSE bucket.tokens,
                age |-> bucket.age]
    BY <1>5 DEF Bucket
  <2>3. left \in Bucket
    BY <2>1, <2>2 DEF Bucket
  <2>4. left.tokens + Rate * left.age = worth - spends /\ worth \in Nat /\ worth <= Allowance
    BY <1>5, <2>1, <2>2
  <2>5. WorthOf(left) = left.tokens + Rate * left.age
    <3>1. left.tokens + Rate * left.age \in Int /\ left.tokens + Rate * left.age <= Allowance
      BY <1>5, <2>1, <2>4
    <3>2. \A w \in Int : w <= Allowance => Min({Allowance, w}) = w
      BY <2>1, MinOfTwo
    <3>3. QED
      BY <3>1, <3>2 DEF WorthOf
  <2>6. QED
    BY <2>3, <2>4, <2>5
<1>7. /\ debt' = [debt EXCEPT ![c] = IF spends = 1 THEN Min({@ + 1, MaxDebt}) ELSE @]
      /\ ip \in DOMAIN table => worth <= WorthOf(table[ip]) /\ WorthOf(table[ip]) \in Nat
  <2>1. debt' = [debt EXCEPT ![c] = IF spends = 1 THEN Min({@ + 1, MaxDebt}) ELSE @]
    <3>1. CASE granted
      <4>1. spends = 1
        BY <3>1
      <4>2. debt' = [debt EXCEPT ![c] = Min({@ + 1, MaxDebt})]
        BY <1>1, <3>1
      <4> HIDE DEF spends
      <4>3. QED
        BY <4>1, <4>2
    <3>2. CASE ~granted
      <4>1. spends = 0
        BY <3>2
      <4>2. debt' = [debt EXCEPT ![c] = @]
        BY <1>1, <3>2
      <4> HIDE DEF spends
      <4>3. QED
        BY <4>1, <4>2
    <3>3. QED
      BY <3>1, <3>2
  <2>2. QED
    BY <1>5, <2>1
<1> HIDE DEF worth, spends, granted
<1> HIDE DEF left
<1>8. buckets' \in [DOMAIN buckets' -> Bucket]
  BY <1>1, <1>4, <1>6
<1>9. /\ \A d \in Client : debt[d] \in 0..MaxDebt
      /\ \A d \in Client \ {c} : debt'[d] = debt[d]
      /\ debt'[c] \in 0..MaxDebt
      /\ debt'[c] <= debt[c] + spends
      /\ DOMAIN debt' = Client
  <2>1. debt[c] \in 0..MaxDebt /\ MaxDebt \in Nat
    <3>1. debt \in [Client -> 0..MaxDebt]
      BY DEF LimiterTypeOK
    <3>2. QED
      BY <1>2, <3>1, RefillIsLinear
  <2>2. Min({debt[c] + 1, MaxDebt}) = IF debt[c] + 1 <= MaxDebt THEN debt[c] + 1 ELSE MaxDebt
    BY <2>1, MinOfTwo
  <2>3. debt'[c] = IF spends = 1 THEN Min({debt[c] + 1, MaxDebt}) ELSE debt[c]
    BY <1>2, <1>7 DEF LimiterTypeOK
  <2>4. QED
    BY <1>2, <1>6, <1>7, <2>1, <2>2, <2>3 DEF LimiterTypeOK
<1>10. LimiterTypeOK'
  <2>1. NoTake \in [client : Client \cup {NoClient}, ip : Address, stale : 0..MaxStale]
    BY RefillIsLinear DEF NoTake, Address
  <2>2. debt' \in [Client -> 0..MaxDebt]
    BY <1>1, <1>9 DEF LimiterTypeOK
  <2>3. swept' \in BOOLEAN
    BY <1>1
  <2>4. handler' \in [Handler -> [client : Client \cup {NoClient}, ip : Address, stale : 0..MaxStale]]
    BY <1>1, <2>1 DEF LimiterTypeOK
  <2>5. QED
    BY <1>1, <1>8, <2>2, <2>3, <2>4 DEF LimiterTypeOK
<1>11. \A d, o : ComesFrom(d, o)' <=> ComesFrom(d, o)
  BY <1>1 DEF ComesFrom
<1>12. HandlersKnow'
  BY <1>1, <1>11 DEF HandlersKnow, LimiterTypeOK
<1>13. Conserved'
  <2> SUFFICES ASSUME ~swept', NEW d \in Client
               PROVE  /\ \A o \in DOMAIN buckets' : ComesFrom(d, o) =>
                           debt'[d] + WorthOf(buckets'[o]) <= Allowance
                      /\ (\A o \in DOMAIN buckets' : ~ComesFrom(d, o)) => debt'[d] = 0
    BY <1>11 DEF Conserved
  <2>1. ~swept /\ ~Crowded(ip) /\ table = buckets
    BY <1>1 DEF table, LimiterTypeOK
  <2>2. ASSUME NEW o \in DOMAIN buckets', ComesFrom(d, o)
        PROVE  debt'[d] + WorthOf(buckets'[o]) <= Allowance
    <3>1. CASE o # ip
      <4>1. o \in DOMAIN buckets /\ buckets'[o] = buckets[o] /\ d # c
        BY <1>1, <1>2, <2>1, <2>2, <3>1, OneAddress
      <4>2. QED
        BY <1>9, <2>1, <2>2, <4>1 DEF Conserved
    <3>2. CASE o = ip /\ ~room
      <4>1. ip \notin DOMAIN table /\ buckets' = table
        BY <1>1, <3>2 DEF HasRoom
      <4>2. QED
        BY <2>2, <3>2, <4>1
    <3>3. CASE o = ip /\ room
      <4>0. Allowance \in Nat
        BY RefillIsLinear
      <4>1. buckets'[o] = left
        BY <1>1, <3>3
      <4>2. debt'[d] <= debt[d] + spends /\ debt[d] \in Nat /\ debt'[d] \in Nat
        BY <1>2, <1>6, <1>9
      <4>3. debt[d] + worth <= Allowance
        <5>1. CASE ip \in DOMAIN buckets
          <6>1. debt[d] + WorthOf(buckets[ip]) <= Allowance
            BY <2>1, <2>2, <3>3, <5>1 DEF Conserved
          <6>2. worth <= WorthOf(buckets[ip]) /\ WorthOf(buckets[ip]) \in Nat
            BY <1>7, <2>1, <5>1
          <6>3. QED
            BY <1>6, <4>0, <4>2, <6>1, <6>2
        <5>2. CASE ip \notin DOMAIN buckets
          <6>1. \A p \in DOMAIN buckets : ~ComesFrom(d, p)
            BY <2>2, <3>3, <5>2, OneAddress
          <6>2. debt[d] = 0
            BY <2>1, <6>1 DEF Conserved
          <6>3. QED
            BY <1>6, <6>2
        <5>3. QED
          BY <5>1, <5>2
      <4>4. WorthOf(left) = worth - spends /\ worth \in Nat /\ spends \in Nat
        BY <1>6
      <4>5. QED
        BY <4>0, <4>1, <4>2, <4>3, <4>4
    <3>4. QED
      BY <3>1, <3>2, <3>3
  <2>3. ASSUME \A o \in DOMAIN buckets' : ~ComesFrom(d, o)
        PROVE  debt'[d] = 0
    <3>1. \A o \in DOMAIN buckets : ~ComesFrom(d, o)
      BY <1>1, <2>1, <2>3
    <3>2. debt[d] = 0
      BY <2>1, <3>1 DEF Conserved
    <3>3. d = c => spends = 0
      BY <1>1, <1>2, <1>6, <2>3
    <3>4. QED
      BY <1>6, <1>9, <3>2, <3>3
  <2>4. QED
    BY <2>2, <2>3
<1>14. QED
  BY <1>10, <1>12, <1>13

LEMMA LimiterSteps == LimiterInv /\ [LimiterNext]_limiterVars => LimiterInv'
<1> SUFFICES ASSUME LimiterInv, [LimiterNext]_limiterVars PROVE LimiterInv'
  OBVIOUS
<1>1. CASE UNCHANGED limiterVars
  BY <1>1 DEF limiterVars, LimiterInv, LimiterTypeOK, HandlersKnow, Conserved, ComesFrom
<1>2. QED
  BY <1>1, RequestStep, TakeStep, TickStep DEF LimiterNext

-----------------------------------------------------------------------------
(* The theorems *)

\* What a client is ahead by and what its bucket is worth never exceed the allowance
\* together: the inductive invariant of take, the refill and the clock.
THEOREM LimiterInvariant == LimiterSpec => []LimiterInv
BY LimiterStarts, LimiterSteps, PTL DEF LimiterSpec

\* Until the table is first swept no client gets more than the burst and the refill,
\* whatever it claims, for any burst, rate, ceiling, number of requests at once and
\* delay between a clock reading and the lock.
THEOREM SearchBudgetHolds == LimiterSpec => []BudgetHolds
<1>1. LimiterInv => BudgetHolds
  <2> SUFFICES ASSUME LimiterInv, ~swept, NEW c \in Client
               PROVE  debt[c] < MaxDebt
    BY DEF BudgetHolds
  <2>1. debt[c] \in Nat /\ Allowance \in Nat /\ MaxDebt = Allowance + 1
    BY RefillIsLinear DEF LimiterInv, LimiterTypeOK
  <2>2. CASE \E ip \in DOMAIN buckets : ComesFrom(c, ip)
    <3>1. PICK ip \in DOMAIN buckets : ComesFrom(c, ip)
      BY <2>2
    <3>2. debt[c] + WorthOf(buckets[ip]) <= Allowance
      BY <3>1 DEF LimiterInv, Conserved
    <3>3. WorthOf(buckets[ip]) \in Nat
      <4>1. buckets[ip] \in Bucket /\ 0 \in 0..MaxStale
        BY RefillIsLinear DEF LimiterInv, LimiterTypeOK
      <4>2. QED
        BY <4>1, RefillKeeps
    <3>4. QED
      BY <2>1, <3>2, <3>3
  <2>3. CASE \A ip \in DOMAIN buckets : ~ComesFrom(c, ip)
    BY <2>1, <2>3 DEF LimiterInv, Conserved
  <2>4. QED
    BY <2>2, <2>3
<1>2. QED
  BY <1>1, LimiterInvariant, PTL
=============================================================================
