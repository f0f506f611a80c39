--------------------------- MODULE PublisherProofs ---------------------------
(***************************************************************************)
(* The publisher's ledger tells the truth about the relay, for every       *)
(* sequence of batches, every number of lanes and every retry limit: what  *)
(* the rows of publish_log mean, what a run that returns has done, and     *)
(* that a settled event is left alone.                                     *)
(***************************************************************************)
EXTENDS Publisher, FiniteSetTheorems, WellFoundedInduction, TLAPS

Holds(l) == lane[l].at \in {"sent", "backoff", "abandoned"}

Holder(e) == {l \in Lane : Holds(l) /\ lane[l].event = e}

Busy == {l \in Lane : Holds(l)}

Taken == {queue[i] : i \in 1..sharedIndex}

InRetryQueue(e) == \E i \in DOMAIN retryQueue : retryQueue[i] = e

\* The locals of publishBatch are those of a run, or none.
LocalsUnset ==
  /\ queue = NoRun.queue /\ sharedIndex = NoRun.sharedIndex
  /\ skipIds = NoRun.skipIds /\ okThisRun = NoRun.okThisRun
  /\ summary = NoRun.summary /\ lane = NoRun.lane

NoRunOutside == mode # "publishing" => LocalsUnset

\* A lane that holds an event has one, of those the shared index has passed.
HoldsTaken ==
  \A l \in Lane :
    /\ Holds(l) => lane[l].event \in Event /\ lane[l].event \in Taken
    /\ lane[l].at = "abandoned" => InRetryQueue(lane[l].event)
    /\ lane[l].at = "backoff" => lane[l].attempts <= MaxRetries
    /\ lane[l].at = "done" => sharedIndex = Len(queue)

\* What a run skips has a row, and what it got an OK for is behind the index.
SkipsKnown ==
  /\ okThisRun \subseteq Taken
  /\ \A e \in skipIds \cup okThisRun : publishLog[e] # "none"
  /\ summary.rejected = 0 =>
       \A e \in skipIds \cup okThisRun : publishLog[e] \in {"ok", "stale", "operator"}
  /\ \A e \in Event : mode = "publishing" /\ publishLog[e] \in {"ok", "operator"} =>
       e \in skipIds \cup okThisRun

\* Every event behind the index has its answer or a lane that will see to it.
TakenAnswered ==
  \A e \in Taken : Holder(e) = {} =>
    /\ publishLog[e] # "none"
    /\ summary.rejected = 0 => publishLog[e] \in {"ok", "stale", "operator"}

\* Each index is counted once: in the summary or, until then, by the lane.
SummaryCounts ==
  summary.skipped + summary.accepted + summary.rejected + Cardinality(Busy) = sharedIndex

\* One lane to an event, and none to a settled one, if the input has no duplicates.
OneHolder ==
  IsInjective(queue) =>
    /\ \A l, m \in Busy : lane[l].event = lane[m].event => l = m
    /\ \A l \in Busy : lane[l].event \notin skipIds \cup okThisRun

\* The build that has begun has a batch to bring.
BuildHasBatch == mode = "engine" => built < Len(Batch)

PublisherInv ==
  /\ TypeOK /\ BuildHasBatch /\ NoRunOutside /\ HoldsTaken /\ SkipsKnown /\ TakenAnswered
  /\ SummaryCounts /\ OneHolder
  /\ OkMeansStored /\ AbandonedIsQueued
-----------------------------------------------------------------------------
(* Helpers *)

\* A set of naturals has the least element that Min names.
LEMMA MinIsLeast ==
  ASSUME NEW S \in SUBSET Nat, S # {}
  PROVE  Min(S) \in S /\ \A n \in S : Min(S) <= n
<1> DEFINE Below == {1..n : n \in S}
<1>1. Below \subseteq FiniteSubsetsOf(Nat) /\ Below # {}
  <2>1. ASSUME NEW n \in S PROVE 1..n \in FiniteSubsetsOf(Nat)
    <3>1. n \in Int /\ 1 \in Int
      OBVIOUS
    <3>2. IsFiniteSet(1..n)
      BY <3>1, FS_Interval
    <3>3. QED
      BY <3>2 DEF FiniteSubsetsOf
  <2>2. QED
    BY <2>1
<1>2. PICK m \in S : \A n \in S : <<1..n, 1..m>> \notin StrictSubsetOrdering(Nat)
  <2>1. \E x \in Below : \A y \in Below : <<y, x>> \notin StrictSubsetOrdering(Nat)
    <3> HIDE DEF Below
    <3>1. QED
      BY <1>1, WFMin, FS_StrictSubsetOrderingWellFounded
  <2>2. QED
    BY <2>1
<1>3. ASSUME NEW n \in S PROVE m <= n
  <2>1. SUFFICES ASSUME n < m PROVE FALSE
    OBVIOUS
  <2>2. 1..n \subseteq 1..m /\ m \in 1..m /\ m \notin 1..n /\ 1..m \subseteq Nat
    BY <2>1
  <2>3. <<1..n, 1..m>> \in (SUBSET Nat) \X (SUBSET Nat) /\ 1..n # 1..m
    BY <2>2
  <2>4. QED
    BY <1>2, <2>2, <2>3, Zenon DEF StrictSubsetOrdering
<1>4. QED
  BY <1>3 DEF Min

\* The lanes that hold an event are finitely many.
LEMMA BusyIsFinite == IsFiniteSet(Busy) /\ Cardinality(Busy) \in Nat
<1>1. Busy \subseteq Lane
  BY DEF Busy
<1>2. QED
  BY <1>1, PublisherAssumption, FS_Subset, FS_CardinalityType

\* The empty run answers for everything: outside a run there is nothing to show.
LEMMA NothingTaken ==
  LocalsUnset /\ mode # "publishing" =>
    /\ NoRunOutside /\ HoldsTaken /\ SkipsKnown /\ TakenAnswered
    /\ SummaryCounts /\ OneHolder
<1> SUFFICES ASSUME LocalsUnset, mode # "publishing"
             PROVE  /\ NoRunOutside /\ HoldsTaken /\ SkipsKnown /\ TakenAnswered
                    /\ SummaryCounts /\ OneHolder
  OBVIOUS
<1> USE DEF LocalsUnset, NoRun, IdleLane
<1>1. \A l \in Lane : ~Holds(l) /\ lane[l].at # "done" /\ lane[l].at # "abandoned"
  BY DEF Holds
<1>2. Busy = {} /\ Taken = {}
  BY <1>1 DEF Busy, Taken
<1>3. NoRunOutside
  BY DEF NoRunOutside
<1>4. HoldsTaken
  BY <1>1 DEF HoldsTaken
<1>5. SkipsKnown
  BY DEF SkipsKnown
<1>6. TakenAnswered
  BY <1>2 DEF TakenAnswered
<1>7. SummaryCounts
  BY <1>2, FS_EmptySet DEF SummaryCounts
<1>8. OneHolder
  BY <1>2 DEF OneHolder
<1>9. QED
  BY <1>3, <1>4, <1>5, <1>6, <1>7, <1>8

-----------------------------------------------------------------------------
(* The steps *)

\* With the locals unset the invariant is about the ledger and the relay alone.
LEMMA UnsetInv ==
  LocalsUnset /\ mode # "publishing" /\ TypeOK /\ BuildHasBatch /\ OkMeansStored
  /\ AbandonedIsQueued => PublisherInv
BY NothingTaken DEF PublisherInv

LEMMA InitHolds == Init => PublisherInv
<1> SUFFICES ASSUME Init PROVE PublisherInv
  OBVIOUS
<1>1. LocalsUnset /\ mode # "publishing"
  BY DEF Init, LocalsUnset
<1>2. TypeOK
  BY PublisherAssumption DEF Init, NoRun, IdleLane, TypeOK, Row
<1>3. OkMeansStored /\ AbandonedIsQueued /\ BuildHasBatch
  BY DEF Init, OkMeansStored, AbandonedIsQueued, BuildHasBatch
<1>4. QED
  BY <1>1, <1>2, <1>3, UnsetInv

\* A step that leaves the locals unset.
LEMMA UnsetStep ==
  LocalsUnset' /\ (mode # "publishing")' /\ TypeOK' /\ BuildHasBatch' /\ OkMeansStored'
  /\ AbandonedIsQueued' => PublisherInv'
BY UnsetInv, PTL

LEMMA BuilderStep ==
  ASSUME PublisherInv,
         \/ \E gate \in {"closed", "forced", "absent"} : Build(gate)
         \/ ApplyToLedger \/ WriteArtifacts
  PROVE  PublisherInv'
<1> USE DEF PublisherInv, ledgerVars, runVars, relayVars
<1>1. UNCHANGED runVars /\ mode # "publishing" /\ mode' # "publishing"
  BY DEF Build, ApplyToLedger, WriteArtifacts
<1>2. LocalsUnset /\ LocalsUnset'
  BY <1>1 DEF NoRunOutside, LocalsUnset
<1>3. publishLog' \in [Event -> Row]
      /\ \A e \in Event : publishLog'[e] \in {publishLog[e], "operator"}
  BY DEF Build, ApplyToLedger, WriteArtifacts, TypeOK, Row
<1>4. TypeOK' /\ BuildHasBatch'
  <2>1. UNCHANGED <<retryQueue, relayVars, spent>>
    BY DEF Build, ApplyToLedger, WriteArtifacts
  <2>2. /\ mode' \in {"idle", "engine", "writing", "publishing"}
        /\ built' \in 0..Len(Batch) /\ file' \in 0..built' /\ BuildHasBatch'
    <3>1. Len(Batch) \in Nat
      BY PublisherAssumption
    <3>2. QED
      BY <3>1 DEF Build, ApplyToLedger, WriteArtifacts, TypeOK, BuildHasBatch
  <2>3. QED
    BY <1>1, <1>3, <2>1, <2>2 DEF TypeOK
<1>5. OkMeansStored' /\ AbandonedIsQueued'
  BY <1>3 DEF Build, ApplyToLedger, WriteArtifacts, OkMeansStored, AbandonedIsQueued
<1>6. QED
  BY <1>1, <1>2, <1>4, <1>5, UnsetStep

LEMMA EndStep ==
  ASSUME PublisherInv, Return \/ Crash
  PROVE  PublisherInv'
<1> USE DEF PublisherInv, ledgerVars, runVars, relayVars, Spend
<1>1. LocalsUnset' /\ mode' = "idle"
  BY DEF Return, Crash, LocalsLost, LocalsUnset, NoRun, IdleLane
<1>2. UNCHANGED <<ledgerVars, publishLog, retryQueue, stored>>
  BY DEF Return, Crash
<1>3. late' \subseteq Event
  <2>1. OnTheWire \subseteq Event
    BY DEF TypeOK, HoldsTaken, Holds, OnTheWire
  <2>2. QED
    BY <2>1 DEF Return, Crash, TypeOK
<1>4. spent' \in 0..Budget
  BY PublisherAssumption DEF Return, Crash, TypeOK
<1>5. TypeOK'
  <2>1. /\ queue' \in Seq(Event) /\ sharedIndex' \in 0..Len(queue')
        /\ skipIds' \subseteq Event /\ okThisRun' \subseteq Event
        /\ summary' \in [{"skipped", "accepted", "rejected"} -> Nat]
        /\ lane' \in [Lane -> [at : {"idle", "sent", "backoff", "abandoned", "done"},
                        event : Event \cup {NoEvent}, attempts : 0..MaxRetries + 1]]
    BY <1>1, PublisherAssumption DEF LocalsUnset, NoRun, IdleLane
  <2>2. QED
    BY <1>1, <1>2, <1>3, <1>4, <2>1 DEF TypeOK
<1>6. OkMeansStored' /\ AbandonedIsQueued' /\ BuildHasBatch'
  BY <1>1, <1>2 DEF OkMeansStored, AbandonedIsQueued, BuildHasBatch
<1>7. QED
  BY <1>1, <1>5, <1>6, UnsetStep

LEMMA RelayStep ==
  ASSUME PublisherInv, NEW e \in Event, RelayStores(e)
  PROVE  PublisherInv'
<1> USE DEF PublisherInv, ledgerVars, runVars, relayVars, RelayStores
<1>1. stored \subseteq stored' /\ stored' \subseteq Event /\ late' \subseteq Event
  BY DEF TypeOK
<1>2. TypeOK' /\ OkMeansStored'
  BY <1>1 DEF TypeOK, OkMeansStored
<1>3. QED
  BY <1>2 DEF BuildHasBatch, NoRunOutside, LocalsUnset, HoldsTaken, Holds, Taken, InRetryQueue,
              SkipsKnown, TakenAnswered, Holder, SummaryCounts, Busy, OneHolder,
              AbandonedIsQueued

LEMMA PublishBatchStep ==
  ASSUME PublisherInv, NEW events \in Seq(Event), NEW skip \in BOOLEAN,
         PublishBatch(events, skip)
  PROVE  PublisherInv'
<1> USE DEF PublisherInv, PublishBatch, ledgerVars, relayVars
<1>1. LocalsUnset
  BY DEF NoRunOutside
<1>2. skipIds' \subseteq {e \in Event : publishLog[e] \in {"ok", "stale", "operator"}}
  BY DEF SkipIds
<1>3. \A e \in Event : publishLog[e] \in {"ok", "operator"} => e \in skipIds'
  BY DEF SkipIds
<1>4. TypeOK'
  BY <1>1, <1>2 DEF TypeOK, LocalsUnset, NoRun
<1>5. \A l \in Lane : ~Holds(l)' /\ lane'[l].at = "idle"
  BY <1>1 DEF LocalsUnset, NoRun, IdleLane, Holds
<1>6. Busy' = {} /\ Taken' = {} /\ okThisRun' = {}
  BY <1>1, <1>5 DEF Busy, Taken, LocalsUnset, NoRun
<1>7. NoRunOutside' /\ HoldsTaken'
  BY <1>5 DEF NoRunOutside, HoldsTaken
<1>8. SkipsKnown'
  BY <1>2, <1>3, <1>6 DEF SkipsKnown
<1>9. TakenAnswered' /\ OneHolder'
  BY <1>6 DEF TakenAnswered, OneHolder
<1>10. SummaryCounts'
  BY <1>1, <1>6, FS_EmptySet DEF SummaryCounts, LocalsUnset, NoRun
<1>11. OkMeansStored' /\ AbandonedIsQueued' /\ BuildHasBatch'
  BY DEF OkMeansStored, AbandonedIsQueued, BuildHasBatch
<1>12. QED
  BY <1>4, <1>7, <1>8, <1>9, <1>10, <1>11

\* A lane that keeps its event changes nothing but its own record and, when the
\* watchdog fires, the retry queue and what may come late.
LEMMA KeepStep ==
  ASSUME PublisherInv, NEW l \in Lane,
         \/ Resend(l) \/ Watchdog(l)
         \/ \E verdict \in Verdict : BackOff(l, verdict)
  PROVE  PublisherInv'
<1> USE DEF PublisherInv, ledgerVars, relayVars
<1>1. /\ UNCHANGED <<built, file, publishLog, mode, queue, sharedIndex, skipIds, okThisRun,
                     summary, stored>>
      /\ lane[l].at \in {"sent", "backoff"}
  BY DEF BackOff, Resend, Watchdog
<1> DEFINE kept ==
      /\ lane' \in [Lane -> [at : {"idle", "sent", "backoff", "abandoned", "done"},
                        event : Event \cup {NoEvent}, attempts : 0..MaxRetries + 1]]
      /\ lane'[l].at \in {"sent", "backoff", "abandoned"} /\ lane'[l].event = lane[l].event
      /\ lane'[l].at = "backoff" => lane'[l].attempts <= MaxRetries
      /\ \A m \in Lane \ {l} : lane'[m] = lane[m]
<1>2. kept
  <2>1. CASE Resend(l)
    <3>1. lane[l].attempts \in 0..MaxRetries
      BY <2>1, PublisherAssumption DEF Resend, HoldsTaken, TypeOK
    <3>2. lane[l].attempts + 1 \in 0..MaxRetries + 1
      BY <3>1, PublisherAssumption
    <3>3. QED
      BY <2>1, <3>2 DEF Resend, TypeOK
  <2>2. CASE Watchdog(l)
    BY <2>2 DEF Watchdog, TypeOK
  <2>3. ASSUME NEW verdict \in Verdict, BackOff(l, verdict)
        PROVE  kept
    BY <2>3 DEF BackOff, Retryable, TypeOK
  <2>4. QED
    BY <2>1, <2>2, <2>3
<1>3. /\ retryQueue' \in Seq(Event)
      /\ \A e \in Event : InRetryQueue(e) => InRetryQueue(e)'
      /\ lane'[l].at = "abandoned" => InRetryQueue(lane[l].event)'
  <2>1. CASE Watchdog(l)
    <3>1. lane[l].event \in Event
      BY <2>1 DEF Watchdog, HoldsTaken, Holds
    <3>2. retryQueue \in Seq(Event) /\ retryQueue' = Append(retryQueue, lane[l].event)
      BY <2>1 DEF Watchdog, TypeOK
    <3>3. /\ retryQueue' \in Seq(Event)
          /\ Len(retryQueue') = Len(retryQueue) + 1
          /\ \A i \in 1..Len(retryQueue) : retryQueue'[i] = retryQueue[i]
          /\ retryQueue'[Len(retryQueue')] = lane[l].event
      BY <3>1, <3>2
    <3>4. QED
      <4>1. \A e \in Event : InRetryQueue(e) => InRetryQueue(e)'
        BY <3>2, <3>3 DEF InRetryQueue
      <4>2. Len(retryQueue') \in DOMAIN retryQueue'
        BY <3>2, <3>3
      <4>3. InRetryQueue(lane[l].event)'
        BY <1>2, <3>3, <4>2 DEF InRetryQueue
      <4>4. QED
        BY <3>3, <4>1, <4>3
  <2>2. CASE ~Watchdog(l)
    <3>1. UNCHANGED retryQueue /\ lane'[l].at # "abandoned"
      BY <1>2, <2>2 DEF BackOff, Resend, TypeOK
    <3>2. QED
      BY <3>1 DEF InRetryQueue, TypeOK
  <2>3. QED
    BY <2>1, <2>2
<1>4. late' \subseteq Event /\ spent' \in 0..Budget
  <2>1. CASE Watchdog(l)
    <3>1. lane[l].event \in Event
      BY <2>1 DEF Watchdog, HoldsTaken, Holds
    <3>2. late' = late \cup ({lane[l].event} \ stored) /\ spent < Budget /\ spent' = spent + 1
      BY <2>1 DEF Watchdog, Spend
    <3>3. late \subseteq Event /\ spent \in 0..Budget /\ Budget \in Nat
      BY PublisherAssumption DEF TypeOK
    <3>4. QED
      BY <3>1, <3>2, <3>3
  <2>2. CASE ~Watchdog(l)
    <3>1. late' = late /\ spent' = spent
      BY <2>2 DEF BackOff, Resend
    <3>2. QED
      BY <3>1 DEF TypeOK
  <2>3. QED
    BY <2>1, <2>2
<1>5. \A m \in Lane : /\ Holds(m)' <=> Holds(m)
                      /\ lane'[m].event = lane[m].event
                      /\ lane'[m].at \in {"abandoned", "done"} /\ m # l => lane'[m] = lane[m]
  BY <1>1, <1>2 DEF Holds
<1>6. Busy' = Busy /\ Taken' = Taken /\ \A e : Holder(e)' = Holder(e)
  BY <1>1, <1>5 DEF Busy, Taken, Holder
<1>7. TypeOK'
  BY <1>1, <1>2, <1>3, <1>4 DEF TypeOK
<1>8. NoRunOutside' /\ BuildHasBatch'
  BY <1>1 DEF NoRunOutside, LocalsUnset, NoRun, IdleLane, BuildHasBatch
<1>9. HoldsTaken'
  <2>1. SUFFICES ASSUME NEW m \in Lane
                 PROVE  /\ Holds(m)' => lane'[m].event \in Event /\ lane'[m].event \in Taken'
                        /\ lane'[m].at = "abandoned" => InRetryQueue(lane[m].event)'
                        /\ lane'[m].at = "backoff" => lane'[m].attempts <= MaxRetries
                        /\ lane'[m].at = "done" => sharedIndex' = Len(queue')
    BY Zenon DEF HoldsTaken
  <2>2. CASE m = l
    BY <1>1, <1>2, <1>3, <1>5, <1>6, <2>2 DEF HoldsTaken
  <2>3. CASE m # l
    <3>1. lane'[m] = lane[m] /\ (Holds(m)' <=> Holds(m)) /\ m \in Lane
      BY <1>2, <1>5, <2>3
    <3>2. lane[m].at = "abandoned" => Holds(m)
      BY DEF Holds
    <3>3. QED
      BY <1>1, <1>3, <1>6, <3>1, <3>2 DEF HoldsTaken
  <2>4. QED
    BY <2>2, <2>3
<1>10. SkipsKnown' /\ TakenAnswered' /\ SummaryCounts'
  BY <1>1, <1>6 DEF SkipsKnown, TakenAnswered, SummaryCounts
<1>11. OneHolder'
  BY <1>1, <1>5, <1>6 DEF OneHolder, Busy
<1>12. OkMeansStored' /\ AbandonedIsQueued'
  BY <1>1, <1>3 DEF OkMeansStored, AbandonedIsQueued, InRetryQueue
<1>13. QED
  BY <1>7, <1>8, <1>9, <1>10, <1>11, <1>12

\* The index moves over events to skip, up to an event to send if there is one.
LEMMA TakeMoves ==
  ASSUME PublisherInv, NEW l \in Lane, Take(l)
  PROVE  \E index \in 1..Len(queue) + 1 :
           /\ sharedIndex < index
           /\ summary' = [summary EXCEPT !.skipped = @ + index - 1 - sharedIndex]
           /\ \A i \in sharedIndex + 1 .. index - 1 : queue[i] \in skipIds \cup okThisRun
           /\ \/ /\ index = Len(queue) + 1 /\ sharedIndex' = Len(queue)
                 /\ lane' = [lane EXCEPT ![l] =
                      [at |-> "done", event |-> NoEvent, attempts |-> 0]]
              \/ /\ index <= Len(queue) /\ sharedIndex' = index
                 /\ queue[index] \notin skipIds \cup okThisRun
                 /\ lane' = [lane EXCEPT ![l] =
                      [at |-> "sent", event |-> queue[index], attempts |-> 1]]
<1> DEFINE open == {i \in DOMAIN queue : i > sharedIndex /\ queue[i] \notin skipIds \cup okThisRun}
           index == IF open = {} THEN Len(queue) + 1 ELSE Min(open)
<1>1. queue \in Seq(Event) /\ sharedIndex \in 0..Len(queue) /\ Len(queue) \in Nat
      /\ DOMAIN queue = 1..Len(queue)
  BY DEF PublisherInv, TypeOK
<1>2. /\ sharedIndex' = IF open = {} THEN Len(queue) ELSE index
      /\ summary' = [summary EXCEPT !.skipped = @ + index - 1 - sharedIndex]
      /\ lane' = [lane EXCEPT ![l] =
           IF open = {} THEN [at |-> "done", event |-> NoEvent, attempts |-> 0]
           ELSE [at |-> "sent", event |-> queue[index], attempts |-> 1]]
  <2>1. [IdleLane EXCEPT !.at = "done"] = [at |-> "done", event |-> NoEvent, attempts |-> 0]
    BY DEF IdleLane
  <2>2. QED
    BY <2>1, Zenon DEF Take
<1>3. CASE open = {}
  <2>1. index = Len(queue) + 1
    BY <1>3
  <2>2. \A i \in sharedIndex + 1 .. index - 1 : queue[i] \in skipIds \cup okThisRun
    BY <1>1, <1>3, <2>1
  <2>3. index \in 1..Len(queue) + 1 /\ sharedIndex < index
    BY <1>1, <2>1
  <2> HIDE DEF index, open
  <2>4. QED
    BY <1>2, <1>3, <2>1, <2>2, <2>3
<1>4. CASE open # {}
  <2>1. index \in open /\ \A i \in open : index <= i
    <3>1. open \in SUBSET Nat
      BY <1>1
    <3> HIDE DEF open
    <3>2. QED
      BY <1>4, <3>1, MinIsLeast
  <2> HIDE DEF index
  <2>2. /\ index \in 1..Len(queue) /\ sharedIndex < index
        /\ queue[index] \notin skipIds \cup okThisRun
    BY <1>1, <2>1
  <2>3. \A i \in sharedIndex + 1 .. index - 1 : queue[i] \in skipIds \cup okThisRun
    <3> SUFFICES ASSUME NEW i \in sharedIndex + 1 .. index - 1,
                        queue[i] \notin skipIds \cup okThisRun
                 PROVE  FALSE
      OBVIOUS
    <3>1. i \in 1..Len(queue) /\ i > sharedIndex /\ i < index
      BY <1>1, <2>2
    <3>2. i \in open
      BY <1>1, <3>1
    <3>3. QED
      BY <1>1, <2>1, <2>2, <3>1, <3>2
  <2> HIDE DEF open
  <2>4. index \in 1..Len(queue) + 1 /\ index <= Len(queue)
    BY <1>1, <2>2
  <2>5. QED
    BY <1>2, <1>4, <2>2, <2>3, <2>4
<1>5. QED
  BY <1>3, <1>4

LEMMA TakeStep ==
  ASSUME PublisherInv, NEW l \in Lane, Take(l)
  PROVE  PublisherInv'
<1> USE DEF PublisherInv
<1>1. /\ UNCHANGED <<built, file, publishLog, retryQueue, mode, queue, skipIds, okThisRun,
                     stored, late, spent>>
      /\ mode = "publishing" /\ lane[l].at = "idle" /\ ~Holds(l)
  BY DEF Take, ledgerVars, relayVars, Holds
<1>2. /\ queue \in Seq(Event) /\ Len(queue) \in Nat /\ sharedIndex \in 0..Len(queue)
      /\ \A i \in 1..Len(queue) : queue[i] \in Event
      /\ summary \in [{"skipped", "accepted", "rejected"} -> Nat]
  BY DEF TypeOK
<1>3. PICK index \in 1..Len(queue) + 1 :
           /\ sharedIndex < index
           /\ summary' = [summary EXCEPT !.skipped = @ + index - 1 - sharedIndex]
           /\ \A i \in sharedIndex + 1 .. index - 1 : queue[i] \in skipIds \cup okThisRun
           /\ \/ /\ index = Len(queue) + 1 /\ sharedIndex' = Len(queue)
                 /\ lane' = [lane EXCEPT ![l] =
                      [at |-> "done", event |-> NoEvent, attempts |-> 0]]
              \/ /\ index <= Len(queue) /\ sharedIndex' = index
                 /\ queue[index] \notin skipIds \cup okThisRun
                 /\ lane' = [lane EXCEPT ![l] =
                      [at |-> "sent", event |-> queue[index], attempts |-> 1]]
  BY TakeMoves
<1>4. /\ sharedIndex' \in 0..Len(queue) /\ sharedIndex <= sharedIndex'
      /\ summary'.skipped = summary.skipped + index - 1 - sharedIndex
      /\ summary'.skipped \in Nat
      /\ summary'.accepted = summary.accepted /\ summary'.rejected = summary.rejected
      /\ summary' \in [{"skipped", "accepted", "rejected"} -> Nat]
  <2>1. sharedIndex' \in 0..Len(queue) /\ sharedIndex <= sharedIndex'
    BY <1>2, <1>3
  <2>2. summary.skipped + index - 1 - sharedIndex \in Nat
    <3>1. summary.skipped \in Nat /\ index \in Nat /\ sharedIndex \in Nat /\ sharedIndex < index
      BY <1>2, <1>3
    <3>2. QED
      BY <3>1
  <2>3. QED
    BY <1>2, <1>3, <2>1, <2>2
<1>5. \A m \in Lane \ {l} : lane'[m] = lane[m] /\ (Holds(m)' <=> Holds(m))
  BY <1>3 DEF TypeOK, Holds
<1>6. Taken \subseteq Taken' /\ sharedIndex' <= Len(queue)
  BY <1>1, <1>2, <1>4 DEF Taken
<1>7. TypeOK'
  <2>1. lane' \in [Lane -> [at : {"idle", "sent", "backoff", "abandoned", "done"},
                        event : Event \cup {NoEvent}, attempts : 0..MaxRetries + 1]]
    <3>1. 0 \in 0..MaxRetries + 1 /\ 1 \in 0..MaxRetries + 1
      BY PublisherAssumption
    <3>2. index <= Len(queue) => queue[index] \in Event
      BY <1>2
    <3>3. CASE lane' = [lane EXCEPT ![l] = [at |-> "done", event |-> NoEvent, attempts |-> 0]]
      BY <3>1, <3>3 DEF TypeOK
    <3>4. CASE /\ index <= Len(queue)
               /\ lane' = [lane EXCEPT ![l] =
                    [at |-> "sent", event |-> queue[index], attempts |-> 1]]
      BY <3>1, <3>2, <3>4 DEF TypeOK
    <3>5. QED
      BY <1>3, <3>3, <3>4
  <2>2. QED
    BY <1>1, <1>4, <2>1 DEF TypeOK
<1>8. NoRunOutside' /\ BuildHasBatch'
  BY <1>1 DEF NoRunOutside, BuildHasBatch
<1>9. SkipsKnown'
  BY <1>1, <1>4, <1>6 DEF SkipsKnown
<1>10. OkMeansStored' /\ AbandonedIsQueued'
  BY <1>1 DEF OkMeansStored, AbandonedIsQueued
<1>11. ASSUME NEW e \in Taken'
       PROVE  \/ e \in Taken \/ e \in skipIds \cup okThisRun
              \/ e \in Event /\ lane'[l].at = "sent" /\ lane'[l].event = e
  <2>1. PICK i \in 1..sharedIndex' : e = queue[i]
    BY <1>1 DEF Taken
  <2>2. CASE i <= sharedIndex
    BY <1>2, <2>1, <2>2 DEF Taken
  <2>3. CASE sharedIndex < i /\ i < index
    <3>1. i \in sharedIndex + 1 .. index - 1
      BY <1>2, <2>1, <2>3
    <3>2. QED
      BY <1>3, <2>1, <3>1
  <2>4. CASE i = index
    <3>1. index <= Len(queue)
      BY <1>2, <1>4, <2>1, <2>4
    <3>2. e \in Event
      BY <1>2, <2>1, <2>4, <3>1
    <3>3. lane' = [lane EXCEPT ![l] = [at |-> "sent", event |-> queue[index], attempts |-> 1]]
      BY <1>2, <1>3, <3>1
    <3>4. QED
      BY <2>1, <2>4, <3>2, <3>3 DEF TypeOK
  <2>5. QED
    BY <1>2, <1>3, <2>1, <2>2, <2>3, <2>4
<1>12. HoldsTaken' /\ TakenAnswered' /\ SummaryCounts' /\ OneHolder'
  <2>1. CASE index = Len(queue) + 1
    <3>1. /\ sharedIndex' = Len(queue) /\ lane'[l].at = "done" /\ ~Holds(l)'
          /\ lane'[l].at # "sent"
      <4>1. lane \in [Lane -> [at : {"idle", "sent", "backoff", "abandoned", "done"},
                               event : Event \cup {NoEvent}, attempts : 0..MaxRetries + 1]]
        BY DEF TypeOK
      <4>2. /\ sharedIndex' = Len(queue)
            /\ lane' = [lane EXCEPT ![l] = [at |-> "done", event |-> NoEvent, attempts |-> 0]]
        BY <1>2, <1>3, <2>1
      <4>3. QED
        BY <4>1, <4>2 DEF Holds
    <3>2. Busy' = Busy /\ \A e : Holder(e)' = Holder(e)
      BY <1>1, <1>5, <3>1 DEF Busy, Holder
    <3>3. HoldsTaken'
      <4>1. \A m \in Lane \ {l} : /\ Holds(m)' => lane'[m].event \in Event /\ lane'[m].event \in Taken'
                                  /\ lane'[m].at = "abandoned" => InRetryQueue(lane[m].event)'
                                  /\ lane'[m].at = "backoff" => lane'[m].attempts <= MaxRetries
                                  /\ lane'[m].at = "done" => sharedIndex' = Len(queue')
        BY <1>1, <1>5, <1>6, <3>1 DEF HoldsTaken, InRetryQueue
      <4>2. QED
        BY <1>1, <3>1, <4>1 DEF HoldsTaken
    <3>4. TakenAnswered'
      BY <1>1, <1>4, <1>11, <3>1, <3>2 DEF TakenAnswered, SkipsKnown
    <3>5. SummaryCounts'
      <4>1. /\ summary.skipped \in Nat /\ summary.accepted \in Nat /\ summary.rejected \in Nat
            /\ sharedIndex \in Nat /\ Cardinality(Busy) \in Nat /\ Len(queue) \in Nat
            /\ summary.skipped + summary.accepted + summary.rejected + Cardinality(Busy) = sharedIndex
        BY <1>2, BusyIsFinite DEF SummaryCounts
      <4>2. /\ summary'.skipped = summary.skipped + Len(queue) - sharedIndex
            /\ summary'.accepted = summary.accepted /\ summary'.rejected = summary.rejected
        BY <1>2, <1>4, <2>1
      <4>3. Cardinality(Busy') = Cardinality(Busy)
        BY <3>2
      <4>4. summary.skipped + Len(queue) - sharedIndex + summary.accepted + summary.rejected
              + Cardinality(Busy) = Len(queue)
        BY SMTT(30), <4>1
      <4>5. QED
        BY <3>1, <4>2, <4>3, <4>4 DEF SummaryCounts
    <3>6. OneHolder'
      BY <1>1, <1>5, <3>1, <3>2 DEF OneHolder, Busy
    <3>7. QED
      BY <3>3, <3>4, <3>5, <3>6
  <2>2. CASE index <= Len(queue)
    <3>1. /\ sharedIndex' = index /\ Holds(l)'
          /\ lane'[l] = [at |-> "sent", event |-> queue[index], attempts |-> 1]
          /\ queue[index] \in Event /\ queue[index] \notin skipIds \cup okThisRun
      <4>1. queue[index] \in Event /\ index \in 1..Len(queue)
        BY <1>2, <1>3, <2>2 DEF TypeOK
      <4>2. /\ sharedIndex' = index /\ queue[index] \notin skipIds \cup okThisRun
            /\ lane' = [lane EXCEPT ![l] =
                 [at |-> "sent", event |-> queue[index], attempts |-> 1]]
        BY <1>2, <1>3, <2>2
      <4>3. lane'[l] = [at |-> "sent", event |-> queue[index], attempts |-> 1]
        BY <4>2 DEF TypeOK
      <4>4. QED
        BY <4>1, <4>2, <4>3 DEF Holds
    <3>2. Busy' = Busy \cup {l} /\ l \notin Busy /\ \A e : Holder(e) \subseteq Holder(e)'
      BY <1>1, <1>5, <3>1 DEF Busy, Holder
    <3>3. HoldsTaken'
      <4>1. \A m \in Lane \ {l} : /\ Holds(m)' => lane'[m].event \in Event /\ lane'[m].event \in Taken'
                                  /\ lane'[m].at = "abandoned" => InRetryQueue(lane[m].event)'
                                  /\ lane'[m].at = "backoff" => lane'[m].attempts <= MaxRetries
                                  /\ lane'[m].at # "done"
        <5>1. \A m \in Lane : lane[m].at # "done"
          BY <1>2, <1>3, <2>2 DEF HoldsTaken
        <5>2. QED
          BY <1>1, <1>5, <1>6, <5>1 DEF HoldsTaken, InRetryQueue
      <4>2. queue[index] \in Taken'
        BY <1>1, <1>3, <3>1 DEF Taken
      <4>3. QED
        BY <3>1, <4>1, <4>2 DEF HoldsTaken
    <3>4. TakenAnswered'
      <4>1. \A e : lane'[l].event = e => l \in Holder(e)'
        BY <3>1 DEF Holder
      <4>2. QED
        BY <1>1, <1>4, <1>11, <3>2, <4>1 DEF TakenAnswered, SkipsKnown
    <3>5. SummaryCounts'
      <4>1. Cardinality(Busy') = Cardinality(Busy) + 1
        BY <3>2, BusyIsFinite, FS_AddElement
      <4>2. QED
        <5>1. /\ summary.skipped \in Nat /\ summary.accepted \in Nat /\ summary.rejected \in Nat
              /\ sharedIndex \in Nat /\ index \in Nat /\ Cardinality(Busy) \in Nat
          BY <1>2, BusyIsFinite
        <5>2. summary.skipped + summary.accepted + summary.rejected + Cardinality(Busy)
                = sharedIndex
          BY DEF SummaryCounts
        <5>3. summary'.skipped + summary.accepted + summary.rejected + (Cardinality(Busy) + 1)
                = index
          <6>1. summary.skipped + index - 1 - sharedIndex + summary.accepted
                  + summary.rejected + (Cardinality(Busy) + 1) = index
            BY SMTT(30), <5>1, <5>2
          <6>2. QED
            BY <1>4, <6>1
        <5>4. QED
          BY <1>4, <3>1, <4>1, <5>3 DEF SummaryCounts
    <3>6. OneHolder'
      <4> SUFFICES ASSUME IsInjective(queue)
                   PROVE  /\ \A k, m \in Busy' : lane'[k].event = lane'[m].event => k = m
                          /\ \A k \in Busy' : lane'[k].event \notin skipIds \cup okThisRun
        BY <1>1 DEF OneHolder
      <4>1. ASSUME NEW m \in Busy PROVE lane'[m] = lane[m] /\ lane[m].event # queue[index]
        <5>1. PICK i \in 1..sharedIndex : lane[m].event = queue[i]
          BY DEF HoldsTaken, Busy, Taken
        <5>2. i # index /\ i \in DOMAIN queue /\ index \in DOMAIN queue
          BY <1>2, <1>3, <2>2
        <5>3. QED
          BY <1>5, <3>2, <5>1, <5>2 DEF Busy, IsInjective
      <4>2. QED
        BY <3>1, <3>2, <4>1 DEF OneHolder
    <3>7. QED
      BY <3>3, <3>4, <3>5, <3>6
  <2>3. QED
    BY <1>2, <2>1, <2>2
<1>13. QED
  BY <1>7, <1>8, <1>9, <1>10, <1>12

\* The answer to lane l's event is row, wherever it comes from.
LEMMA SettleStep ==
  ASSUME PublisherInv, NEW l \in Lane, NEW row \in {"ok", "stale", "failed", "watchdog"},
         Holds(l), Settle(l, row),
         row = "ok" => lane[l].event \in stored,
         row = "watchdog" => lane[l].at = "abandoned",
         UNCHANGED <<retryQueue, stored, spent>>, late' \subseteq Event
  PROVE  PublisherInv'
<1> USE DEF PublisherInv
<1> DEFINE e == lane[l].event
<1>1. /\ UNCHANGED <<built, file, retryQueue, mode, queue, sharedIndex, skipIds, stored, spent>>
      /\ publishLog' = [publishLog EXCEPT ![e] = row]
      /\ okThisRun' = IF row = "ok" THEN okThisRun \cup {e} ELSE okThisRun
      /\ summary' = IF row = "ok" THEN [summary EXCEPT !.accepted = @ + 1]
                                  ELSE [summary EXCEPT !.rejected = @ + 1]
      /\ lane' = [lane EXCEPT ![l] = IdleLane]
  BY DEF Settle, ledgerVars
<1>2. e \in Event /\ e \in Taken
  BY DEF HoldsTaken
<1>3. /\ publishLog' \in [Event -> Row] /\ publishLog'[e] = row
      /\ \A d \in Event \ {e} : publishLog'[d] = publishLog[d]
  BY <1>1, <1>2 DEF TypeOK, Row
<1>4. /\ ~Holds(l)' /\ lane'[l].at = "idle"
      /\ \A m \in Lane \ {l} : lane'[m] = lane[m] /\ (Holds(m)' <=> Holds(m))
  BY <1>1 DEF TypeOK, IdleLane, Holds
<1>5. /\ summary' \in [{"skipped", "accepted", "rejected"} -> Nat]
      /\ summary'.skipped = summary.skipped
      /\ summary'.accepted + summary'.rejected = summary.accepted + summary.rejected + 1
      /\ summary'.rejected = 0 => summary.rejected = 0 /\ row = "ok"
  <2>1. summary \in [{"skipped", "accepted", "rejected"} -> Nat]
    BY DEF TypeOK
  <2>2. CASE row = "ok"
    BY <1>1, <2>1, <2>2
  <2>3. CASE row # "ok"
    BY <1>1, <2>1, <2>3
  <2>4. QED
    BY <2>2, <2>3
<1>6. Taken' = Taken /\ Taken \subseteq Event
  BY <1>1 DEF Taken, TypeOK
<1>7. /\ Busy' = Busy \ {l} /\ l \in Busy /\ Busy' \subseteq Busy
      /\ \A d : Holder(d) # {} => d = e \/ Holder(d)' # {}
  BY <1>4 DEF Busy, Holder
<1>8. TypeOK'
  <2>1. lane' \in [Lane -> [at : {"idle", "sent", "backoff", "abandoned", "done"},
                        event : Event \cup {NoEvent}, attempts : 0..MaxRetries + 1]]
    BY SMTT(30), <1>1, PublisherAssumption DEF TypeOK, IdleLane
  <2>2. okThisRun' \subseteq Event
    BY <1>1, <1>2 DEF TypeOK
  <2>3. QED
    BY <1>1, <1>3, <1>5, <2>1, <2>2 DEF TypeOK
<1>9. NoRunOutside' /\ BuildHasBatch'
  <2>1. mode = "publishing"
    BY DEF NoRunOutside, LocalsUnset, NoRun, IdleLane, Holds
  <2>2. QED
    BY <1>1, <2>1 DEF NoRunOutside, BuildHasBatch
<1>10. HoldsTaken'
  <2>1. SUFFICES ASSUME NEW m \in Lane
                 PROVE  /\ Holds(m)' => lane'[m].event \in Event /\ lane'[m].event \in Taken'
                        /\ lane'[m].at = "abandoned" => InRetryQueue(lane[m].event)'
                        /\ lane'[m].at = "backoff" => lane'[m].attempts <= MaxRetries
                        /\ lane'[m].at = "done" => sharedIndex' = Len(queue')
    BY Zenon DEF HoldsTaken
  <2>2. QED
    BY <1>1, <1>4, <1>6 DEF HoldsTaken, InRetryQueue, IdleLane
<1>11. SkipsKnown'
  <2>1. okThisRun' \subseteq Taken'
    BY <1>1, <1>2, <1>6 DEF SkipsKnown
  <2>2. \A d \in skipIds' \cup okThisRun' :
          /\ d \in Event /\ publishLog'[d] # "none"
          /\ summary'.rejected = 0 => publishLog'[d] \in {"ok", "stale", "operator"}
    BY <1>1, <1>2, <1>3, <1>5 DEF SkipsKnown, TypeOK
  <2>3. \A d \in Event : mode' = "publishing" /\ publishLog'[d] \in {"ok", "operator"} =>
          d \in skipIds' \cup okThisRun'
    BY <1>1, <1>3 DEF SkipsKnown
  <2>4. QED
    BY <2>1, <2>2, <2>3 DEF SkipsKnown
<1>12. TakenAnswered'
  BY <1>3, <1>5, <1>6, <1>7 DEF TakenAnswered
<1>13. SummaryCounts'
  <2>1. Cardinality(Busy') = Cardinality(Busy) - 1 /\ Cardinality(Busy) \in Nat
    BY <1>7, BusyIsFinite, FS_RemoveElement
  <2>2. /\ summary.skipped \in Nat /\ summary.accepted \in Nat /\ summary.rejected \in Nat
        /\ summary'.accepted \in Nat /\ summary'.rejected \in Nat /\ sharedIndex \in Nat
    BY <1>5 DEF TypeOK
  <2>3. QED
    BY <1>1, <1>5, <2>1, <2>2 DEF SummaryCounts
<1>14. OneHolder'
  <2> SUFFICES ASSUME IsInjective(queue)
               PROVE  /\ \A k, m \in Busy' : lane'[k].event = lane'[m].event => k = m
                      /\ \A k \in Busy' : lane'[k].event \notin skipIds' \cup okThisRun'
    BY <1>1 DEF OneHolder
  <2>1. \A k \in Busy' : k \in Busy /\ k # l /\ lane'[k] = lane[k]
    BY <1>4, <1>7 DEF Busy
  <2>2. QED
    BY <1>1, <1>7, <2>1 DEF OneHolder
<1>15. OkMeansStored' /\ AbandonedIsQueued'
  BY <1>1, <1>2, <1>3 DEF OkMeansStored, AbandonedIsQueued, HoldsTaken, InRetryQueue
<1>16. QED
  BY <1>8, <1>9, <1>10, <1>11, <1>12, <1>13, <1>14, <1>15

\* Every action keeps the invariant.
LEMMA StepHolds == PublisherInv /\ [Next]_vars => PublisherInv'
<1> SUFFICES ASSUME PublisherInv, [Next]_vars PROVE PublisherInv'
  OBVIOUS
<1>1. CASE \/ \E gate \in {"closed", "forced", "absent"} : Build(gate)
           \/ ApplyToLedger \/ WriteArtifacts
  BY <1>1, BuilderStep
<1>2. CASE \E skip \in BOOLEAN : PublishFile(skip) \/ PublishBatch(retryQueue, skip)
  <2>1. PICK skip \in BOOLEAN : PublishFile(skip) \/ PublishBatch(retryQueue, skip)
    BY <1>2
  <2>2. file > 0 => Batch[file] \in Seq(Event)
    BY PublisherAssumption DEF PublisherInv, TypeOK
  <2>3. retryQueue \in Seq(Event)
    BY DEF PublisherInv, TypeOK
  <2>4. QED
    BY <2>1, <2>2, <2>3, PublishBatchStep DEF PublishFile
<1>3. ASSUME NEW l \in Lane, LaneGoesOn(l)
      PROVE  PublisherInv'
  <2> DEFINE late1 == late \cup ({lane[l].event} \ stored)
  <2>1. late \subseteq Event /\ (Holds(l) => late1 \subseteq Event)
    BY DEF PublisherInv, TypeOK, HoldsTaken
  <2>2. CASE Take(l)
    BY <2>2, TakeStep
  <2>3. CASE Resend(l) \/ Watchdog(l) \/ \E verdict \in Verdict : BackOff(l, verdict)
    BY <2>3, KeepStep
  <2>4. CASE Acked(l)
    BY <2>1, <2>4, SettleStep DEF Acked, Holds, relayVars
  <2>5. CASE Silent(l)
    BY <2>1, <2>5, SettleStep DEF Silent, Holds
  <2>6. CASE Abandon(l)
    BY <2>1, <2>6, SettleStep DEF Abandon, Holds, relayVars
  <2>7. ASSUME NEW verdict \in Verdict, Rejected(l, verdict)
        PROVE  PublisherInv'
    BY <2>1, <2>7, SettleStep DEF Rejected, Holds, relayVars
  <2>8. QED
    BY <1>3, <2>2, <2>3, <2>4, <2>5, <2>6, <2>7 DEF LaneGoesOn
<1>4. CASE Return \/ Crash
  BY <1>4, EndStep
<1>5. CASE \E e \in Event : RelayStores(e)
  BY <1>5, RelayStep
<1>6. CASE UNCHANGED vars
  <2>1. UNCHANGED <<built, file, publishLog, retryQueue, mode, queue, sharedIndex, skipIds,
                    okThisRun, summary, lane, stored, late, spent>>
    BY <1>6 DEF vars, runVars, relayVars, ledgerVars
  <2>2. TypeOK'
    BY <2>1 DEF PublisherInv, TypeOK
  <2>3. BuildHasBatch' /\ SkipsKnown' /\ OkMeansStored' /\ AbandonedIsQueued'
    <3>1. BuildHasBatch'
      BY <2>1 DEF PublisherInv, BuildHasBatch
    <3>2. SkipsKnown'
      BY <2>1 DEF PublisherInv, SkipsKnown, Taken
    <3>3. OkMeansStored' /\ AbandonedIsQueued'
      BY <2>1 DEF PublisherInv, OkMeansStored, AbandonedIsQueued
    <3>4. QED
      BY <3>1, <3>2, <3>3
  <2>4. NoRunOutside'
    BY <2>1 DEF PublisherInv, NoRunOutside, LocalsUnset
  <2>5. HoldsTaken' /\ TakenAnswered'
    BY <2>1 DEF PublisherInv, HoldsTaken, Holds, Taken, InRetryQueue, TakenAnswered, Holder
  <2>6. SummaryCounts' /\ OneHolder'
    BY <2>1 DEF PublisherInv, SummaryCounts, Busy, Holds, OneHolder
  <2>7. QED
    BY <2>2, <2>3, <2>4, <2>5, <2>6 DEF PublisherInv
<1>7. QED
  BY <1>1, <1>2, <1>3, <1>4, <1>5, <1>6 DEF Next

-----------------------------------------------------------------------------
(* The theorems *)

\* The inductive invariant holds in every reachable state of publishBatch, the
\* watchdog, the crash and the build around it.
THEOREM PublisherInvariant == Spec => []PublisherInv
BY InitHolds, StepHolds, PTL DEF Spec

\* The types of the ledger, the run's locals and the relay, for any lanes and batches.
THEOREM PublisherTypes == Spec => []TypeOK
<1>1. PublisherInv => TypeOK
  BY DEF PublisherInv
<1>2. QED
  BY <1>1, PublisherInvariant, PTL

\* What publish_log calls ok is at the relay, whatever process ended where.
THEOREM OkRowsAreStored == Spec => []OkMeansStored
<1>1. PublisherInv => OkMeansStored
  BY DEF PublisherInv
<1>2. QED
  BY <1>1, PublisherInvariant, PTL

\* The watchdog writes the retry queue before the ledger: no crash loses an event
\* between the two.
THEOREM WatchdogQueuesFirst == Spec => []AbandonedIsQueued
<1>1. PublisherInv => AbandonedIsQueued
  BY DEF PublisherInv
<1>2. QED
  BY <1>1, PublisherInvariant, PTL

\* A run whose lanes are done has passed the end of its queue, and no lane holds an event.
LEMMA DoneRun ==
  ASSUME PublisherInv, \A l \in Lane : lane[l].at = "done"
  PROVE  /\ Taken = {queue[i] : i \in DOMAIN queue} /\ sharedIndex = Len(queue)
         /\ Busy = {} /\ \A e : Holder(e) = {}
<1>1. PICK l \in Lane : lane[l].at = "done"
  BY PublisherAssumption
<1>2. sharedIndex = Len(queue)
  BY <1>1 DEF PublisherInv, HoldsTaken
<1>3. DOMAIN queue = 1..Len(queue)
  BY DEF PublisherInv, TypeOK
<1>4. QED
  BY <1>2, <1>3 DEF Taken, Busy, Holder, Holds

\* publishBatch returns with a row for each event of its input and a summary that
\* counts each once, however its lanes interleave.
THEOREM RunsAnswerForAll == Spec => []RunAnswersForAll
<1>1. PublisherInv => RunAnswersForAll
  <2> SUFFICES ASSUME PublisherInv, \A l \in Lane : lane[l].at = "done"
               PROVE  /\ \A i \in DOMAIN queue : publishLog[queue[i]] # "none"
                      /\ summary.skipped + summary.accepted + summary.rejected = Len(queue)
    BY DEF RunAnswersForAll
  <2>1. \A i \in DOMAIN queue : publishLog[queue[i]] # "none"
    BY DoneRun DEF PublisherInv, TakenAnswered
  <2>2. Cardinality(Busy) = 0
    BY DoneRun, FS_EmptySet
  <2>3. /\ summary.skipped \in Nat /\ summary.accepted \in Nat /\ summary.rejected \in Nat
        /\ summary.skipped + summary.accepted + summary.rejected + 0 = Len(queue)
    BY <2>2, DoneRun DEF PublisherInv, SummaryCounts, TypeOK
  <2>4. QED
    BY <2>1, <2>3
<1>2. QED
  BY <1>1, PublisherInvariant, PTL

\* An exit code of 0 means that nothing of the input is left to publish.
THEOREM CleanRunsSettle == Spec => []CleanRunSettles
<1>1. PublisherInv => CleanRunSettles
  <2> SUFFICES ASSUME PublisherInv, \A l \in Lane : lane[l].at = "done", summary.rejected = 0,
                      NEW i \in DOMAIN queue
               PROVE  publishLog[queue[i]] \in {"ok", "stale", "operator"}
    BY DEF CleanRunSettles
  <2>1. QED
    BY DoneRun DEF PublisherInv, TakenAnswered
<1>2. QED
  BY <1>1, PublisherInvariant, PTL

\* An event with a final row keeps it and is not sent again, in any run whose input
\* lists no event twice.
THEOREM SettledIsFinal == Spec => SettledIsLeftAlone
<1> DEFINE leftAlone == \A e \in Event :
       publishLog[e] \in {"ok", "operator"} /\ IsInjective(queue') =>
         publishLog'[e] = publishLog[e] /\ (Sending(e)' => Sending(e))
<1>1. PublisherInv /\ [Next]_vars => leftAlone
  <2> SUFFICES ASSUME PublisherInv, [Next]_vars, NEW e \in Event,
                      publishLog[e] \in {"ok", "operator"}, IsInjective(queue')
               PROVE  publishLog'[e] = publishLog[e] /\ (Sending(e)' => Sending(e))
    OBVIOUS
  <2>1. PublisherInv'
    BY StepHolds
  <2>2. \A l \in Lane : Holds(l) => mode = "publishing"
    BY DEF PublisherInv, NoRunOutside, LocalsUnset, NoRun, IdleLane, Holds
  <2>3. \A l \in Lane : Holds(l)' => mode' = "publishing"
    BY <2>1 DEF PublisherInv, NoRunOutside, LocalsUnset, NoRun, IdleLane, Holds
  <2>4. publishLog'[e] = publishLog[e]
    <3>1. CASE UNCHANGED publishLog
      BY <3>1
    <3>2. CASE \E gate \in {"closed", "forced", "absent"} : Build(gate)
      BY <3>2 DEF Build, UnpublishedChainPointIds, PublisherInv, TypeOK
    <3>3. ASSUME NEW l \in Lane, NEW row, Holds(l), Settle(l, row)
          PROVE  publishLog'[e] = publishLog[e]
      <4>1. queue' = queue /\ publishLog' = [publishLog EXCEPT ![lane[l].event] = row]
        BY <3>3 DEF Settle
      <4>2. lane[l].event \notin skipIds \cup okThisRun
        BY <3>3, <4>1 DEF PublisherInv, OneHolder, Busy
      <4>3. e \in skipIds \cup okThisRun
        BY <2>2, <3>3 DEF PublisherInv, SkipsKnown
      <4>4. QED
        BY <4>1, <4>2, <4>3 DEF PublisherInv, TypeOK
    <3>4. \/ UNCHANGED publishLog
          \/ \E gate \in {"closed", "forced", "absent"} : Build(gate)
          \/ \E l \in Lane, row \in Row : Holds(l) /\ Settle(l, row)
      <4>1. ASSUME NEW l \in Lane, LaneGoesOn(l)
            PROVE  UNCHANGED publishLog \/ \E row \in Row : Holds(l) /\ Settle(l, row)
        BY <4>1 DEF LaneGoesOn, Take, Acked, Rejected, BackOff, Resend, Silent, Watchdog,
                    Abandon, Holds, Row
      <4>2. QED
        BY <4>1 DEF Next, vars, ApplyToLedger, WriteArtifacts, PublishFile, PublishBatch,
                    Return, Crash, RelayStores
    <3>5. QED
      BY <3>1, <3>2, <3>3, <3>4
  <2>5. ASSUME NEW l \in Lane, lane'[l].at = "sent", lane'[l].event = e
        PROVE  FALSE
    <3>1. Holds(l)' /\ mode' = "publishing"
      BY <2>3, <2>5 DEF Holds
    <3>2. e \notin skipIds' \cup okThisRun'
      BY <2>1, <2>5, <3>1 DEF PublisherInv, OneHolder, Busy
    <3>3. e \in skipIds' \cup okThisRun'
      BY <2>1, <2>4, <3>1 DEF PublisherInv, SkipsKnown
    <3>4. QED
      BY <3>2, <3>3
  <2>6. QED
    BY <2>4, <2>5 DEF Sending
<1>2. QED
  BY <1>1, PublisherInvariant, PTL DEF Spec, SettledIsLeftAlone
=============================================================================
