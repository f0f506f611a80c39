------------------------------ MODULE Publisher ------------------------------
(***************************************************************************)
(* The mirror's way to the relay: publishBatch (packages/mirror/src/       *)
(* publish/index.ts) with its lanes, watchdog, retry queue and publish_log *)
(* (ledger/index.ts), and the build of the next batch behind the chain     *)
(* point gate (ledger/seccertsLedger.ts, emit/seccerts/index.ts).  The     *)
(* relay is external: it may store an event it has been sent at any later  *)
(* time, and answers as it likes, or never; an OK follows the storing.     *)
(***************************************************************************)
EXTENDS Naturals, Sequences, FiniteSets, SequencesExt

CONSTANTS
  Event,
  NoEvent,
  Batch,       \* the batches the builds produce, each a sequence of events
  ChainPoint,  \* the chain points in the ledger after each build
  Lane,
  MaxRetries,
  Budget       \* bound on watchdogs and process ends, together

Verdict == {"rate", "stale", "other"}  \* the ways of a NIP-20 rejection

\* What a row of publish_log tells apart: "failed" is every reason but the others.
Row == {"none", "ok", "stale", "failed", "watchdog", "operator"}

ASSUME PublisherAssumption ==
  /\ NoEvent \notin Event
  /\ Batch \in Seq(Seq(Event)) /\ ChainPoint \in [DOMAIN Batch -> SUBSET Event]
  /\ Lane # {} /\ IsFiniteSet(Lane)  \* Math.max(1, opts.workers ?? 1)
  /\ MaxRetries \in Nat /\ Budget \in Nat

VARIABLES
  built,        \* how many batches the ledger knows
  file,         \* which of them artifacts/seccerts.ndjson holds
  publishLog,   \* publish_log: what is known of each event at the relay
  retryQueue,   \* the file the watchdog appends to
  mode,         \* the command that runs
  queue, sharedIndex, skipIds, okThisRun, summary, lane,  \* of publishBatch
  stored,       \* the events the relay has
  late,         \* events sent, not waited for any more, that may yet be stored
  spent

ledgerVars == <<built, file>>
runVars == <<queue, sharedIndex, skipIds, okThisRun, summary, lane>>
relayVars == <<stored, late>>
vars == <<built, file, publishLog, retryQueue, mode, runVars, relayVars, spent>>

IdleLane == [at |-> "idle", event |-> NoEvent, attempts |-> 0]

Spend == spent < Budget /\ spent' = spent + 1

\* The locals of publishBatch outside a run.
NoRun ==
  [queue |-> <<>>, sharedIndex |-> 0, skipIds |-> {}, okThisRun |-> {},
   summary |-> [skipped |-> 0, accepted |-> 0, rejected |-> 0],
   lane |-> [l \in Lane |-> IdleLane]]

LocalsLost ==
  /\ queue' = NoRun.queue /\ sharedIndex' = NoRun.sharedIndex
  /\ skipIds' = NoRun.skipIds /\ okThisRun' = NoRun.okThisRun
  /\ summary' = NoRun.summary /\ lane' = NoRun.lane

Init ==
  /\ built = 0 /\ file = 0 /\ mode = "idle"
  /\ publishLog = [e \in Event |-> "none"] /\ retryQueue = <<>>
  /\ queue = NoRun.queue /\ sharedIndex = NoRun.sharedIndex
  /\ skipIds = NoRun.skipIds /\ okThisRun = NoRun.okThisRun
  /\ summary = NoRun.summary /\ lane = NoRun.lane
  /\ stored = {} /\ late = {} /\ spent = 0

-----------------------------------------------------------------------------
(* build:seccerts *)

UnpublishedChainPointIds ==
  {e \in UNION {ChainPoint[k] : k \in {built} \ {0}} : publishLog[e] = "none"}

\* The gate, when --relay names the target; --force-reset abandons what it would
\* refuse for, before the engine and the ledger move.
Build(gate) ==
  /\ mode = "idle" /\ built < Len(Batch)
  /\ gate = "closed" => UnpublishedChainPointIds = {}
  /\ publishLog' = [e \in Event |->
       IF gate = "forced" /\ e \in UnpublishedChainPointIds THEN "operator" ELSE publishLog[e]]
  /\ mode' = "engine"
  /\ UNCHANGED <<ledgerVars, retryQueue, runVars, relayVars, spent>>

\* The rows of the new batch.
ApplyToLedger ==
  /\ mode = "engine" /\ mode' = "writing"
  /\ built' = built + 1
  /\ UNCHANGED <<file, publishLog, retryQueue, runVars, relayVars, spent>>

\* The batch is written after the ledger has been closed.
WriteArtifacts ==
  /\ mode = "writing" /\ mode' = "idle"
  /\ file' = built
  /\ UNCHANGED <<built, publishLog, retryQueue, runVars, relayVars, spent>>

-----------------------------------------------------------------------------
(* publishBatch *)

\* A fault: an operator's abandonment is taken for any other rejection.
ForgetfulSkipIds(skipTerminalRejected) ==
  {e \in Event : \/ publishLog[e] = "ok"
                 \/ publishLog[e] = "stale" /\ skipTerminalRejected}

\* A fault: every event with a row is skipped.
HastySkipIds(skipTerminalRejected) == {e \in Event : publishLog[e] # "none"}

\* What a run will not send; --resend-rejected clears skipTerminalRejected.
SkipIds(skipTerminalRejected) ==
  {e \in Event : \/ publishLog[e] \in {"ok", "operator"}
                 \/ publishLog[e] = "stale" /\ skipTerminalRejected}

\* The input is the latest batch or the retry queue fed again.
PublishBatch(events, skipTerminalRejected) ==
  /\ mode = "idle" /\ events # <<>>
  /\ mode' = "publishing"
  /\ queue' = events
  /\ skipIds' = SkipIds(skipTerminalRejected)
  /\ UNCHANGED <<ledgerVars, publishLog, retryQueue, sharedIndex, okThisRun, summary, lane,
                 relayVars, spent>>

PublishFile(skip) == file > 0 /\ PublishBatch(Batch[file], skip)

\* A fault: the shared index advances once more for an event that is sent.
DoubleTake(l) ==
  LET open == {i \in DOMAIN queue : i > sharedIndex /\ queue[i] \notin skipIds \cup okThisRun}
      index == IF open = {} THEN Len(queue) + 1 ELSE Min(open)
  IN /\ mode = "publishing" /\ lane[l].at = "idle"
     /\ sharedIndex' = IF index >= Len(queue) THEN Len(queue) ELSE index + 1
     /\ summary' = [summary EXCEPT !.skipped = @ + index - 1 - sharedIndex]
     /\ lane' = [lane EXCEPT ![l] =
          IF open = {} THEN [IdleLane EXCEPT !.at = "done"]
          ELSE [at |-> "sent", event |-> queue[index], attempts |-> 1]]
     /\ UNCHANGED <<ledgerVars, publishLog, retryQueue, mode, queue, skipIds, okThisRun,
                    relayVars, spent>>

\* The next event that is not skipped, at one go with the skips before it, is
\* sent; a lane that finds none is done.
Take(l) ==
  LET open == {i \in DOMAIN queue : i > sharedIndex /\ queue[i] \notin skipIds \cup okThisRun}
      index == IF open = {} THEN Len(queue) + 1 ELSE Min(open)
  IN /\ mode = "publishing" /\ lane[l].at = "idle"
     /\ sharedIndex' = IF open = {} THEN Len(queue) ELSE index
     /\ summary' = [summary EXCEPT !.skipped = @ + index - 1 - sharedIndex]
     /\ lane' = [lane EXCEPT ![l] =
          IF open = {} THEN [IdleLane EXCEPT !.at = "done"]
          ELSE [at |-> "sent", event |-> queue[index], attempts |-> 1]]
     /\ UNCHANGED <<ledgerVars, publishLog, retryQueue, mode, queue, skipIds, okThisRun,
                    relayVars, spent>>

\* markPublish, the last write wins, and the summary.
Settle(l, row) ==
  LET e == lane[l].event
  IN /\ publishLog' = [publishLog EXCEPT ![e] = row]
     /\ okThisRun' = IF row = "ok" THEN okThisRun \cup {e} ELSE okThisRun
     /\ summary' = IF row = "ok" THEN [summary EXCEPT !.accepted = @ + 1]
                                 ELSE [summary EXCEPT !.rejected = @ + 1]
     /\ lane' = [lane EXCEPT ![l] = IdleLane]
     /\ UNCHANGED <<ledgerVars, mode, queue, sharedIndex, skipIds>>

Acked(l) ==
  /\ lane[l].at = "sent" /\ lane[l].event \in stored
  /\ Settle(l, "ok")
  /\ UNCHANGED <<retryQueue, relayVars, spent>>

Retryable(l, verdict) == verdict = "rate" /\ lane[l].attempts <= MaxRetries

Rejected(l, verdict) ==
  /\ lane[l].at = "sent" /\ ~Retryable(l, verdict)
  /\ Settle(l, IF verdict = "stale" THEN "stale" ELSE "failed")
  /\ UNCHANGED <<retryQueue, relayVars, spent>>

BackOff(l, verdict) ==
  /\ lane[l].at = "sent" /\ Retryable(l, verdict)
  /\ lane' = [lane EXCEPT ![l].at = "backoff"]
  /\ UNCHANGED <<ledgerVars, publishLog, retryQueue, mode, queue, sharedIndex, skipIds,
                 okThisRun, summary, relayVars, spent>>

\* A fault: the attempts are not counted.
UncountedResend(l) ==
  /\ lane[l].at = "backoff"
  /\ lane' = [lane EXCEPT ![l].at = "sent"]
  /\ UNCHANGED <<ledgerVars, publishLog, retryQueue, mode, queue, sharedIndex, skipIds,
                 okThisRun, summary, relayVars, spent>>

Resend(l) ==
  /\ lane[l].at = "backoff"
  /\ lane' = [lane EXCEPT ![l] =
       [at |-> "sent", event |-> @.event, attempts |-> @.attempts + 1]]
  /\ UNCHANGED <<ledgerVars, publishLog, retryQueue, mode, queue, sharedIndex, skipIds,
                 okThisRun, summary, relayVars, spent>>

\* A fault: a connection that closes after the event was sent counts as an OK.
HopefulSilent(l) ==
  /\ lane[l].at = "sent"
  /\ late' = late \cup ({lane[l].event} \ stored)
  /\ Settle(l, "ok")
  /\ UNCHANGED <<retryQueue, stored, spent>>

\* The socket answers for the relay: it could not connect, the connection was
\* closed, no OK came in time.  A late OK finds no one waiting.
Silent(l) ==
  /\ lane[l].at = "sent"
  /\ late' = late \cup ({lane[l].event} \ stored)
  /\ Settle(l, "failed")
  /\ UNCHANGED <<retryQueue, stored, spent>>

\* A fault: the ledger is told first.
LedgerFirstWatchdog(l) ==
  /\ lane[l].at = "sent"
  /\ Spend
  /\ late' = late \cup ({lane[l].event} \ stored)
  /\ publishLog' = [publishLog EXCEPT ![lane[l].event] = "watchdog"]
  /\ lane' = [lane EXCEPT ![l].at = "abandoned"]
  /\ UNCHANGED <<ledgerVars, retryQueue, mode, queue, sharedIndex, skipIds, okThisRun,
                 summary, stored>>

\* The socket does not answer either: the event goes to the retry queue ...
Watchdog(l) ==
  /\ lane[l].at = "sent"
  /\ Spend
  /\ late' = late \cup ({lane[l].event} \ stored)
  /\ retryQueue' = Append(retryQueue, lane[l].event)
  /\ lane' = [lane EXCEPT ![l].at = "abandoned"]
  /\ UNCHANGED <<ledgerVars, publishLog, mode, queue, sharedIndex, skipIds, okThisRun,
                 summary, stored>>

\* ... and then into the ledger.
Abandon(l) ==
  /\ lane[l].at = "abandoned"
  /\ Settle(l, "watchdog")
  /\ UNCHANGED <<retryQueue, relayVars, spent>>

Return ==
  /\ mode = "publishing" /\ \A l \in Lane : lane[l].at = "done"
  /\ mode' = "idle" /\ LocalsLost
  /\ UNCHANGED <<ledgerVars, publishLog, retryQueue, relayVars, spent>>

\* The timers of the socket end every attempt, whatever the relay does.
LaneGoesOn(l) ==
  \/ Take(l) \/ Acked(l) \/ Resend(l) \/ Silent(l) \/ Watchdog(l) \/ Abandon(l)
  \/ \E verdict \in Verdict : Rejected(l, verdict) \/ BackOff(l, verdict)

-----------------------------------------------------------------------------
(* The environment *)

OnTheWire == late \cup {lane[l].event : l \in {m \in Lane : lane[m].at = "sent"}}

RelayStores(e) ==
  /\ e \in OnTheWire \ stored
  /\ stored' = stored \cup {e} /\ late' = late \ {e}
  /\ UNCHANGED <<ledgerVars, publishLog, retryQueue, mode, runVars, spent>>

\* The command that runs ends between two writes.
Crash ==
  /\ mode # "idle" /\ mode' = "idle"
  /\ Spend
  /\ late' = OnTheWire \ stored /\ LocalsLost
  /\ UNCHANGED <<ledgerVars, publishLog, retryQueue, stored>>

Next ==
  \/ \E gate \in {"closed", "forced", "absent"} : Build(gate)
  \/ ApplyToLedger \/ WriteArtifacts
  \/ \E skip \in BOOLEAN : PublishFile(skip) \/ PublishBatch(retryQueue, skip)
  \/ \E l \in Lane : LaneGoesOn(l)
  \/ Return \/ Crash
  \/ \E e \in Event : RelayStores(e)

Spec == Init /\ [][Next]_vars

\* The relay owes nothing; the publisher's timers end every attempt.
FairSpec ==
  /\ Spec
  /\ \A l \in Lane : WF_vars(LaneGoesOn(l))
  /\ WF_vars(Return)

-----------------------------------------------------------------------------
(* Properties *)

TypeOK ==
  /\ built \in 0..Len(Batch) /\ file \in 0..built
  /\ publishLog \in [Event -> Row] /\ retryQueue \in Seq(Event)
  /\ mode \in {"idle", "engine", "writing", "publishing"}
  /\ queue \in Seq(Event) /\ sharedIndex \in 0..Len(queue)
  /\ skipIds \subseteq Event /\ okThisRun \subseteq Event
  /\ summary \in [{"skipped", "accepted", "rejected"} -> Nat]
  /\ lane \in [Lane -> [at : {"idle", "sent", "backoff", "abandoned", "done"},
                        event : Event \cup {NoEvent}, attempts : 0..MaxRetries + 1]]
  /\ stored \subseteq Event /\ late \subseteq Event /\ spent \in 0..Budget

\* What the ledger calls published is at the relay, whatever was lost or came late.
OkMeansStored == \A e \in Event : publishLog[e] = "ok" => e \in stored

\* What the watchdog gave up on is in the retry queue by the time the ledger says
\* so: a process that ends in between loses no event (publish/index.ts, step 5).
AbandonedIsQueued ==
  \A e \in Event : publishLog[e] = "watchdog" => \E i \in DOMAIN retryQueue : retryQueue[i] = e

\* A run that returns has an answer in the ledger for each event it was given, and
\* its summary counts each once.
RunAnswersForAll ==
  mode = "publishing" /\ (\A l \in Lane : lane[l].at = "done") =>
    /\ \A i \in DOMAIN queue : publishLog[queue[i]] # "none"
    /\ summary.skipped + summary.accepted + summary.rejected = Len(queue)

Sending(e) == \E l \in Lane : lane[l].at = "sent" /\ lane[l].event = e

\* Resume-skip: an event acked by the relay or abandoned by the operator is never
\* sent again and keeps its row, in this run and in every later one, as long as
\* no input lists an event twice.
SettledIsLeftAlone ==
  [][\A e \in Event :
       publishLog[e] \in {"ok", "operator"} /\ IsInjective(queue') =>
         publishLog'[e] = publishLog[e] /\ (Sending(e)' => Sending(e))]_vars

\* A run ends: no event blocks the ones behind it.
RunEnds == mode = "publishing" ~> mode = "idle"

\* A run that rejects nothing leaves nothing to do: each event it was given is at the
\* relay, refused for good or abandoned by the operator (the exit code 0 of cli.ts).
CleanRunSettles ==
  mode = "publishing" /\ (\A l \in Lane : lane[l].at = "done") /\ summary.rejected = 0 =>
    \A i \in DOMAIN queue : publishLog[queue[i]] \in {"ok", "stale", "operator"}
=============================================================================
