# Scrutiny fabric tools in TLA+

A TLA+ development of `crocs-muni/scrutiny-fabric-tools`: models of its stateful
parts translated from the source, TLC runs on small instances, and TLAPS proofs
for every instance. Paths below are relative to `src/`.

## 1. The system

Scrutiny fabric describes security products as Nostr events: *roots* (products and
metadata), *patches* (diffs of a root's content, chained by reply), *bindings*
(a product and a metadata event belong together) and *deletions* (kind 5). A reader
trusts some authors and derives everything else from the events it has seen.

| Part | State | Operations | Talks to |
|---|---|---|---|
| Admission `packages/core/src/admit.ts` | reasons per event, live bindings, trusted authors, observed events | `applyDelta` (observe, unobserve, trust, untrust), `computeAdmission` | called by the store's reducer |
| Resolution `core/src/resolve.ts` | none: a function of a root and a set of events | `resolve`, `classify`, cascade, overlay states | called by the memo; applies `patch.ts` |
| Store reducer and memo `core/src/store.ts` | admission state, permanent rejections, reverse indexes (`chainMembership`, `pendingAwaiting`, `overlayAwaiting`), epochs, memo | `applyStoreDelta`, `processObservedEvent`, `resolveRootMemoized`, `viewRoot` | admission, validity rules, resolution, storage port |
| In-memory storage `core/src/store.ts` | events by id, four indexes, deletion cache | `put`, `query` | the store's storage port |
| Validity rules `core/src/validate.ts`, `rules.ts` | none | `validateEvent` (valid, invalid, pending) | the reducer |
| Patches `core/src/patch.ts`, `patch-matcher.ts`, `build.ts` | none | application of diffs by unique match, building with widening contexts | resolution, publishers |
| Discovery `core/src/query.ts` | none | filters for scans, indexers and the traversal from an event, roles of results | the relay |
| Relay dual store `relay/internal/store` | boltdb base, bleve index, drift counter; gauge in `internal/metrics` | `SaveEvent`, `Reindex`, `ImportNDJSON`, the processes of `cmd/relay/main.go` | connections of the relay |
| Relay scan `relay/internal/store/store.go` | bound, page size | `scanAll` (reindex, count, diff) | the base store |
| Relay gates and limiter `relay/internal/gate`, `config`, `relay` | key per connection; token buckets | accept or reject an event, a filter or a search | connections |
| Mirror publisher `packages/mirror/src/publish` | queue, shared index, skip sets, summary, lanes, sockets; the retry queue on disk | `publishBatch`, `AuthedRelaySocket` | the relay, the ledger |
| Mirror ledger `mirror/src/ledger` | SQLite: roots, relations, `publish_log` | `markPublish`, `unpublishedChainPointIds`, `abandonChainPoints` | builds and the publisher |
| Mirror sync `mirror/src/emit/seccerts` | none of its own: a diff of the dataset against the ledger, an artifacts file | `runEngine` (roots C1-C5, relations R1-R5), `emitSeccertsBundle` (gate, `seedLeg1`, upserts) | the ledger, the files the publisher reads |
| Mirror socket `mirror/src/publish/auth.ts` | connection, NIP-42 handshake, waiters and timers | `publish`, `close`, websocket callbacks | the relay, the publisher's lanes |
| Mirror pipeline `mirror/src/loaders`, `emit/seccerts`, `gate` | none: an export in, a plan, a batch of events out | loaders, `planBundle`, builders and their assertions, the gate | the sync, files |
| Other builds `mirror/src/emit`, `cli.ts` | artifact files | `build:jcalgtest`, flags and reports | files |

What is hard here:

* **order of arrival** (core): events come and go in any order, a deletion before its
  target, a binding before its endpoints, a patch before its parent, and the
  incremental state must equal what a fresh reader would derive;
* **staleness** (core): memoized resolutions, cached deletions, reverse indexes;
* **partial failure and process ends** (relay): two stores without a common
  transaction, imports without fsync, a counter in memory only;
* **concurrency** (relay, mirror): connections in `SaveEvent` together, lanes of one
  `publishBatch` that share an index across awaits, late answers;
* **boundaries**: a page that ends inside a second, a full table of buckets (relay), a
  file that ends without a newline, a context one line too narrow (patches), a tag
  budget (mirror);
* **two implementations of one thing** (core and mirror): diffs are made and checked by
  one and applied by the other; events are built and gated by one and judged by the other;
* **callbacks and timers** (mirror): an AUTH and an answer that cross, a socket that dies
  while one or the other is awaited;
* **drift between ledger and relay** (mirror): each sync signs only the difference to
  what the ledger remembers, so a row that is ahead of or behind the relay goes wrong
  several syncs later.

`PROJECT.json` lists the hazards at their lines, with the properties that cover them.

## 2. Modules

| Module | Models | Notes |
|---|---|---|
| `Fabric` | the events, as the store tells them apart | a constant function `Body`; targets are ids, contents are left out |
| `Admission` | `admit.ts` | one action per delta kind, each applies the whole of `applyDelta` with `resync` |
| `Resolve` | `resolve.ts` | operators over a set of events; `Effect` says what each patch does to each content |
| `Store` | `applyStoreDelta`, the memo | instantiates `Admission`, uses `Resolve`; `Read` is a memoized resolution |
| `StoreLoop` | the loop of an observe delta | event by event, in every order, against `Store`'s order-free `Observed` |
| `EventStorage` | `createInMemoryEventStorage` | indexes are sets of (key, id) pairs, as the bucket maps |
| `Patch`, `PatchExchange` | `patch.ts`, `patch-matcher.ts`, `buildPatch`, the mirror's `createPatch` and `applyPatch` | a producer, core or the mirror, and a consumer that follows it |
| `Events` | tags, markers and types of the wire, `events.ts` and `build.ts` | the detailed side of `Fabric` |
| `Validity` | `validateEvent` | every rule that decides a verdict |
| `Discovery` | `query.ts` | filters as records, what they match, `classifyByRole` |
| `RelayGate` | `config.go`, `gate.go`, the hooks and the request chain of `relay.go` | operators; used by the two modules below |
| `SearchLimiter` | `searchlimit.go` behind the request chain | EXTENDS `RelayGate`; a step per lock |
| `RelayStore` | `SaveEvent`, `StoreEvent`, reindex, import, processes | each write and the two halves of the gauge update are steps of their own |
| `ScanAll` | `scanAll` | the walk over every store within the bounds |
| `Publisher` | `publishBatch`, `publish_log`, the build behind the gate | a step per stretch between two awaits or two writes to disk; the relay is external |
| `Publication` | what `publish()` promises | the abstract specification that `Publisher` takes for granted |
| `AuthSocket` | `auth.ts` | implements `Publication` |
| `Engine` | `runEngine`, `seedLeg1`, the gate, the ledger's roots and relations, the artifacts file | one action per step of a build; texts and tags are versions |
| `Loading` | the sec-certs loaders, `ppAliases.ts`, `maintenance.ts` | from an export to records |
| `Planning` | `roots.ts`, `relations.ts`, `plan.ts` | from records to wanted roots and relations |
| `Emission` | builders and assertions of `emit`, `runEngine` with real events, `gate` | from a plan and a ledger to a batch |
| `Mirroring` | the composition: export, batch, relay gates, readers | INSTANCEs `RelayGate`, EXTENDS `Emission`, `Validity`, `Discovery` |
| `MC*` | instances for TLC | |
| `AdmissionProofs`, `StoreProofs`, `RelayStoreProofs`, `PublisherProofs`, `AuthSocketProofs`, `EngineProofs`, `PatchProofs`, `MirroringProofs` | theorems | `StoreProofs` covers the store, its loop and the storage, `RelayStoreProofs` also `ScanAll` and `SearchLimiter` |

Operators marked "A fault" are variants of the definition below them with a
plausible bug; the mutants of `PROJECT.json` put them in its place to show that each
property can fail.

How state and actions correspond to the code:

* **Admission.** `admit` is an `AdmitState`; `ApplyObserve`, `ApplyUnobserve`,
  `ApplyTrust` and `ApplyUntrust` are the branches of `applyDelta`, each ending in
  `Resync`. `ComputeAdmission` is the full recompute, the oracle of the repository's
  own property tests.
* **Store.** `pending`, `members` and `overlay` are the reverse indexes as sets of
  pairs. An epoch is a counter in the code and only its equality with the memo's is
  ever used, so a bump is modelled as forgetting the memo entry (`Forget`). `IsInvalid`
  keeps the rules that look at other events; an event's own faults are its `self`
  field: "bad" is invalid, "foreign" is not of the fabric, "ok" passes.
* **Patches.** A content is the array of its lines, the last "" if a newline ends it.
  A line is a value with a size, its backticks and whether its deletion reads as a
  header. What a diff library returns is any shortest script (`Alignments`), and for the
  mirror beyond its cell cap the script that keeps only the common ends. `Hunks` cuts a
  script into hunks; `ApplyHunk` is one turn of the loop of `applyPatchPayload`;
  `ScriptStep` is one turn of the loop that writes a script. The parser of core is
  modelled by what makes it refuse.
* **Socket.** `call.at` is where `publish()` waits: "opening", "auth", "ack", "reauth",
  "ack2". A callback and the continuation of the promise it resolves are one step: no
  other callback runs before the microtasks of the first are done. `AuthWaiters`,
  `FlushPending` and the two timers are the ways a waiter is settled. The refinement maps
  a call under way to `pending` and what is written and not yet stored, on this or an
  earlier connection, to `wire`.
* **Search limiter.** `Request` ends where a handler has read the clock and waits for
  the lock; `Take` is what it does under it. A clock is kept as its age in ticks.
* **RelayStore.** `writer[c].at` walks through `SaveEvent` and `StoreEvent`: "index"
  (base written), "returned", "read" (drift read), then idle. `mode` is the one process
  that has the stores open.
* **Publisher.** `lane[l].at` is where a lane awaits: "sent" (a verdict), "backoff"
  (the sleep), "abandoned" (between retry queue and `publish_log`). `Take` is the
  stretch from `nextIndex()` to the first await, with the skips in it. `Silent` stands
  for every way the socket answers for the relay, which `AuthSocket` shows it does;
  `late` holds what the relay may still store. Builds and runs are commands that do not
  overlap.
* **Engine.** `Added`, `Unchanged`, `Patched`, `ReRooted`, `Retired` are C1 to C5 as
  conditions on a ledger row and what is wanted; `Bound`, `Replaced`, `Retracted` are R1,
  R3 with R5, and R4. From them come the rows (`RootRow`, `RelationRow`) and the events
  of a batch. `stage` is how far `build:seccerts` has got: seeded, signed, roots
  upserted, relations upserted; a process end may come between any two. A text is a
  version with the notice of the root it supersedes, or none: that notice is the one
  part of a text the diff treats apart (`stripSupersedesNotice`). The publisher's own
  interleavings are in `Publisher`; here `Publish` is its outcome.
* **The pipeline.** `Loading`, `Planning` and `Emission` are the pure functions of a
  build, one operator per function of the code or per part of a long one. A text of the
  export is a number, so that sorting is that of numbers, and what the code reads off a
  spelling (a digest, a family, a tidied token) is a constant function. A content is the
  list of its lines, each with the facts it shows: what rule 2a, the soft cap, the diffs
  and the notice of a superseding root look at. `Decide` is C1 to C4 for one root with the
  events it signs, `BondsMade` R1, R3 and R5, `Gone` R4, `Assembled` the order of the
  batch. `Mirroring!Build` is `emitSeccertsBundle` from the export to the batch, `Publish`
  sends one event through `WriteGate`, `Watch` and `Receive` are a reader that asks what
  `query.ts` has it ask and gets the answers in any order, `Answer` is another author.

Two models of one sync are kept apart on purpose: `Engine` has the process ends, the
gate of the ledger and undelivered events with small texts, `Mirroring` has whole
plans with an undisturbed build. Together they would be too large to check.

## 3. Runs

| Run | Question | Instance |
|---|---|---|
| `admission` | is incremental admission the full recompute, and exactly undone? | lists with roots ahead of the bindings that name them |
| `store` | is a memoized answer fresh, does a deletion hold, who moves a chain, what does the default view show? | one chain with all that may hang on it |
| `store_verdict` | is each rejection made once it can be, never before, in every order and batch? | deltas of one or two |
| `event_storage` | do indexes and cache ever change an answer? | four ids in seven copies |
| `relay_store` | acks, drift, reindex, healing by retry | two connections, two faults |
| `scan_all` | is the walk complete and finite? | times from 1 |
| `publisher` | ledger and relay, lost and repeated events, runs that end | two lanes, two batches |
| `engine` | is a sync idempotent, do patches apply, does the relay hold what the ledger says? | three builds, a crash or refusal; exceptions below |
| `socket` | does `auth.ts` keep the promise of `publish()`, and retry when it says it does? | two calls, two connections |
| `search_limiter` | is the budget kept, and is anybody locked out? | three clients, a table of two |
| `patch` | does a published patch do what its author meant, and is widening exact? | all short contents, all shortest diffs |
| `mirroring` | from export to reader: whole plans, budgets, the order of a batch, valid events, everything found, final verdicts | two weekly exports, one other author |

All of them hold. Bounds and why they are enough:

* `admission`: eight events with every kind of dependency (binding on a patch, deletion
  of a binding and of a patch, foreign patch), three authors, deltas of up to two
  entries: enough for one entry of a delta to disturb the next.
* `store`: eight events on one root (chain, halting sibling, overlay, deletion, binding,
  a patch that waits for a binding), arriving one by one; two authors; the patch, the
  overlay and the binding may leave again. Contents are three versions.
  `store_verdict`: seven events, batches of two, which cover the waiter and the awaited
  in one delta, in both orders; each may leave again.
* `event_storage`: four ids, seven copies, so that every index loses and gains keys; the
  filters combine every field with present, absent and several values.
* `relay_store`: two connections (the smallest race), three events of both kinds,
  `Budget` 2 failures or process ends, `MaxRuns` 2 offline commands.
* `scan_all`: pages of two growing to four, up to eight events over four seconds: every
  alignment of a page with a second, one growth and the refusal.
* `publisher`: two lanes, two batches, one retry, `Budget` 2 watchdogs or process ends;
  timeouts, rejections and rate limits are not bounded. The command line stops when
  nothing is left to build and nothing to publish, so deadlock is not checked there.
* `engine`: three builds, the fewest for a root to be signed, superseded or patched, and
  compared again; a record with two roots, an advisory and a card with their three
  relations; six states of the source (import, new text, new tags, new assertion, a
  withdrawn report, the record gone); two releases. `MaxMissed` 1 event per run is left
  undelivered, of any kind, and the gate then decides. `Budget` 1 covers a process end, a
  refusal, `--force-reset` or a build without `--relay` (which has no gate). A run stops
  after `MaxBuilds`, so deadlock is not checked.
* `socket`: two calls, of one event or two, over two connections, the fewest for an
  answer to come to the wrong call; two challenges each, the fewest for an OK of a
  replaced AUTH event. Losses, timers, silence and late storing are not bounded. The
  lane may stop calling, so deadlock is not checked.
* `search_limiter`: three clients and a table of two, so that one is always crowded
  out; two requests at once, one tick between clock and lock, a burst of one.
* `patch`: every pair of contents of up to two lines out of four kinds, of up to three
  out of two (repeats are what makes matches ambiguous), and a pair with two hunks whose
  first makes the second ambiguous; `MaxWork` and `MaxHunks` small enough to be met.
* `mirroring`: the fewest records for every corpus, alias, reference and relation to
  occur, under two exports: the second changes one thing in each of eight ways. Budgets
  are scaled down with the records (19 tags for 60, 30 facts for the content cap) so that
  every drop loop runs. A reader starts from one certificate root and one advisory, the
  roots with the most kinds of neighbours. The reader stops when it has everything, so
  deadlock is not checked.

What the properties leave out, and why:

* `PatchesApply` speaks of patches whose parent was neither refused nor given up by the
  operator, who may override the gate; `LedgerIsRelay` of states where no batch was cut
  short between its ledger rows and its file, or overwritten undelivered (`clean`), since
  the ledger has then moved without the relay (section 5); both it and `RebuildIsNoOp`
  leave out the relations of leg 1, whose rows each build writes anew, and bindings at
  roots whose record went away.
* `BudgetHolds` ends at the first sweep: a sweep by a late clock forgets a bucket that a
  later take will be given anew, and the refill of one stale reading is then granted again.
* `RetriedInOrder` is about a relay that answers a connection in order (section 5).
* `WideningIsExact` starts from one line of context, the least any caller asks for.
* `PlanIsWhole` is about exports without a repeated digest; with one, the build ends.
* `ReplacedBeforeDeleted` leaves out what the relay has refused: the deletion of a
  superseded root is sent whether its successor was taken or not (section 5).
* `GatedIsValid` is about readers that have asked for everything that is named to them;
  others see a pending verdict, which `VerdictsOnlySettle` says is settled once.

Fairness:

* `RelayStore!FairSpec`: a handler that has started goes on (goroutines are scheduled),
  the relay is started again, and a publisher that has no OK for an event sends it
  again when the relay is up again and again (strong fairness of `Retry`, as an
  operator re-runs `publish` until its exit code is 0).
* `ScanAll`: the loop goes on.
* `Publisher!FairSpec`: a lane goes on and a finished run returns. Nothing is asked of
  the relay: the timers of `auth.ts` and the watchdog end every attempt, which is what
  `RunEnds` rests on.
* `AuthSocket!FairSpec`: timers fire, a lost connection gives its close event and a
  resolved promise resumes its caller: the event loop runs. Nothing is asked of the
  network or the relay. From it follows the fairness of `Publication`, that a call is
  answered.
* `SearchLimiter!LimiterFairSpec`: the clock goes on, a handler that waits gets the lock
  (`sync.Mutex` starves nobody), and a client that is refused comes back.

## 4. Proofs

All for any universe of events, authors and batches, any number of lanes, connections and
clients that satisfies the named assumptions of the modules: events name events or
`NoEvent`, a patch has a root and a reply target, a deletion has no fabric type, a batch is
finite (`DeltasAssumption`), there are finitely many lanes and at least one
(`PublisherAssumption`), a trusted proxy passes on one address for a client
(`ProxiesAssumption`), and so on. TLC evaluates each of them. Three theorems have a
hypothesis of their own, named below: `IncrementalIsRecompute` (with it `UndoIsExact`),
`DeletedStayOut` and `MemoIsFresh`.

* **Admission** (`AdmissionProofs`). The inductive invariant `Settled`: the state is
  typed, the live table is exactly the creditable bindings among the observed, and the
  reasons of every event are the oracle's. The two halves need each other: a delta
  recomputes the chain reasons from admitted roots, and whether a root is admitted
  rests on the live bindings. `ResyncSettles` shows that `Resync` brings any tracked
  state (`Tracked`: right direct reasons, live table consistent with the binding
  reasons) to a settled one; each delta then only has to leave the state tracked.
  For unobserve this needs `RootsFirst`: in no list is a binding ahead of a root that
  it names. Without it the result is false (section 5). With it: `IncrementalIsRecompute`
  and `UndoIsExact` (a settled state is determined by what is observed and trusted).
  Without it a weaker invariant still holds, `Sound`: each direct or binding reason has its
  cause among the live bindings and the trusted authors (`CausesTracked`), and a root-chain
  reason, be it stale, is of a patch or a deletion by the author of the root
  (`ChainsOwned`). That is enough for `TypeCorrect` and `ForeignPatchesNeedTrust`.
* **Store** (`StoreProofs`). `StoreInv` says that for every observed event not yet
  rejected, the absent events it is registered under (`WaitedFor`) meet every possible
  cause of a rejection (`Answered`). Completeness alone is not inductive: it says
  nothing of what happens when an awaited event comes after another one has left.
  Theorems: `VerdictsInvariant`, `NoRejectionMissed`, `RejectionsArePermanent`,
  `RejectionsAreScheduled`. `StoreImplementsAdmission`: each step of the store is a delta of
  `Admission` or leaves its state alone, so `Sound` holds of the store's admission state.
  From that and `MemoOverlays` (what stands in the memo shows observed foreign patches of
  its root, since the departure of a patch moves the epoch of its root) follows
  `ViewIsByTrust`, also for answers memoized before the trust changed. `DeletedStayOut`
  unfolds the three recursive functions of a resolution (`FiniteRecursion` shows that what
  they define exists, `SetInduction` what it keeps): the walk takes links only, a deleted
  link is removed, no more patches apply than were walked. Its hypothesis
  `DeletionsAreUntagged` is that of NIP-09 and of `query.ts:103`; a deletion with the fabric
  tag is rejected and never reaches the resolution (section 5). `LateEventsKeepHistory`
  compares the walks over two sets of events: what survives next to the chain stays eligible
  and unremoved when more arrives (`LinksStay`), so both walks agree as far as both go
  (`WalksAgree`), the shorter ends at a fork or where the chain ended (`WalkGoesToTheEnd`),
  and a longer chain applies no less (`LongerChainAppliesNoLess`). `MemoIsFresh`: what
  resolve reads of a set of events is what `Alike` compares, the patches of the root, the
  deletions of each and whether its reply target is there; two sets that are alike resolve
  alike, and every delta that makes them differ moves the epoch of the root. Its hypothesis
  `LineagesStay` says that no reply lineage leaves its root for another; the builders of
  the repository make no other patches, but no rule forbids them, and with one the answer
  can be stale (section 5). `LoopIsOrderless` is about `StoreLoop`: whatever the order of
  the batch and of the waiters, the loop over an observe delta ends in what `Observed`
  says of the batch as a set. Registrations and epochs of two sets of events are those of
  each together (`RegistrationsAddUp`, `EpochsAddUp`), so after each turn the loop has what
  a set gives, that of the events gone through (`Through`).
* **Event storage** (also `StoreProofs`). `StorageInv`: types, each index is exactly
  what the stored copies give (`IndexesExact`), the cache is fresh when present.
  Theorems: `CacheNeverStale`, `QueriesAreExact`.
* **Patches** (`PatchProofs`). `ExchangeInv`: a patch under way takes the consumer to what
  the producer wants, or stops at the consumer's ceilings. `PublishedPatchesApply` alone
  says nothing until the patch has arrived. Core checks a patch with the applier the
  consumer has, so what is left is the fence, longer than any run it encloses
  (`FenceHolds`). The mirror checks with a parser and an applier of its own;
  `AppliersAgree` says that the two take every hunk of its making alike: its hunks carry no
  end-of-file marker, and since `CONTEXT_LINES` is at least 1, the only hunk that can have
  nothing to match is the first (`BlindHunkIsFirst`), where the line it names is still
  right. That the mirror gives up on headers only rests on its scripts: of any alignment,
  the longest one or the common ends, a script shows both contents whole
  (`ScriptIsFaithful`), so the hunk that takes in everything matches at 0 and nowhere else
  (`WholeFileApplies`). The assumption is `ContentAssumption`: a content has at least one
  line, backticks are counted, and the mirror's context is not 0. Theorems:
  `ExchangeInvariant`, `PatchesAreFollowed`, `GivingUpIsJustified`.
* **Relay stores** (`RelayStoreProofs`). `RelayInv` adds to the type: a write under way
  is of a stored event (`WritesAreOfStored`), only an import has events no fsync covers
  and none of them is acked (`AckedIsSynced`), and a reindex has given a document to
  exactly what it has replayed (`ReplayedIsIndexed`). `AckedIsStored` alone is not
  inductive: nothing in it keeps an import's unsynced tail apart from what a client was
  told. It rests on `OneProcess`, the exclusive lock of the base store. Theorems:
  `AcksAreKept`, `DriftIsNoticed`, `ReindexIsExact`. The same module has `WalkIsComplete`, of
  `ScanAll`, for `CompleteWhenDone`: what is above the bound of the next page has been seen
  (`SeenAbove`), a page is an interval of the positions behind that (`PageIsInterval`), so
  one that is not full reaches the end and the bound of a full one leaves nothing out. It
  is what lets `StartReindex` set all of the base store as what is to be replayed.
* **Publisher** (`PublisherProofs`). `PublisherInv` follows every event that the shared
  index has passed: it has a row in the log, or a lane that holds it (`TakenAnswered`,
  `HoldsTaken`); each place of the input is in the summary or in a lane (`SummaryCounts`);
  what a run skips has a row that a clean run may end on (`SkipsKnown`); and if the input
  has no event twice, no event is on two lanes and no settled one on any (`OneHolder`).
  `RunAnswersForAll` says nothing until a run returns; these parts say what is true at each
  await before. Theorems: `PublisherTypes`, `OkRowsAreStored`, `WatchdogQueuesFirst`,
  `RunsAnswerForAll`, `CleanRunsSettle`, `SettledIsFinal` (an action property).
* **Socket** (`AuthSocketProofs`). `SocketInv`: a call has written its event as often as
  its place in `publish()` says (`CallFits`), an OK on its way is of a stored event
  (`OksAreStored`), and from a relay that answers in order no answer asks for
  authentication after the one that accepts it, on the wire or off (`AuthComesFirst`).
  From it `RetryComesFirst`, and `SocketImplements`: the socket implements `Publication`.
  Each callback, timer and lost frame is shown to be a step of the promise or a stutter;
  the mapping needs that what is written and not yet stored, on any connection, is
  `wire`, which no frame can leave but by being stored or lost.
* **Search limiter** (also `RelayStoreProofs`). `Conserved`: until a sweep, what a client
  is ahead of its refill, and what its bucket is worth to a request with the oldest clock
  that can still be waiting, together stay within burst and one stale reading. The bound
  on debt alone is not inductive: two requests that read the clock before one got the lock
  each see the refill. `HandlersKnow` ties a waiting request to the bucket of its client,
  whatever the client claims. Theorem: `SearchBudgetHolds`.
* **Engine** (`EngineProofs`), for any records, relations, datasets, builds, releases and
  faults. `EngineInv` has four parts. `Base`: rows hold ids of events about themselves, and
  until a build writes its rows, ids of earlier builds only (`InOrder`), which is what makes
  the ids it signs new. `Chains`: the event at a tip shows the content of the row
  (`TipTells`), the live tips a build is about to patch have landed, been noted or been let
  through without the gate (`GateHeld`), and every patch, in a file or in a build under
  way, follows a tip that no other patch follows (`PatchFollows`). `PatchesApply` alone is
  not inductive: it says nothing of patches not yet published, nor of the tip the next one
  will be made against. `PlanSettled`: rows once written are what their dataset wants, of
  the roots' table from its own transaction on. `Books`: while no batch was cut short, what
  the relay has not got is in the file (`DeliveredWhole`), and the tables, old or new
  according to the stage, match what all signed events leave standing (`LedgerMatched`); a
  delivered relay is then what the ledger says. Assumptions: `EngineAssumption` (a card is
  never planned) and `NoneAssumption` (an absent row is no row). Theorems: `EngineTypes`,
  `BuildsAreIdempotent`, `ChainsApply`, `RelayFollowsLedger`.
* **Readers** (`MirroringProofs`). `VerdictsAreFinal`: a check that has found an error, or
  waits for nothing, says the same of any larger set of observed events (`BindingSettles`,
  `PatchSettles`), since each looks at the ends of an event in turn and waits for the
  first that is not there. Only `Receive` changes what a reader has seen, and adds to it.

Proved of a property that a run checks: every one of the theorems named here but
`RejectionsAreScheduled`, `CacheNeverStale`, `StoreImplementsAdmission`, `PublisherTypes`,
`EngineTypes`, the inductive invariants, and `SocketImplements`, which is the safety half of
`ImplementsPublication`.

Only model-checked:

* liveness (`RetryHeals`, `Terminates`, `RunEnds`, `LoneClientIsServed`, the fairness half of
  `ImplementsPublication`), since TLAPS does not do fairness;
* `WideningIsExact`, which is not true for all constants: a trial of `widenContext` does
  not look at `MaxHunks`, so with a low one it may find a context that the applier refuses;
  the property leaves the ceilings aside, and the run keeps them out of its way;
* the other properties of `Mirroring`: the pipeline computes over lists by folds, and what
  they give for every export is an induction over data.

## 5. Observations

Met while modelling, at the line in question. Each was reproduced in a model or read off
the code; the properties are stated so that they hold beside them, and say so.

Core:

* `admit.ts:571` with `test/admit-property.test.ts:4`: an unobserve list that has a binding
  ahead of a root it names leaves the root-chain reasons of the root's patches behind, and
  the incremental state is not the recomputed one. `AgreesWithOracle` and its proof take
  lists with the roots first.
* `store.ts:222` with `store.ts:16`: where the reply lineage of an overlay runs through a patch
  of another root, that patch moves the answer and not the epoch, so the memo is stale.
* `store.ts:489` with the mirror's `emit/deletion.ts:4`: a deletion that carries a fabric tag and
  no type tag, as the mirror builds them, is invalid, so the memo's feed drops it and what
  it deletes stays in the view.
* `store.ts:834`: `ingest` folds an event into the reducer before the put of the storage port is
  awaited; a port that rejects would be behind. The one of the repository never does.
* `patch-matcher.ts:249`: "exhausted is reachable only through a ceilingWork cut-off": also with
  contents of blank lines, whose pattern matches once more at the final "".
* `store.ts:371`: unobserve removes what the verdict awaits *now*; if an awaited event
  left first, the registration stays. No verdict is wrong, the table only grows.

Mirror:

* `seccertsLedger.ts:244` with `publish/index.ts:317`: the gate takes any `publish_log` row
  for an answer, and a timeout, a closed socket or the watchdog writes one with `ok` 0.
  A build then goes ahead on a tip nobody acked. `emit/seccerts/index.ts:247` says that
  the gate "guarantees the tip this batch advances was acked" and
  `seccertsLedger-gate.test.ts:7` that "an ok=1 ack clears it (an ok=0 row does NOT)",
  while the comment above the query and the tests further down want any row to do.
  `PatchesApply` leaves out patches on such tips.
* `emit/seccerts/index.ts:183`: every build rewrites the rows of the leg-1 crosslinks with
  the leg-1 event, live, with the wanted fingerprint. The header calls this idempotent; but
  once the engine has replaced such a binding (its record re-rooted), the next build
  forgets the replacement, and once it has retracted one, every later build deletes it again.
  A changed assertion (R3) is never seen, since the seed has already written its fingerprint.
* `engine.ts:591`: a record that disappears (C5) and returns is signed as a new root (C1),
  but a relation of it that stayed in the plan, such as a crosslink or a maintenance
  report, compares equal and keeps its binding at the retired root. The header asks of R2
  that the anchors be live; the code only asks that none was re-rooted in this batch.
* `seccertsLedger.ts:238`: the gate knows no deletions. A build may go ahead, and
  overwrite the file, while kind-5 events of the last batch are undelivered; nothing
  makes them again, and the superseded root or binding stays on the relay.
* `publish/index.ts:317`: an input with an event twice can have it on two lanes, and the
  later row wins; `SettledIsLeftAlone` says so in its premise.
* `cli.ts:318`: a build that ends after the ledger and before the files loses the batch;
  the gate then stops the next build until `--force-reset`.
* `auth.ts:182` with `auth.ts:11`: a relay that answers a connection's messages out of order
  may have the AUTH accepted before the auth-required of the first write arrives; the
  answer is then returned without the one retry that the header promises.
* `publish/index.ts:257`: a socket whose connection timed out is not `closed`, so the lane keeps
  it and each later attempt fails at once until the connection itself ends.
* `auth.ts:178`: the challenge of a rejected AUTH is kept, so every later call on the socket
  waits for the whole AUTH timeout before it writes.
* `emit/seccerts/engine.ts:642`: the deletion of a superseded root is sent also when the
  relay has refused the successor; nobody then finds the record.
* `emit/seccerts/engine.ts:641`: the binding of a root that is signed again may stand in
  the file before the other root it names, when that one is signed again as well.
* `emit/seccerts/engine.ts:358`: the facets of a root are not compared. A record whose CVEs
  give or take it `roca` gets a patch of its text, and its root keeps the old `t` tags.
* `gate/selfConsume.ts`: a patch that quotes a line of the record card as context shows a
  card without its facts, and the gate reports them lost. Only the first batch (of no
  patches) is sure to pass.
* `gate/verify.ts:38`: the comment leaves patches out of the gate; the set below it has them.
* `emit/seccerts/roots.ts:525`: the loops that drop cpe and alg tags count on three tags before
  the first alg (eal, scheme, vendor), of which a record may lack some: then cpe tags that
  the first should drop are left to the second, and its floor of 5 keeps other tags than
  the comment says. The estimate also leaves out the `t` tags of facets and the `e` tag of
  a successor; `TagBudgetHolds` says what holds all the same.
* `emit/seccerts/roots.ts:975`: the strongest clip of a FIPS record shows 32 CAVP references
  and its tags may hold about 50; a record that needs it (a text beyond 55 kB) and has
  more than 32 would lose facts and end the build. No record of the instance does.
* `emit/seccerts/roots.ts:555`: "membership bindings published" is written of every profile a
  record resolves to, also of one without a profile record, which gets no binding.
* `loaders/seccerts-crosslinks.ts`: a pair of a card and a certificate that is listed twice
  is not deduplicated and ends the build as a duplicate relation.
* `loaders/seccerts-cc.ts:322`: the CPE matches keep the order of the export, which takes
  them from an unordered set; another order is another text and other tags.
* `loaders/seccerts-types.ts:9`: "The engine emits iff it changes" is said of `sourceHash`; the
  engine compares texts and tags, and the hash is bookkeeping.

Relay:

* `store.go:132`, `metrics.go:24`: a retry heals the index and the gauge stays up.
* `relay.go:308`: the gauge is set from a value read earlier; a slower connection can
  put back an older count.
* `store.go:293`: `until` 0 is "no bound", so a full page that ends at created_at 0 (an
  import can store one) starts the walk again, for ever. `MCScanAll` leaves 0 out.
* `store.go:286`: a second with exactly the largest page of events is refused.
* `store.go:188`: a reindex that is stopped leaves a partial index and no marker.
* `relay.go:352`: the comment has every private peer set `X-Forwarded-For`; `config.go:275` trusts
  only loopback when no range is configured, and `RelayGate` follows the code.
* An import's tail is assumed to reach the disk once the command has ended in an
  orderly way, since the operating system then writes it back.

## 6. Not modelled

* `createStore`'s ingest: signatures, and a storage port that belongs to the caller.
* The jcalgtest leg: `loaders/jcalgtest.ts`, `groundTruth.ts`, `emit/index.ts` and its helpers
  read csv files and sign one batch, without state; the sync starts from what it published.
* `probe.ts`, the `selftest.ts` files: test harnesses over the other parts.
* The table of rule texts (`rules.ts`), wording and layout of contents, flags and reports of
  the command line, landing page, deployment files, examples, tools.
* Hashing, signatures, the network, khatru and the diff library are external: an event is
  its own id, and a diff is any shortest script.

## 7. Plan

Done: `Fabric`, `Admission`, `Resolve`, `Store`, `StoreLoop`, `EventStorage`, `RelayStore`,
`ScanAll`, `Publisher`, `Engine`; `Patch` with its two producers; `AuthSocket` with `Publication`;
`RelayGate`, `SearchLimiter`; the pipeline from `Loading` to `Mirroring` with `Validity` and
`Discovery`. Proved: what section 4 lists, for the components that keep state from one step
to the next.

What is left, and was not done since it is worth less than what is there: `WideningIsExact`
for scripts that stay below `MaxHunks` at every context.
