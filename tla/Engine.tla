-------------------------------- MODULE Engine --------------------------------
(***************************************************************************)
(* The sec-certs sync of the mirror: runEngine (packages/mirror/src/emit/  *)
(* seccerts/engine.ts) diffs the wanted roots and relations of a dataset   *)
(* against the ledger (ledger/seccertsLedger.ts) and signs the difference; *)
(* emitSeccertsBundle (emit/seccerts/index.ts) gates the build, seeds the  *)
(* ledger from leg 1 and applies the rows; the publisher delivers.         *)
(*                                                                         *)
(* An event id is <<build, kind, what it is about>>: one build signs at    *)
(* most one event of a kind about a root or relation.  The publisher is    *)
(* abstracted to runs over the latest artifacts file that may each leave   *)
(* some of its events, of any place in the file, undelivered.              *)
(***************************************************************************)
EXTENDS Naturals, FiniteSets

CONSTANTS
  Record,      \* the roots that stand for a record of the source: retired with it
  Kept,        \* the other planned roots: corpus covers, advisories, snapshots
  Card,        \* the card products of leg 1, seeded and never planned
  Relation,
  Seeded,      \* the relations whose bindings leg 1 has published
  Ends,        \* the roots a relation's binding is anchored at: root and link
  Dataset,     \* what planBundle may make of the source
  Gone,        \* not wanted
  None,
  MaxBuilds, MaxRelease,
  MaxMissed,   \* bound on what one run of the publisher leaves undelivered
  Budget       \* bound on process ends, refusals and force-resets, together

Key == Record \cup Kept \cup Card

\* What planBundle ensures: a card is never planned.
ASSUME EngineAssumption ==
  /\ Seeded \subseteq Relation /\ Ends \in [Relation -> [root : Key, link : Key]]
  /\ Card \cap (Record \cup Kept) = {}
  /\ \A d \in Dataset : /\ DOMAIN d.roots = Key /\ DOMAIN d.prints = Relation
                        /\ \A k \in Card : d.roots[k] = Gone
  /\ MaxBuilds \in Nat /\ MaxRelease \in Nat \ {0}
  /\ MaxMissed \in Nat /\ Budget \in Nat

Id(kinds, of) == (0..MaxBuilds) \X kinds \X of

\* What a dataset may want of a root.
Wanted == (UNION {{d.roots[k] : k \in Key} : d \in Dataset}) \ {Gone}

\* The rows of the two tables: a row holds ids of events about itself, and as the event
\* that bindings are anchored at a root, never a patch.
LedgerRoot(k) ==
  [event : Id({"root"}, {k}), tip : Id({"root", "patch"}, {k}),
   tags : {None} \cup {want.tags : want \in Wanted},
   content : [body : {None} \cup {want.body : want \in Wanted},
              notice : {None} \cup Id({"root"}, {k})],
   gen : 1..MaxRelease, live : BOOLEAN]

LedgerRelation(r) ==
  [event : Id({"binding"}, {r}), print : {d.prints[r] : d \in Dataset}, live : BOOLEAN]

\* None is no row.
ASSUME NoneAssumption ==
  /\ \A k \in Key : None \notin LedgerRoot(k)
  /\ \A r \in Relation : None \notin LedgerRelation(r)

VARIABLES
  roots, relations,  \* the two tables of the ledger
  file,      \* the events in artifacts/seccerts.ndjson
  stage,     \* how far a build has got
  outcome,   \* what its engine has returned
  builds,    \* the builds started
  release,   \* SECCERTS_GEN_VERSION of the code that runs
  relay,     \* the ids the relay has stored
  noted,     \* the ids with a publish_log row that is not an ok: refused or abandoned
  signed,    \* history: every event ever written to an artifacts file
  left,      \* history: the root events whose record went away
  planned,   \* history: the dataset of the last build to end, until another starts
  clean,     \* history: no batch lost or overwritten so far
  ungated,   \* history: the chain points that a build without --relay went past
  spent

ledgerVars == <<roots, relations>>
vars == <<roots, relations, file, stage, outcome, builds, release, relay, noted, signed,
          left, planned, clean, ungated, spent>>

Spend == spent < Budget /\ spent' = spent + 1

Ids(events) == {e.id : e \in events}

Live(row) == row # None /\ row.live

-----------------------------------------------------------------------------
(* runEngine: the roots *)

\* A fault: the wanted content is compared and patched without the notice.
BareEffective(row, want) == [body |-> want.body, notice |-> None]

\* The wanted content of a root that has been re-rooted carries the stored notice.
Effective(row, want) == [body |-> want.body, notice |-> row.content.notice]

Added(row, want) == want # Gone /\ ~Live(row)                                  \* C1

Unchanged(row, want) ==                                                        \* C2
  /\ want # Gone /\ Live(row)
  /\ row.tags = want.tags /\ row.content = Effective(row, want)

Patched(row, want) ==                                                          \* C3
  /\ want # Gone /\ Live(row) /\ ~Unchanged(row, want)
  /\ row.tags = want.tags /\ row.gen = release

ReRooted(row, want) ==                                                         \* C4
  want # Gone /\ Live(row) /\ ~Unchanged(row, want) /\ ~Patched(row, want)

Retired(k, row, want) == k \in Record /\ want = Gone /\ Live(row)              \* C5

RootId(k) == <<builds, "root", k>>
PatchId(k) == <<builds, "patch", k>>

RootContent(row, want) ==
  [body |-> want.body, notice |-> IF ReRooted(row, want) THEN row.event ELSE None]

RootRow(k, row, want) ==
  CASE Added(row, want) \/ ReRooted(row, want) ->
         [event |-> RootId(k), tip |-> RootId(k), tags |-> want.tags,
          content |-> RootContent(row, want), gen |-> release, live |-> TRUE]
    [] Patched(row, want) -> [row EXCEPT !.tip = PatchId(k), !.content = Effective(row, want)]
    [] Retired(k, row, want) -> [row EXCEPT !.live = FALSE]
    [] OTHER -> row

RootRows(rows, d) == [k \in Key |-> RootRow(k, rows[k], d.roots[k])]

RootEvents(rows, d) ==
  {[id |-> RootId(k), kind |-> "root", of |-> k, content |-> RootContent(rows[k], d.roots[k])] :
     k \in {j \in Key : Added(rows[j], d.roots[j]) \/ ReRooted(rows[j], d.roots[j])}}

PatchEvents(rows, d) ==
  {[id |-> PatchId(k), kind |-> "patch", of |-> k, parent |-> rows[k].tip,
    from |-> rows[k].content, content |-> Effective(rows[k], d.roots[k])] :
     k \in {j \in Key : Patched(rows[j], d.roots[j])}}

\* The kind-5 of a root that is superseded.
SupersededEvents(rows, d) ==
  {[id |-> <<builds, "deletion", k>>, kind |-> "deletion", of |-> k, target |-> rows[k].event] :
     k \in {j \in Key : ReRooted(rows[j], d.roots[j])}}

-----------------------------------------------------------------------------
(* runEngine: the relations *)

\* Both endpoints have a root, in this batch or in the ledger.
Anchored(rows, d, r) ==
  Live(RootRows(rows, d)[Ends[r].root]) /\ Live(RootRows(rows, d)[Ends[r].link])

AnchorMoved(rows, d, r) ==
  \E k \in {Ends[r].root, Ends[r].link} : ReRooted(rows[k], d.roots[k])

Asserted(rows, d, r) == d.prints[r] # Gone /\ Anchored(rows, d, r)

Bound(rows, rels, d, r) == Asserted(rows, d, r) /\ ~Live(rels[r])              \* R1

\* A fault: an anchor that moves is not a reason to bind again.
UnmovedReplaced(rows, rels, d, r) ==
  Asserted(rows, d, r) /\ Live(rels[r]) /\ rels[r].print # d.prints[r]

Replaced(rows, rels, d, r) ==                                                  \* R3, R5
  /\ Asserted(rows, d, r) /\ Live(rels[r])
  /\ rels[r].print # d.prints[r] \/ AnchorMoved(rows, d, r)

Retracted(rels, d, r) == d.prints[r] = Gone /\ Live(rels[r])                   \* R4

BindingId(r) == <<builds, "binding", r>>

RelationRow(rows, rels, d, r) ==
  CASE Bound(rows, rels, d, r) \/ Replaced(rows, rels, d, r) ->
         [event |-> BindingId(r), print |-> d.prints[r], live |-> TRUE]
    [] Retracted(rels, d, r) -> [rels[r] EXCEPT !.live = FALSE]
    [] OTHER -> rels[r]

RelationRows(rows, rels, d) == [r \in Relation |-> RelationRow(rows, rels, d, r)]

BindingEvents(rows, rels, d) ==
  {[id |-> BindingId(r), kind |-> "binding", of |-> r,
    root |-> RootRows(rows, d)[Ends[r].root].event,
    link |-> RootRows(rows, d)[Ends[r].link].event] :
     r \in {q \in Relation : Bound(rows, rels, d, q) \/ Replaced(rows, rels, d, q)}}

\* The kind-5 of a binding that is replaced or retracted.
UnboundEvents(rows, rels, d) ==
  {[id |-> <<builds, "deletion", r>>, kind |-> "deletion", of |-> r, target |-> rels[r].event] :
     r \in {q \in Relation : Replaced(rows, rels, d, q) \/ Retracted(rels, d, q)}}

Events(rows, rels, d) ==
  RootEvents(rows, d) \cup PatchEvents(rows, d) \cup SupersededEvents(rows, d)
    \cup BindingEvents(rows, rels, d) \cup UnboundEvents(rows, rels, d)

-----------------------------------------------------------------------------
(* seedLeg1 *)

CardRow(k) ==
  [event |-> <<0, "root", k>>, tip |-> <<0, "root", k>>, tags |-> None,
   content |-> [body |-> None, notice |-> None], gen |-> 1, live |-> TRUE]

SeedRoots(rows) == [k \in Key |-> IF k \in Card THEN CardRow(k) ELSE rows[k]]

\* The row is written anew by every build, whatever became of it, with the wanted
\* fingerprint if the pair is still wanted.
SeedRelations(rels, d) ==
  [r \in Relation |->
    IF r \in Seeded
      THEN [event |-> <<0, "binding", r>>, live |-> TRUE, print |-> d.prints[r]]
      ELSE rels[r]]

Leg1 ==
  {[id |-> <<0, "root", k>>, kind |-> "root", of |-> k, content |-> CardRow(k).content] :
     k \in Card}
  \cup
  {[id |-> <<0, "binding", r>>, kind |-> "binding", of |-> r,
    root |-> <<0, "root", Ends[r].root>>, link |-> None] : r \in Seeded}

-----------------------------------------------------------------------------
(* emitSeccertsBundle *)

\* A fault: the gate looks at roots and relations and forgets the tips.
TiplessChainPoints ==
  {roots[k].event : k \in {j \in Key : Live(roots[j])}}
  \cup {relations[r].event : r \in {q \in Relation : Live(relations[q])}}

ChainPoints ==
  UNION {{roots[k].event, roots[k].tip} : k \in {j \in Key : Live(roots[j])}}
  \cup {relations[r].event : r \in {q \in Relation : Live(relations[q])}}

UnpublishedChainPoints == ChainPoints \ (relay \cup noted)

Init ==
  /\ roots = [k \in Key |-> None] /\ relations = [r \in Relation |-> None]
  /\ file = {} /\ stage = "idle" /\ outcome = None /\ builds = 0 /\ release = 1
  /\ relay = Ids(Leg1) /\ noted = {}
  /\ signed = Leg1 /\ left = {} /\ planned = None /\ clean = TRUE
  /\ ungated = {} /\ spent = 0

\* The gate and the seed.
Build(d) ==
  /\ stage = "idle" /\ builds < MaxBuilds
  /\ \/ UnpublishedChainPoints = {} /\ UNCHANGED <<noted, ungated, spent>>
     \/ /\ UnpublishedChainPoints # {} /\ Spend  \* --force-reset
        /\ noted' = noted \cup UnpublishedChainPoints /\ UNCHANGED ungated
     \/ /\ UnpublishedChainPoints # {} /\ Spend  \* no --relay, no gate
        /\ ungated' = ungated \cup UnpublishedChainPoints /\ UNCHANGED noted
  /\ roots' = SeedRoots(roots) /\ relations' = SeedRelations(relations, d)
  /\ stage' = "engine" /\ builds' = builds + 1
  /\ outcome' = [dataset |-> d, roots |-> roots', relations |-> relations', events |-> {}]
  /\ planned' = None /\ clean' = (clean /\ Ids(file) \subseteq relay)
  /\ UNCHANGED <<file, release, relay, signed, left>>

RunEngine ==
  /\ stage = "engine" /\ stage' = "signed"
  /\ LET d == outcome.dataset IN
       outcome' = [dataset |-> d,
                   roots |-> RootRows(roots, d),
                   relations |-> RelationRows(roots, relations, d),
                   events |-> Events(roots, relations, d)]
  /\ UNCHANGED <<ledgerVars, file, builds, release, relay, noted, signed, left, planned,
                 clean, ungated, spent>>

\* The rows are applied in two transactions ...
UpsertRoots ==
  /\ stage = "signed" /\ stage' = "rooted"
  /\ roots' = outcome.roots
  /\ left' = left \cup
       {roots[k].event : k \in {j \in Key : Retired(j, roots[j], outcome.dataset.roots[j])}}
  /\ UNCHANGED <<relations, file, outcome, builds, release, relay, noted, signed, planned,
                 clean, ungated, spent>>

UpsertRelations ==
  /\ stage = "rooted" /\ stage' = "applied"
  /\ relations' = outcome.relations
  /\ planned' = outcome.dataset
  /\ UNCHANGED <<roots, file, outcome, builds, release, relay, noted, signed, left, clean,
                 ungated, spent>>

\* ... and the file is overwritten once the ledger is closed.
WriteArtifacts ==
  /\ stage = "applied" /\ stage' = "idle"
  /\ file' = outcome.events /\ signed' = signed \cup outcome.events
  /\ outcome' = None
  /\ UNCHANGED <<ledgerVars, builds, release, relay, noted, left, planned, clean, ungated,
                 spent>>

\* The process ends in the middle: what it signed is gone.
Crash ==
  /\ stage # "idle" /\ stage' = "idle"
  /\ Spend
  /\ outcome' = None
  /\ clean' = (clean /\ stage \notin {"rooted", "applied"})
  /\ UNCHANGED <<ledgerVars, file, builds, release, relay, noted, signed, left, planned,
                 ungated>>

\* The next version of the code runs.
Upgrade ==
  /\ stage = "idle" /\ release < MaxRelease
  /\ release' = release + 1
  /\ UNCHANGED <<ledgerVars, file, stage, outcome, builds, relay, noted, signed, left, planned,
                 clean, ungated, spent>>

\* A run of publishBatch sends what the relay has not got; some of it may not arrive.
\* Noted events may be sent again, as refused ones are.
Publish(missed) ==
  /\ stage = "idle" /\ Cardinality(missed) <= MaxMissed
  /\ relay' = relay \cup Ids(file \ missed)
  /\ UNCHANGED <<ledgerVars, file, stage, outcome, builds, release, noted, signed, left,
                 planned, clean, ungated, spent>>

Refuse(e) ==
  /\ stage = "idle" /\ e.id \notin relay \cup noted
  /\ Spend
  /\ noted' = noted \cup {e.id}
  /\ UNCHANGED <<ledgerVars, file, stage, outcome, builds, release, relay, signed, left,
                 planned, clean, ungated>>

Next ==
  \/ \E d \in Dataset : Build(d)
  \/ RunEngine \/ UpsertRoots \/ UpsertRelations \/ WriteArtifacts \/ Crash \/ Upgrade
  \/ \E missed \in SUBSET file : Publish(missed)
  \/ \E e \in file : Refuse(e)

Spec == Init /\ [][Next]_vars

-----------------------------------------------------------------------------
(* Properties *)

TypeOK ==
  /\ DOMAIN roots = Key /\ \A k \in Key : roots[k] \in LedgerRoot(k) \cup {None}
  /\ DOMAIN relations = Relation
  /\ \A r \in Relation : relations[r] \in LedgerRelation(r) \cup {None}
  /\ \A e \in signed : e.id \in Id({e.kind}, {e.of}) /\ e.of \in Key \cup Relation
  /\ file \subseteq signed /\ relay \subseteq Ids(signed)
  /\ stage \in {"idle", "engine", "signed", "rooted", "applied"}
  /\ IF stage = "idle" THEN outcome = None ELSE outcome.dataset \in Dataset
  /\ planned \in Dataset \cup {None} /\ clean \in BOOLEAN
  /\ builds \in 0..MaxBuilds /\ release \in 1..MaxRelease /\ spent \in 0..Budget

\* Building again what was built last signs nothing, published or not, under a new
\* template version or not: sync is idempotent.  Relations of leg 1 are left out:
\* every build seeds their rows anew.
RebuildIsNoOp ==
  planned # None =>
    \A e \in Events(SeedRoots(roots), SeedRelations(relations, planned), planned) : e.of \in Seeded

\* A patch on the relay applies: unless the relay refused its parent, or the operator
\* gave it up or built over it without the gate, the parent is there, it is the only child, and it has the content
\* that the patch was made against (SF-1).
PatchesApply ==
  \A p \in {e \in signed : e.kind = "patch" /\ e.id \in relay /\ e.parent \notin noted \cup ungated} :
    /\ p.parent \in relay
    /\ \A e \in signed : e.id = p.parent => e.of = p.of /\ e.content = p.from
    /\ \A e \in signed : e.kind = "patch" /\ e.parent = p.parent => e = p

Deleted == {e.target : e \in {d \in signed : d.kind = "deletion" /\ d.id \in relay}}

\* What a reader of the relay finds about a root or a relation.
Standing(kind, of) ==
  {e \in signed : e.kind = kind /\ e.of = of /\ e.id \in relay \ Deleted}

Current(row) == IF Live(row) THEN {row.event} ELSE {}

\* While no batch is cut short, the relay holds what the ledger says once a batch is
\* delivered: one root per live row, one binding per live row, anchored at the
\* current roots; but for roots whose record went away, which stay as they are.
LedgerIsRelay ==
  clean /\ stage = "idle" /\ Ids(file) \subseteq relay =>
    /\ \A k \in Key \ Card : Ids(Standing("root", k)) \ left = Current(roots[k])
    /\ \A r \in Relation \ Seeded :
         /\ Ids(Standing("binding", r)) = Current(relations[r])
         /\ \A b \in Standing("binding", r) : {b.root, b.link} \cap left = {} =>
              {b.root} = Current(roots[Ends[r].root]) /\ {b.link} = Current(roots[Ends[r].link])
=============================================================================
