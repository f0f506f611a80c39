----------------------------- MODULE EngineProofs -----------------------------
(***************************************************************************)
(* The sec-certs sync, for any records, relations, datasets and number of  *)
(* builds: building again signs nothing, a patch on the relay applies, and *)
(* a delivered relay holds what the ledger says.                           *)
(***************************************************************************)
EXTENDS Engine, TLAPS

\* What a build under way has signed.
Unsent == IF stage = "idle" THEN {} ELSE outcome.events

\* Every event signed, in a file or not yet.
All == signed \cup Unsent

\* The ids that the gate lets a build go past.
Landed == relay \cup noted \cup ungated

-----------------------------------------------------------------------------
(* Where a build is *)

\* An id that no build after this one has signed, and one that this one has not either.
Made(id) == id[1] \in 0..builds
Old(id) == id[1] \in 0..builds - 1

\* Cards are seeded by the first build and never change; before it there is nothing.
CardsStand ==
  /\ builds = 0 => /\ \A k \in Key : roots[k] = None
                   /\ \A r \in Relation : relations[r] = None
  /\ builds > 0 => \A k \in Card : roots[k] = CardRow(k)

\* What a build has signed and where its tables are, between its steps.
Staged ==
  /\ stage # "idle" => builds > 0
  /\ stage = "engine" => outcome.events = {}
  /\ stage = "signed" =>
       /\ outcome.roots = RootRows(roots, outcome.dataset)
       /\ outcome.relations = RelationRows(roots, relations, outcome.dataset)
       /\ outcome.events = Events(roots, relations, outcome.dataset)
  /\ stage = "rooted" =>
       /\ roots = outcome.roots
       /\ DOMAIN outcome.relations = Relation
       /\ \A r \in Relation :
            /\ outcome.relations[r] \in LedgerRelation(r) \cup {None}
            /\ outcome.relations[r] # None => Made(outcome.relations[r].event)
  /\ stage \in {"engine", "signed", "rooted"} => planned = None

\* The ids in the tables and in the files are of earlier builds until a build writes its own.
InOrder ==
  /\ \A e \in signed : Made(e.id) /\ (stage # "idle" => Old(e.id))
  /\ \A e \in Unsent :
       e.id \in Id({e.kind}, {e.of}) /\ e.of \in Key \cup Relation /\ e.id[1] = builds
  /\ \A k \in Key : roots[k] # None =>
       /\ Made(roots[k].tip) /\ Made(roots[k].event)
       /\ stage \in {"engine", "signed"} => Old(roots[k].tip) /\ Old(roots[k].event)
  /\ \A r \in Relation : relations[r] # None =>
       /\ Made(relations[r].event)
       /\ stage \in {"engine", "signed", "rooted"} => Old(relations[r].event)
  /\ \A id \in left : Made(id) /\ (stage \in {"engine", "signed"} => Old(id))

-----------------------------------------------------------------------------
(* Chains *)

\* The event at the tip of a chain, if it was not lost, shows what the row says.
TipTells ==
  \A k \in Key \ Card : roots[k] # None =>
    \A e \in All : e.id = roots[k].tip => e.of = k /\ e.content = roots[k].content

\* The gate has looked at the tips the engine is about to patch.
GateHeld ==
  stage \in {"engine", "signed"} =>
    \A k \in Key \ Card : Live(roots[k]) => roots[k].tip \in Landed

Patches == {p \in All : p.kind = "patch"}

\* A patch follows one event of its chain, of an earlier build, that had landed; no other
\* patch follows it, and the row of the ledger has moved on.
PatchFollows(p) ==
  /\ p.of \in Key \ Card
  /\ p.parent \in Id({"root", "patch"}, {p.of}) /\ p.parent[1] < p.id[1]
  /\ p.parent \in Landed
  /\ \A e \in All : e.id = p.parent => e.of = p.of /\ e.content = p.from
  /\ \A q \in Patches : q.parent = p.parent => q = p
  /\ p \in signed \/ stage \in {"rooted", "applied"} =>
       roots[p.of] # None /\ p.id[1] <= roots[p.of].tip[1]

-----------------------------------------------------------------------------
(* A build of the same *)

\* The tables are what the dataset wants.
Settled(rows, rels, d) ==
  /\ \A k \in Card : rows[k] = CardRow(k)
  /\ \A k \in Key \ Card : d.roots[k] # Gone => Unchanged(rows[k], d.roots[k])
  /\ \A r \in Relation \ Seeded :
       /\ d.prints[r] = Gone => ~Live(rels[r])
       /\ d.prints[r] # Gone /\ Live(rows[Ends[r].root]) /\ Live(rows[Ends[r].link]) =>
            Live(rels[r]) /\ rels[r].print = d.prints[r]

PlanSettled ==
  /\ planned # None => Settled(roots, relations, planned)
  /\ stage = "rooted" => Settled(roots, outcome.relations, outcome.dataset)

-----------------------------------------------------------------------------
(* The relay *)

\* While no batch is cut short, what is not on the relay is in the file.
DeliveredWhole ==
  clean => /\ Ids(signed) \subseteq relay \cup Ids(file)
           /\ stage # "idle" => Ids(signed) \subseteq relay

DeletedBy(events) == {e.target : e \in {d \in events : d.kind = "deletion"}}

Undeleted(kind, of, events) ==
  Ids({e \in events : e.kind = kind /\ e.of = of}) \ DeletedBy(events)

\* The tables are what the events leave standing, but for the roots that are gone with
\* their record.
Matched(rows, rels, events, gone) ==
  /\ \A k \in Key \ Card : Undeleted("root", k, events) \ gone = Current(rows[k])
  /\ \A r \in Relation \ Seeded : Undeleted("binding", r, events) = Current(rels[r])
  /\ \A r \in Relation \ Seeded : \A b \in events :
       b.kind = "binding" /\ b.of = r /\ b.id \in Current(rels[r])
         /\ {b.root, b.link} \cap gone = {} =>
            /\ {b.root} = Current(rows[Ends[r].root]) /\ {b.link} = Current(rows[Ends[r].link])

\* A deletion names an event of an earlier build.
DeletionsLookBack ==
  \A e \in All : e.kind = "deletion" => e.target[1] \in 0..e.id[1] - 1

LedgerMatched ==
  clean =>
    /\ stage \in {"idle", "engine", "signed"} => Matched(roots, relations, signed, left)
    /\ stage = "rooted" => Matched(roots, outcome.relations, All, left)
    /\ stage = "applied" => Matched(roots, relations, All, left)

\* Types and places, on which the rest is built.
Base == TypeOK /\ CardsStand /\ Staged /\ InOrder

Chains == TipTells /\ GateHeld /\ \A p \in Patches : PatchFollows(p)

Books == DeliveredWhole /\ DeletionsLookBack /\ LedgerMatched

EngineInv == Base /\ Chains /\ PlanSettled /\ Books

-----------------------------------------------------------------------------
(* Ids and rows *)

LEMMA IdParts ==
  ASSUME NEW kinds, NEW of, NEW id \in Id(kinds, of)
  PROVE  id[1] \in 0..MaxBuilds /\ id[2] \in kinds /\ id[3] \in of
BY DEF Id

\* An id that this build signs is of none of the events of earlier builds.
LEMMA NewIds ==
  ASSUME builds \in 0..MaxBuilds
  PROVE  /\ \A k : /\ RootId(k) \in Id({"root"}, {k}) /\ RootId(k)[1] = builds
                   /\ PatchId(k) \in Id({"patch"}, {k}) /\ PatchId(k)[1] = builds
         /\ \A r : BindingId(r) \in Id({"binding"}, {r}) /\ BindingId(r)[1] = builds
BY DEF Id, RootId, PatchId, BindingId

\* C1 to C5, as they move the row of a root.
LEMMA RowMoves ==
  ASSUME builds \in 0..MaxBuilds, release \in 1..MaxRelease,
         NEW k \in Key, NEW row \in LedgerRoot(k) \cup {None}, NEW want \in Wanted \cup {Gone},
         NEW new, new = RootRow(k, row, want)
  PROVE  /\ Added(row, want) \/ ReRooted(row, want) =>
              /\ new \in LedgerRoot(k) /\ Live(new)
              /\ new.event = RootId(k) /\ new.tip = RootId(k)
              /\ new.tags = want.tags /\ new.content = RootContent(row, want)
         /\ Patched(row, want) =>
              /\ new \in LedgerRoot(k) /\ Live(new)
              /\ new.event = row.event /\ new.tip = PatchId(k)
              /\ new.tags = row.tags /\ new.content = Effective(row, want)
         /\ Retired(k, row, want) =>
              /\ new \in LedgerRoot(k) /\ ~Live(new)
              /\ new.event = row.event /\ new.tip = row.tip /\ new.content = row.content
         /\ \/ Added(row, want) \/ ReRooted(row, want) \/ Patched(row, want)
            \/ Retired(k, row, want) \/ new = row
<1>1. ASSUME Added(row, want) \/ ReRooted(row, want)
      PROVE  /\ new \in LedgerRoot(k) /\ Live(new)
             /\ new.event = RootId(k) /\ new.tip = RootId(k)
             /\ new.tags = want.tags /\ new.content = RootContent(row, want)
  <2>1. new = [event |-> RootId(k), tip |-> RootId(k), tags |-> want.tags,
               content |-> RootContent(row, want), gen |-> release, live |-> TRUE]
    <3>1. ~Patched(row, want) /\ ~Retired(k, row, want)
      BY <1>1 DEF Added, ReRooted, Patched, Retired
    <3>2. QED
      BY <1>1, <3>1 DEF RootRow
  <2>2. want \in Wanted
    BY <1>1 DEF Added, ReRooted
  <2>3. RootContent(row, want).notice \in {None} \cup Id({"root"}, {k})
    BY DEF RootContent, ReRooted, Live, LedgerRoot
  <2>4. RootContent(row, want) \in
          [body : {None} \cup {w.body : w \in Wanted}, notice : {None} \cup Id({"root"}, {k})]
    BY <2>2, <2>3 DEF RootContent
  <2>5. RootId(k) \in Id({"root"}, {k}) /\ RootId(k) \in Id({"root", "patch"}, {k})
    BY DEF RootId, Id
  <2>6. new \in LedgerRoot(k)
    BY <2>1, <2>2, <2>4, <2>5 DEF LedgerRoot
  <2>7. new # None
    BY <2>6, NoneAssumption
  <2>8. QED
    BY <2>1, <2>6, <2>7 DEF Live
<1>2. ASSUME Patched(row, want)
      PROVE  /\ new \in LedgerRoot(k) /\ Live(new)
             /\ new.event = row.event /\ new.tip = PatchId(k)
             /\ new.tags = row.tags /\ new.content = Effective(row, want)
  <2>1. new = [row EXCEPT !.tip = PatchId(k), !.content = Effective(row, want)]
    <3>1. ~Added(row, want) /\ ~ReRooted(row, want) /\ ~Retired(k, row, want)
      BY <1>2 DEF Added, ReRooted, Patched, Retired
    <3>2. QED
      BY <1>2, <3>1 DEF RootRow
  <2>2. want \in Wanted /\ row \in LedgerRoot(k) /\ row.live = TRUE
    BY <1>2 DEF Patched, Live, LedgerRoot
  <2>3. Effective(row, want) \in
          [body : {None} \cup {w.body : w \in Wanted}, notice : {None} \cup Id({"root"}, {k})]
    BY <2>2 DEF Effective, LedgerRoot
  <2>4. PatchId(k) \in Id({"root", "patch"}, {k})
    BY DEF PatchId, Id
  <2>5. new \in LedgerRoot(k)
    BY <2>1, <2>2, <2>3, <2>4 DEF LedgerRoot
  <2>6. new # None
    BY <2>5, NoneAssumption
  <2>7. QED
    BY <2>1, <2>2, <2>5, <2>6 DEF Live, LedgerRoot
<1>3. ASSUME Retired(k, row, want)
      PROVE  /\ new \in LedgerRoot(k) /\ ~Live(new)
             /\ new.event = row.event /\ new.tip = row.tip /\ new.content = row.content
  <2>1. new = [row EXCEPT !.live = FALSE] /\ row \in LedgerRoot(k)
    BY <1>3 DEF RootRow, Added, ReRooted, Patched, Retired, Live
  <2>2. QED
    BY <2>1 DEF LedgerRoot, Live
<1>4. ASSUME ~(Added(row, want) \/ ReRooted(row, want)), ~Patched(row, want),
             ~Retired(k, row, want)
      PROVE  new = row
  BY <1>4 DEF RootRow
<1>5. QED
  BY <1>1, <1>2, <1>3, <1>4

\* The rows of roots keep their type, and no live row goes but by C5.
LEMMA RowsMove ==
  ASSUME builds \in 0..MaxBuilds, release \in 1..MaxRelease, NEW rows, NEW d \in Dataset,
         \A k \in Key : rows[k] \in LedgerRoot(k) \cup {None}
  PROVE  /\ DOMAIN RootRows(rows, d) = Key
         /\ \A k \in Key :
              /\ d.roots[k] \in Wanted \cup {Gone}
              /\ RootRows(rows, d)[k] = RootRow(k, rows[k], d.roots[k])
              /\ RootRows(rows, d)[k] \in LedgerRoot(k) \cup {None}
<1>1. ASSUME NEW k \in Key PROVE d.roots[k] \in Wanted \cup {Gone}
  BY DEF Wanted
<1>2. ASSUME NEW k \in Key
      PROVE  RootRow(k, rows[k], d.roots[k]) \in LedgerRoot(k) \cup {None}
  BY <1>1, RowMoves
<1>3. QED
  BY <1>1, <1>2 DEF RootRows

\* A card is no part of a plan.
LEMMA CardsStay ==
  ASSUME NEW rows, NEW d \in Dataset, NEW k \in Card
  PROVE  RootRows(rows, d)[k] = rows[k]
<1>1. k \in Key /\ k \notin Record /\ d.roots[k] = Gone
  BY EngineAssumption DEF Key
<1>2. QED
  BY <1>1 DEF RootRows, RootRow, Added, ReRooted, Patched, Retired

\* R1, R3, R4 and R5, as they move the row of a relation.
LEMMA BondMoves ==
  ASSUME builds \in 0..MaxBuilds, NEW rows, NEW rels, NEW d \in Dataset, NEW r \in Relation,
         rels[r] \in LedgerRelation(r) \cup {None},
         NEW new, new = RelationRow(rows, rels, d, r)
  PROVE  /\ Bound(rows, rels, d, r) \/ Replaced(rows, rels, d, r) =>
              /\ new \in LedgerRelation(r) /\ Live(new)
              /\ new.event = BindingId(r) /\ new.print = d.prints[r]
         /\ Retracted(rels, d, r) =>
              /\ new \in LedgerRelation(r) /\ ~Live(new) /\ new.event = rels[r].event
         /\ \/ Bound(rows, rels, d, r) \/ Replaced(rows, rels, d, r) \/ Retracted(rels, d, r)
            \/ new = rels[r]
<1>1. ASSUME Bound(rows, rels, d, r) \/ Replaced(rows, rels, d, r)
      PROVE  /\ new \in LedgerRelation(r) /\ Live(new)
             /\ new.event = BindingId(r) /\ new.print = d.prints[r]
  <2>1. new = [event |-> BindingId(r), print |-> d.prints[r], live |-> TRUE]
    <3>1. ~Retracted(rels, d, r)
      BY <1>1 DEF Bound, Replaced, Asserted, Retracted
    <3>2. QED
      BY <1>1, <3>1 DEF RelationRow
  <2>2. BindingId(r) \in Id({"binding"}, {r})
    BY DEF BindingId, Id
  <2>3. new \in LedgerRelation(r)
    BY <2>1, <2>2 DEF LedgerRelation
  <2>4. new # None
    BY <2>3, NoneAssumption
  <2>5. QED
    BY <2>1, <2>3, <2>4 DEF Live
<1>2. ASSUME Retracted(rels, d, r)
      PROVE  new \in LedgerRelation(r) /\ ~Live(new) /\ new.event = rels[r].event
  <2>1. new = [rels[r] EXCEPT !.live = FALSE] /\ rels[r] \in LedgerRelation(r)
    BY <1>2 DEF RelationRow, Bound, Replaced, Asserted, Retracted, Live
  <2>2. QED
    BY <2>1 DEF LedgerRelation, Live
<1>3. ASSUME ~(Bound(rows, rels, d, r) \/ Replaced(rows, rels, d, r)), ~Retracted(rels, d, r)
      PROVE  new = rels[r]
  BY <1>3 DEF RelationRow
<1>4. QED
  BY <1>1, <1>2, <1>3

LEMMA BondsMove ==
  ASSUME builds \in 0..MaxBuilds, NEW rows, NEW rels, NEW d \in Dataset,
         \A r \in Relation : rels[r] \in LedgerRelation(r) \cup {None}
  PROVE  /\ DOMAIN RelationRows(rows, rels, d) = Relation
         /\ \A r \in Relation :
              /\ RelationRows(rows, rels, d)[r] = RelationRow(rows, rels, d, r)
              /\ RelationRows(rows, rels, d)[r] \in LedgerRelation(r) \cup {None}
<1>1. ASSUME NEW r \in Relation
      PROVE  RelationRow(rows, rels, d, r) \in LedgerRelation(r) \cup {None}
  BY BondMoves
<1>2. QED
  BY <1>1 DEF RelationRows

-----------------------------------------------------------------------------
(* What a build signs *)

\* What an event of the batch tells, by its kind.
Tells(e, rows, rels, d) ==
  /\ e.kind \in {"root", "patch", "binding", "deletion"}
  /\ e.kind = "root" =>
       /\ e.of \in Key /\ e.id = RootId(e.of)
       /\ Added(rows[e.of], d.roots[e.of]) \/ ReRooted(rows[e.of], d.roots[e.of])
       /\ e.content = RootContent(rows[e.of], d.roots[e.of])
  /\ e.kind = "patch" =>
       /\ e.of \in Key /\ e.id = PatchId(e.of) /\ Patched(rows[e.of], d.roots[e.of])
       /\ e.parent = rows[e.of].tip /\ e.from = rows[e.of].content
       /\ e = [id |-> PatchId(e.of), kind |-> "patch", of |-> e.of, parent |-> rows[e.of].tip,
               from |-> rows[e.of].content,
               content |-> Effective(rows[e.of], d.roots[e.of])]
  /\ e.kind = "binding" =>
       /\ e.of \in Relation /\ e.id = BindingId(e.of)
       /\ Bound(rows, rels, d, e.of) \/ Replaced(rows, rels, d, e.of)
       /\ e.root = RootRows(rows, d)[Ends[e.of].root].event
       /\ e.link = RootRows(rows, d)[Ends[e.of].link].event
  /\ e.kind = "deletion" =>
       /\ e.id = <<builds, "deletion", e.of>>
       /\ \/ /\ e.of \in Key /\ ReRooted(rows[e.of], d.roots[e.of])
             /\ e.target = rows[e.of].event
          \/ /\ e.of \in Relation
             /\ Replaced(rows, rels, d, e.of) \/ Retracted(rels, d, e.of)
             /\ e.target = rels[e.of].event

LEMMA EventsTell ==
  ASSUME NEW rows, NEW rels, NEW d, NEW e \in Events(rows, rels, d)
  PROVE  Tells(e, rows, rels, d)
<1>1. CASE e \in RootEvents(rows, d)
  BY <1>1 DEF RootEvents, Tells
<1>2. CASE e \in PatchEvents(rows, d)
  BY <1>2 DEF PatchEvents, Tells
<1>3. CASE e \in SupersededEvents(rows, d)
  BY <1>3 DEF SupersededEvents, Tells
<1>4. CASE e \in BindingEvents(rows, rels, d)
  BY <1>4 DEF BindingEvents, Tells
<1>5. CASE e \in UnboundEvents(rows, rels, d)
  BY <1>5 DEF UnboundEvents, Tells
<1>6. QED
  BY <1>1, <1>2, <1>3, <1>4, <1>5 DEF Events

\* And what a build does to a row, it signs.
LEMMA EventsHave ==
  ASSUME NEW rows, NEW rels, NEW d
  PROVE  /\ \A k \in Key : Added(rows[k], d.roots[k]) \/ ReRooted(rows[k], d.roots[k]) =>
              \E e \in Events(rows, rels, d) : e.kind = "root" /\ e.of = k /\ e.id = RootId(k)
         /\ \A k \in Key : ReRooted(rows[k], d.roots[k]) =>
              rows[k].event \in DeletedBy(Events(rows, rels, d))
         /\ \A r \in Relation : Bound(rows, rels, d, r) \/ Replaced(rows, rels, d, r) =>
              \E e \in Events(rows, rels, d) : e.kind = "binding" /\ e.of = r /\ e.id = BindingId(r)
         /\ \A r \in Relation : Replaced(rows, rels, d, r) \/ Retracted(rels, d, r) =>
              rels[r].event \in DeletedBy(Events(rows, rels, d))
<1>1. ASSUME NEW k \in Key, Added(rows[k], d.roots[k]) \/ ReRooted(rows[k], d.roots[k])
      PROVE  \E e \in Events(rows, rels, d) : e.kind = "root" /\ e.of = k /\ e.id = RootId(k)
  <2> DEFINE new == [id |-> RootId(k), kind |-> "root", of |-> k,
                     content |-> RootContent(rows[k], d.roots[k])]
  <2>1. new \in RootEvents(rows, d)
    BY <1>1 DEF RootEvents
  <2>2. new.kind = "root" /\ new.of = k /\ new.id = RootId(k)
    OBVIOUS
  <2> HIDE DEF new
  <2>3. QED
    BY <2>1, <2>2 DEF Events
<1>2. ASSUME NEW k \in Key, ReRooted(rows[k], d.roots[k])
      PROVE  rows[k].event \in DeletedBy(Events(rows, rels, d))
  <2> DEFINE new == [id |-> <<builds, "deletion", k>>, kind |-> "deletion", of |-> k,
                     target |-> rows[k].event]
  <2>1. new \in SupersededEvents(rows, d)
    BY <1>2 DEF SupersededEvents
  <2>2. new.kind = "deletion" /\ new.target = rows[k].event
    OBVIOUS
  <2> HIDE DEF new
  <2>3. QED
    BY <2>1, <2>2 DEF Events, DeletedBy
<1>3. ASSUME NEW r \in Relation, Bound(rows, rels, d, r) \/ Replaced(rows, rels, d, r)
      PROVE  \E e \in Events(rows, rels, d) : e.kind = "binding" /\ e.of = r /\ e.id = BindingId(r)
  <2> DEFINE new == [id |-> BindingId(r), kind |-> "binding", of |-> r,
                     root |-> RootRows(rows, d)[Ends[r].root].event,
                     link |-> RootRows(rows, d)[Ends[r].link].event]
  <2>1. new \in BindingEvents(rows, rels, d)
    BY <1>3 DEF BindingEvents
  <2>2. new.kind = "binding" /\ new.of = r /\ new.id = BindingId(r)
    OBVIOUS
  <2> HIDE DEF new
  <2>3. QED
    BY <2>1, <2>2 DEF Events
<1>4. ASSUME NEW r \in Relation, Replaced(rows, rels, d, r) \/ Retracted(rels, d, r)
      PROVE  rels[r].event \in DeletedBy(Events(rows, rels, d))
  <2> DEFINE new == [id |-> <<builds, "deletion", r>>, kind |-> "deletion", of |-> r,
                     target |-> rels[r].event]
  <2>1. new \in UnboundEvents(rows, rels, d)
    BY <1>4 DEF UnboundEvents
  <2>2. new.kind = "deletion" /\ new.target = rels[r].event
    OBVIOUS
  <2> HIDE DEF new
  <2>3. QED
    BY <2>1, <2>2 DEF Events, DeletedBy
<1>5. QED
  BY <1>1, <1>2, <1>3, <1>4

-----------------------------------------------------------------------------
(* Types and places *)

\* The batch of a build: its ids are of this build and of their own kind.
LEMMA BatchIds ==
  ASSUME builds \in 0..MaxBuilds, NEW rows, NEW rels, NEW d, NEW e \in Events(rows, rels, d)
  PROVE  e.id \in Id({e.kind}, {e.of}) /\ e.of \in Key \cup Relation /\ e.id[1] = builds
<1>1. Tells(e, rows, rels, d)
  BY EventsTell
<1>2. CASE e.kind \in {"root", "patch", "binding"}
  BY <1>1, <1>2, NewIds DEF Tells
<1>3. CASE e.kind = "deletion"
  BY <1>1, <1>3 DEF Tells, Id
<1>4. QED
  BY <1>1, <1>2, <1>3 DEF Tells

LEMMA Ages ==
  ASSUME builds \in Nat, NEW id
  PROVE  /\ Old(id) => Made(id) /\ id[1] # builds /\ id[1] < builds /\ id[1] \in Nat
         /\ id[1] = builds => Made(id)
         /\ Made(id) => id[1] \in Nat /\ id[1] <= builds
         /\ builds' = builds => (Old(id)' <=> Old(id)) /\ (Made(id)' <=> Made(id))
         /\ builds' = builds + 1 => (Made(id) => Old(id)' /\ Made(id)')
         /\ builds' = builds + 1 /\ id[1] = 0 => Old(id)' /\ Made(id)'
BY DEF Old, Made

LEMMA CardRows ==
  ASSUME NEW k \in Card
  PROVE  CardRow(k) \in LedgerRoot(k) /\ CardRow(k) # None /\ CardRow(k).event[1] = 0
           /\ CardRow(k).tip[1] = 0
<1>1. 0 \in 0..MaxBuilds /\ 1 \in 1..MaxRelease /\ k \in Key
  BY EngineAssumption DEF Key
<1>2. <<0, "root", k>> \in Id({"root"}, {k}) /\ <<0, "root", k>> \in Id({"root", "patch"}, {k})
  BY <1>1 DEF Id
<1>3. CardRow(k) \in LedgerRoot(k)
  BY <1>1, <1>2 DEF CardRow, LedgerRoot
<1>4. QED
  BY <1>1, <1>3, NoneAssumption DEF CardRow

LEMMA InitBase == Init => Base
<1> SUFFICES ASSUME Init PROVE Base
  OBVIOUS
<1>1. /\ roots = [k \in Key |-> None] /\ relations = [r \in Relation |-> None]
      /\ file = {} /\ stage = "idle" /\ outcome = None /\ builds = 0 /\ release = 1
      /\ relay = Ids(Leg1) /\ signed = Leg1 /\ left = {} /\ planned = None /\ clean = TRUE
      /\ spent = 0
  BY DEF Init
<1>2. 0 \in 0..MaxBuilds /\ 1 \in 1..MaxRelease /\ 0 \in 0..Budget
  BY EngineAssumption
<1>3. \A e \in Leg1 : e.id \in Id({e.kind}, {e.of}) /\ e.of \in Key \cup Relation /\ e.id[1] = 0
  <2>1. ASSUME NEW k \in Card,
               NEW e, e = [id |-> <<0, "root", k>>, kind |-> "root", of |-> k,
                           content |-> CardRow(k).content]
        PROVE  e.id \in Id({e.kind}, {e.of}) /\ e.of \in Key \cup Relation /\ e.id[1] = 0
    BY <1>2, <2>1 DEF Id, Key
  <2>2. ASSUME NEW r \in Seeded,
               NEW e, e = [id |-> <<0, "binding", r>>, kind |-> "binding", of |-> r,
                           root |-> <<0, "root", Ends[r].root>>, link |-> None]
        PROVE  e.id \in Id({e.kind}, {e.of}) /\ e.of \in Key \cup Relation /\ e.id[1] = 0
    BY <1>2, <2>2, EngineAssumption DEF Id
  <2>3. QED
    BY <2>1, <2>2 DEF Leg1
<1>4. TypeOK
  BY <1>1, <1>2, <1>3 DEF TypeOK
<1>5. CardsStand /\ Staged
  BY <1>1 DEF CardsStand, Staged
<1>6. InOrder
  <2>1. \A e \in signed : Made(e.id)
    <3>1. 0 \in 0..builds
      BY <1>1
    <3>2. QED
      BY <1>1, <1>3, <3>1 DEF Made
  <2>2. Unsent = {}
    BY <1>1 DEF Unsent
  <2>3. QED
    BY <1>1, <2>1, <2>2 DEF InOrder
<1>7. QED
  BY <1>4, <1>5, <1>6 DEF Base

LEMMA BuildBase ==
  ASSUME Base, NEW d \in Dataset, Build(d)
  PROVE  Base'
<1> USE DEF Base
<1>1. /\ stage = "idle" /\ builds < MaxBuilds /\ stage' = "engine" /\ builds' = builds + 1
      /\ roots' = SeedRoots(roots) /\ relations' = SeedRelations(relations, d)
      /\ outcome' = [dataset |-> d, roots |-> roots', relations |-> relations', events |-> {}]
      /\ planned' = None /\ clean' \in BOOLEAN /\ UNCHANGED <<file, release, relay, signed, left>>
      /\ spent' \in 0..Budget
  <2>1. spent' \in 0..Budget
    BY EngineAssumption DEF Build, Spend, TypeOK
  <2>2. clean' \in BOOLEAN
    BY DEF Build, TypeOK
  <2>3. QED
    BY <2>1, <2>2 DEF Build
<1>2. builds \in Nat /\ MaxBuilds \in Nat /\ builds' \in 0..MaxBuilds /\ builds' > 0
  BY <1>1, EngineAssumption DEF TypeOK
<1>3. \A k \in Key : roots'[k] = IF k \in Card THEN CardRow(k) ELSE roots[k]
  BY <1>1 DEF SeedRoots
<1>4. \A r \in Relation :
        relations'[r] = IF r \in Seeded
                          THEN [event |-> <<0, "binding", r>>, live |-> TRUE, print |-> d.prints[r]]
                          ELSE relations[r]
  BY <1>1 DEF SeedRelations
<1>5. ASSUME NEW r \in Seeded
      PROVE  relations'[r] \in LedgerRelation(r) /\ relations'[r].event[1] = 0
  <2>1. r \in Relation /\ <<0, "binding", r>> \in Id({"binding"}, {r})
    BY EngineAssumption DEF Id
  <2>2. /\ relations'[r] = [event |-> <<0, "binding", r>>, live |-> TRUE, print |-> d.prints[r]]
        /\ d.prints[r] \in {x.prints[r] : x \in Dataset}
    BY <1>4, <2>1
  <2>3. QED
    BY <2>1, <2>2 DEF LedgerRelation
<1>6. TypeOK'
  <2>1. DOMAIN roots' = Key /\ DOMAIN relations' = Relation
    BY <1>1 DEF SeedRoots, SeedRelations
  <2>2. \A k \in Key : roots'[k] \in LedgerRoot(k) \cup {None}
    BY <1>3, CardRows DEF TypeOK
  <2>3. \A r \in Relation : relations'[r] \in LedgerRelation(r) \cup {None}
    BY <1>4, <1>5 DEF TypeOK
  <2>4. outcome'.dataset \in Dataset
    BY <1>1
  <2>5. QED
    BY <1>1, <1>2, <2>1, <2>2, <2>3, <2>4 DEF TypeOK
<1>7. CardsStand'
  <2>1. Card \subseteq Key
    BY DEF Key
  <2>2. QED
    BY <1>2, <1>3, <2>1 DEF CardsStand
<1>8. Staged'
  BY <1>1, <1>2 DEF Staged
<1>9. InOrder'
  <2>1. \A id : /\ Made(id) => Old(id)' /\ Made(id)'
                /\ id[1] = 0 => Old(id)' /\ Made(id)'
    BY <1>1, <1>2, Ages
  <2>2. Unsent' = {}
    BY <1>1 DEF Unsent
  <2>3. ASSUME NEW k \in Key, roots'[k] # None
        PROVE  /\ Old(roots[k].tip)' /\ Made(roots[k].tip)'
               /\ Old(roots[k].event)' /\ Made(roots[k].event)'
    <3>1. CASE k \in Card
      BY <1>3, <2>1, <3>1, CardRows
    <3>2. CASE k \notin Card
      <4>1. roots[k] # None /\ Made(roots[k].tip) /\ Made(roots[k].event) /\ roots'[k] = roots[k]
        BY <1>3, <2>3, <3>2 DEF InOrder
      <4>2. QED
        BY <2>1, <4>1
    <3>3. QED
      BY <3>1, <3>2
  <2>4. ASSUME NEW r \in Relation, relations'[r] # None
        PROVE  Old(relations[r].event)' /\ Made(relations[r].event)'
    <3>1. CASE r \in Seeded
      BY <1>5, <2>1, <3>1
    <3>2. CASE r \notin Seeded
      <4>1. relations[r] # None /\ Made(relations[r].event) /\ relations'[r] = relations[r]
        BY <1>4, <2>4, <3>2 DEF InOrder
      <4>2. QED
        BY <2>1, <4>1
    <3>3. QED
      BY <3>1, <3>2
  <2>5. /\ \A e \in signed' : Made(e.id)' /\ Old(e.id)'
        /\ \A id \in left' : Made(id)' /\ Old(id)'
    BY <1>1, <2>1 DEF InOrder
  <2>6. QED
    BY <1>1, <2>2, <2>3, <2>4, <2>5 DEF InOrder
<1>10. QED
  BY <1>6, <1>7, <1>8, <1>9

\* What a build makes of tables depends on its number and release, and nothing else.
LEMMA SameBuild ==
  ASSUME builds' = builds, release' = release, NEW rows, NEW rels, NEW d
  PROVE  /\ RootRows(rows, d)' = RootRows(rows, d)
         /\ RelationRows(rows, rels, d)' = RelationRows(rows, rels, d)
         /\ Events(rows, rels, d)' = Events(rows, rels, d)
<1>1. \A k : RootId(k)' = RootId(k) /\ PatchId(k)' = PatchId(k) /\ BindingId(k)' = BindingId(k)
  BY DEF RootId, PatchId, BindingId
<1>2. \A row, want : Patched(row, want)' <=> Patched(row, want)
  BY DEF Patched
<1>3. \A row, want : ReRooted(row, want)' <=> ReRooted(row, want)
  BY <1>2 DEF ReRooted
<1>4. \A row, want : RootContent(row, want)' = RootContent(row, want)
  BY <1>3 DEF RootContent
<1>5. \A k, row, want : RootRow(k, row, want)' = RootRow(k, row, want)
  BY <1>1, <1>2, <1>3, <1>4, Zenon DEF RootRow
<1>6. RootRows(rows, d)' = RootRows(rows, d)
  BY <1>5 DEF RootRows
<1>7. \A r : Asserted(rows, d, r)' <=> Asserted(rows, d, r)
  BY <1>6 DEF Asserted, Anchored
<1>8. \A r : /\ Bound(rows, rels, d, r)' <=> Bound(rows, rels, d, r)
             /\ Replaced(rows, rels, d, r)' <=> Replaced(rows, rels, d, r)
  BY <1>3, <1>7 DEF Bound, Replaced, AnchorMoved
<1>9. \A r : RelationRow(rows, rels, d, r)' = RelationRow(rows, rels, d, r)
  BY <1>1, <1>8, Zenon DEF RelationRow
<1>10. RelationRows(rows, rels, d)' = RelationRows(rows, rels, d)
  BY <1>9 DEF RelationRows
<1>11. RootEvents(rows, d)' = RootEvents(rows, d)
  BY <1>1, <1>3, <1>4 DEF RootEvents
<1>12. PatchEvents(rows, d)' = PatchEvents(rows, d)
  BY <1>1, <1>2 DEF PatchEvents
<1>13. SupersededEvents(rows, d)' = SupersededEvents(rows, d)
  BY <1>3 DEF SupersededEvents
<1>14. BindingEvents(rows, rels, d)' = BindingEvents(rows, rels, d)
  BY <1>1, <1>6, <1>8 DEF BindingEvents
<1>15. UnboundEvents(rows, rels, d)' = UnboundEvents(rows, rels, d)
  BY <1>8 DEF UnboundEvents
<1>16. QED
  BY <1>6, <1>10, <1>11, <1>12, <1>13, <1>14, <1>15 DEF Events

LEMMA RunEngineBase ==
  ASSUME Base, RunEngine
  PROVE  Base'
<1> USE DEF Base
<1> DEFINE d == outcome.dataset
<1>1. /\ stage = "engine" /\ stage' = "signed"
      /\ outcome'.dataset = d /\ outcome'.roots = RootRows(roots, d)
      /\ outcome'.relations = RelationRows(roots, relations, d)
      /\ outcome'.events = Events(roots, relations, d)
      /\ UNCHANGED <<roots, relations, file, builds, release, relay, noted, signed, left, planned,
                     clean, ungated, spent>>
  BY DEF RunEngine, ledgerVars
<1>2. builds \in 0..MaxBuilds /\ builds \in Nat /\ d \in Dataset
  BY <1>1, EngineAssumption DEF TypeOK
<1> HIDE DEF d
<1>3. TypeOK'
  BY <1>1, <1>2 DEF TypeOK
<1>4. CardsStand'
  BY <1>1 DEF CardsStand
<1>5. Staged'
  <2>1. \A rows, rels, x :
          /\ RootRows(rows, x)' = RootRows(rows, x)
          /\ RelationRows(rows, rels, x)' = RelationRows(rows, rels, x)
          /\ Events(rows, rels, x)' = Events(rows, rels, x)
    BY <1>1, SameBuild
  <2>2. builds > 0
    BY <1>1 DEF Staged
  <2>3. planned' = None
    BY <1>1 DEF Staged
  <2>4. QED
    BY <1>1, <2>1, <2>2, <2>3 DEF Staged
<1>6. InOrder'
  <2>1. \A id : (Old(id)' <=> Old(id)) /\ (Made(id)' <=> Made(id))
    BY <1>1, <1>2, Ages
  <2>2. Unsent' = Events(roots, relations, d)
    BY <1>1 DEF Unsent
  <2>3. \A e \in Unsent' :
          e.id \in Id({e.kind}, {e.of}) /\ e.of \in Key \cup Relation /\ e.id[1] = builds
    BY <1>2, <2>2, BatchIds
  <2>4. QED
    BY <1>1, <2>1, <2>3 DEF InOrder
<1>7. QED
  BY <1>3, <1>4, <1>5, <1>6

\* What UpsertRoots writes, and what it leaves.
LEMMA RootsUpserted ==
  ASSUME Base, UpsertRoots
  PROVE  /\ stage = "signed" /\ stage' = "rooted"
         /\ outcome.dataset \in Dataset /\ builds \in 0..MaxBuilds /\ release \in 1..MaxRelease
         /\ roots' = RootRows(roots, outcome.dataset)
         /\ outcome.relations = RelationRows(roots, relations, outcome.dataset)
         /\ outcome.events = Events(roots, relations, outcome.dataset)
         /\ left' = left \cup
              {roots[k].event : k \in {j \in Key : Retired(j, roots[j], outcome.dataset.roots[j])}}
         /\ UNCHANGED <<relations, file, outcome, builds, release, relay, noted, signed, planned,
                        clean, ungated, spent>>
BY DEF Base, TypeOK, Staged, UpsertRoots

LEMMA UpsertRootsBase ==
  ASSUME Base, UpsertRoots
  PROVE  Base'
<1> USE DEF Base
<1> DEFINE d == outcome.dataset
<1>1. /\ stage = "signed" /\ stage' = "rooted"
      /\ d \in Dataset /\ builds \in 0..MaxBuilds /\ builds \in Nat /\ release \in 1..MaxRelease
      /\ roots' = RootRows(roots, d) /\ outcome.roots = roots'
      /\ outcome.relations = RelationRows(roots, relations, d)
      /\ left' = left \cup
           {roots[k].event : k \in {j \in Key : Retired(j, roots[j], d.roots[j])}}
      /\ UNCHANGED <<relations, file, outcome, builds, release, relay, noted, signed, planned,
                     clean, ungated, spent>>
  BY RootsUpserted, EngineAssumption DEF Staged
<1> HIDE DEF d
<1>2. /\ DOMAIN roots' = Key
      /\ \A k \in Key : /\ d.roots[k] \in Wanted \cup {Gone}
                        /\ roots'[k] = RootRow(k, roots[k], d.roots[k])
                        /\ roots'[k] \in LedgerRoot(k) \cup {None}
  BY <1>1, RowsMove DEF TypeOK
<1>3. \A id : (Old(id)' <=> Old(id)) /\ (Made(id)' <=> Made(id)) /\ (Old(id) => Made(id))
              /\ (id[1] = builds => Made(id))
  BY <1>1, Ages
<1>4. TypeOK'
  BY <1>1, <1>2 DEF TypeOK
<1>5. CardsStand'
  <2>1. builds > 0
    BY <1>1 DEF Staged
  <2>2. \A k \in Card : roots'[k] = CardRow(k)
    BY <1>1, <2>1, CardsStay DEF CardsStand
  <2>3. QED
    BY <1>1, <2>1, <2>2 DEF CardsStand
<1>6. Staged'
  <2>1. /\ DOMAIN outcome.relations = Relation
        /\ \A r \in Relation : /\ outcome.relations[r] = RelationRow(roots, relations, d, r)
                               /\ outcome.relations[r] \in LedgerRelation(r) \cup {None}
    BY <1>1, BondsMove DEF TypeOK
  <2>2. ASSUME NEW r \in Relation, outcome.relations[r] # None
        PROVE  Made(outcome.relations[r].event)
    <3>1. relations[r] # None => Made(relations[r].event)
      BY DEF InOrder
    <3>2. Made(BindingId(r))
      BY <1>1, <1>3, NewIds
    <3>3. Live(relations[r]) => relations[r] # None
      BY DEF Live
    <3>4. \/ outcome.relations[r].event = BindingId(r)
          \/ outcome.relations[r].event = relations[r].event /\ Live(relations[r])
          \/ outcome.relations[r] = relations[r]
      BY <1>1, <2>1, BondMoves DEF TypeOK, Retracted
    <3>5. QED
      BY <2>2, <3>1, <3>2, <3>3, <3>4
  <2>3. \A r \in Relation : outcome.relations[r] # None => Made(outcome.relations[r].event)'
    BY <1>1, <1>3, <2>2
  <2>4. builds > 0 /\ planned = None
    BY <1>1 DEF Staged
  <2>5. QED
    BY <1>1, <2>1, <2>3, <2>4 DEF Staged
<1>7. InOrder'
  <2>1. ASSUME NEW k \in Key, roots'[k] # None
        PROVE  Made(roots'[k].tip) /\ Made(roots'[k].event)
    <3>1. roots[k] # None => Made(roots[k].tip) /\ Made(roots[k].event)
      BY DEF InOrder
    <3>2. Made(RootId(k)) /\ Made(PatchId(k))
      BY <1>1, <1>3, NewIds
    <3>3. \/ roots'[k].tip = RootId(k) /\ roots'[k].event = RootId(k)
          \/ roots'[k].tip = PatchId(k) /\ roots'[k].event = roots[k].event /\ Live(roots[k])
          \/ roots'[k].tip = roots[k].tip /\ roots'[k].event = roots[k].event /\ Live(roots[k])
          \/ roots'[k] = roots[k]
      <4>1. (Patched(roots[k], d.roots[k]) \/ Retired(k, roots[k], d.roots[k])) => Live(roots[k])
        BY DEF Patched, Retired
      <4>2. roots[k] \in LedgerRoot(k) \cup {None}
        BY DEF TypeOK
      <4>3. QED
        BY <1>1, <1>2, <4>1, <4>2, RowMoves
    <3>4. Live(roots[k]) => roots[k] # None
      BY DEF Live
    <3>5. QED
      BY <2>1, <3>1, <3>2, <3>3, <3>4
  <2>2. \A k \in Key : roots'[k] # None => Made(roots[k].tip)' /\ Made(roots[k].event)'
    BY <1>3, <2>1
  <2>3. \A id \in left' : Made(id)
    <3>1. \A k \in Key : Retired(k, roots[k], d.roots[k]) => Made(roots[k].event)
      BY DEF Retired, Live, InOrder
    <3>2. \A id \in left : Made(id)
      BY DEF InOrder
    <3>3. QED
      BY <1>1, <3>1, <3>2
  <2>4. Unsent' = Unsent
    BY <1>1 DEF Unsent
  <2>5. QED
    BY <1>1, <1>3, <2>2, <2>3, <2>4 DEF InOrder
<1>8. QED
  BY <1>4, <1>5, <1>6, <1>7

LEMMA UpsertRelationsBase ==
  ASSUME Base, UpsertRelations
  PROVE  Base'
<1> USE DEF Base
<1>1. /\ stage = "rooted" /\ stage' = "applied" /\ builds \in Nat
      /\ relations' = outcome.relations /\ planned' = outcome.dataset /\ outcome.dataset \in Dataset
      /\ UNCHANGED <<roots, file, outcome, builds, release, relay, noted, signed, left, clean,
                     ungated, spent>>
  BY EngineAssumption DEF UpsertRelations, TypeOK
<1>2. builds > 0 /\ DOMAIN relations' = Relation
      /\ \A r \in Relation : /\ relations'[r] \in LedgerRelation(r) \cup {None}
                             /\ relations'[r] # None => Made(relations'[r].event)
  BY <1>1 DEF Staged
<1>3. \A id : (Old(id)' <=> Old(id)) /\ (Made(id)' <=> Made(id))
  BY <1>1, Ages
<1>4. TypeOK'
  BY <1>1, <1>2 DEF TypeOK
<1>5. CardsStand'
  BY <1>1, <1>2 DEF CardsStand
<1>6. Staged'
  BY <1>1, <1>2 DEF Staged
<1>7. InOrder'
  <2>1. \A r \in Relation : relations'[r] # None => Made(relations[r].event)'
    BY <1>2, <1>3
  <2>2. Unsent' = Unsent
    BY <1>1 DEF Unsent
  <2>3. QED
    BY <1>1, <1>3, <2>1, <2>2 DEF InOrder
<1>8. QED
  BY <1>4, <1>5, <1>6, <1>7

LEMMA WriteArtifactsBase ==
  ASSUME Base, WriteArtifacts
  PROVE  Base'
<1> USE DEF Base
<1>1. /\ stage = "applied" /\ stage' = "idle" /\ builds \in Nat
      /\ file' = outcome.events /\ signed' = signed \cup outcome.events /\ outcome' = None
      /\ UNCHANGED <<roots, relations, builds, release, relay, noted, left, planned, clean,
                     ungated, spent>>
  BY EngineAssumption DEF WriteArtifacts, ledgerVars, TypeOK
<1>2. Unsent = outcome.events /\ Unsent' = {}
  BY <1>1 DEF Unsent
<1>3. \A e \in outcome.events :
        e.id \in Id({e.kind}, {e.of}) /\ e.of \in Key \cup Relation /\ e.id[1] = builds
  BY <1>2 DEF InOrder
<1>4. \A id : (Made(id)' <=> Made(id)) /\ (id[1] = builds => Made(id))
  BY <1>1, Ages
<1>5. TypeOK'
  <2>1. relay' \subseteq Ids(signed')
    BY <1>1 DEF TypeOK, Ids
  <2>2. QED
    BY <1>1, <1>3, <2>1 DEF TypeOK
<1>6. CardsStand' /\ Staged'
  BY <1>1 DEF CardsStand, Staged
<1>7. InOrder'
  <2>1. \A e \in signed' : Made(e.id)
    BY <1>1, <1>3, <1>4 DEF InOrder
  <2>2. QED
    BY <1>1, <1>2, <1>4, <2>1 DEF InOrder
<1>8. QED
  BY <1>5, <1>6, <1>7

\* The steps beside a build: the process ends, the next version runs, the publisher and
\* the relay do something, or nothing happens.
Aside ==
  /\ UNCHANGED <<roots, relations, file, builds, signed, left, planned>>
  /\ relay \subseteq relay' /\ relay' \subseteq relay \cup Ids(file) /\ noted \subseteq noted'
  /\ ungated' = ungated /\ release' \in 1..MaxRelease /\ spent' \in 0..Budget
  /\ \/ stage' = "idle" /\ outcome' = None
     \/ UNCHANGED <<stage, outcome, release>>
  /\ \/ clean' = clean /\ (stage = "idle" \/ stage' = stage)
     \/ clean' = clean /\ stage \notin {"rooted", "applied"}
     \/ clean' = FALSE

LEMMA StepsAside ==
  ASSUME Base,
         \/ Crash \/ Upgrade \/ \E missed \in SUBSET file : Publish(missed)
         \/ \E e \in file : Refuse(e)
         \/ UNCHANGED vars
  PROVE  Aside
<1> USE DEF Base
<1>1. /\ release \in 1..MaxRelease /\ spent \in 0..Budget /\ clean \in BOOLEAN /\ MaxRelease \in Nat
      /\ stage = "idle" => outcome = None
      /\ Spend => spent' \in 0..Budget
  BY EngineAssumption DEF TypeOK, Spend
<1>2. CASE Crash
  BY <1>1, <1>2 DEF Crash, Aside, ledgerVars
<1>3. CASE Upgrade
  <2>1. release' \in 1..MaxRelease
    BY <1>1, <1>3 DEF Upgrade
  <2>2. QED
    BY <1>1, <1>3, <2>1 DEF Upgrade, Aside, ledgerVars
<1>4. ASSUME NEW missed \in SUBSET file, Publish(missed)
      PROVE  Aside
  <2>1. relay' = relay \cup Ids(file \ missed) /\ Ids(file \ missed) \subseteq Ids(file)
    BY <1>4 DEF Publish, Ids
  <2>2. QED
    BY <1>1, <1>4, <2>1 DEF Publish, Aside, ledgerVars
<1>5. ASSUME NEW e \in file, Refuse(e)
      PROVE  Aside
  BY <1>1, <1>5 DEF Refuse, Aside, ledgerVars
<1>6. CASE UNCHANGED vars
  BY <1>1, <1>6 DEF vars, ledgerVars, Aside
<1>7. QED
  BY <1>2, <1>3, <1>4, <1>5, <1>6

LEMMA AsideBase ==
  ASSUME Base, Aside
  PROVE  Base'
<1> USE DEF Base
<1>1. /\ UNCHANGED <<roots, relations, file, builds, signed, left, planned>>
      /\ relay' \subseteq relay \cup Ids(file)
      /\ release' \in 1..MaxRelease /\ spent' \in 0..Budget
      /\ \/ stage' = "idle" /\ outcome' = None
         \/ UNCHANGED <<stage, outcome, release>>
      /\ clean' \in BOOLEAN
  BY DEF Aside, TypeOK
<1>2. \A id : (Old(id)' <=> Old(id)) /\ (Made(id)' <=> Made(id))
  BY <1>1, Ages, EngineAssumption DEF TypeOK
<1>3. TypeOK'
  <2>1. relay' \subseteq Ids(signed)
    BY <1>1 DEF TypeOK, Ids
  <2>2. QED
    BY <1>1, <2>1 DEF TypeOK
<1>4. CardsStand'
  BY <1>1 DEF CardsStand
<1>5. Staged'
  <2>1. CASE stage' = "idle"
    BY <2>1 DEF Staged
  <2>2. CASE UNCHANGED <<stage, outcome, release>>
    <3>1. \A rows, rels, x :
            /\ RootRows(rows, x)' = RootRows(rows, x)
            /\ RelationRows(rows, rels, x)' = RelationRows(rows, rels, x)
            /\ Events(rows, rels, x)' = Events(rows, rels, x)
      BY <1>1, <2>2, SameBuild
    <3>2. QED
      BY <1>1, <1>2, <2>2, <3>1 DEF Staged
  <2>3. QED
    BY <1>1, <2>1, <2>2
<1>6. InOrder'
  <2>1. Unsent' \subseteq Unsent
    BY <1>1 DEF Unsent
  <2>2. stage' = "idle" \/ stage' = stage
    BY <1>1
  <2>3. QED
    BY <1>1, <1>2, <2>1, <2>2 DEF InOrder
<1>7. QED
  BY <1>3, <1>4, <1>5, <1>6

-----------------------------------------------------------------------------
(* Chains *)

\* The ids of a row say what it is about.
LEMMA RowIds ==
  ASSUME Base, NEW k \in Key, roots[k] # None
  PROVE  /\ roots[k].event[2] = "root" /\ roots[k].event[3] = k
         /\ roots[k].tip \in Id({"root", "patch"}, {k}) /\ roots[k].tip[3] = k
         /\ roots[k].event \in Id({"root"}, {k})
<1>1. roots[k].event \in Id({"root"}, {k}) /\ roots[k].tip \in Id({"root", "patch"}, {k})
  BY DEF Base, TypeOK, LedgerRoot
<1>2. QED
  BY <1>1, IdParts

\* The events under way are those of the batch.
LEMMA Batch ==
  ASSUME Base, stage = "signed"
  PROVE  /\ Unsent = Events(roots, relations, outcome.dataset)
         /\ All = signed \cup Events(roots, relations, outcome.dataset)
         /\ \A e \in Unsent : Tells(e, roots, relations, outcome.dataset)
<1>1. Unsent = Events(roots, relations, outcome.dataset)
  BY DEF Base, Staged, Unsent
<1>2. QED
  BY <1>1, EventsTell DEF All

\* Its ids are of this build, those of the files before it are not.
LEMMA OldAndNew ==
  ASSUME Base
  PROVE  /\ builds \in Nat /\ builds \in 0..MaxBuilds
         /\ \A e \in signed : /\ e.id \in Id({e.kind}, {e.of}) /\ e.id[1] \in Nat /\ e.id[1] <= builds
                              /\ e.id[2] = e.kind /\ e.id[3] = e.of
                              /\ stage # "idle" => e.id[1] < builds
         /\ \A e \in Unsent : /\ e.id \in Id({e.kind}, {e.of}) /\ e.id[1] = builds
                              /\ e.id[2] = e.kind /\ e.id[3] = e.of
<1> USE DEF Base
<1>1. builds \in Nat /\ builds \in 0..MaxBuilds
  BY EngineAssumption DEF TypeOK
<1>2. ASSUME NEW e \in signed
      PROVE  /\ e.id \in Id({e.kind}, {e.of}) /\ e.id[1] \in Nat /\ e.id[1] <= builds
             /\ e.id[2] = e.kind /\ e.id[3] = e.of
             /\ stage # "idle" => e.id[1] < builds
  <2>1. e.id \in Id({e.kind}, {e.of}) /\ Made(e.id) /\ (stage # "idle" => Old(e.id))
    BY DEF TypeOK, InOrder
  <2>2. e.id[2] = e.kind /\ e.id[3] = e.of
    BY <2>1, IdParts
  <2>3. QED
    BY <1>1, <2>1, <2>2, Ages
<1>3. ASSUME NEW e \in Unsent
      PROVE  /\ e.id \in Id({e.kind}, {e.of}) /\ e.id[1] = builds
             /\ e.id[2] = e.kind /\ e.id[3] = e.of
  <2>1. e.id \in Id({e.kind}, {e.of}) /\ e.id[1] = builds
    BY DEF InOrder
  <2>2. QED
    BY <2>1, IdParts
<1>4. QED
  BY <1>1, <1>2, <1>3

LEMMA InitChains == Init => Chains
<1> SUFFICES ASSUME Init PROVE Chains
  OBVIOUS
<1>1. roots = [k \in Key |-> None] /\ stage = "idle" /\ signed = Leg1
  BY DEF Init
<1>2. \A e \in All : e.kind # "patch"
  BY <1>1 DEF All, Unsent, Leg1
<1>3. QED
  BY <1>1, <1>2 DEF Chains, TipTells, GateHeld, Patches

LEMMA BuildChains ==
  ASSUME Base, Chains, NEW d \in Dataset, Build(d)
  PROVE  Chains'
<1>1. /\ stage = "idle" /\ stage' = "engine" /\ signed' = signed /\ outcome'.events = {}
      /\ roots' = SeedRoots(roots) /\ relay' = relay
  BY DEF Build
<1>2. \A k \in Key \ Card : roots'[k] = roots[k]
  BY <1>1 DEF SeedRoots
<1>3. Unsent = {} /\ Unsent' = {} /\ All' = All /\ Patches' = Patches
  BY <1>1 DEF Unsent, All, Patches
<1>4. Landed \subseteq Landed'
  BY DEF Build, Landed
<1>5. ChainPoints \subseteq Landed'
  BY <1>1 DEF Build, UnpublishedChainPoints, Landed
<1>6. TipTells'
  BY <1>2, <1>3 DEF Chains, TipTells
<1>7. GateHeld'
  <2>1. ASSUME NEW k \in Key \ Card, Live(roots[k])
        PROVE  roots[k].tip \in ChainPoints
    <3>1. {roots[k].event, roots[k].tip} \in
            {{roots[j].event, roots[j].tip} : j \in {i \in Key : Live(roots[i])}}
      BY <2>1
    <3>2. roots[k].tip \in {roots[k].event, roots[k].tip}
      OBVIOUS
    <3>3. QED
      BY <3>1, <3>2, Zenon DEF ChainPoints
  <2>2. QED
    BY <1>2, <1>5, <2>1 DEF GateHeld, Live
<1>8. ASSUME NEW p \in Patches
      PROVE  PatchFollows(p)'
  <2>1. PatchFollows(p) /\ p \in signed
    BY <1>3 DEF Chains, Patches, All
  <2>2. QED
    BY <1>1, <1>2, <1>3, <1>4, <2>1 DEF PatchFollows
<1>9. QED
  BY <1>3, <1>6, <1>7, <1>8 DEF Chains

\* A patch that the engine signs follows the tip of its row, which is older than it and
\* has landed.
LEMMA NewPatch ==
  ASSUME Base, Chains, stage \in {"engine", "signed"}, NEW d \in Dataset,
         NEW p, Tells(p, roots, relations, d), p.kind = "patch"
  PROVE  /\ p.of \in Key \ Card /\ roots[p.of] # None
         /\ p.id = PatchId(p.of) /\ p.id[1] = builds
         /\ p.parent = roots[p.of].tip /\ p.from = roots[p.of].content
         /\ p.parent \in Id({"root", "patch"}, {p.of}) /\ p.parent[3] = p.of
         /\ p.parent[1] \in Nat /\ p.parent[1] < p.id[1]
         /\ p.parent \in Landed
<1>1. /\ p.of \in Key /\ p.id = PatchId(p.of) /\ Patched(roots[p.of], d.roots[p.of])
      /\ p.parent = roots[p.of].tip /\ p.from = roots[p.of].content
  BY DEF Tells
<1>2. d.roots[p.of] # Gone /\ Live(roots[p.of]) /\ roots[p.of] # None
  BY <1>1 DEF Patched, Live
<1>3. p.of \in Key \ Card
  BY <1>1, <1>2, EngineAssumption
<1>4. builds \in Nat /\ p.id[1] = builds
  BY <1>1, OldAndNew, NewIds
<1>5. p.parent \in Id({"root", "patch"}, {p.of}) /\ p.parent[3] = p.of
  BY <1>1, <1>2, RowIds
<1>6. p.parent[1] \in Nat /\ p.parent[1] < builds
  BY <1>1, <1>2, <1>4, Ages DEF Base, InOrder
<1>7. p.parent \in Landed
  BY <1>1, <1>2, <1>3 DEF Chains, GateHeld
<1>8. QED
  BY <1>1, <1>2, <1>3, <1>4, <1>5, <1>6, <1>7

LEMMA RunEngineChains ==
  ASSUME Base, Chains, RunEngine
  PROVE  Chains'
<1> DEFINE d == outcome.dataset
<1>1. /\ stage = "engine" /\ stage' = "signed" /\ d \in Dataset
      /\ outcome.events = {} /\ outcome'.events = Events(roots, relations, d)
      /\ UNCHANGED <<roots, relations, builds, relay, noted, signed, ungated>>
  BY DEF RunEngine, ledgerVars, Base, TypeOK, Staged
<1> HIDE DEF d
<1>2. /\ All = signed /\ All' = signed \cup Events(roots, relations, d)
      /\ Unsent' = Events(roots, relations, d)
  BY <1>1 DEF All, Unsent
<1>3. \A e \in Events(roots, relations, d) : Tells(e, roots, relations, d) /\ e.id[1] = builds
  BY EventsTell, BatchIds, OldAndNew
<1>4. builds \in Nat /\ \A e \in signed : e.id[1] \in Nat /\ e.id[1] < builds
  BY <1>1, OldAndNew
<1>5. Landed' = Landed
  BY <1>1 DEF Landed
<1>6. TipTells'
  <2>1. ASSUME NEW k \in Key \ Card, roots[k] # None, NEW e \in All', e.id = roots[k].tip
        PROVE  e.of = k /\ e.content = roots[k].content
    <3>1. Old(roots[k].tip)
      BY <1>1, <2>1 DEF Base, InOrder
    <3>2. e.id[1] # builds
      BY <1>4, <2>1, <3>1, Ages
    <3>3. e \in All
      BY <1>2, <1>3, <3>2, <2>1
    <3>4. QED
      BY <2>1, <3>3 DEF Chains, TipTells
  <2>2. QED
    BY <1>1, <2>1 DEF TipTells
<1>7. GateHeld'
  BY <1>1, <1>5 DEF Chains, GateHeld
<1>8. ASSUME NEW p \in Patches'
      PROVE  PatchFollows(p)'
  <2>1. \A q \in Patches' : q.kind = "patch" /\ (q \in signed \/ q \in Events(roots, relations, d))
    BY <1>2 DEF Patches
  <2>2. \A q \in signed : q \in Patches' => q \in Patches /\ PatchFollows(q)
    BY <1>2 DEF Chains, Patches
  <2>3. \A q \in Events(roots, relations, d) : q.kind = "patch" =>
          /\ q.of \in Key \ Card /\ roots[q.of] # None
          /\ q.id = PatchId(q.of) /\ q.id[1] = builds
          /\ q.parent = roots[q.of].tip /\ q.from = roots[q.of].content
          /\ q.parent \in Id({"root", "patch"}, {q.of}) /\ q.parent[3] = q.of
          /\ q.parent[1] \in Nat /\ q.parent[1] < q.id[1]
          /\ q.parent \in Landed
    BY <1>1, <1>3, NewPatch
  <2>4. ASSUME NEW o \in signed, o \in Patches',
               NEW n \in Events(roots, relations, d), n \in Patches'
        PROVE  o.parent # n.parent
    <3>1. /\ o.parent \in Id({"root", "patch"}, {o.of}) /\ o.parent[1] < o.id[1]
          /\ roots[o.of] # None /\ o.id[1] <= roots[o.of].tip[1] /\ o.of \in Key
      BY <2>2, <2>4 DEF PatchFollows
    <3>2. o.parent[3] = o.of /\ o.parent[1] \in Nat /\ o.id[1] \in Nat
      BY <1>4, <3>1, IdParts
    <3>3. roots[o.of].tip[1] \in Nat
      BY <3>1, RowIds, IdParts
    <3>4. n.parent = roots[n.of].tip /\ n.parent[3] = n.of
      BY <2>1, <2>3, <2>4
    <3>5. o.parent = n.parent => o.of = n.of /\ o.parent = roots[o.of].tip
      BY <3>2, <3>4
    <3>6. o.parent # roots[o.of].tip
      BY <3>1, <3>2, <3>3
    <3>7. QED
      BY <3>5, <3>6
  <2>5. CASE p \in signed
    <3>1. PatchFollows(p)
      BY <2>2, <2>5
    <3>2. \A e \in All' : e.id = p.parent => e.of = p.of /\ e.content = p.from
      <4>1. p.parent[1] < builds /\ p.parent[1] # builds
        <5>1. p.parent[1] < p.id[1] /\ p.id[1] < builds
          BY <1>4, <2>5, <3>1 DEF PatchFollows
        <5>2. p.parent[1] \in Nat /\ p.id[1] \in Nat
          BY <1>4, <2>5, <3>1, IdParts DEF PatchFollows
        <5>3. QED
          BY <1>4, <5>1, <5>2
      <4>2. \A e \in All' : e.id = p.parent => e \in All
        BY <1>2, <1>3, <4>1
      <4>3. QED
        BY <3>1, <4>2 DEF PatchFollows
    <3>3. \A q \in Patches' : q.parent = p.parent => q = p
      BY <2>1, <2>2, <2>4, <2>5, <3>1 DEF PatchFollows
    <3>4. QED
      BY <1>1, <1>5, <2>5, <3>1, <3>2, <3>3 DEF PatchFollows
  <2>6. CASE p \in Events(roots, relations, d)
    <3>1. /\ p.of \in Key \ Card /\ roots[p.of] # None
          /\ p.id = PatchId(p.of) /\ p.id[1] = builds
          /\ p.parent = roots[p.of].tip /\ p.from = roots[p.of].content
          /\ p.parent \in Id({"root", "patch"}, {p.of}) /\ p.parent[1] < p.id[1]
          /\ p.parent \in Landed /\ p \notin signed
      BY <1>4, <2>1, <2>3, <2>6
    <3>2. \A e \in All' : e.id = p.parent => e.of = p.of /\ e.content = p.from
      BY <1>1, <1>6, <3>1 DEF TipTells
    <3>3. ASSUME NEW q \in Patches', q.parent = p.parent
          PROVE  q = p
      <4>1. q \in Events(roots, relations, d)
        BY <2>1, <2>4, <2>6, <3>3
      <4>2. q.of = p.of
        BY <2>1, <2>3, <2>6, <3>3, <4>1
      <4>3. QED
        BY <1>3, <2>1, <2>6, <4>1, <4>2 DEF Tells
    <3>4. QED
      BY <1>1, <1>5, <3>1, <3>2, <3>3 DEF PatchFollows
  <2>7. QED
    BY <2>1, <2>5, <2>6
<1>9. QED
  BY <1>6, <1>7, <1>8 DEF Chains

LEMMA UpsertRootsChains ==
  ASSUME Base, Chains, UpsertRoots
  PROVE  Chains'
<1> DEFINE d == outcome.dataset
<1>1. /\ stage = "signed" /\ stage' = "rooted" /\ d \in Dataset
      /\ builds \in 0..MaxBuilds /\ release \in 1..MaxRelease
      /\ roots' = RootRows(roots, d)
      /\ UNCHANGED <<outcome, builds, relay, noted, signed, ungated>>
  BY RootsUpserted
<1>2. \A e \in Unsent : Tells(e, roots, relations, d)
  BY <1>1, Batch
<1> HIDE DEF d
<1>3. Unsent' = Unsent /\ All' = All /\ Patches' = Patches /\ Landed' = Landed
  BY <1>1 DEF Unsent, All, Patches, Landed
<1>4. /\ builds \in Nat
      /\ \A e \in signed : /\ e.id[1] \in Nat /\ e.id[1] < builds
                           /\ e.id[2] = e.kind /\ e.id[3] = e.of
      /\ \A e \in Unsent : e.id[1] = builds /\ e.id[2] = e.kind /\ e.id[3] = e.of
  BY <1>1, OldAndNew
<1>5. \A e \in All : e.id[1] = builds => e \in Unsent
  BY <1>4 DEF All
<1>6. ASSUME NEW k \in Key
      PROVE  \/ /\ Added(roots[k], d.roots[k]) \/ ReRooted(roots[k], d.roots[k])
                /\ roots'[k].tip = RootId(k) /\ roots'[k].content = RootContent(roots[k], d.roots[k])
             \/ /\ Patched(roots[k], d.roots[k]) /\ roots[k] # None
                /\ roots'[k].tip = PatchId(k)
                /\ roots'[k].content = Effective(roots[k], d.roots[k])
             \/ /\ roots[k] # None
                /\ roots'[k].tip = roots[k].tip /\ roots'[k].content = roots[k].content
             \/ roots'[k] = roots[k]
  <2>1. /\ roots'[k] = RootRow(k, roots[k], d.roots[k]) /\ d.roots[k] \in Wanted \cup {Gone}
        /\ roots[k] \in LedgerRoot(k) \cup {None}
    BY <1>1, RowsMove DEF Base, TypeOK
  <2>2. Patched(roots[k], d.roots[k]) \/ Retired(k, roots[k], d.roots[k]) => roots[k] # None
    BY DEF Patched, Retired, Live
  <2>3. QED
    BY <1>1, <2>1, <2>2, RowMoves
<1>7. \A k : /\ RootId(k)[1] = builds /\ RootId(k)[2] = "root" /\ RootId(k)[3] = k
             /\ PatchId(k)[1] = builds /\ PatchId(k)[2] = "patch" /\ PatchId(k)[3] = k
  BY DEF RootId, PatchId
<1>8. TipTells'
  <2>1. ASSUME NEW k \in Key \ Card, roots'[k] # None, NEW e \in All, e.id = roots'[k].tip
        PROVE  e.of = k /\ e.content = roots'[k].content
    <3>1. CASE /\ Added(roots[k], d.roots[k]) \/ ReRooted(roots[k], d.roots[k])
               /\ roots'[k].tip = RootId(k)
               /\ roots'[k].content = RootContent(roots[k], d.roots[k])
      <4>1. e \in Unsent /\ e.kind = "root" /\ e.of = k
        BY <1>4, <1>5, <1>7, <2>1, <3>1
      <4>2. QED
        BY <1>2, <3>1, <4>1 DEF Tells
    <3>2. CASE /\ Patched(roots[k], d.roots[k])
               /\ roots'[k].tip = PatchId(k)
               /\ roots'[k].content = Effective(roots[k], d.roots[k])
      <4>1. e \in Unsent /\ e.kind = "patch" /\ e.of = k
        BY <1>4, <1>5, <1>7, <2>1, <3>2
      <4>2. e.content = Effective(roots[e.of], d.roots[e.of])
        BY <1>2, <4>1 DEF Tells
      <4>3. QED
        BY <3>2, <4>1, <4>2
    <3>3. CASE /\ roots[k] # None /\ roots'[k].tip = roots[k].tip
               /\ roots'[k].content = roots[k].content
      BY <2>1, <3>3 DEF Chains, TipTells
    <3>4. QED
      BY <1>6, <2>1, <3>1, <3>2, <3>3
  <2>2. QED
    BY <1>3, <2>1 DEF TipTells
<1>9. GateHeld'
  BY <1>1 DEF GateHeld
<1>10. ASSUME NEW p \in Patches
       PROVE  PatchFollows(p)'
  <2>1. PatchFollows(p)
    BY DEF Chains
  <2>2. roots'[p.of] # None /\ p.id[1] <= roots'[p.of].tip[1]
    <3>1. p.of \in Key
      BY <2>1 DEF PatchFollows
    <3>2. CASE p \in Unsent
      <4>1. Patched(roots[p.of], d.roots[p.of]) /\ p.id = PatchId(p.of)
        BY <1>2, <3>2 DEF Patches, Tells
      <4>2. roots'[p.of] \in LedgerRoot(p.of) /\ roots'[p.of].tip = PatchId(p.of)
        BY <1>1, <3>1, <4>1, RowsMove, RowMoves DEF Base, TypeOK
      <4>3. QED
        BY <1>4, <1>7, <4>1, <4>2, NoneAssumption, <3>1
    <3>3. CASE p \in signed
      <4>1. roots[p.of] # None /\ p.id[1] <= roots[p.of].tip[1]
        BY <2>1, <3>3 DEF PatchFollows
      <4>2. p.id[1] \in Nat /\ p.id[1] < builds
        BY <1>4, <3>3
      <4>3. roots'[p.of] # None
        <5>1. roots'[p.of] = RootRow(p.of, roots[p.of], d.roots[p.of])
              /\ d.roots[p.of] \in Wanted \cup {Gone}
              /\ roots[p.of] \in LedgerRoot(p.of) \cup {None}
          BY <1>1, <3>1, RowsMove DEF Base, TypeOK
        <5>2. roots'[p.of] \in LedgerRoot(p.of) \/ roots'[p.of] = roots[p.of]
          BY <1>1, <3>1, <5>1, RowMoves
        <5>3. QED
          BY <3>1, <4>1, <5>2, NoneAssumption
      <4>4. roots'[p.of].tip[1] = builds \/ roots'[p.of].tip[1] = roots[p.of].tip[1]
        BY <1>6, <1>7, <3>1
      <4>5. QED
        BY <1>4, <4>1, <4>2, <4>3, <4>4
    <3>4. QED
      BY <3>2, <3>3 DEF Patches, All
  <2>3. QED
    BY <1>1, <1>3, <2>1, <2>2 DEF PatchFollows
<1>11. QED
  BY <1>3, <1>8, <1>9, <1>10 DEF Chains

\* The steps after the roots are written leave chains and tips alone.
LEMMA LaterChains ==
  ASSUME Base, Chains, UpsertRelations \/ WriteArtifacts
  PROVE  Chains'
<1>1. /\ stage \in {"rooted", "applied"} /\ stage' \in {"applied", "idle"}
      /\ UNCHANGED <<roots, relay, noted, ungated>> /\ signed \subseteq signed'
  BY DEF UpsertRelations, WriteArtifacts, ledgerVars
<1>2. All' = All /\ Patches' = Patches
  <2>1. CASE UpsertRelations
    BY <2>1 DEF UpsertRelations, All, Unsent, Patches
  <2>2. CASE WriteArtifacts
    BY <2>2 DEF WriteArtifacts, All, Unsent, Patches
  <2>3. QED
    BY <2>1, <2>2
<1>3. Landed' = Landed
  BY <1>1 DEF Landed
<1>4. TipTells' /\ GateHeld'
  BY <1>1, <1>2 DEF Chains, TipTells, GateHeld
<1>5. ASSUME NEW p \in Patches
      PROVE  PatchFollows(p)'
  <2>1. PatchFollows(p)
    BY DEF Chains
  <2>2. QED
    BY <1>1, <1>2, <1>3, <2>1 DEF PatchFollows
<1>6. QED
  BY <1>2, <1>4, <1>5 DEF Chains

LEMMA AsideChains ==
  ASSUME Base, Chains, Aside
  PROVE  Chains'
<1>1. /\ UNCHANGED <<roots, signed>> /\ Landed \subseteq Landed'
      /\ \/ stage' = "idle" \/ UNCHANGED <<stage, outcome>>
  BY DEF Aside, Landed
<1>2. All' \subseteq All /\ Patches' \subseteq Patches /\ signed \subseteq All'
  BY <1>1 DEF All, Unsent, Patches
<1>3. TipTells'
  BY <1>1, <1>2 DEF Chains, TipTells
<1>4. GateHeld'
  BY <1>1 DEF Chains, GateHeld
<1>5. ASSUME NEW p \in Patches'
      PROVE  PatchFollows(p)'
  <2>1. PatchFollows(p)
    BY <1>2 DEF Chains
  <2>2. \/ stage' = "idle" /\ p \in signed
        \/ stage' = stage
    BY <1>1 DEF Patches, All, Unsent
  <2>3. p \in signed' \/ stage' \in {"rooted", "applied"} =>
          roots'[p.of] # None /\ p.id[1] <= roots'[p.of].tip[1]
    BY <1>1, <2>1, <2>2 DEF PatchFollows
  <2>4. QED
    BY <1>1, <1>2, <2>1, <2>3 DEF PatchFollows
<1>6. QED
  BY <1>3, <1>4, <1>5 DEF Chains

-----------------------------------------------------------------------------
(* A build of the same *)

\* What the engine makes of the tables is what the dataset wants of them.
LEMMA EngineSettles ==
  ASSUME Base, builds > 0, NEW d \in Dataset
  PROVE  Settled(RootRows(roots, d), RelationRows(roots, relations, d), d)
<1>1. builds \in 0..MaxBuilds /\ release \in 1..MaxRelease
  BY DEF Base, TypeOK
<1>2. \A k \in Key : /\ RootRows(roots, d)[k] = RootRow(k, roots[k], d.roots[k])
                     /\ d.roots[k] \in Wanted \cup {Gone}
                     /\ roots[k] \in LedgerRoot(k) \cup {None}
  <2>1. \A k \in Key : roots[k] \in LedgerRoot(k) \cup {None}
    BY DEF Base, TypeOK
  <2>2. QED
    BY <1>1, <2>1, RowsMove
<1>3. \A k \in Card : RootRows(roots, d)[k] = CardRow(k)
  BY CardsStay DEF Base, CardsStand
<1>4. ASSUME NEW k \in Key \ Card, d.roots[k] # Gone
      PROVE  Unchanged(RootRows(roots, d)[k], d.roots[k])
  <2> DEFINE new == RootRows(roots, d)[k]
             want == d.roots[k]
  <2>1. new = RootRow(k, roots[k], want)
    BY <1>2
  <2>2. CASE Added(roots[k], want) \/ ReRooted(roots[k], want)
    <3>1. Live(new) /\ new.tags = want.tags /\ new.content = RootContent(roots[k], want)
      BY <1>1, <1>2, <2>1, <2>2, RowMoves
    <3>2. new.content = Effective(new, want)
      BY <3>1 DEF RootContent, Effective
    <3>3. QED
      BY <1>4, <3>1, <3>2 DEF Unchanged
  <2>3. CASE Patched(roots[k], want)
    <3>1. /\ Live(new) /\ new.tags = roots[k].tags
          /\ new.content = Effective(roots[k], want)
      BY <1>1, <1>2, <2>1, <2>3, RowMoves
    <3>2. new.content = Effective(new, want)
      BY <3>1 DEF Effective
    <3>3. QED
      BY <1>4, <2>3, <3>1, <3>2 DEF Unchanged, Patched
  <2>4. CASE ~(Added(roots[k], want) \/ ReRooted(roots[k], want)) /\ ~Patched(roots[k], want)
    <3>1. ~Retired(k, roots[k], want) /\ new = roots[k]
      BY <1>1, <1>2, <1>4, <2>1, <2>4, RowMoves DEF Retired
    <3>2. QED
      BY <1>4, <2>4, <3>1 DEF Added, ReRooted
  <2>5. QED
    BY <2>2, <2>3, <2>4
<1>5. ASSUME NEW r \in Relation \ Seeded
      PROVE  /\ d.prints[r] = Gone => ~Live(RelationRows(roots, relations, d)[r])
             /\ d.prints[r] # Gone /\ Anchored(roots, d, r) =>
                  /\ Live(RelationRows(roots, relations, d)[r])
                  /\ RelationRows(roots, relations, d)[r].print = d.prints[r]
  <2> DEFINE new == RelationRows(roots, relations, d)[r]
  <2>1. new = RelationRow(roots, relations, d, r) /\ relations[r] \in LedgerRelation(r) \cup {None}
    BY <1>1, BondsMove DEF Base, TypeOK
  <2>2. CASE d.prints[r] = Gone
    <3>1. ~Bound(roots, relations, d, r) /\ ~Replaced(roots, relations, d, r)
      BY <2>2 DEF Bound, Replaced, Asserted
    <3>2. CASE Live(relations[r])
      BY <1>1, <2>1, <2>2, <3>2, BondMoves DEF Retracted
    <3>3. CASE ~Live(relations[r])
      BY <1>1, <2>1, <2>2, <3>1, <3>3, BondMoves DEF Retracted
    <3>4. QED
      BY <2>2, <3>2, <3>3
  <2>3. CASE d.prints[r] # Gone /\ Anchored(roots, d, r)
    <3>1. Asserted(roots, d, r) /\ ~Retracted(relations, d, r)
      BY <2>3 DEF Asserted, Retracted
    <3>2. CASE Bound(roots, relations, d, r) \/ Replaced(roots, relations, d, r)
      BY <1>1, <2>1, <2>3, <3>2, BondMoves
    <3>3. CASE ~(Bound(roots, relations, d, r) \/ Replaced(roots, relations, d, r))
      <4>1. new = relations[r]
        BY <1>1, <2>1, <3>1, <3>3, BondMoves
      <4>2. QED
        BY <2>3, <3>1, <3>3, <4>1 DEF Bound, Replaced
    <3>4. QED
      BY <3>2, <3>3
  <2>4. QED
    BY <2>2, <2>3
<1>6. QED
  BY <1>3, <1>4, <1>5 DEF Settled, Anchored

\* A build of settled tables signs nothing but the bindings that leg 1 seeds.
LEMMA SettledIsNoOp ==
  ASSUME Base, NEW rows, NEW rels, NEW d \in Dataset, Settled(rows, rels, d),
         \A k \in Key : rows[k] \in LedgerRoot(k) \cup {None},
         NEW e \in Events(rows, rels, d)
  PROVE  e.of \in Seeded
<1>1. Tells(e, rows, rels, d)
  BY EventsTell
<1>2. ASSUME NEW k \in Key
      PROVE  /\ ~Added(rows[k], d.roots[k]) /\ ~ReRooted(rows[k], d.roots[k])
             /\ ~Patched(rows[k], d.roots[k])
  <2>1. d.roots[k] # Gone => Unchanged(rows[k], d.roots[k])
    BY EngineAssumption DEF Settled
  <2>2. QED
    BY <2>1 DEF Added, ReRooted, Patched, Unchanged
<1>3. ASSUME NEW k \in Key, Live(RootRows(rows, d)[k])
      PROVE  Live(rows[k])
  <2>1. builds \in 0..MaxBuilds /\ release \in 1..MaxRelease
    BY DEF Base, TypeOK
  <2>2. /\ RootRows(rows, d)[k] = RootRow(k, rows[k], d.roots[k])
        /\ d.roots[k] \in Wanted \cup {Gone}
    BY <2>1, RowsMove
  <2>3. Retired(k, rows[k], d.roots[k]) => Live(rows[k])
    BY DEF Retired
  <2>4. QED
    BY <1>2, <1>3, <2>1, <2>2, <2>3, RowMoves
<1>4. ASSUME NEW r \in Relation \ Seeded
      PROVE  /\ ~Bound(rows, rels, d, r) /\ ~Replaced(rows, rels, d, r)
             /\ ~Retracted(rels, d, r)
  <2>1. ~Retracted(rels, d, r)
    BY DEF Settled, Retracted
  <2>2. Ends[r].root \in Key /\ Ends[r].link \in Key
    BY EngineAssumption
  <2>3. Asserted(rows, d, r) => Live(rels[r]) /\ rels[r].print = d.prints[r]
    BY <1>3, <2>2 DEF Asserted, Anchored, Settled
  <2>4. ~AnchorMoved(rows, d, r)
    BY <1>2, <2>2 DEF AnchorMoved
  <2>5. QED
    BY <2>1, <2>3, <2>4 DEF Bound, Replaced
<1>5. QED
  BY <1>1, <1>2, <1>4 DEF Tells

\* A plan is settled from the moment its rows are in both tables.
LEMMA PlanStep ==
  ASSUME Base, PlanSettled, Next \/ UNCHANGED vars
  PROVE  PlanSettled'
<1>1. CASE \E d \in Dataset : Build(d)
  BY <1>1 DEF Build, PlanSettled
<1>2. CASE RunEngine
  <2>1. planned' = None /\ stage' = "signed"
    BY <1>2 DEF RunEngine, Base, Staged
  <2>2. QED
    BY <2>1 DEF PlanSettled
<1>3. CASE UpsertRoots
  <2>1. builds > 0 /\ planned' = None
    BY <1>3 DEF UpsertRoots, Base, Staged
  <2>2. /\ roots' = RootRows(roots, outcome.dataset) /\ outcome' = outcome
        /\ outcome.relations = RelationRows(roots, relations, outcome.dataset)
        /\ outcome.dataset \in Dataset
    BY <1>3, RootsUpserted
  <2>3. Settled(roots', outcome.relations, outcome.dataset)
    BY <2>1, <2>2, EngineSettles
  <2>4. QED
    BY <2>1, <2>2, <2>3 DEF PlanSettled, Settled, Unchanged, Effective, CardRow
<1>4. CASE UpsertRelations
  BY <1>4 DEF UpsertRelations, PlanSettled, Settled, Unchanged, Effective, CardRow
<1>5. CASE WriteArtifacts
  BY <1>5 DEF WriteArtifacts, ledgerVars, PlanSettled, Settled, Unchanged, Effective, CardRow
<1>6. CASE Aside
  BY <1>6 DEF Aside, PlanSettled, Settled, Unchanged, Effective, CardRow
<1>7. QED
  BY <1>1, <1>2, <1>3, <1>4, <1>5, <1>6, StepsAside DEF Next

-----------------------------------------------------------------------------
(* The relay *)

\* A deletion of the batch names an event of an earlier build, a root by its own row and
\* a binding by its own.
LEMMA BatchDeletes ==
  ASSUME Base, stage \in {"engine", "signed"}, NEW d \in Dataset,
         NEW x \in DeletedBy(Events(roots, relations, d))
  PROVE  /\ Old(x)
         /\ \/ \E k \in Key : /\ ReRooted(roots[k], d.roots[k]) /\ x = roots[k].event
                              /\ x[2] = "root" /\ x[3] = k
            \/ \E r \in Relation : /\ Replaced(roots, relations, d, r) \/ Retracted(relations, d, r)
                                   /\ x = relations[r].event
                                   /\ x[2] = "binding" /\ x[3] = r
<1>1. PICK e \in Events(roots, relations, d) : e.kind = "deletion" /\ x = e.target
  BY DEF DeletedBy
<1>2. Tells(e, roots, relations, d)
  BY EventsTell
<1>3. ASSUME e.of \in Key, ReRooted(roots[e.of], d.roots[e.of]), x = roots[e.of].event
      PROVE  Old(x) /\ x[2] = "root" /\ x[3] = e.of
  <2>1. roots[e.of] # None
    BY <1>3 DEF ReRooted, Live
  <2>2. QED
    BY <1>3, <2>1, RowIds DEF Base, InOrder
<1>4. ASSUME e.of \in Relation, x = relations[e.of].event,
             Replaced(roots, relations, d, e.of) \/ Retracted(relations, d, e.of)
      PROVE  Old(x) /\ x[2] = "binding" /\ x[3] = e.of
  <2>1. relations[e.of] # None
    BY <1>4 DEF Replaced, Retracted, Live
  <2>2. relations[e.of].event \in Id({"binding"}, {e.of}) /\ Old(relations[e.of].event)
    BY <1>4, <2>1 DEF Base, TypeOK, LedgerRelation, InOrder
  <2>3. QED
    BY <1>4, <2>2, IdParts
<1>5. QED
  BY <1>1, <1>2, <1>3, <1>4 DEF Tells

LEMMA InitBooks == Init => Books
<1> SUFFICES ASSUME Init PROVE Books
  OBVIOUS
<1>1. /\ roots = [k \in Key |-> None] /\ relations = [r \in Relation |-> None]
      /\ stage = "idle" /\ signed = Leg1 /\ relay = Ids(Leg1) /\ left = {}
  BY DEF Init
<1>2. All = Leg1
  BY <1>1 DEF All, Unsent
<1>3. \A e \in Leg1 : \/ e.kind = "root" /\ e.of \in Card
                      \/ e.kind = "binding" /\ e.of \in Seeded
  BY DEF Leg1
<1>4. DeliveredWhole /\ DeletionsLookBack
  BY <1>1, <1>2, <1>3 DEF DeliveredWhole, DeletionsLookBack
<1>5. Matched(roots, relations, signed, left)
  <2>1. \A k \in Key \ Card : Undeleted("root", k, signed) = {} /\ Current(roots[k]) = {}
    BY <1>1, <1>3 DEF Undeleted, Ids, Current, Live
  <2>2. \A r \in Relation \ Seeded : Undeleted("binding", r, signed) = {} /\ Current(relations[r]) = {}
    BY <1>1, <1>3, EngineAssumption DEF Undeleted, Ids, Current, Live
  <2>3. QED
    BY <2>1, <2>2 DEF Matched
<1>6. QED
  BY <1>1, <1>4, <1>5 DEF Books, LedgerMatched

\* The batch adds its ids, which nothing has deleted, and takes away what it deletes.
LEMMA UndeletedGrows ==
  ASSUME Base, DeletionsLookBack, stage = "signed", NEW d \in Dataset, d = outcome.dataset,
         NEW kind, NEW of
  PROVE  /\ Undeleted(kind, of, signed \cup Events(roots, relations, d)) =
              (Undeleted(kind, of, signed) \ DeletedBy(Events(roots, relations, d)))
                \cup Ids({e \in Events(roots, relations, d) : e.kind = kind /\ e.of = of})
         /\ \A x \in Undeleted(kind, of, signed) : Old(x) /\ x[2] = kind /\ x[3] = of
<1> DEFINE E == Events(roots, relations, d)
<1>1. /\ builds \in Nat
      /\ \A e \in signed : e.id[1] \in Nat /\ e.id[1] < builds /\ e.id[2] = e.kind /\ e.id[3] = e.of
      /\ \A e \in E : e.id[1] = builds
  BY OldAndNew, Batch
<1>2. \A e \in signed : Old(e.id)
  BY DEF Base, InOrder
<1>3. \A x \in DeletedBy(signed) : x[1] # builds
  <2>1. ASSUME NEW e \in signed, e.kind = "deletion"
        PROVE  e.target[1] # builds
    <3>1. e.target[1] \in 0..e.id[1] - 1
      BY <2>1 DEF DeletionsLookBack, All
    <3>2. e.id[1] \in Nat /\ e.id[1] < builds
      BY <1>1
    <3>3. QED
      BY <1>1, <3>1, <3>2
  <2>2. QED
    BY <2>1 DEF DeletedBy
<1>4. \A x \in DeletedBy(E) : x[1] # builds
  BY <1>1, BatchDeletes, Ages
<1> HIDE DEF E
<1>5. DeletedBy(signed \cup E) = DeletedBy(signed) \cup DeletedBy(E)
  BY DEF DeletedBy
<1>6. Ids({e \in signed \cup E : e.kind = kind /\ e.of = of}) =
        Ids({e \in signed : e.kind = kind /\ e.of = of}) \cup Ids({e \in E : e.kind = kind /\ e.of = of})
  BY DEF Ids
<1>7. \A x \in Ids({e \in E : e.kind = kind /\ e.of = of}) : x[1] = builds
  BY <1>1 DEF Ids
<1>8. \A x \in Ids({e \in signed : e.kind = kind /\ e.of = of}) : Old(x) /\ x[2] = kind /\ x[3] = of
  BY <1>1, <1>2 DEF Ids
<1>9. Undeleted(kind, of, signed \cup E) =
        (Undeleted(kind, of, signed) \ DeletedBy(E)) \cup Ids({e \in E : e.kind = kind /\ e.of = of})
  BY <1>3, <1>4, <1>5, <1>6, <1>7 DEF Undeleted
<1>10. QED
  BY <1>8, <1>9 DEF Undeleted, E

\* The roots that the batch leaves standing, but for those gone, are the live rows.
LEMMA RootsMatch ==
  ASSUME Base, DeletionsLookBack, stage = "signed", NEW d \in Dataset, d = outcome.dataset,
         NEW k \in Key, Undeleted("root", k, signed) \ left = Current(roots[k]),
         NEW gone, gone = left \cup
           {roots[j].event : j \in {i \in Key : Retired(i, roots[i], d.roots[i])}}
  PROVE  Undeleted("root", k, signed \cup Events(roots, relations, d)) \ gone =
           Current(RootRows(roots, d)[k])
<1> DEFINE E == Events(roots, relations, d)
           new == RootRows(roots, d)[k]
           row == roots[k]
           want == d.roots[k]
<1>1. /\ builds \in 0..MaxBuilds /\ builds \in Nat /\ release \in 1..MaxRelease
      /\ new = RootRow(k, row, want) /\ want \in Wanted \cup {Gone}
      /\ row \in LedgerRoot(k) \cup {None}
  <2>1. \A j \in Key : roots[j] \in LedgerRoot(j) \cup {None}
    BY DEF Base, TypeOK
  <2>2. builds \in 0..MaxBuilds /\ builds \in Nat /\ release \in 1..MaxRelease
    BY EngineAssumption DEF Base, TypeOK
  <2>3. QED
    BY <2>1, <2>2, RowsMove
<1>2. /\ Undeleted("root", k, signed \cup E) =
           (Undeleted("root", k, signed) \ DeletedBy(E))
             \cup Ids({e \in E : e.kind = "root" /\ e.of = k})
      /\ \A x \in Undeleted("root", k, signed) : Old(x) /\ x[2] = "root" /\ x[3] = k
  BY UndeletedGrows
<1>3. Ids({e \in E : e.kind = "root" /\ e.of = k}) =
        IF Added(row, want) \/ ReRooted(row, want) THEN {RootId(k)} ELSE {}
  <2>1. \A e \in E : e.kind = "root" /\ e.of = k =>
          e.id = RootId(k) /\ (Added(row, want) \/ ReRooted(row, want))
    BY EventsTell DEF Tells
  <2>2. Added(row, want) \/ ReRooted(row, want) =>
          \E e \in E : e.kind = "root" /\ e.of = k /\ e.id = RootId(k)
    BY EventsHave
  <2> HIDE DEF E, row, want
  <2>3. QED
    BY <2>1, <2>2 DEF Ids
<1>4. \A x \in DeletedBy(E) : x[2] = "root" /\ x[3] = k => ReRooted(row, want) /\ x = row.event
  BY BatchDeletes
<1>5. ReRooted(row, want) => row.event \in DeletedBy(E)
  BY EventsHave
<1>6. \A x \in gone : x \notin left => \E j \in Key : Retired(j, roots[j], d.roots[j]) /\ x = roots[j].event
                                                     /\ x[3] = j /\ Old(x)
  <2>1. ASSUME NEW j \in Key, Retired(j, roots[j], d.roots[j])
        PROVE  roots[j].event[3] = j /\ Old(roots[j].event)
    <3>1. roots[j] # None
      BY <2>1 DEF Retired, Live
    <3>2. QED
      BY <3>1, RowIds DEF Base, InOrder
  <2>2. QED
    BY <2>1
<1>7. RootId(k) \notin gone
  <2>1. RootId(k)[1] = builds
    BY <1>1, NewIds
  <2>2. \A x \in left : Old(x)
    BY DEF Base, InOrder
  <2>3. QED
    BY <1>1, <1>6, <2>1, <2>2, Ages
<1>8. Retired(k, row, want) => row.event \in gone
  OBVIOUS
<1>9. left \subseteq gone
  OBVIOUS
<1>10. Undeleted("root", k, signed) \ left = Current(row)
  OBVIOUS
<1>11. Live(row) => Current(row) = {row.event} /\ row.event[3] = k /\ row.event[2] = "root"
  BY RowIds DEF Current, Live
<1> HIDE DEF E, new, row, want
<1> DEFINE matched == Undeleted("root", k, signed \cup E) \ gone = Current(new)
<1>12. ASSUME Added(row, want) PROVE matched
  <2>1. ~Live(row) /\ Current(row) = {}
    BY <1>12 DEF Added, Current
  <2>2. Current(new) = {RootId(k)}
    BY <1>1, <1>12, RowMoves DEF Current
  <2>3. QED
    BY <1>2, <1>3, <1>7, <1>9, <1>10, <1>12, <2>1, <2>2
<1>13. ASSUME ReRooted(row, want) PROVE matched
  <2>1. Current(row) = {row.event}
    BY <1>11, <1>13 DEF ReRooted
  <2>2. Current(new) = {RootId(k)}
    BY <1>1, <1>13, RowMoves DEF Current
  <2>3. QED
    BY <1>2, <1>3, <1>5, <1>7, <1>9, <1>10, <1>13, <2>1, <2>2
<1>14. ASSUME Retired(k, row, want) PROVE matched
  <2>1. Current(row) = {row.event}
    BY <1>11, <1>14 DEF Retired
  <2>2. Current(new) = {} /\ ~Added(row, want) /\ ~ReRooted(row, want)
    BY <1>1, <1>14, RowMoves DEF Current, Retired, Added, ReRooted
  <2>3. QED
    BY <1>2, <1>3, <1>8, <1>9, <1>10, <1>14, <2>1, <2>2
<1>15. ASSUME ~Added(row, want), ~ReRooted(row, want), ~Retired(k, row, want) PROVE matched
  <2>1. Current(new) = Current(row)
    <3>1. CASE Patched(row, want)
      <4>1. Live(new) /\ new.event = row.event
        BY <1>1, <3>1, RowMoves
      <4>2. QED
        BY <3>1, <4>1 DEF Current, Patched
    <3>2. CASE ~Patched(row, want)
      BY <1>1, <1>15, <3>2, RowMoves
    <3>3. QED
      BY <3>1, <3>2
  <2>2. Undeleted("root", k, signed \cup E) = Undeleted("root", k, signed)
    BY <1>2, <1>3, <1>4, <1>15
  <2>3. Current(row) \cap gone = {}
    <3>1. ASSUME NEW x \in Current(row), x \in gone PROVE FALSE
      <4>1. x \notin left /\ x[3] = k
        BY <1>2, <1>10, <3>1
      <4>2. QED
        BY <1>6, <1>15, <3>1, <4>1 DEF row, want
    <3>2. QED
      BY <3>1
  <2>4. QED
    BY <1>9, <1>10, <2>1, <2>2, <2>3
<1>16. QED
  BY <1>12, <1>13, <1>14, <1>15 DEF E, new

\* The bindings that the batch leaves standing are the live relations.
LEMMA BindingsMatch ==
  ASSUME Base, DeletionsLookBack, stage = "signed", NEW d \in Dataset, d = outcome.dataset,
         NEW r \in Relation, Undeleted("binding", r, signed) = Current(relations[r])
  PROVE  Undeleted("binding", r, signed \cup Events(roots, relations, d)) =
           Current(RelationRows(roots, relations, d)[r])
<1> DEFINE E == Events(roots, relations, d)
           new == RelationRows(roots, relations, d)[r]
           row == relations[r]
           bound == Bound(roots, relations, d, r)
           replaced == Replaced(roots, relations, d, r)
           retracted == Retracted(relations, d, r)
<1>1. /\ builds \in 0..MaxBuilds /\ new = RelationRow(roots, relations, d, r)
      /\ row \in LedgerRelation(r) \cup {None}
  <2>1. \A q \in Relation : relations[q] \in LedgerRelation(q) \cup {None}
    BY DEF Base, TypeOK
  <2>2. builds \in 0..MaxBuilds
    BY DEF Base, TypeOK
  <2>3. QED
    BY <2>1, <2>2, BondsMove
<1>2. /\ bound \/ replaced => Live(new) /\ new.event = BindingId(r)
      /\ retracted => ~Live(new)
      /\ bound \/ replaced \/ retracted \/ new = row
  BY <1>1, BondMoves
<1>3. /\ Undeleted("binding", r, signed \cup E) =
           (Undeleted("binding", r, signed) \ DeletedBy(E))
             \cup Ids({e \in E : e.kind = "binding" /\ e.of = r})
      /\ \A x \in Undeleted("binding", r, signed) : x[2] = "binding" /\ x[3] = r
  BY UndeletedGrows
<1>4. Ids({e \in E : e.kind = "binding" /\ e.of = r}) =
        IF bound \/ replaced THEN {BindingId(r)} ELSE {}
  <2>1. \A e \in E : e.kind = "binding" /\ e.of = r => e.id = BindingId(r) /\ (bound \/ replaced)
    BY EventsTell DEF Tells
  <2>2. bound \/ replaced => \E e \in E : e.kind = "binding" /\ e.of = r /\ e.id = BindingId(r)
    BY EventsHave
  <2> HIDE DEF E, bound, replaced
  <2>3. QED
    BY <2>1, <2>2 DEF Ids
<1>5. \A x \in DeletedBy(E) : x[2] = "binding" /\ x[3] = r =>
        (replaced \/ retracted) /\ x = row.event
  BY BatchDeletes
<1>6. replaced \/ retracted => row.event \in DeletedBy(E)
  BY EventsHave
<1>7. /\ bound => ~Live(row)
      /\ replaced \/ retracted => Live(row)
      /\ ~(replaced /\ retracted)
  BY DEF Bound, Replaced, Retracted, Asserted
<1> HIDE DEF E, new, row, bound, replaced, retracted
<1>8. Undeleted("binding", r, signed) = Current(row)
  BY DEF row
<1> DEFINE matched == Undeleted("binding", r, signed \cup E) = Current(new)
<1>9. ASSUME bound PROVE matched
  <2>1. Current(row) = {} /\ Current(new) = {BindingId(r)}
    BY <1>2, <1>7, <1>9 DEF Current
  <2>2. QED
    BY <1>3, <1>4, <1>8, <1>9, <2>1
<1>10. ASSUME replaced PROVE matched
  <2>1. Current(row) = {row.event} /\ Current(new) = {BindingId(r)}
    BY <1>2, <1>7, <1>10 DEF Current
  <2>2. QED
    BY <1>3, <1>4, <1>6, <1>8, <1>10, <2>1
<1>11. ASSUME retracted PROVE matched
  <2>1. Current(row) = {row.event} /\ Current(new) = {} /\ ~bound /\ ~replaced
    BY <1>2, <1>7, <1>11 DEF Current
  <2>2. Ids({e \in E : e.kind = "binding" /\ e.of = r}) = {}
    BY <1>4, <2>1
  <2>3. Undeleted("binding", r, signed) \ DeletedBy(E) = {}
    BY <1>6, <1>8, <1>11, <2>1
  <2>4. QED
    BY <1>3, <2>1, <2>2, <2>3
<1>12. ASSUME ~bound, ~replaced, ~retracted PROVE matched
  <2>1. Current(new) = Current(row)
    BY <1>2, <1>12
  <2>2. Current(row) \cap DeletedBy(E) = {}
    BY <1>3, <1>5, <1>8, <1>12
  <2>3. QED
    BY <1>3, <1>4, <1>8, <1>12, <2>1, <2>2
<1>13. QED
  BY <1>9, <1>10, <1>11, <1>12 DEF E, new

\* A binding that stands after the batch is anchored at roots that do, unless one of its
\* own is gone.
LEMMA AnchorsMatch ==
  ASSUME Base, stage = "signed", NEW d \in Dataset, d = outcome.dataset,
         Matched(roots, relations, signed, left),
         NEW r \in Relation \ Seeded, NEW b \in signed \cup Events(roots, relations, d),
         b.kind = "binding", b.of = r, b.id \in Current(RelationRows(roots, relations, d)[r]),
         \A x \in {b.root, b.link} : x \notin left,
         \A k \in Key : Retired(k, roots[k], d.roots[k]) => roots[k].event \notin {b.root, b.link}
  PROVE  /\ {b.root} = Current(RootRows(roots, d)[Ends[r].root])
         /\ {b.link} = Current(RootRows(roots, d)[Ends[r].link])
<1> DEFINE E == Events(roots, relations, d)
           new == RelationRows(roots, relations, d)[r]
           bound == Bound(roots, relations, d, r)
           replaced == Replaced(roots, relations, d, r)
<1>1. /\ builds \in 0..MaxBuilds /\ builds \in Nat /\ release \in 1..MaxRelease
      /\ \A k \in Key : /\ roots[k] \in LedgerRoot(k) \cup {None}
                        /\ RootRows(roots, d)[k] = RootRow(k, roots[k], d.roots[k])
                        /\ d.roots[k] \in Wanted \cup {Gone}
  <2>1. \A j \in Key : roots[j] \in LedgerRoot(j) \cup {None}
    BY DEF Base, TypeOK
  <2>2. builds \in 0..MaxBuilds /\ builds \in Nat /\ release \in 1..MaxRelease
    BY EngineAssumption DEF Base, TypeOK
  <2>3. QED
    BY <2>1, <2>2, RowsMove
<1>2. Ends[r].root \in Key /\ Ends[r].link \in Key
  BY EngineAssumption
<1>3. /\ new = RelationRow(roots, relations, d, r)
      /\ relations[r] \in LedgerRelation(r) \cup {None}
  <2>1. \A q \in Relation : relations[q] \in LedgerRelation(q) \cup {None}
    BY DEF Base, TypeOK
  <2>2. QED
    BY <1>1, <2>1, BondsMove
<1>4. /\ bound \/ replaced => Live(new) /\ new.event = BindingId(r)
      /\ Retracted(relations, d, r) => ~Live(new)
      /\ bound \/ replaced \/ Retracted(relations, d, r) \/ new = relations[r]
  BY <1>1, <1>3, BondMoves
<1>5. Live(new) /\ b.id = new.event
  BY DEF Current
<1>6. CASE b \in E
  <2>1. Tells(b, roots, relations, d)
    BY <1>6, EventsTell
  <2>2. /\ Asserted(roots, d, r)
        /\ b.root = RootRows(roots, d)[Ends[r].root].event
        /\ b.link = RootRows(roots, d)[Ends[r].link].event
    BY <2>1 DEF Tells, Bound, Replaced
  <2>3. QED
    BY <2>2 DEF Asserted, Anchored, Current
<1>7. CASE b \in signed
  <2>1. b.id[1] # builds
    <3>1. b.id[1] \in Nat /\ b.id[1] < builds
      BY <1>7, OldAndNew
    <3>2. QED
      BY <1>1, <3>1
  <2>2. ~bound /\ ~replaced /\ new = relations[r] /\ ~Retracted(relations, d, r)
    <3>1. b.id # BindingId(r)
      BY <1>1, <2>1, NewIds
    <3> HIDE DEF bound, replaced, new
    <3>2. QED
      BY <1>4, <1>5, <3>1
  <2>3. /\ {b.root} = Current(roots[Ends[r].root]) /\ {b.link} = Current(roots[Ends[r].link])
    <3>1. b.id \in Current(relations[r]) /\ {b.root, b.link} \cap left = {}
      BY <2>2
    <3>2. QED
      BY <1>7, <3>1 DEF Matched
  <2>4. ASSUME NEW k \in {Ends[r].root, Ends[r].link}
        PROVE  Live(roots[k]) /\ ~Retired(k, roots[k], d.roots[k]) /\ k \in Key
    <3>1. Live(roots[k]) /\ roots[k].event \in {b.root, b.link}
      BY <2>3 DEF Current
    <3>2. QED
      BY <1>2, <3>1
  <2>5. \A k \in {Ends[r].root, Ends[r].link} : Live(RootRows(roots, d)[k])
    BY <1>1, <2>4, RowMoves
  <2>6. Asserted(roots, d, r) /\ Live(relations[r])
    BY <1>5, <2>2, <2>5 DEF Retracted, Asserted, Anchored
  <2>7. \A k \in {Ends[r].root, Ends[r].link} : ~ReRooted(roots[k], d.roots[k])
    BY <2>2, <2>6 DEF Replaced, AnchorMoved
  <2>8. ASSUME NEW k \in {Ends[r].root, Ends[r].link}
        PROVE  Current(RootRows(roots, d)[k]) = Current(roots[k])
    <3>1. ~Added(roots[k], d.roots[k])
      BY <2>4 DEF Added
    <3>2. RootRows(roots, d)[k].event = roots[k].event
      BY <1>1, <2>4, <2>7, <3>1, RowMoves
    <3>3. QED
      BY <2>4, <2>5, <3>2 DEF Current
  <2>9. QED
    BY <2>3, <2>8
<1>8. QED
  BY <1>6, <1>7

\* The whole batch.
LEMMA BatchMatches ==
  ASSUME Base, DeletionsLookBack, stage = "signed", NEW d, d = outcome.dataset,
         Matched(roots, relations, signed, left)
  PROVE  Matched(RootRows(roots, d), RelationRows(roots, relations, d),
                 signed \cup Events(roots, relations, d),
                 left \cup {roots[j].event : j \in {i \in Key : Retired(i, roots[i], d.roots[i])}})
<1> DEFINE E == Events(roots, relations, d)
           rows == RootRows(roots, d)
           rels == RelationRows(roots, relations, d)
           gone == left \cup
             {roots[j].event : j \in {i \in Key : Retired(i, roots[i], d.roots[i])}}
<1>0. d \in Dataset
  BY DEF Base, TypeOK
<1>1. ASSUME NEW k \in Key \ Card
      PROVE  Undeleted("root", k, signed \cup E) \ gone = Current(rows[k])
  <2>1. Undeleted("root", k, signed) \ left = Current(roots[k])
    BY DEF Matched
  <2>2. QED
    BY <1>0, <2>1, RootsMatch
<1>2. ASSUME NEW r \in Relation \ Seeded
      PROVE  Undeleted("binding", r, signed \cup E) = Current(rels[r])
  <2>1. Undeleted("binding", r, signed) = Current(relations[r])
    BY DEF Matched
  <2>2. QED
    BY <1>0, <2>1, BindingsMatch
<1>3. ASSUME NEW r \in Relation \ Seeded, NEW b \in signed \cup E,
             b.kind = "binding", b.of = r, b.id \in Current(rels[r]),
             {b.root, b.link} \cap gone = {}
      PROVE  {b.root} = Current(rows[Ends[r].root]) /\ {b.link} = Current(rows[Ends[r].link])
  <2>1. /\ \A x \in {b.root, b.link} : x \notin left
        /\ \A k \in Key : Retired(k, roots[k], d.roots[k]) =>
                           roots[k].event \notin {b.root, b.link}
    BY <1>3
  <2>2. QED
    BY <1>0, <1>3, <2>1, AnchorsMatch
<1> HIDE DEF E, rows, rels, gone
<1>4. Matched(rows, rels, signed \cup E, gone)
  BY <1>1, <1>2, <1>3 DEF Matched
<1>5. QED
  BY <1>4 DEF E, rows, rels, gone

LEMMA BuildBooks ==
  ASSUME Base, Books, NEW d \in Dataset, Build(d)
  PROVE  Books'
<1>1. /\ stage = "idle" /\ stage' = "engine" /\ signed' = signed /\ outcome'.events = {}
      /\ roots' = SeedRoots(roots) /\ relations' = SeedRelations(relations, d)
      /\ UNCHANGED <<file, relay, left>> /\ clean' = (clean /\ Ids(file) \subseteq relay)
  BY DEF Build
<1>2. All' = All
  BY <1>1 DEF All, Unsent
<1>3. DeliveredWhole'
  BY <1>1 DEF Books, DeliveredWhole
<1>4. DeletionsLookBack'
  BY <1>2 DEF Books, DeletionsLookBack
<1>5. ASSUME clean' PROVE Matched(roots', relations', signed', left')
  <2>1. Matched(roots, relations, signed, left)
    BY <1>1, <1>5 DEF Books, LedgerMatched
  <2>2. /\ \A k \in Key \ Card : roots'[k] = roots[k]
        /\ \A r \in Relation \ Seeded : relations'[r] = relations[r]
    BY <1>1 DEF SeedRoots, SeedRelations
  <2>3. ASSUME NEW r \in Relation \ Seeded, Live(relations[r])
        PROVE  roots'[Ends[r].root] = roots[Ends[r].root] /\ roots'[Ends[r].link] = roots[Ends[r].link]
    <3>1. relations[r] # None
      BY <2>3 DEF Live
    <3>2. builds > 0
      BY <3>1 DEF Base, CardsStand, TypeOK
    <3>3. \A k \in Card : roots[k] = CardRow(k)
      BY <3>2 DEF Base, CardsStand
    <3>4. \A k \in Key : roots'[k] = roots[k]
      BY <1>1, <3>3 DEF SeedRoots
    <3>5. QED
      BY <3>4, EngineAssumption
  <2>4. \A k \in Key \ Card : Undeleted("root", k, signed) \ left = Current(roots'[k])
    BY <2>1, <2>2 DEF Matched
  <2>5. \A r \in Relation \ Seeded : Undeleted("binding", r, signed) = Current(relations'[r])
    BY <2>1, <2>2 DEF Matched
  <2>6. ASSUME NEW r \in Relation \ Seeded, NEW b \in signed,
               b.kind = "binding" /\ b.of = r /\ b.id \in Current(relations'[r])
                 /\ {b.root, b.link} \cap left = {}
        PROVE  {b.root} = Current(roots'[Ends[r].root]) /\ {b.link} = Current(roots'[Ends[r].link])
    <3>1. b.id \in Current(relations[r]) /\ Live(relations[r])
      BY <2>2, <2>6 DEF Current
    <3>2. {b.root} = Current(roots[Ends[r].root]) /\ {b.link} = Current(roots[Ends[r].link])
      BY <2>1, <2>6, <3>1 DEF Matched
    <3>3. QED
      BY <2>3, <3>1, <3>2
  <2>7. QED
    BY <1>1, <2>4, <2>5, <2>6 DEF Matched
<1>6. QED
  BY <1>1, <1>3, <1>4, <1>5 DEF Books, LedgerMatched

LEMMA RunEngineBooks ==
  ASSUME Base, Books, RunEngine
  PROVE  Books'
<1> DEFINE d == outcome.dataset
<1>1. /\ stage = "engine" /\ stage' = "signed" /\ d \in Dataset
      /\ outcome.events = {} /\ outcome'.events = Events(roots, relations, d)
      /\ UNCHANGED <<roots, relations, file, builds, relay, signed, left, clean>>
  BY DEF RunEngine, ledgerVars, Base, TypeOK, Staged
<1> HIDE DEF d
<1>2. All = signed /\ All' = signed \cup Events(roots, relations, d)
  BY <1>1 DEF All, Unsent
<1>3. DeliveredWhole' /\ LedgerMatched'
  BY <1>1 DEF Books, DeliveredWhole, LedgerMatched
<1>4. DeletionsLookBack'
  <2>1. ASSUME NEW e \in Events(roots, relations, d), e.kind = "deletion"
        PROVE  e.target[1] \in 0..e.id[1] - 1
    <3>1. e.target \in DeletedBy(Events(roots, relations, d))
      BY <2>1 DEF DeletedBy
    <3>2. Old(e.target)
      BY <1>1, <3>1, BatchDeletes
    <3>3. e.id[1] = builds
      BY BatchIds, OldAndNew
    <3>4. QED
      BY <3>2, <3>3 DEF Old
  <2>2. QED
    BY <1>2, <2>1 DEF Books, DeletionsLookBack
<1>5. QED
  BY <1>3, <1>4 DEF Books

LEMMA UpsertRootsBooks ==
  ASSUME Base, Books, UpsertRoots
  PROVE  Books'
<1> DEFINE d == outcome.dataset
           gone == {roots[j].event : j \in {i \in Key : Retired(i, roots[i], d.roots[i])}}
<1>1. /\ stage = "signed" /\ stage' = "rooted"
      /\ roots' = RootRows(roots, d) /\ outcome.relations = RelationRows(roots, relations, d)
      /\ left' = left \cup gone
      /\ UNCHANGED <<relations, file, outcome, builds, relay, signed, clean>>
  BY RootsUpserted
<1>2. All = signed \cup Events(roots, relations, d) /\ All' = All
  BY <1>1, Batch DEF All, Unsent
<1>3. clean => Matched(roots', outcome.relations, All, left')
  <2>1. clean => Matched(roots, relations, signed, left)
    BY <1>1 DEF Books, LedgerMatched
  <2>2. clean => Matched(RootRows(roots, d), RelationRows(roots, relations, d),
                         signed \cup Events(roots, relations, d), left \cup gone)
    BY <1>1, <2>1, BatchMatches DEF Books
  <2> HIDE DEF d, gone
  <2>3. QED
    BY <1>1, <1>2, <2>2
<1> HIDE DEF d, gone
<1>4. DeliveredWhole' /\ DeletionsLookBack'
  BY <1>1, <1>2 DEF Books, DeliveredWhole, DeletionsLookBack
<1>5. LedgerMatched'
  BY <1>1, <1>2, <1>3 DEF LedgerMatched
<1>6. QED
  BY <1>4, <1>5 DEF Books

LEMMA LaterBooks ==
  ASSUME Base, Books, UpsertRelations \/ WriteArtifacts
  PROVE  Books'
<1>1. CASE UpsertRelations
  <2>1. /\ stage = "rooted" /\ stage' = "applied" /\ relations' = outcome.relations
        /\ UNCHANGED <<roots, file, outcome, relay, signed, left, clean>>
    BY <1>1 DEF UpsertRelations
  <2>2. All' = All
    BY <2>1 DEF All, Unsent
  <2>3. QED
    BY <2>1, <2>2 DEF Books, DeliveredWhole, DeletionsLookBack, LedgerMatched
<1>2. CASE WriteArtifacts
  <2>1. /\ stage = "applied" /\ stage' = "idle"
        /\ file' = outcome.events /\ signed' = signed \cup outcome.events
        /\ UNCHANGED <<roots, relations, relay, left, clean>>
    BY <1>2 DEF WriteArtifacts, ledgerVars
  <2>2. All' = All /\ signed' = All
    BY <2>1 DEF All, Unsent
  <2>3. DeliveredWhole'
    <3>1. Ids(signed') = Ids(signed) \cup Ids(file')
      BY <2>1 DEF Ids
    <3>2. QED
      BY <2>1, <3>1 DEF Books, DeliveredWhole
  <2>4. DeletionsLookBack' /\ LedgerMatched'
    BY <2>1, <2>2 DEF Books, DeletionsLookBack, LedgerMatched
  <2>5. QED
    BY <2>3, <2>4 DEF Books
<1>3. QED
  BY <1>1, <1>2

LEMMA AsideBooks ==
  ASSUME Base, Books, Aside
  PROVE  Books'
<1>1. /\ UNCHANGED <<roots, relations, file, signed, left>> /\ relay \subseteq relay'
      /\ \/ stage' = "idle" /\ outcome' = None
         \/ UNCHANGED <<stage, outcome>>
      /\ \/ clean' = clean /\ (stage = "idle" \/ stage' = stage)
         \/ clean' = clean /\ stage \notin {"rooted", "applied"}
         \/ clean' = FALSE
  BY DEF Aside
<1>2. All' \subseteq All /\ (stage' = stage => All' = All)
  BY <1>1 DEF All, Unsent
<1>3. DeliveredWhole'
  BY <1>1 DEF Books, DeliveredWhole
<1>4. DeletionsLookBack'
  BY <1>2 DEF Books, DeletionsLookBack
<1>5. LedgerMatched'
  <2>1. CASE stage' = stage
    <3>1. stage' = "idle" \/ outcome' = outcome
      BY <1>1
    <3>2. clean' => clean
      BY <1>1
    <3>3. QED
      BY <1>1, <1>2, <2>1, <3>1, <3>2 DEF Books, LedgerMatched
  <2>2. CASE stage' # stage
    <3>1. stage' = "idle" /\ (clean' => clean /\ stage \in {"idle", "engine", "signed"})
      BY <1>1, <2>2 DEF Base, TypeOK
    <3>2. QED
      BY <1>1, <3>1 DEF Books, LedgerMatched
  <2>3. QED
    BY <2>1, <2>2
<1>6. QED
  BY <1>3, <1>4, <1>5 DEF Books

-----------------------------------------------------------------------------
(* The theorems *)

LEMMA InitHolds == Init => EngineInv
<1> SUFFICES ASSUME Init PROVE EngineInv
  OBVIOUS
<1>1. planned = None /\ stage = "idle"
  BY DEF Init
<1>2. QED
  BY <1>1, InitBase, InitChains, InitBooks DEF EngineInv, PlanSettled

LEMMA StepHolds == EngineInv /\ [Next]_vars => EngineInv'
<1> SUFFICES ASSUME EngineInv, [Next]_vars PROVE EngineInv'
  OBVIOUS
<1> USE DEF EngineInv
<1>1. PlanSettled'
  BY PlanStep
<1>2. ASSUME NEW d \in Dataset, Build(d) PROVE Base' /\ Chains' /\ Books'
  BY <1>2, BuildBase, BuildChains, BuildBooks
<1>3. CASE RunEngine
  BY <1>1, <1>3, RunEngineBase, RunEngineChains, RunEngineBooks
<1>4. CASE UpsertRoots
  BY <1>1, <1>4, UpsertRootsBase, UpsertRootsChains, UpsertRootsBooks
<1>5. CASE UpsertRelations
  BY <1>1, <1>5, UpsertRelationsBase, LaterChains, LaterBooks
<1>6. CASE WriteArtifacts
  BY <1>1, <1>6, WriteArtifactsBase, LaterChains, LaterBooks
<1>7. CASE Aside
  BY <1>1, <1>7, AsideBase, AsideChains, AsideBooks
<1>8. QED
  BY <1>1, <1>2, <1>3, <1>4, <1>5, <1>6, <1>7, StepsAside DEF Next

\* The inductive invariant holds at every point of every build, run of the publisher and
\* end of the process.
THEOREM EngineInvariant == Spec => []EngineInv
BY InitHolds, StepHolds, PTL DEF Spec

\* The ledger, the files and the builds have their types, for any source.
THEOREM EngineTypes == Spec => []TypeOK
<1>1. EngineInv => TypeOK
  BY DEF EngineInv, Base
<1>2. QED
  BY <1>1, EngineInvariant, PTL

\* Building again what was built last signs nothing, for any dataset: runEngine is
\* idempotent over the rows it wrote, under the same template version or a later one.
THEOREM BuildsAreIdempotent == Spec => []RebuildIsNoOp
<1>1. EngineInv => RebuildIsNoOp
  <2> SUFFICES ASSUME EngineInv, planned # None,
                      NEW e \in Events(SeedRoots(roots), SeedRelations(relations, planned), planned)
               PROVE  e.of \in Seeded
    BY DEF RebuildIsNoOp
  <2>1. Base /\ planned \in Dataset /\ Settled(roots, relations, planned)
    BY DEF EngineInv, Base, TypeOK, PlanSettled
  <2>2. \A k \in Key : SeedRoots(roots)[k] = roots[k]
    BY <2>1 DEF SeedRoots, Settled
  <2>3. \A r \in Relation \ Seeded : SeedRelations(relations, planned)[r] = relations[r]
    BY DEF SeedRelations
  <2>4. \A k \in Key : SeedRoots(roots)[k] \in LedgerRoot(k) \cup {None}
    BY <2>1, <2>2 DEF Base, TypeOK
  <2>5. Settled(SeedRoots(roots), SeedRelations(relations, planned), planned)
    <3>1. Card \subseteq Key /\ \A r \in Relation : Ends[r].root \in Key /\ Ends[r].link \in Key
      BY EngineAssumption DEF Key
    <3>2. QED
      BY <2>1, <2>2, <2>3, <3>1 DEF Settled
  <2>6. QED
    BY <2>1, <2>4, <2>5, SettledIsNoOp
<1>2. QED
  BY <1>1, EngineInvariant, PTL

\* A patch on the relay applies to the event it names, for any number of builds: the chain
\* that the ledger's tips spell is the chain a reader finds, through crashes, lost batches
\* and an undelivered file, as long as the gate was not overridden.
THEOREM ChainsApply == Spec => []PatchesApply
<1>1. EngineInv => PatchesApply
  <2> SUFFICES ASSUME EngineInv,
                      NEW p \in {e \in signed : e.kind = "patch" /\ e.id \in relay
                                                  /\ e.parent \notin noted \cup ungated}
               PROVE  /\ p.parent \in relay
                      /\ \A e \in signed : e.id = p.parent => e.of = p.of /\ e.content = p.from
                      /\ \A e \in signed : e.kind = "patch" /\ e.parent = p.parent => e = p
    BY DEF PatchesApply
  <2>1. signed \subseteq All /\ \A e \in signed : e.kind = "patch" => e \in Patches
    BY DEF All, Patches
  <2>2. PatchFollows(p)
    BY <2>1 DEF EngineInv, Chains
  <2>3. QED
    BY <2>1, <2>2 DEF PatchFollows, Landed
<1>2. QED
  BY <1>1, EngineInvariant, PTL

\* Once a batch is delivered and none was cut short, the relay holds what the ledger says,
\* for any records and relations.
THEOREM RelayFollowsLedger == Spec => []LedgerIsRelay
<1>1. EngineInv => LedgerIsRelay
  <2> SUFFICES ASSUME EngineInv, clean, stage = "idle", Ids(file) \subseteq relay
               PROVE
        /\ \A k \in Key \ Card : Ids(Standing("root", k)) \ left = Current(roots[k])
        /\ \A r \in Relation \ Seeded :
             /\ Ids(Standing("binding", r)) = Current(relations[r])
             /\ \A b \in Standing("binding", r) : {b.root, b.link} \cap left = {} =>
                  {b.root} = Current(roots[Ends[r].root]) /\ {b.link} = Current(roots[Ends[r].link])
    BY DEF LedgerIsRelay
  <2>1. Ids(signed) \subseteq relay /\ Matched(roots, relations, signed, left)
    BY DEF EngineInv, Books, DeliveredWhole, LedgerMatched
  <2>2. Deleted = DeletedBy(signed)
    <3>1. \A e \in signed : e.id \in relay
      BY <2>1 DEF Ids
    <3>2. QED
      BY <3>1 DEF Deleted, DeletedBy
  <2>3. \A kind, of : Ids(Standing(kind, of)) = Undeleted(kind, of, signed)
    BY <2>1, <2>2 DEF Standing, Undeleted, Ids
  <2>4. ASSUME NEW r \in Relation \ Seeded, NEW b \in Standing("binding", r),
               {b.root, b.link} \cap left = {}
        PROVE  {b.root} = Current(roots[Ends[r].root]) /\ {b.link} = Current(roots[Ends[r].link])
    <3>1. b \in signed /\ b.kind = "binding" /\ b.of = r /\ b.id \in Ids(Standing("binding", r))
      BY DEF Standing, Ids
    <3>2. b.id \in Current(relations[r])
      BY <2>1, <2>3, <3>1 DEF Matched
    <3>3. QED
      BY <2>1, <2>4, <3>1, <3>2 DEF Matched
  <2>5. QED
    BY <2>1, <2>3, <2>4 DEF Matched
<1>2. QED
  BY <1>1, EngineInvariant, PTL
=============================================================================
