------------------------------- MODULE Emission -------------------------------
(***************************************************************************)
(* From the plan to signed events, and the gate over them: the builders    *)
(* and the assertions of packages/mirror/src/emit (content.ts, binding.ts, *)
(* deletion.ts), what runEngine (emit/seccerts/engine.ts) makes of one     *)
(* root or relation, and the gate (gate/verify.ts, gate/selfConsume.ts,    *)
(* gate/scorer.ts).  Retired rows and template versions are Engine's.      *)
(***************************************************************************)
EXTENDS Planning

CONSTANTS
  Mirror,     \* the key of the mirror
  NoEvent,
  MaxITags,   \* MAX_I_TAGS: 64
  ListCap     \* how many values a list of a notice names: 8

RootTags == {"scrutiny-product", "scrutiny-metadata"}

RootType(role) ==
  IF role \in {"product", "corpus"} THEN "scrutiny-product" ELSE "scrutiny-metadata"

BaseTags(type, facets) == <<FABRIC, type, VERSION>> \o SetToSeq(facets)

-----------------------------------------------------------------------------
(* Rule 2a: the facts of the record card and of the i tags are prose as well *)

\* Leading whitespace does not hide a card: a context line of a diff is one.
CardLines(content) == SelectSeq(content, LAMBDA line : line.line = "card" /\ line.mark = " ")

Shown(content) ==
  UNION {ToSet(line.shows) : line \in {l \in ToSet(content) : l.line # "card" \/ l.mark # " "}}

LostFacts(event) ==
  (UNION {ToSet(line.shows) : line \in ToSet(CardLines(event.content))}
     \cup {value[2] : value \in ToSet(event.i)})
    \ Shown(event.content)

\* assertEventShape: what is thrown for.
WellShaped(event) ==
  /\ CountOf(event.t, {FABRIC}) = 1 /\ CountOf(event.t, {VERSION}) = 1
  /\ CountOf(event.t, RootTags \cup {"scrutiny-binding"}) = 1
  /\ Len(event.i) <= MaxITags
  /\ \A value \in ToSet(event.i) : value[1] \in ToSet(event.k)
  /\ event.content # <<>>

\* assertEventShape and assertRule2a let the event pass.
Emittable(event) ==
  WellShaped(event) /\ Len(CardLines(event.content)) <= 1 /\ LostFacts(event) = {}

-----------------------------------------------------------------------------
(* The builders *)

\* buildRootEvent
RootEvent(root, content, supersedes, at) ==
  LET i == Deduped(root.iSet)
      e == IF supersedes = NoEvent THEN <<>> ELSE <<ETag(supersedes, "supersedes", "")>>
  IN [Event(Mirror, at, 1, BaseTags(RootType(root.key[3]), root.facets), i, KTagsFor(i), e, content)
        EXCEPT !.imeta = root.imeta]

\* The lines of a diff: the changed ones, old and new, and three lines around them.
DiffLines(old, new) ==
  LET changed == {n \in DOMAIN new : old[n] # new[n]}
      Diff(n) ==
        CASE n \in changed -> <<[old[n] EXCEPT !.mark = "-"], [new[n] EXCEPT !.mark = "+"]>>
          [] n \notin changed /\ \E m \in changed : m - n \in -3..3 -> <<new[n]>>
          [] OTHER -> <<>>
  IN FlattenSeq([n \in DOMAIN new |-> Diff(n)])

\* buildPatchEvent
PatchEvent(root, row, content, at) ==
  [Event(Mirror, at, 1, BaseTags("scrutiny-patch", root.facets), <<>>, <<>>,
         <<ETag(row.event, "root", Mirror), ETag(row.tip, "reply", Mirror)>>,
         <<Line("update", <<root.key[2]>>, 0)>> \o DiffLines(row.content, content))
     EXCEPT !.blocks = <<DiffBlock>>]

\* A fault: the ends of the edge are mixed up.
CrossedBinding(relation, root, link, at) ==
  [Event(Mirror, at, 1, BaseTags("scrutiny-binding", {"sec-certs"}), <<>>, <<>>,
         <<ETag(link, "root", Mirror), ETag(root, "link", Mirror)>>,
         <<Line(relation.id[2], relation.labels, 0), Line("refs", <<>>, 0)>>)
     EXCEPT !.refs = <<link, root>>]

\* buildRelationBinding, buildBinding
BindingEvent(relation, root, link, at) ==
  [Event(Mirror, at, 1, BaseTags("scrutiny-binding", {"sec-certs"}), <<>>, <<>>,
         <<ETag(root, "root", Mirror), ETag(link, "link", Mirror)>>,
         <<Line(relation.id[2], relation.labels, 0), Line("refs", <<>>, 0)>>)
     EXCEPT !.refs = <<root, link>>]

\* buildDeletion
DeletionEvent(target, at) ==
  Event(Mirror, at, 5, <<FABRIC, VERSION>>, <<>>, <<>>, <<ETag(target, "", "")>>,
        <<Line("deletion", <<>>, 0)>>)

-----------------------------------------------------------------------------
(* runEngine, for one root *)

IsNotice(line) == line.line = "notice"

\* insertSupersedesLine: before the blank line above the card.
InsertSupersedesLine(content, notice) ==
  SubSeq(content, 1, Len(content) - 2) \o <<Blank, notice>>
    \o SubSeq(content, Len(content) - 1, Len(content))

NoticesOf(content) == SelectSeq(content, IsNotice)

\* The wanted content with the notice of the stored one.
EffectiveContent(root, row) ==
  IF NoticesOf(row.content) = <<>> THEN root.content
  ELSE InsertSupersedesLine(root.content, Head(NoticesOf(row.content)))

SameTags(root, row) == root.iSet = row.iSet /\ root.imeta = row.imeta

\* The notice names the superseded event and the i values that came and went.
Notice(root, row) ==
  LET added == SelectSeq(root.iSet, LAMBDA value : value \notin ToSet(row.iSet))
      removed == SelectSeq(row.iSet, LAMBDA value : value \notin ToSet(root.iSet))
      Texts(values) == Mapped(LAMBDA value : value[2], FirstOf(values, ListCap))
  IN Line("notice", Texts(added) \o Texts(removed), row.event.at)

\* The decision about a planned root, `row` being its live row or None, with the events
\* it signs and its new row.  The facets are no part of it.
Decide(root, row, at) ==
  LET effective == EffectiveContent(root, row)
      renewed == InsertSupersedesLine(root.content, Notice(root, row))
      Fresh(event, content, deletions) ==
        [signed |-> <<event>>, checked |-> TRUE, deletions |-> deletions, rerooted |-> deletions # <<>>,
         row |-> [event |-> event, tip |-> event, content |-> content,
                  iSet |-> root.iSet, imeta |-> root.imeta]]
      patch == PatchEvent(root, row, effective, at)
      successor == RootEvent(root, renewed, row.event, at)
  IN CASE row = None ->                                                        \* C1
            Fresh(RootEvent(root, root.content, NoEvent, at), root.content, <<>>)
       [] row # None /\ SameTags(root, row) /\ row.content = effective ->       \* C2
            [signed |-> <<>>, checked |-> TRUE, deletions |-> <<>>, rerooted |-> FALSE, row |-> row]
       [] row # None /\ SameTags(root, row) /\ row.content # effective ->       \* C3
            [signed |-> <<patch>>, checked |-> FALSE, deletions |-> <<>>, rerooted |-> FALSE,
             row |-> [row EXCEPT !.tip = patch, !.content = effective]]
       [] OTHER ->                                                             \* C4
            Fresh(successor, renewed, <<DeletionEvent(row.event, at)>>)

\* A fault: the deletions are not kept for last.
DeletionsFirst(fresh, bindings, patches, rerooted, deletions) ==
  deletions \o fresh \o bindings \o patches \o rerooted

\* The order of the batch; new roots stand in the order of the plan, which is that of
\* rootGroupRank.
Assembled(fresh, bindings, patches, rerooted, deletions) ==
  fresh \o bindings \o patches \o rerooted \o deletions

RowIn(table, key) == IF key \in DOMAIN table THEN table[key] ELSE None

\* The rows of records that went away (C5).
RetiredKeys(plan, rows) ==
  {key \in DOMAIN rows : /\ key[3] \in {"product", "metadata"}
                         /\ key[1] \in DOMAIN plan.sourceIdsByCorpus
                         /\ key[2] \notin plan.sourceIdsByCorpus[key[1]]}

\* C1-C4, for every planned root.
Decisions(plan, rows, at) ==
  Mapped(LAMBDA root : Decide(root, RowIn(rows, root.key), at), plan.roots)

RowsAfter(plan, rows, decided) ==
  [key \in {root.key : root \in ToSet(plan.roots)} |->
     decided[CHOOSE n \in DOMAIN plan.roots : plan.roots[n].key = key].row]
  @@ [key \in DOMAIN rows \ RetiredKeys(plan, rows) |-> rows[key]]

\* The re-rooted root that a relation is bound again with (R5).
Home(plan, decided, relation) ==
  LET moved == {plan.roots[n].key : n \in {m \in DOMAIN decided : decided[m].rerooted}}
  IN IF relation.root \in moved THEN relation.root
     ELSE IF relation.link \in moved THEN relation.link ELSE None

\* The relations with both ends that get a binding: new ones, changed ones and those at
\* a re-rooted root (R1, R3, R5), each with the event; the others stand (R2).  A row of
\* `bonds` is a relation and its binding, and as history the binding it replaced.
BondsMade(plan, rows, bonds, decided, at) ==
  LET live == SelectSeq(plan.relations, LAMBDA r : {r.root, r.link} \subseteq DOMAIN rows)
      Stands(r) == /\ RowIn(bonds, r.id) # None /\ bonds[r.id].relation = r
                   /\ Home(plan, decided, r) = None
      Made(r) == [relation |-> r, home |-> Home(plan, decided, r),
                  event |-> BindingEvent(r, rows[r.root].event, rows[r.link].event, at),
                  replaces |-> IF r.id \in DOMAIN bonds THEN bonds[r.id].event ELSE NoEvent]
  IN Mapped(Made, SelectSeq(live, LAMBDA r : ~Stands(r)))

\* The rows whose relation the plan has no more (R4).
Gone(plan, bonds) == DOMAIN bonds \ {r.id : r \in ToSet(plan.relations)}

BondsAfter(plan, bonds, made) ==
  [id \in {bond.relation.id : bond \in ToSet(made)} |->
     CHOOSE bond \in ToSet(made) : bond.relation.id = id]
  @@ [id \in DOMAIN bonds \ Gone(plan, bonds) |-> bonds[id]]

\* What is signed, in the order it is published.
Batch(plan, bonds, decided, made, at) ==
  LET SignedBy(Chosen(_)) ==
        FlattenSeq(Mapped(LAMBDA decision : decision.signed, SelectSeq(decided, Chosen)))
      BoundWith(home) ==
        Mapped(LAMBDA bond : bond.event, SelectSeq(made, LAMBDA bond : bond.home = home))
      unbound == SelectSeq(Mapped(LAMBDA bond : bond.replaces, made), LAMBDA event : event # NoEvent)
                   \o Mapped(LAMBDA id : bonds[id].event, SetToSeq(Gone(plan, bonds)))
  IN Assembled(
       SignedBy(LAMBDA decision : decision.checked /\ ~decision.rerooted),
       BoundWith(None),
       SignedBy(LAMBDA decision : ~decision.checked),
       FlattenSeq([n \in DOMAIN decided |->
                    IF decided[n].rerooted
                      THEN decided[n].signed \o BoundWith(plan.roots[n].key) ELSE <<>>]),
       FlattenSeq(Mapped(LAMBDA decision : decision.deletions, decided))
         \o Mapped(LAMBDA event : DeletionEvent(event, at), unbound))

\* runEngine; `thrown` says that an assertion ended the run.
RunEngine(plan, rows, bonds, at) ==
  With(Decisions(plan, rows, at), LAMBDA decided :
  With(RowsAfter(plan, rows, decided), LAMBDA rowsAfter :
  With(BondsMade(plan, rowsAfter, bonds, decided, at), LAMBDA made :
    [thrown |-> \E decision \in ToSet(decided) :
                  decision.checked /\ \E event \in ToSet(decision.signed) : ~Emittable(event),
     rows |-> rowsAfter, bonds |-> BondsAfter(plan, bonds, made),
     batch |-> Batch(plan, bonds, decided, made, at)])))

-----------------------------------------------------------------------------
(* The gate *)

\* verifyStoredEvent: the codes of what it finds.
VerifyStoredEvent(event) ==
  LET binding == TypeTags(event) = <<"scrutiny-binding">>
      roots == Marked(event, "root") links == Marked(event, "link")
      found ==
        [KIND |-> event.kind \notin {1, 5},
         KIND5REFS |-> event.kind = 5 /\ event.e = <<>>,
         TAG1 |-> CountOf(event.t, {FABRIC}) # 1,
         TAG2 |-> CountOf(event.t, {VERSION}) # 1,
         TAG3 |-> event.kind = 1 /\ Len(TypeTags(event)) # 1,
         IX2 |-> Len(event.i) > MaxITags,
         ITAGFORMAT |-> \E value \in ToSet(event.i) : value[2] \in Spaced,
         ITAGDUP |-> ~IsInjective(event.i),
         KCOVER |-> \E value \in ToSet(event.i) :
                      value[2] \notin Spaced /\ value[1] \notin ToSet(event.k),
         CONTENTEMPTY |-> event.content = <<>>,
         BDEROOT |-> binding /\ Len(roots) # 1,
         BDELINK |-> binding /\ Len(links) # 1,
         REFSLINE |-> binding /\ event.refs = <<>>,
         REFSTARGET |-> binding /\ event.refs # <<>> /\
                          \/ Len(roots) = 1 /\ Head(roots).id # event.refs[1]
                          \/ Len(links) = 1 /\ Head(links).id # event.refs[2]]
  IN {code \in DOMAIN found : found[code]}

\* gateEvents: the verifier and selfConsume, over every event of the batch.
GateFindings(event) ==
  VerifyStoredEvent(event)
    \cup (IF Len(CardLines(event.content)) > 1 THEN {"SELFCONSUMECARD"} ELSE {})
    \cup (IF LostFacts(event) # {} THEN {"LOSTFACT"} ELSE {})

\* scoreGate, without a probe: the batch may be published.
GateOk(batch) == \A event \in ToSet(batch) : GateFindings(event) = {}
=============================================================================
