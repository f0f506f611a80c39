------------------------------- MODULE Mirroring -------------------------------
(***************************************************************************)
(* The way of a dataset through the system: the mirror loads an export,    *)
(* plans from it, signs the difference to its ledger and publishes the     *)
(* batch; the gates of the relay take or refuse each event; a reader       *)
(* traverses from one event and judges what it is given; others write to   *)
(* the relay as well.                                                      *)
(*                                                                         *)
(* What interrupts a build or a publication is in Engine and Publisher;    *)
(* here a batch is published event by event, in order, once.  The ledger   *)
(* has a row for every card that leg 1 has published.                      *)
(***************************************************************************)
EXTENDS Emission, Validity, Discovery

CONSTANTS
  Exports,      \* for each build in turn, the exports it may be given
  Cards,        \* the anchors of the cards of leg 1
  Stranger,     \* another publisher the relay admits
  Watched,      \* the root keys a reader may look up
  MaxContent, MaxIndexableTags  \* of the relay; the content in texts

VARIABLES
  rows, bonds, \* the ledger: root key -> row, relation id -> row
  plan,        \* the plan of a build, until its batch is published
  source,      \* and its export
  aborted,     \* whether that build ended with an error
  batch,       \* what is signed and not sent
  builds,
  relay,       \* the events stored by the relay
  focus,       \* the event that a reader starts from
  seen         \* what it has been given

mirrorVars == <<rows, bonds, plan, source, aborted, batch, builds>>
vars == <<mirrorVars, relay, focus, seen>>

-----------------------------------------------------------------------------
(* The relay *)

NoTwins(tag) == {}

Relay == INSTANCE RelayGate WITH
  CanonicalTags <- EVENT_TYPE_TAGS, Twins <- NoTwins, Loopback <- {}, MaxPast <- 1, MaxFuture <- 1,
  MaxFilterAuthors <- 1, MaxFilterIDs <- 1, MaxFilterTagValues <- 1, UNSET <- None, BAD <- NoEvent

RelayConfig ==
  [allowedPubkeys |-> {Mirror, Stranger}, acceptedTags |-> EVENT_TYPE_TAGS, maxEventPastAge |-> 1]

\* What the gates look at, of an event sent by its author when it is signed.
Written(event) ==
  [author |-> event.author, kind |-> event.kind, t |-> ToSet(event.t), created_at |-> 0,
   content |-> SizeOf(event.content),
   indexable |-> Len(event.t) + Len(event.i) + Len(event.k) + Len(event.e)]

Admits(event) == Relay!WriteGate(RelayConfig, event.author, Written(event), 0) = ""

-----------------------------------------------------------------------------
(* The mirror *)

CardEvent(anchor) ==
  BuildIndexed("scrutiny-product", Mirror, 0, <<>>, <<Line("headline", <<anchor>>, 0)>>)

CardRow(anchor) ==
  [event |-> CardEvent(anchor), tip |-> CardEvent(anchor), content |-> CardEvent(anchor).content,
   iSet |-> <<>>, imeta |-> 0]

Init ==
  /\ rows = [key \in {<<"jcalgtest", anchor, "product">> : anchor \in Cards} |-> CardRow(key[2])]
  /\ bonds = <<>>
  /\ plan = None /\ source = None /\ aborted = FALSE /\ batch = <<>> /\ builds = 0
  /\ relay = {CardEvent(anchor) : anchor \in Cards}
  /\ focus = NoEvent /\ seen = {}

\* emitSeccertsBundle, from the export to the batch; a build that fails leaves nothing.
Build(data) ==
  /\ batch = <<>> /\ focus = NoEvent
  /\ builds < Len(Exports) /\ data \in Exports[builds + 1]
  /\ builds' = builds + 1
  /\ source' = data
  /\ \E planned \in {With(LoadSeccerts(data), PlanBundle)} :
     \E run \in {RunEngine(planned, rows, bonds, builds')} :
       /\ plan' = planned
       /\ aborted' = (planned.aborted \/ run.thrown)
       /\ rows' = IF aborted' THEN rows ELSE run.rows
       /\ bonds' = IF aborted' THEN bonds ELSE run.bonds
       /\ batch' = IF aborted' THEN <<>> ELSE run.batch
  /\ UNCHANGED <<relay, focus, seen>>

\* The next event of the batch is sent; one that is refused is not sent again.
Publish ==
  /\ batch # <<>>
  /\ batch' = Tail(batch)
  /\ relay' = IF Admits(Head(batch)) THEN relay \cup {Head(batch)} ELSE relay
  /\ plan' = None /\ source' = None
  /\ UNCHANGED <<rows, bonds, aborted, builds, focus, seen>>

-----------------------------------------------------------------------------
(* A reader *)

\* A record is looked up: its root, or the patch that is the tip of it.
Watch(event) ==
  /\ batch = <<>> /\ focus = NoEvent
  /\ \E key \in Watched \cap DOMAIN rows : event \in {rows[key].event, rows[key].tip} \cap relay
  /\ focus' = event
  /\ plan' = None /\ source' = None
  /\ UNCHANGED <<rows, bonds, aborted, batch, builds, relay, seen>>

\* What another author may write about an event: overlays on it, on its patches and on
\* an overlay, bindings from it, patches with a broken payload, with too many roots or
\* with too many types.
Answers(event) ==
  LET text == <<Line("answer", <<>>, 0)>>
      new == BuildIndexed("scrutiny-metadata", Stranger, 0, <<>>, text)
      overlay == BuildPatch(Stranger, 0, event, event, text)
  IN {{overlay}, {overlay, BuildPatch(Stranger, 0, event, overlay, text)},
      {BuildBinding(Stranger, 0, event, event, text)},
      {BuildBinding(Stranger, 0, event, new, text)},
      {BuildBinding(Stranger, 0, event, new, text), new},
      {[overlay EXCEPT !.blocks[1].payload = <<"git metadata", "--- a/content", "+++ b/content">>]},
      {[overlay EXCEPT !.e = Append(@, ETag(new, "root", Stranger))]},
      {[overlay EXCEPT !.t = Append(@, "scrutiny-binding")]}}
     \cup {{BuildPatch(Stranger, 0, event, patch, text)} :
             patch \in Found(relay, PatchesReferencing(event))}

\* One author answers, once.
Answer(events) ==
  /\ focus # NoEvent /\ seen = {}
  /\ \A event \in relay : event.author # Stranger
  /\ \A event \in events : Admits(event)
  /\ relay' = relay \cup events
  /\ UNCHANGED <<mirrorVars, focus, seen>>

NamedBy(events) == UNION {{tag.id : tag \in ToSet(event.e)} : event \in events}

\* What the queries of the traversal are answered with: what names the focus, and by
\* their ids the focus and what the events given so far name.
Given ==
  UNION {Found(relay, filter) :
           filter \in {BindingsReferencing(focus), PatchesReferencing(focus), DeletionsFor(focus),
                      EventsById({focus} \cup NamedBy(seen))}}

\* The relay answers in any order, and other queries are asked meanwhile.
Receive(event) ==
  /\ event \notin seen
  /\ seen' = seen \cup {event}
  /\ UNCHANGED <<mirrorVars, relay, focus>>

Next ==
  \/ \E data \in UNION Range(Exports) : Build(data)
  \/ Publish
  \/ \E event \in relay : Watch(event)
  \/ focus # NoEvent /\ \E events \in Answers(focus) : Answer(events)
  \/ focus # NoEvent /\ \E event \in Given : Receive(event)

Spec == Init /\ [][Next]_vars

-----------------------------------------------------------------------------
(* Properties *)

Digests(data) == {Mapped(LAMBDA doc : doc.dgst, data[corpus]) : corpus \in {"cc", "eucc", "pp", "fips"}}

\* No digest and no pair of a card and a certificate is there twice.
WellKeyed(data) ==
  /\ \A digests \in Digests(data) : IsInjective(digests)
  /\ IsInjective(Mapped(LAMBDA doc : doc.dgst, data.maintenance))
  /\ IsInjective(LoadCrosslinks(data))

\* An export that names every record once makes a plan, whatever it says of them: no
\* root and no relation is planned twice, and what is signed passes the assertions of
\* the emit layer (plan.ts:92, content.ts:256).  The plan is closed: its relations end
\* at planned roots, at cards or at certificates the export lacks, and the ids by which
\* rows of the ledger are retired are those of the planned records.
PlanIsWhole ==
  plan # None /\ WellKeyed(source) =>
    LET keys == {root.key : root \in ToSet(plan.roots)}
    IN /\ ~aborted
       /\ \A r \in ToSet(plan.relations) : \A key \in {r.root, r.link} :
            key \in keys \/ key[1] = "jcalgtest" \/ (key[1] = "cc" /\ r.cls \in {"maintenance", None})
       /\ \A corpus \in {"cc", "eucc", "pp", "fips", "global"} :
            plan.sourceIdsByCorpus[corpus] =
              {key[2] : key \in {k \in keys : k[1] = corpus /\ k[3] \notin {"corpus", "snapshot"}}}

\* What the estimate of the planner says fits is not refused by the relay, although the
\* estimate leaves out some of the t tags and the e tag; what it says does not fit has
\* nothing left but the essentials; and nothing is dropped in vain (roots.ts:505-537).
TagBudgetHolds ==
  plan # None /\ ~aborted =>
    /\ \A event \in ToSet(batch) : ~Admits(event) =>
         \E root \in ToSet(plan.roots) : Over(root.iSet, root.imeta) /\ Deduped(root.iSet) = event.i
    /\ \A record \in ToSet(LoadCc(source) \o LoadEucc(source)) :
         LET tags == CertTags(record)
             kept == tags.core \o tags.unresolved \o tags.tail
             all == tags.core \o Values("pp", record.ppRefsUnresolved) \o TailTags(record)
         IN /\ Over(kept, Artifacts(record)) => tags.unresolved = <<>> /\ Len(tags.tail) <= 5
            /\ kept # all => Estimate(kept, Artifacts(record)) + 2 > TotalTagBudget

DeletedOnRelay == {event.e[1].id : event \in {e \in relay : e.kind = 5}}

\* The event, or else what it replaces, can be read at the relay.
Readable(event, replaced) ==
  LET standing == relay \ DeletedOnRelay
  IN \/ event \in standing
     \/ event \in ToSet(batch) /\ (replaced = NoEvent \/ replaced \in standing)

\* While a batch is being published no root and no binding of the ledger is missing from
\* the relay: its replacement is there before its deletion is (engine.ts:32); but for
\* what the relay has refused, and for roots of records that went away.
ReplacedBeforeDeleted ==
  /\ \A key \in DOMAIN rows :
       LET supersedes == Marked(rows[key].event, "supersedes")
       IN Admits(rows[key].event) =>
            Readable(rows[key].event, IF supersedes = <<>> THEN NoEvent ELSE Head(supersedes).id)
  /\ \A id \in DOMAIN bonds : Readable(bonds[id].event, bonds[id].replaces)

Asked == Given \subseteq seen

\* What the mirror has built and the gate has nothing against is valid for every reader
\* that has asked for what it names: the gate does not look at the ends of a binding.
GatedIsValid ==
  focus # NoEvent /\ Asked =>
    \A event \in seen :
      event.author = Mirror /\ event.kind = 1 /\ GateFindings(event) = {} =>
        ValidateEvent(event, seen) = "valid"

\* A record is found by a full scan and by each of the indexers the ledger has for it,
\* and a reader who looks it up by its root is given what the ledger says of it: the
\* tip of its chain with what that replies to, and every binding of a live row that is
\* anchored there, in its role and with its other end.
LedgerIsFound ==
  focus # NoEvent /\ Asked =>
    /\ \A key \in DOMAIN rows :
         rows[key].event = focus =>
           /\ Matches(focus, FullScanFilter({}))
           /\ \A value \in ToSet(rows[key].iSet) : Matches(focus, IndexerFilter({value}))
           /\ {rows[key].tip} \cup {tag.id : tag \in ToSet(Marked(rows[key].tip, "reply"))} \subseteq seen
    /\ \A id \in DOMAIN bonds :
         LET binding == bonds[id].event
             ends == {tag \in ToSet(binding.e) : tag.id = focus}
         IN ends # {} =>
              /\ \E end \in ends : <<binding, end.marker>> \in ClassifyByRole(seen, focus, "binding")
              /\ NamedBy({binding}) \subseteq seen

\* A verdict that is not pending is final, whatever is observed later (BD-7, UR-3).
VerdictsOnlySettle ==
  [][\A event \in seen :
       ValidateEvent(event, seen) # "pending" =>
         ValidateEvent(event, seen') = ValidateEvent(event, seen)]_seen
=============================================================================
