-------------------------------- MODULE Events --------------------------------
(***************************************************************************)
(* The events of the wire with their tags, as packages/core/src/events.ts  *)
(* reads them and build.ts, in the same package, makes them.  Module       *)
(* Fabric has the same events with only what the store tells apart.        *)
(*                                                                         *)
(* An event is its own id: an e tag holds the event it names.  A t value   *)
(* is a string, an i value a prefix and a text, an e tag an id, a marker   *)
(* and an author hint.  `at` stands for created_at, `refs` for the Refs    *)
(* line of a binding, `imeta` counts the attachments.  A fenced block of a *)
(* content is a record of whether its fence is of backticks, whether its   *)
(* info string names a diff, and what its lines are.                       *)
(***************************************************************************)
EXTENDS Integers, Sequences, FiniteSets, SequencesExt

FABRIC == "scrutiny-fabric"
VERSION == "scrutiny-v0.8.1"

\* What a version tag may look like: the current form, and the one grandfathered.
VERSION_TAGS == {VERSION, "scrutiny-v059"}

TYPE_BY_TAG ==
  [t \in {"scrutiny-product", "scrutiny-metadata", "scrutiny-binding", "scrutiny-patch"} |->
    CASE t = "scrutiny-product" -> "product"
      [] t = "scrutiny-metadata" -> "metadata"
      [] t = "scrutiny-binding" -> "binding"
      [] t = "scrutiny-patch" -> "patch"]

EVENT_TYPE_TAGS == DOMAIN TYPE_BY_TAG

Selected(seq, keep) == SelectSeq(seq, LAMBDA x : x \in keep)

\* What Op makes of a value; for TLC the value is worked out once.
With(value, Op(_)) == CHOOSE result \in {Op(x) : x \in {value}} : TRUE

Mapped(Op(_), seq) == <<>> \o [i \in DOMAIN seq |-> With(seq[i], Op)]

\* Every element of a sequence once, where it is met first.
Deduped(seq) == FoldLeft(LAMBDA out, x : IF x \in ToSet(out) THEN out ELSE Append(out, x), <<>>, seq)

CountOf(seq, set) == Len(Selected(seq, set))

TypeTags(event) == Selected(event.t, EVENT_TYPE_TAGS)

IsScrutinyEvent(event) == FABRIC \in ToSet(event.t)

\* The type of an event with one type tag; an event with none or several has no type.
ScrutinyEventType(event) ==
  IF Len(TypeTags(event)) = 1 THEN TYPE_BY_TAG[Head(TypeTags(event))] ELSE "none"

VersionTags(event) == Selected(event.t, VERSION_TAGS)

Marked(event, marker) == SelectSeq(event.e, LAMBDA tag : tag.marker = marker)

-----------------------------------------------------------------------------
(* build.ts *)

\* An e tag without a marker or a hint has "" for it.
ETag(id, marker, hint) == [id |-> id, marker |-> marker, hint |-> hint]

Event(author, at, kind, t, i, k, e, content) ==
  [author |-> author, at |-> at, kind |-> kind, t |-> t, i |-> i, k |-> k, e |-> e,
   imeta |-> 0, content |-> content, blocks |-> <<>>, refs |-> <<>>]

\* indexerTags: a kind for every prefix of an indexer.
KTagsFor(i) == Deduped(Mapped(LAMBDA value : value[1], i))

BuildIndexed(type, author, at, indexers, content) ==
  Event(author, at, 1, <<FABRIC, VERSION, type>>, indexers, KTagsFor(indexers), <<>>, content)

BuildBinding(author, at, root, link, content) ==
  Event(author, at, 1, <<FABRIC, VERSION, "scrutiny-binding">>, <<>>, <<>>,
        <<ETag(root, "root", root.author), ETag(link, "link", link.author)>>, content)

DiffBlock ==
  [backticks |-> TRUE, diff |-> TRUE, payload |-> <<"--- a/content", "+++ b/content", "hunk">>]

\* What the payload does is module Patch's.
BuildPatch(author, at, root, reply, content) ==
  [Event(author, at, 1, <<FABRIC, VERSION, "scrutiny-patch">>, <<>>, <<>>,
         <<ETag(root, "root", root.author), ETag(reply, "reply", reply.author)>>, content)
     EXCEPT !.blocks = <<DiffBlock>>]
=============================================================================
