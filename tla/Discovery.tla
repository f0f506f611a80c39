------------------------------- MODULE Discovery -------------------------------
(***************************************************************************)
(* Discovery and traversal: the filters of packages/core/src/query.ts and  *)
(* what a relay answers to them (NIP-01: every key of a filter must match, *)
(* any value of a key does).  A key a filter does not have is Free.         *)
(***************************************************************************)
EXTENDS Events

CONSTANT Free

Filter(kinds, t, i, e, ids) == [kinds |-> kinds, t |-> t, i |-> i, e |-> e, ids |-> ids]

IndexerFilter(indexers) == Filter({1}, {FABRIC}, indexers, Free, Free)

FullScanFilter(types) ==
  Filter({1}, IF types = {} THEN {"scrutiny-product", "scrutiny-metadata"} ELSE types, Free, Free, Free)

BindingsReferencing(event) == Filter({1}, {"scrutiny-binding"}, Free, {event}, Free)

\* The whole chain of a root, as every patch names its root.
PatchesReferencing(event) == Filter({1}, {"scrutiny-patch"}, Free, {event}, Free)

DeletionsFor(event) == Filter({5}, Free, Free, {event}, Free)

EventsById(ids) == Filter(Free, Free, Free, Free, ids)

Matches(event, filter) ==
  /\ filter.kinds = Free \/ event.kind \in filter.kinds
  /\ filter.t = Free \/ ToSet(event.t) \cap filter.t # {}
  /\ filter.i = Free \/ ToSet(event.i) \cap filter.i # {}
  /\ filter.e = Free \/ \E tag \in ToSet(event.e) : tag.id \in filter.e
  /\ filter.ids = Free \/ event \in filter.ids

Found(stored, filter) == {event \in stored : Matches(event, filter)}

\* A fault: the role is that of the first e tag.
FirstTagRoles(events, anchor, type) ==
  {<<event, Head(event.e).marker>> :
     event \in {e \in events : ScrutinyEventType(e) = type /\ e.e # <<>> /\ Head(e.e).id = anchor}}

\* classifyByRole: the events of the type, each with the first marker by which it
\* names the anchor; an e tag without a marker gives no role.
ClassifyByRole(events, anchor, type) ==
  LET Naming(event) == SelectSeq(event.e, LAMBDA tag : tag.id = anchor /\ tag.marker # "")
  IN {<<event, Head(Naming(event)).marker>> :
        event \in {e \in events : ScrutinyEventType(e) = type /\ Naming(e) # <<>>}}
=============================================================================
