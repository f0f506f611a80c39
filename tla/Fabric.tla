------------------------------- MODULE Fabric -------------------------------
(***************************************************************************)
(* The signed events the core library works on (packages/core/src/         *)
(* events.ts).  An event id is the hash of the event, so the id determines *)
(* every field: Body maps each id to the fields the other modules read.    *)
(* Ids of events that never arrive are members of Event like any other.    *)
(*                                                                         *)
(*   author   the pubkey                                                   *)
(*   deletes  TRUE for a NIP-09 kind 5                                     *)
(*   type     what scrutinyEventType returns; "none" stands for undefined  *)
(*   root     the event named by the e tag with marker root, or NoEvent    *)
(*   reply    the event named by the e tag with marker reply, or NoEvent   *)
(*   link     the event named by the e tag with marker link, or NoEvent    *)
(*   refs     the events named by its e tags, whatever their marker        *)
(*   self     what validateEvent can say of the event alone: "foreign"     *)
(*            without the fabric tag, "bad" when a rule that needs no      *)
(*            other event fails, "ok" otherwise                            *)
(***************************************************************************)
EXTENDS FiniteSets

CONSTANTS
  Event,    \* the ids
  Author,   \* the pubkeys
  NoEvent,  \* undefined, where the code returns an id or undefined
  Body      \* id -> the fields of the event

EventType == {"product", "metadata", "binding", "patch", "none"}

EventBody ==
  [author : Author, deletes : BOOLEAN, type : EventType,
   root : Event \cup {NoEvent}, reply : Event \cup {NoEvent},
   link : Event \cup {NoEvent}, refs : SUBSET Event,
   self : {"foreign", "bad", "ok"}]

ASSUME NoEventAssumption == NoEvent \notin Event

ASSUME BodyAssumption == Body \in [Event -> EventBody]

\* A marked e tag is an e tag.
ASSUME RefsAssumption ==
  \A e \in Event :
    {Body[e].root, Body[e].reply, Body[e].link} \ {NoEvent} \subseteq Body[e].refs

\* Nobody publishes a kind 5 that also carries one of the four type tags: no
\* builder of the repository does, and admission of such a hybrid would depend
\* on the order events are walked in.
ASSUME DeletionsUntypedAssumption ==
  \A e \in Event : Body[e].deletes => Body[e].type = "none"

-----------------------------------------------------------------------------
AuthorOf(e)   == Body[e].author
IsDeletion(e) == Body[e].deletes
IsBinding(e)  == Body[e].type = "binding"
IsPatch(e)    == Body[e].type = "patch"
IsRoot(e)     == Body[e].type \in {"product", "metadata"}

\* The ids a Binding connects; none unless it names exactly one of each.
Endpoints(b) ==
  IF Body[b].root # NoEvent /\ Body[b].link # NoEvent
    THEN {Body[b].root, Body[b].link}
    ELSE {}

\* The deletions among `seen` by the author of `target` that name it (DEL-1).
DeletionsOf(target, seen) ==
  {d \in seen : /\ IsDeletion(d)
                /\ AuthorOf(d) = AuthorOf(target)
                /\ target \in Body[d].refs}

\* An event passes the rules about itself only with a type, and with the
\* references its type requires (TAG-3, BD-1, BD-2, PT-1, PT-2).
ASSUME ShapeAssumption ==
  \A e \in Event : Body[e].self = "ok" =>
    /\ Body[e].type # "none"
    /\ IsBinding(e) => Endpoints(e) # {}
    /\ IsPatch(e) => NoEvent \notin {Body[e].root, Body[e].reply}
=============================================================================
