-------------------------------- MODULE Store --------------------------------
(***************************************************************************)
(* The store: packages/core/src/store.ts.  It threads the admission state  *)
(* (module Admission), folds each event's validity verdict into `invalid`  *)
(* and `pending`, and answers resolveRoot from a memo that the chain       *)
(* epochs guard.                                                           *)
(*                                                                         *)
(* Epochs only grow and a memo entry is served while its epoch stands, so  *)
(* an epoch is represented by what a bump does: it drops the entry of the  *)
(* root.  The eventsCache is always Feed, because every step that changes  *)
(* the observed set or `invalid` moves observedEpoch.                      *)
(*                                                                         *)
(* The order of an observe batch is not represented: every verdict is      *)
(* taken against the observed set after the whole batch, so an awaited id  *)
(* is never in the batch, and a bump that a later patch of the batch would *)
(* add is made by that patch itself.  Module StoreLoop has the loop of the *)
(* code and is compared with Observe below.                                *)
(***************************************************************************)
EXTENDS Resolve

CONSTANTS
  ObserveBatches,   \* the sets of events an observe delta may carry
  UnobserveBatches, \* the id lists an unobserve delta may carry
  TrustBatches      \* the sets of authors a trust or untrust delta may carry

ASSUME DeltasAssumption ==
  /\ \A events \in ObserveBatches : events \subseteq Event /\ IsFiniteSet(events)
  /\ UnobserveBatches \subseteq Seq(Event)
  /\ TrustBatches \subseteq SUBSET Author

VARIABLES
  admit,    \* the AdmitState; admit.observed stands for observedById
  invalid,  \* invalidIds
  members,  \* the keys of chainMembership; the value of p is Body[p].root
  pending,  \* pendingAwaiting: pairs <<awaited, waiter>>
  overlay,  \* overlayAwaiting: pairs <<reply target, root>>
  memo      \* the resolutions the memo would serve, NoEntry where it would not

vars == <<admit, invalid, members, pending, overlay, memo>>

Admitting == INSTANCE Admission

NoEntry == [status |-> "no entry"]

-----------------------------------------------------------------------------
(* validateEvent *)

\* BD-3, BD-4, BD-5 over the endpoints that have arrived.
BindingFits(b, seen) ==
  /\ Body[b].root \in seen => Body[Body[b].root].type = "product"
  /\ Body[b].link \in seen => Body[Body[b].link].type = "metadata"

\* Whether PT-7 constrains p, once its root is known.
RepliesAsForeigner(p) ==
  /\ AuthorOf(p) # AuthorOf(Body[p].root)
  /\ Body[p].reply # Body[p].root

\* A fault: a reply target that has not arrived fails PT-7.
HastyPatchFits(p, seen) ==
  Body[p].root \in seen =>
    /\ IsRoot(Body[p].root)
    /\ RepliesAsForeigner(p) =>
         /\ Body[p].reply \in seen
         /\ IsPatch(Body[p].reply)
         /\ AuthorOf(Body[p].reply) = AuthorOf(Body[p].root)

\* PT-10 once the root has arrived, and PT-7 once the reply target has too.
PatchFits(p, seen) ==
  Body[p].root \in seen =>
    /\ IsRoot(Body[p].root)
    /\ RepliesAsForeigner(p) /\ Body[p].reply \in seen =>
         /\ IsPatch(Body[p].reply)
         /\ AuthorOf(Body[p].reply) = AuthorOf(Body[p].root)

IsInvalid(e, seen) ==
  \/ Body[e].self = "bad"
  \/ /\ Body[e].self = "ok"
     /\ \/ IsBinding(e) /\ ~BindingFits(e, seen)
        \/ IsPatch(e) /\ ~PatchFits(e, seen)

\* BD-6, UR-2 and PT-7: what a verdict that is not invalid still waits for.
Awaiting(e, seen) ==
  IF Body[e].self # "ok" \/ IsInvalid(e, seen) THEN {}
  ELSE IF IsBinding(e) THEN Endpoints(e) \ seen
  ELSE IF ~IsPatch(e) THEN {}
  ELSE IF Body[e].root \notin seen THEN {Body[e].root}
  ELSE {t \in {Body[e].reply} \ seen : RepliesAsForeigner(e)}

Registrations(events, seen) ==
  UNION {{<<t, e>> : t \in Awaiting(e, seen)} : e \in events}

-----------------------------------------------------------------------------
(* The reducer *)

\* A fault: a deletion moves the epochs of the ids it names and not those of
\* the roots that own them.
OwnerlessEpochTargets(e, known, replies) ==
  (IF IsRoot(e) THEN {e}
   ELSE IF IsPatch(e) THEN {Body[e].root} \ {NoEvent}
   ELSE IF IsDeletion(e) THEN Body[e].refs
   ELSE {})
    \cup {r \in Event : <<e, r>> \in replies}

\* chainEpochTargets: the roots whose resolution e can change.
EpochTargets(e, known, replies) ==
  (IF IsRoot(e) THEN {e}
   ELSE IF IsPatch(e) THEN {Body[e].root} \ {NoEvent}
   ELSE IF IsDeletion(e) THEN Body[e].refs \cup {Body[p].root : p \in Body[e].refs \cap known}
   ELSE {})
    \cup {r \in Event : <<e, r>> \in replies}

Bumped(events, known, replies) == UNION {EpochTargets(e, known, replies) : e \in events}

Forget(roots) == [r \in Event |-> IF r \in roots THEN NoEntry ELSE memo[r]]

RootedPatches(events) == {p \in events : IsPatch(p) /\ Body[p].root # NoEvent}

ReplyPairs(events) ==
  {<<Body[p].reply, Body[p].root>> :
     p \in {q \in RootedPatches(events) : Body[q].reply # NoEvent}}

\* A fault: nobody is judged again when an awaited event arrives.
NoWaiters(fresh, seen) == {}

\* The observed events whose pending verdict was waiting for one of `fresh`.
Waiters(fresh, seen) == {w \in seen : \E e \in fresh : <<e, w>> \in pending}

\* What an observe delta leaves, and the roots whose epochs it moved.
Observed(events) ==
  LET seen   == admit.observed \cup events
      fresh  == events \ admit.observed
      judged == fresh \cup Waiters(fresh, seen)
      known  == members \cup RootedPatches(fresh)
      replies == overlay \cup ReplyPairs(fresh)
  IN [known   |-> known,
      replies |-> replies,
      invalid |-> invalid \cup {e \in judged : IsInvalid(e, seen)},
      pending |-> {w \in pending : w[1] \notin fresh} \cup Registrations(judged, seen),
      bumped  |-> Bumped(judged, known, replies)]

\* The admission state after the body of a delta and its resync.  Bound variables
\* stand for what TLC is to evaluate once, here and below.
Admit(body) == \E w \in {body} : admit' = Admitting!Resync(w)

Record(after) ==
  /\ members' = after.known
  /\ overlay' = after.replies
  /\ invalid' = after.invalid
  /\ pending' = after.pending
  /\ memo'    = Forget(after.bumped)

Observe(events) ==
  /\ Admit(Admitting!ObserveBody(admit, events))
  /\ \E after \in {Observed(events)} : Record(after)

Unobserve(ids) ==
  LET gone == {ids[i] : i \in DOMAIN ids} \cap admit.observed
  IN /\ Admit(Admitting!UnobserveBody(admit, ids))
     /\ pending' = pending \ Registrations(gone, admit.observed)
     /\ \E moved \in {Bumped(gone, members, overlay)} : memo' = Forget(moved)
     /\ UNCHANGED <<invalid, members, overlay>>

Trust(authors) ==
  /\ Admit(Admitting!TrustBody(admit, authors))
  /\ UNCHANGED <<invalid, members, pending, overlay, memo>>

Untrust(authors) ==
  /\ Admit(Admitting!UntrustBody(admit, authors))
  /\ UNCHANGED <<invalid, members, pending, overlay, memo>>

-----------------------------------------------------------------------------
(* The reads *)

\* What resolve is given: the observed events without the invalid ones.
Feed == admit.observed \ invalid

\* resolveRootMemoized.
Answer(r) == IF memo[r] = NoEntry THEN ResolveRoot(r, Feed) ELSE memo[r]

Read(r) ==
  /\ memo' = [memo EXCEPT ![r] = Answer(r)]
  /\ UNCHANGED <<admit, invalid, members, pending, overlay>>

\* viewRoot with the default view: the overlays that are admitted (OV-7).
ViewRoot(r) ==
  [Answer(r) EXCEPT !.overlays = {o \in @ : admit.reasons[o.id] # {}}]

-----------------------------------------------------------------------------
(* The specification *)

Init ==
  /\ Admitting!Init
  /\ invalid = {} /\ members = {} /\ pending = {} /\ overlay = {}
  /\ memo = [r \in Event |-> NoEntry]

Next ==
  \/ \E events \in ObserveBatches : Observe(events)
  \/ \E ids \in UnobserveBatches : Unobserve(ids)
  \/ \E authors \in TrustBatches : Trust(authors)
  \/ \E authors \in TrustBatches : Untrust(authors)
  \/ \E r \in Event : IsRoot(r) /\ Read(r)

Spec == Init /\ [][Next]_vars

-----------------------------------------------------------------------------
(* Properties *)

\* A served resolution is the one a fresh resolve() gives for what is observed
\* and valid now: no arrival, removal or verdict that moves an answer leaves
\* the epoch of its root standing (D24, D29).
MemoFresh == \A r \in Event : memo[r] = NoEntry \/ memo[r] = ResolveRoot(r, Feed)

\* No late verdict is missed: an observed event that the rules reject for what
\* is observed now is in invalidIds, whatever order it, its root, its reply
\* target and its endpoints came and went in (UR-1, UR-2, BD-6).
VerdictsComplete ==
  \A e \in admit.observed : IsInvalid(e, admit.observed) => e \in invalid

\* A verdict of invalid is never premature (UR-3, BD-7): the event would still
\* be rejected had every event that exists arrived.
VerdictsPermanent == \A e \in invalid : IsInvalid(e, Event)

\* An observed event that is not rejected yet but will be once every event it
\* names is here is registered under one that is not: its arrival will call
\* for the verdict again.
RejectionIsScheduled ==
  \A e \in admit.observed :
    IsInvalid(e, Event) => e \in invalid \/ \E t \in Event : <<t, e>> \in pending

\* The default view shows an overlay exactly when its author is trusted (OV-7):
\* what a binding or a root-chain confers never reaches a foreign patch, even
\* through an answer that was memoized before the trust changed.
ViewShowsTrustedOverlays ==
  \A r \in Event : IsRoot(r) =>
    ViewRoot(r).overlays =
      {o \in Answer(r).overlays : AuthorOf(o.id) \in admit.trusted}

\* A patch of the root's author that its author deleted is in no chain, and
\* neither is a patch below it, whichever of them was observed first (DEL-2,
\* DEL-8, DEL-9).
DeletedNeverApplied ==
  \A r \in admit.observed : IsRoot(r) =>
    LET applied == ResolveRoot(r, Feed).applied
    IN \A i \in DOMAIN applied : DeletionsOf(applied[i], admit.observed) = {}

\* Late patches do not rewrite history: when events other than deletions arrive,
\* the applied patches grow at the end or are cut at a fork, and never change
\* order or lose one in the middle (CHN-1, SF-1, UR-4).
HistoryIsKept ==
  [][\A r \in admit.observed :
       (/\ IsRoot(r)
        /\ admit.observed \subseteq admit'.observed /\ admit.observed # admit'.observed
        /\ \A e \in admit'.observed \ admit.observed : ~IsDeletion(e))
         => LET before == ResolveRoot(r, Feed)
                after  == ResolveRoot(r, Feed')
            IN \/ IsPrefix(before.applied, after.applied)
               \/ after.status = "forked" /\ IsPrefix(after.applied, before.applied)]_vars
=============================================================================
