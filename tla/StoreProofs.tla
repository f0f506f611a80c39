----------------------------- MODULE StoreProofs -----------------------------
(***************************************************************************)
(* The store, for every set of events and every sequence of deltas: no     *)
(* rejection is missed and none is premature; its deltas are those of      *)
(* Admission, so what is proved there of every batch holds here; the       *)
(* default view of a root shows the overlays of trusted authors; a deleted *)
(* patch is never applied, and late patches do not rewrite the chain; a    *)
(* memo entry that is still used is the answer a fresh resolve gives; and  *)
(* the order in which a batch lists its events decides nothing.            *)
(***************************************************************************)
EXTENDS StoreLoop, EventStorage, FiniteSetTheorems, WellFoundedInduction, TLAPS

AP == INSTANCE AdmissionProofs

\* admit is a record with the fields of AdmitState, whatever they hold.
AdmitRecord ==
  admit = [reasons |-> admit.reasons, live |-> admit.live,
           trusted |-> admit.trusted, observed |-> admit.observed]

\* The absent ids whose arrival calls for the verdict on e.
WaitedFor(e) == {t \in Event \ admit.observed : <<t, e>> \in pending}

\* Whatever condemns e has an id in T, so while T is awaited no cause to reject e
\* can go unnoticed.
Answered(e, T) ==
  /\ Body[e].self # "bad"
  /\ Body[e].self = "ok" /\ IsBinding(e) =>
       /\ Body[Body[e].root].type # "product" => Body[e].root \in T
       /\ Body[Body[e].link].type # "metadata" => Body[e].link \in T
  /\ Body[e].self = "ok" /\ IsPatch(e) =>
       /\ ~IsRoot(Body[e].root) => Body[e].root \in T
       /\ \/ ~RepliesAsForeigner(e)
          \/ /\ IsPatch(Body[e].reply)
             /\ AuthorOf(Body[e].reply) = AuthorOf(Body[e].root)
          \/ {Body[e].root, Body[e].reply} \cap T # {}

StoreInv ==
  /\ AdmitRecord
  /\ admit.observed \subseteq Event
  /\ invalid \subseteq {e \in Event : IsInvalid(e, Event)}
  /\ pending \subseteq Event \X Event
  /\ \A e \in admit.observed \ invalid : Answered(e, WaitedFor(e))

-----------------------------------------------------------------------------
(* The verdict *)

\* What an event that passes its own rules names (validateEvent).
LEMMA ReferencesExist ==
  ASSUME NEW e \in Event, Body[e].self = "ok"
  PROVE  /\ IsBinding(e) => /\ Endpoints(e) = {Body[e].root, Body[e].link}
                            /\ Body[e].root \in Event /\ Body[e].link \in Event
         /\ IsPatch(e) => Body[e].root \in Event /\ Body[e].reply \in Event
<1>1. Body[e] \in EventBody
  BY BodyAssumption
<1>2. QED
  BY <1>1, ShapeAssumption, NoEventAssumption DEF EventBody, Endpoints

\* A rejection is permanent: more events never lift it (UR-3, BD-7).
LEMMA RejectionStands ==
  ASSUME NEW seen \in SUBSET Event, NEW e \in Event, IsInvalid(e, seen)
  PROVE  IsInvalid(e, Event)
<1>1. CASE Body[e].self = "bad"
  BY <1>1 DEF IsInvalid
<1>2. CASE Body[e].self = "ok" /\ IsBinding(e) /\ ~BindingFits(e, seen)
  BY <1>2, ReferencesExist DEF IsInvalid, BindingFits
<1>3. CASE Body[e].self = "ok" /\ IsPatch(e) /\ ~PatchFits(e, seen)
  BY <1>3, ReferencesExist DEF IsInvalid, PatchFits
<1>4. QED
  BY <1>1, <1>2, <1>3 DEF IsInvalid

\* What a verdict that is not a rejection awaits answers for every cause.
LEMMA AwaitingAnswers ==
  ASSUME NEW seen \in SUBSET Event, NEW e \in Event, ~IsInvalid(e, seen)
  PROVE  Answered(e, Awaiting(e, seen))
<1>1. Body[e].self # "bad"
  BY DEF IsInvalid
<1>2. ASSUME Body[e].self = "ok", IsBinding(e)
      PROVE  /\ Body[Body[e].root].type # "product" => Body[e].root \in Awaiting(e, seen)
             /\ Body[Body[e].link].type # "metadata" => Body[e].link \in Awaiting(e, seen)
  <2>1. Awaiting(e, seen) = {Body[e].root, Body[e].link} \ seen
    BY <1>2, ReferencesExist DEF Awaiting
  <2>2. BindingFits(e, seen)
    BY <1>2 DEF IsInvalid
  <2>3. QED
    BY <2>1, <2>2 DEF BindingFits
<1>3. ASSUME Body[e].self = "ok", IsPatch(e)
      PROVE  /\ ~IsRoot(Body[e].root) => Body[e].root \in Awaiting(e, seen)
             /\ \/ ~RepliesAsForeigner(e)
                \/ /\ IsPatch(Body[e].reply)
                   /\ AuthorOf(Body[e].reply) = AuthorOf(Body[e].root)
                \/ {Body[e].root, Body[e].reply} \cap Awaiting(e, seen) # {}
  <2>1. PatchFits(e, seen) /\ ~IsBinding(e)
    BY <1>3 DEF IsInvalid, IsPatch, IsBinding
  <2>2. CASE Body[e].root \notin seen
    <3>1. Awaiting(e, seen) = {Body[e].root}
      BY <1>3, <2>1, <2>2 DEF Awaiting
    <3>2. QED
      BY <3>1
  <2>3. CASE Body[e].root \in seen
    <3>1. Awaiting(e, seen) = {t \in {Body[e].reply} \ seen : RepliesAsForeigner(e)}
      BY <1>3, <2>1, <2>3 DEF Awaiting
    <3>2. QED
      BY <3>1, <2>1, <2>3 DEF PatchFits
  <2>4. QED
    BY <2>2, <2>3
<1>4. QED
  BY <1>1, <1>2, <1>3 DEF Answered

\* Nothing condemns an event when all that could is absent.
LEMMA AnsweredIsNotInvalid ==
  ASSUME NEW seen \in SUBSET Event, NEW e \in Event, NEW T,
         Answered(e, T), T \cap seen = {}
  PROVE  ~IsInvalid(e, seen)
<1>1. Body[e].self = "ok" /\ IsBinding(e) => BindingFits(e, seen)
  BY DEF Answered, BindingFits
<1>2. Body[e].self = "ok" /\ IsPatch(e) => PatchFits(e, seen)
  BY DEF Answered, PatchFits
<1>3. QED
  BY <1>1, <1>2 DEF IsInvalid, Answered

\* More awaited ids answer for as much.
LEMMA AnsweredGrows ==
  ASSUME NEW e, NEW T, NEW U, Answered(e, T), T \subseteq U
  PROVE  Answered(e, U)
BY DEF Answered

\* An awaited id is an absent one.
LEMMA AwaitedAreAbsent ==
  ASSUME NEW seen \in SUBSET Event, NEW e \in Event
  PROVE  Awaiting(e, seen) \subseteq Event \ seen
<1>1. Body[e].self = "ok" =>
        /\ IsBinding(e) => Endpoints(e) \subseteq Event
        /\ IsPatch(e) => {Body[e].root, Body[e].reply} \subseteq Event
  BY ReferencesExist
<1>2. QED
  BY <1>1 DEF Awaiting

-----------------------------------------------------------------------------
(* The steps *)

\* Observing admits the batch to observedById and changes no other shape.
LEMMA ObserveGrows ==
  ASSUME AdmitRecord, NEW events, Admit(Admitting!ObserveBody(admit, events))
  PROVE  AdmitRecord' /\ admit'.observed = admit.observed \cup events
BY DEF Admit, AdmitRecord, Admitting!ObserveBody, Admitting!Resync

\* Unobserving removes the listed ids from observedById.
LEMMA UnobserveShrinks ==
  ASSUME AdmitRecord, NEW ids, Admit(Admitting!UnobserveBody(admit, ids))
  PROVE  /\ AdmitRecord'
         /\ admit'.observed = admit.observed \ ({ids[i] : i \in DOMAIN ids} \cap admit.observed)
BY DEF Admit, AdmitRecord, Admitting!UnobserveBody, Admitting!Resync

\* Trust moves no event.
LEMMA TrustKeepsObserved ==
  ASSUME AdmitRecord, NEW authors,
         \/ Admit(Admitting!TrustBody(admit, authors))
         \/ Admit(Admitting!UntrustBody(admit, authors))
  PROVE  AdmitRecord' /\ admit'.observed = admit.observed
BY DEF Admit, AdmitRecord, Admitting!TrustBody, Admitting!UntrustBody, Admitting!Resync

\* An observe delta judges what it brings and what waited for it.
LEMMA ObserveKeepsInv ==
  ASSUME StoreInv, NEW events \in ObserveBatches, Observe(events)
  PROVE  StoreInv'
<1> DEFINE seen   == admit.observed \cup events
           fresh  == events \ admit.observed
           judged == fresh \cup Waiters(fresh, seen)
<1>1. events \subseteq Event
  BY DeltasAssumption
<1>2. seen \in SUBSET Event /\ judged \subseteq seen
  BY <1>1 DEF StoreInv, Waiters
<1>3. AdmitRecord' /\ admit'.observed = seen
  BY ObserveGrows DEF StoreInv, Observe
<1>4. /\ invalid' = invalid \cup {e \in judged : IsInvalid(e, seen)}
      /\ pending' = {w \in pending : w[1] \notin fresh} \cup Registrations(judged, seen)
  <2>1. \E after \in {Observed(events)} : Record(after)
    BY Zenon DEF Observe
  <2>2. Record(Observed(events))
    BY <2>1, Zenon
  <2>3. QED
    BY <2>2 DEF Record, Observed
<1> HIDE DEF seen, fresh, judged
<1>5. invalid' \subseteq {e \in Event : IsInvalid(e, Event)}
  BY <1>2, <1>4, RejectionStands DEF StoreInv
<1>6. pending' \subseteq Event \X Event
  BY <1>2, <1>4, AwaitedAreAbsent DEF StoreInv, Registrations
<1>7. ASSUME NEW e \in seen \ invalid' PROVE Answered(e, WaitedFor(e)')
  <2>1. CASE e \in judged
    <3>1. Answered(e, Awaiting(e, seen))
      BY <1>2, <1>4, <1>7, <2>1, AwaitingAnswers
    <3>2. Awaiting(e, seen) \subseteq WaitedFor(e)'
      BY <1>2, <1>3, <1>4, <2>1, AwaitedAreAbsent DEF WaitedFor, Registrations
    <3>3. QED
      BY <3>1, <3>2, AnsweredGrows
  <2>2. CASE e \notin judged
    <3>1. e \in admit.observed \ invalid
      BY <1>4, <1>7, <2>2 DEF seen, fresh, judged
    <3>2. WaitedFor(e) \subseteq WaitedFor(e)'
      BY <1>3, <1>4, <2>2, <3>1 DEF WaitedFor, Waiters, seen, fresh, judged
    <3>3. QED
      BY <3>1, <3>2, AnsweredGrows DEF StoreInv
  <2>3. QED
    BY <2>1, <2>2
<1>8. QED
  BY <1>2, <1>3, <1>5, <1>6, <1>7 DEF StoreInv

\* An unobserve delta drops only what the departing events awaited.
LEMMA UnobserveKeepsInv ==
  ASSUME StoreInv, NEW ids, Unobserve(ids)
  PROVE  StoreInv'
<1> DEFINE gone == {ids[i] : i \in DOMAIN ids} \cap admit.observed
<1>1. AdmitRecord' /\ admit'.observed = admit.observed \ gone
  BY UnobserveShrinks DEF StoreInv, Unobserve
<1>2. invalid' = invalid /\ pending' = pending \ Registrations(gone, admit.observed)
  BY DEF Unobserve
<1> HIDE DEF gone
<1>3. ASSUME NEW e \in admit'.observed \ invalid' PROVE Answered(e, WaitedFor(e)')
  <2>1. e \in admit.observed \ invalid /\ e \notin gone
    BY <1>1, <1>2, <1>3
  <2>2. WaitedFor(e) \subseteq WaitedFor(e)'
    BY <1>1, <1>2, <2>1 DEF WaitedFor, Registrations
  <2>3. QED
    BY <2>1, <2>2, AnsweredGrows DEF StoreInv
<1>4. QED
  BY <1>1, <1>2, <1>3 DEF StoreInv

\* Nothing else touches the verdicts.
LEMMA OthersKeepInv ==
  ASSUME StoreInv, AdmitRecord', admit'.observed = admit.observed,
         invalid' = invalid, pending' = pending
  PROVE  StoreInv'
<1>1. \A e : WaitedFor(e)' = WaitedFor(e)
  BY DEF WaitedFor
<1>2. QED
  BY <1>1 DEF StoreInv

\* The invariant holds of the empty store.
LEMMA InitHasInv == Init => StoreInv
BY DEF Init, Admitting!Init, Admitting!EmptyAdmitState, StoreInv, AdmitRecord

\* The invariant holds in every reachable state.
THEOREM VerdictsInvariant == Spec => []StoreInv
<1>1. ASSUME StoreInv, [Next]_vars PROVE StoreInv'
  <2>1. ASSUME NEW events \in ObserveBatches, Observe(events) PROVE StoreInv'
    BY <1>1, <2>1, ObserveKeepsInv
  <2>2. ASSUME NEW ids \in UnobserveBatches, Unobserve(ids) PROVE StoreInv'
    BY <1>1, <2>2, UnobserveKeepsInv
  <2>3. ASSUME NEW authors \in TrustBatches, Trust(authors) \/ Untrust(authors)
        PROVE  StoreInv'
    <3>1. AdmitRecord' /\ admit'.observed = admit.observed
      BY <1>1, <2>3, TrustKeepsObserved DEF StoreInv, Trust, Untrust
    <3>2. QED
      BY <1>1, <2>3, <3>1, OthersKeepInv DEF Trust, Untrust
  <2>4. ASSUME NEW r \in Event, Read(r) PROVE StoreInv'
    <3>1. admit' = admit /\ invalid' = invalid /\ pending' = pending
      BY <2>4 DEF Read
    <3>2. AdmitRecord' /\ admit'.observed = admit.observed
      BY <1>1, <3>1 DEF StoreInv, AdmitRecord
    <3>3. QED
      BY <1>1, <3>1, <3>2, OthersKeepInv
  <2>5. CASE UNCHANGED vars
    <3>1. admit' = admit /\ invalid' = invalid /\ pending' = pending
      BY <2>5 DEF vars
    <3>2. AdmitRecord' /\ admit'.observed = admit.observed
      BY <1>1, <3>1 DEF StoreInv, AdmitRecord
    <3>3. QED
      BY <1>1, <3>1, <3>2, OthersKeepInv
  <2>6. QED
    BY <1>1, <2>1, <2>2, <2>3, <2>4, <2>5 DEF Next
<1>2. QED
  BY <1>1, InitHasInv, PTL DEF Spec

\* No late verdict is missed, in whatever order events come and go: what the
\* rules reject for the observed set is in invalidIds (UR-1, UR-2, BD-6).
THEOREM NoRejectionMissed == Spec => []VerdictsComplete
<1>1. StoreInv => VerdictsComplete
  <2> SUFFICES ASSUME StoreInv, NEW e \in admit.observed, e \notin invalid
               PROVE  ~IsInvalid(e, admit.observed)
    BY DEF VerdictsComplete
  <2>1. Answered(e, WaitedFor(e)) /\ e \in Event /\ admit.observed \in SUBSET Event
    BY DEF StoreInv
  <2>2. WaitedFor(e) \cap admit.observed = {}
    BY DEF WaitedFor
  <2>3. QED
    BY <2>1, <2>2, AnsweredIsNotInvalid
<1>2. QED
  BY <1>1, VerdictsInvariant, PTL

\* invalidIds may be cached forever: an event in it would be rejected with every
\* event observed (UR-3, BD-7).
THEOREM RejectionsArePermanent == Spec => []VerdictsPermanent
<1>1. StoreInv => VerdictsPermanent
  BY DEF StoreInv, VerdictsPermanent
<1>2. QED
  BY <1>1, VerdictsInvariant, PTL

\* An observed event that some absent event would condemn is registered under
\* one that is not here.
THEOREM RejectionsAreScheduled == Spec => []RejectionIsScheduled
<1>1. StoreInv => RejectionIsScheduled
  <2> SUFFICES ASSUME StoreInv, NEW e \in admit.observed, e \notin invalid,
                      \A t \in Event : <<t, e>> \notin pending
               PROVE  ~IsInvalid(e, Event)
    BY DEF RejectionIsScheduled
  <2>1. Answered(e, WaitedFor(e)) /\ e \in Event
    BY DEF StoreInv
  <2>2. WaitedFor(e) = {}
    BY DEF WaitedFor
  <2>3. QED
    BY <2>1, <2>2, AnsweredIsNotInvalid
<1>2. QED
  BY <1>1, VerdictsInvariant, PTL

-----------------------------------------------------------------------------
(* Admission under the store *)

\* The bodies and the resync that the store applies make the four deltas of Admission.
LEMMA DeltasAreShared ==
  \A w :
    /\ \A events : Admitting!Resync(Admitting!ObserveBody(w, events)) = AP!ApplyObserve(w, events)
    /\ \A ids : Admitting!Resync(Admitting!UnobserveBody(w, ids)) = AP!ApplyUnobserve(w, ids)
    /\ \A authors : Admitting!Resync(Admitting!TrustBody(w, authors)) = AP!ApplyTrust(w, authors)
    /\ \A authors : Admitting!Resync(Admitting!UntrustBody(w, authors)) = AP!ApplyUntrust(w, authors)
<1>1. ASSUME NEW w, NEW events
      PROVE  Admitting!Resync(Admitting!ObserveBody(w, events)) = AP!ApplyObserve(w, events)
  BY
   DEF Admitting!DirectTrust, AP!DirectTrust, Admitting!ByBinding, AP!ByBinding,
       Admitting!ByRootChain, AP!ByRootChain, Admitting!AuthorOf, AP!AuthorOf,
       Admitting!IsDeletion, AP!IsDeletion, Admitting!IsBinding, AP!IsBinding,
       Admitting!IsPatch, AP!IsPatch, Admitting!IsRoot, AP!IsRoot, Admitting!Endpoints,
       AP!Endpoints, Admitting!DeletionsOf, AP!DeletionsOf, Admitting!EndpointsWellTyped,
       AP!EndpointsWellTyped, Admitting!RootPatches, AP!RootPatches,
       Admitting!RootChainMembers, AP!RootChainMembers, Admitting!BindingIsLive,
       AP!BindingIsLive, Admitting!Rebind, AP!Rebind, Admitting!Resync, AP!Resync,
       Admitting!ObserveBody, AP!ObserveBody, AP!ApplyObserve
<1>2. ASSUME NEW w, NEW ids
      PROVE  Admitting!Resync(Admitting!UnobserveBody(w, ids)) = AP!ApplyUnobserve(w, ids)
  BY
   DEF Admitting!DirectTrust, AP!DirectTrust, Admitting!ByBinding, AP!ByBinding,
       Admitting!ByRootChain, AP!ByRootChain, Admitting!AuthorOf, AP!AuthorOf,
       Admitting!IsDeletion, AP!IsDeletion, Admitting!IsBinding, AP!IsBinding,
       Admitting!IsPatch, AP!IsPatch, Admitting!IsRoot, AP!IsRoot, Admitting!Endpoints,
       AP!Endpoints, Admitting!DeletionsOf, AP!DeletionsOf, Admitting!EndpointsWellTyped,
       AP!EndpointsWellTyped, Admitting!RootPatches, AP!RootPatches,
       Admitting!RootChainMembers, AP!RootChainMembers, Admitting!BindingIsLive,
       AP!BindingIsLive, Admitting!Rebind, AP!Rebind, Admitting!Resync, AP!Resync,
       Admitting!UnobserveBody, AP!UnobserveBody, Admitting!Before, AP!Before,
       Admitting!Uncascaded, AP!Uncascaded, AP!ApplyUnobserve
<1>3. ASSUME NEW w, NEW authors
      PROVE  Admitting!Resync(Admitting!TrustBody(w, authors)) = AP!ApplyTrust(w, authors)
  BY
   DEF Admitting!DirectTrust, AP!DirectTrust, Admitting!ByBinding, AP!ByBinding,
       Admitting!ByRootChain, AP!ByRootChain, Admitting!AuthorOf, AP!AuthorOf,
       Admitting!IsDeletion, AP!IsDeletion, Admitting!IsBinding, AP!IsBinding,
       Admitting!IsPatch, AP!IsPatch, Admitting!IsRoot, AP!IsRoot, Admitting!Endpoints,
       AP!Endpoints, Admitting!DeletionsOf, AP!DeletionsOf, Admitting!EndpointsWellTyped,
       AP!EndpointsWellTyped, Admitting!RootPatches, AP!RootPatches,
       Admitting!RootChainMembers, AP!RootChainMembers, Admitting!BindingIsLive,
       AP!BindingIsLive, Admitting!Rebind, AP!Rebind, Admitting!Resync, AP!Resync,
       Admitting!TrustBody, AP!TrustBody, AP!ApplyTrust
<1>4. ASSUME NEW w, NEW authors
      PROVE  Admitting!Resync(Admitting!UntrustBody(w, authors)) = AP!ApplyUntrust(w, authors)
  BY
   DEF Admitting!DirectTrust, AP!DirectTrust, Admitting!ByBinding, AP!ByBinding,
       Admitting!ByRootChain, AP!ByRootChain, Admitting!AuthorOf, AP!AuthorOf,
       Admitting!IsDeletion, AP!IsDeletion, Admitting!IsBinding, AP!IsBinding,
       Admitting!IsPatch, AP!IsPatch, Admitting!IsRoot, AP!IsRoot, Admitting!Endpoints,
       AP!Endpoints, Admitting!DeletionsOf, AP!DeletionsOf, Admitting!EndpointsWellTyped,
       AP!EndpointsWellTyped, Admitting!RootPatches, AP!RootPatches,
       Admitting!RootChainMembers, AP!RootChainMembers, Admitting!BindingIsLive,
       AP!BindingIsLive, Admitting!Rebind, AP!Rebind, Admitting!Resync, AP!Resync,
       Admitting!UntrustBody, AP!UntrustBody, AP!ApplyUntrust
<1>5. QED
  BY <1>1, <1>2, <1>3, <1>4

\* Threading the admission state is all the store does to it: every step of the store is
\* a delta of Admission, or a read that leaves it alone.
THEOREM StoreImplementsAdmission == Spec => Admitting!Spec
<1>1. Init => Admitting!Init
  BY DEF Init
<1>2. ASSUME [Next]_vars PROVE [Admitting!Next]_admit
  <2>1. ASSUME NEW events \in ObserveBatches, Observe(events) PROVE Admitting!Next
    BY <2>1 DEF Observe, Admit, Admitting!Next, Admitting!Observe, Admitting!ApplyObserve
  <2>2. ASSUME NEW ids \in UnobserveBatches, Unobserve(ids) PROVE Admitting!Next
    BY <2>2 DEF Unobserve, Admit, Admitting!Next, Admitting!Unobserve, Admitting!ApplyUnobserve
  <2>3. ASSUME NEW authors \in TrustBatches, Trust(authors) PROVE Admitting!Next
    BY <2>3, DeltasAssumption
       DEF Trust, Admit, Admitting!Next, Admitting!Trust, Admitting!ApplyTrust
  <2>4. ASSUME NEW authors \in TrustBatches, Untrust(authors) PROVE Admitting!Next
    BY <2>4, DeltasAssumption
       DEF Untrust, Admit, Admitting!Next, Admitting!Untrust, Admitting!ApplyUntrust
  <2>5. ASSUME NEW r \in Event, Read(r) PROVE UNCHANGED admit
    BY <2>5 DEF Read
  <2>6. CASE UNCHANGED vars
    BY <2>6 DEF vars
  <2>7. QED
    BY <1>2, <2>1, <2>2, <2>3, <2>4, <2>5, <2>6 DEF Next
<1>3. [Next]_vars => [Admitting!Next]_admit
  BY <1>2
<1>4. QED
  BY <1>1, <1>3, PTL DEF Spec, Admitting!Spec

\* What module Admission assumes of its constants holds of the store's.
LEMMA AdmissionAssumptions ==
  /\ NoEvent \notin Event
  /\ Body \in [Event -> AP!EventBody]
  /\ \A e \in Event :
       {Body[e].root, Body[e].reply, Body[e].link} \ {NoEvent} \subseteq Body[e].refs
  /\ \A e \in Event : Body[e].deletes => Body[e].type = "none"
  /\ \A e \in Event : Body[e].self = "ok" =>
       /\ Body[e].type # "none"
       /\ AP!IsBinding(e) => AP!Endpoints(e) # {}
       /\ AP!IsPatch(e) => NoEvent \notin {Body[e].root, Body[e].reply}
  /\ ObserveBatches \subseteq SUBSET Event /\ UnobserveBatches \subseteq Seq(Event)
<1>1. AP!EventBody = EventBody
  BY DEF EventBody, EventType, AP!EventBody, AP!EventType
<1>2. \A e : /\ AP!IsBinding(e) = IsBinding(e)
             /\ AP!IsPatch(e) = IsPatch(e)
             /\ AP!Endpoints(e) = Endpoints(e)
  BY DEF IsBinding, IsPatch, Endpoints, AP!IsBinding, AP!IsPatch, AP!Endpoints
<1>3. QED
  BY <1>1, <1>2, NoEventAssumption, BodyAssumption, RefsAssumption,
     DeletionsUntypedAssumption, ShapeAssumption, DeltasAssumption

\* So the state of admission is sound in every reachable state of the store.
LEMMA StoreIsSound == Spec => []AP!Sound(admit)
<1>1. Init => AP!Sound(admit)
  <2>1. ASSUME Init PROVE admit = AP!EmptyAdmitState
    BY <2>1 DEF Init, Admitting!Init, Admitting!EmptyAdmitState, AP!EmptyAdmitState
  <2>2. QED
    BY <2>1, AP!EmptyIsSound, AdmissionAssumptions
<1>2. ASSUME AP!Sound(admit), [Next]_vars PROVE AP!Sound(admit')
  <2>1. ASSUME NEW events \in ObserveBatches, Observe(events) PROVE AP!Sound(admit')
    <3>1. admit' = AP!ApplyObserve(admit, events)
      BY <2>1, DeltasAreShared DEF Observe, Admit
    <3>2. QED
      BY <1>2, <3>1, AP!ObserveIsSound, AdmissionAssumptions
  <2>2. ASSUME NEW ids \in UnobserveBatches, Unobserve(ids) PROVE AP!Sound(admit')
    <3>1. admit' = AP!ApplyUnobserve(admit, ids)
      BY <2>2, DeltasAreShared DEF Unobserve, Admit
    <3>2. QED
      BY <1>2, <3>1, AP!UnobserveIsSound, AdmissionAssumptions
  <2>3. ASSUME NEW authors \in TrustBatches, Trust(authors) \/ Untrust(authors)
        PROVE  AP!Sound(admit')
    <3>1. admit' = AP!ApplyTrust(admit, authors) \/ admit' = AP!ApplyUntrust(admit, authors)
      BY <2>3, DeltasAreShared DEF Trust, Untrust, Admit
    <3>2. authors \in SUBSET Author
      BY DeltasAssumption
    <3>3. AP!Sound(AP!ApplyTrust(admit, authors)) /\ AP!Sound(AP!ApplyUntrust(admit, authors))
      BY <1>2, <3>2, AP!TrustIsSound, AdmissionAssumptions
    <3>4. QED
      BY <3>1, <3>3
  <2>4. CASE UNCHANGED admit
    BY <1>2, <2>4
  <2>5. QED
    BY <1>2, <2>1, <2>2, <2>3, <2>4 DEF Next, Read, vars
<1>3. AP!Sound(admit) /\ [Next]_vars => AP!Sound(admit)'
  BY <1>2
<1>4. QED
  BY <1>1, <1>3, PTL DEF Spec

-----------------------------------------------------------------------------
(* The view *)

\* What an answer for r may show as overlays once `seen` has been observed.
HasOverlays(r, seen, answer) ==
  /\ "overlays" \in DOMAIN answer
  /\ \A o \in answer.overlays :
       /\ o.id \in seen /\ o.id \in Event
       /\ IsPatch(o.id) /\ Body[o.id].root = r /\ AuthorOf(o.id) # AuthorOf(r)

MemoOverlays ==
  /\ DOMAIN memo = Event
  /\ \A r \in Event : memo[r] = NoEntry \/ HasOverlays(r, admit.observed, memo[r])

\* The overlays of a resolution are observed patches of others under its root.
LEMMA ResolutionOverlays ==
  ASSUME NEW r \in Event, NEW seen \in SUBSET Event
  PROVE  HasOverlays(r, seen, ResolveRoot(r, seen))
<1>1. CASE r \notin seen \/ ~IsRoot(r)
  <2>1. "overlays" \in DOMAIN ResolveRoot(r, seen) /\ ResolveRoot(r, seen).overlays = {}
    BY <1>1 DEF ResolveRoot, Absent
  <2>2. QED
    BY <2>1 DEF HasOverlays
<1>2. CASE r \in seen /\ IsRoot(r)
  <2> DEFINE foreign == {o \in Patches(r, seen) \ HonouredDeletions(seen) :
                           AuthorOf(o) # AuthorOf(r) /\ Body[o].reply # NoEvent}
  <2>1. ASSUME NEW links, NEW patches, NEW contents
        PROVE  /\ "overlays" \in DOMAIN Resolution(r, seen, links, patches, contents)
               /\ \A o \in Resolution(r, seen, links, patches, contents).overlays :
                    o.id \in foreign
    BY DEF Resolution
  <2>2. ResolveRoot(r, seen) = ResolvePresent(r, seen)
    BY <1>2 DEF ResolveRoot
  <2>3. /\ "overlays" \in DOMAIN ResolveRoot(r, seen)
        /\ \A o \in ResolveRoot(r, seen).overlays : o.id \in foreign
    BY <2>1, <2>2 DEF ResolvePresent
  <2>4. QED
    BY <2>3 DEF foreign, HasOverlays, Patches
<1>3. QED
  BY <1>1, <1>2

\* An answer shows what is observed now, whether it comes from the memo or not.
LEMMA AnswerOverlays ==
  ASSUME StoreInv, MemoOverlays, NEW r \in Event
  PROVE  HasOverlays(r, admit.observed, Answer(r))
<1>1. CASE memo[r] = NoEntry
  <2>1. Feed \in SUBSET Event /\ Feed \subseteq admit.observed
    BY DEF StoreInv, Feed
  <2>2. QED
    BY <1>1, <2>1, ResolutionOverlays DEF Answer, HasOverlays
<1>2. CASE memo[r] # NoEntry
  BY <1>2 DEF Answer, MemoOverlays
<1>3. QED
  BY <1>1, <1>2

\* A memo entry that stands through a step shows nothing that has gone: the departure of
\* a patch moves the epoch of its root.
LEMMA MemoKeepsOverlays ==
  ASSUME StoreInv, MemoOverlays, [Next]_vars
  PROVE  MemoOverlays'
<1>1. ASSUME NEW events \in ObserveBatches, Observe(events) PROVE MemoOverlays'
  <2>1. admit'.observed = admit.observed \cup events
    BY <1>1, ObserveGrows DEF StoreInv, Observe
  <2>2. \E roots : memo' = Forget(roots)
    <3>1. \E after \in {Observed(events)} : Record(after)
      BY <1>1, Zenon DEF Observe
    <3>2. QED
      BY <3>1, Zenon DEF Record
  <2>3. QED
    BY <2>1, <2>2 DEF MemoOverlays, Forget, HasOverlays
<1>2. ASSUME NEW ids \in UnobserveBatches, Unobserve(ids) PROVE MemoOverlays'
  <2> DEFINE gone == {ids[i] : i \in DOMAIN ids} \cap admit.observed
  <2>1. admit'.observed = admit.observed \ gone
    BY <1>2, UnobserveShrinks DEF StoreInv, Unobserve
  <2>2. memo' = Forget(Bumped(gone, members, overlay))
    <3>1. \E moved \in {Bumped(gone, members, overlay)} : memo' = Forget(moved)
      BY <1>2, Zenon DEF Unobserve
    <3>2. QED
      BY <3>1, Zenon
  <2> HIDE DEF gone
  <2>3. ASSUME NEW r \in Event, memo'[r] # NoEntry
        PROVE  HasOverlays(r, admit'.observed, memo'[r])
    <3>1. memo'[r] = memo[r] /\ r \notin Bumped(gone, members, overlay)
      BY <2>2, <2>3 DEF Forget
    <3>2. HasOverlays(r, admit.observed, memo[r])
      BY <2>3, <3>1 DEF MemoOverlays
    <3>3. ASSUME NEW p \in gone, IsPatch(p), Body[p].root = r PROVE FALSE
      <4>1. r \in EpochTargets(p, members, overlay)
        BY <3>3, NoEventAssumption DEF EpochTargets, IsPatch, IsRoot
      <4>2. QED
        BY <3>1, <3>3, <4>1 DEF Bumped
    <3>4. QED
      BY <2>1, <3>1, <3>2, <3>3 DEF HasOverlays
  <2>4. QED
    BY <2>2, <2>3 DEF MemoOverlays, Forget
<1>3. ASSUME NEW authors \in TrustBatches, Trust(authors) \/ Untrust(authors)
      PROVE  MemoOverlays'
  <2>1. admit'.observed = admit.observed /\ memo' = memo
    BY <1>3, TrustKeepsObserved DEF StoreInv, Trust, Untrust
  <2>2. QED
    BY <2>1 DEF MemoOverlays
<1>4. ASSUME NEW r \in Event, Read(r) PROVE MemoOverlays'
  <2>1. admit' = admit /\ memo' = [memo EXCEPT ![r] = Answer(r)]
    BY <1>4 DEF Read
  <2>2. HasOverlays(r, admit.observed, Answer(r))
    BY AnswerOverlays
  <2>3. QED
    BY <2>1, <2>2 DEF MemoOverlays
<1>5. CASE UNCHANGED vars
  BY <1>5 DEF vars, MemoOverlays
<1>6. QED
  BY <1>1, <1>2, <1>3, <1>4, <1>5 DEF Next

\* The default view of a root shows an overlay exactly when its author is trusted
\* (OV-7), through an answer memoized before the trust changed as well.
THEOREM ViewIsByTrust == Spec => []ViewShowsTrustedOverlays
<1>1. ASSUME StoreInv, MemoOverlays, AP!Sound(admit) PROVE ViewShowsTrustedOverlays
  <2> SUFFICES ASSUME NEW r \in Event
               PROVE  ViewRoot(r).overlays =
                        {o \in Answer(r).overlays : AuthorOf(o.id) \in admit.trusted}
    BY DEF ViewShowsTrustedOverlays
  <2>1. HasOverlays(r, admit.observed, Answer(r))
    BY <1>1, AnswerOverlays
  <2>2. ViewRoot(r).overlays = {o \in Answer(r).overlays : admit.reasons[o.id] # {}}
    BY <2>1 DEF ViewRoot, HasOverlays
  <2>3. ASSUME NEW o \in Answer(r).overlays
        PROVE  admit.reasons[o.id] # {} <=> AuthorOf(o.id) \in admit.trusted
    <3>1. /\ o.id \in admit.observed
          /\ AP!IsPatch(o.id) /\ AP!AuthorOf(o.id) # AP!AuthorOf(Body[o.id].root)
      BY <2>1, <2>3 DEF HasOverlays, IsPatch, AuthorOf, AP!IsPatch, AP!AuthorOf
    <3>2. admit.reasons[o.id] # {} <=> AP!AuthorOf(o.id) \in admit.trusted
      BY <1>1, <3>1, AP!ForeignPatchReasons, AdmissionAssumptions
    <3>3. QED
      BY <3>2 DEF AuthorOf, AP!AuthorOf
  <2>4. QED
    BY <2>2, <2>3
<1>2. Init => MemoOverlays
  BY DEF Init, MemoOverlays
<1>3. StoreInv /\ MemoOverlays /\ [Next]_vars => MemoOverlays'
  BY MemoKeepsOverlays
<1>4. StoreInv /\ MemoOverlays /\ AP!Sound(admit) => ViewShowsTrustedOverlays
  BY <1>1
<1>5. QED
  BY <1>2, <1>3, <1>4, VerdictsInvariant, StoreIsSound, PTL DEF Spec

-----------------------------------------------------------------------------
(* Recursive definitions *)

\* A set of naturals has a least element: the induction the proofs below rest on.
LEMMA LeastNatural ==
  ASSUME NEW S \in SUBSET Nat, S # {}
  PROVE  \E m \in S : \A n \in S : m <= n
<1> DEFINE Below == {1..n : n \in S}
<1>1. Below \subseteq FiniteSubsetsOf(Nat) /\ Below # {}
  <2>1. ASSUME NEW n \in S PROVE 1..n \in FiniteSubsetsOf(Nat)
    <3>1. n \in Int /\ 1 \in Int
      OBVIOUS
    <3>2. IsFiniteSet(1..n)
      BY <3>1, FS_Interval
    <3>3. QED
      BY <3>2 DEF FiniteSubsetsOf
  <2>2. QED
    BY <2>1
<1>2. PICK m \in S : \A n \in S : <<1..n, 1..m>> \notin StrictSubsetOrdering(Nat)
  <2>1. \E x \in Below : \A y \in Below : <<y, x>> \notin StrictSubsetOrdering(Nat)
    <3> HIDE DEF Below
    <3>1. QED
      BY <1>1, WFMin, FS_StrictSubsetOrderingWellFounded
  <2>2. QED
    BY <2>1
<1>3. ASSUME NEW n \in S PROVE m <= n
  <2>1. SUFFICES ASSUME n < m PROVE FALSE
    OBVIOUS
  <2>2. 1..n \subseteq 1..m /\ m \in 1..m /\ m \notin 1..n /\ 1..m \subseteq Nat
    BY <2>1
  <2>3. <<1..n, 1..m>> \in (SUBSET Nat) \X (SUBSET Nat) /\ 1..n # 1..m
    BY <2>2
  <2>4. QED
    BY <1>2, <2>2, <2>3, Zenon DEF StrictSubsetOrdering
<1>4. QED
  BY <1>3

\* Induction up to N, over a set.
LEMMA SetInduction ==
  ASSUME NEW N \in Nat, NEW S, 0 \in S, \A n \in 1..N : n - 1 \in S => n \in S
  PROVE  0..N \subseteq S
<1> DEFINE T == 0..N \ S
<1>1. SUFFICES ASSUME T # {} PROVE FALSE
  OBVIOUS
<1>2. PICK m \in T : \A n \in T : m <= n
  <2>1. T \in SUBSET Nat
    OBVIOUS
  <2> HIDE DEF T
  <2>2. QED
    BY <1>1, <2>1, LeastNatural
<1>3. m \in 1..N /\ m - 1 \in 0..N /\ ~(m <= m - 1)
  BY <1>2
<1>4. m - 1 \in S
  BY <1>2, <1>3
<1>5. QED
  BY <1>2, <1>3, <1>4

\* f starts at a and G gives each value from the one before.
Recurs(f, N, a, G) == \A n \in 0..N : f[n] = IF n = 0 THEN a ELSE G[<<n, f[n - 1]>>]

\* What a recursive definition over 0..N promises exists.
LEMMA FiniteRecursion ==
  ASSUME NEW N \in Nat, NEW S, NEW a \in S, NEW G \in [(1..N) \X S -> S]
  PROVE  \E f \in [0..N -> S] : Recurs(f, N, a, G)
<1> DEFINE Upto(k) == \E f \in [0..k -> S] :
             \A n \in 0..k : f[n] = IF n = 0 THEN a ELSE G[<<n, f[n - 1]>>]
           T == {k \in 0..N : Upto(k)}
<1>1. Upto(0)
  <2> DEFINE f == [n \in 0..0 |-> a]
  <2>1. f \in [0..0 -> S] /\ \A n \in 0..0 : n = 0 /\ f[n] = a
    OBVIOUS
  <2> HIDE DEF f
  <2>2. QED
    BY <2>1
<1>2. ASSUME NEW k \in 1..N, Upto(k - 1) PROVE Upto(k)
  <2>1. PICK f \in [0..k - 1 -> S] :
          \A n \in 0..k - 1 : f[n] = IF n = 0 THEN a ELSE G[<<n, f[n - 1]>>]
    BY <1>2
  <2> DEFINE g == [n \in 0..k |-> IF n = k THEN G[<<k, f[k - 1]>>] ELSE f[n]]
  <2>2. k - 1 \in 0..k - 1 /\ f[k - 1] \in S /\ G[<<k, f[k - 1]>>] \in S
    BY <2>1
  <2>3. g \in [0..k -> S]
    BY <2>1, <2>2
  <2>4. ASSUME NEW n \in 0..k
        PROVE  g[n] = IF n = 0 THEN a ELSE G[<<n, g[n - 1]>>]
    <3>1. CASE n = k
      BY <3>1
    <3>2. CASE n # k
      <4>1. n \in 0..k - 1 /\ g[n] = f[n] /\ (n # 0 => n - 1 \in 0..k /\ n - 1 # k)
        BY <3>2
      <4>2. n # 0 => g[n - 1] = f[n - 1]
        BY <4>1
      <4> HIDE DEF g
      <4>3. QED
        BY <2>1, <4>1, <4>2
    <3>3. QED
      BY <3>1, <3>2
  <2> HIDE DEF g
  <2>5. QED
    BY <2>3, <2>4
<1>3. 0 \in T /\ \A n \in 1..N : n - 1 \in T => n \in T
  <2> HIDE DEF Upto
  <2>1. QED
    BY <1>1, <1>2
<1>4. N \in T
  <2> HIDE DEF T
  <2>1. QED
    BY <1>3, SetInduction
<1>5. QED
  BY <1>4 DEF Recurs

-----------------------------------------------------------------------------
(* Deletions and the chain *)

\* What the patch at a place of a chain replies to.
Above(r, w, i) == IF i = 1 THEN r ELSE w[i - 1]

\* Each patch of w replies to the one before it, the first to r.
IsChain(r, w) == \A i \in 1..Len(w) : Body[w[i]].reply = Above(r, w, i)

\* A patch is on a chain once, so a chain is no longer than what it is taken from.
LEMMA ChainHasNoRepeats ==
  ASSUME NEW r, NEW S, IsFiniteSet(S), r \notin S, NEW w \in Seq(S), IsChain(r, w)
  PROVE  Len(w) <= Cardinality(S)
<1> DEFINE N == Len(w)
           T == {i \in 0..N : i = 0 \/ \A j \in 1..N : w[i] = w[j] => i = j}
<1>1. N \in Nat /\ DOMAIN w = 1..N /\ \A i \in 1..N : w[i] \in S
  OBVIOUS
<1>2. 0 \in T
  BY <1>1
<1>3. ASSUME NEW i \in 1..N, i - 1 \in T PROVE i \in T
  <2>1. i \in 0..N
    BY <1>1
  <2>2. SUFFICES ASSUME NEW j \in 1..N, w[i] = w[j] PROVE i = j
    BY <2>1
  <2>3. Above(r, w, i) = Above(r, w, j)
    BY <1>1, <2>2 DEF IsChain
  <2>4. CASE i = 1
    <3>1. SUFFICES ASSUME j # 1 PROVE FALSE
      BY <2>4
    <3>2. j - 1 \in 1..N /\ r = w[j - 1]
      BY <2>3, <2>4, <3>1 DEF Above
    <3>3. QED
      BY <1>1, <3>2
  <2>5. CASE i # 1 /\ j = 1
    <3>1. i - 1 \in 1..N /\ w[i - 1] = r
      BY <2>3, <2>5 DEF Above
    <3>2. QED
      BY <1>1, <3>1
  <2>6. CASE i # 1 /\ j # 1
    <3>1. i - 1 \in 1..N /\ j - 1 \in 1..N /\ w[i - 1] = w[j - 1]
      BY <2>3, <2>6 DEF Above
    <3>2. i - 1 = j - 1
      BY <1>3, <3>1
    <3>3. QED
      BY <1>1, <3>2
  <2>7. QED
    BY <2>4, <2>5, <2>6
<1>4. 0..N \subseteq T
  <2> HIDE DEF T, N
  <2>1. QED
    BY <1>1, <1>2, <1>3, SetInduction
<1>5. w \in Injection(1..N, S)
  BY <1>1, <1>4 DEF Injection, IsInjective
<1>6. Cardinality(1..N) = N
  <2>1. 1 \in Int /\ N \in Int /\ (IF 1 > N THEN 0 ELSE N - 1 + 1) = N
    BY <1>1
  <2> HIDE DEF N
  <2>2. QED
    BY <2>1, FS_Interval
<1>7. QED
  <2> HIDE DEF N
  <2>1. N <= Cardinality(S)
    BY <1>5, <1>6, FS_Injection
  <2>2. QED
    BY <2>1 DEF N

\* Each patch of w is the only link that replies to the one before it.
OnlyChildren(r, w, links) ==
  \A i \in 1..Len(w) : Children(Above(r, w, i), links) = {w[i]}

\* The walk goes through only children, and where it ends there is a leaf or a fork (SF-1).
LEMMA WalkGoesToTheEnd ==
  ASSUME NEW r, NEW links, IsFiniteSet(links), r \notin links,
         NEW w, w = ChainPatches(r, links)
  PROVE  /\ w \in Seq(links) /\ OnlyChildren(r, w, links)
         /\ Cardinality(Children(Above(r, w, Len(w) + 1), links)) # 1
<1> DEFINE N == Cardinality(links)
           S == Seq(links)
           a == <<>>
           kidsOf(u) == Children(IF u = <<>> THEN r ELSE Last(u), links)
           step(u) == LET kids == kidsOf(u)
                      IN IF Cardinality(kids) = 1 THEN Append(u, CHOOSE k \in kids : TRUE) ELSE u
           IsWalk(walk) == walk = [n \in 0..N |-> IF n = 0 THEN a ELSE step(walk[n - 1])]
           walk == CHOOSE f : IsWalk(f)
<1>1. N \in Nat /\ a \in S
  BY FS_CardinalityType
<1>2. w = walk[N]
  BY DEF ChainPatches
<1>3. ASSUME NEW u \in S
      PROVE  /\ step(u) \in S
             /\ kidsOf(u) = Children(Above(r, u, Len(u) + 1), links)
             /\ Cardinality(kidsOf(u)) # 1 => step(u) = u
             /\ Cardinality(kidsOf(u)) = 1 =>
                  \E k \in links : kidsOf(u) = {k} /\ step(u) = Append(u, k)
  <2> DEFINE kids == kidsOf(u)
  <2>1. step(u) = IF Cardinality(kids) = 1 THEN Append(u, CHOOSE k \in kids : TRUE) ELSE u
    OBVIOUS
  <2>2. kids \subseteq links
    BY DEF Children
  <2>3. kids = Children(Above(r, u, Len(u) + 1), links)
    <3>1. Len(u) \in Nat /\ (u = <<>> <=> Len(u) = 0) /\ Last(u) = u[Len(u)]
      BY DEF Last
    <3>2. Above(r, u, Len(u) + 1) = IF u = <<>> THEN r ELSE Last(u)
      BY <3>1 DEF Above
    <3>3. QED
      BY <3>2
  <2> HIDE DEF kids, step, kidsOf
  <2>4. ASSUME Cardinality(kids) = 1
        PROVE  \E k \in links : kids = {k} /\ step(u) = Append(u, k)
    <3>1. IsFiniteSet(kids)
      BY <2>2, FS_Subset
    <3>2. PICK k : kids = {k}
      BY <2>4, <3>1, FS_Singleton
    <3>3. QED
      BY <2>1, <2>2, <2>4, <3>2
  <2>5. step(u) \in S
    BY <2>1, <2>4
  <2>6. QED
    BY <2>1, <2>3, <2>4, <2>5 DEF kids
<1> HIDE DEF N, S, a, step, kidsOf
<1>4. \E f : IsWalk(f)
  <2> DEFINE G == [x \in (1..N) \X S |-> step(x[2])]
  <2>1. G \in [(1..N) \X S -> S] /\ \A n \in 1..N, u \in S : G[<<n, u>>] = step(u)
    BY <1>3
  <2> HIDE DEF G
  <2>2. PICK f \in [0..N -> S] : Recurs(f, N, a, G)
    BY <1>1, <2>1, FiniteRecursion
  <2>3. ASSUME NEW n \in 0..N, n # 0 PROVE n \in 1..N /\ f[n - 1] \in S
    BY <1>1, <2>2, <2>3
  <2>4. \A n \in 0..N : f[n] = IF n = 0 THEN a ELSE step(f[n - 1])
    BY <2>1, <2>2, <2>3 DEF Recurs
  <2>5. IsWalk(f)
    BY <2>4
  <2>6. QED
    BY <2>5
<1>5. IsWalk(walk)
  <2> HIDE DEF IsWalk
  <2>1. QED
    BY <1>4
<1> HIDE DEF walk
<1> DEFINE Good(u, n) == /\ u \in S /\ OnlyChildren(r, u, links)
                         /\ Len(u) = n \/ Cardinality(kidsOf(u)) # 1
           T == {n \in 0..N : Good(walk[n], n)}
<1>6. 0 \in T
  <2>1. 0 \in 0..N /\ walk[0] = a
    BY <1>1, <1>5
  <2>2. Good(a, 0)
    BY <1>1 DEF OnlyChildren, a
  <2>3. QED
    BY <2>1, <2>2
<1>7. ASSUME NEW n \in 1..N, n - 1 \in T PROVE n \in T
  <2>1. n \in 0..N /\ n # 0
    BY <1>1
  <2>2. walk[n] = step(walk[n - 1]) /\ Good(walk[n - 1], n - 1)
    BY <1>5, <1>7, <2>1
  <2> DEFINE u == walk[n - 1]
  <2>3. CASE Cardinality(kidsOf(u)) # 1
    BY <1>3, <2>1, <2>2, <2>3
  <2>4. CASE Cardinality(kidsOf(u)) = 1
    <3>1. PICK k \in links : kidsOf(u) = {k} /\ step(u) = Append(u, k)
      BY <1>3, <2>2, <2>4
    <3>2. u \in Seq(links) /\ Len(u) = n - 1
      BY <2>2, <2>4 DEF S
    <3> HIDE DEF u
    <3> DEFINE v == Append(u, k)
    <3>3. v \in Seq(links) /\ Len(v) = n /\ v[n] = k /\ \A i \in 1..n - 1 : v[i] = u[i]
      BY <3>2
    <3>4. ASSUME NEW i \in 1..n PROVE Children(Above(r, v, i), links) = {v[i]}
      <4>1. Above(r, v, i) = Above(r, u, i)
        BY <3>3 DEF Above
      <4>2. CASE i = n
        <5>1. Len(u) + 1 = n
          BY <3>2
        <5>2. QED
          BY <1>3, <3>1, <3>2, <3>3, <4>1, <4>2, <5>1 DEF S
      <4>3. CASE i # n
        <5>1. i \in 1..Len(u)
          BY <3>2, <4>3
        <5>2. Children(Above(r, u, i), links) = {u[i]}
          BY <2>2, <5>1 DEF OnlyChildren, u
        <5>3. QED
          BY <3>2, <3>3, <4>1, <5>1, <5>2
      <4>4. QED
        BY <4>2, <4>3
    <3>5. OnlyChildren(r, v, links)
      BY <3>3, <3>4 DEF OnlyChildren
    <3> HIDE DEF v
    <3>6. walk[n] = v
      BY <2>2, <3>1 DEF u, v
    <3>7. QED
      BY <2>1, <3>3, <3>5, <3>6 DEF S
  <2>5. QED
    BY <2>3, <2>4
<1>8. 0..N \subseteq T
  <2> HIDE DEF T
  <2>1. QED
    BY <1>1, <1>6, <1>7, SetInduction
<1>9. Good(w, N)
  BY <1>1, <1>2, <1>8
<1>10. ASSUME Len(w) = N, Cardinality(kidsOf(w)) = 1 PROVE FALSE
  <2>1. w \in Seq(links) /\ OnlyChildren(r, w, links) /\ Len(w) \in Nat
    BY <1>9 DEF S
  <2>2. PICK k \in links : kidsOf(w) = {k}
    BY <1>3, <1>9, <1>10
  <2>3. Children(Above(r, w, Len(w) + 1), links) = {k}
    BY <1>3, <1>9, <2>2
  <2> DEFINE v == Append(w, k)
  <2>4. /\ v \in Seq(links) /\ Len(v) = Len(w) + 1
        /\ v[Len(w) + 1] = k /\ \A i \in 1..Len(w) : v[i] = w[i]
    BY <2>1
  <2> HIDE DEF v
  <2>5. ASSUME NEW i \in 1..Len(v) PROVE Body[v[i]].reply = Above(r, v, i)
    <3>1. Above(r, v, i) = Above(r, w, i)
      BY <2>1, <2>4 DEF Above
    <3>2. v[i] \in Children(Above(r, w, i), links)
      <4>1. CASE i \in 1..Len(w)
        BY <2>1, <2>4, <4>1 DEF OnlyChildren
      <4>2. CASE i = Len(w) + 1
        BY <2>3, <2>4, <4>2
      <4>3. QED
        BY <2>1, <2>4, <4>1, <4>2
    <3>3. QED
      BY <3>1, <3>2 DEF Children
  <2>6. Len(v) <= N
    BY <2>4, <2>5, ChainHasNoRepeats DEF IsChain, N
  <2>7. QED
    BY <1>1, <1>10, <2>4, <2>6
<1>11. QED
  <2>1. w \in S /\ kidsOf(w) = Children(Above(r, w, Len(w) + 1), links)
    BY <1>3, <1>9
  <2>2. QED
    BY <1>9, <1>10, <2>1 DEF S

Classes == {"chain", "held", "ignored"}

\* One turn of the classification: a patch is settled by its reply target, or shares
\* the class of it.
Turned(r, seen, above) ==
  [q \in Event |->
     LET parent == Body[q].reply
     IN IF parent = NoEvent THEN "ignored"
        ELSE IF parent = r THEN "chain"
        ELSE IF parent \notin seen THEN "held"
        ELSE IF AuthorOf(parent) # AuthorOf(r) THEN "ignored"
        ELSE above[parent]]

\* The classification, turn by turn.
LEMMA ClassesAreReached ==
  ASSUME NEW seen \in SUBSET Event, IsFiniteSet(seen), NEW r \in Event
  PROVE  \E class \in [0..Cardinality(seen) -> [Event -> Classes]] :
           /\ class[0] = [q \in Event |-> "ignored"]
           /\ \A n \in 1..Cardinality(seen) : class[n] = Turned(r, seen, class[n - 1])
           /\ \A p : Eligibility(r, p, seen) = class[Cardinality(seen)][p]
<1> DEFINE N == Cardinality(seen)
           S == [Event -> Classes]
           turn(n, above) ==
             [q \in Event |->
               LET parent == Body[q].reply
               IN CASE n = 0 \/ parent = NoEvent       -> "ignored"
                    [] n > 0 /\ parent = r             -> "chain"
                    [] n > 0 /\ parent \notin seen \cup {r, NoEvent} -> "held"
                    [] OTHER -> IF AuthorOf(parent) # AuthorOf(r) THEN "ignored"
                                                                  ELSE above[parent]]
           IsClass(class) == class = [n \in 0..N |-> turn(n, class[n - 1])]
           class == CHOOSE f : IsClass(f)
           a == [q \in Event |-> "ignored"]
<1>1. N \in Nat /\ a \in S
  BY FS_CardinalityType DEF Classes
<1>2. ASSUME NEW p PROVE Eligibility(r, p, seen) = class[N][p]
  BY DEF Eligibility
<1>3. ASSUME NEW n \in 1..N, NEW above PROVE turn(n, above) = Turned(r, seen, above)
  <2>1. NoEvent \notin Event /\ n # 0 /\ n > 0
    BY NoEventAssumption
  <2>2. ASSUME NEW q \in Event PROVE turn(n, above)[q] = Turned(r, seen, above)[q]
    <3> DEFINE parent == Body[q].reply
    <3>1. CASE parent = NoEvent
      BY <2>1, <3>1 DEF Turned
    <3>2. CASE parent # NoEvent /\ parent = r
      BY <2>1, <3>2 DEF Turned
    <3>3. CASE parent # NoEvent /\ parent # r /\ parent \notin seen
      BY <2>1, <3>3 DEF Turned
    <3>4. CASE parent # NoEvent /\ parent # r /\ parent \in seen
      BY <2>1, <3>4 DEF Turned
    <3>5. QED
      BY <3>1, <3>2, <3>3, <3>4
  <2>3. /\ turn(n, above) = [q \in Event |-> turn(n, above)[q]]
        /\ Turned(r, seen, above) = [q \in Event |-> Turned(r, seen, above)[q]]
    BY DEF Turned
  <2> HIDE DEF turn
  <2>4. QED
    BY <2>2, <2>3, Zenon
<1>4. \A x : turn(0, x) = a
  OBVIOUS
<1>5. ASSUME NEW above \in S PROVE Turned(r, seen, above) \in S
  BY DEF Turned, Classes
<1> HIDE DEF N, S, a, turn
<1>6. \E f \in [0..N -> S] : f[0] = a /\ \A n \in 1..N : f[n] = Turned(r, seen, f[n - 1])
  <2> DEFINE G == [x \in (1..N) \X S |-> Turned(r, seen, x[2])]
  <2>1. G \in [(1..N) \X S -> S] /\ \A n \in 1..N, u \in S : G[<<n, u>>] = Turned(r, seen, u)
    BY <1>5
  <2> HIDE DEF G
  <2>2. PICK f \in [0..N -> S] : Recurs(f, N, a, G)
    BY <1>1, <2>1, FiniteRecursion
  <2>3. ASSUME NEW n \in 1..N PROVE n \in 0..N /\ n # 0 /\ f[n - 1] \in S
    BY <1>1, <2>2
  <2>4. 0 \in 0..N
    BY <1>1
  <2>5. f[0] = a /\ \A n \in 1..N : f[n] = Turned(r, seen, f[n - 1])
    BY <2>1, <2>2, <2>3, <2>4 DEF Recurs
  <2>6. QED
    BY <2>5
<1>7. IsClass(class)
  <2>1. PICK f \in [0..N -> S] : f[0] = a /\ \A n \in 1..N : f[n] = Turned(r, seen, f[n - 1])
    BY <1>6
  <2>2. ASSUME NEW n \in 0..N PROVE f[n] = turn(n, f[n - 1])
    <3>1. CASE n = 0
      BY <1>4, <2>1, <3>1
    <3>2. CASE n # 0
      <4>1. n \in 1..N
        BY <1>1, <3>2
      <4>2. QED
        BY <1>3, <2>1, <4>1
    <3>3. QED
      BY <3>1, <3>2
  <2>3. IsClass(f)
    BY <2>1, <2>2
  <2> HIDE DEF IsClass
  <2>4. QED
    BY <2>3
<1> HIDE DEF class
<1>8. \A n \in 0..N : class[n] = turn(n, class[n - 1])
  BY <1>7
<1>9. class[0] = a /\ \A n \in 1..N : class[n] = Turned(r, seen, class[n - 1])
  <2>1. 0 \in 0..N /\ \A n \in 1..N : n \in 0..N
    BY <1>1
  <2>2. QED
    BY <1>3, <1>4, <1>8, <2>1
<1>10. class \in [0..N -> S]
  <2> DEFINE T == {n \in 0..N : class[n] \in S}
  <2>1. 0 \in T
    BY <1>1, <1>9
  <2>2. ASSUME NEW n \in 1..N, n - 1 \in T PROVE n \in T
    <3>1. n \in 0..N
      BY <1>1
    <3>2. QED
      BY <1>5, <1>9, <2>2, <3>1
  <2>3. 0..N \subseteq T
    <3> HIDE DEF T
    <3>1. QED
      BY <1>1, <2>1, <2>2, SetInduction
  <2>4. class = [n \in 0..N |-> class[n]]
    BY <1>7
  <2>5. QED
    BY <2>3, <2>4
<1>11. QED
  BY <1>2, <1>9, <1>10 DEF N, S, a

\* What becomes of patches that reply, through one another, to t.
Fate(r, t, seen) ==
  IF t = r THEN "chain" ELSE IF t \notin seen \cup {NoEvent} THEN "held" ELSE "ignored"

\* Observed events of the author of r, and no way on from an event of that author
\* that they reply to.
Kin(r, kin, seen) ==
  /\ kin \subseteq seen /\ r \notin kin
  /\ \A q \in kin : AuthorOf(q) = AuthorOf(r)
  /\ \A q \in kin : LET t == Body[q].reply
                    IN \/ t \in kin \cup {r, NoEvent} \/ t \notin seen
                       \/ AuthorOf(t) # AuthorOf(r) \/ Body[t].reply = NoEvent

\* A chain shares the fate of what it hangs from, whatever the lineages of others
\* (PT-6, UR-4).
LEMMA ChainSharesFate ==
  ASSUME NEW seen \in SUBSET Event, IsFiniteSet(seen), NEW r \in Event,
         NEW kin, Kin(r, kin, seen), NEW t, t \notin kin,
         NEW w \in Seq(kin), IsChain(t, w)
  PROVE  \A i \in 1..Len(w) : Eligibility(r, w[i], seen) = Fate(r, t, seen)
<1> DEFINE N == Cardinality(seen)
<1>1. PICK class \in [0..N -> [Event -> Classes]] :
        /\ class[0] = [q \in Event |-> "ignored"]
        /\ \A n \in 1..N : class[n] = Turned(r, seen, class[n - 1])
        /\ \A p : Eligibility(r, p, seen) = class[N][p]
  BY ClassesAreReached
<1>2. N \in Nat /\ 0 \in 0..N
  BY FS_CardinalityType
<1>3. Len(w) <= N
  <2>1. IsFiniteSet(kin) /\ Cardinality(kin) <= N /\ Cardinality(kin) \in Nat
    BY FS_Subset, FS_CardinalityType DEF Kin
  <2>2. Len(w) <= Cardinality(kin) /\ Len(w) \in Nat
    BY <2>1, ChainHasNoRepeats
  <2> HIDE DEF N
  <2>3. QED
    BY <1>2, <2>1, <2>2
<1> HIDE DEF N
<1>4. \A i \in 1..Len(w) : /\ w[i] \in kin /\ w[i] \in Event /\ w[i] \in seen
                           /\ Body[w[i]].reply = Above(t, w, i)
  BY DEF IsChain, Kin
<1> DEFINE T == {n \in 0..N : \A i \in 1..Len(w) : i <= n => class[n][w[i]] = Fate(r, t, seen)}
<1>5. 0 \in T
  BY <1>2
<1>6. ASSUME NEW n \in 1..N, n - 1 \in T PROVE n \in T
  <2>1. n \in 0..N /\ n - 1 \in 0..N
    BY <1>2
  <2>2. class[n] = Turned(r, seen, class[n - 1])
    BY <1>1
  <2>3. ASSUME NEW i \in 1..Len(w), i <= n PROVE class[n][w[i]] = Fate(r, t, seen)
    <3>1. CASE i = 1
      <4>1. Body[w[1]].reply = t /\ w[1] \in Event /\ w[1] \in kin
        BY <1>4, <3>1 DEF Above
      <4>2. class[n][w[1]] = IF t = NoEvent THEN "ignored"
                             ELSE IF t = r THEN "chain"
                             ELSE IF t \notin seen THEN "held"
                             ELSE IF AuthorOf(t) # AuthorOf(r) THEN "ignored"
                             ELSE class[n - 1][t]
        BY <2>2, <4>1 DEF Turned
      <4>3. CASE t \in seen /\ t # r /\ AuthorOf(t) = AuthorOf(r)
        <5>1. Body[t].reply = NoEvent /\ t \in Event
          BY <4>1, <4>3, NoEventAssumption DEF Kin
        <5>2. class[n - 1][t] = "ignored"
          <6>1. CASE n - 1 = 0
            BY <1>1, <5>1, <6>1
          <6>2. CASE n - 1 # 0
            <7>1. n - 1 \in 1..N
              BY <1>2, <6>2
            <7>2. class[n - 1] = Turned(r, seen, class[n - 1 - 1])
              BY <1>1, <7>1
            <7>3. QED
              BY <5>1, <7>2 DEF Turned
          <6>3. QED
            BY <6>1, <6>2
        <5>3. QED
          BY <3>1, <4>2, <4>3, <5>1, <5>2, NoEventAssumption DEF Fate
      <4>4. CASE ~(t \in seen /\ t # r /\ AuthorOf(t) = AuthorOf(r))
        BY <3>1, <4>2, <4>4, NoEventAssumption DEF Fate
      <4>5. QED
        BY <4>3, <4>4
    <3>2. CASE i # 1
      <4>1. i - 1 \in 1..Len(w) /\ i - 1 <= n - 1
        BY <1>2, <2>3, <3>2
      <4>2. /\ Body[w[i]].reply = w[i - 1] /\ w[i] \in Event
            /\ w[i - 1] \in seen /\ w[i - 1] \in kin /\ w[i - 1] \in Event
        BY <1>4, <3>2, <4>1 DEF Above
      <4>3. w[i - 1] # r /\ w[i - 1] # NoEvent /\ AuthorOf(w[i - 1]) = AuthorOf(r)
        BY <4>2, NoEventAssumption DEF Kin
      <4>4. class[n][w[i]] = class[n - 1][w[i - 1]]
        BY <2>2, <4>2, <4>3 DEF Turned
      <4>5. class[n - 1][w[i - 1]] = Fate(r, t, seen)
        BY <1>6, <4>1
      <4>6. QED
        BY <4>4, <4>5
    <3>3. QED
      BY <3>1, <3>2
  <2>4. QED
    BY <2>1, <2>3
<1>7. 0..N \subseteq T
  <2> HIDE DEF T
  <2>1. QED
    BY <1>2, <1>5, <1>6, SetInduction
<1>8. N \in T
  BY <1>2, <1>7
<1>9. QED
  BY <1>1, <1>2, <1>3, <1>8

\* A patch on a chain of events by the author of the root is eligible, whatever the
\* lineages of others (PT-6).
LEMMA ChainIsEligible ==
  ASSUME NEW seen \in SUBSET Event, IsFiniteSet(seen), NEW r \in Event,
         NEW w \in Seq(seen \ {r}), IsChain(r, w),
         \A i \in 1..Len(w) : AuthorOf(w[i]) = AuthorOf(r)
  PROVE  \A i \in 1..Len(w) : Eligibility(r, w[i], seen) = "chain"
<1> DEFINE kin == {w[i] : i \in 1..Len(w)}
<1>1. w \in Seq(kin) /\ kin \subseteq seen /\ r \notin kin
  OBVIOUS
<1>2. \A q \in kin : AuthorOf(q) = AuthorOf(r)
  OBVIOUS
<1>3. \A q \in kin : Body[q].reply \in kin \cup {r}
  <2> SUFFICES ASSUME NEW i \in 1..Len(w) PROVE Body[w[i]].reply \in kin \cup {r}
    OBVIOUS
  <2>1. Body[w[i]].reply = Above(r, w, i)
    BY DEF IsChain
  <2>2. QED
    BY <2>1 DEF Above
<1> HIDE DEF kin
<1>4. Kin(r, kin, seen)
  BY <1>1, <1>2, <1>3 DEF Kin
<1>5. \A i \in 1..Len(w) : Eligibility(r, w[i], seen) = Fate(r, r, seen)
  BY <1>1, <1>4, ChainSharesFate
<1>6. QED
  BY <1>5 DEF Fate

\* The removal, level by level.
LEMMA RemovedIsReached ==
  ASSUME NEW linkable, IsFiniteSet(linkable), NEW deleted
  PROVE  \E below \in [0..Cardinality(linkable) -> SUBSET linkable] :
           /\ below[0] = linkable \cap deleted
           /\ \A n \in 1..Cardinality(linkable) :
                below[n] = below[n - 1] \cup {p \in linkable : Body[p].reply \in below[n - 1]}
           /\ Removed(linkable, deleted) = below[Cardinality(linkable)]
<1> DEFINE N == Cardinality(linkable)
           S == SUBSET linkable
           a == linkable \cap deleted
           step(above) == above \cup {p \in linkable : Body[p].reply \in above}
           IsBelow(below) == below = [n \in 0..N |-> IF n = 0 THEN a ELSE step(below[n - 1])]
           below == CHOOSE f : IsBelow(f)
<1>1. N \in Nat /\ a \in S
  BY FS_CardinalityType
<1>2. Removed(linkable, deleted) = below[N]
  BY DEF Removed
<1>3. \A above \in S : step(above) \in S
  OBVIOUS
<1>4. \A above : step(above) = above \cup {p \in linkable : Body[p].reply \in above}
  OBVIOUS
<1> HIDE DEF N, S, a, step
<1>5. \E f \in [0..N -> S] : \A n \in 0..N : f[n] = IF n = 0 THEN a ELSE step(f[n - 1])
  <2> DEFINE G == [x \in (1..N) \X S |-> step(x[2])]
  <2>1. G \in [(1..N) \X S -> S] /\ \A n \in 1..N, u \in S : G[<<n, u>>] = step(u)
    BY <1>3
  <2> HIDE DEF G
  <2>2. PICK f \in [0..N -> S] : Recurs(f, N, a, G)
    BY <1>1, <2>1, FiniteRecursion
  <2>3. ASSUME NEW n \in 0..N, n # 0 PROVE n \in 1..N /\ f[n - 1] \in S
    BY <1>1, <2>2, <2>3
  <2>4. \A n \in 0..N : f[n] = IF n = 0 THEN a ELSE step(f[n - 1])
    BY <2>1, <2>2, <2>3 DEF Recurs
  <2>5. QED
    BY <2>4
<1>6. IsBelow(below)
  <2>1. \E f : IsBelow(f)
    BY <1>5
  <2> HIDE DEF IsBelow
  <2>2. QED
    BY <2>1
<1> HIDE DEF below
<1>7. \A n \in 0..N : below[n] = IF n = 0 THEN a ELSE step(below[n - 1])
  BY <1>6
<1>8. 0 \in 0..N /\ \A n \in 1..N : n \in 0..N /\ n # 0
  BY <1>1
<1>9. below \in [0..N -> S]
  <2> DEFINE T == {n \in 0..N : below[n] \in S}
  <2>1. 0 \in T
    BY <1>1, <1>7, <1>8
  <2>2. ASSUME NEW n \in 1..N, n - 1 \in T PROVE n \in T
    BY <1>3, <1>7, <1>8, <2>2
  <2>3. 0..N \subseteq T
    <3> HIDE DEF T
    <3>1. QED
      BY <1>1, <2>1, <2>2, SetInduction
  <2>4. below = [n \in 0..N |-> below[n]]
    BY <1>6
  <2>5. QED
    BY <2>3, <2>4
<1>10. below[0] = a /\ \A n \in 1..N : below[n] = step(below[n - 1])
  BY <1>7, <1>8
<1>11. QED
  BY <1>2, <1>4, <1>9, <1>10 DEF N, S, a

\* A deleted link is removed, whatever hangs below it.
LEMMA RemovedHoldsDeleted ==
  ASSUME NEW linkable, IsFiniteSet(linkable), NEW deleted
  PROVE  linkable \cap deleted \subseteq Removed(linkable, deleted)
<1> DEFINE N == Cardinality(linkable)
<1>1. PICK below \in [0..N -> SUBSET linkable] :
        /\ below[0] = linkable \cap deleted
        /\ \A n \in 1..N :
             below[n] = below[n - 1] \cup {p \in linkable : Body[p].reply \in below[n - 1]}
        /\ Removed(linkable, deleted) = below[N]
  BY RemovedIsReached
<1>2. N \in Nat /\ 0 \in 0..N
  BY FS_CardinalityType
<1> HIDE DEF N
<1> DEFINE T == {n \in 0..N : linkable \cap deleted \subseteq below[n]}
<1>3. 0 \in T
  BY <1>1, <1>2
<1>4. ASSUME NEW n \in 1..N, n - 1 \in T PROVE n \in T
  <2>1. n \in 0..N /\ below[n - 1] \subseteq below[n]
    BY <1>1, <1>2
  <2>2. QED
    BY <1>4, <2>1
<1>5. 0..N \subseteq T
  <2> HIDE DEF T
  <2>1. QED
    BY <1>2, <1>3, <1>4, SetInduction
<1>6. QED
  BY <1>1, <1>2, <1>5

\* A chain of which no patch is deleted is not removed (DEL-2).
LEMMA ChainIsNotRemoved ==
  ASSUME NEW linkable, IsFiniteSet(linkable), NEW deleted, NEW r, r \notin linkable,
         NEW w \in Seq(linkable), IsChain(r, w), \A i \in 1..Len(w) : w[i] \notin deleted
  PROVE  \A i \in 1..Len(w) : w[i] \notin Removed(linkable, deleted)
<1> DEFINE N == Cardinality(linkable)
<1>1. PICK below \in [0..N -> SUBSET linkable] :
        /\ below[0] = linkable \cap deleted
        /\ \A n \in 1..N :
             below[n] = below[n - 1] \cup {p \in linkable : Body[p].reply \in below[n - 1]}
        /\ Removed(linkable, deleted) = below[N]
  BY RemovedIsReached
<1>2. N \in Nat /\ 0 \in 0..N
  BY FS_CardinalityType
<1> HIDE DEF N
<1> DEFINE T == {n \in 0..N : \A i \in 1..Len(w) : w[i] \notin below[n]}
<1>3. 0 \in T
  BY <1>1, <1>2
<1>4. ASSUME NEW n \in 1..N, n - 1 \in T PROVE n \in T
  <2>1. n \in 0..N
    BY <1>2
  <2>2. SUFFICES ASSUME NEW i \in 1..Len(w), w[i] \in below[n] PROVE FALSE
    BY <2>1
  <2>3. below[n - 1] \subseteq linkable
    BY <1>1, <1>2
  <2>4. Above(r, w, i) \in below[n - 1]
    BY <1>1, <1>4, <2>2 DEF IsChain
  <2>5. i # 1 /\ i - 1 \in 1..Len(w) /\ w[i - 1] \in below[n - 1]
    BY <2>3, <2>4 DEF Above
  <2>6. QED
    BY <1>4, <2>5
<1>5. 0..N \subseteq T
  <2> HIDE DEF T
  <2>1. QED
    BY <1>2, <1>3, <1>4, SetInduction
<1>6. QED
  BY <1>1, <1>2, <1>5

\* What the loop over the patches does at the n-th.
Extended(patches, n, cs) ==
  LET next == Effect[patches[n]][Last(cs)]
  IN IF Len(cs) = n /\ next \in Content THEN Append(cs, next) ELSE cs

\* The loop, turn by turn.
LEMMA PositionsAreReached ==
  ASSUME NEW r \in Event, NEW patches, Len(patches) \in Nat
  PROVE  \E run \in [0..Len(patches) -> Seq(Content)] :
           /\ run[0] = <<RootContent[r]>>
           /\ \A n \in 1..Len(patches) : run[n] = Extended(patches, n, run[n - 1])
           /\ Positions(r, patches) = run[Len(patches)]
<1> DEFINE N == Len(patches)
           S == Seq(Content)
           a == <<RootContent[r]>>
           step(n, cs) == LET next == Effect[patches[n]][Last(cs)]
                          IN IF Len(cs) = n /\ next \in Content THEN Append(cs, next) ELSE cs
           IsRun(run) == run = [n \in 0..N |-> IF n = 0 THEN a ELSE step(n, run[n - 1])]
           run == CHOOSE f : IsRun(f)
<1>1. N \in Nat /\ a \in S
  BY EffectAssumption
<1>2. Positions(r, patches) = run[N]
  BY DEF Positions
<1>3. \A n, cs : step(n, cs) = Extended(patches, n, cs)
  BY DEF Extended
<1>4. ASSUME NEW n \in 1..N, NEW cs \in S PROVE step(n, cs) \in S
  <2> DEFINE next == Effect[patches[n]][Last(cs)]
  <2>1. step(n, cs) = IF Len(cs) = n /\ next \in Content THEN Append(cs, next) ELSE cs
    OBVIOUS
  <2> HIDE DEF next, step
  <2>2. QED
    BY <2>1
<1> HIDE DEF N, S, a, step
<1>5. \E f \in [0..N -> S] : \A n \in 0..N : f[n] = IF n = 0 THEN a ELSE step(n, f[n - 1])
  <2> DEFINE G == [x \in (1..N) \X S |-> step(x[1], x[2])]
  <2>1. G \in [(1..N) \X S -> S] /\ \A n \in 1..N, w \in S : G[<<n, w>>] = step(n, w)
    BY <1>4
  <2> HIDE DEF G
  <2>2. PICK f \in [0..N -> S] : Recurs(f, N, a, G)
    BY <1>1, <2>1, FiniteRecursion
  <2>3. ASSUME NEW n \in 0..N, n # 0 PROVE n \in 1..N /\ f[n - 1] \in S
    BY <1>1, <2>2, <2>3
  <2>4. \A n \in 0..N : f[n] = IF n = 0 THEN a ELSE step(n, f[n - 1])
    BY <2>1, <2>2, <2>3 DEF Recurs
  <2>5. QED
    BY <2>4
<1>6. IsRun(run)
  <2>1. \E f : IsRun(f)
    BY <1>5
  <2> HIDE DEF IsRun
  <2>2. QED
    BY <2>1
<1> HIDE DEF run
<1>7. \A n \in 0..N : run[n] = IF n = 0 THEN a ELSE step(n, run[n - 1])
  BY <1>6
<1>8. 0 \in 0..N /\ \A n \in 1..N : n \in 0..N /\ n # 0
  BY <1>1
<1>9. run \in [0..N -> S]
  <2> DEFINE T == {n \in 0..N : run[n] \in S}
  <2>1. 0 \in T
    BY <1>1, <1>7, <1>8
  <2>2. ASSUME NEW n \in 1..N, n - 1 \in T PROVE n \in T
    BY <1>4, <1>7, <1>8, <2>2
  <2>3. 0..N \subseteq T
    <3> HIDE DEF T
    <3>1. QED
      BY <1>1, <2>1, <2>2, SetInduction
  <2>4. run = [n \in 0..N |-> run[n]]
    BY <1>6
  <2>5. QED
    BY <2>3, <2>4
<1>10. run[0] = a /\ \A n \in 1..N : run[n] = Extended(patches, n, run[n - 1])
  BY <1>3, <1>7, <1>8
<1>11. QED
  BY <1>2, <1>9, <1>10 DEF N, S, a

\* A turn adds at most one content, and only while every patch so far has applied.
LEMMA ExtendedByOne ==
  ASSUME NEW patches, NEW n \in Nat, NEW cs \in Seq(Content)
  PROVE  /\ Extended(patches, n, cs) \in Seq(Content)
         /\ Len(Extended(patches, n, cs)) \in {Len(cs), Len(cs) + 1}
         /\ Len(cs) # n => Extended(patches, n, cs) = cs
<1> DEFINE next == Effect[patches[n]][Last(cs)]
<1>1. Extended(patches, n, cs) = IF Len(cs) = n /\ next \in Content THEN Append(cs, next) ELSE cs
  BY DEF Extended
<1> HIDE DEF next
<1>2. QED
  BY <1>1

\* No more patches apply than the walk took.
LEMMA PositionsAreBounded ==
  ASSUME NEW r \in Event, NEW patches, Len(patches) \in Nat
  PROVE  /\ Positions(r, patches) \in Seq(Content)
         /\ Len(Positions(r, patches)) \in 1..Len(patches) + 1
<1> DEFINE N == Len(patches)
<1>1. PICK run \in [0..N -> Seq(Content)] :
        /\ run[0] = <<RootContent[r]>>
        /\ \A n \in 1..N : run[n] = Extended(patches, n, run[n - 1])
        /\ Positions(r, patches) = run[N]
  BY PositionsAreReached
<1> DEFINE T == {n \in 0..N : Len(run[n]) \in 1..n + 1}
<1>2. N \in Nat /\ 0 \in 0..N
  OBVIOUS
<1> HIDE DEF N
<1>3. 0 \in T
  <2>1. Len(run[0]) \in 1..0 + 1
    <3>1. run[0] = <<RootContent[r]>>
      BY <1>1
    <3> HIDE DEF T
    <3>2. QED
      BY <3>1
  <2>2. QED
    BY <1>2, <2>1, Zenon
<1>4. ASSUME NEW n \in 1..N, n - 1 \in T PROVE n \in T
  <2>1. n \in 0..N /\ n \in Nat /\ run[n - 1] \in Seq(Content)
    BY <1>1, <1>2, <1>4
  <2>2. Len(run[n - 1]) \in 1..n
    BY <1>4
  <2>3. Len(run[n]) \in {Len(run[n - 1]), Len(run[n - 1]) + 1}
    BY <1>1, <2>1, ExtendedByOne
  <2>4. QED
    BY <2>1, <2>2, <2>3
<1>5. 0..N \subseteq T
  <2> HIDE DEF T
  <2>1. QED
    BY <1>2, <1>3, <1>4, SetInduction
<1>6. QED
  BY <1>1, <1>2, <1>5 DEF N

\* A longer chain applies what a shorter one that it begins with applies, and more
\* only after the whole of it.
LEMMA LongerChainAppliesNoLess ==
  ASSUME NEW r \in Event, NEW u, NEW v, Len(u) \in Nat, Len(v) \in Nat,
         Len(u) <= Len(v), \A i \in 1..Len(u) : u[i] = v[i],
         NEW short, short = Len(Positions(r, u)), NEW long, long = Len(Positions(r, v))
  PROVE  IF short <= Len(u) THEN long = short ELSE long >= short
<1> DEFINE M == Len(u)
           N == Len(v)
<1>1. PICK f \in [0..M -> Seq(Content)] :
        /\ f[0] = <<RootContent[r]>>
        /\ \A n \in 1..M : f[n] = Extended(u, n, f[n - 1])
        /\ Positions(r, u) = f[M]
  BY PositionsAreReached
<1>2. PICK g \in [0..N -> Seq(Content)] :
        /\ g[0] = <<RootContent[r]>>
        /\ \A n \in 1..N : g[n] = Extended(v, n, g[n - 1])
        /\ Positions(r, v) = g[N]
  BY PositionsAreReached
<1>3. M \in Nat /\ N \in Nat /\ M <= N /\ short = Len(f[M]) /\ short \in Nat /\ long = Len(g[N])
  BY <1>1, <1>2
<1>4. \A n \in 1..M : \A cs : Extended(u, n, cs) = Extended(v, n, cs)
  BY DEF Extended
<1> HIDE DEF M, N
<1> DEFINE Same(n) == /\ n <= M => g[n] = f[n]
                      /\ n > M => IF short <= M THEN Len(g[n]) = short ELSE Len(g[n]) >= short
           T == {n \in 0..N : Same(n)}
<1>5. 0 \in T
  <2>1. 0 \in 0..N /\ ~(0 > M)
    BY <1>3
  <2>2. Same(0)
    BY <1>1, <1>2, <2>1
  <2>3. QED
    BY <2>1, <2>2
<1>6. ASSUME NEW n \in 1..N, n - 1 \in T PROVE n \in T
  <2>1. n \in 0..N /\ n \in Nat /\ g[n - 1] \in Seq(Content) /\ g[n] = Extended(v, n, g[n - 1])
    BY <1>2, <1>3
  <2>2. Same(n - 1)
    BY <1>6
  <2>3. CASE n <= M
    <3>1. n \in 1..M /\ n - 1 <= M /\ ~(n > M)
      BY <1>3, <2>3
    <3>2. g[n - 1] = f[n - 1] /\ f[n] = Extended(u, n, f[n - 1])
      BY <1>1, <2>2, <3>1
    <3>3. g[n] = f[n]
      BY <1>4, <2>1, <3>1, <3>2
    <3>4. QED
      BY <2>1, <3>1, <3>3
  <2>4. CASE n > M
    <3>1. ~(n <= M) /\ Len(g[n - 1]) \in Nat
      BY <1>3, <2>1, <2>4
    <3>2. IF short <= M THEN Len(g[n - 1]) = short ELSE Len(g[n - 1]) >= short
      <4>1. CASE n - 1 <= M
        <5>1. n - 1 = M
          BY <1>3, <2>1, <2>4, <4>1
        <5>2. g[n - 1] = f[M]
          BY <2>2, <4>1, <5>1
        <5>3. Len(g[n - 1]) = short
          BY <1>3, <5>2
        <5>4. QED
          BY <1>3, <5>3
      <4>2. CASE n - 1 > M
        BY <2>2, <4>2
      <4>3. QED
        BY <1>3, <2>1, <4>1, <4>2
    <3>3. /\ Len(g[n]) \in {Len(g[n - 1]), Len(g[n - 1]) + 1}
          /\ Len(g[n - 1]) # n => Len(g[n]) = Len(g[n - 1])
      BY <2>1, ExtendedByOne
    <3>4. IF short <= M THEN Len(g[n]) = short ELSE Len(g[n]) >= short
      BY <1>3, <2>1, <2>4, <3>1, <3>2, <3>3
    <3>5. QED
      BY <2>1, <3>1, <3>4
  <2>5. QED
    BY <1>3, <2>1, <2>3, <2>4
<1>7. 0..N \subseteq T
  <2> HIDE DEF T
  <2>1. QED
    BY <1>3, <1>5, <1>6, SetInduction
<1>8. Same(N)
  BY <1>3, <1>7
<1>9. IF short <= M THEN long = short ELSE long >= short
  <2>1. CASE N > M
    BY <1>3, <1>8, <2>1
  <2>2. CASE N = M
    <3>1. g[N] = f[M]
      BY <1>3, <1>8, <2>2
    <3>2. QED
      BY <1>3, <3>1
  <2>3. QED
    BY <1>3, <2>1, <2>2
<1>10. QED
  BY <1>9 DEF M

\* The walk of r takes w, of which all but what follows the first l - 1 patches apply.
Walked(r, seen, w, l) ==
  LET links == Surviving(r, seen)
      next  == Children(Above(r, w, Len(w) + 1), links)
  IN /\ w \in Seq(links) /\ OnlyChildren(r, w, links)
     /\ l = Len(Positions(r, w)) /\ l \in 1..Len(w) + 1
     /\ Cardinality(next) # 1
     /\ ResolveRoot(r, seen).applied = SubSeq(w, 1, l - 1)
     /\ l = Len(w) + 1 /\ next # {} => ResolveRoot(r, seen).status = "forked"

\* The walk, the contents along it and what resolve says of them.
LEMMA ResolvedAlongTheWalk ==
  ASSUME NEW r \in Event, IsRoot(r), NEW seen \in SUBSET Event, IsFiniteSet(seen), r \in seen
  PROVE  \E w, l : Walked(r, seen, w, l)
<1> PICK w : w = ChainPatches(r, Surviving(r, seen))
  OBVIOUS
<1> PICK l : l = Len(Positions(r, w))
  OBVIOUS
<1> DEFINE links    == Surviving(r, seen)
           contents == Positions(r, w)
           end      == IF w = <<>> THEN r ELSE Last(w)
           forked   == Children(end, links) # {}
<1>1. IsFiniteSet(links) /\ r \notin links
  BY FS_Subset DEF Surviving, RootAuthored, Patches, IsRoot, IsPatch
<1>2. ResolveRoot(r, seen) = Resolution(r, seen, links, w, contents)
  BY DEF ResolveRoot, ResolvePresent
<1> HIDE DEF links
<1>3. /\ w \in Seq(links) /\ OnlyChildren(r, w, links) /\ Len(w) \in Nat
      /\ Cardinality(Children(Above(r, w, Len(w) + 1), links)) # 1
  BY <1>1, WalkGoesToTheEnd DEF links
<1>4. l \in 1..Len(w) + 1
  BY <1>3, PositionsAreBounded
<1> HIDE DEF contents
<1>5. Resolution(r, seen, links, w, contents).applied = SubSeq(w, 1, Len(contents) - 1)
  BY DEF Resolution
<1>6. ~(Len(SubSeq(w, 1, Len(contents) - 1)) < Len(w)) /\ forked
        => Resolution(r, seen, links, w, contents).status = "forked"
  BY DEF Resolution
<1>7. end = Above(r, w, Len(w) + 1)
  BY <1>3 DEF Above, Last
<1>8. l = Len(w) + 1 => Len(SubSeq(w, 1, l - 1)) = Len(w)
  BY <1>3
<1>9. Len(contents) = l
  BY DEF contents
<1>10. Walked(r, seen, w, l)
  BY <1>2, <1>3, <1>4, <1>5, <1>6, <1>7, <1>8, <1>9 DEF Walked, links
<1>11. QED
  BY <1>10

\* The applied patches are surviving links of the chain.
LEMMA AppliedSurvive ==
  ASSUME NEW seen \in SUBSET Event, IsFiniteSet(seen), NEW r \in seen, IsRoot(r),
         NEW i \in DOMAIN ResolveRoot(r, seen).applied
  PROVE  ResolveRoot(r, seen).applied[i] \in Surviving(r, seen)
<1>1. PICK w, l : Walked(r, seen, w, l)
  BY ResolvedAlongTheWalk
<1>2. /\ w \in Seq(Surviving(r, seen)) /\ l \in 1..Len(w) + 1
      /\ ResolveRoot(r, seen).applied = SubSeq(w, 1, l - 1)
  BY <1>1 DEF Walked
<1>3. i \in 1..l - 1 /\ ResolveRoot(r, seen).applied[i] = w[i] /\ i \in 1..Len(w)
  BY <1>2
<1>4. QED
  BY <1>2, <1>3

\* What has been observed is finite: each delta brought a finite batch.
LEMMA ObservedIsFinite == Spec => []IsFiniteSet(admit.observed)
<1>1. Init => IsFiniteSet(admit.observed)
  BY FS_EmptySet DEF Init, Admitting!Init, Admitting!EmptyAdmitState
<1>2. ASSUME StoreInv, IsFiniteSet(admit.observed), [Next]_vars
      PROVE  IsFiniteSet(admit'.observed)
  <2>1. ASSUME NEW events \in ObserveBatches, Observe(events)
        PROVE  IsFiniteSet(admit'.observed)
    <3>1. admit'.observed = admit.observed \cup events
      BY <1>2, <2>1, ObserveGrows DEF StoreInv, Observe
    <3>2. QED
      BY <1>2, <3>1, DeltasAssumption, FS_Union
  <2>2. ASSUME NEW ids \in UnobserveBatches, Unobserve(ids) PROVE IsFiniteSet(admit'.observed)
    <3>1. admit'.observed \subseteq admit.observed
      BY <1>2, <2>2, UnobserveShrinks DEF StoreInv, Unobserve
    <3>2. QED
      BY <1>2, <3>1, FS_Subset
  <2>3. ASSUME NEW authors \in TrustBatches, Trust(authors) \/ Untrust(authors)
        PROVE  IsFiniteSet(admit'.observed)
    <3>1. admit'.observed = admit.observed
      BY <1>2, <2>3, TrustKeepsObserved DEF StoreInv, Trust, Untrust
    <3>2. QED
      BY <1>2, <3>1
  <2>4. CASE UNCHANGED admit
    BY <1>2, <2>4
  <2>5. QED
    BY <1>2, <2>1, <2>2, <2>3, <2>4 DEF Next, Read, vars
<1>3. StoreInv /\ IsFiniteSet(admit.observed) /\ [Next]_vars => IsFiniteSet(admit.observed)'
  BY <1>2
<1>4. QED
  BY <1>1, <1>3, VerdictsInvariant, PTL DEF Spec

\* A deletion request carries no fabric tag, and so has nothing to be rejected for.
DeletionsAreUntagged == \A e \in Event : IsDeletion(e) => Body[e].self # "bad"

\* A surviving link has no deletion among the events resolved.
LEMMA SurvivorsAreNotDeleted ==
  ASSUME NEW seen \in SUBSET Event, IsFiniteSet(seen), NEW r, NEW p \in Surviving(r, seen)
  PROVE  p \in seen /\ DeletionsOf(p, seen) = {}
<1> DEFINE linkable == {q \in RootAuthored(r, seen) : Eligibility(r, q, seen) = "chain"}
           deleted  == HonouredDeletions(seen)
<1>1. p \in linkable /\ p \notin Removed(linkable, deleted)
  BY DEF Surviving
<1>2. p \in seen /\ ~IsDeletion(p) /\ linkable \subseteq seen
  BY <1>1 DEF RootAuthored, Patches
<1>3. IsFiniteSet(linkable)
  <2> HIDE DEF linkable
  <2>1. QED
    BY <1>2, FS_Subset
<1> HIDE DEF linkable
<1>4. p \notin deleted
  BY <1>1, <1>3, RemovedHoldsDeleted
<1>5. QED
  BY <1>2, <1>4 DEF HonouredDeletions

\* A patch its author deleted is never applied, whichever of the two was observed
\* first, and however the deletion came to be fed to resolve (DEL-2, DEL-8, DEL-9).
THEOREM DeletedStayOut ==
  ASSUME DeletionsAreUntagged PROVE Spec => []DeletedNeverApplied
<1>1. ASSUME StoreInv, IsFiniteSet(admit.observed)
      PROVE  DeletedNeverApplied
  <2> SUFFICES ASSUME NEW r \in admit.observed, IsRoot(r),
                      NEW i \in DOMAIN ResolveRoot(r, Feed).applied
               PROVE  DeletionsOf(ResolveRoot(r, Feed).applied[i], admit.observed) = {}
    BY DEF DeletedNeverApplied
  <2> DEFINE p == ResolveRoot(r, Feed).applied[i]
  <2>1. Feed \in SUBSET Event /\ Feed \subseteq admit.observed /\ IsFiniteSet(Feed)
    BY <1>1, FS_Subset DEF StoreInv, Feed
  <2>2. r \in Feed
    BY DEF ResolveRoot, Absent
  <2>3. p \in Surviving(r, Feed)
    BY <2>1, <2>2, AppliedSurvive
  <2> HIDE DEF p
  <2>4. DeletionsOf(p, Feed) = {}
    BY <2>1, <2>3, SurvivorsAreNotDeleted
  <2>5. ASSUME NEW d \in admit.observed, IsDeletion(d) PROVE d \in Feed
    <3>1. d \in Event /\ Body[d].self # "bad" /\ Body[d].self # "ok"
      BY <1>1, <2>5, DeletionsUntypedAssumption, ShapeAssumption
         DEF StoreInv, DeletionsAreUntagged, IsDeletion
    <3>2. d \notin invalid
      BY <1>1, <3>1 DEF StoreInv, IsInvalid
    <3>3. QED
      BY <3>2 DEF Feed
  <2>6. DeletionsOf(p, admit.observed) \subseteq DeletionsOf(p, Feed)
    BY <2>5 DEF DeletionsOf
  <2>7. QED
    BY <2>4, <2>6 DEF p
<1>2. StoreInv /\ IsFiniteSet(admit.observed) => DeletedNeverApplied
  BY <1>1
<1>3. QED
  BY <1>2, VerdictsInvariant, ObservedIsFinite, PTL

-----------------------------------------------------------------------------
(* Late events and the chain *)

\* What the observed events may become while the deletions stand and no patch of
\* the author of r is lost.
Grown(r, seen, later) ==
  /\ RootAuthored(r, seen) \subseteq later
  /\ \A d \in later : IsDeletion(d) => d \in seen

\* A link next to the chain is still a link when more has arrived.
LEMMA LinksStay ==
  ASSUME NEW r \in Event, IsRoot(r),
         NEW seen \in SUBSET Event, IsFiniteSet(seen),
         NEW later \in SUBSET Event, IsFiniteSet(later), Grown(r, seen, later),
         NEW w \in Seq(Surviving(r, seen)), IsChain(r, w),
         NEW i \in 1..Len(w) + 1, NEW k \in Children(Above(r, w, i), Surviving(r, seen))
  PROVE  k \in Surviving(r, later)
<1> DEFINE links == Surviving(r, seen)
           mine == RootAuthored(r, seen)
           linkable == {p \in RootAuthored(r, later) : Eligibility(r, p, later) = "chain"}
           v == Append(SubSeq(w, 1, i - 1), k)
<1>1. links \subseteq mine /\ k \in links /\ Body[k].reply = Above(r, w, i)
  BY DEF Surviving, Children
<1>2. mine \subseteq RootAuthored(r, later) /\ mine \subseteq seen /\ mine \subseteq later
  BY DEF Grown, RootAuthored, Patches
<1>3. \A p \in mine : AuthorOf(p) = AuthorOf(r) /\ IsPatch(p)
  BY DEF RootAuthored, Patches
<1>4. r \notin mine
  BY <1>3 DEF IsRoot, IsPatch
<1>5. IsFiniteSet(links) /\ IsFiniteSet(linkable)
  BY <1>1, <1>2, FS_Subset DEF RootAuthored, Patches
<1> HIDE DEF links, mine, linkable
<1>6. /\ v \in Seq(links) /\ Len(v) = i /\ v[i] = k
      /\ \A j \in 1..i - 1 : v[j] = w[j]
  BY <1>1 DEF links
<1> HIDE DEF v
<1>7. IsChain(r, v)
  <2> SUFFICES ASSUME NEW j \in 1..i PROVE Body[v[j]].reply = Above(r, v, j)
    BY <1>6 DEF IsChain
  <2>1. Above(r, v, j) = Above(r, w, j)
    BY <1>6 DEF Above
  <2>2. CASE j = i
    BY <1>1, <1>6, <2>1, <2>2
  <2>3. CASE j # i
    <3>1. j \in 1..Len(w) /\ j \in 1..i - 1
      BY <2>3
    <3>2. QED
      BY <1>6, <2>1, <3>1 DEF IsChain
  <2>4. QED
    BY <2>2, <2>3
<1>8. \A j \in 1..i : v[j] \in links
  BY <1>6
<1>9. \A j \in 1..i : Eligibility(r, v[j], later) = "chain"
  <2>1. v \in Seq(later \ {r})
    BY <1>1, <1>2, <1>4, <1>6
  <2>2. \A j \in 1..Len(v) : AuthorOf(v[j]) = AuthorOf(r)
    BY <1>1, <1>3, <1>6, <1>8
  <2>3. \A j \in 1..Len(v) : Eligibility(r, v[j], later) = "chain"
    BY <1>7, <2>1, <2>2, ChainIsEligible
  <2>4. QED
    BY <1>6, <2>3
<1>10. \A j \in 1..i : v[j] \in linkable
  BY <1>1, <1>2, <1>8, <1>9 DEF linkable
<1>11. \A j \in 1..i : v[j] \notin HonouredDeletions(later)
  <2> SUFFICES ASSUME NEW j \in 1..i PROVE DeletionsOf(v[j], later) = {}
    BY DEF HonouredDeletions
  <2>1. DeletionsOf(v[j], seen) = {}
    BY <1>8, SurvivorsAreNotDeleted DEF links
  <2>2. QED
    BY <2>1 DEF DeletionsOf, Grown
<1>12. v \in Seq(linkable)
  BY <1>6, <1>10
<1>13. r \notin linkable
  BY DEF linkable, RootAuthored, Patches, IsRoot, IsPatch
<1>14. v[i] \notin Removed(linkable, HonouredDeletions(later))
  BY <1>5, <1>6, <1>7, <1>11, <1>12, <1>13, ChainIsNotRemoved
<1>15. QED
  BY <1>6, <1>10, <1>14 DEF Surviving, linkable

\* Two walks agree as far as both go, when each only child of the first is a child
\* on the second.
LEMMA WalksAgree ==
  ASSUME NEW r, NEW links, NEW others, NEW u, NEW v, Len(u) \in Nat, Len(v) \in Nat,
         OnlyChildren(r, u, links), OnlyChildren(r, v, others),
         \A i \in 1..Len(u) : u[i] \in others
  PROVE  \A i \in 1..Len(u) : i <= Len(v) => u[i] = v[i]
<1> DEFINE N == Len(u)
           T == {i \in 0..N : i = 0 \/ (i <= Len(v) => u[i] = v[i])}
<1>1. 0 \in T
  OBVIOUS
<1>2. ASSUME NEW i \in 1..N, i - 1 \in T PROVE i \in T
  <2>1. i \in 0..N
    OBVIOUS
  <2>2. SUFFICES ASSUME i <= Len(v) PROVE u[i] = v[i]
    BY <2>1
  <2>3. Above(r, u, i) = Above(r, v, i)
    BY <1>2, <2>2 DEF Above
  <2>4. Children(Above(r, u, i), links) = {u[i]}
    BY DEF OnlyChildren
  <2>5. u[i] \in Children(Above(r, v, i), others)
    BY <2>3, <2>4 DEF Children
  <2>6. Children(Above(r, v, i), others) = {v[i]}
    BY <2>2 DEF OnlyChildren
  <2>7. QED
    BY <2>5, <2>6
<1>3. 0..N \subseteq T
  <2> HIDE DEF T, N
  <2>1. N \in Nat
    BY DEF N
  <2>2. QED
    BY <1>1, <1>2, <2>1, SetInduction
<1>4. QED
  BY <1>3

\* Beginnings of two sequences that agree are prefixes of each other.
LEMMA BeginningIsPrefix ==
  ASSUME NEW S, NEW u \in Seq(S), NEW v \in Seq(S), NEW m \in 0..Len(u), NEW n \in 0..Len(v),
         m <= n, \A i \in 1..m : u[i] = v[i]
  PROVE  IsPrefix(SubSeq(u, 1, m), SubSeq(v, 1, n))
<1> DEFINE s == SubSeq(u, 1, m)
           t == SubSeq(v, 1, n)
<1>1. s \in Seq(S) /\ Len(s) = m /\ \A i \in 1..m : s[i] = u[i]
  OBVIOUS
<1>2. t \in Seq(S) /\ Len(t) = n /\ \A i \in 1..n : t[i] = v[i]
  OBVIOUS
<1> HIDE DEF s, t
<1>3. \A i \in 1..m : s[i] = t[i]
  BY <1>1, <1>2
<1>4. SubSeq(s, 1, m) = SubSeq(t, 1, m)
  BY <1>1, <1>2, <1>3
<1>5. Len(s) <= Len(t) /\ SubSeq(s, 1, Len(s)) = SubSeq(t, 1, Len(s))
  BY <1>1, <1>2, <1>4
<1>6. QED
  BY <1>5 DEF IsPrefix, s, t

\* While the deletions stand and no patch of the author is lost, the applied patches
\* grow at the end or are cut at a fork.
LEMMA AppliedGrowsOrForks ==
  ASSUME NEW r \in Event, IsRoot(r),
         NEW seen \in SUBSET Event, IsFiniteSet(seen), r \in seen,
         NEW later \in SUBSET Event, IsFiniteSet(later), r \in later, Grown(r, seen, later),
         NEW before, before = ResolveRoot(r, seen), NEW after, after = ResolveRoot(r, later)
  PROVE  \/ IsPrefix(before.applied, after.applied)
         \/ after.status = "forked" /\ IsPrefix(after.applied, before.applied)
<1> DEFINE links  == Surviving(r, seen)
           others == Surviving(r, later)
<1> PICK u, k : Walked(r, seen, u, k)
  BY ResolvedAlongTheWalk
<1> PICK v, l : Walked(r, later, v, l)
  BY ResolvedAlongTheWalk
<1>1. /\ u \in Seq(links) /\ OnlyChildren(r, u, links) /\ k \in 1..Len(u) + 1
      /\ k = Len(Positions(r, u)) /\ before.applied = SubSeq(u, 1, k - 1)
  BY DEF Walked
<1>2. /\ v \in Seq(others) /\ OnlyChildren(r, v, others) /\ l \in 1..Len(v) + 1
      /\ l = Len(Positions(r, v)) /\ after.applied = SubSeq(v, 1, l - 1)
      /\ l = Len(v) + 1 /\ Children(Above(r, v, Len(v) + 1), others) # {}
           => after.status = "forked"
  BY DEF Walked
<1>3. links \subseteq Event /\ others \subseteq Event
  BY DEF Surviving, RootAuthored, Patches
<1> HIDE DEF links, others
<1>4. ASSUME NEW i \in 1..Len(u)
      PROVE  u[i] \in Children(Above(r, u, i), links)
  BY <1>1 DEF OnlyChildren
<1>5. IsChain(r, u)
  BY <1>4, Zenon DEF IsChain, Children
<1>6. ASSUME NEW i \in 1..Len(u) PROVE u[i] \in others
  <2>1. i \in 1..Len(u) + 1
    BY <1>1
  <2>2. QED
    BY <1>1, <1>4, <1>5, <2>1, LinksStay DEF links, others
<1>7. u \in Seq(Event) /\ v \in Seq(Event) /\ Len(u) \in Nat /\ Len(v) \in Nat
  BY <1>1, <1>2, <1>3
<1>8. \A i \in 1..Len(u) : i <= Len(v) => u[i] = v[i]
  <2>1. \A i \in 1..Len(u) : u[i] \in others
    BY <1>6
  <2>2. OnlyChildren(r, u, links) /\ OnlyChildren(r, v, others)
    BY <1>1, <1>2
  <2>3. Len(u) \in Nat /\ Len(v) \in Nat
    BY <1>7
  <2>4. QED
    BY <2>1, <2>2, <2>3, WalksAgree
<1>9. CASE Len(u) <= Len(v)
  <2>1. \A i \in 1..Len(u) : u[i] = v[i]
    BY <1>7, <1>8, <1>9
  <2>2. IF k <= Len(u) THEN l = k ELSE l >= k
    <3>1. /\ Len(u) \in Nat /\ Len(v) \in Nat /\ Len(u) <= Len(v)
          /\ k = Len(Positions(r, u)) /\ l = Len(Positions(r, v))
      BY <1>1, <1>2, <1>7, <1>9
    <3>2. QED
      BY <2>1, <3>1, LongerChainAppliesNoLess
  <2>3. k - 1 \in 0..Len(u) /\ l - 1 \in 0..Len(v) /\ k - 1 <= l - 1
    BY <1>1, <1>2, <1>7, <2>2
  <2>4. \A i \in 1..k - 1 : u[i] = v[i]
    BY <1>7, <2>1, <2>3
  <2>5. IsPrefix(SubSeq(u, 1, k - 1), SubSeq(v, 1, l - 1))
    BY <1>7, <2>3, <2>4, BeginningIsPrefix
  <2>6. QED
    BY <1>1, <1>2, <2>5
<1>10. CASE Len(v) < Len(u)
  <2>1. \A i \in 1..Len(v) : v[i] = u[i]
    BY <1>7, <1>8, <1>10
  <2>2. IF l <= Len(v) THEN k = l ELSE k >= l
    <3>1. /\ Len(u) \in Nat /\ Len(v) \in Nat /\ Len(v) <= Len(u)
          /\ k = Len(Positions(r, u)) /\ l = Len(Positions(r, v))
      BY <1>1, <1>2, <1>7, <1>10
    <3>2. QED
      BY <2>1, <3>1, LongerChainAppliesNoLess
  <2>3. k - 1 \in 0..Len(u) /\ l - 1 \in 0..Len(v) /\ l - 1 <= k - 1
    BY <1>1, <1>2, <1>7, <2>2
  <2>4. \A i \in 1..l - 1 : v[i] = u[i]
    BY <1>7, <2>1, <2>3
  <2>5. CASE l <= Len(v)
    <3>1. k - 1 <= l - 1 /\ \A i \in 1..k - 1 : u[i] = v[i]
      BY <1>7, <2>2, <2>3, <2>4, <2>5
    <3>2. IsPrefix(SubSeq(u, 1, k - 1), SubSeq(v, 1, l - 1))
      BY <1>7, <2>3, <3>1, BeginningIsPrefix
    <3>3. QED
      BY <1>1, <1>2, <3>2
  <2>6. CASE l = Len(v) + 1
    <3>1. Len(v) + 1 \in 1..Len(u)
      BY <1>7, <1>10
    <3>2. Above(r, u, Len(v) + 1) = Above(r, v, Len(v) + 1)
      BY <1>7, <2>1, <3>1 DEF Above
    <3>3. u[Len(v) + 1] \in Children(Above(r, v, Len(v) + 1), others)
      BY <1>4, <1>6, <3>1, <3>2 DEF Children
    <3>4. after.status = "forked"
      BY <1>2, <2>6, <3>3
    <3>5. IsPrefix(SubSeq(v, 1, l - 1), SubSeq(u, 1, k - 1))
      BY <1>7, <2>3, <2>4, BeginningIsPrefix
    <3>6. QED
      BY <1>1, <1>2, <3>4, <3>5
  <2>7. l <= Len(v) \/ l = Len(v) + 1
    BY <1>2, <1>7
  <2>8. QED
    BY <2>5, <2>6, <2>7
<1>11. QED
  BY <1>7, <1>9, <1>10

\* An id in invalidIds stays there.
LEMMA RejectionsStay ==
  ASSUME [Next]_vars PROVE invalid \subseteq invalid'
<1>1. ASSUME NEW events, Observe(events) PROVE invalid \subseteq invalid'
  <2>1. \E after \in {Observed(events)} : Record(after)
    BY <1>1, Zenon DEF Observe
  <2>2. Record(Observed(events))
    BY <2>1, Zenon
  <2>3. QED
    BY <2>2 DEF Record, Observed
<1>2. QED
  BY <1>1 DEF Next, Unobserve, Trust, Untrust, Read, vars

\* An arrival takes nothing out of the feed that the author of r wrote on the chain of r.
LEMMA ArrivalsGrowTheChain ==
  ASSUME StoreInv, StoreInv', [Next]_vars,
         NEW r \in Feed, IsRoot(r), admit.observed \subseteq admit'.observed,
         \A e \in admit'.observed \ admit.observed : ~IsDeletion(e)
  PROVE  r \in Feed' /\ Grown(r, Feed, Feed')
<1>1. invalid \subseteq invalid'
  BY RejectionsStay
<1>2. Feed \subseteq Event /\ \A e \in Feed : Body[e].self # "bad"
  BY DEF StoreInv, Feed, Answered
<1>3. ASSUME NEW e \in Feed, ~IsInvalid(e, Event) PROVE e \in Feed'
  BY <1>3 DEF StoreInv, Feed
<1>4. r \in Feed'
  <2>1. ~IsInvalid(r, Event)
    BY <1>2 DEF IsInvalid, IsRoot, IsBinding, IsPatch
  <2>2. QED
    BY <1>3, <2>1
<1>5. ASSUME NEW p \in RootAuthored(r, Feed) PROVE p \in Feed'
  <2>1. p \in Feed /\ IsPatch(p) /\ Body[p].root = r /\ AuthorOf(p) = AuthorOf(r)
    BY DEF RootAuthored, Patches
  <2>2. PatchFits(p, Event) /\ ~IsBinding(p)
    BY <2>1 DEF PatchFits, RepliesAsForeigner, IsPatch, IsBinding
  <2>3. ~IsInvalid(p, Event)
    BY <1>2, <2>1, <2>2 DEF IsInvalid
  <2>4. QED
    BY <1>3, <2>1, <2>3
<1>6. ASSUME NEW d \in Feed', IsDeletion(d) PROVE d \in Feed
  BY <1>1, <1>6 DEF Feed
<1>7. QED
  BY <1>4, <1>5, <1>6 DEF Grown

\* Late patches do not rewrite history, whatever else arrives with them: as long as no
\* deletion does, the applied patches of a root grow at the end or are cut at a fork
\* (CHN-1, SF-1, UR-4).
THEOREM LateEventsKeepHistory == Spec => HistoryIsKept
<1> DEFINE Sound == StoreInv /\ IsFiniteSet(admit.observed)
           kept == \A r \in admit.observed :
             (/\ IsRoot(r)
              /\ admit.observed \subseteq admit'.observed /\ admit.observed # admit'.observed
              /\ \A e \in admit'.observed \ admit.observed : ~IsDeletion(e))
               => LET before == ResolveRoot(r, Feed)
                      after  == ResolveRoot(r, Feed')
                  IN \/ IsPrefix(before.applied, after.applied)
                     \/ after.status = "forked" /\ IsPrefix(after.applied, before.applied)
<1>1. ASSUME Sound, Sound', [Next]_vars,
             NEW r \in admit.observed, IsRoot(r), admit.observed \subseteq admit'.observed,
             \A e \in admit'.observed \ admit.observed : ~IsDeletion(e)
      PROVE  LET before == ResolveRoot(r, Feed)
                 after  == ResolveRoot(r, Feed')
             IN \/ IsPrefix(before.applied, after.applied)
                \/ after.status = "forked" /\ IsPrefix(after.applied, before.applied)
  <2>1. Feed \in SUBSET Event /\ IsFiniteSet(Feed) /\ r \in Event
    BY <1>1, FS_Subset DEF StoreInv, Feed
  <2>2. Feed' \in SUBSET Event /\ IsFiniteSet(Feed')
    BY <1>1, FS_Subset DEF StoreInv, Feed
  <2>3. CASE r \in Feed
    <3>1. r \in Feed' /\ Grown(r, Feed, Feed')
      BY <1>1, <2>3, ArrivalsGrowTheChain
    <3>2. QED
      BY <1>1, <2>1, <2>2, <2>3, <3>1, AppliedGrowsOrForks
  <2>4. CASE r \notin Feed
    <3>1. ResolveRoot(r, Feed).applied = <<>>
      BY <2>4 DEF ResolveRoot, Absent
    <3>2. \E S : ResolveRoot(r, Feed').applied \in Seq(S)
      <4>1. CASE r \notin Feed'
        BY <4>1 DEF ResolveRoot, Absent
      <4>2. CASE r \in Feed'
        <5>1. PICK w, l : Walked(r, Feed', w, l)
          BY <1>1, <2>1, <2>2, <4>2, ResolvedAlongTheWalk
        <5>2. SubSeq(w, 1, l - 1) \in Seq(Surviving(r, Feed'))
          BY <5>1 DEF Walked
        <5>3. QED
          BY <5>1, <5>2 DEF Walked
      <4>3. QED
        BY <4>1, <4>2
    <3>3. PICK S : ResolveRoot(r, Feed').applied \in Seq(S)
      BY <3>2
    <3>4. ASSUME NEW t \in Seq(S) PROVE IsPrefix(<<>>, t)
      <4>1. Len(<<>>) <= Len(t) /\ SubSeq(<<>>, 1, 0) = SubSeq(t, 1, 0)
        OBVIOUS
      <4>2. QED
        BY <4>1 DEF IsPrefix
    <3>5. QED
      BY <3>1, <3>3, <3>4
  <2>5. QED
    BY <2>3, <2>4
<1>2. Sound /\ Sound' /\ [Next]_vars => [kept]_vars
  BY <1>1
<1>3. QED
  BY <1>2, VerdictsInvariant, ObservedIsFinite, PTL DEF Spec, HistoryIsKept

-----------------------------------------------------------------------------
(* The memo *)

\* p hangs from t through kin.
HangsFrom(p, t, kin) ==
  t \notin kin /\ \E w \in Seq(kin) : IsChain(t, w) /\ \E i \in 1..Len(w) : w[i] = p

\* A patch that hangs from nothing, since its lineage would never end, is ignored.
LEMMA EndlessIsIgnored ==
  ASSUME NEW seen \in SUBSET Event, IsFiniteSet(seen), NEW r \in Event,
         NEW kin, Kin(r, kin, seen), NEW p \in kin, \A t : ~HangsFrom(p, t, kin)
  PROVE  Eligibility(r, p, seen) = "ignored"
<1> DEFINE N == Cardinality(seen)
           Endless == {q \in kin : \A t : ~HangsFrom(q, t, kin)}
<1>1. PICK class \in [0..N -> [Event -> Classes]] :
        /\ class[0] = [q \in Event |-> "ignored"]
        /\ \A n \in 1..N : class[n] = Turned(r, seen, class[n - 1])
        /\ \A q : Eligibility(r, q, seen) = class[N][q]
  BY ClassesAreReached
<1>2. N \in Nat /\ 0 \in 0..N
  BY FS_CardinalityType
<1> HIDE DEF N
<1>3. kin \subseteq Event /\ \A q \in kin : q \in seen /\ q # r /\ q # NoEvent
                                          /\ AuthorOf(q) = AuthorOf(r)
  BY NoEventAssumption DEF Kin
<1>4. ASSUME NEW q \in Endless PROVE Body[q].reply \in Endless
  <2> DEFINE t == Body[q].reply
  <2>1. t \in kin
    <3>1. SUFFICES ASSUME t \notin kin PROVE FALSE
      OBVIOUS
    <3>2. <<q>> \in Seq(kin) /\ Len(<<q>>) = 1 /\ <<q>>[1] = q
      OBVIOUS
    <3>3. IsChain(t, <<q>>)
      BY <3>2 DEF IsChain, Above
    <3>4. HangsFrom(q, t, kin)
      <4>1. \E i \in 1..Len(<<q>>) : <<q>>[i] = q
        OBVIOUS
      <4>2. QED
        BY <3>1, <3>2, <3>3, <4>1, Zenon DEF HangsFrom
    <3>5. QED
      BY <3>4
  <2>2. ASSUME NEW u, HangsFrom(t, u, kin) PROVE FALSE
    <3>0. PICK w \in Seq(kin) : IsChain(u, w) /\ \E i \in 1..Len(w) : w[i] = t
      BY <2>2 DEF HangsFrom
    <3>1. PICK i \in 1..Len(w) : IsChain(u, w) /\ w[i] = t
      BY <3>0
    <3> DEFINE v == Append(SubSeq(w, 1, i), q)
    <3>2. v \in Seq(kin) /\ Len(v) = i + 1 /\ v[i + 1] = q /\ \A j \in 1..i : v[j] = w[j]
      BY <3>1
    <3> HIDE DEF v, t
    <3>3. ASSUME NEW j \in 1..i + 1 PROVE Body[v[j]].reply = Above(u, v, j)
      <4>1. CASE j = i + 1
        BY <3>1, <3>2, <4>1 DEF Above, t
      <4>2. CASE j # i + 1
        <5>1. j \in 1..i /\ j \in 1..Len(w) /\ Above(u, v, j) = Above(u, w, j)
          BY <3>2, <4>2 DEF Above
        <5>2. QED
          BY <3>1, <3>2, <5>1 DEF IsChain
      <4>3. QED
        BY <4>1, <4>2
    <3>4. IsChain(u, v)
      BY <3>2, <3>3 DEF IsChain
    <3>5. HangsFrom(q, u, kin)
      <4>1. i + 1 \in 1..Len(v)
        BY <3>2
      <4>2. QED
        BY <2>2, <3>2, <3>4, <4>1 DEF HangsFrom
    <3>6. QED
      BY <3>5
  <2>3. QED
    BY <2>1, <2>2
<1>5. p \in Endless /\ Endless \subseteq kin
  OBVIOUS
<1> HIDE DEF Endless
<1> DEFINE T == {n \in 0..N : \A q \in Endless : class[n][q] = "ignored"}
<1>6. 0 \in T
  BY <1>1, <1>2, <1>3, <1>5
<1>7. ASSUME NEW n \in 1..N, n - 1 \in T PROVE n \in T
  <2>1. n \in 0..N
    BY <1>2
  <2>2. ASSUME NEW q \in Endless PROVE class[n][q] = "ignored"
    <3>1. class[n][q] = class[n - 1][Body[q].reply]
      <4>1. q \in Event /\ class[n] = Turned(r, seen, class[n - 1])
        BY <1>1, <1>3, <1>5
      <4>2. LET u == Body[q].reply
            IN u # NoEvent /\ u # r /\ u \in seen /\ AuthorOf(u) = AuthorOf(r)
        BY <1>3, <1>4, <1>5
      <4>3. QED
        BY <4>1, <4>2 DEF Turned
    <3>2. QED
      BY <1>4, <1>7, <3>1
  <2>3. QED
    BY <2>1, <2>2
<1>8. 0..N \subseteq T
  <2> HIDE DEF T
  <2>1. QED
    BY <1>2, <1>6, <1>7, SetInduction
<1>9. QED
  BY <1>1, <1>2, <1>5, <1>8

\* No lineage crosses to another root: an event of a chain's author that a patch of the
\* chain replies to is on that chain, or replies to nothing.  No rule demands it, and every
\* builder of the repository does it.
LineagesStay ==
  \A p \in Event :
    (/\ IsPatch(p) /\ {Body[p].root, Body[p].reply} \subseteq Event
     /\ AuthorOf(p) = AuthorOf(Body[p].root)) =>
      LET t == Body[p].reply
      IN \/ t = Body[p].root
         \/ IsPatch(t) /\ Body[t].root = Body[p].root
         \/ AuthorOf(t) # AuthorOf(p)
         \/ Body[t].reply = NoEvent

\* Two sets of events that tell resolve the same about r.
Alike(r, seen, other) ==
  /\ r \in seen <=> r \in other
  /\ Patches(r, seen) = Patches(r, other)
  /\ \A p \in Patches(r, seen) : /\ DeletionsOf(p, seen) = DeletionsOf(p, other)
                                 /\ Body[p].reply \in seen <=> Body[p].reply \in other

\* The patches of the author of r are kin.
LEMMA AuthorsPatchesAreKin ==
  ASSUME LineagesStay, NEW r \in Event, IsRoot(r), NEW seen \in SUBSET Event
  PROVE  Kin(r, RootAuthored(r, seen), seen)
<1> DEFINE kin == RootAuthored(r, seen)
<1>1. \A q \in kin : /\ q \in seen /\ q \in Event /\ AuthorOf(q) = AuthorOf(r)
                     /\ IsPatch(q) /\ Body[q].root = r
  BY DEF RootAuthored, Patches
<1>2. r \notin kin
  BY <1>1 DEF IsRoot, IsPatch
<1>3. ASSUME NEW q \in kin, NEW t, t = Body[q].reply, t \in seen, t # r,
             AuthorOf(t) = AuthorOf(r), Body[t].reply # NoEvent
      PROVE  t \in kin
  <2>1. IsPatch(t) /\ Body[t].root = r /\ t \in Event
    BY <1>1, <1>3 DEF LineagesStay
  <2>2. ~IsDeletion(t)
    BY <2>1, DeletionsUntypedAssumption DEF IsPatch, IsDeletion
  <2>3. QED
    BY <1>3, <2>1, <2>2 DEF RootAuthored, Patches
<1> HIDE DEF kin
<1>4. kin \subseteq seen
  BY <1>1
<1>5. Kin(r, kin, seen)
  BY <1>1, <1>2, <1>3, <1>4 DEF Kin
<1>6. QED
  BY <1>5 DEF kin

\* The class of a patch depends on what Alike compares.
LEMMA AlikeEligibility ==
  ASSUME LineagesStay, NEW r \in Event, IsRoot(r),
         NEW seen \in SUBSET Event, IsFiniteSet(seen),
         NEW other \in SUBSET Event, IsFiniteSet(other), Alike(r, seen, other),
         NEW p \in RootAuthored(r, seen)
  PROVE  Eligibility(r, p, seen) = Eligibility(r, p, other)
<1> DEFINE kin == RootAuthored(r, seen)
<1>1. RootAuthored(r, other) = kin
  BY DEF Alike, RootAuthored
<1>2. Kin(r, kin, seen) /\ Kin(r, kin, other)
  BY <1>1, AuthorsPatchesAreKin
<1>3. \A q \in kin : Body[q].reply \in seen <=> Body[q].reply \in other
  BY DEF Alike, RootAuthored
<1>4. p \in kin
  OBVIOUS
<1> HIDE DEF kin
<1>5. CASE \A t : ~HangsFrom(p, t, kin)
  <2>1. Eligibility(r, p, seen) = "ignored" /\ Eligibility(r, p, other) = "ignored"
    BY <1>2, <1>4, <1>5, EndlessIsIgnored
  <2>2. QED
    BY <2>1
<1>6. ASSUME NEW t, HangsFrom(p, t, kin)
      PROVE  Eligibility(r, p, seen) = Eligibility(r, p, other)
  <2>1. PICK w \in Seq(kin) : IsChain(t, w) /\ \E i \in 1..Len(w) : w[i] = p
    BY <1>6 DEF HangsFrom
  <2>2. PICK i \in 1..Len(w) : w[i] = p
    BY <2>1
  <2>3. t \notin kin
    BY <1>6 DEF HangsFrom
  <2>4. /\ Eligibility(r, w[i], seen) = Fate(r, t, seen)
        /\ Eligibility(r, w[i], other) = Fate(r, t, other)
    BY <1>2, <2>1, <2>3, ChainSharesFate
  <2>5. 1 \in 1..Len(w) /\ w[1] \in kin
    BY <2>2
  <2>6. Body[w[1]].reply = t
    BY <2>1, <2>5 DEF IsChain, Above
  <2>7. t \in seen <=> t \in other
    BY <1>3, <2>5, <2>6
  <2>8. QED
    BY <2>2, <2>4, <2>7 DEF Fate
<1>7. QED
  BY <1>5, <1>6

\* What is removed depends on the deleted links alone.
LEMMA RemovedByDeletedLinks ==
  ASSUME NEW linkable, IsFiniteSet(linkable), NEW deleted, NEW other,
         linkable \cap deleted = linkable \cap other
  PROVE  Removed(linkable, deleted) = Removed(linkable, other)
<1> DEFINE N == Cardinality(linkable)
<1>1. PICK f \in [0..N -> SUBSET linkable] :
        /\ f[0] = linkable \cap deleted
        /\ \A n \in 1..N : f[n] = f[n - 1] \cup {p \in linkable : Body[p].reply \in f[n - 1]}
        /\ Removed(linkable, deleted) = f[N]
  BY RemovedIsReached
<1>2. PICK g \in [0..N -> SUBSET linkable] :
        /\ g[0] = linkable \cap other
        /\ \A n \in 1..N : g[n] = g[n - 1] \cup {p \in linkable : Body[p].reply \in g[n - 1]}
        /\ Removed(linkable, other) = g[N]
  BY RemovedIsReached
<1>3. N \in Nat /\ 0 \in 0..N
  BY FS_CardinalityType
<1> HIDE DEF N
<1> DEFINE T == {n \in 0..N : f[n] = g[n]}
<1>4. 0 \in T
  BY <1>1, <1>2, <1>3
<1>5. ASSUME NEW n \in 1..N, n - 1 \in T PROVE n \in T
  <2>1. n \in 0..N
    BY <1>3
  <2>2. f[n - 1] = g[n - 1]
    BY <1>5
  <2>3. f[n] = f[n - 1] \cup {p \in linkable : Body[p].reply \in f[n - 1]}
    BY <1>1
  <2>4. g[n] = g[n - 1] \cup {p \in linkable : Body[p].reply \in g[n - 1]}
    BY <1>2
  <2>5. f[n] = g[n]
    BY <2>2, <2>3, <2>4
  <2>6. QED
    BY <2>1, <2>5
<1>6. 0..N \subseteq T
  <2> HIDE DEF T
  <2>1. QED
    BY <1>3, <1>4, <1>5, SetInduction
<1>7. QED
  BY <1>1, <1>2, <1>3, <1>6

\* Resolve gives one answer to two sets that are alike.
LEMMA AlikeResolution ==
  ASSUME LineagesStay, NEW r \in Event, IsRoot(r),
         NEW seen \in SUBSET Event, IsFiniteSet(seen),
         NEW other \in SUBSET Event, IsFiniteSet(other), Alike(r, seen, other)
  PROVE  ResolveRoot(r, seen) = ResolveRoot(r, other)
<1>1. CASE r \notin seen
  BY <1>1 DEF ResolveRoot, Alike
<1>2. CASE r \in seen
  <2> DEFINE mine == RootAuthored(r, seen)
             linkable == {p \in mine : Eligibility(r, p, seen) = "chain"}
  <2>1. RootAuthored(r, other) = mine /\ Patches(r, other) = Patches(r, seen)
    BY DEF Alike, RootAuthored
  <2>2. \A p \in mine : Eligibility(r, p, seen) = Eligibility(r, p, other)
    BY AlikeEligibility
  <2>3. linkable = {p \in RootAuthored(r, other) : Eligibility(r, p, other) = "chain"}
    BY <2>1, <2>2
  <2>4. \A p \in Patches(r, seen) :
          p \in HonouredDeletions(seen) <=> p \in HonouredDeletions(other)
    BY DEF Alike, HonouredDeletions, Patches
  <2>5. Surviving(r, seen) = Surviving(r, other)
    <3>1. linkable \subseteq Patches(r, seen) /\ IsFiniteSet(linkable)
      BY FS_Subset DEF RootAuthored, Patches
    <3>2. /\ Surviving(r, seen) = linkable \ Removed(linkable, HonouredDeletions(seen))
          /\ Surviving(r, other) = linkable \ Removed(linkable, HonouredDeletions(other))
      BY <2>3 DEF Surviving
    <3> HIDE DEF linkable
    <3>3. linkable \cap HonouredDeletions(seen) = linkable \cap HonouredDeletions(other)
      BY <2>4, <3>1
    <3>4. QED
      BY <3>1, <3>2, <3>3, RemovedByDeletedLinks
  <2>6. mine \ HonouredDeletions(seen) = mine \ HonouredDeletions(other)
    BY <2>4 DEF RootAuthored
  <2>7. {p \in mine \ HonouredDeletions(seen) : Eligibility(r, p, seen) = "held"}
          = {p \in RootAuthored(r, other) \ HonouredDeletions(other) :
               Eligibility(r, p, other) = "held"}
    BY <2>1, <2>2, <2>6
  <2>8. Patches(r, seen) \ HonouredDeletions(seen) = Patches(r, other) \ HonouredDeletions(other)
    BY <2>1, <2>4
  <2>9. ASSUME NEW o \in Patches(r, seen), NEW positions, NEW contents, NEW tip
        PROVE  OverlayState(o, positions, contents, tip, seen)
                 = OverlayState(o, positions, contents, tip, other)
    BY DEF OverlayState, Alike
  <2> HIDE DEF mine, linkable
  <2>10. ASSUME NEW links, NEW patches, NEW contents
         PROVE  Resolution(r, seen, links, patches, contents)
                  = Resolution(r, other, links, patches, contents)
    BY <2>7, <2>8, <2>9 DEF Resolution, mine
  <2>11. ResolvePresent(r, seen) = ResolvePresent(r, other)
    BY <2>5, <2>10 DEF ResolvePresent
  <2>12. r \in other
    BY <1>2 DEF Alike
  <2>13. QED
    BY <1>2, <2>11, <2>12 DEF ResolveRoot
<1>3. QED
  BY <1>1, <1>2

\* What a step changes in the feed, without an epoch of r moving, resolve does not tell
\* about r (D24, D29).
LEMMA EpochsCoverChanges ==
  ASSUME NEW r \in Event, IsRoot(r), NEW seen \in SUBSET Event, NEW other \in SUBSET Event,
         NEW changed \in SUBSET Event,
         seen \ other \subseteq changed, other \ seen \subseteq changed,
         NEW known, RootedPatches(seen \cup other) \subseteq known,
         NEW replies, ReplyPairs(seen \cup other) \subseteq replies,
         r \notin Bumped(changed, known, replies)
  PROVE  Alike(r, seen, other)
<1>1. ASSUME NEW e \in changed PROVE r \notin EpochTargets(e, known, replies)
  BY <1>1 DEF Bumped
<1>2. r \notin changed
  BY <1>1 DEF EpochTargets
<1>3. ASSUME NEW p \in seen \cup other, IsPatch(p), Body[p].root = r
      PROVE  /\ p \notin changed
             /\ \A d \in changed : IsDeletion(d) => p \notin Body[d].refs
             /\ Body[p].reply \notin changed
  <2>1. p \in Event /\ p \in known /\ ~IsRoot(p)
    BY <1>3, NoEventAssumption DEF RootedPatches, IsRoot, IsPatch
  <2>2. p \notin changed
    BY <1>1, <1>3, <2>1, NoEventAssumption DEF EpochTargets
  <2>3. ASSUME NEW d \in changed, IsDeletion(d), p \in Body[d].refs PROVE FALSE
    <3>1. ~IsRoot(d) /\ ~IsPatch(d)
      BY <2>3, DeletionsUntypedAssumption DEF IsDeletion, IsRoot, IsPatch
    <3>2. r \in {Body[q].root : q \in Body[d].refs \cap known}
      BY <1>3, <2>1, <2>3
    <3>3. QED
      BY <1>1, <2>3, <3>1, <3>2 DEF EpochTargets
  <2>4. ASSUME Body[p].reply \in changed PROVE FALSE
    <3>1. <<Body[p].reply, r>> \in replies
      BY <1>3, <2>4, NoEventAssumption DEF ReplyPairs, RootedPatches
    <3>2. r \in EpochTargets(Body[p].reply, known, replies)
      BY <3>1 DEF EpochTargets
    <3>3. QED
      BY <1>1, <2>4, <3>2
  <2>5. QED
    BY <2>2, <2>3, <2>4
<1>4. Patches(r, seen) = Patches(r, other)
  BY <1>3 DEF Patches
<1>5. ASSUME NEW p \in Patches(r, seen)
      PROVE  /\ DeletionsOf(p, seen) = DeletionsOf(p, other)
             /\ Body[p].reply \in seen <=> Body[p].reply \in other
  <2>1. p \in seen /\ IsPatch(p) /\ Body[p].root = r
    BY DEF Patches
  <2>2. QED
    BY <1>3, <2>1 DEF DeletionsOf
<1>6. QED
  BY <1>2, <1>4, <1>5 DEF Alike

\* The memo serves roots what resolve says now, and the reverse index knows the rooted
\* patches that are observed, and what they reply to.
MemoInv ==
  /\ memo = [r \in Event |-> memo[r]]
  /\ RootedPatches(admit.observed) \subseteq members
  /\ ReplyPairs(admit.observed) \subseteq overlay
  /\ \A r \in Event : memo[r] # NoEntry => IsRoot(r) /\ memo[r] = ResolveRoot(r, Feed)

\* A memo entry that outlives a change of the feed is still what resolve says.
LEMMA SpentEntriesAreDropped ==
  ASSUME LineagesStay, MemoInv,
         Feed \in SUBSET Event, IsFiniteSet(Feed), Feed' \in SUBSET Event, IsFiniteSet(Feed'),
         NEW changed \in SUBSET Event,
         Feed \ Feed' \subseteq changed, Feed' \ Feed \subseteq changed,
         NEW known, RootedPatches(Feed \cup Feed') \subseteq known,
         NEW replies, ReplyPairs(Feed \cup Feed') \subseteq replies,
         memo' = Forget(Bumped(changed, known, replies))
  PROVE  /\ memo' = [r \in Event |-> memo'[r]]
         /\ \A r \in Event : memo'[r] # NoEntry => IsRoot(r) /\ memo'[r] = ResolveRoot(r, Feed')
<1>1. memo' = [r \in Event |-> memo'[r]]
  BY DEF Forget
<1>2. ASSUME NEW r \in Event, memo'[r] # NoEntry
      PROVE  IsRoot(r) /\ memo'[r] = ResolveRoot(r, Feed')
  <2>1. memo'[r] = memo[r] /\ r \notin Bumped(changed, known, replies)
    BY <1>2 DEF Forget
  <2>2. IsRoot(r) /\ memo[r] = ResolveRoot(r, Feed)
    BY <1>2, <2>1 DEF MemoInv
  <2>3. Alike(r, Feed, Feed')
    BY <2>1, <2>2, EpochsCoverChanges
  <2>4. ResolveRoot(r, Feed) = ResolveRoot(r, Feed')
    BY <2>2, <2>3, AlikeResolution
  <2>5. QED
    BY <2>1, <2>2, <2>4
<1>3. QED
  BY <1>1, <1>2

\* The reverse index is kept by an observe delta.
LEMMA IndexGrows ==
  ASSUME NEW events
  PROVE  LET after == Observed(events)
             seen  == admit.observed \cup events
         IN /\ RootedPatches(admit.observed) \subseteq members
                  => RootedPatches(seen) \subseteq after.known
            /\ ReplyPairs(admit.observed) \subseteq overlay
                  => ReplyPairs(seen) \subseteq after.replies
BY DEF Observed, RootedPatches, ReplyPairs

\* An observe delta moves the epochs of what it changes.
LEMMA ObserveKeepsMemo ==
  ASSUME LineagesStay, StoreInv, IsFiniteSet(admit.observed), MemoInv,
         NEW events \in ObserveBatches, Observe(events)
  PROVE  MemoInv'
<1> DEFINE seen   == admit.observed \cup events
           fresh  == events \ admit.observed
           judged == fresh \cup Waiters(fresh, seen)
           after  == Observed(events)
<1>1. events \subseteq Event /\ IsFiniteSet(events)
  BY DeltasAssumption
<1>2. seen \in SUBSET Event /\ IsFiniteSet(seen) /\ judged \in SUBSET Event
  BY <1>1, FS_Union DEF StoreInv, Waiters
<1>3. admit'.observed = seen
  BY ObserveGrows DEF StoreInv, Observe
<1>4. Record(after)
  <2>1. \E x \in {Observed(events)} : Record(x)
    BY Zenon DEF Observe
  <2>2. QED
    BY <2>1, Zenon
<1>5. invalid' = invalid \cup {e \in judged : IsInvalid(e, seen)}
  BY <1>4 DEF Record, Observed
<1>6. memo' = Forget(Bumped(judged, after.known, after.replies))
  BY <1>4 DEF Record, Observed
<1>7. RootedPatches(seen) \subseteq after.known /\ ReplyPairs(seen) \subseteq after.replies
  BY IndexGrows DEF MemoInv
<1>8. members' = after.known /\ overlay' = after.replies
  BY <1>4 DEF Record
<1>9. Feed' = seen \ invalid'
  BY <1>3 DEF Feed
<1> HIDE DEF after
<1>10. /\ Feed \in SUBSET Event /\ IsFiniteSet(Feed)
       /\ Feed' \in SUBSET Event /\ IsFiniteSet(Feed')
  BY <1>2, <1>9, FS_Subset DEF StoreInv, Feed
<1>11. Feed \ Feed' \subseteq judged /\ Feed' \ Feed \subseteq judged
  BY <1>5, <1>9 DEF Feed
<1>12. Feed \cup Feed' \subseteq seen
  BY <1>9 DEF Feed
<1> HIDE DEF judged, seen, fresh
<1>13. /\ RootedPatches(Feed \cup Feed') \subseteq after.known
       /\ ReplyPairs(Feed \cup Feed') \subseteq after.replies
  BY <1>7, <1>12 DEF RootedPatches, ReplyPairs
<1>14. /\ memo' = [r \in Event |-> memo'[r]]
       /\ \A r \in Event : memo'[r] # NoEntry => IsRoot(r) /\ memo'[r] = ResolveRoot(r, Feed')
  BY <1>2, <1>6, <1>10, <1>11, <1>13, SpentEntriesAreDropped
<1>15. QED
  BY <1>3, <1>7, <1>8, <1>14 DEF MemoInv

\* An unobserve delta moves the epochs of what it takes away.
LEMMA UnobserveKeepsMemo ==
  ASSUME LineagesStay, StoreInv, IsFiniteSet(admit.observed), MemoInv, NEW ids, Unobserve(ids)
  PROVE  MemoInv'
<1> DEFINE gone == {ids[i] : i \in DOMAIN ids} \cap admit.observed
<1>1. admit'.observed = admit.observed \ gone
  BY UnobserveShrinks DEF StoreInv, Unobserve
<1>2. invalid' = invalid /\ members' = members /\ overlay' = overlay
  BY DEF Unobserve
<1>3. memo' = Forget(Bumped(gone, members, overlay))
  <2>1. \E moved \in {Bumped(gone, members, overlay)} : memo' = Forget(moved)
    BY Zenon DEF Unobserve
  <2>2. QED
    BY <2>1, Zenon
<1>4. gone \in SUBSET Event
  BY DEF StoreInv
<1> HIDE DEF gone
<1>5. Feed' \subseteq Feed /\ Feed \ Feed' \subseteq gone
  BY <1>1, <1>2 DEF Feed
<1>6. /\ Feed \in SUBSET Event /\ IsFiniteSet(Feed)
      /\ Feed' \in SUBSET Event /\ IsFiniteSet(Feed')
  BY <1>5, FS_Subset DEF StoreInv, Feed
<1>7. /\ RootedPatches(Feed \cup Feed') \subseteq members
      /\ ReplyPairs(Feed \cup Feed') \subseteq overlay
  BY <1>5 DEF MemoInv, Feed, RootedPatches, ReplyPairs
<1>8. /\ memo' = [r \in Event |-> memo'[r]]
      /\ \A r \in Event : memo'[r] # NoEntry => IsRoot(r) /\ memo'[r] = ResolveRoot(r, Feed')
  BY <1>3, <1>4, <1>5, <1>6, <1>7, SpentEntriesAreDropped
<1>9. /\ RootedPatches(admit'.observed) \subseteq members'
      /\ ReplyPairs(admit'.observed) \subseteq overlay'
  BY <1>1, <1>2 DEF MemoInv, RootedPatches, ReplyPairs
<1>10. QED
  BY <1>8, <1>9 DEF MemoInv

\* As long as no lineage crosses to another root, a resolution served from the memo is the
\* one a fresh resolve() gives for what is observed and valid now (D24, D29).
THEOREM MemoIsFresh == ASSUME LineagesStay PROVE Spec => []MemoFresh
<1> DEFINE Sound == StoreInv /\ IsFiniteSet(admit.observed)
<1>1. Init => MemoInv
  <2>1. ASSUME Init PROVE MemoInv
    <3>1. admit.observed = {} /\ members = {} /\ overlay = {} /\ memo = [r \in Event |-> NoEntry]
      BY <2>1 DEF Init, Admitting!Init, Admitting!EmptyAdmitState
    <3>2. QED
      BY <3>1 DEF MemoInv, RootedPatches, ReplyPairs
  <2>2. QED
    BY <2>1
<1>2. ASSUME Sound, MemoInv, [Next]_vars PROVE MemoInv'
  <2>1. ASSUME NEW events \in ObserveBatches, Observe(events) PROVE MemoInv'
    BY <1>2, <2>1, ObserveKeepsMemo
  <2>2. ASSUME NEW ids \in UnobserveBatches, Unobserve(ids) PROVE MemoInv'
    BY <1>2, <2>2, UnobserveKeepsMemo
  <2>3. ASSUME NEW authors \in TrustBatches, Trust(authors) \/ Untrust(authors) PROVE MemoInv'
    <3>1. /\ admit'.observed = admit.observed /\ invalid' = invalid
          /\ members' = members /\ overlay' = overlay /\ memo' = memo
      BY <1>2, <2>3, TrustKeepsObserved DEF StoreInv, Trust, Untrust
    <3>2. QED
      BY <1>2, <3>1 DEF MemoInv, Feed
  <2>4. ASSUME NEW r \in Event, IsRoot(r), Read(r) PROVE MemoInv'
    <3>1. /\ admit' = admit /\ invalid' = invalid /\ members' = members /\ overlay' = overlay
          /\ memo' = [memo EXCEPT ![r] = Answer(r)]
      BY <2>4 DEF Read
    <3>2. Answer(r) = ResolveRoot(r, Feed)
      BY <1>2 DEF Answer, MemoInv
    <3>3. QED
      BY <1>2, <2>4, <3>1, <3>2 DEF MemoInv, Feed
  <2>5. CASE UNCHANGED vars
    BY <1>2, <2>5 DEF vars, MemoInv, Feed
  <2>6. QED
    BY <1>2, <2>1, <2>2, <2>3, <2>4, <2>5 DEF Next
<1>3. MemoInv => MemoFresh
  BY DEF MemoInv, MemoFresh
<1>4. Sound /\ MemoInv /\ [Next]_vars => MemoInv'
  BY <1>2
<1>5. QED
  BY <1>1, <1>3, <1>4, VerdictsInvariant, ObservedIsFinite, PTL DEF Spec

-----------------------------------------------------------------------------
(* The loop of an observe delta *)

\* A sequence without repetitions, as long as a finite set it is taken from, lists the set.
LEMMA FullListsAreListings ==
  ASSUME NEW S, IsFiniteSet(S), NEW s \in [1..Cardinality(S) -> S], IsInjective(s)
  PROVE  /\ s \in Seq(S) /\ ToSet(s) = S
         /\ \A i, j \in 1..Len(s) : s[i] = s[j] => i = j
<1> DEFINE n == Cardinality(S)
<1>1. n \in Nat
  BY FS_CardinalityType
<1>2. IsFiniteSet(1..n) /\ Cardinality(1..n) = n
  BY <1>1, FS_Interval
<1>3. s \in Injection(1..n, S)
  BY DEF Injection
<1>4. s \in Surjection(1..n, S)
  BY <1>2, <1>3, FS_Injection
<1>5. \A x \in S : \E i \in 1..n : s[i] = x
  BY <1>4 DEF Surjection
<1>6. s \in Seq(S) /\ Len(s) = n /\ DOMAIN s = 1..n
  BY <1>1
<1>7. QED
  BY <1>5, <1>6 DEF ToSet, IsInjective

\* The events of a finite set can be listed, each once.
LEMMA FiniteSetsAreListed ==
  ASSUME NEW S, IsFiniteSet(S)
  PROVE  SetToSeq(S) \in Seq(S) /\ ToSet(SetToSeq(S)) = S
<1>1. \E f \in [1..Cardinality(S) -> S] : IsInjective(f)
  <2>1. ExistsBijection(1..Cardinality(S), S)
    BY FS_CardinalityType
  <2>2. QED
    BY <2>1 DEF ExistsBijection, Bijection, Injection
<1>2. SetToSeq(S) \in [1..Cardinality(S) -> S] /\ IsInjective(SetToSeq(S))
  BY <1>1 DEF SetToSeq
<1>3. QED
  BY <1>2, FullListsAreListings

\* The registrations of two sets of events are those of each.
LEMMA RegistrationsAddUp ==
  ASSUME NEW A, NEW B, NEW seen
  PROVE  Registrations(A \cup B, seen) = Registrations(A, seen) \cup Registrations(B, seen)
BY DEF Registrations

\* So are the epochs they move.
LEMMA EpochsAddUp ==
  ASSUME NEW A, NEW B, NEW known, NEW replies
  PROVE  Bumped(A \cup B, known, replies)
           = Bumped(A, known, replies) \cup Bumped(B, known, replies)
BY DEF Bumped

\* One more event moves the epochs of its own targets.
LEMMA EpochsOfOne ==
  ASSUME NEW A, NEW e, NEW known, NEW replies
  PROVE  Bumped(A \cup {e}, known, replies)
           = Bumped(A, known, replies) \cup EpochTargets(e, known, replies)
BY DEF Bumped

\* Nobody is registered under an event that is here.
LEMMA NobodyAwaitsTheSeen ==
  ASSUME NEW seen \in SUBSET Event, NEW E \in SUBSET Event, NEW w \in Registrations(E, seen)
  PROVE  w[1] \notin seen /\ w = <<w[1], w[2]>> /\ w[1] \in Event /\ w[2] \in E
BY AwaitedAreAbsent DEF Registrations

\* The loop's variables.
Loop(k, r, i, p, b) ==
  [known |-> k, replies |-> r, invalid |-> i, pending |-> p, bumped |-> b]

Rejected(E, seen) == {x \in E : IsInvalid(x, seen)}

\* A patch with a root joins the chain membership.
LEMMA JoinOfLoop ==
  ASSUME NEW k, NEW r, NEW i, NEW p, NEW b, NEW e
  PROVE  Join(Loop(k, r, i, p, b), e) = Loop(k \cup RootedPatches({e}), r, i, p, b)
<1> DEFINE x == RootedPatches({e})
<1>1. Join(Loop(k, r, i, p, b), e) = [Loop(k, r, i, p, b) EXCEPT !.known = @ \cup x]
  BY DEF Join
<1> HIDE DEF x
<1>2. [Loop(k, r, i, p, b) EXCEPT !.known = @ \cup x] = Loop(k \cup x, r, i, p, b)
  BY DEF Loop
<1>3. QED
  BY <1>1, <1>2 DEF x

\* A patch with a root is filed under its reply target.
LEMMA LinkOfLoop ==
  ASSUME NEW k, NEW r, NEW i, NEW p, NEW b, NEW e
  PROVE  Link(Loop(k, r, i, p, b), e) = Loop(k, r \cup ReplyPairs({e}), i, p, b)
BY DEF Link, Loop

\* The epochs of an event's targets move.
LEMMA BumpOfLoop ==
  ASSUME NEW k, NEW r, NEW i, NEW p, NEW b, NEW e
  PROVE  Bump(Loop(k, r, i, p, b), e) = Loop(k, r, i, p, b \cup EpochTargets(e, k, r))
BY SMTT(30) DEF Bump, Loop

\* The slot of one waiter is cleared.
LEMMA ClearOfLoop ==
  ASSUME NEW k, NEW r, NEW i, NEW p, NEW b, NEW e, NEW w
  PROVE  Clear(Loop(k, r, i, p, b), e, w) = Loop(k, r, i, p \ {<<e, w>>}, b)
BY DEF Clear, Loop

\* The verdict on an event.
LEMMA VerdictOfLoop ==
  ASSUME NEW k, NEW r, NEW i, NEW p, NEW b, NEW e, NEW seen
  PROVE  ApplyVerdict(Loop(k, r, i, p, b), e, seen)
           = Loop(k, r, i \cup Rejected({e}, seen), p \cup Registrations({e}, seen), b)
<1>1. Condemn(Loop(k, r, i, p, b), e, seen) = Loop(k, r, i \cup Rejected({e}, seen), p, b)
  BY DEF Condemn, Loop, Rejected
<1>2. ASSUME NEW j PROVE Register(Loop(k, r, j, p, b), e, seen)
                           = Loop(k, r, j, p \cup Registrations({e}, seen), b)
  BY DEF Register, Loop
<1>3. QED
  BY <1>1, <1>2 DEF ApplyVerdict

\* What is left once the waiters Q of e were judged again.
Resettled(k, r, i, p, b, e, Q, seen) ==
  Loop(k, r, i \cup Rejected(Q \cap seen, seen),
       (p \ ({e} \X Q)) \cup Registrations(Q \cap seen, seen),
       b \cup Bumped(Q \cap seen, k, r))

\* One more waiter.
LEMMA OneMoreWaiter ==
  ASSUME NEW k, NEW r, NEW i, NEW p, NEW b,
         NEW seen \in SUBSET Event, NEW e \in seen, NEW Q, NEW w
  PROVE  Resettle(Resettled(k, r, i, p, b, e, Q, seen), e, w, seen)
           = Resettled(k, r, i, p, b, e, Q \cup {w}, seen)
<1> DEFINE inv(X) == i \cup Rejected(X \cap seen, seen)
           pen(X) == (p \ ({e} \X X)) \cup Registrations(X \cap seen, seen)
           bum(X) == b \cup Bumped(X \cap seen, k, r)
           Q1 == Q \cup {w}
<1>1. \A X : Resettled(k, r, i, p, b, e, X, seen) = Loop(k, r, inv(X), pen(X), bum(X))
  BY DEF Resettled
<1>2. <<e, w>> \notin Registrations(Q \cap seen, seen)
  BY NobodyAwaitsTheSeen
<1>3. (p \ ({e} \X Q)) \ {<<e, w>>} = p \ ({e} \X Q1)
  OBVIOUS
<1>4. CASE w \in seen
  <2>1. Q1 \cap seen = (Q \cap seen) \cup {w}
    BY <1>4
  <2>2. inv(Q1) = inv(Q) \cup Rejected({w}, seen)
    BY <2>1 DEF Rejected
  <2>3. pen(Q1) = (pen(Q) \ {<<e, w>>}) \cup Registrations({w}, seen)
    <3>1. Registrations(Q1 \cap seen, seen)
            = Registrations(Q \cap seen, seen) \cup Registrations({w}, seen)
      BY <2>1, RegistrationsAddUp
    <3> HIDE DEF Q1
    <3>2. QED
      BY <1>2, <1>3, <3>1
  <2>4. bum(Q1) = bum(Q) \cup EpochTargets(w, k, r)
    <3>1. Bumped((Q \cap seen) \cup {w}, k, r)
            = Bumped(Q \cap seen, k, r) \cup EpochTargets(w, k, r)
      BY EpochsOfOne
    <3> HIDE DEF Q1
    <3>2. QED
      BY <2>1, <3>1
  <2> HIDE DEF inv, pen, bum, Q1
  <2>5. Clear(Loop(k, r, inv(Q), pen(Q), bum(Q)), e, w)
          = Loop(k, r, inv(Q), pen(Q) \ {<<e, w>>}, bum(Q))
    BY ClearOfLoop
  <2>6. ApplyVerdict(Loop(k, r, inv(Q), pen(Q) \ {<<e, w>>}, bum(Q)), w, seen)
          = Loop(k, r, inv(Q1), pen(Q1), bum(Q))
    BY <2>2, <2>3, VerdictOfLoop
  <2>7. Bump(Loop(k, r, inv(Q1), pen(Q1), bum(Q)), w) = Loop(k, r, inv(Q1), pen(Q1), bum(Q1))
    BY <2>4, BumpOfLoop
  <2>8. QED
    BY <1>1, <1>4, <2>5, <2>6, <2>7 DEF Resettle, Q1
<1>5. CASE w \notin seen
  <2>1. Q1 \cap seen = Q \cap seen
    BY <1>5
  <2>2. inv(Q1) = inv(Q) /\ bum(Q1) = bum(Q)
    BY <2>1
  <2>3. pen(Q1) = pen(Q) \ {<<e, w>>}
    <3>1. Registrations(Q1 \cap seen, seen) = Registrations(Q \cap seen, seen)
      BY <2>1
    <3> HIDE DEF Q1
    <3>2. QED
      BY <1>2, <1>3, <3>1
  <2> HIDE DEF inv, pen, bum, Q1
  <2>4. Clear(Loop(k, r, inv(Q), pen(Q), bum(Q)), e, w) = Loop(k, r, inv(Q1), pen(Q1), bum(Q1))
    BY <2>2, <2>3, ClearOfLoop
  <2>5. QED
    BY <1>1, <1>5, <2>4 DEF Resettle, Q1
<1>6. QED
  BY <1>4, <1>5

\* What is left once the waiters were judged again, in the order of the list q.
LEMMA WaitersInAnyOrder ==
  ASSUME NEW k, NEW r, NEW i, NEW p, NEW b, NEW seen \in SUBSET Event, NEW e \in seen,
         NEW start, start = Loop(k, r, i, p, b), NEW S, NEW q \in Seq(S)
  PROVE  ResettleAll(start, e, q, seen) = Resettled(k, r, i, p, b, e, ToSet(q), seen)
<1> DEFINE N == Len(q)
           IsSettled(f) ==
             f = [n \in 0..N |-> IF n = 0 THEN start ELSE Resettle(f[n - 1], e, q[n], seen)]
           settled == CHOOSE f : IsSettled(f)
           upto(n) == {q[j] : j \in 1..n}
           g == [n \in 0..N |-> Resettled(k, r, i, p, b, e, upto(n), seen)]
<1>1. N \in Nat /\ 0 \in 0..N /\ N \in 0..N
  OBVIOUS
<1>2. upto(0) = {} /\ ToSet(q) = upto(N)
  BY DEF ToSet
<1>3. Resettled(k, r, i, p, b, e, {}, seen) = start
  <2>1. Registrations({}, seen) = {} /\ Bumped({}, k, r) = {} /\ Rejected({}, seen) = {}
    BY DEF Registrations, Bumped, Rejected
  <2>2. {} \cap seen = {} /\ i \cup {} = i /\ b \cup {} = b /\ (p \ ({e} \X {})) \cup {} = p
    OBVIOUS
  <2>3. QED
    BY <2>1, <2>2 DEF Resettled
<1>4. ASSUME NEW n \in 1..N PROVE upto(n) = upto(n - 1) \cup {q[n]}
  <2>1. 1..n = (1..n - 1) \cup {n}
    BY <1>1
  <2>2. QED
    BY <2>1
<1> HIDE DEF N, upto
<1>5. g[0] = start /\ \A n \in 1..N : g[n] = Resettle(g[n - 1], e, q[n], seen)
  <2>1. g[0] = start
    BY <1>1, <1>2, <1>3
  <2>2. ASSUME NEW n \in 1..N PROVE g[n] = Resettle(g[n - 1], e, q[n], seen)
    <3>1. n \in 0..N /\ n - 1 \in 0..N
      BY <1>1
    <3>2. QED
      BY <1>4, <3>1, OneMoreWaiter
  <2>3. QED
    BY <2>1, <2>2
<1>6. g[N] = Resettled(k, r, i, p, b, e, ToSet(q), seen)
  BY <1>1, <1>2
<1>7. IsSettled(g)
  <2>1. ASSUME NEW n \in 0..N
        PROVE  g[n] = IF n = 0 THEN start ELSE Resettle(g[n - 1], e, q[n], seen)
    <3> HIDE DEF g
    <3>1. CASE n = 0
      BY <1>5, <3>1
    <3>2. CASE n # 0
      <4>1. n \in 1..N
        BY <1>1, <3>2
      <4>2. QED
        BY <1>5, <3>2, <4>1
    <3>3. QED
      BY <3>1, <3>2
  <2>2. g = [n \in 0..N |-> g[n]]
    OBVIOUS
  <2> HIDE DEF g
  <2>3. QED
    BY <2>1, <2>2
<1> HIDE DEF g
<1>8. IsSettled(settled)
  <2> HIDE DEF IsSettled
  <2>1. QED
    BY <1>7
<1> HIDE DEF settled
<1>9. \A n \in 0..N :
        settled[n] = IF n = 0 THEN start ELSE Resettle(settled[n - 1], e, q[n], seen)
  BY <1>8
<1> DEFINE T == {n \in 0..N : settled[n] = g[n]}
<1>10. 0 \in T
  BY <1>1, <1>5, <1>9
<1>11. ASSUME NEW n \in 1..N, n - 1 \in T PROVE n \in T
  <2>1. n \in 0..N /\ n # 0
    BY <1>1
  <2>2. settled[n] = Resettle(settled[n - 1], e, q[n], seen)
    BY <1>9, <2>1
  <2>3. QED
    BY <1>5, <1>11, <2>1, <2>2
<1>12. 0..N \subseteq T
  <2> HIDE DEF T
  <2>1. QED
    BY <1>1, <1>10, <1>11, SetInduction
<1>13. settled[N] = Resettled(k, r, i, p, b, e, ToSet(q), seen)
  BY <1>1, <1>6, <1>12
<1>14. QED
  BY <1>13 DEF ResettleAll, settled, N

\* What the loop has once it went through the events of F.
Through(F, seen) ==
  LET judged  == F \cup Waiters(F, seen)
      known   == members \cup RootedPatches(F)
      replies == overlay \cup ReplyPairs(F)
  IN Loop(known, replies, invalid \cup Rejected(judged, seen),
          {w \in pending : w[1] \notin F} \cup Registrations(judged, seen),
          Bumped(judged, known, replies))

\* The epochs that a patch adds to those moved before it are its own.
LEMMA LatePatchBumpsItsRoot ==
  ASSUME NEW A, NEW e \in Event, NEW k, NEW r,
         NEW k1, k1 = k \cup RootedPatches({e}), NEW r1, r1 = r \cup ReplyPairs({e})
  PROVE  Bumped(A, k, r) \cup EpochTargets(e, k1, r1) = Bumped(A \cup {e}, k1, r1)
<1>1. Bumped(A \cup {e}, k1, r1) = Bumped(A, k1, r1) \cup EpochTargets(e, k1, r1)
  BY EpochsOfOne
<1>2. ASSUME NEW a PROVE EpochTargets(a, k, r) \subseteq EpochTargets(a, k1, r1)
  BY DEF EpochTargets
<1>3. ASSUME NEW a, NEW t \in EpochTargets(a, k1, r1), t \notin EpochTargets(a, k, r)
      PROVE  t \in EpochTargets(e, k1, r1)
  <2>1. IsPatch(e) /\ Body[e].root # NoEvent /\ t = Body[e].root
    <3>1. CASE <<a, t>> \in r1 \ r
      BY <3>1 DEF ReplyPairs, RootedPatches
    <3>2. CASE <<a, t>> \notin r1 \ r
      <4>1. IsDeletion(a) /\ t \in {Body[p].root : p \in Body[a].refs \cap k1}
              /\ t \notin {Body[p].root : p \in Body[a].refs \cap k}
        BY <1>3, <3>2 DEF EpochTargets
      <4>2. PICK p \in Body[a].refs \cap k1 : t = Body[p].root
        BY <4>1
      <4>3. p \in RootedPatches({e})
        BY <4>1, <4>2
      <4>4. QED
        BY <4>2, <4>3 DEF RootedPatches
    <3>3. QED
      BY <3>1, <3>2
  <2>2. QED
    BY <2>1 DEF EpochTargets, IsPatch, IsRoot
<1>4. Bumped(A, k, r) \cup EpochTargets(e, k1, r1)
        = Bumped(A, k1, r1) \cup EpochTargets(e, k1, r1)
  <2>1. Bumped(A, k, r) \subseteq Bumped(A, k1, r1)
    BY <1>2 DEF Bumped
  <2>2. Bumped(A, k1, r1) \subseteq Bumped(A, k, r) \cup EpochTargets(e, k1, r1)
    <3> SUFFICES ASSUME NEW a \in A, NEW t \in EpochTargets(a, k1, r1)
                 PROVE  t \in Bumped(A, k, r) \cup EpochTargets(e, k1, r1)
      BY DEF Bumped
    <3>1. QED
      BY <1>3 DEF Bumped
  <2>3. QED
    BY <2>1, <2>2
<1>5. QED
  BY <1>1, <1>4

\* One event of a batch.
LEMMA OneMoreEvent ==
  ASSUME pending \subseteq Event \X Event, IsFiniteSet(pending),
         NEW seen \in SUBSET Event, NEW F \in SUBSET seen, NEW e \in seen \ F
  PROVE  ProcessObservedEvent(Through(F, seen), e, seen) = Through(F \cup {e}, seen)
<1> DEFINE A  == F \cup Waiters(F, seen)
           F1 == F \cup {e}
           A1 == F1 \cup Waiters(F1, seen)
           k  == members \cup RootedPatches(F)
           r  == overlay \cup ReplyPairs(F)
           i  == invalid \cup Rejected(A, seen)
           p  == {w \in pending : w[1] \notin F} \cup Registrations(A, seen)
           k1 == members \cup RootedPatches(F1)
           r1 == overlay \cup ReplyPairs(F1)
           i1 == i \cup Rejected({e}, seen)
           p1 == p \cup Registrations({e}, seen)
           b1 == Bumped(A \cup {e}, k1, r1)
           W  == {w \in Event : <<e, w>> \in pending}
           judged == ApplyVerdict(Bump(Link(Join(Through(F, seen), e), e), e), e, seen)
<1>1. e \in Event /\ e \notin F /\ A \in SUBSET seen /\ A \in SUBSET Event
  BY DEF Waiters
<1>2. k1 = k \cup RootedPatches({e}) /\ r1 = r \cup ReplyPairs({e})
  BY DEF RootedPatches, ReplyPairs
<1>3. Through(F, seen) = Loop(k, r, i, p, Bumped(A, k, r))
  BY DEF Through
<1>4. b1 = Bumped(A, k, r) \cup EpochTargets(e, k1, r1)
  <2> HIDE DEF A, k, r, k1, r1
  <2>1. QED
    BY <1>1, <1>2, LatePatchBumpsItsRoot
<1>5. \A w : <<e, w>> \notin Registrations(A, seen) /\ <<e, w>> \notin Registrations({e}, seen)
  BY <1>1, NobodyAwaitsTheSeen
<1>6. A1 = (A \cup {e}) \cup (W \cap seen)
  BY DEF Waiters
<1>7. W = {w \in Event : <<e, w>> \in p1}
  BY <1>1, <1>5
<1>8. IsFiniteSet(W)
  <2> DEFINE V == {w \in pending : w[1] = e}
             f == [w \in V |-> w[2]]
  <2>1. IsFiniteSet(V)
    BY FS_Subset
  <2>2. \A w \in V : w[2] \in W
    OBVIOUS
  <2>3. \A w \in W : <<e, w>> \in V
    OBVIOUS
  <2>4. f \in Surjection(V, W)
    <3>1. f \in [V -> W]
      BY <2>2
    <3>2. \A w \in W : f[<<e, w>>] = w
      BY <2>3
    <3>3. QED
      BY <2>3, <3>1, <3>2 DEF Surjection
  <2> HIDE DEF V, W, f
  <2>5. QED
    BY <2>1, <2>4, FS_Surjection
<1>9. {w \in pending : w[1] \notin F1} = {w \in pending : w[1] \notin F} \ ({e} \X W)
  OBVIOUS
<1> HIDE DEF A, F1, A1, k, r, i, p, k1, r1, i1, p1, b1, W
<1>10. judged = Loop(k1, r1, i1, p1, b1)
  <2>1. Join(Through(F, seen), e) = Loop(k1, r, i, p, Bumped(A, k, r))
    BY <1>2, <1>3, JoinOfLoop
  <2>2. Link(Join(Through(F, seen), e), e) = Loop(k1, r1, i, p, Bumped(A, k, r))
    BY <1>2, <2>1, LinkOfLoop
  <2>3. Bump(Link(Join(Through(F, seen), e), e), e) = Loop(k1, r1, i, p, b1)
    BY <1>4, <2>2, BumpOfLoop
  <2>4. QED
    BY <2>3, VerdictOfLoop DEF i1, p1
<1> HIDE DEF judged
<1>11. {w \in Event : <<e, w>> \in judged.pending} = W
  BY <1>7, <1>10 DEF Loop
<1> DEFINE q == SetToSeq({w \in Event : <<e, w>> \in judged.pending})
<1>12. q \in Seq(W) /\ ToSet(q) = W
  BY <1>8, <1>11, FiniteSetsAreListed
<1> HIDE DEF q
<1>13. ResettleAll(judged, e, q, seen) = Resettled(k1, r1, i1, p1, b1, e, W, seen)
  BY <1>10, <1>12, WaitersInAnyOrder
<1>14. ProcessObservedEvent(Through(F, seen), e, seen)
         = Resettled(k1, r1, i1, p1, b1, e, W, seen)
  BY <1>13 DEF ProcessObservedEvent, q, judged
<1>15. i1 \cup Rejected(W \cap seen, seen) = invalid \cup Rejected(A1, seen)
  BY <1>6 DEF i1, i, Rejected
<1>16. (p1 \ ({e} \X W)) \cup Registrations(W \cap seen, seen)
         = {w \in pending : w[1] \notin F1} \cup Registrations(A1, seen)
  <2>1. Registrations(A1, seen)
          = (Registrations(A, seen) \cup Registrations({e}, seen)) \cup Registrations(W \cap seen, seen)
    <3>1. /\ Registrations(A1, seen)
               = Registrations(A \cup {e}, seen) \cup Registrations(W \cap seen, seen)
          /\ Registrations(A \cup {e}, seen) = Registrations(A, seen) \cup Registrations({e}, seen)
      BY <1>6, RegistrationsAddUp
    <3>2. QED
      BY <3>1
  <2>2. /\ Registrations(A, seen) \cap ({e} \X W) = {}
        /\ Registrations({e}, seen) \cap ({e} \X W) = {}
    BY <1>5
  <2>3. QED
    BY <1>9, <2>1, <2>2 DEF p1, p
<1>17. b1 \cup Bumped(W \cap seen, k1, r1) = Bumped(A1, k1, r1)
  BY <1>6, EpochsAddUp DEF b1
<1>18. Through(F1, seen)
         = Loop(k1, r1, invalid \cup Rejected(A1, seen),
                {w \in pending : w[1] \notin F1} \cup Registrations(A1, seen), Bumped(A1, k1, r1))
  BY DEF Through, A1, k1, r1
<1>19. QED
  BY <1>14, <1>15, <1>16, <1>17, <1>18 DEF Resettled, F1

\* The loop over a list of events, each of them once.
LEMMA LoopGoesThrough ==
  ASSUME pending \subseteq Event \X Event, IsFiniteSet(pending), admit.observed \subseteq Event,
         NEW S \in SUBSET Event, NEW list \in Seq(S), ToSet(list) = S,
         \A i, j \in 1..Len(list) : list[i] = list[j] => i = j
  PROVE  ObserveLoop(list) = Through(S \ admit.observed, admit.observed \cup S)
<1> DEFINE N == Len(list)
           seen == admit.observed \cup ToSet(list)
           start == [known |-> members, replies |-> overlay, invalid |-> invalid,
                     pending |-> pending, bumped |-> {}]
           next(before, e) ==
             IF e \in admit.observed THEN before ELSE ProcessObservedEvent(before, e, seen)
           IsDone(f) ==
             f = [n \in 0..N |->
                    IF n = 0 THEN start
                    ELSE IF list[n] \in admit.observed THEN f[n - 1]
                    ELSE ProcessObservedEvent(f[n - 1], list[n], seen)]
           done == CHOOSE f : IsDone(f)
           upto(n) == {list[j] : j \in 1..n} \ admit.observed
           g == [n \in 0..N |-> Through(upto(n), seen)]
<1>1. N \in Nat /\ 0 \in 0..N /\ N \in 0..N
  OBVIOUS
<1>2. upto(0) = {} /\ upto(N) = S \ admit.observed /\ seen \in SUBSET Event
  BY DEF ToSet
<1>3. Through({}, seen) = start
  <2>1. /\ Waiters({}, seen) = {} /\ Registrations({}, seen) = {} /\ Rejected({}, seen) = {}
        /\ RootedPatches({}) = {} /\ ReplyPairs({}) = {}
        /\ \A known, replies : Bumped({}, known, replies) = {}
    BY DEF Waiters, Registrations, Rejected, RootedPatches, ReplyPairs, Bumped
  <2>2. /\ members \cup {} = members /\ overlay \cup {} = overlay /\ invalid \cup {} = invalid
        /\ {} \cup {} = {} /\ {w \in pending : w[1] \notin {}} \cup {} = pending
    OBVIOUS
  <2>3. Through({}, seen) = Loop(members, overlay, invalid, pending, {})
    BY <2>1, <2>2 DEF Through
  <2>4. QED
    BY <2>3 DEF Loop
<1>4. ASSUME NEW n \in 1..N
      PROVE  upto(n) = upto(n - 1) \cup ({list[n]} \ admit.observed)
  <2>1. 1..n = (1..n - 1) \cup {n}
    BY <1>1
  <2>2. QED
    BY <2>1
<1>5. ASSUME NEW n \in 1..N
      PROVE  upto(n - 1) \in SUBSET seen /\ list[n] \in seen /\ list[n] \notin upto(n - 1)
  <2>1. \A j \in 1..n - 1 : j \in 1..N /\ j # n
    BY <1>1
  <2>2. QED
    BY <1>1, <2>1 DEF ToSet
<1> HIDE DEF N, upto, start, seen
<1>6. ASSUME NEW n \in 1..N
      PROVE  Through(upto(n), seen) = next(Through(upto(n - 1), seen), list[n])
  <2>1. CASE list[n] \in admit.observed
    <3>1. upto(n) = upto(n - 1)
      BY <1>4, <2>1
    <3>2. QED
      BY <2>1, <3>1
  <2>2. CASE list[n] \notin admit.observed
    <3>1. upto(n) = upto(n - 1) \cup {list[n]}
      BY <1>4, <2>2
    <3>2. QED
      BY <1>2, <1>5, <2>2, <3>1, OneMoreEvent
  <2>3. QED
    BY <2>1, <2>2
<1> HIDE DEF next
<1>7. g[0] = start /\ \A n \in 1..N : g[n] = next(g[n - 1], list[n])
  <2>1. ASSUME NEW n \in 1..N PROVE n \in 0..N /\ n - 1 \in 0..N
    BY <1>1
  <2>2. QED
    BY <1>1, <1>2, <1>3, <1>6, <2>1
<1>8. g[N] = Through(S \ admit.observed, seen)
  BY <1>1, <1>2
<1>9. g = [n \in 0..N |-> g[n]]
  OBVIOUS
<1> HIDE DEF g
<1>10. IsDone(g)
  <2>1. ASSUME NEW n \in 0..N
        PROVE  g[n] = IF n = 0 THEN start
                      ELSE IF list[n] \in admit.observed THEN g[n - 1]
                      ELSE ProcessObservedEvent(g[n - 1], list[n], seen)
    <3>1. CASE n = 0
      BY <1>7, <3>1
    <3>2. CASE n # 0
      <4>1. n \in 1..N
        BY <1>1, <3>2
      <4>2. QED
        BY <1>7, <3>2, <4>1 DEF next
    <3>3. QED
      BY <3>1, <3>2
  <2>2. QED
    BY <1>9, <2>1
<1>11. IsDone(done)
  <2> HIDE DEF IsDone
  <2>1. QED
    BY <1>10
<1> HIDE DEF done
<1>12. done[0] = start /\ \A n \in 1..N : done[n] = next(done[n - 1], list[n])
  <2>1. \A n \in 0..N : done[n] = IF n = 0 THEN start
                                  ELSE IF list[n] \in admit.observed THEN done[n - 1]
                                  ELSE ProcessObservedEvent(done[n - 1], list[n], seen)
    BY <1>11
  <2>2. \A n \in 1..N : n \in 0..N /\ n # 0
    BY <1>1
  <2>3. QED
    BY <1>1, <2>1, <2>2 DEF next
<1> DEFINE T == {n \in 0..N : done[n] = g[n]}
<1>13. 0 \in T
  BY <1>1, <1>7, <1>12
<1>14. ASSUME NEW n \in 1..N, n - 1 \in T PROVE n \in T
  <2>1. n \in 0..N
    BY <1>1
  <2>2. QED
    BY <1>7, <1>12, <1>14, <2>1
<1>15. 0..N \subseteq T
  <2> HIDE DEF T
  <2>1. QED
    BY <1>1, <1>13, <1>14, SetInduction
<1>16. done[N] = Through(S \ admit.observed, seen)
  BY <1>1, <1>8, <1>15
<1>17. ObserveLoop(list) = done[N]
  BY DEF ObserveLoop, done, N, seen, start
<1>18. QED
  BY <1>16, <1>17 DEF seen

\* An event awaits at most its root, its reply target and its link.
LEMMA RegistrationsAreFinite ==
  ASSUME NEW E, IsFiniteSet(E), NEW seen PROVE IsFiniteSet(Registrations(E, seen))
<1> DEFINE f == [e \in E |-> <<Body[e].root, e>>]
           g == [e \in E |-> <<Body[e].reply, e>>]
           h == [e \in E |-> <<Body[e].link, e>>]
           Rf == {f[e] : e \in E}
           Rg == {g[e] : e \in E}
           Rh == {h[e] : e \in E}
<1>1. f \in Surjection(E, Rf) /\ g \in Surjection(E, Rg) /\ h \in Surjection(E, Rh)
  BY DEF Surjection
<1>2. Registrations(E, seen) \subseteq (Rf \cup Rg) \cup Rh
  <2>1. \A e : Awaiting(e, seen) \subseteq {Body[e].root, Body[e].reply, Body[e].link}
    BY DEF Awaiting, Endpoints
  <2>2. QED
    BY <2>1 DEF Registrations
<1> HIDE DEF f, g, h, Rf, Rg, Rh
<1>3. IsFiniteSet(Rf) /\ IsFiniteSet(Rg) /\ IsFiniteSet(Rh)
  BY <1>1, FS_Surjection
<1>4. QED
  BY <1>2, <1>3, FS_Union, FS_Subset

\* Finitely many events wait, for finitely many others.
LEMMA PendingIsFinite == Spec => []IsFiniteSet(pending)
<1> DEFINE Sound == StoreInv /\ IsFiniteSet(admit.observed)
<1>1. Init => IsFiniteSet(pending)
  BY FS_EmptySet DEF Init
<1>2. ASSUME Sound, IsFiniteSet(pending), [Next]_vars PROVE IsFiniteSet(pending')
  <2>1. ASSUME NEW events \in ObserveBatches, Observe(events) PROVE IsFiniteSet(pending')
    <3> DEFINE seen   == admit.observed \cup events
               fresh  == events \ admit.observed
               judged == fresh \cup Waiters(fresh, seen)
    <3>1. \E after \in {Observed(events)} : Record(after)
      BY <2>1, Zenon DEF Observe
    <3>2. Record(Observed(events))
      BY <3>1, Zenon
    <3>3. pending' = {w \in pending : w[1] \notin fresh} \cup Registrations(judged, seen)
      BY <3>2 DEF Record, Observed
    <3>4. IsFiniteSet(seen)
      BY <1>2, DeltasAssumption, FS_Union
    <3>5. IsFiniteSet(judged)
      <4>1. judged \subseteq seen
        BY DEF Waiters
      <4>2. QED
        BY <3>4, <4>1, FS_Subset
    <3>6. IsFiniteSet({w \in pending : w[1] \notin fresh})
      BY <1>2, FS_Subset
    <3>7. QED
      BY <3>3, <3>5, <3>6, RegistrationsAreFinite, FS_Union
  <2>2. ASSUME NEW ids, Unobserve(ids) PROVE IsFiniteSet(pending')
    <3>1. pending' \subseteq pending
      BY <2>2 DEF Unobserve
    <3>2. QED
      BY <1>2, <3>1, FS_Subset
  <2>3. CASE UNCHANGED pending
    BY <1>2, <2>3
  <2>4. QED
    BY <1>2, <2>1, <2>2, <2>3 DEF Next, Trust, Untrust, Read, vars
<1>3. Sound /\ IsFiniteSet(pending) /\ [Next]_vars => IsFiniteSet(pending)'
  BY <1>2
<1>4. QED
  BY <1>1, <1>3, VerdictsInvariant, ObservedIsFinite, PTL DEF Spec

\* The loop over a batch leaves what Observed says, in whatever order the batch lists its
\* events and their waiters are judged (UR-1).
THEOREM LoopIsOrderless == Spec => []BatchOrderIrrelevant
<1> DEFINE Sound == StoreInv /\ IsFiniteSet(pending)
<1>1. ASSUME Sound, NEW events \in ObserveBatches, NEW list \in SetToSeqs(events)
      PROVE  ObserveLoop(list) = Observed(events)
  <2>1. events \in SUBSET Event /\ IsFiniteSet(events)
    BY DeltasAssumption
  <2>2. list \in [1..Cardinality(events) -> events] /\ IsInjective(list)
    BY DEF SetToSeqs, IsInjective
  <2>3. /\ list \in Seq(events) /\ ToSet(list) = events
        /\ \A i, j \in 1..Len(list) : list[i] = list[j] => i = j
    BY <2>1, <2>2, FullListsAreListings
  <2>4. ObserveLoop(list) = Through(events \ admit.observed, admit.observed \cup events)
    BY <1>1, <2>1, <2>3, LoopGoesThrough DEF StoreInv
  <2>5. QED
    BY <2>4 DEF Through, Observed, Loop, Rejected
<1>2. Sound => BatchOrderIrrelevant
  BY <1>1 DEF BatchOrderIrrelevant
<1>3. QED
  BY <1>2, VerdictsInvariant, PendingIsFinite, PTL

-----------------------------------------------------------------------------
(* The storage of the store *)

\* Every index holds exactly the keys of the stored copies.
IndexesExact ==
  /\ kindIdx    = UNION {KindKeys(c) : c \in byId}
  /\ typeTagIdx = UNION {TypeKeys(c) : c \in byId}
  /\ iTagIdx    = UNION {IKeys(c) : c \in byId}
  /\ eTagIdx    = UNION {EKeys(c) : c \in byId}

StorageInv == StorageTypeOK /\ IndexesExact /\ CacheIsFresh

\* Fields of a copy have their types.
LEMMA FieldTypes ==
  ASSUME NEW c \in Copy
  PROVE  /\ IdOf(c) \in Id /\ Fields[c].kind \in Kind
         /\ Fields[c].e \subseteq Id
BY CopiesAssumption DEF IdOf

\* Deleted ids are ids.
LEMMA DeletedAreIds ==
  ASSUME NEW stored \in SUBSET Copy PROVE HonouredlyDeleted(stored) \in SUBSET Id
BY FieldTypes DEF HonouredlyDeleted

\* Taking the keys of the replaced copy out of an index and putting those of the
\* new copy in leaves it exact: no other stored copy has that id.
LEMMA PutReindexes ==
  ASSUME StorageInv, NEW c \in Copy, Put(c)
  PROVE  IndexesExact'
<1> DEFINE old == {o \in byId : IdOf(o) = IdOf(c)}
<1>1. byId' = (byId \ old) \cup {c}
  BY DEF Put
<1>2. \A o \in byId \ old : IdOf(o) # IdOf(c)
  OBVIOUS
<1>3. \A o \in old : IdOf(o) = IdOf(c)
  OBVIOUS
<1>4. /\ kindIdx'    = (kindIdx \ UNION {KindKeys(o) : o \in old}) \cup KindKeys(c)
      /\ typeTagIdx' = (typeTagIdx \ UNION {TypeKeys(o) : o \in old}) \cup TypeKeys(c)
      /\ iTagIdx'    = (iTagIdx \ UNION {IKeys(o) : o \in old}) \cup IKeys(c)
      /\ eTagIdx'    = (eTagIdx \ UNION {EKeys(o) : o \in old}) \cup EKeys(c)
  <2>1. /\ kindIdx'    = Reindexed(kindIdx, {KindKeys(o) : o \in old}, KindKeys(c))
        /\ typeTagIdx' = Reindexed(typeTagIdx, {TypeKeys(o) : o \in old}, TypeKeys(c))
        /\ iTagIdx'    = Reindexed(iTagIdx, {IKeys(o) : o \in old}, IKeys(c))
        /\ eTagIdx'    = Reindexed(eTagIdx, {EKeys(o) : o \in old}, EKeys(c))
    BY Zenon DEF Put
  <2>2. QED
    BY <2>1, Zenon DEF Reindexed
<1>5. old \subseteq byId
  OBVIOUS
<1> HIDE DEF old
<1>6. kindIdx' = UNION {KindKeys(x) : x \in byId'}
  BY <1>1, <1>2, <1>3, <1>4, <1>5 DEF StorageInv, IndexesExact, KindKeys
<1>7. typeTagIdx' = UNION {TypeKeys(x) : x \in byId'}
  BY <1>1, <1>2, <1>3, <1>4, <1>5 DEF StorageInv, IndexesExact, TypeKeys
<1>8. iTagIdx' = UNION {IKeys(x) : x \in byId'}
  BY <1>1, <1>2, <1>3, <1>4, <1>5 DEF StorageInv, IndexesExact, IKeys
<1>9. eTagIdx' = UNION {EKeys(x) : x \in byId'}
  BY <1>1, <1>2, <1>3, <1>4, <1>5 DEF StorageInv, IndexesExact, EKeys
<1>10. QED
  BY <1>6, <1>7, <1>8, <1>9 DEF IndexesExact

\* A write that keeps the cache changes no deletion: the copy is new, deletes
\* nothing, and no stored deletion of its author names it.
LEMMA KeptCacheIsFresh ==
  ASSUME StorageInv, NEW c \in Copy, Put(c), deletedCache' # NoCache
  PROVE  HonouredlyDeleted(byId') = HonouredlyDeleted(byId)
<1>1. /\ {o \in byId : IdOf(o) = IdOf(c)} = {}
      /\ ~Deletes(c)
      /\ ~AwaitedByDeletion(c)
  BY DEF Put
<1>2. byId' = byId \cup {c}
  BY <1>1 DEF Put
<1>3. ASSUME NEW dl \in byId, Deletes(dl), Fields[dl].author = Fields[c].author
      PROVE  IdOf(c) \notin Fields[dl].e
  <2>1. SUFFICES ASSUME IdOf(c) \in Fields[dl].e PROVE <<IdOf(c), IdOf(dl)>> \in eTagIdx
    BY <1>1, <1>3 DEF AwaitedByDeletion
  <2>2. <<IdOf(c), IdOf(dl)>> \in EKeys(dl)
    BY <2>1 DEF EKeys
  <2>3. QED
    BY <2>2 DEF StorageInv, IndexesExact
<1>4. QED
  BY <1>1, <1>2, <1>3 DEF HonouredlyDeleted

\* Writes keep the invariant.
LEMMA PutKeepsInv ==
  ASSUME StorageInv, NEW c \in Copy, Put(c)
  PROVE  StorageInv'
<1>1. /\ byId' = (byId \ {o \in byId : IdOf(o) = IdOf(c)}) \cup {c}
      /\ deletedCache' \in {deletedCache, NoCache}
  BY DEF Put
<1>2. StorageTypeOK'
  <2>1. byId' \subseteq Copy
    BY <1>1 DEF StorageInv, StorageTypeOK
  <2>2. \A x, y \in byId' : IdOf(x) = IdOf(y) => x = y
    BY <1>1 DEF StorageInv, StorageTypeOK
  <2>3. deletedCache' \in (SUBSET Id) \cup {NoCache}
    BY <1>1 DEF StorageInv, StorageTypeOK
  <2>4. QED
    BY <2>1, <2>2, <2>3 DEF StorageTypeOK
<1>3. CacheIsFresh'
  <2>1. SUFFICES ASSUME deletedCache' # NoCache
                 PROVE  deletedCache' = HonouredlyDeleted(byId')
    BY DEF CacheIsFresh
  <2>2. deletedCache' = deletedCache /\ deletedCache # NoCache
    BY <1>1, <2>1
  <2>3. QED
    BY <2>1, <2>2, KeptCacheIsFresh DEF StorageInv, CacheIsFresh
<1>4. QED
  BY <1>2, <1>3, PutReindexes DEF StorageInv

\* Queries keep the invariant: they store what a scan finds.
LEMMA QueryKeepsInv == ASSUME StorageInv, Query PROVE StorageInv'
<1>1. /\ byId' = byId /\ kindIdx' = kindIdx /\ typeTagIdx' = typeTagIdx
      /\ iTagIdx' = iTagIdx /\ eTagIdx' = eTagIdx
      /\ deletedCache' = DeletedIds
  BY DEF Query
<1>2. DeletedIds = HonouredlyDeleted(byId)
  BY DEF DeletedIds, StorageInv, CacheIsFresh
<1>3. HonouredlyDeleted(byId) \in SUBSET Id
  BY DeletedAreIds DEF StorageInv, StorageTypeOK
<1>4. StorageTypeOK'
  BY <1>1, <1>2, <1>3 DEF StorageInv, StorageTypeOK
<1>5. IndexesExact'
  BY <1>1 DEF StorageInv, IndexesExact
<1>6. HonouredlyDeleted(byId') = HonouredlyDeleted(byId)
  BY <1>1
<1>7. QED
  BY <1>1, <1>2, <1>4, <1>5, <1>6 DEF StorageInv, CacheIsFresh

\* The invariant holds in every reachable state.
THEOREM StorageInvariant == StorageSpec => []StorageInv
<1>1. ASSUME StorageInit PROVE StorageInv
  <2>1. StorageTypeOK /\ CacheIsFresh
    BY <1>1 DEF StorageInit, StorageTypeOK, CacheIsFresh
  <2>2. \A c : c \notin byId
    BY <1>1 DEF StorageInit
  <2>3. IndexesExact
    BY <1>1, <2>2 DEF StorageInit, IndexesExact
  <2>4. QED
    BY <2>1, <2>3 DEF StorageInv
<1>2. ASSUME StorageInv, [StorageNext]_storageVars PROVE StorageInv'
  <2>1. CASE UNCHANGED storageVars
    <3>1. HonouredlyDeleted(byId') = HonouredlyDeleted(byId)
      BY <2>1 DEF storageVars
    <3>2. QED
      BY <1>2, <2>1, <3>1 DEF storageVars, StorageInv, StorageTypeOK, IndexesExact, CacheIsFresh
  <2>2. QED
    BY <1>2, <2>1, PutKeepsInv, QueryKeepsInv DEF StorageNext
<1>3. QED
  BY <1>1, <1>2, PTL DEF StorageSpec

\* The cache of deleted ids is never stale: a write keeps it only when no
\* deletion comes into or goes out of force.
THEOREM CacheNeverStale == StorageSpec => []CacheIsFresh
<1>1. StorageInv => CacheIsFresh
  BY DEF StorageInv
<1>2. QED
  BY <1>1, StorageInvariant, PTL

\* An indexed, cached query answers what a full scan would.
THEOREM QueriesAreExact == StorageSpec => []QueryIsExact
<1>1. StorageInv => QueryIsExact
  <2> SUFFICES ASSUME StorageInv, NEW f \in Filter, NEW c \in byId, MatchesFilter(c, f)
               PROVE  IdOf(c) \in CandidateIds(f)
    BY DEF QueryIsExact, QueryResult, DeletedIds, StorageInv, CacheIsFresh
  <2>1. IdOf(c) \in Id
    BY FieldTypes DEF StorageInv, StorageTypeOK
  <2>2. f.ids # NoKey => IdOf(c) \in f.ids
    BY DEF MatchesFilter
  <2>3. f.kinds # NoKey => InBucket(kindIdx, f.kinds, IdOf(c))
    BY DEF MatchesFilter, InBucket, KindKeys, StorageInv, IndexesExact
  <2>4. f.t \notin {NoKey, {}} /\ f.t \subseteq TypeTags
          => InBucket(typeTagIdx, f.t, IdOf(c))
    BY DEF MatchesFilter, InBucket, TypeKeys, StorageInv, IndexesExact
  <2>5. f.i # NoKey => InBucket(iTagIdx, f.i, IdOf(c))
    BY DEF MatchesFilter, InBucket, IKeys, StorageInv, IndexesExact
  <2>6. f.e # NoKey => InBucket(eTagIdx, f.e, IdOf(c))
    BY DEF MatchesFilter, InBucket, EKeys, StorageInv, IndexesExact
  <2>7. QED
    BY <2>1, <2>2, <2>3, <2>4, <2>5, <2>6 DEF CandidateIds
<1>2. QED
  BY <1>1, StorageInvariant, PTL
=============================================================================
