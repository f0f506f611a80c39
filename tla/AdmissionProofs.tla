--------------------------- MODULE AdmissionProofs ---------------------------
(***************************************************************************)
(* Incremental admission equals the full recompute, for every universe of  *)
(* events, when no unobserve batch lists a binding before its root.        *)
(*                                                                         *)
(* The argument has one intermediate notion.  Tracked(w) says that the     *)
(* direct-trust and binding reasons agree with the observed set, the trust *)
(* set and the live table, and that no root-chain reason names a root that *)
(* is not observed: resync visits observed roots only, so a reason naming  *)
(* another one would stay.  Resync turns a tracked state into a settled    *)
(* one (equal to the oracle), and the body of each delta turns a settled   *)
(* state into a tracked one.                                               *)
(*                                                                         *)
(* Of the batches only the last part of that asks anything.  CausesTracked *)
(* and Sound leave it out, and what rests on them holds for every batch.   *)
(***************************************************************************)
EXTENDS Admission, TLAPS

LiveBindings(w) ==
  {b \in w.observed : /\ IsBinding(b)
                      /\ AuthorOf(b) \in w.trusted
                      /\ Endpoints(b) # {}
                      /\ EndpointsWellTyped(b, w.observed)
                      /\ DeletionsOf(b, w.observed) = {}}

CausesTracked(w) ==
  /\ w \in AdmitState
  /\ w.live \subseteq {b \in w.observed : IsBinding(b) /\ Endpoints(b) # {}}
  /\ \A x \in Event :
       DirectTrust \in w.reasons[x] <=> x \in w.observed /\ AuthorOf(x) \in w.trusted
  /\ \A x, b \in Event :
       ByBinding(b) \in w.reasons[x] <=> b \in w.live /\ x \in Endpoints(b)

Tracked(w) ==
  /\ CausesTracked(w)
  /\ \A x, r \in Event :
       ByRootChain(r) \in w.reasons[x] => r \in w.observed /\ IsRoot(r) /\ ~IsRoot(x)

\* A patch of the root-chain is of the root it names, and of its author.
ChainsOwned(w) ==
  \A x, r \in Event :
    ByRootChain(r) \in w.reasons[x] /\ IsPatch(x) =>
      AuthorOf(x) = AuthorOf(r) /\ Body[x].root = r

NoNewChains(w, v) ==
  \A x, r \in Event : ByRootChain(r) \in v.reasons[x] => ByRootChain(r) \in w.reasons[x]

Sound(w) == CausesTracked(w) /\ ChainsOwned(w) /\ w.live = LiveBindings(w)

Settled(w) ==
  /\ Tracked(w)
  /\ w.live = LiveBindings(w)
  /\ w.reasons = ComputeAdmission(w.observed, w.trusted)

-----------------------------------------------------------------------------
\* The three kinds of reason do not overlap, and each names one event.
LEMMA ReasonsDiffer ==
  \A x, y \in Event :
    /\ DirectTrust # ByBinding(x)
    /\ DirectTrust # ByRootChain(x)
    /\ ByBinding(x) # ByRootChain(y)
    /\ ByBinding(x) = ByBinding(y) => x = y
    /\ ByRootChain(x) = ByRootChain(y) => x = y
BY DEF DirectTrust, ByBinding, ByRootChain

\* A set of reasons is determined by which reasons of each kind it holds.
LEMMA ReasonSetsEqual ==
  ASSUME NEW S \in SUBSET Reason, NEW T \in SUBSET Reason,
         DirectTrust \in S <=> DirectTrust \in T,
         \A b \in Event : ByBinding(b) \in S <=> ByBinding(b) \in T,
         \A r \in Event : ByRootChain(r) \in S <=> ByRootChain(r) \in T
  PROVE  S = T
BY DEF Reason

\* The chain of a root holds patches and deletions, never a root.
LEMMA MembersAreNotRoots ==
  ASSUME NEW r \in Event, NEW seen \in SUBSET Event, NEW x \in RootChainMembers(r, seen)
  PROVE  x \in Event /\ ~IsRoot(x)
BY DeletionsUntypedAssumption
   DEF RootChainMembers, RootPatches, IsDeletion, IsPatch, IsRoot

\* What direct trust and the bindings credit, reason by reason.
LEMMA FirstHandIsReasons ==
  \A x : \A seen \in SUBSET Event : \A trusted :
    FirstHand(x, seen, trusted) \in SUBSET Reason
BY DEF FirstHand, Reason

\* Direct trust credits an observed event of a trusted author with that author.
LEMMA FirstHandDirect ==
  \A x : \A seen \in SUBSET Event : \A trusted :
    DirectTrust \in FirstHand(x, seen, trusted) <=> x \in seen /\ AuthorOf(x) \in trusted
BY ReasonsDiffer DEF FirstHand

\* A binding credits the endpoints it names when it is creditable.
LEMMA FirstHandBinding ==
  \A x : \A seen \in SUBSET Event : \A trusted : \A b \in Event :
    ByBinding(b) \in FirstHand(x, seen, trusted)
      <=> /\ b \in seen /\ IsBinding(b) /\ x \in Endpoints(b)
          /\ EndpointsWellTyped(b, seen)
          /\ AuthorOf(b) \in trusted /\ DeletionsOf(b, seen) = {}
BY ReasonsDiffer DEF FirstHand

\* First-hand reasons are never root-chain reasons.
LEMMA FirstHandNoChain ==
  \A x : \A seen \in SUBSET Event : \A trusted : \A r \in Event :
    ByRootChain(r) \notin FirstHand(x, seen, trusted)
BY ReasonsDiffer DEF FirstHand

\* What the oracle adds to that: root-chain reasons, and nothing else.
LEMMA OracleReasons ==
  ASSUME NEW seen \in SUBSET Event, NEW trusted, NEW x \in Event
  PROVE  /\ ComputeAdmission(seen, trusted)[x] \in SUBSET Reason
         /\ DirectTrust \in ComputeAdmission(seen, trusted)[x]
              <=> DirectTrust \in FirstHand(x, seen, trusted)
         /\ \A b \in Event :
              ByBinding(b) \in ComputeAdmission(seen, trusted)[x]
                <=> ByBinding(b) \in FirstHand(x, seen, trusted)
         /\ \A r \in Event :
              ByRootChain(r) \in ComputeAdmission(seen, trusted)[x]
                <=> /\ r \in seen /\ IsRoot(r)
                    /\ FirstHand(r, seen, trusted) # {}
                    /\ x \in RootChainMembers(r, seen)
<1> DEFINE F == FirstHand(x, seen, trusted)
           Chain == {ByRootChain(r) : r \in {q \in seen :
                       /\ IsRoot(q)
                       /\ FirstHand(q, seen, trusted) # {}
                       /\ x \in RootChainMembers(q, seen)}}
<1>1. ComputeAdmission(seen, trusted)[x] = F \cup Chain
  BY DEF ComputeAdmission
<1>2. F \in SUBSET Reason
  BY FirstHandIsReasons
<1>3. Chain \in SUBSET Reason
  BY DEF Reason
<1>6. \A r \in Event : ByRootChain(r) \notin F
  BY FirstHandNoChain
<1>7. DirectTrust \notin Chain /\ \A b \in Event : ByBinding(b) \notin Chain
  BY ReasonsDiffer
<1>8. \A r \in Event :
        ByRootChain(r) \in Chain
          <=> /\ r \in seen /\ IsRoot(r)
              /\ FirstHand(r, seen, trusted) # {}
              /\ x \in RootChainMembers(r, seen)
  BY ReasonsDiffer
<1> HIDE DEF F, Chain
<1>9. QED
  BY <1>1, <1>2, <1>3, <1>6, <1>7, <1>8 DEF F

-----------------------------------------------------------------------------
(* resync *)

\* An observed binding of a tracked state is live exactly when the oracle would
\* let it credit its endpoints.
LEMMA LiveMeansCreditable ==
  ASSUME NEW w, CausesTracked(w), NEW b \in w.observed, IsBinding(b)
  PROVE  BindingIsLive(w, b) <=> b \in LiveBindings(w)
BY DEF CausesTracked, AdmitState, BindingIsLive, LiveBindings

\* Switching bindings on and off touches binding reasons only.
LEMMA RebindReasons ==
  ASSUME NEW w, w \in AdmitState, NEW x \in Event,
         NEW dead \in SUBSET Event, NEW born \in SUBSET Event
  PROVE  /\ Rebind(w, x, dead, born) \in SUBSET Reason
         /\ DirectTrust \in Rebind(w, x, dead, born) <=> DirectTrust \in w.reasons[x]
         /\ \A r \in Event :
              ByRootChain(r) \in Rebind(w, x, dead, born) <=> ByRootChain(r) \in w.reasons[x]
         /\ \A b \in Event :
              ByBinding(b) \in Rebind(w, x, dead, born)
                <=> \/ ByBinding(b) \in w.reasons[x] /\ ~(b \in dead /\ x \in Endpoints(b))
                    \/ b \in born /\ x \in Endpoints(b)
<1>1. w.reasons[x] \in SUBSET Reason
  BY DEF AdmitState
<1> DEFINE Off == {ByBinding(b) : b \in {c \in dead : x \in Endpoints(c)}}
           On  == {ByBinding(b) : b \in {c \in born : x \in Endpoints(c)}}
<1>2. Rebind(w, x, dead, born) = (w.reasons[x] \ Off) \cup On
  BY DEF Rebind
<1>3. On \in SUBSET Reason
  BY DEF Reason
<1>4. /\ DirectTrust \notin Off /\ DirectTrust \notin On
      /\ \A r \in Event : ByRootChain(r) \notin Off /\ ByRootChain(r) \notin On
  BY ReasonsDiffer
<1>5. ASSUME NEW b \in Event
      PROVE  /\ ByBinding(b) \in Off <=> b \in dead /\ x \in Endpoints(b)
             /\ ByBinding(b) \in On <=> b \in born /\ x \in Endpoints(b)
  BY ReasonsDiffer
<1> HIDE DEF Off, On
<1>6. Rebind(w, x, dead, born) \in SUBSET Reason
  BY <1>1, <1>2, <1>3
<1>7. /\ DirectTrust \in Rebind(w, x, dead, born) <=> DirectTrust \in w.reasons[x]
      /\ \A r \in Event :
           ByRootChain(r) \in Rebind(w, x, dead, born) <=> ByRootChain(r) \in w.reasons[x]
  BY <1>2, <1>4
<1>8. ASSUME NEW b \in Event
      PROVE  ByBinding(b) \in Rebind(w, x, dead, born)
               <=> \/ ByBinding(b) \in w.reasons[x] /\ ~(b \in dead /\ x \in Endpoints(b))
                   \/ b \in born /\ x \in Endpoints(b)
  BY <1>2, <1>5
<1>9. QED
  BY <1>6, <1>7, <1>8

\* resync turns any tracked state into the one the oracle computes.
LEMMA ResyncSettles ==
  ASSUME NEW w, Tracked(w)
  PROVE  /\ Settled(Resync(w))
         /\ Resync(w).observed = w.observed
         /\ Resync(w).trusted = w.trusted
<1> DEFINE born  == {b \in w.observed \ w.live : IsBinding(b) /\ BindingIsLive(w, b)}
           dead  == {b \in w.observed \cap w.live : IsBinding(b) /\ ~BindingIsLive(w, b)}
           roots == {r \in w.observed : IsRoot(r)}
           bound(x) == Rebind(w, x, dead, born)
           admitted == {r \in roots : bound(r) # {}}
           revoked == {ByRootChain(r) : r \in roots}
           conferred(x) == {ByRootChain(r) :
                              r \in {q \in admitted : x \in RootChainMembers(q, w.observed)}}
           live == (w.live \ dead) \cup born
           reasons == [x \in Event |-> (bound(x) \ revoked) \cup conferred(x)]
           v == Resync(w)
<1>1. w \in AdmitState
  BY DEF Tracked, CausesTracked
<1>2. v = [w EXCEPT !.live = live, !.reasons = reasons]
  BY <1>1 DEF Resync, AdmitState
<1>3. v.live = live /\ v.reasons = reasons /\ v.observed = w.observed /\ v.trusted = w.trusted
  BY <1>1, <1>2 DEF AdmitState
<1>4. born \in SUBSET Event /\ dead \in SUBSET Event /\ roots \in SUBSET Event
  BY <1>1 DEF AdmitState
<1>12. ASSUME NEW x \in Event
       PROVE  /\ FirstHand(x, w.observed, w.trusted) \in SUBSET Reason
              /\ DirectTrust \in FirstHand(x, w.observed, w.trusted)
                   <=> x \in w.observed /\ AuthorOf(x) \in w.trusted
              /\ \A b \in Event :
                   ByBinding(b) \in FirstHand(x, w.observed, w.trusted)
                     <=> b \in LiveBindings(w) /\ x \in Endpoints(b)
              /\ \A r \in Event : ByRootChain(r) \notin FirstHand(x, w.observed, w.trusted)
  <2>1. w.observed \in SUBSET Event /\ w.trusted \in SUBSET Author
    BY <1>1 DEF AdmitState
  <2>2. FirstHand(x, w.observed, w.trusted) \in SUBSET Reason
    BY <2>1, FirstHandIsReasons
  <2>3. DirectTrust \in FirstHand(x, w.observed, w.trusted)
          <=> x \in w.observed /\ AuthorOf(x) \in w.trusted
    BY <2>1, FirstHandDirect
  <2>4. \A r \in Event : ByRootChain(r) \notin FirstHand(x, w.observed, w.trusted)
    BY <2>1, FirstHandNoChain
  <2>5. ASSUME NEW b \in Event
        PROVE  ByBinding(b) \in FirstHand(x, w.observed, w.trusted)
                 <=> b \in LiveBindings(w) /\ x \in Endpoints(b)
    BY <2>1, FirstHandBinding DEF LiveBindings
  <2>6. QED BY <2>2, <2>3, <2>4, <2>5
<1>5. live = LiveBindings(w)
  <2>1. ASSUME NEW b \in LiveBindings(w) PROVE b \in live
    BY <2>1, LiveMeansCreditable DEF LiveBindings, Tracked
  <2>2. ASSUME NEW b \in live PROVE b \in LiveBindings(w)
    BY <2>2, LiveMeansCreditable DEF Tracked, CausesTracked
  <2>3. QED BY <2>1, <2>2
<1>6. LiveBindings(v) = LiveBindings(w)
  BY <1>3 DEF LiveBindings
<1>7. ASSUME NEW x \in Event
      PROVE  /\ bound(x) \in SUBSET Reason
             /\ DirectTrust \in bound(x) <=> x \in w.observed /\ AuthorOf(x) \in w.trusted
             /\ \A b \in Event :
                  ByBinding(b) \in bound(x) <=> b \in LiveBindings(w) /\ x \in Endpoints(b)
             /\ \A r \in Event : ByRootChain(r) \in bound(x) => r \in roots /\ ~IsRoot(x)
  <2>1. /\ bound(x) \in SUBSET Reason
        /\ DirectTrust \in bound(x) <=> DirectTrust \in w.reasons[x]
        /\ \A r \in Event : ByRootChain(r) \in bound(x) <=> ByRootChain(r) \in w.reasons[x]
        /\ \A b \in Event :
             ByBinding(b) \in bound(x)
               <=> \/ ByBinding(b) \in w.reasons[x] /\ ~(b \in dead /\ x \in Endpoints(b))
                   \/ b \in born /\ x \in Endpoints(b)
    <3> HIDE DEF dead, born
    <3>1. QED BY <1>1, <1>4, RebindReasons
  <2> HIDE DEF bound
  <2>2. \A b \in Event :
          ByBinding(b) \in bound(x) <=> b \in live /\ x \in Endpoints(b)
    <3> HIDE DEF born, dead
    <3>1. QED BY <2>1 DEF Tracked, CausesTracked
  <2>3. QED BY <2>1, <2>2, <1>5 DEF Tracked, CausesTracked
<1>8. ASSUME NEW x \in Event
      PROVE  /\ bound(x) \ revoked = FirstHand(x, w.observed, w.trusted)
             /\ IsRoot(x) => bound(x) = FirstHand(x, w.observed, w.trusted)
  <2> DEFINE F == FirstHand(x, w.observed, w.trusted)
  <2>1. /\ F \in SUBSET Reason
        /\ DirectTrust \in F <=> x \in w.observed /\ AuthorOf(x) \in w.trusted
        /\ \A b \in Event :
             ByBinding(b) \in F <=> b \in LiveBindings(w) /\ x \in Endpoints(b)
        /\ \A r \in Event : ByRootChain(r) \notin F
    BY <1>12
  <2>2. /\ DirectTrust \notin revoked
        /\ \A b \in Event : ByBinding(b) \notin revoked
        /\ \A r \in Event : ByRootChain(r) \in revoked <=> r \in roots
    BY <1>4, ReasonsDiffer
  <2> HIDE DEF F, bound, revoked
  <2>3. bound(x) \ revoked = F
    <3> DEFINE A == bound(x) \ revoked
    <3>1. A \in SUBSET Reason
      BY <1>7
    <3>2. DirectTrust \in A <=> DirectTrust \in F
      BY <2>1, <2>2, <1>7
    <3>3. \A b \in Event : ByBinding(b) \in A <=> ByBinding(b) \in F
      BY <2>1, <2>2, <1>7
    <3>4. \A r \in Event : ByRootChain(r) \in A <=> ByRootChain(r) \in F
      BY <2>1, <2>2, <1>7
    <3> HIDE DEF A
    <3>5. A = F
      BY <2>1, <3>1, <3>2, <3>3, <3>4, ReasonSetsEqual
    <3>6. QED BY <3>5 DEF A
  <2>4. IsRoot(x) => bound(x) = F
    BY <2>1, <1>7, ReasonSetsEqual
  <2>5. QED BY <2>3, <2>4 DEF F
<1>9. reasons = ComputeAdmission(w.observed, w.trusted)
  <2>1. ASSUME NEW x \in Event
        PROVE  reasons[x] = FirstHand(x, w.observed, w.trusted) \cup conferred(x)
    <3> HIDE DEF bound, revoked, conferred
    <3>1. QED BY <1>8
  <2>2. admitted = {q \in w.observed : IsRoot(q) /\ FirstHand(q, w.observed, w.trusted) # {}}
    <3> HIDE DEF bound
    <3>1. QED BY <1>8, <1>4
  <2>3. ASSUME NEW x \in Event
        PROVE  ComputeAdmission(w.observed, w.trusted)[x]
                 = FirstHand(x, w.observed, w.trusted) \cup conferred(x)
    <3>1. {q \in admitted : x \in RootChainMembers(q, w.observed)}
            = {q \in w.observed : /\ IsRoot(q)
                                  /\ FirstHand(q, w.observed, w.trusted) # {}
                                  /\ x \in RootChainMembers(q, w.observed)}
      BY <2>2
    <3> HIDE DEF admitted
    <3>2. QED BY <3>1 DEF ComputeAdmission
  <2> HIDE DEF conferred
  <2>4. QED
    BY <2>1, <2>3 DEF ComputeAdmission
<1>10. Tracked(v)
  <2> DEFINE oracle == ComputeAdmission(w.observed, w.trusted)
  <2>1. oracle \in [Event -> SUBSET Reason]
    <3>1. \A x \in Event : oracle[x] \in SUBSET Reason
      BY <1>1, OracleReasons DEF AdmitState
    <3>2. QED BY <3>1 DEF ComputeAdmission
  <2> HIDE DEF reasons, live
  <2>2. v \in AdmitState
    BY <1>1, <1>2, <1>5, <1>9, <2>1 DEF AdmitState, LiveBindings
  <2>3. ASSUME NEW x \in Event
        PROVE  /\ DirectTrust \in oracle[x] <=> x \in w.observed /\ AuthorOf(x) \in w.trusted
               /\ \A b \in Event :
                    ByBinding(b) \in oracle[x] <=> b \in LiveBindings(w) /\ x \in Endpoints(b)
               /\ \A r \in Event :
                    ByRootChain(r) \in oracle[x] => r \in w.observed /\ IsRoot(r) /\ ~IsRoot(x)
    <3>1. w.observed \in SUBSET Event
      BY <1>1 DEF AdmitState
    <3>2. /\ DirectTrust \in oracle[x] <=> DirectTrust \in FirstHand(x, w.observed, w.trusted)
          /\ \A b \in Event :
               ByBinding(b) \in oracle[x]
                 <=> ByBinding(b) \in FirstHand(x, w.observed, w.trusted)
          /\ \A r \in Event :
               ByRootChain(r) \in oracle[x]
                 => r \in w.observed /\ IsRoot(r) /\ x \in RootChainMembers(r, w.observed)
      BY <3>1, OracleReasons
    <3>3. \A r \in Event : x \in RootChainMembers(r, w.observed) => ~IsRoot(x)
      BY <3>1, MembersAreNotRoots
    <3> HIDE DEF oracle
    <3>4. QED BY <3>2, <3>3, <1>12
  <2> HIDE DEF oracle
  <2>6. v.live \subseteq {b \in v.observed : IsBinding(b) /\ Endpoints(b) # {}}
    BY <1>3, <1>5 DEF LiveBindings
  <2>7. QED
    BY <1>3, <1>5, <1>9, <2>2, <2>3, <2>6 DEF Tracked, CausesTracked, oracle
<1>11. QED
  BY <1>3, <1>5, <1>6, <1>9, <1>10 DEF Settled

\* Whatever the batches were, resync leaves no binding live that is not creditable and
\* no patch in the root-chain of another root or author.
LEMMA ResyncIsSound ==
  ASSUME NEW w, CausesTracked(w), ChainsOwned(w)
  PROVE  Sound(Resync(w))
<1> DEFINE born  == {b \in w.observed \ w.live : IsBinding(b) /\ BindingIsLive(w, b)}
           dead  == {b \in w.observed \cap w.live : IsBinding(b) /\ ~BindingIsLive(w, b)}
           roots == {r \in w.observed : IsRoot(r)}
           bound(x) == Rebind(w, x, dead, born)
           admitted == {r \in roots : bound(r) # {}}
           revoked == {ByRootChain(r) : r \in roots}
           conferred(x) == {ByRootChain(r) :
                              r \in {q \in admitted : x \in RootChainMembers(q, w.observed)}}
           live == (w.live \ dead) \cup born
           reasons == [x \in Event |-> (bound(x) \ revoked) \cup conferred(x)]
           v == Resync(w)
<1>1. w \in AdmitState
  BY DEF CausesTracked
<1>2. v = [w EXCEPT !.live = live, !.reasons = reasons]
  BY <1>1 DEF Resync, AdmitState
<1>3. v.live = live /\ v.reasons = reasons /\ v.observed = w.observed /\ v.trusted = w.trusted
  BY <1>1, <1>2 DEF AdmitState
<1>4. /\ born \in SUBSET Event /\ dead \in SUBSET Event /\ roots \in SUBSET Event
      /\ admitted \in SUBSET Event
  BY <1>1 DEF AdmitState
<1>5. live = LiveBindings(w)
  <2>1. ASSUME NEW b \in LiveBindings(w) PROVE b \in live
    BY <2>1, LiveMeansCreditable DEF LiveBindings
  <2>2. ASSUME NEW b \in live PROVE b \in LiveBindings(w)
    BY <2>2, LiveMeansCreditable DEF CausesTracked
  <2>3. QED BY <2>1, <2>2
<1>6. LiveBindings(v) = LiveBindings(w)
  BY <1>3 DEF LiveBindings
<1>7. ASSUME NEW x \in Event
      PROVE  /\ bound(x) \in SUBSET Reason
             /\ DirectTrust \in bound(x) <=> DirectTrust \in w.reasons[x]
             /\ \A r \in Event : ByRootChain(r) \in bound(x) <=> ByRootChain(r) \in w.reasons[x]
             /\ \A b \in Event : ByBinding(b) \in bound(x) <=> b \in live /\ x \in Endpoints(b)
  <2> HIDE DEF born, dead
  <2>1. /\ bound(x) \in SUBSET Reason
        /\ DirectTrust \in bound(x) <=> DirectTrust \in w.reasons[x]
        /\ \A r \in Event : ByRootChain(r) \in bound(x) <=> ByRootChain(r) \in w.reasons[x]
        /\ \A b \in Event :
             ByBinding(b) \in bound(x)
               <=> \/ ByBinding(b) \in w.reasons[x] /\ ~(b \in dead /\ x \in Endpoints(b))
                   \/ b \in born /\ x \in Endpoints(b)
    BY <1>1, <1>4, RebindReasons
  <2> HIDE DEF bound
  <2>2. QED
    BY <2>1 DEF CausesTracked
<1>8. ASSUME NEW x \in Event
      PROVE  /\ conferred(x) \in SUBSET Reason
             /\ DirectTrust \notin revoked \cup conferred(x)
             /\ \A b \in Event : ByBinding(b) \notin revoked \cup conferred(x)
             /\ \A r \in Event :
                  ByRootChain(r) \in conferred(x) => x \in RootChainMembers(r, w.observed)
  <2> HIDE DEF roots, admitted
  <2>1. conferred(x) \in SUBSET Reason
    BY <1>4 DEF Reason
  <2>2. QED
    BY <1>4, <2>1, ReasonsDiffer
<1>9. \A x \in Event : reasons[x] = (bound(x) \ revoked) \cup conferred(x)
  OBVIOUS
<1>10. reasons \in [Event -> SUBSET Reason]
  <2> HIDE DEF bound, revoked, conferred
  <2>1. QED BY <1>7, <1>8
<1> HIDE DEF bound, revoked, conferred, live, reasons
<1>11. v \in AdmitState
  BY <1>1, <1>2, <1>5, <1>10 DEF AdmitState, LiveBindings
<1>12. v.live \subseteq {b \in v.observed : IsBinding(b) /\ Endpoints(b) # {}}
  BY <1>3, <1>5 DEF LiveBindings
<1>13. \A x \in Event :
         DirectTrust \in v.reasons[x] <=> x \in v.observed /\ AuthorOf(x) \in v.trusted
  BY <1>3, <1>7, <1>8, <1>9 DEF CausesTracked
<1>14. \A x, b \in Event : ByBinding(b) \in v.reasons[x] <=> b \in v.live /\ x \in Endpoints(b)
  BY <1>3, <1>7, <1>8, <1>9
<1>15. ASSUME NEW x \in Event, NEW r \in Event, ByRootChain(r) \in v.reasons[x], IsPatch(x)
       PROVE  AuthorOf(x) = AuthorOf(r) /\ Body[x].root = r
  <2>1. CASE ByRootChain(r) \in w.reasons[x]
    BY <1>15, <2>1 DEF ChainsOwned
  <2>2. CASE x \in RootChainMembers(r, w.observed)
    <3>1. ~IsDeletion(x)
      BY <1>15, DeletionsUntypedAssumption DEF IsDeletion, IsPatch
    <3>2. QED
      BY <2>2, <3>1 DEF RootChainMembers, RootPatches
  <2>3. QED
    BY <1>3, <1>7, <1>8, <1>9, <1>15, <2>1, <2>2
<1> HIDE DEF v
<1>16. CausesTracked(v)
  BY <1>11, <1>12, <1>13, <1>14 DEF CausesTracked
<1>17. ChainsOwned(v)
  BY <1>15 DEF ChainsOwned
<1>18. QED
  BY <1>3, <1>5, <1>6, <1>16, <1>17 DEF Sound, v

-----------------------------------------------------------------------------
(* The bodies of the four deltas *)

\* Observing a batch keeps the causes tracked: what the state holds of each event is
\* what the oracle would, but for the resync still to come.
LEMMA ObserveCauses ==
  ASSUME NEW w, CausesTracked(w), NEW events \in SUBSET Event
  PROVE  /\ CausesTracked(ObserveBody(w, events))
         /\ NoNewChains(w, ObserveBody(w, events))
         /\ w.observed \subseteq ObserveBody(w, events).observed
<1> DEFINE fresh == {e \in events \ w.observed : AuthorOf(e) \in w.trusted}
           reasons == [x \in Event |->
              IF x \in fresh THEN w.reasons[x] \cup {DirectTrust} ELSE w.reasons[x]]
           v == ObserveBody(w, events)
<1>1. w \in AdmitState
  BY DEF CausesTracked
<1>2. v = [w EXCEPT !.observed = w.observed \cup events, !.reasons = reasons]
  BY <1>1 DEF ObserveBody, AdmitState
<1>3. reasons \in [Event -> SUBSET Reason]
  BY <1>1 DEF AdmitState, Reason
<1>4. \A x \in Event :
        reasons[x] = IF x \in fresh THEN w.reasons[x] \cup {DirectTrust} ELSE w.reasons[x]
  OBVIOUS
<1> HIDE DEF reasons
<1>5. /\ v \in AdmitState
      /\ v.live = w.live /\ v.trusted = w.trusted
      /\ v.observed = w.observed \cup events /\ v.reasons = reasons
  BY <1>1, <1>2, <1>3 DEF AdmitState
<1>6. \A x \in Event :
        DirectTrust \in reasons[x] <=> x \in v.observed /\ AuthorOf(x) \in v.trusted
  BY <1>4, <1>5 DEF CausesTracked
<1>7. \A x, b \in Event :
        /\ ByBinding(b) \in reasons[x] <=> ByBinding(b) \in w.reasons[x]
        /\ ByRootChain(b) \in reasons[x] <=> ByRootChain(b) \in w.reasons[x]
  BY <1>4, ReasonsDiffer
<1> HIDE DEF v
<1>8. QED
  BY <1>5, <1>6, <1>7 DEF CausesTracked, NoNewChains, v

\* So a state that is tracked stays so.
LEMMA ObserveTracks ==
  ASSUME NEW w, Tracked(w), NEW events \in SUBSET Event
  PROVE  Tracked(ObserveBody(w, events))
BY ObserveCauses DEF Tracked, NoNewChains

\* Trusting an author keeps the causes tracked.
LEMMA TrustCauses ==
  ASSUME NEW w, CausesTracked(w), NEW authors \in SUBSET Author
  PROVE  /\ CausesTracked(TrustBody(w, authors))
         /\ NoNewChains(w, TrustBody(w, authors))
         /\ w.observed \subseteq TrustBody(w, authors).observed
<1> DEFINE newly == authors \ w.trusted
           reasons == [x \in Event |->
              IF x \in w.observed /\ AuthorOf(x) \in newly
                THEN w.reasons[x] \cup {DirectTrust} ELSE w.reasons[x]]
           v == TrustBody(w, authors)
<1>1. w \in AdmitState
  BY DEF CausesTracked
<1>2. v = [w EXCEPT !.trusted = w.trusted \cup newly, !.reasons = reasons]
  BY <1>1 DEF TrustBody, AdmitState
<1>3. reasons \in [Event -> SUBSET Reason]
  BY <1>1 DEF AdmitState, Reason
<1>4. \A x \in Event :
        reasons[x] = IF x \in w.observed /\ AuthorOf(x) \in newly
                       THEN w.reasons[x] \cup {DirectTrust} ELSE w.reasons[x]
  OBVIOUS
<1> HIDE DEF reasons
<1>5. /\ v \in AdmitState
      /\ v.live = w.live /\ v.trusted = w.trusted \cup newly
      /\ v.observed = w.observed /\ v.reasons = reasons
  BY <1>1, <1>2, <1>3 DEF AdmitState
<1>6. \A x \in Event :
        DirectTrust \in reasons[x] <=> x \in v.observed /\ AuthorOf(x) \in v.trusted
  BY <1>4, <1>5 DEF CausesTracked
<1>7. \A x, b \in Event :
        /\ ByBinding(b) \in reasons[x] <=> ByBinding(b) \in w.reasons[x]
        /\ ByRootChain(b) \in reasons[x] <=> ByRootChain(b) \in w.reasons[x]
  BY <1>4, ReasonsDiffer
<1> HIDE DEF v
<1>8. QED
  BY <1>5, <1>6, <1>7 DEF CausesTracked, NoNewChains, v

\* And with it the rest of a tracked state.
LEMMA TrustTracks ==
  ASSUME NEW w, Tracked(w), NEW authors \in SUBSET Author
  PROVE  Tracked(TrustBody(w, authors))
BY TrustCauses DEF Tracked, NoNewChains

\* Untrusting an author keeps the causes tracked.
LEMMA UntrustCauses ==
  ASSUME NEW w, CausesTracked(w), NEW authors \in SUBSET Author
  PROVE  /\ CausesTracked(UntrustBody(w, authors))
         /\ NoNewChains(w, UntrustBody(w, authors))
         /\ w.observed \subseteq UntrustBody(w, authors).observed
<1> DEFINE newly == authors \cap w.trusted
           reasons == [x \in Event |->
              IF x \in w.observed /\ AuthorOf(x) \in newly
                THEN w.reasons[x] \ {DirectTrust} ELSE w.reasons[x]]
           v == UntrustBody(w, authors)
<1>1. w \in AdmitState
  BY DEF CausesTracked
<1>2. v = [w EXCEPT !.trusted = w.trusted \ newly, !.reasons = reasons]
  BY <1>1 DEF UntrustBody, AdmitState
<1>3. reasons \in [Event -> SUBSET Reason]
  BY <1>1 DEF AdmitState
<1>4. \A x \in Event :
        reasons[x] = IF x \in w.observed /\ AuthorOf(x) \in newly
                       THEN w.reasons[x] \ {DirectTrust} ELSE w.reasons[x]
  OBVIOUS
<1> HIDE DEF reasons
<1>5. /\ v \in AdmitState
      /\ v.live = w.live /\ v.trusted = w.trusted \ newly
      /\ v.observed = w.observed /\ v.reasons = reasons
  BY <1>1, <1>2, <1>3 DEF AdmitState
<1>6. \A x \in Event :
        DirectTrust \in reasons[x] <=> x \in v.observed /\ AuthorOf(x) \in v.trusted
  BY <1>4, <1>5 DEF CausesTracked
<1>7. \A x, b \in Event :
        /\ ByBinding(b) \in reasons[x] <=> ByBinding(b) \in w.reasons[x]
        /\ ByRootChain(b) \in reasons[x] <=> ByRootChain(b) \in w.reasons[x]
  BY <1>4, ReasonsDiffer
<1> HIDE DEF v
<1>8. QED
  BY <1>5, <1>6, <1>7 DEF CausesTracked, NoNewChains, v

\* And with it the rest of a tracked state.
LEMMA UntrustTracks ==
  ASSUME NEW w, Tracked(w), NEW authors \in SUBSET Author
  PROVE  Tracked(UntrustBody(w, authors))
BY UntrustCauses DEF Tracked, NoNewChains

\* A batch that keeps roots ahead of their bindings un-cascades every admitted
\* root it removes.
LEMMA RootsFirstUncascades ==
  ASSUME NEW w, w \in AdmitState, NEW ids \in Seq(Event),
         \A i, j \in DOMAIN ids : IsRoot(ids[j]) /\ i < j => ids[j] \notin Endpoints(ids[i]),
         NEW r \in {ids[i] : i \in DOMAIN ids} \cap w.observed,
         IsRoot(r), w.reasons[r] # {}
  PROVE  r \in Uncascaded(w, ids)
<1>1. Before(ids, r) \cap {c \in Event : r \in Endpoints(c)} = {}
  <2>1. SUFFICES ASSUME NEW c \in Before(ids, r), r \in Endpoints(c) PROVE FALSE
    OBVIOUS
  <2>2. PICK i \in DOMAIN ids : c = ids[i] /\ \A k \in 1..i : ids[k] # r
    BY DEF Before
  <2>3. PICK j \in DOMAIN ids : r = ids[j]
    OBVIOUS
  <2>4. DOMAIN ids = 1..Len(ids) /\ i \in Nat /\ j \in Nat /\ 1 <= j
    OBVIOUS
  <2>5. i < j
    BY <2>2, <2>3, <2>4
  <2>6. QED
    BY <2>1, <2>2, <2>3, <2>5
<1>2. {c \in Before(ids, r) \cap w.live : r \in Endpoints(c)} = {}
  BY <1>1 DEF AdmitState
<1>3. QED
  BY <1>2 DEF Uncascaded

\* Unobserving a batch keeps the causes tracked, and takes its roots' chains along.
LEMMA UnobserveCauses ==
  ASSUME NEW w, CausesTracked(w), NEW ids \in Seq(Event)
  PROVE  /\ CausesTracked(UnobserveBody(w, ids))
         /\ UnobserveBody(w, ids).observed = w.observed \ ({ids[i] : i \in DOMAIN ids} \cap w.observed)
         /\ \A x, r \in Event : ByRootChain(r) \in UnobserveBody(w, ids).reasons[x] =>
              /\ ByRootChain(r) \in w.reasons[x]
              /\ ~(r \in Uncascaded(w, ids) /\ x \in RootChainMembers(r, w.observed))
<1> DEFINE gone  == {ids[i] : i \in DOMAIN ids} \cap w.observed
           roots == Uncascaded(w, ids)
           unbound(x) == {ByBinding(b) : b \in {c \in gone \cap w.live : x \in Endpoints(c)}}
           unchained(x) == {ByRootChain(r) :
                              r \in {q \in roots : x \in RootChainMembers(q, w.observed)}}
           kept(x) == (w.reasons[x] \ unbound(x)) \ unchained(x)
           reasons == [x \in Event |->
              IF x \in gone THEN {s \in kept(x) : s[1] = "binding"} ELSE kept(x)]
           v == UnobserveBody(w, ids)
<1>1. w \in AdmitState /\ CausesTracked(w)
  BY DEF CausesTracked
<1>2. v = [w EXCEPT !.live = w.live \ gone, !.observed = w.observed \ gone, !.reasons = reasons]
  BY <1>1 DEF UnobserveBody, AdmitState
<1>3. gone \in SUBSET Event /\ roots \in SUBSET gone
  BY <1>1 DEF AdmitState, Uncascaded
<1>4. reasons \in [Event -> SUBSET Reason]
  BY <1>1 DEF AdmitState
<1>5. \A x \in Event :
        reasons[x] = IF x \in gone THEN {s \in kept(x) : s[1] = "binding"} ELSE kept(x)
  OBVIOUS
<1> HIDE DEF reasons
<1>6. /\ v \in AdmitState
      /\ v.live = w.live \ gone /\ v.trusted = w.trusted
      /\ v.observed = w.observed \ gone /\ v.reasons = reasons
  BY <1>1, <1>2, <1>4 DEF AdmitState
<1>7. ASSUME NEW x \in Event
      PROVE  /\ DirectTrust \in kept(x) <=> DirectTrust \in w.reasons[x]
             /\ \A b \in Event :
                  ByBinding(b) \in kept(x)
                    <=> ByBinding(b) \in w.reasons[x] /\ ~(b \in gone \cap w.live /\ x \in Endpoints(b))
             /\ \A r \in Event :
                  ByRootChain(r) \in kept(x)
                    <=> /\ ByRootChain(r) \in w.reasons[x]
                        /\ ~(r \in roots /\ x \in RootChainMembers(r, w.observed))
  <2>1. /\ DirectTrust \notin unbound(x) /\ DirectTrust \notin unchained(x)
        /\ \A b \in Event : ByBinding(b) \notin unchained(x)
        /\ \A r \in Event : ByRootChain(r) \notin unbound(x)
    BY <1>3, <1>1, ReasonsDiffer DEF AdmitState
  <2>2. ASSUME NEW b \in Event
        PROVE  ByBinding(b) \in unbound(x) <=> b \in gone \cap w.live /\ x \in Endpoints(b)
    BY <1>3, ReasonsDiffer
  <2>3. ASSUME NEW r \in Event
        PROVE  ByRootChain(r) \in unchained(x)
                 <=> r \in roots /\ x \in RootChainMembers(r, w.observed)
    BY <1>3, ReasonsDiffer
  <2> HIDE DEF unbound, unchained
  <2>4. QED
    BY <2>1, <2>2, <2>3
<1> HIDE DEF kept
<1>8. \A x \in Event :
        DirectTrust \in reasons[x] <=> x \in v.observed /\ AuthorOf(x) \in v.trusted
  <2>1. DirectTrust[1] # "binding"
    BY DEF DirectTrust
  <2>2. ASSUME NEW x \in Event
        PROVE  DirectTrust \in reasons[x] <=> x \notin gone /\ DirectTrust \in kept(x)
    BY <1>5, <2>1
  <2>3. ASSUME NEW x \in Event
        PROVE  DirectTrust \in kept(x) <=> x \in w.observed /\ AuthorOf(x) \in w.trusted
    BY <1>1, <1>7 DEF CausesTracked
  <2>4. QED
    BY <1>6, <2>2, <2>3
<1>9. \A x, b \in Event :
        ByBinding(b) \in reasons[x] <=> b \in v.live /\ x \in Endpoints(b)
  <2>1. \A b \in Event : ByBinding(b)[1] = "binding"
    BY DEF ByBinding
  <2>2. ASSUME NEW x \in Event, NEW b \in Event
        PROVE  ByBinding(b) \in reasons[x] <=> ByBinding(b) \in kept(x)
    BY <1>5, <2>1
  <2>3. ASSUME NEW x \in Event, NEW b \in Event
        PROVE  ByBinding(b) \in kept(x) <=> b \in v.live /\ x \in Endpoints(b)
    BY <1>1, <1>6, <1>7 DEF CausesTracked
  <2>4. QED
    BY <2>2, <2>3
<1>10. ASSUME NEW x \in Event, NEW r \in Event, ByRootChain(r) \in reasons[x]
       PROVE  ByRootChain(r) \in w.reasons[x] /\ ~(r \in roots /\ x \in RootChainMembers(r, w.observed))
  <2>1. ByRootChain(r)[1] # "binding"
    BY DEF ByRootChain
  <2>2. ByRootChain(r) \in kept(x)
    BY <1>5, <1>10, <2>1
  <2>3. QED
    BY <1>7, <2>2
<1>11. v.live \subseteq {b \in v.observed : IsBinding(b) /\ Endpoints(b) # {}}
  BY <1>1, <1>6 DEF CausesTracked
<1>12. CausesTracked(v)
  <2> HIDE DEF v
  <2>1. QED
    BY <1>6, <1>8, <1>9, <1>11 DEF CausesTracked
<1>13. QED
  BY <1>6, <1>10, <1>12

\* Unobserving a batch with roots first keeps the state tracked.
LEMMA UnobserveTracks ==
  ASSUME NEW w, Settled(w), NEW ids \in Seq(Event),
         \A i, j \in DOMAIN ids : IsRoot(ids[j]) /\ i < j => ids[j] \notin Endpoints(ids[i])
  PROVE  Tracked(UnobserveBody(w, ids))
<1> DEFINE gone == {ids[i] : i \in DOMAIN ids} \cap w.observed
           v == UnobserveBody(w, ids)
<1>1. w \in AdmitState /\ Tracked(w)
  BY DEF Settled, Tracked, CausesTracked
<1>2. /\ CausesTracked(v) /\ v.observed = w.observed \ gone
      /\ \A x, r \in Event : ByRootChain(r) \in v.reasons[x] =>
           /\ ByRootChain(r) \in w.reasons[x]
           /\ ~(r \in Uncascaded(w, ids) /\ x \in RootChainMembers(r, w.observed))
  BY <1>1, UnobserveCauses DEF Tracked
<1> HIDE DEF v
<1>3. ASSUME NEW x \in Event, NEW r \in Event, ByRootChain(r) \in v.reasons[x]
      PROVE  r \in v.observed /\ IsRoot(r) /\ ~IsRoot(x)
  <2>1. /\ ByRootChain(r) \in w.reasons[x]
        /\ ~(r \in Uncascaded(w, ids) /\ x \in RootChainMembers(r, w.observed))
    BY <1>2, <1>3
  <2>2. r \in w.observed /\ IsRoot(r) /\ ~IsRoot(x)
    BY <1>1, <2>1 DEF Tracked
  <2>3. x \in RootChainMembers(r, w.observed) /\ w.reasons[r] # {}
    <3>1. w.observed \in SUBSET Event /\ w.trusted \in SUBSET Author
      BY <1>1 DEF AdmitState
    <3>2. w.reasons = ComputeAdmission(w.observed, w.trusted)
      BY DEF Settled
    <3>3. x \in RootChainMembers(r, w.observed) /\ FirstHand(r, w.observed, w.trusted) # {}
      BY <2>1, <3>1, <3>2, OracleReasons
    <3>4. FirstHand(r, w.observed, w.trusted) \subseteq ComputeAdmission(w.observed, w.trusted)[r]
      BY DEF ComputeAdmission
    <3>5. QED
      BY <3>2, <3>3, <3>4
  <2>4. r \notin gone
    BY <1>1, <2>1, <2>2, <2>3, RootsFirstUncascades
  <2>5. QED
    BY <1>2, <2>2, <2>4
<1>4. QED
  BY <1>2, <1>3 DEF Tracked, v

-----------------------------------------------------------------------------
(* The theorems *)

\* The empty state is the one the oracle computes for no events.
LEMMA EmptyStateSettled == Settled(EmptyAdmitState)
<1> DEFINE w == EmptyAdmitState
<1>1. w \in AdmitState /\ w.live = {} /\ w.observed = {} /\ w.trusted = {}
  BY DEF EmptyAdmitState, AdmitState
<1>2. \A x \in Event : w.reasons[x] = {}
  BY DEF EmptyAdmitState
<1>3. LiveBindings(w) = {}
  BY <1>1 DEF LiveBindings
<1>4. \A x \in Event : ComputeAdmission({}, {})[x] = {}
  BY DEF ComputeAdmission, FirstHand
<1>5. w.reasons = ComputeAdmission({}, {})
  BY <1>2, <1>4 DEF EmptyAdmitState, ComputeAdmission
<1>6. Tracked(w)
  BY <1>1, <1>2 DEF Tracked, CausesTracked
<1>7. QED
  BY <1>1, <1>3, <1>5, <1>6 DEF Settled

\* Every delta ends, after its resync, in the state the oracle computes.
LEMMA StepSettles ==
  ASSUME RootsFirst, Settled(admit), [Next]_admit
  PROVE  Settled(admit')
<1>1. ASSUME NEW events \in ObserveBatches, Observe(events) PROVE Settled(admit')
  BY <1>1, BatchesAssumption, ObserveTracks, ResyncSettles DEF Settled, Observe, ApplyObserve
<1>2. ASSUME NEW ids \in UnobserveBatches, Unobserve(ids) PROVE Settled(admit')
  <2>1. Tracked(UnobserveBody(admit, ids))
    BY BatchesAssumption, UnobserveTracks DEF RootsFirst
  <2>2. QED
    BY <1>2, <2>1, ResyncSettles DEF Unobserve, ApplyUnobserve
<1>3. ASSUME NEW authors \in SUBSET Author, Trust(authors) PROVE Settled(admit')
  BY <1>3, TrustTracks, ResyncSettles DEF Settled, Trust, ApplyTrust
<1>4. ASSUME NEW authors \in SUBSET Author, Untrust(authors) PROVE Settled(admit')
  BY <1>4, UntrustTracks, ResyncSettles DEF Settled, Untrust, ApplyUntrust
<1>5. CASE UNCHANGED admit
  BY <1>5
<1>6. QED
  BY <1>1, <1>2, <1>3, <1>4, <1>5 DEF Next

\* Every reachable state is settled: the inductive invariant of the two
\* theorems below.
LEMMA AlwaysSettled == ASSUME RootsFirst PROVE Spec => []Settled(admit)
<1>1. Init => Settled(admit)
  BY EmptyStateSettled DEF Init
<1>2. Settled(admit) /\ [Next]_admit => Settled(admit)'
  BY StepSettles
<1>3. QED
  BY <1>1, <1>2, PTL DEF Spec

\* The bodies of the deltas add no root-chain reason, and so give none away.
LEMMA OwnedChainsKept ==
  ASSUME NEW v, NEW w, ChainsOwned(w), NoNewChains(w, v)
  PROVE  ChainsOwned(v)
BY DEF ChainsOwned, NoNewChains

\* Each delta leaves a sound state, for every batch.
LEMMA ObserveIsSound ==
  ASSUME NEW w, Sound(w), NEW events \in SUBSET Event
  PROVE  Sound(ApplyObserve(w, events))
BY ObserveCauses, OwnedChainsKept, ResyncIsSound DEF Sound, ApplyObserve

LEMMA UnobserveIsSound ==
  ASSUME NEW w, Sound(w), NEW ids \in Seq(Event)
  PROVE  Sound(ApplyUnobserve(w, ids))
<1>1. CausesTracked(UnobserveBody(w, ids)) /\ NoNewChains(w, UnobserveBody(w, ids))
  BY UnobserveCauses DEF Sound, NoNewChains
<1>2. QED
  BY <1>1, OwnedChainsKept, ResyncIsSound DEF Sound, ApplyUnobserve

LEMMA TrustIsSound ==
  ASSUME NEW w, Sound(w), NEW authors \in SUBSET Author
  PROVE  Sound(ApplyTrust(w, authors)) /\ Sound(ApplyUntrust(w, authors))
BY TrustCauses, UntrustCauses, OwnedChainsKept, ResyncIsSound
   DEF Sound, ApplyTrust, ApplyUntrust

LEMMA EmptyIsSound == Sound(EmptyAdmitState)
<1>1. \A x \in Event : EmptyAdmitState.reasons[x] = {}
  BY DEF EmptyAdmitState
<1>2. QED
  BY <1>1, EmptyStateSettled DEF Settled, Tracked, Sound, ChainsOwned

\* Every reachable state is sound, whatever the batches.
LEMMA AlwaysSound == Spec => []Sound(admit)
<1>1. Init => Sound(admit)
  BY EmptyIsSound DEF Init
<1>2. ASSUME Sound(admit), [Next]_admit PROVE Sound(admit')
  BY <1>2, BatchesAssumption, ObserveIsSound, UnobserveIsSound, TrustIsSound
     DEF Next, Observe, Unobserve, Trust, Untrust
<1>3. Sound(admit) /\ [Next]_admit => Sound(admit)'
  BY <1>2
<1>4. QED
  BY <1>1, <1>3, PTL DEF Spec

\* What admits an observed patch of a foreign author is direct trust, or nothing.
LEMMA ForeignPatchReasons ==
  ASSUME NEW w, Sound(w), NEW p \in w.observed, IsPatch(p),
         AuthorOf(p) # AuthorOf(Body[p].root)
  PROVE  /\ w.reasons[p] \subseteq {DirectTrust}
         /\ w.reasons[p] # {} <=> AuthorOf(p) \in w.trusted
<1>1. w \in AdmitState /\ CausesTracked(w)
  BY DEF Sound, CausesTracked
<1>2. p \in Event /\ w.reasons[p] \in SUBSET Reason
  BY <1>1 DEF AdmitState
<1>3. ASSUME NEW b \in Event PROVE ByBinding(b) \notin w.reasons[p]
  <2>1. SUFFICES ASSUME b \in LiveBindings(w), p \in Endpoints(b) PROVE FALSE
    BY <1>2, <1>3 DEF Sound, CausesTracked
  <2>2. EndpointsWellTyped(b, w.observed) /\ (p = Body[b].root \/ p = Body[b].link)
    BY <2>1 DEF LiveBindings, Endpoints
  <2>3. QED
    BY <2>2 DEF EndpointsWellTyped, IsPatch
<1>4. ASSUME NEW r \in Event PROVE ByRootChain(r) \notin w.reasons[p]
  BY <1>2 DEF Sound, ChainsOwned
<1>5. w.reasons[p] \subseteq {DirectTrust}
  BY <1>2, <1>3, <1>4 DEF Reason
<1>6. DirectTrust \in w.reasons[p] <=> AuthorOf(p) \in w.trusted
  BY <1>1, <1>2 DEF CausesTracked
<1>7. QED
  BY <1>5, <1>6

\* The state of applyDelta keeps its type and its live table holds observed
\* bindings only, whatever the events and the batches.
THEOREM TypeCorrect == Spec => []TypeOK
<1>1. Sound(admit) => TypeOK
  BY DEF Sound, CausesTracked, TypeOK
<1>2. QED
  BY <1>1, AlwaysSound, PTL

\* Gate item AG1 for every set of events, authors and batches in which no list
\* names a binding ahead of its root: the incremental reasons are the full
\* recompute's in every reachable state.
THEOREM IncrementalIsRecompute == ASSUME RootsFirst PROVE Spec => []AgreesWithOracle
<1>1. Settled(admit) => AgreesWithOracle
  BY DEF Settled, AgreesWithOracle
<1>2. QED
  BY <1>1, AlwaysSettled, PTL

\* A foreign patch is never admitted through a binding or a root-chain (OV-7,
\* TR-6), whatever the batches.
THEOREM ForeignPatchesNeedTrust == Spec => []ForeignPatchByTrustOnly
<1>1. Sound(admit) => ForeignPatchByTrustOnly
  BY ForeignPatchReasons DEF ForeignPatchByTrustOnly
<1>2. QED
  BY <1>1, AlwaysSound, PTL

\* A settled state is determined by what is observed and who is trusted.
LEMMA SettledIsDetermined ==
  ASSUME NEW v, NEW w, Settled(v), Settled(w),
         v.observed = w.observed, v.trusted = w.trusted
  PROVE  v = w
<1>1. v \in AdmitState /\ w \in AdmitState
  BY DEF Settled, Tracked, CausesTracked
<1>2. v.live = w.live
  BY DEF Settled, LiveBindings
<1>3. v.reasons = w.reasons
  BY DEF Settled
<1>4. QED
  BY <1>1, <1>2, <1>3 DEF AdmitState

\* Gate item AG2 at every reachable state: observing new events and unobserving
\* them, or trusting an author and untrusting it, restores the exact state.
THEOREM UndoIsExact == ASSUME RootsFirst PROVE Spec => []UndoRestores
<1>1. ASSUME Settled(admit), NEW ids \in UnobserveBatches,
             {ids[i] : i \in DOMAIN ids} \cap admit.observed = {}
      PROVE  ApplyUnobserve(ApplyObserve(admit, {ids[i] : i \in DOMAIN ids}), ids) = admit
  <2> DEFINE events == {ids[i] : i \in DOMAIN ids}
             v == ApplyObserve(admit, events)
             u == ApplyUnobserve(v, ids)
  <2>1. ids \in Seq(Event) /\ events \in SUBSET Event
    BY BatchesAssumption
  <2>2. Tracked(admit) /\ admit \in AdmitState
    BY <1>1 DEF Settled, Tracked, CausesTracked
  <2> HIDE DEF events
  <2>3. /\ ObserveBody(admit, events).observed = admit.observed \cup events
        /\ ObserveBody(admit, events).trusted = admit.trusted
    BY <2>2 DEF ObserveBody, AdmitState
  <2>4. Settled(v) /\ v.observed = admit.observed \cup events /\ v.trusted = admit.trusted
    BY <2>1, <2>2, <2>3, ObserveTracks, ResyncSettles DEF ApplyObserve
  <2> HIDE DEF v
  <2>5. v \in AdmitState
    BY <2>4 DEF Settled, Tracked, CausesTracked
  <2>6. /\ UnobserveBody(v, ids).observed = v.observed \ (events \cap v.observed)
        /\ UnobserveBody(v, ids).trusted = v.trusted
    BY <2>5 DEF UnobserveBody, AdmitState, events
  <2>7. Tracked(UnobserveBody(v, ids))
    BY <2>1, <2>4, UnobserveTracks DEF RootsFirst
  <2>8. Settled(u) /\ u.observed = v.observed \ events /\ u.trusted = admit.trusted
    BY <2>4, <2>6, <2>7, ResyncSettles DEF ApplyUnobserve
  <2>9. u.observed = admit.observed
    BY <1>1, <2>4, <2>8 DEF events
  <2>10. u = admit
    BY <1>1, <2>8, <2>9, SettledIsDetermined
  <2>11. QED
    BY <2>10 DEF u, v, events
<1>2. ASSUME Settled(admit), NEW a \in Author \ admit.trusted
      PROVE  ApplyUntrust(ApplyTrust(admit, {a}), {a}) = admit
  <2> DEFINE v == ApplyTrust(admit, {a})
             u == ApplyUntrust(v, {a})
  <2>1. Tracked(admit) /\ admit \in AdmitState
    BY <1>2 DEF Settled, Tracked, CausesTracked
  <2>2. /\ TrustBody(admit, {a}).observed = admit.observed
        /\ TrustBody(admit, {a}).trusted = admit.trusted \cup {a}
    BY <2>1, <1>2 DEF TrustBody, AdmitState
  <2>3. {a} \in SUBSET Author
    OBVIOUS
  <2>4. Settled(v) /\ v.observed = admit.observed /\ v.trusted = admit.trusted \cup {a}
    BY <2>1, <2>2, <2>3, TrustTracks, ResyncSettles DEF ApplyTrust
  <2> HIDE DEF v
  <2>5. v \in AdmitState /\ Tracked(v)
    BY <2>4 DEF Settled, Tracked, CausesTracked
  <2>6. /\ UntrustBody(v, {a}).observed = v.observed
        /\ UntrustBody(v, {a}).trusted = v.trusted \ {a}
    BY <2>4, <2>5 DEF UntrustBody, AdmitState
  <2>7. Settled(u) /\ u.observed = admit.observed /\ u.trusted = admit.trusted
    BY <1>2, <2>3, <2>4, <2>5, <2>6, UntrustTracks, ResyncSettles DEF ApplyUntrust
  <2>8. u = admit
    BY <1>2, <2>7, SettledIsDetermined
  <2>9. QED
    BY <2>8 DEF u, v
<1>3. Settled(admit) => UndoRestores
  BY <1>1, <1>2 DEF UndoRestores
<1>4. QED
  BY <1>3, AlwaysSettled, PTL
=============================================================================
