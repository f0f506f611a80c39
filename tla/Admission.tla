------------------------------ MODULE Admission ------------------------------
(***************************************************************************)
(* Trust and admission: packages/core/src/admit.ts.  ApplyObserve,         *)
(* ApplyUnobserve, ApplyTrust and ApplyUntrust are the four deltas of      *)
(* applyDelta, each ending in Resync as the code's do; ComputeAdmission is *)
(* the full recompute the code keeps as an oracle.  One applyDelta call is *)
(* one step: the function is synchronous.                                  *)
(***************************************************************************)
EXTENDS Fabric, Naturals, Sequences

CONSTANTS
  ObserveBatches,   \* the sets of events an observe delta may carry
  UnobserveBatches  \* the id lists an unobserve delta may carry

ASSUME BatchesAssumption ==
  ObserveBatches \subseteq SUBSET Event /\ UnobserveBatches \subseteq Seq(Event)

VARIABLE admit      \* the AdmitState threaded through applyDelta

-----------------------------------------------------------------------------
(* Reasons *)

DirectTrust    == <<"direct-trust", NoEvent>>
ByBinding(b)   == <<"binding", b>>
ByRootChain(r) == <<"root-chain", r>>

Reason ==
  {DirectTrust} \cup {ByBinding(b) : b \in Event} \cup {ByRootChain(r) : r \in Event}

AdmitState ==
  [reasons : [Event -> SUBSET Reason], live : SUBSET Event,
   trusted : SUBSET Author, observed : SUBSET Event]

EmptyAdmitState ==
  [reasons |-> [x \in Event |-> {}], live |-> {}, trusted |-> {}, observed |-> {}]

-----------------------------------------------------------------------------
(* Predicates the oracle and the incremental path share *)

\* BD-3/BD-4 for the endpoints that have arrived; the others stay creditable.
EndpointsWellTyped(b, seen) ==
  /\ Body[b].root \in seen => Body[Body[b].root].type = "product"
  /\ Body[b].link \in seen => Body[Body[b].link].type = "metadata"

\* A fault: without the author check, a foreign patch is of the root-chain.
AnyonesRootPatches(r, seen) == {p \in seen : IsPatch(p) /\ Body[p].root = r}

RootPatches(r, seen) ==
  {p \in seen : IsPatch(p) /\ AuthorOf(p) = AuthorOf(r) /\ Body[p].root = r}

\* TR-5: the root-author patches of r, and the root-author deletions that name
\* r or one of those patches.
RootChainMembers(r, seen) ==
  RootPatches(r, seen)
    \cup {d \in seen : /\ IsDeletion(d)
                       /\ AuthorOf(d) = AuthorOf(r)
                       /\ Body[d].refs \cap (RootPatches(r, seen) \cup {r}) # {}}

-----------------------------------------------------------------------------
(* The oracle *)

\* TR-2, then TR-3/TR-4: what direct trust and the bindings credit to x.
FirstHand(x, seen, trusted) ==
  {s \in {DirectTrust} : x \in seen /\ AuthorOf(x) \in trusted}
    \cup {ByBinding(b) : b \in {c \in seen :
            /\ IsBinding(c)
            /\ x \in Endpoints(c)
            /\ EndpointsWellTyped(c, seen)
            /\ AuthorOf(c) \in trusted
            /\ DeletionsOf(c, seen) = {}}}

\* TR-5: an admitted root extends its admission to its root-chain.
ComputeAdmission(seen, trusted) ==
  [x \in Event |->
     FirstHand(x, seen, trusted)
       \cup {ByRootChain(r) : r \in {q \in seen :
               /\ IsRoot(q)
               /\ FirstHand(q, seen, trusted) # {}
               /\ x \in RootChainMembers(q, seen)}}]

-----------------------------------------------------------------------------
(* resync *)

\* A fault: the retraction of the binding is not looked for.
UnretractedBindingIsLive(w, b) ==
  /\ DirectTrust \in w.reasons[b]
  /\ Endpoints(b) # {}
  /\ EndpointsWellTyped(b, w.observed)

BindingIsLive(w, b) ==
  /\ DirectTrust \in w.reasons[b]
  /\ Endpoints(b) # {}
  /\ EndpointsWellTyped(b, w.observed)
  /\ DeletionsOf(b, w.observed) = {}

\* The reasons of x once the bindings of `dead` withdraw theirs and those of
\* `born` add theirs.
Rebind(w, x, dead, born) ==
  (w.reasons[x] \ {ByBinding(b) : b \in {c \in dead : x \in Endpoints(c)}})
    \cup {ByBinding(b) : b \in {c \in born : x \in Endpoints(c)}}

\* Every observed binding is switched on or off against the live table, so it
\* credits once per transition; then each observed root re-confers or revokes
\* its root-chain reason on every event.
Resync(w) ==
  LET born  == {b \in w.observed \ w.live : IsBinding(b) /\ BindingIsLive(w, b)}
      dead  == {b \in w.observed \cap w.live : IsBinding(b) /\ ~BindingIsLive(w, b)}
      roots == {r \in w.observed : IsRoot(r)}
      admitted == {r \in roots : Rebind(w, r, dead, born) # {}}
  IN [w EXCEPT
        !.live = (@ \ dead) \cup born,
        !.reasons = [x \in Event |->
          (Rebind(w, x, dead, born) \ {ByRootChain(r) : r \in roots})
            \cup {ByRootChain(r) :
                    r \in {q \in admitted : x \in RootChainMembers(q, w.observed)}}]]

-----------------------------------------------------------------------------
(* applyDelta, before its final resync *)

ObserveBody(w, events) ==
  LET fresh == {e \in events \ w.observed : AuthorOf(e) \in w.trusted}
  IN [w EXCEPT
        !.observed = @ \cup events,
        !.reasons = [x \in Event |->
           IF x \in fresh THEN w.reasons[x] \cup {DirectTrust} ELSE w.reasons[x]]]

\* The ids the loop has handled when it reaches x.
Before(ids, x) == {ids[i] : i \in {j \in DOMAIN ids : \A k \in 1..j : ids[k] # x}}

\* A fault: the root-chain a departing root conferred is never withdrawn.
NeverUncascaded(w, ids) == {}

\* The roots of the batch that are still admitted when their turn comes: a
\* binding earlier in the list has already withdrawn its reason.
Uncascaded(w, ids) ==
  {r \in {ids[i] : i \in DOMAIN ids} \cap w.observed :
     /\ IsRoot(r)
     /\ w.reasons[r] \ {ByBinding(b) :
          b \in {c \in Before(ids, r) \cap w.live : r \in Endpoints(c)}} # {}}

\* A fault: the events go, and what they credited stays.
ForgetfulUnobserveBody(w, ids) ==
  [w EXCEPT !.observed = @ \ {ids[i] : i \in DOMAIN ids}]

UnobserveBody(w, ids) ==
  LET gone  == {ids[i] : i \in DOMAIN ids} \cap w.observed
      roots == Uncascaded(w, ids)
      kept(x) == (w.reasons[x] \ {ByBinding(b) :
                      b \in {c \in gone \cap w.live : x \in Endpoints(c)}})
                   \ {ByRootChain(r) :
                        r \in {q \in roots : x \in RootChainMembers(q, w.observed)}}
  IN [w EXCEPT
        !.live = @ \ gone,
        !.observed = @ \ gone,
        !.reasons = [x \in Event |->
           IF x \in gone THEN {s \in kept(x) : s[1] = "binding"} ELSE kept(x)]]

TrustBody(w, authors) ==
  LET newly == authors \ w.trusted
  IN [w EXCEPT
        !.trusted = @ \cup newly,
        !.reasons = [x \in Event |->
           IF x \in w.observed /\ AuthorOf(x) \in newly
             THEN w.reasons[x] \cup {DirectTrust} ELSE w.reasons[x]]]

UntrustBody(w, authors) ==
  LET newly == authors \cap w.trusted
  IN [w EXCEPT
        !.trusted = @ \ newly,
        !.reasons = [x \in Event |->
           IF x \in w.observed /\ AuthorOf(x) \in newly
             THEN w.reasons[x] \ {DirectTrust} ELSE w.reasons[x]]]

ApplyObserve(w, events)  == Resync(ObserveBody(w, events))
ApplyUnobserve(w, ids)   == Resync(UnobserveBody(w, ids))
ApplyTrust(w, authors)   == Resync(TrustBody(w, authors))
ApplyUntrust(w, authors) == Resync(UntrustBody(w, authors))

-----------------------------------------------------------------------------
(* The specification *)

Init == admit = EmptyAdmitState

Observe(events)  == admit' = ApplyObserve(admit, events)
Unobserve(ids)   == admit' = ApplyUnobserve(admit, ids)
Trust(authors)   == admit' = ApplyTrust(admit, authors)
Untrust(authors) == admit' = ApplyUntrust(admit, authors)

Next ==
  \/ \E events \in ObserveBatches : Observe(events)
  \/ \E ids \in UnobserveBatches : Unobserve(ids)
  \/ \E authors \in SUBSET Author : Trust(authors)
  \/ \E authors \in SUBSET Author : Untrust(authors)

Spec == Init /\ [][Next]_admit

-----------------------------------------------------------------------------
(* Properties *)

\* The state has its type, and only observed bindings are in the live table.
TypeOK ==
  /\ admit \in AdmitState
  /\ admit.live \subseteq {b \in admit.observed : IsBinding(b)}

\* Whatever sequence of deltas led here, the incrementally maintained reasons
\* are those of a full recompute over what is observed and trusted now: no
\* admission sticks after its cause is gone and none is lost with a cause left
\* (D23, D29, gate item AG1).
AgreesWithOracle ==
  admit.reasons = ComputeAdmission(admit.observed, admit.trusted)

\* An observed patch by someone other than its observed root's author is
\* admitted by direct trust in its own author or not at all (OV-7, TR-6), even
\* when a binding named its id before it arrived.
ForeignPatchByTrustOnly ==
  \A p \in admit.observed :
    (/\ IsPatch(p)
     /\ Body[p].root \in admit.observed
     /\ AuthorOf(p) # AuthorOf(Body[p].root))
      => admit.reasons[p] \subseteq {DirectTrust}

\* A delta undone at once leaves no trace: observing events that were not there
\* and unobserving the same list, or trusting an author and untrusting it,
\* restores the exact state (invertDelta, gate item AG2).
UndoRestores ==
  /\ \A ids \in UnobserveBatches :
       LET events == {ids[i] : i \in DOMAIN ids}
       IN events \cap admit.observed = {} =>
            ApplyUnobserve(ApplyObserve(admit, events), ids) = admit
  /\ \A a \in Author \ admit.trusted :
       ApplyUntrust(ApplyTrust(admit, {a}), {a}) = admit

\* The batches for which unobserving is exact: no binding is listed before a
\* root it is an endpoint reason of.
RootsFirst ==
  \A ids \in UnobserveBatches : \A i, j \in DOMAIN ids :
    IsRoot(ids[j]) /\ i < j => ids[j] \notin Endpoints(ids[i])
=============================================================================
