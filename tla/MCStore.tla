------------------------------- MODULE MCStore -------------------------------
(***************************************************************************)
(* Instances of Store for TLC.  A configuration picks one of the universes *)
(* below as Body; the events a universe does not define stay out of it.    *)
(***************************************************************************)
EXTENDS StoreLoop, TLC

CONSTANTS R, P, Q, S, F, D, B, N, G, X, ann, bob

ev(a, t, rt, rp, lk) ==
  [author |-> a, deletes |-> FALSE, type |-> t, root |-> rt, reply |-> rp,
   link |-> lk, refs |-> {rt, rp, lk} \ {NoEvent}, self |-> "ok"]

product(a)       == ev(a, "product", NoEvent, NoEvent, NoEvent)
metadata(a)      == ev(a, "metadata", NoEvent, NoEvent, NoEvent)
patch(a, rt, rp) == ev(a, "patch", rt, rp, NoEvent)
deletion(a, rs) ==
  [author |-> a, deletes |-> TRUE, type |-> "none", root |-> NoEvent,
   reply |-> NoEvent, link |-> NoEvent, refs |-> rs, self |-> "foreign"]

\* A chain and what hangs on it: R <- P <- Q and the sibling S of Q, which halts;
\* the overlay F on P; the deletion D of P and F, which F does not heed; the
\* binding B of R and F, and the patch N of the author, which replies to B and so
\* waits for an event that is no patch.
ChainBody ==
     (R :> product(ann))
  @@ (P :> patch(ann, R, R))  @@ (Q :> patch(ann, R, P))  @@ (S :> patch(ann, R, P))
  @@ (F :> patch(bob, R, P))  @@ (D :> deletion(ann, {P, F}))
  @@ (B :> ev(bob, "binding", R, NoEvent, F))  @@ (N :> patch(ann, R, B))

\* Verdicts: the binding X of P and R, ill typed at both ends; the patch Q of
\* bob on R replies to the foreign F; G has the patch P for its root; D deletes P.
Verdicts ==
     (R :> product(ann))
  @@ (P :> patch(ann, R, R))  @@ (F :> patch(bob, R, P))
  @@ (Q :> patch(bob, R, F))  @@ (G :> patch(bob, P, R))
  @@ (X :> ev(bob, "binding", P, NoEvent, R))
  @@ (D :> deletion(ann, {P}))

VerdictBody == [e \in Event |-> Verdicts[e]]

MCAuthor == {ann, bob}

MCContent == {"v0", "v1", "v2"}

MCRootContent == [r \in Event |-> "v0"]

\* A patch advances the content by one version; S fails its pre-validation on
\* every content.
MCEffect ==
  [p \in Event |-> [c \in Content |->
     IF p = S \/ c = "v2" THEN "halt"
     ELSE IF c = "v0" THEN "v1" ELSE "v2"]]

Singles  == {{e} : e \in Event}
UpToTwo  == {s \in SUBSET Event : Cardinality(s) \in 1..2}
Some     == {<<P>>, <<F>>, <<B>>}
OneByOne == {<<e>> : e \in Event}
EachAuthor == {{ann}, {bob}}
=============================================================================
