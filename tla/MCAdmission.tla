----------------------------- MODULE MCAdmission -----------------------------
(***************************************************************************)
(* Instances of Admission for TLC.                                         *)
(*                                                                         *)
(*   R   product of ann          M    metadata of bob                      *)
(*   B   binding of cat, R - M   C    binding of bob, P - M (ill typed     *)
(*                                    once the patch P arrives)            *)
(*   P   patch of ann on R       F    patch of cat on R (foreign)          *)
(*   D   deletion of B by cat    K    deletion of P by ann                 *)
(***************************************************************************)
EXTENDS Admission, TLC

CONSTANTS R, M, B, C, P, F, D, K, ann, bob, cat, MaxBatch

MCBody ==
  LET ev(a, del, t, rt, rp, lk, rs) ==
        [author |-> a, deletes |-> del, type |-> t, root |-> rt, reply |-> rp,
         link |-> lk, refs |-> rs, self |-> IF del THEN "foreign" ELSE "ok"]
  IN (R :> ev(ann, FALSE, "product", NoEvent, NoEvent, NoEvent, {}))
  @@ (M :> ev(bob, FALSE, "metadata", NoEvent, NoEvent, NoEvent, {}))
  @@ (B :> ev(cat, FALSE, "binding", R, NoEvent, M, {R, M}))
  @@ (C :> ev(bob, FALSE, "binding", P, NoEvent, M, {P, M}))
  @@ (P :> ev(ann, FALSE, "patch", R, R, NoEvent, {R}))
  @@ (F :> ev(cat, FALSE, "patch", R, R, NoEvent, {R}))
  @@ (D :> ev(cat, TRUE, "none", NoEvent, NoEvent, NoEvent, {B}))
  @@ (K :> ev(ann, TRUE, "none", NoEvent, NoEvent, NoEvent, {P}))

MCEvent  == {R, M, B, C, P, F, D, K}
MCAuthor == {ann, bob, cat}

MCObserveBatches == {s \in SUBSET MCEvent : Cardinality(s) \in 1..2}

\* Every list of at most MaxBatch distinct ids.
AllBatches ==
  {ids \in UNION {[1..n -> MCEvent] : n \in 1..MaxBatch} :
     \A i, j \in DOMAIN ids : ids[i] = ids[j] => i = j}

\* ... with no binding ahead of a root it is bound to.
RootsFirstBatches ==
  {ids \in AllBatches : \A i, j \in DOMAIN ids :
     i < j /\ MCBody[ids[j]].type \in {"product", "metadata"}
       => ids[j] \notin {MCBody[ids[i]].root, MCBody[ids[i]].link}}
=============================================================================
