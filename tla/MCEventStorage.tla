---------------------------- MODULE MCEventStorage ----------------------------
(***************************************************************************)
(* An instance of EventStorage for TLC: the product a in two copies, the   *)
(* patch b on it in two copies of different authors, the deletion d of a   *)
(* and b in two copies, and the deletion k of d and b.                     *)
(***************************************************************************)
EXTENDS EventStorage, Naturals

CONSTANTS a1, a2, b1, b2, d1, d2, k1, a, b, d, k, ann, bob

copy(x, who, kd, ts, is, es) ==
  [id |-> x, author |-> who, kind |-> kd, t |-> ts, i |-> is, e |-> es]

MCCopy == {a1, a2, b1, b2, d1, d2, k1}

MCFields ==
  [c \in MCCopy |->
     CASE c = a1 -> copy(a, ann, 1, {"fabric", "product"}, {"cpe"}, {})
       [] c = a2 -> copy(a, ann, 1, {"fabric"}, {}, {})
       [] c = b1 -> copy(b, ann, 1, {"fabric", "patch"}, {}, {a})
       [] c = b2 -> copy(b, bob, 1, {"fabric", "product", "patch"}, {"cpe"}, {d})
       [] c = d1 -> copy(d, ann, 5, {"fabric"}, {}, {a, b})
       [] c = d2 -> copy(d, bob, 5, {}, {}, {b})
       [] c = k1 -> copy(k, ann, 5, {}, {}, {d, b})]

MCFilter ==
  [ids : {NoKey, {a, d}}, kinds : {NoKey, {1}, {5}}, authors : {NoKey, {ann}},
   t : {NoKey, {"product"}, {"product", "fabric"}}, i : {NoKey, {"cpe"}},
   e : {NoKey, {a}, {b, d}}]
=============================================================================
