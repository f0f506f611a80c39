----------------------------- MODULE MCRelayStore -----------------------------
(***************************************************************************)
(* Instances of RelayStore for TLC: the notes n1 and n2 are searchable, the *)
(* deletion k is not.                                                      *)
(***************************************************************************)
EXTENDS RelayStore

CONSTANTS n1, n2, k, c1, c2
=============================================================================
