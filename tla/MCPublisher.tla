------------------------------ MODULE MCPublisher ------------------------------
(***************************************************************************)
(* Instances of Publisher for TLC: the first batch is the root r and the   *)
(* deletion d, which is no chain point, the second the patch p of r.       *)
(***************************************************************************)
EXTENDS Publisher

CONSTANTS r, d, p

MCBatch == <<<<r, d>>, <<p>>>>
MCChainPoint == <<{r}, {r, p}>>
=============================================================================
