------------------------------- MODULE MCScanAll -------------------------------
(***************************************************************************)
(* Instances of ScanAll for TLC: pages of two events growing to four, over *)
(* every store of up to MaxEvents events.                                  *)
(***************************************************************************)
EXTENDS ScanAll

\* created_at 0 is left out: scanAll takes it for no bound.
LaterTimes == 1..4
=============================================================================
