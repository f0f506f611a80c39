----------------------------- MODULE MCAuthSocket -----------------------------
(* Instances of AuthSocket for TLC. *)
EXTENDS AuthSocket
=============================================================================
