------------------------------ MODULE Publication ------------------------------
(***************************************************************************)
(* What a publish() call promises its caller, the abstract side of the     *)
(* mirror's socket (PublishAck of packages/mirror/src/publish/auth.ts, as  *)
(* Publisher takes it for granted): the call is answered, with an OK only  *)
(* when the relay has stored the event; after any other answer the event   *)
(* may still be stored, or be lost.                                        *)
(***************************************************************************)
CONSTANTS Event, NoEvent

VARIABLES
  pending,  \* the event whose call has no answer yet
  answer,   \* the answer to the last call
  wire,     \* events that may still be stored
  stored

vars == <<pending, answer, wire, stored>>

Init == pending = NoEvent /\ answer = "none" /\ wire = {} /\ stored = {}

Call(e) ==
  /\ pending = NoEvent
  /\ pending' = e /\ answer' = "none"
  /\ wire' = wire \cup ({e} \ stored)
  /\ UNCHANGED stored

Store(e) ==
  /\ e \in wire
  /\ stored' = stored \cup {e} /\ wire' = wire \ {e}
  /\ UNCHANGED <<pending, answer>>

Lose ==
  /\ wire' \in SUBSET wire
  /\ pending \in wire => pending \in wire'
  /\ UNCHANGED <<pending, answer, stored>>

Answer ==
  /\ pending # NoEvent /\ pending' = NoEvent
  /\ answer' \in {"no"} \cup (IF pending \in stored THEN {"ok"} ELSE {})
  /\ wire' \in {wire, wire \ {pending}}
  /\ UNCHANGED stored

Next == Lose \/ Answer \/ \E e \in Event : Call(e) \/ Store(e)

Spec == Init /\ [][Next]_vars

\* The caller may stop calling and the relay storing: only the answer is owed.
FairSpec == Spec /\ WF_vars(Answer)
=============================================================================
