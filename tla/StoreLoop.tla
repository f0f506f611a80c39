------------------------------ MODULE StoreLoop ------------------------------
(***************************************************************************)
(* The loop of the observe case of applyStoreDelta, event by event in list *)
(* order, and its comparison with Observed of module Store, which has no   *)
(* order.                                                                  *)
(***************************************************************************)
EXTENDS Store

\* applyVerdict: the verdict of invalid, and the ids that one of pending awaits.
Condemn(acc, e, seen) == [acc EXCEPT !.invalid = @ \cup {x \in {e} : IsInvalid(x, seen)}]

Register(acc, e, seen) == [acc EXCEPT !.pending = @ \cup Registrations({e}, seen)]

ApplyVerdict(acc, e, seen) == Register(Condemn(acc, e, seen), e, seen)

\* A patch with a root joins chainMembership, and overlayAwaiting with its reply target.
Join(acc, e) == [acc EXCEPT !.known = @ \cup RootedPatches({e})]

Link(acc, e) == [acc EXCEPT !.replies = @ \cup ReplyPairs({e})]

Bump(acc, e) == [acc EXCEPT !.bumped = @ \cup EpochTargets(e, acc.known, acc.replies)]

\* One event that waited for e: its slot is cleared, and if it is still observed
\* its verdict is taken again and its roots' epochs move.
Clear(acc, e, waiter) == [acc EXCEPT !.pending = @ \ {<<e, waiter>>}]

Resettle(acc, e, waiter, seen) ==
  IF waiter \in seen
    THEN Bump(ApplyVerdict(Clear(acc, e, waiter), waiter, seen), waiter)
    ELSE Clear(acc, e, waiter)

\* The events that waited for e, one after the other.
ResettleAll(acc, e, waiting, seen) ==
  LET settled[n \in 0..Len(waiting)] ==
        IF n = 0 THEN acc ELSE Resettle(settled[n - 1], e, waiting[n], seen)
  IN settled[Len(waiting)]

\* A fault: the verdict is taken before the rest of the batch is folded in.
HastyProcessObservedEvent(acc, e, seen) ==
  ApplyVerdict(Bump(Link(Join(acc, e), e), e), e, admit.observed \cup {e})

ProcessObservedEvent(acc, e, seen) ==
  LET judged  == ApplyVerdict(Bump(Link(Join(acc, e), e), e), e, seen)
      waiting == {w \in Event : <<e, w>> \in judged.pending}
  IN ResettleAll(judged, e, SetToSeq(waiting), seen)

ObserveLoop(list) ==
  LET seen  == admit.observed \cup ToSet(list)
      start == [known |-> members, replies |-> overlay, invalid |-> invalid,
                pending |-> pending, bumped |-> {}]
      done[n \in 0..Len(list)] ==
        IF n = 0 THEN start
        ELSE IF list[n] \in admit.observed THEN done[n - 1]
        ELSE ProcessObservedEvent(done[n - 1], list[n], seen)
  IN done[Len(list)]

\* The order in which a batch lists its events, and in which the events that
\* waited for one of them are judged again, decides nothing: the loop leaves
\* the same verdicts, the same registrations and the same epochs moved (UR-1).
BatchOrderIrrelevant ==
  \A events \in ObserveBatches : \A list \in SetToSeqs(events) :
    ObserveLoop(list) = Observed(events)
=============================================================================
