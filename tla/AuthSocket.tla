------------------------------- MODULE AuthSocket -------------------------------
(***************************************************************************)
(* The mirror's NIP-42 socket (packages/mirror/src/publish/auth.ts), one   *)
(* after another for one lane of publishBatch, which waits for one event   *)
(* at a time: connecting, the AUTH handshake, the ack waiter with its      *)
(* timer, the one retry after an auth-required, the flush on close.  A     *)
(* handler and the continuation of publish() that it resumes are one step. *)
(* The relay is external.  It challenges when it likes, answers what it    *)
(* likes or nothing, and stores what it was sent before it says OK.        *)
(***************************************************************************)
EXTENDS Naturals, Sequences, FiniteSets, SequencesExt

CONSTANTS
  Event,
  NoEvent,
  MaxCalls,       \* bounds: calls of publish() ...
  MaxSockets,     \* ... connections ...
  MaxChallenges   \* ... and challenges of a connection; 0 is no challenge

ASSUME AuthSocketAssumption ==
  /\ NoEvent \notin Event
  /\ {MaxCalls, MaxSockets, MaxChallenges} \subseteq Nat

VARIABLES
  readyState, isClosed, openPromise, connectTimer,  \* AuthedRelaySocket
  authChallenge, authEventId, authSettled,
  call,         \* the publish() under way: where it waits, what it will return
  toRelay, toClient, challenges,  \* the connection
  connAuthed,   \* the relay has accepted an AUTH on this connection
  stored,
  late,         \* events of earlier connections that may yet be stored
  policy,       \* of the relay: whether it requires AUTH, and answers in order
  calls, sockets

connVars == <<readyState, isClosed, openPromise, connectTimer>>
authVars == <<authChallenge, authEventId, authSettled>>
relayVars == <<connAuthed, stored, late, policy>>
budgetVars == <<calls, sockets>>
vars == <<connVars, authVars, call, toRelay, toClient, challenges, relayVars, budgetVars>>

NoCall == [at |-> "idle", event |-> NoEvent, sends |-> 0, answer |-> "none"]

EventFrame(e) == [type |-> "EVENT", event |-> e]
AuthFrame(c) == [type |-> "AUTH", challenge |-> c]
OkFrame(e, verdict) == [type |-> "OK", event |-> e, verdict |-> verdict]
AuthOkFrame(c, ok) == [type |-> "AUTHOK", challenge |-> c, ok |-> ok]

\* The events of the frames on their way to the relay.
OnTheWire == {f.event : f \in {g \in ToSet(toRelay) : g.type = "EVENT"}}

NewConnection ==
  /\ readyState' = "connecting" /\ isClosed' = FALSE
  /\ openPromise' = "pending" /\ connectTimer' = TRUE
  /\ authChallenge' = 0 /\ authEventId' = 0 /\ authSettled' = FALSE
  /\ toRelay' = <<>> /\ toClient' = <<>> /\ challenges' = 0 /\ connAuthed' = FALSE

Init ==
  /\ readyState = "connecting" /\ isClosed = FALSE
  /\ openPromise = "pending" /\ connectTimer = TRUE
  /\ authChallenge = 0 /\ authEventId = 0 /\ authSettled = FALSE
  /\ toRelay = <<>> /\ toClient = <<>> /\ challenges = 0 /\ connAuthed = FALSE
  /\ call = NoCall /\ stored = {} /\ late = {} /\ calls = 0 /\ sockets = 1
  /\ policy \in [requiresAuth : BOOLEAN, inOrder : BOOLEAN]

-----------------------------------------------------------------------------
(* publish *)

Answered(verdict) == [call EXCEPT !.at = "idle", !.answer = verdict]

\* sendAndAwaitAck: the event is written, or publish returns at once.
SendAndAwaitAck(at) ==
  IF readyState = "open" /\ ~isClosed
    THEN /\ toRelay' = Append(toRelay, EventFrame(call.event))
         /\ call' = [call EXCEPT !.at = at, !.sends = @ + 1]
    ELSE call' = Answered("unsent") /\ UNCHANGED toRelay

Publish(e) ==
  /\ call.at = "idle" /\ ~isClosed /\ calls < MaxCalls
  /\ call' = [NoCall EXCEPT !.at = "opening", !.event = e]
  /\ calls' = calls + 1
  /\ UNCHANGED <<connVars, authVars, toRelay, toClient, challenges, relayVars, sockets>>

\* await this.openPromise; an open challenge is completed before writing.
AwaitOpen ==
  /\ call.at = "opening" /\ openPromise # "pending"
  /\ IF openPromise = "failed" THEN call' = Answered("unsent") /\ UNCHANGED toRelay
     ELSE IF authChallenge # 0 /\ ~authSettled
       THEN call' = [call EXCEPT !.at = "auth"] /\ UNCHANGED toRelay
       ELSE SendAndAwaitAck("ack")
  /\ UNCHANGED <<connVars, authVars, toClient, challenges, relayVars, budgetVars>>

AckTimeout ==
  /\ call.at \in {"ack", "ack2"}
  /\ call' = Answered("timeout")
  /\ UNCHANGED <<connVars, authVars, toRelay, toClient, challenges, relayVars, budgetVars>>

\* What waits for the AUTH goes on: the first write with or without it, the
\* retry only with it.
AuthWaiters(ok) ==
  CASE call.at = "auth"            -> SendAndAwaitAck("ack")
    [] call.at = "reauth" /\ ok    -> SendAndAwaitAck("ack2")
    [] call.at = "reauth" /\ ~ok   -> call' = Answered("auth-required") /\ UNCHANGED toRelay
    [] OTHER                       -> UNCHANGED <<call, toRelay>>

AuthTimeout ==
  /\ call.at \in {"auth", "reauth"}
  /\ AuthWaiters(FALSE)
  /\ UNCHANGED <<connVars, authVars, toClient, challenges, relayVars, budgetVars>>

-----------------------------------------------------------------------------
(* The websocket's callbacks *)

OnOpen ==
  /\ readyState = "connecting"
  /\ readyState' = "open" /\ connectTimer' = FALSE
  /\ openPromise' = IF openPromise = "pending" THEN "open" ELSE openPromise
  /\ UNCHANGED <<isClosed, authVars, call, toRelay, toClient, challenges, relayVars, budgetVars>>

\* A connection that opens later finds its socket unusable, yet not closed.
ConnectTimeout ==
  /\ connectTimer
  /\ connectTimer' = FALSE /\ openPromise' = "failed"
  /\ UNCHANGED <<readyState, isClosed, authVars, call, toRelay, toClient, challenges,
                 relayVars, budgetVars>>

\* onerror comes before onclose; a peer that closes properly gives no onerror.
Lost(error) ==
  /\ readyState # "closed" /\ readyState' = "closed"
  /\ toClient' = <<>>
  /\ IF error THEN /\ connectTimer' = FALSE
                   /\ openPromise' = IF openPromise = "pending" THEN "failed" ELSE openPromise
              ELSE UNCHANGED <<connectTimer, openPromise>>
  /\ UNCHANGED <<isClosed, authVars, call, toRelay, challenges, relayVars, budgetVars>>

\* onClose and flushPending.
FlushPending ==
  call' = CASE call.at \in {"ack", "ack2", "auth"} -> Answered("unsent")
            [] call.at = "reauth"                  -> Answered("auth-required")
            [] OTHER                               -> call

\* A fault: the timer is cleared and nothing tells the caller.
QuietOnClose ==
  /\ readyState = "closed" /\ ~isClosed
  /\ isClosed' = TRUE /\ connectTimer' = FALSE
  /\ FlushPending
  /\ UNCHANGED <<readyState, openPromise, authVars, toRelay, toClient, challenges, relayVars,
                 budgetVars>>

OnClose ==
  /\ readyState = "closed" /\ ~isClosed
  /\ isClosed' = TRUE /\ connectTimer' = FALSE
  /\ openPromise' = IF openPromise = "pending" THEN "failed" ELSE openPromise
  /\ FlushPending
  /\ UNCHANGED <<readyState, authVars, toRelay, toClient, challenges, relayVars, budgetVars>>

\* The latest challenge is answered, unless the relay has accepted one.
OnChallenge(frame) ==
  /\ frame.type = "AUTH"
  /\ IF authSettled THEN UNCHANGED <<authVars, toRelay>>
     ELSE /\ authChallenge' = frame.challenge /\ authEventId' = frame.challenge
          /\ toRelay' = Append(toRelay, frame)
          /\ UNCHANGED authSettled
  /\ UNCHANGED call

\* settleAuth.  An OK for an AUTH event that was replaced finds no one.
OnAuthOk(frame) ==
  /\ frame.type = "AUTHOK"
  /\ IF frame.challenge = authEventId
       THEN /\ authSettled' = frame.ok
            /\ authEventId' = IF frame.ok THEN authEventId ELSE 0
            /\ AuthWaiters(frame.ok)
       ELSE UNCHANGED <<authSettled, authEventId, call, toRelay>>
  /\ UNCHANGED authChallenge

\* A fault: the retry is decided before the first answer, not after it.
EagerOnOk(frame) ==
  /\ frame.type = "OK"
  /\ call' = CASE call.event # frame.event \/ call.at \notin {"ack", "ack2"} -> call
               [] call.at = "ack" /\ frame.verdict = "auth-required" /\ authChallenge = 0 ->
                    [call EXCEPT !.at = "reauth"]
               [] OTHER -> Answered(frame.verdict)
  /\ UNCHANGED <<authVars, toRelay>>

\* The ack waiter of the event, and the one retry.
OnOk(frame) ==
  /\ frame.type = "OK"
  /\ call' = CASE call.event # frame.event \/ call.at \notin {"ack", "ack2"} -> call
               [] call.at = "ack" /\ frame.verdict = "auth-required" /\ ~authSettled ->
                    [call EXCEPT !.at = "reauth"]
               [] OTHER -> Answered(frame.verdict)
  /\ UNCHANGED <<authVars, toRelay>>

OnMessage ==
  /\ readyState = "open" /\ toClient # <<>>
  /\ toClient' = Tail(toClient)
  /\ OnChallenge(Head(toClient)) \/ OnAuthOk(Head(toClient)) \/ OnOk(Head(toClient))
  /\ UNCHANGED <<connVars, challenges, relayVars, budgetVars>>

-----------------------------------------------------------------------------
(* The lane that uses the socket *)

\* close(), when the lane's watchdog gives the call up.
Close ==
  /\ call.at # "idle" /\ ~isClosed
  /\ isClosed' = TRUE /\ call' = Answered("abandoned")
  /\ UNCHANGED <<readyState, openPromise, connectTimer, authVars, toRelay, toClient, challenges,
                 relayVars, budgetVars>>

Replace ==
  /\ call.at = "idle" /\ isClosed /\ sockets < MaxSockets
  /\ sockets' = sockets + 1
  /\ NewConnection
  /\ late' = late \cup (OnTheWire \ stored)
  /\ UNCHANGED <<call, stored, policy, calls>>

-----------------------------------------------------------------------------
(* The relay *)

\* A relay that serves the messages of a connection concurrently may write a later
\* answer before an earlier one.
Reply(frame) ==
  IF readyState = "open"
    THEN \E i \in 1..Len(toClient) + 1 :
           /\ policy.inOrder => i = Len(toClient) + 1
           /\ toClient' = InsertAt(toClient, i, frame)
    ELSE UNCHANGED toClient

Challenge ==
  /\ readyState = "open" /\ challenges < MaxChallenges
  /\ challenges' = challenges + 1
  /\ Reply(AuthFrame(challenges'))
  /\ UNCHANGED <<connVars, authVars, call, toRelay, relayVars, budgetVars>>

RelayAuth(frame) ==
  /\ frame.type = "AUTH"
  /\ \E ok \in BOOLEAN, silent \in BOOLEAN :
       /\ connAuthed' = (connAuthed \/ ok)
       /\ IF silent THEN UNCHANGED toClient ELSE Reply(AuthOkFrame(frame.challenge, ok))
  /\ UNCHANGED stored

RelayEvent(frame) ==
  /\ frame.type = "EVENT"
  /\ \E verdict \in (IF policy.requiresAuth /\ ~connAuthed THEN {"auth-required"}
                                                           ELSE {"ok", "rejected"}),
        silent \in BOOLEAN :
       /\ stored' = IF verdict = "ok" THEN stored \cup {frame.event} ELSE stored
       /\ IF silent THEN UNCHANGED toClient ELSE Reply(OkFrame(frame.event, verdict))
  /\ UNCHANGED connAuthed

RelayTakes ==
  /\ toRelay # <<>> /\ toRelay' = Tail(toRelay)
  /\ RelayAuth(Head(toRelay)) \/ RelayEvent(Head(toRelay))
  /\ UNCHANGED <<connVars, authVars, call, challenges, late, policy, budgetVars>>

RelayStoresLate(e) ==
  /\ e \in late
  /\ stored' = stored \cup {e} /\ late' = late \ {e}
  /\ UNCHANGED <<connVars, authVars, call, toRelay, toClient, challenges, connAuthed, policy,
                 budgetVars>>

Next ==
  \/ \E e \in Event : Publish(e) \/ RelayStoresLate(e)
  \/ AwaitOpen \/ AckTimeout \/ AuthTimeout
  \/ OnOpen \/ ConnectTimeout \/ Lost(TRUE) \/ Lost(FALSE) \/ OnClose \/ OnMessage
  \/ Close \/ Replace
  \/ Challenge \/ RelayTakes

Spec == Init /\ [][Next]_vars

\* The event loop resumes what can go on, timers fire, and a lost connection
\* gives its close event.  Nothing is assumed of the relay or the network.
FairSpec ==
  /\ Spec
  /\ WF_vars(AwaitOpen) /\ WF_vars(AckTimeout) /\ WF_vars(AuthTimeout)
  /\ WF_vars(ConnectTimeout) /\ WF_vars(OnClose)

-----------------------------------------------------------------------------
(* Properties *)

Pending == IF call.at = "idle" THEN NoEvent ELSE call.event

Abstract == INSTANCE Publication WITH
  pending <- Pending,
  answer <- IF call.answer \in {"none", "ok"} THEN call.answer ELSE "no",
  wire <- (late \cup OnTheWire \cup ({Pending} \ {NoEvent})) \ stored

\* A publish() that was called is answered, by the relay or by a timer, whatever the
\* connection does, and with ok only for an event the relay has stored: an OK of the
\* AUTH event, of an earlier call or of an earlier connection is never taken for it.
ImplementsPublication == Abstract!FairSpec

AnsweredNow == call.at # "idle" /\ call'.at = "idle"

Retried ==
  AnsweredNow /\ call'.answer = "auth-required" =>
    call.sends = 2 \/ (call.at = "reauth" /\ ~authSettled')

\* "One automatic retry when the first publish is rejected auth-required and auth
\* completes" (auth.ts:11): from a relay that answers in the order it was asked, an
\* auth-required is returned only after the retry, or when the wait for the AUTH failed.
RetriedInOrder == [][policy.inOrder => Retried]_vars

=============================================================================
