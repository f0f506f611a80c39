--------------------------- MODULE AuthSocketProofs ---------------------------
(***************************************************************************)
(* The mirror's socket keeps what Publication promises a caller, for every *)
(* set of events and any number of calls, connections and challenges: each *)
(* of its steps is a step of Publication or leaves it alone.  And a relay  *)
(* that answers in order never makes it give up before the retry.          *)
(***************************************************************************)
EXTENDS AuthSocket, SequenceTheorems, TLAPS

RelayFrames == [type : {"EVENT"}, event : Event] \cup [type : {"AUTH"}, challenge : Nat]
ClientFrames ==
  [type : {"AUTH"}, challenge : Nat]
    \cup [type : {"OK"}, event : Event, verdict : {"ok", "rejected", "auth-required"}]
    \cup [type : {"AUTHOK"}, challenge : Nat, ok : BOOLEAN]
Calls == [at : {"idle", "opening", "auth", "ack", "reauth", "ack2"},
          event : Event \cup {NoEvent}, sends : 0..2,
          answer : {"none", "ok", "rejected", "auth-required", "unsent", "timeout", "abandoned"}]

TypeOK ==
  /\ readyState \in {"connecting", "open", "closed"} /\ isClosed \in BOOLEAN
  /\ openPromise \in {"pending", "open", "failed"} /\ connectTimer \in BOOLEAN
  /\ authChallenge \in Nat /\ authEventId \in Nat /\ authSettled \in BOOLEAN
  /\ call \in Calls
  /\ toRelay \in Seq(RelayFrames) /\ toClient \in Seq(ClientFrames)
  /\ challenges \in Nat /\ connAuthed \in BOOLEAN
  /\ stored \subseteq Event /\ late \subseteq Event
  /\ policy \in [requiresAuth : BOOLEAN, inOrder : BOOLEAN]
  /\ calls \in Nat /\ sockets \in Nat

\* A call that waits has an event, no answer yet, and has written it as often as its
\* place says.
CallFits ==
  /\ call.at # "idle" => call.event \in Event /\ call.answer = "none"
  /\ call.at \in {"opening", "auth"} => call.sends = 0
  /\ call.at \in {"ack", "reauth"} => call.sends = 1
  /\ call.at = "ack2" => call.sends = 2
  /\ call.at = "reauth" => ~authSettled

\* What the relay has said OK of, it has.
OksAreStored ==
  \A i \in DOMAIN toClient :
    toClient[i].type = "OK" /\ toClient[i].verdict = "ok" => toClient[i].event \in stored

Refuses(frame) == frame.type = "OK" /\ frame.verdict = "auth-required"
Accepts(frame) == frame.type = "AUTHOK" /\ frame.ok

\* After the answer that accepts an AUTH no answer asks for one.
AuthComesFirst ==
  /\ authSettled => connAuthed
  /\ \A i \in DOMAIN toClient : Accepts(toClient[i]) => connAuthed
  /\ policy.inOrder =>
       /\ authSettled => \A i \in DOMAIN toClient : ~Refuses(toClient[i])
       /\ \A i, j \in DOMAIN toClient : i < j /\ Accepts(toClient[i]) => ~Refuses(toClient[j])

SocketInv == TypeOK /\ CallFits /\ OksAreStored /\ AuthComesFirst
-----------------------------------------------------------------------------
(* Sequences *)

LEMMA InsertAtProperties ==
  ASSUME NEW S, NEW s \in Seq(S), NEW x \in S, NEW i \in 1..Len(s) + 1
  PROVE  /\ InsertAt(s, i, x) \in Seq(S)
         /\ Len(InsertAt(s, i, x)) = Len(s) + 1
         /\ \A k \in 1..Len(s) + 1 :
              InsertAt(s, i, x)[k] = IF k < i THEN s[k] ELSE IF k = i THEN x ELSE s[k - 1]
<1> DEFINE front == SubSeq(s, 1, i - 1)
           back == SubSeq(s, i, Len(s))
           head == front \o <<x>>
<1>1. Len(s) \in Nat /\ i \in Nat
  OBVIOUS
<1>2. front \in Seq(S) /\ Len(front) = i - 1 /\ \A k \in 1..i - 1 : front[k] = s[k]
  BY <1>1
<1>3. /\ back \in Seq(S) /\ Len(back) = Len(s) - i + 1
      /\ \A k \in 1..Len(s) - i + 1 : back[k] = s[i + k - 1]
  BY <1>1
<1>4. InsertAt(s, i, x) = head \o back
  BY DEF InsertAt
<1> HIDE DEF front, back
<1>5. <<x>> \in Seq(S) /\ Len(<<x>>) = 1 /\ <<x>>[1] = x
  OBVIOUS
<1>6. /\ head \in Seq(S) /\ Len(head) = i
      /\ \A k \in 1..i : head[k] = IF k < i THEN s[k] ELSE x
  BY <1>1, <1>2, <1>5
<1> HIDE DEF head
<1>7. /\ head \o back \in Seq(S)
      /\ Len(head \o back) = Len(head) + Len(back)
      /\ \A k \in 1..Len(head) + Len(back) :
           (head \o back)[k] = IF k <= Len(head) THEN head[k] ELSE back[k - Len(head)]
  BY <1>3, <1>6, ConcatProperties
<1>8. Len(head) + Len(back) = Len(s) + 1
  BY <1>1, <1>3, <1>6
<1> DEFINE r == head \o back
<1>9. /\ r \in Seq(S) /\ Len(r) = Len(s) + 1
      /\ \A k \in 1..Len(s) + 1 : r[k] = IF k <= i THEN head[k] ELSE back[k - i]
  BY <1>6, <1>7, <1>8
<1> HIDE DEF r
<1>10. ASSUME NEW k \in 1..Len(s) + 1
       PROVE  r[k] = IF k < i THEN s[k] ELSE IF k = i THEN x ELSE s[k - 1]
  <2>1. CASE k <= i
    BY <1>1, <1>6, <1>9, <2>1
  <2>2. CASE k > i
    <3>1. k - i \in 1..Len(s) - i + 1 /\ i + (k - i) - 1 = k - 1
      BY <1>1, <2>2
    <3>2. r[k] = back[k - i]
      BY <1>1, <1>9, <2>2
    <3>3. back[k - i] = s[k - 1]
      BY <1>3, <3>1
    <3>4. QED
      BY <1>1, <2>2, <3>2, <3>3
  <2>3. QED
    BY <1>1, <2>1, <2>2
<1>11. InsertAt(s, i, x) = r
  BY <1>4 DEF r
<1>12. QED
  BY <1>9, <1>10, <1>11

LEMMA AppendMembers ==
  ASSUME NEW S, NEW s \in Seq(S), NEW x \in S
  PROVE  Append(s, x) \in Seq(S) /\ ToSet(Append(s, x)) = ToSet(s) \cup {x}
<1> DEFINE r == Append(s, x)
<1>1. /\ r \in Seq(S) /\ Len(r) = Len(s) + 1 /\ Len(s) \in Nat
      /\ (\A k \in 1..Len(s) : r[k] = s[k]) /\ r[Len(s) + 1] = x
  BY AppendProperties
<1> HIDE DEF r
<1>2. DOMAIN s = 1..Len(s) /\ DOMAIN r = 1..Len(s) + 1
  BY <1>1
<1>3. ToSet(r) \subseteq ToSet(s) \cup {x}
  <2> SUFFICES ASSUME NEW k \in 1..Len(s) + 1 PROVE r[k] \in ToSet(s) \cup {x}
    BY <1>2 DEF ToSet
  <2>1. k \in 1..Len(s) \/ k = Len(s) + 1
    BY <1>1
  <2>2. QED
    BY <1>1, <1>2, <2>1 DEF ToSet
<1>4. ToSet(s) \cup {x} \subseteq ToSet(r)
  <2>1. 1..Len(s) \subseteq DOMAIN r /\ Len(s) + 1 \in DOMAIN r
    BY <1>1, <1>2
  <2>2. QED
    BY <1>1, <1>2, <2>1 DEF ToSet
<1>5. r \in Seq(S) /\ ToSet(r) = ToSet(s) \cup {x}
  BY <1>1, <1>3, <1>4
<1>6. QED
  BY <1>5 DEF r

LEMMA TailProperties ==
  ASSUME NEW S, NEW s \in Seq(S), s # <<>>
  PROVE  /\ Tail(s) \in Seq(S) /\ Head(s) \in S /\ Head(s) = s[1] /\ 1 \in DOMAIN s
         /\ DOMAIN Tail(s) = 1..Len(s) - 1
         /\ \A k \in DOMAIN Tail(s) : k + 1 \in DOMAIN s /\ Tail(s)[k] = s[k + 1]
         /\ ToSet(s) = ToSet(Tail(s)) \cup {Head(s)}
<1>1. /\ Tail(s) \in Seq(S) /\ Head(s) = s[1] /\ Len(s) \in Nat /\ Len(s) > 0
      /\ Len(Tail(s)) = Len(s) - 1
      /\ \A k \in 1..Len(s) - 1 : Tail(s)[k] = s[k + 1]
  OBVIOUS
<1>2. DOMAIN s = 1..Len(s) /\ DOMAIN Tail(s) = 1..Len(s) - 1
  BY <1>1
<1>3. \A k \in DOMAIN s : k = 1 \/ (k - 1 \in DOMAIN Tail(s) /\ s[k] = Tail(s)[k - 1])
  BY <1>1, <1>2
<1>4. \A k \in DOMAIN Tail(s) : k + 1 \in DOMAIN s /\ Tail(s)[k] = s[k + 1]
  BY <1>1, <1>2
<1>5. ToSet(s) = ToSet(Tail(s)) \cup {Head(s)}
  <2>1. ToSet(s) \subseteq ToSet(Tail(s)) \cup {Head(s)}
    <3>1. \A k \in DOMAIN s : s[k] \in {Tail(s)[j] : j \in DOMAIN Tail(s)} \cup {Head(s)}
      BY <1>1, <1>3
    <3>2. QED
      BY <3>1 DEF ToSet
  <2>2. ToSet(Tail(s)) \cup {Head(s)} \subseteq ToSet(s)
    BY <1>1, <1>2, <1>4 DEF ToSet
  <2>3. QED
    BY <2>1, <2>2
<1>6. QED
  BY <1>1, <1>2, <1>4, <1>5
-----------------------------------------------------------------------------
(* The inductive invariant *)

LEMMA InitHolds == Init => SocketInv
<1> SUFFICES ASSUME Init PROVE SocketInv
  OBVIOUS
<1>1. toRelay \in Seq(RelayFrames) /\ toClient \in Seq(ClientFrames) /\ DOMAIN toClient = {}
  BY DEF Init
<1>2. NoCall \in Calls /\ NoCall.at = "idle"
  BY DEF NoCall, Calls
<1>3. TypeOK
  BY <1>1, <1>2 DEF Init, TypeOK
<1>4. CallFits
  BY <1>2 DEF Init, CallFits
<1>5. OksAreStored /\ AuthComesFirst
  BY <1>1 DEF Init, OksAreStored, AuthComesFirst
<1>6. QED
  BY <1>3, <1>4, <1>5 DEF SocketInv

\* Steps that leave the answers under way and the AUTH alone.
LEMMA AnswersAside ==
  ASSUME OksAreStored, AuthComesFirst, stored \subseteq stored',
         UNCHANGED <<toClient, authSettled, connAuthed, policy>>
  PROVE  OksAreStored' /\ AuthComesFirst'
BY DEF OksAreStored, AuthComesFirst, Refuses, Accepts

\* A call that goes on, or is answered.
LEMMA AnsweredFits ==
  ASSUME call \in Calls,
         NEW v \in {"ok", "rejected", "auth-required", "unsent", "timeout", "abandoned"}
  PROVE  /\ Answered(v) \in Calls
         /\ Answered(v).at = "idle" /\ Answered(v).answer = v
BY DEF Calls, Answered

Written(at) == [call EXCEPT !.at = at, !.sends = call.sends + 1]

LEMMA SendCases ==
  ASSUME TypeOK, CallFits, NEW at \in {"ack", "ack2"}, SendAndAwaitAck(at),
         call.at \in {"opening", "auth", "reauth"},
         call.at = "reauth" <=> at = "ack2"
  PROVE  /\ call' \in Calls /\ CallFits' /\ toRelay' \in Seq(RelayFrames)
         /\ \/ call' = Answered("unsent") /\ UNCHANGED toRelay
            \/ /\ call' = Written(at)
               /\ toRelay' = Append(toRelay, EventFrame(call.event))
<1>1. CASE readyState = "open" /\ ~isClosed
  <2>1. /\ call' = Written(at)
        /\ toRelay' = Append(toRelay, EventFrame(call.event))
    BY <1>1 DEF SendAndAwaitAck, Written, TypeOK, Calls
  <2>2. call.event \in Event /\ call.sends = (IF at = "ack" THEN 0 ELSE 1)
    BY DEF CallFits
  <2>3. call' \in Calls /\ CallFits'
    <3> HIDE DEF TypeOK
    <3> DEFINE n == call.sends + 1
    <3>1. call \in Calls /\ n = (IF at = "ack" THEN 1 ELSE 2) /\ n \in 0..2
      BY <2>2 DEF TypeOK
    <3>2. Written(at) = [call EXCEPT !.at = at, !.sends = n]
      BY DEF Written
    <3> HIDE DEF n
    <3>3. /\ Written(at) \in Calls /\ Written(at).at = at /\ Written(at).sends = n
          /\ Written(at).event = call.event /\ Written(at).answer = call.answer
      BY <3>1, <3>2 DEF Calls
    <3>4. call.answer = "none"
      BY DEF CallFits
    <3>5. QED
      BY <2>1, <2>2, <3>1, <3>3, <3>4 DEF CallFits
  <2>4. EventFrame(call.event) \in RelayFrames
    BY <2>2 DEF EventFrame, RelayFrames
  <2>5. toRelay' \in Seq(RelayFrames)
    BY <2>1, <2>4, AppendProperties DEF TypeOK
  <2>6. QED
    BY <2>1, <2>3, <2>5
<1>2. CASE ~(readyState = "open" /\ ~isClosed)
  <2>1. call' = Answered("unsent") /\ UNCHANGED toRelay
    BY <1>2 DEF SendAndAwaitAck
  <2>2. QED
    BY <2>1, AnsweredFits DEF TypeOK, CallFits
<1>3. QED
  BY <1>1, <1>2

\* What a call that waited for the AUTH does: nothing, give up, or write its event.
GivesUp(ok) ==
  /\ call.at # "idle" /\ UNCHANGED toRelay
  /\ \/ call' = Answered("unsent")
     \/ call' = Answered("auth-required") /\ call.at = "reauth" /\ ~ok
Writes ==
  /\ call.at # "idle"
  /\ \E at \in {"ack", "ack2"} : call' = Written(at)
  /\ toRelay' = Append(toRelay, EventFrame(call.event))

LEMMA WaiterCases ==
  ASSUME TypeOK, CallFits, NEW ok \in BOOLEAN, AuthWaiters(ok)
  PROVE  /\ call' \in Calls /\ CallFits' /\ toRelay' \in Seq(RelayFrames)
         /\ UNCHANGED <<call, toRelay>> \/ GivesUp(ok) \/ Writes
<1>1. CASE call.at = "auth"
  <2>1. SendAndAwaitAck("ack")
    BY <1>1 DEF AuthWaiters
  <2>2. QED
    BY <1>1, <2>1, SendCases DEF GivesUp, Writes
<1>2. CASE call.at = "reauth" /\ ok
  <2>1. SendAndAwaitAck("ack2")
    BY <1>2 DEF AuthWaiters
  <2>2. QED
    BY <1>2, <2>1, SendCases DEF GivesUp, Writes
<1>3. CASE call.at = "reauth" /\ ~ok
  <2>1. call' = Answered("auth-required") /\ UNCHANGED toRelay
    BY <1>3 DEF AuthWaiters
  <2>2. QED
    BY <1>3, <2>1, AnsweredFits DEF TypeOK, CallFits, GivesUp
<1>4. CASE call.at \notin {"auth", "reauth"}
  <2>1. UNCHANGED <<call, toRelay>>
    BY <1>4 DEF AuthWaiters
  <2>2. QED
    BY <1>4, <2>1 DEF TypeOK, CallFits
<1>5. QED
  BY <1>1, <1>2, <1>3, <1>4

LEMMA PublishSteps ==
  ASSUME SocketInv,
         (\E e \in Event : Publish(e)) \/ AwaitOpen \/ AckTimeout \/ AuthTimeout
  PROVE  SocketInv'
<1> USE DEF SocketInv, connVars, authVars, relayVars, budgetVars
<1>1. OksAreStored' /\ AuthComesFirst'
  BY AnswersAside DEF Publish, AwaitOpen, AckTimeout, AuthTimeout
<1>2. ASSUME NEW e \in Event, Publish(e) PROVE TypeOK' /\ CallFits'
  <2>1. /\ call' \in Calls /\ call'.at = "opening" /\ call'.event = e
        /\ call'.sends = 0 /\ call'.answer = "none"
    <3>1. NoCall \in Calls /\ NoCall.sends = 0 /\ NoCall.answer = "none"
      BY DEF NoCall, Calls
    <3>2. call' = [NoCall EXCEPT !.at = "opening", !.event = e]
      BY <1>2 DEF Publish
    <3>3. QED
      BY <3>1, <3>2 DEF Calls
  <2>2. CallFits'
    BY <2>1 DEF CallFits
  <2>3. calls' \in Nat
    <3>1. calls \in Nat /\ calls' = calls + 1
      BY <1>2 DEF Publish, TypeOK
    <3>2. QED
      BY <3>1
  <2>4. TypeOK'
    BY <1>2, <2>1, <2>3 DEF Publish, TypeOK
  <2>5. QED
    BY <2>2, <2>4
<1>3. ASSUME AwaitOpen PROVE TypeOK' /\ CallFits'
  <2>1. call' \in Calls /\ CallFits' /\ toRelay' \in Seq(RelayFrames)
    <3>1. CASE openPromise = "failed"
      BY <1>3, <3>1, AnsweredFits DEF AwaitOpen, TypeOK, CallFits
    <3>2. CASE openPromise # "failed" /\ authChallenge # 0 /\ ~authSettled
      <4>1. call' = [call EXCEPT !.at = "auth"] /\ UNCHANGED toRelay /\ call.at = "opening"
        BY <1>3, <3>2 DEF AwaitOpen
      <4>2. /\ call' \in Calls /\ call'.at = "auth" /\ call'.event = call.event
            /\ call'.sends = call.sends /\ call'.answer = call.answer
        BY <4>1 DEF TypeOK, Calls
      <4>3. QED
        BY <4>1, <4>2 DEF TypeOK, CallFits
    <3>3. CASE openPromise # "failed" /\ ~(authChallenge # 0 /\ ~authSettled)
      <4>1. SendAndAwaitAck("ack") /\ call.at = "opening"
        BY <1>3, <3>3 DEF AwaitOpen
      <4>2. QED
        BY <4>1, SendCases
    <3>4. QED
      BY <3>1, <3>2, <3>3
  <2>2. QED
    BY <1>3, <2>1 DEF AwaitOpen, TypeOK
<1>4. ASSUME AckTimeout PROVE TypeOK' /\ CallFits'
  BY <1>4, AnsweredFits DEF AckTimeout, TypeOK, CallFits
<1>5. ASSUME AuthTimeout PROVE TypeOK' /\ CallFits'
  <2>1. call' \in Calls /\ CallFits' /\ toRelay' \in Seq(RelayFrames)
    BY <1>5, WaiterCases DEF AuthTimeout
  <2>2. QED
    BY <1>5, <2>1 DEF AuthTimeout, TypeOK
<1>6. QED
  BY <1>1, <1>2, <1>3, <1>4, <1>5

LEMMA ConnectionSteps ==
  ASSUME SocketInv,
         OnOpen \/ ConnectTimeout \/ OnClose \/ Close \/ \E e \in Event : RelayStoresLate(e)
  PROVE  SocketInv'
<1> USE DEF SocketInv, connVars, authVars, relayVars, budgetVars
<1>1. OksAreStored' /\ AuthComesFirst'
  BY AnswersAside DEF OnOpen, ConnectTimeout, OnClose, Close, RelayStoresLate
<1>2. ASSUME OnOpen \/ ConnectTimeout \/ \E e \in Event : RelayStoresLate(e)
      PROVE  TypeOK' /\ CallFits'
  <2>1. CallFits'
    BY <1>2 DEF OnOpen, ConnectTimeout, RelayStoresLate, CallFits
  <2>2. CASE OnOpen
    BY <2>1, <2>2 DEF OnOpen, TypeOK
  <2>3. CASE ConnectTimeout
    BY <2>1, <2>3 DEF ConnectTimeout, TypeOK
  <2>4. ASSUME NEW e \in Event, RelayStoresLate(e) PROVE TypeOK'
    BY <2>4 DEF RelayStoresLate, TypeOK
  <2>5. QED
    BY <1>2, <2>1, <2>2, <2>3, <2>4
<1>3. ASSUME OnClose PROVE TypeOK' /\ CallFits'
  <2>1. \/ call' = Answered("unsent")
        \/ call' = Answered("auth-required")
        \/ call' = call
    BY <1>3 DEF OnClose, FlushPending
  <2>2. call' \in Calls /\ CallFits'
    BY <1>3, <2>1, AnsweredFits DEF OnClose, TypeOK, CallFits
  <2>3. QED
    BY <1>3, <2>2 DEF OnClose, TypeOK
<1>4. ASSUME Close PROVE TypeOK' /\ CallFits'
  BY <1>4, AnsweredFits DEF Close, TypeOK, CallFits
<1>5. QED
  BY <1>1, <1>2, <1>3, <1>4

\* With the connection the answers under way are gone.
LEMMA NoAnswersLeft ==
  ASSUME AuthComesFirst, toClient' = <<>>, authSettled' => connAuthed'
  PROVE  OksAreStored' /\ AuthComesFirst'
<1>1. DOMAIN toClient' = {}
  OBVIOUS
<1>2. QED
  BY <1>1 DEF OksAreStored, AuthComesFirst

LEMMA LossSteps ==
  ASSUME SocketInv, Lost(TRUE) \/ Lost(FALSE) \/ Replace
  PROVE  SocketInv'
<1> USE DEF SocketInv, connVars, authVars, relayVars, budgetVars
<1>1. toClient' = <<>> /\ toClient' \in Seq(ClientFrames)
  <2>1. toClient' = <<>>
    BY DEF Lost, Replace, NewConnection
  <2>2. QED
    BY <2>1
<1>2. ASSUME NEW error \in BOOLEAN, Lost(error) PROVE SocketInv'
  <2>1. OksAreStored' /\ AuthComesFirst'
    BY <1>1, <1>2, NoAnswersLeft DEF Lost, AuthComesFirst
  <2>2. CallFits'
    BY <1>2 DEF Lost, CallFits
  <2>3. TypeOK'
    <3>1. toRelay' = toRelay /\ sockets' = sockets /\ late' = late
      BY <1>2 DEF Lost
    <3>2. QED
      BY <1>1, <1>2, <3>1 DEF Lost, TypeOK
  <2>4. QED
    BY <2>1, <2>2, <2>3
<1>3. ASSUME Replace PROVE SocketInv'
  <2>1. OksAreStored' /\ AuthComesFirst'
    BY <1>1, <1>3, NoAnswersLeft DEF Replace, NewConnection
  <2>2. toRelay' \in Seq(RelayFrames) /\ sockets' \in Nat
    BY <1>3 DEF Replace, NewConnection, TypeOK
  <2>3. late' \subseteq Event
    <3>1. OnTheWire \subseteq Event
      BY DEF OnTheWire, ToSet, TypeOK, RelayFrames
    <3>2. QED
      BY <1>3, <3>1 DEF Replace, TypeOK
  <2>4. TypeOK' /\ CallFits'
    BY <1>1, <1>3, <2>2, <2>3 DEF Replace, NewConnection, TypeOK, CallFits
  <2>5. QED
    BY <2>1, <2>4
<1>4. QED
  BY <1>2, <1>3

\* Taking the first answer from the connection.
LEMMA TakenAnswer ==
  ASSUME SocketInv, toClient # <<>>, toClient' = Tail(toClient),
         UNCHANGED <<stored, connAuthed, policy>>,
         \/ authSettled' \in {authSettled, FALSE}
         \/ authSettled' = TRUE /\ Accepts(Head(toClient))
  PROVE  OksAreStored' /\ AuthComesFirst'
<1> USE DEF SocketInv
<1>1. /\ 1 \in DOMAIN toClient /\ Head(toClient) = toClient[1]
      /\ \A k \in DOMAIN toClient' : k + 1 \in DOMAIN toClient /\ toClient'[k] = toClient[k + 1]
      /\ DOMAIN toClient' \subseteq Nat \ {0}
  BY TailProperties DEF TypeOK
<1>2. OksAreStored'
  BY <1>1 DEF OksAreStored
<1>3. authSettled' => connAuthed'
  BY <1>1 DEF AuthComesFirst, TypeOK
<1>4. \A i \in DOMAIN toClient' : Accepts(toClient'[i]) => connAuthed'
  BY <1>1 DEF AuthComesFirst
<1>5. ASSUME policy'.inOrder, authSettled', NEW i \in DOMAIN toClient'
      PROVE  ~Refuses(toClient'[i])
  <2>1. toClient'[i] = toClient[i + 1] /\ i + 1 \in DOMAIN toClient /\ 1 < i + 1
    BY <1>1
  <2>2. authSettled \/ Accepts(toClient[1])
    BY <1>1, <1>5 DEF TypeOK
  <2>3. QED
    BY <1>1, <1>5, <2>1, <2>2 DEF AuthComesFirst
<1>6. ASSUME policy'.inOrder, NEW i \in DOMAIN toClient', NEW j \in DOMAIN toClient', i < j,
             Accepts(toClient'[i])
      PROVE  ~Refuses(toClient'[j])
  <2>1. /\ i + 1 \in DOMAIN toClient /\ toClient'[i] = toClient[i + 1]
        /\ j + 1 \in DOMAIN toClient /\ toClient'[j] = toClient[j + 1] /\ i + 1 < j + 1
    BY <1>1, <1>6
  <2>2. QED
    BY <1>6, <2>1 DEF AuthComesFirst
<1>7. QED
  BY <1>2, <1>3, <1>4, <1>5, <1>6 DEF AuthComesFirst

LEMMA MessageStep == SocketInv /\ OnMessage => SocketInv'
<1> SUFFICES ASSUME SocketInv, OnMessage PROVE SocketInv'
  OBVIOUS
<1> USE DEF SocketInv, connVars, authVars, relayVars, budgetVars
<1> DEFINE frame == Head(toClient)
<1>1. /\ toClient # <<>> /\ toClient' = Tail(toClient)
      /\ OnChallenge(frame) \/ OnAuthOk(frame) \/ OnOk(frame)
      /\ UNCHANGED <<connVars, challenges, relayVars, budgetVars>>
  BY DEF OnMessage
<1>2. frame \in ClientFrames /\ toClient' \in Seq(ClientFrames) /\ frame = toClient[1]
      /\ 1 \in DOMAIN toClient
  BY <1>1, TailProperties DEF TypeOK
<1> HIDE DEF frame
<1>3. ASSUME OnChallenge(frame) PROVE SocketInv'
  <2>1. frame \in RelayFrames /\ frame.challenge \in Nat
    BY <1>2, <1>3 DEF OnChallenge, ClientFrames, RelayFrames
  <2>2. toRelay' \in Seq(RelayFrames) /\ authChallenge' \in Nat /\ authEventId' \in Nat
    <3>1. CASE authSettled
      BY <1>3, <3>1 DEF OnChallenge, TypeOK
    <3>2. CASE ~authSettled
      BY <1>3, <2>1, <3>2, AppendProperties DEF OnChallenge, TypeOK
    <3>3. QED
      BY <3>1, <3>2
  <2>3. UNCHANGED <<authSettled, call>>
    BY <1>3 DEF OnChallenge
  <2>4. OksAreStored' /\ AuthComesFirst'
    BY <1>1, <2>3, TakenAnswer
  <2>5. TypeOK' /\ CallFits'
    BY <1>1, <1>2, <2>2, <2>3 DEF TypeOK, CallFits
  <2>6. QED
    BY <2>4, <2>5
<1>4. ASSUME OnAuthOk(frame) PROVE SocketInv'
  <2>1. frame.ok \in BOOLEAN /\ frame.type = "AUTHOK"
    BY <1>2, <1>4 DEF OnAuthOk, ClientFrames
  <2>2. CASE frame.challenge = authEventId
    <3>1. authSettled' = frame.ok /\ AuthWaiters(frame.ok) /\ UNCHANGED authChallenge
          /\ authEventId' \in {authEventId, 0}
      BY <1>4, <2>2 DEF OnAuthOk
    <3>2. call' \in Calls /\ CallFits' /\ toRelay' \in Seq(RelayFrames)
      BY <2>1, <3>1, WaiterCases
    <3>3. OksAreStored' /\ AuthComesFirst'
      BY <1>1, <2>1, <3>1, TakenAnswer DEF Accepts, frame
    <3>4. TypeOK'
      BY <1>1, <1>2, <2>1, <3>1, <3>2 DEF TypeOK
    <3>5. QED
      BY <3>2, <3>3, <3>4
  <2>3. CASE frame.challenge # authEventId
    <3>1. UNCHANGED <<authVars, call, toRelay>>
      BY <1>4, <2>3 DEF OnAuthOk
    <3>2. OksAreStored' /\ AuthComesFirst'
      BY <1>1, <3>1, TakenAnswer
    <3>3. TypeOK' /\ CallFits'
      BY <1>1, <1>2, <3>1 DEF TypeOK, CallFits
    <3>4. QED
      BY <3>2, <3>3
  <2>4. QED
    BY <2>2, <2>3
<1>5. ASSUME OnOk(frame) PROVE SocketInv'
  <2>1. frame.verdict \in {"ok", "rejected", "auth-required"} /\ frame.type = "OK"
    BY <1>2, <1>5 DEF OnOk, ClientFrames
  <2>2. UNCHANGED <<authVars, toRelay>>
    BY <1>5 DEF OnOk
  <2>3. OksAreStored' /\ AuthComesFirst'
    BY <1>1, <2>2, TakenAnswer
  <2>4. \/ call' = call
        \/ call' = [call EXCEPT !.at = "reauth"] /\ call.at = "ack" /\ ~authSettled
        \/ call' = Answered(frame.verdict)
    BY <1>5 DEF OnOk
  <2>5. CASE call' = call
    BY <1>1, <1>2, <2>2, <2>3, <2>5 DEF TypeOK, CallFits
  <2>6. CASE call' = [call EXCEPT !.at = "reauth"] /\ call.at = "ack" /\ ~authSettled
    <3>1. /\ call' \in Calls /\ call'.at = "reauth" /\ call'.event = call.event
          /\ call'.sends = call.sends /\ call'.answer = call.answer
      BY <2>6 DEF TypeOK, Calls
    <3>2. CallFits'
      BY <2>2, <2>6, <3>1 DEF CallFits
    <3>3. TypeOK'
      BY <1>1, <1>2, <2>2, <3>1 DEF TypeOK
    <3>4. QED
      BY <2>3, <3>2, <3>3
  <2>7. CASE call' = Answered(frame.verdict)
    <3>1. call' \in Calls /\ call'.at = "idle"
      BY <2>1, <2>7, AnsweredFits DEF TypeOK
    <3>2. CallFits'
      BY <3>1 DEF CallFits
    <3>3. TypeOK'
      BY <1>1, <1>2, <2>2, <3>1 DEF TypeOK
    <3>4. QED
      BY <2>3, <3>2, <3>3
  <2>8. QED
    BY <2>4, <2>5, <2>6, <2>7
<1>6. QED
  BY <1>1, <1>3, <1>4, <1>5

\* A reply is put among the answers under way; behind all of them, when in order.
LEMMA ReplyCases ==
  ASSUME TypeOK, NEW frame \in ClientFrames, Reply(frame)
  PROVE  /\ toClient' \in Seq(ClientFrames)
         /\ \A k \in DOMAIN toClient' :
              toClient'[k] = frame \/ \E j \in DOMAIN toClient : toClient'[k] = toClient[j]
         /\ policy.inOrder => \A k \in DOMAIN toClient' :
              \/ k \in DOMAIN toClient /\ toClient'[k] = toClient[k]
              \/ k = Len(toClient) + 1 /\ toClient'[k] = frame
<1>1. Len(toClient) \in Nat /\ DOMAIN toClient = 1..Len(toClient)
  BY DEF TypeOK
<1>2. CASE readyState # "open"
  <2>1. toClient' = toClient
    BY <1>2 DEF Reply
  <2>2. QED
    BY <1>1, <2>1 DEF TypeOK
<1>3. CASE readyState = "open"
  <2>1. PICK i \in 1..Len(toClient) + 1 : /\ policy.inOrder => i = Len(toClient) + 1
                                          /\ toClient' = InsertAt(toClient, i, frame)
    BY <1>3 DEF Reply
  <2>2. /\ toClient' \in Seq(ClientFrames) /\ Len(toClient') = Len(toClient) + 1
        /\ \A k \in 1..Len(toClient) + 1 :
             toClient'[k] = IF k < i THEN toClient[k] ELSE IF k = i THEN frame ELSE toClient[k - 1]
    <3>1. toClient \in Seq(ClientFrames) /\ frame \in ClientFrames
      BY <1>1 DEF TypeOK
    <3>2. i \in 1..Len(toClient) + 1
      BY <2>1
    <3>3. /\ InsertAt(toClient, i, frame) \in Seq(ClientFrames)
          /\ Len(InsertAt(toClient, i, frame)) = Len(toClient) + 1
      BY <3>1, <3>2, InsertAtProperties
    <3>4. \A k \in 1..Len(toClient) + 1 : InsertAt(toClient, i, frame)[k] =
            IF k < i THEN toClient[k] ELSE IF k = i THEN frame ELSE toClient[k - 1]
      <4> SUFFICES ASSUME NEW k \in 1..Len(toClient) + 1
                   PROVE  InsertAt(toClient, i, frame)[k] =
                     IF k < i THEN toClient[k] ELSE IF k = i THEN frame ELSE toClient[k - 1]
        OBVIOUS
      <4> HIDE DEF ClientFrames
      <4>1. QED
        BY <3>1, <3>2, InsertAtProperties
    <3>5. QED
      BY <2>1, <3>3, <3>4
  <2>3. DOMAIN toClient' = 1..Len(toClient) + 1
    BY <2>2
  <2>4. ASSUME NEW k \in 1..Len(toClient) + 1
        PROVE  toClient'[k] = frame \/ \E j \in DOMAIN toClient : toClient'[k] = toClient[j]
    <3>1. k < i => k \in DOMAIN toClient
      BY <1>1
    <3>2. ~(k < i) /\ k # i => k - 1 \in DOMAIN toClient
      BY <1>1
    <3>3. QED
      BY <2>2, <3>1, <3>2
  <2>5. ASSUME policy.inOrder, NEW k \in 1..Len(toClient) + 1
        PROVE  \/ k \in DOMAIN toClient /\ toClient'[k] = toClient[k]
               \/ k = Len(toClient) + 1 /\ toClient'[k] = frame
    BY <1>1, <2>1, <2>2, <2>5
  <2>6. QED
    BY <2>2, <2>3, <2>4, <2>5
<1>4. QED
  BY <1>2, <1>3

LEMMA ReplyKeeps ==
  ASSUME SocketInv, NEW frame \in ClientFrames, Reply(frame),
         UNCHANGED <<authSettled, policy>>, stored \subseteq stored',
         connAuthed' \in BOOLEAN, connAuthed => connAuthed',
         frame.type = "OK" /\ frame.verdict = "ok" => frame.event \in stored',
         Accepts(frame) => connAuthed',
         Refuses(frame) => ~connAuthed
  PROVE  OksAreStored' /\ AuthComesFirst' /\ toClient' \in Seq(ClientFrames)
<1> USE DEF SocketInv
<1>1. /\ toClient' \in Seq(ClientFrames)
      /\ \A k \in DOMAIN toClient' :
           toClient'[k] = frame \/ \E j \in DOMAIN toClient : toClient'[k] = toClient[j]
  BY ReplyCases
<1>2. policy.inOrder => \A k \in DOMAIN toClient' :
           \/ k \in DOMAIN toClient /\ toClient'[k] = toClient[k]
           \/ k = Len(toClient) + 1 /\ toClient'[k] = frame
  BY ReplyCases
<1>3. OksAreStored'
  BY <1>1 DEF OksAreStored
<1>4. authSettled' => connAuthed'
  BY DEF AuthComesFirst
<1>5. \A i \in DOMAIN toClient' : Accepts(toClient'[i]) => connAuthed'
  BY <1>1 DEF AuthComesFirst
<1>6. ASSUME policy'.inOrder, authSettled', NEW i \in DOMAIN toClient'
      PROVE  ~Refuses(toClient'[i])
  BY <1>1, <1>6 DEF AuthComesFirst
<1>7. ASSUME policy'.inOrder, NEW i \in DOMAIN toClient', NEW j \in DOMAIN toClient', i < j,
             Accepts(toClient'[i])
      PROVE  ~Refuses(toClient'[j])
  <2>1. i \in DOMAIN toClient /\ toClient'[i] = toClient[i]
    <3>1. DOMAIN toClient = 1..Len(toClient) /\ Len(toClient) \in Nat
      BY DEF TypeOK
    <3>2. i \in Nat /\ j \in Nat /\ j <= Len(toClient) + 1
      <4>1. j \in DOMAIN toClient \/ j = Len(toClient) + 1
        BY <1>2, <1>7
      <4>2. i \in DOMAIN toClient \/ i = Len(toClient) + 1
        BY <1>2, <1>7
      <4>3. QED
        BY <3>1, <4>1, <4>2
    <3>3. i # Len(toClient) + 1
      BY <1>7, <3>1, <3>2
    <3>4. QED
      BY <1>2, <1>7, <3>3
  <2>2. CASE j \in DOMAIN toClient /\ toClient'[j] = toClient[j]
    BY <1>7, <2>1, <2>2 DEF AuthComesFirst
  <2>3. CASE toClient'[j] = frame
    BY <1>7, <2>1, <2>3 DEF AuthComesFirst
  <2>4. QED
    BY <1>2, <1>7, <2>2, <2>3
<1>8. QED
  BY <1>1, <1>3, <1>4, <1>5, <1>6, <1>7 DEF AuthComesFirst

LEMMA ChallengeStep == SocketInv /\ Challenge => SocketInv'
<1> SUFFICES ASSUME SocketInv, Challenge PROVE SocketInv'
  OBVIOUS
<1> USE DEF SocketInv, connVars, authVars, relayVars, budgetVars
<1>1. challenges' \in Nat /\ Reply(AuthFrame(challenges'))
      /\ UNCHANGED <<connVars, authVars, call, toRelay, relayVars, budgetVars>>
  <2>1. challenges \in Nat /\ challenges' = challenges + 1
    BY DEF Challenge, TypeOK
  <2>2. QED
    BY <2>1 DEF Challenge
<1>2. /\ AuthFrame(challenges') \in ClientFrames /\ AuthFrame(challenges').type = "AUTH"
  BY <1>1 DEF AuthFrame, ClientFrames
<1>3. OksAreStored' /\ AuthComesFirst' /\ toClient' \in Seq(ClientFrames)
  <2>1. connAuthed' \in BOOLEAN
    BY <1>1 DEF TypeOK
  <2>2. ~Accepts(AuthFrame(challenges')) /\ ~Refuses(AuthFrame(challenges'))
    BY <1>2 DEF Accepts, Refuses
  <2>3. QED
    BY <1>1, <1>2, <2>1, <2>2, ReplyKeeps
<1>4. TypeOK' /\ CallFits'
  BY <1>1, <1>3 DEF TypeOK, CallFits
<1>5. QED
  BY <1>3, <1>4

LEMMA RelayStep == SocketInv /\ RelayTakes => SocketInv'
<1> SUFFICES ASSUME SocketInv, RelayTakes PROVE SocketInv'
  OBVIOUS
<1> USE DEF SocketInv, connVars, authVars, relayVars, budgetVars
<1> DEFINE frame == Head(toRelay)
<1>1. /\ toRelay # <<>> /\ toRelay' = Tail(toRelay)
      /\ RelayAuth(frame) \/ RelayEvent(frame)
      /\ UNCHANGED <<connVars, authVars, call, challenges, late, policy, budgetVars>>
  BY DEF RelayTakes
<1>2. frame \in RelayFrames /\ toRelay' \in Seq(RelayFrames)
  BY <1>1, TailProperties DEF TypeOK
<1> HIDE DEF frame
<1>3. /\ OksAreStored' /\ AuthComesFirst' /\ toClient' \in Seq(ClientFrames)
      /\ connAuthed' \in BOOLEAN /\ stored' \subseteq Event
  <2>1. CASE RelayAuth(frame)
    <3>1. PICK ok \in BOOLEAN, silent \in BOOLEAN :
            /\ connAuthed' = (connAuthed \/ ok)
            /\ IF silent THEN UNCHANGED toClient ELSE Reply(AuthOkFrame(frame.challenge, ok))
      BY <2>1 DEF RelayAuth
    <3>2. frame.challenge \in Nat /\ UNCHANGED stored
      BY <1>2, <2>1 DEF RelayAuth, RelayFrames
    <3>3. connAuthed' \in BOOLEAN /\ (connAuthed => connAuthed')
      BY <3>1 DEF TypeOK
    <3>4. CASE silent
      BY <1>1, <3>1, <3>2, <3>3, <3>4 DEF OksAreStored, AuthComesFirst, TypeOK
    <3>5. CASE ~silent
      <4>1. /\ AuthOkFrame(frame.challenge, ok) \in ClientFrames
            /\ AuthOkFrame(frame.challenge, ok).type = "AUTHOK"
            /\ AuthOkFrame(frame.challenge, ok).ok = ok
        BY <3>2 DEF AuthOkFrame, ClientFrames
      <4>2. Reply(AuthOkFrame(frame.challenge, ok))
        BY <3>1, <3>5
      <4>3. /\ Accepts(AuthOkFrame(frame.challenge, ok)) => connAuthed'
            /\ ~Refuses(AuthOkFrame(frame.challenge, ok))
        BY <3>1, <4>1 DEF Accepts, Refuses
      <4>4. QED
        BY <1>1, <3>2, <3>3, <4>1, <4>2, <4>3, ReplyKeeps DEF TypeOK
    <3>6. QED
      BY <3>4, <3>5
  <2>2. CASE RelayEvent(frame)
    <3>1. PICK verdict \in (IF policy.requiresAuth /\ ~connAuthed THEN {"auth-required"}
                                                                 ELSE {"ok", "rejected"}),
               silent \in BOOLEAN :
            /\ stored' = IF verdict = "ok" THEN stored \cup {frame.event} ELSE stored
            /\ IF silent THEN UNCHANGED toClient ELSE Reply(OkFrame(frame.event, verdict))
      BY <2>2 DEF RelayEvent
    <3>2. frame.event \in Event /\ UNCHANGED connAuthed
      BY <1>2, <2>2 DEF RelayEvent, RelayFrames
    <3>3. /\ verdict \in {"ok", "rejected", "auth-required"}
          /\ verdict = "auth-required" => ~connAuthed
      BY <3>1
    <3>4. connAuthed' \in BOOLEAN /\ stored' \subseteq Event /\ stored \subseteq stored'
      BY <3>1, <3>2 DEF TypeOK
    <3>5. CASE silent
      BY <1>1, <3>1, <3>2, <3>4, <3>5, AnswersAside DEF TypeOK
    <3>6. CASE ~silent
      <4>1. /\ OkFrame(frame.event, verdict) \in ClientFrames
            /\ OkFrame(frame.event, verdict).type = "OK"
            /\ OkFrame(frame.event, verdict).verdict = verdict
            /\ OkFrame(frame.event, verdict).event = frame.event
        BY <3>2, <3>3 DEF OkFrame, ClientFrames
      <4>2. Reply(OkFrame(frame.event, verdict))
        BY <3>1, <3>6
      <4>3. /\ ~Accepts(OkFrame(frame.event, verdict))
            /\ Refuses(OkFrame(frame.event, verdict)) => ~connAuthed
            /\ verdict = "ok" => frame.event \in stored'
        BY <3>1, <3>3, <4>1 DEF Accepts, Refuses
      <4>4. QED
        BY <1>1, <3>2, <3>4, <4>1, <4>2, <4>3, ReplyKeeps
    <3>7. QED
      BY <3>5, <3>6
  <2>3. QED
    BY <1>1, <2>1, <2>2
<1>4. TypeOK' /\ CallFits'
  BY <1>1, <1>2, <1>3 DEF TypeOK, CallFits
<1>5. QED
  BY <1>3, <1>4

LEMMA StepHolds == SocketInv /\ [Next]_vars => SocketInv'
<1> SUFFICES ASSUME SocketInv, [Next]_vars PROVE SocketInv'
  OBVIOUS
<1>1. CASE UNCHANGED vars
  BY <1>1 DEF vars, connVars, authVars, relayVars, budgetVars, SocketInv, TypeOK, CallFits,
              OksAreStored, AuthComesFirst, Refuses, Accepts
<1>2. CASE Next
  BY <1>2, PublishSteps, ConnectionSteps, LossSteps, MessageStep, ChallengeStep, RelayStep DEF Next
<1>3. QED
  BY <1>1, <1>2

\* The types hold; a waiting call has written its event once or twice as its place says;
\* an OK under way is of an event the relay has; and no auth-required comes after the
\* relay accepted the AUTH, if it answers in order.
THEOREM SocketInvariant == Spec => []SocketInv
<1>1. QED
  BY InitHolds, StepHolds, PTL DEF Spec
-----------------------------------------------------------------------------
(* The retry *)

\* From a relay that answers in the order it was asked, publish returns auth-required only
\* for a retry, or when the wait for the AUTH failed: never for a first write that an AUTH
\* under way could still have carried through.
THEOREM RetryComesFirst == Spec => RetriedInOrder
<1>1. ASSUME SocketInv, [Next]_vars, policy.inOrder PROVE Retried
  <2> SUFFICES ASSUME AnsweredNow, call'.answer = "auth-required"
               PROVE  call.sends = 2 \/ (call.at = "reauth" /\ ~authSettled')
    BY DEF Retried
  <2> USE <1>1 DEF SocketInv, AnsweredNow, authVars
  <2>1. call' # call
    OBVIOUS
  <2>2. /\ Answered("unsent").answer = "unsent" /\ Answered("timeout").answer = "timeout"
        /\ Answered("abandoned").answer = "abandoned"
    BY AnsweredFits DEF TypeOK
  <2>3. CASE UNCHANGED vars
    BY <2>1, <2>3 DEF vars
  <2>4. CASE \E e \in Event : Publish(e) \/ RelayStoresLate(e)
    BY <2>1, <2>4 DEF Publish, RelayStoresLate
  <2>5. CASE AwaitOpen
    <3>1. \/ call' = Answered("unsent") \/ call' = [call EXCEPT !.at = "auth"]
          \/ call' = [call EXCEPT !.at = "ack", !.sends = call.sends + 1]
      BY <2>5 DEF AwaitOpen, SendAndAwaitAck, TypeOK, Calls
    <3>2. QED
      BY <2>2, <3>1 DEF TypeOK, Calls
  <2>6. CASE AckTimeout \/ Close
    BY <2>2, <2>6 DEF AckTimeout, Close
  <2>7. ASSUME NEW ok \in BOOLEAN, AuthWaiters(ok), ~ok => ~authSettled'
        PROVE  call.sends = 2 \/ (call.at = "reauth" /\ ~authSettled')
    <3>1. ~Writes
      BY DEF Writes, Written, TypeOK, Calls
    <3>2. QED
      BY <2>1, <2>2, <2>7, <3>1, WaiterCases DEF GivesUp
  <2>8. CASE AuthTimeout
    <3>1. CASE call.at = "reauth"
      <4>1. ~authSettled'
        BY <2>8, <3>1 DEF AuthTimeout, CallFits
      <4>2. QED
        BY <3>1, <4>1
    <3>2. CASE call.at = "auth"
      <4>1. SendAndAwaitAck("ack") /\ CallFits
        BY <2>8, <3>2 DEF AuthTimeout, AuthWaiters
      <4>2. call' = Answered("unsent") \/ call' = Written("ack")
        BY <3>2, <4>1, SendCases
      <4>3. QED
        BY <2>2, <4>2 DEF Written, TypeOK, Calls
    <3>3. QED
      BY <2>8, <3>1, <3>2 DEF AuthTimeout
  <2>9. CASE OnOpen \/ ConnectTimeout \/ Lost(TRUE) \/ Lost(FALSE)
    BY <2>1, <2>9 DEF OnOpen, ConnectTimeout, Lost
  <2>10. CASE Replace \/ Challenge \/ RelayTakes
    BY <2>1, <2>10 DEF Replace, Challenge, RelayTakes
  <2>11. CASE OnClose
    <3>1. call' = Answered("unsent") \/ (call.at = "reauth" /\ UNCHANGED authSettled)
      BY <2>1, <2>11 DEF OnClose, FlushPending
    <3>2. QED
      BY <2>2, <3>1 DEF CallFits
  <2>12. CASE OnMessage
    <3> DEFINE frame == Head(toClient)
    <3>1. frame \in ClientFrames /\ frame = toClient[1] /\ 1 \in DOMAIN toClient
      BY <2>12, TailProperties DEF OnMessage, TypeOK
    <3>2. OnChallenge(frame) \/ OnAuthOk(frame) \/ OnOk(frame)
      BY <2>12 DEF OnMessage
    <3> HIDE DEF frame
    <3>3. CASE OnChallenge(frame)
      BY <2>1, <3>3 DEF OnChallenge
    <3>4. CASE OnAuthOk(frame)
      <4>1. frame.ok \in BOOLEAN
        BY <3>1, <3>4 DEF OnAuthOk, ClientFrames
      <4>2. AuthWaiters(frame.ok) /\ authSettled' = frame.ok
        BY <2>1, <3>4 DEF OnAuthOk
      <4>3. QED
        BY <2>7, <4>1, <4>2
    <3>5. CASE OnOk(frame)
      <4>1. frame.type = "OK" /\ frame.verdict \in {"ok", "rejected", "auth-required"}
        BY <3>1, <3>5 DEF OnOk, ClientFrames
      <4>2. \/ call' = [call EXCEPT !.at = "reauth"]
            \/ /\ call' = Answered(frame.verdict) /\ call.at \in {"ack", "ack2"}
               /\ ~(call.at = "ack" /\ frame.verdict = "auth-required" /\ ~authSettled)
        BY <2>1, <3>5 DEF OnOk
      <4>3. call' = Answered(frame.verdict)
        BY <4>2 DEF TypeOK, Calls
      <4>4. Refuses(frame)
        BY <4>1, <4>3, AnsweredFits DEF Refuses, TypeOK
      <4>5. ~authSettled
        BY <1>1, <3>1, <4>4 DEF AuthComesFirst
      <4>6. call.at = "ack2"
        BY <4>1, <4>2, <4>3, <4>4, <4>5 DEF Refuses, TypeOK, Calls
      <4>7. QED
        BY <4>6 DEF CallFits
    <3>6. QED
      BY <3>2, <3>3, <3>4, <3>5
  <2>13. QED
    BY <1>1, <2>3, <2>4, <2>5, <2>6, <2>8, <2>9, <2>10, <2>11, <2>12 DEF Next
<1>2. SocketInv /\ [Next]_vars => [policy.inOrder => Retried]_vars
  BY <1>1
<1>3. QED
  BY <1>2, SocketInvariant, PTL DEF Spec, RetriedInOrder
-----------------------------------------------------------------------------
(* The refinement.  Verdict and Wire are what Publication's answer and wire  *)
(* stand for.                                                                *)

Verdict == IF call.answer \in {"none", "ok"} THEN call.answer ELSE "no"
Wire == (late \cup OnTheWire \cup ({Pending} \ {NoEvent})) \ stored

\* A step that leaves the caller's call and what may be stored alone.
LEMMA StutterMaps ==
  ASSUME UNCHANGED <<call, stored>>, Wire' = Wire
  PROVE  UNCHANGED Abstract!vars
BY DEF Wire, Pending, OnTheWire, Abstract!vars

\* The events on the wire after a write.
LEMMA WrittenWire ==
  ASSUME TypeOK, NEW frame \in RelayFrames, toRelay' = Append(toRelay, frame)
  PROVE  OnTheWire' = OnTheWire \cup (IF frame.type = "EVENT" THEN {frame.event} ELSE {})
<1>1. ToSet(toRelay)' = ToSet(toRelay) \cup {frame}
  BY AppendMembers DEF TypeOK
<1>2. QED
  BY <1>1 DEF OnTheWire

\* A call that is answered, with ok only when the event is stored.
LEMMA AnsweredMaps ==
  ASSUME SocketInv, call.at # "idle", UNCHANGED <<late, toRelay, stored>>,
         NEW v \in {"ok", "rejected", "auth-required", "unsent", "timeout", "abandoned"},
         call' = Answered(v), v = "ok" => call.event \in stored
  PROVE  Abstract!Answer
<1>1. call.event \in Event /\ call.event # NoEvent
  BY AuthSocketAssumption DEF SocketInv, CallFits
<1>2. call'.at = "idle" /\ call'.answer = v
  BY AnsweredFits DEF SocketInv, TypeOK
<1>3. Pending = call.event /\ Pending' = NoEvent
  BY <1>2 DEF Pending
<1>4. Verdict' = IF v = "ok" THEN "ok" ELSE "no"
  BY <1>2 DEF Verdict
<1>5. OnTheWire' = OnTheWire
  BY DEF OnTheWire
<1>6. Wire' \in {Wire, Wire \ {Pending}}
  BY <1>3, <1>5 DEF Wire
<1>7. QED
  BY <1>1, <1>3, <1>4, <1>6 DEF Abstract!Answer, Wire, Verdict

\* A call that writes its event: it could be stored already.
LEMMA WritesMap ==
  ASSUME SocketInv, Writes, UNCHANGED <<late, stored>>
  PROVE  UNCHANGED Abstract!vars
<1>1. call.event \in Event
  BY DEF Writes, SocketInv, CallFits
<1>2. PICK at \in {"ack", "ack2"} : call' = Written(at)
  BY DEF Writes
<1>3. call'.at = at /\ call'.event = call.event /\ call'.answer = call.answer
  BY <1>2 DEF Written, SocketInv, TypeOK, Calls
<1>4. /\ EventFrame(call.event) \in RelayFrames
      /\ EventFrame(call.event).type = "EVENT" /\ EventFrame(call.event).event = call.event
  BY <1>1 DEF EventFrame, RelayFrames
<1>5. OnTheWire' = OnTheWire \cup {call.event}
  BY <1>4, WrittenWire DEF Writes, SocketInv
<1>6. Pending = call.event /\ Pending' = Pending /\ call.event # NoEvent
  BY <1>1, <1>3, AuthSocketAssumption DEF Pending, Writes
<1>7. Wire' = Wire
  BY <1>5, <1>6 DEF Wire
<1>8. Verdict' = Verdict
  BY <1>3 DEF Verdict
<1>9. QED
  BY <1>6, <1>7, <1>8 DEF Abstract!vars, Wire, Verdict

LEMMA WaiterMaps ==
  ASSUME SocketInv, NEW ok \in BOOLEAN, AuthWaiters(ok), UNCHANGED <<late, stored>>
  PROVE  Abstract!Answer \/ UNCHANGED Abstract!vars
<1>1. UNCHANGED <<call, toRelay>> \/ GivesUp(ok) \/ Writes
  BY WaiterCases DEF SocketInv
<1>2. CASE UNCHANGED <<call, toRelay>>
  BY <1>2, StutterMaps DEF Wire, Pending, OnTheWire
<1>3. CASE GivesUp(ok)
  BY <1>3, AnsweredMaps DEF GivesUp
<1>4. CASE Writes
  BY <1>4, WritesMap
<1>5. QED
  BY <1>1, <1>2, <1>3, <1>4

\* A message has no part in what may be stored; it may answer the call.
LEMMA MessageMaps ==
  ASSUME SocketInv, OnMessage
  PROVE  Abstract!Answer \/ UNCHANGED Abstract!vars
<1> USE DEF SocketInv, connVars, authVars, relayVars, budgetVars
<1> DEFINE frame == Head(toClient)
<1>1. /\ frame \in ClientFrames /\ frame = toClient[1] /\ 1 \in DOMAIN toClient
      /\ UNCHANGED <<late, stored>>
  BY TailProperties DEF OnMessage, TypeOK
<1>2. OnChallenge(frame) \/ OnAuthOk(frame) \/ OnOk(frame)
  BY DEF OnMessage
<1> HIDE DEF frame
<1>3. CASE OnChallenge(frame)
  <2>1. UNCHANGED call /\ (toRelay' = toRelay \/ toRelay' = Append(toRelay, frame))
    BY <1>3 DEF OnChallenge
  <2>2. frame \in RelayFrames /\ frame.type = "AUTH"
    BY <1>1, <1>3 DEF OnChallenge, ClientFrames, RelayFrames
  <2>3. OnTheWire' = OnTheWire
    <3>1. CASE toRelay' = toRelay
      BY <3>1 DEF OnTheWire
    <3>2. CASE toRelay' = Append(toRelay, frame)
      BY <2>2, <3>2, WrittenWire
    <3>3. QED
      BY <2>1, <3>1, <3>2
  <2>4. QED
    BY <1>1, <2>1, <2>3, StutterMaps DEF Wire, Pending
<1>4. CASE OnAuthOk(frame)
  <2>1. frame.ok \in BOOLEAN
    BY <1>1, <1>4 DEF OnAuthOk, ClientFrames
  <2>2. AuthWaiters(frame.ok) \/ UNCHANGED <<call, toRelay>>
    BY <1>4 DEF OnAuthOk
  <2>3. CASE AuthWaiters(frame.ok)
    BY <1>1, <2>1, <2>3, WaiterMaps
  <2>4. CASE UNCHANGED <<call, toRelay>>
    BY <1>1, <2>4, StutterMaps DEF Wire, Pending, OnTheWire
  <2>5. QED
    BY <2>2, <2>3, <2>4
<1>5. CASE OnOk(frame)
  <2>1. frame.type = "OK" /\ frame.verdict \in {"ok", "rejected", "auth-required"}
    BY <1>1, <1>5 DEF OnOk, ClientFrames
  <2>2. UNCHANGED toRelay
    BY <1>5 DEF OnOk
  <2>3. OnTheWire' = OnTheWire
    BY <2>2 DEF OnTheWire
  <2>4. \/ call' = call
        \/ call' = [call EXCEPT !.at = "reauth"] /\ call.at = "ack"
        \/ /\ call' = Answered(frame.verdict) /\ call.at \in {"ack", "ack2"}
           /\ call.event = frame.event
    BY <1>5 DEF OnOk
  <2>5. CASE call' = call
    BY <1>1, <2>3, <2>5, StutterMaps DEF Wire, Pending
  <2>6. CASE call' = [call EXCEPT !.at = "reauth"] /\ call.at = "ack"
    <3>1. call'.at = "reauth" /\ call'.event = call.event /\ call'.answer = call.answer
      BY <2>6 DEF TypeOK, Calls
    <3>2. Pending' = Pending /\ Verdict' = Verdict
      BY <2>6, <3>1 DEF Pending, Verdict
    <3>3. Wire' = Wire
      BY <1>1, <2>3, <3>2 DEF Wire
    <3>4. QED
      BY <1>1, <3>2, <3>3 DEF Abstract!vars, Wire, Verdict
  <2>7. CASE /\ call' = Answered(frame.verdict) /\ call.at \in {"ack", "ack2"}
             /\ call.event = frame.event
    <3>1. frame.verdict = "ok" => call.event \in stored
      BY <1>1, <2>1, <2>7 DEF OksAreStored
    <3>2. QED
      BY <1>1, <2>1, <2>2, <2>7, <3>1, AnsweredMaps
  <2>8. QED
    BY <2>4, <2>5, <2>6, <2>7
<1>6. QED
  BY <1>2, <1>3, <1>4, <1>5

LEMMA PublishMaps ==
  ASSUME SocketInv, NEW e \in Event, Publish(e)
  PROVE  Abstract!Call(e)
<1>1. /\ call' = [NoCall EXCEPT !.at = "opening", !.event = e]
      /\ UNCHANGED <<late, toRelay, stored>> /\ call.at = "idle" /\ e # NoEvent
  BY AuthSocketAssumption DEF Publish, relayVars
<1>2. call'.at = "opening" /\ call'.event = e /\ call'.answer = "none"
  BY <1>1 DEF NoCall
<1>3. Pending = NoEvent /\ Pending' = e /\ Verdict' = "none" /\ OnTheWire' = OnTheWire
  BY <1>1, <1>2 DEF Pending, Verdict, OnTheWire
<1>4. Wire' = Wire \cup ({e} \ stored)
  BY <1>1, <1>3 DEF Wire
<1>5. QED
  BY <1>1, <1>3, <1>4 DEF Abstract!Call, Wire, Verdict

\* The callbacks and timers that give a call up, write its event, or leave it.
LEMMA CallerMaps ==
  ASSUME SocketInv, AwaitOpen \/ AckTimeout \/ AuthTimeout \/ OnClose \/ Close
  PROVE  Abstract!Answer \/ UNCHANGED Abstract!vars
<1> USE DEF SocketInv, connVars, authVars, relayVars, budgetVars
<1>1. UNCHANGED <<late, stored>>
  BY DEF AwaitOpen, AckTimeout, AuthTimeout, OnClose, Close
<1>2. CASE AwaitOpen
  <2>1. CASE openPromise = "failed"
    BY <1>1, <1>2, <2>1, AnsweredMaps DEF AwaitOpen
  <2>2. CASE openPromise # "failed" /\ authChallenge # 0 /\ ~authSettled
    <3>1. call' = [call EXCEPT !.at = "auth"] /\ UNCHANGED toRelay /\ call.at = "opening"
      BY <1>2, <2>2 DEF AwaitOpen
    <3>2. call'.at = "auth" /\ call'.event = call.event /\ call'.answer = call.answer
      BY <3>1 DEF TypeOK, Calls
    <3>3. Pending' = Pending /\ Verdict' = Verdict /\ OnTheWire' = OnTheWire
      BY <3>1, <3>2 DEF Pending, Verdict, OnTheWire
    <3>4. Wire' = Wire
      BY <1>1, <3>3 DEF Wire
    <3>5. QED
      BY <1>1, <3>3, <3>4 DEF Abstract!vars, Wire, Verdict
  <2>3. CASE openPromise # "failed" /\ ~(authChallenge # 0 /\ ~authSettled)
    <3>1. SendAndAwaitAck("ack") /\ call.at = "opening"
      BY <1>2, <2>3 DEF AwaitOpen
    <3>2. \/ call' = Answered("unsent") /\ UNCHANGED toRelay
          \/ Writes
      BY <3>1, SendCases DEF Writes
    <3>3. QED
      BY <1>1, <3>1, <3>2, AnsweredMaps, WritesMap
  <2>4. QED
    BY <2>1, <2>2, <2>3
<1>3. CASE AckTimeout
  BY <1>1, <1>3, AnsweredMaps DEF AckTimeout
<1>4. CASE AuthTimeout
  BY <1>1, <1>4, WaiterMaps DEF AuthTimeout
<1>5. CASE OnClose
  <2>1. \/ call' = Answered("unsent") /\ call.at # "idle"
        \/ call' = Answered("auth-required") /\ call.at # "idle"
        \/ call' = call
    BY <1>5 DEF OnClose, FlushPending
  <2>2. UNCHANGED toRelay
    BY <1>5 DEF OnClose
  <2>3. CASE call' = call
    BY <1>1, <2>2, <2>3, StutterMaps DEF Wire, Pending, OnTheWire
  <2>4. QED
    BY <1>1, <2>1, <2>2, <2>3, AnsweredMaps
<1>6. CASE Close
  BY <1>1, <1>6, AnsweredMaps DEF Close
<1>7. QED
  BY <1>2, <1>3, <1>4, <1>5, <1>6

LEMMA ReplaceMaps ==
  ASSUME SocketInv, Replace
  PROVE  UNCHANGED Abstract!vars
<1>1. /\ toRelay' = <<>> /\ late' = late \cup (OnTheWire \ stored)
      /\ UNCHANGED <<call, stored>>
  BY DEF Replace, NewConnection
<1>2. OnTheWire' = {}
  BY <1>1 DEF OnTheWire, ToSet
<1>3. Wire' = Wire
  BY <1>1, <1>2 DEF Wire, Pending
<1>4. QED
  BY <1>1, <1>3, StutterMaps

\* An event of an earlier connection may be stored twice: the second time changes nothing.
LEMMA LateMaps ==
  ASSUME SocketInv, NEW e \in Event, RelayStoresLate(e)
  PROVE  Abstract!Store(e) \/ UNCHANGED Abstract!vars
<1>1. /\ e \in late /\ stored' = stored \cup {e} /\ late' = late \ {e}
      /\ UNCHANGED <<call, toRelay>>
  BY DEF RelayStoresLate
<1>2. OnTheWire' = OnTheWire /\ Pending' = Pending /\ Verdict' = Verdict
  BY <1>1 DEF OnTheWire, Pending, Verdict
<1>3. CASE e \in stored
  <2>1. Wire' = Wire
    BY <1>1, <1>2, <1>3 DEF Wire
  <2>2. QED
    BY <1>1, <1>3, <2>1, StutterMaps
<1>4. CASE e \notin stored
  <2>1. e \in Wire /\ Wire' = Wire \ {e}
    BY <1>1, <1>2, <1>4 DEF Wire
  <2>2. QED
    BY <1>1, <1>2, <2>1 DEF Abstract!Store, Wire, Verdict
<1>5. QED
  BY <1>3, <1>4

\* The relay takes a frame: it stores the event, or the event is lost.
LEMMA RelayMaps ==
  ASSUME SocketInv, RelayTakes
  PROVE  Abstract!Lose \/ UNCHANGED Abstract!vars \/ \E e \in Event : Abstract!Store(e)
<1> USE DEF SocketInv
<1> DEFINE frame == Head(toRelay)
<1>1. /\ toRelay # <<>> /\ toRelay' = Tail(toRelay)
      /\ RelayAuth(frame) \/ RelayEvent(frame)
      /\ UNCHANGED <<call, late>>
  BY DEF RelayTakes
<1>2. frame \in RelayFrames /\ ToSet(toRelay) = ToSet(toRelay)' \cup {frame}
  BY <1>1, TailProperties DEF TypeOK
<1> HIDE DEF frame
<1>3. Pending' = Pending /\ Verdict' = Verdict
  BY <1>1 DEF Pending, Verdict
<1>4. CASE RelayAuth(frame)
  <2>1. UNCHANGED stored /\ frame.type = "AUTH"
    BY <1>4 DEF RelayAuth
  <2>2. OnTheWire' = OnTheWire
    BY <1>2, <2>1 DEF OnTheWire
  <2>3. QED
    BY <1>1, <1>3, <2>1, <2>2, StutterMaps DEF Wire
<1>5. CASE RelayEvent(frame)
  <2>1. frame.type = "EVENT" /\ frame.event \in Event
    BY <1>2, <1>5 DEF RelayEvent, RelayFrames
  <2>2. OnTheWire = OnTheWire' \cup {frame.event}
    BY <1>2, <2>1 DEF OnTheWire
  <2>3. stored' = stored \/ stored' = stored \cup {frame.event}
    BY <1>5 DEF RelayEvent
  <2>4. CASE stored' = stored
    <3>1. Wire' \subseteq Wire
      BY <1>1, <1>3, <2>2, <2>4 DEF Wire
    <3>2. Pending \in Wire => Pending \in Wire'
      <4>1. Pending # NoEvent /\ Pending \notin stored => Pending \in Wire'
        BY <1>3, <2>4 DEF Wire
      <4>2. NoEvent \notin Wire
        <5>1. OnTheWire \subseteq Event
          BY DEF OnTheWire, ToSet, TypeOK, RelayFrames
        <5>2. QED
          BY <5>1, AuthSocketAssumption DEF Wire, TypeOK
      <4>3. QED
        BY <4>1, <4>2 DEF Wire
    <3>3. QED
      BY <1>3, <2>4, <3>1, <3>2 DEF Abstract!Lose, Wire, Verdict
  <2>5. CASE stored' = stored \cup {frame.event} /\ frame.event \notin stored
    <3>1. frame.event \in Wire
      BY <2>2, <2>5 DEF Wire
    <3>2. Wire' = Wire \ {frame.event}
      BY <1>1, <1>3, <2>2, <2>5 DEF Wire
    <3>3. QED
      BY <1>3, <2>1, <2>5, <3>1, <3>2 DEF Abstract!Store, Wire, Verdict
  <2>6. QED
    BY <2>3, <2>4, <2>5
<1>6. QED
  BY <1>1, <1>4, <1>5

LEMMA AsideMaps ==
  ASSUME OnOpen \/ ConnectTimeout \/ Lost(TRUE) \/ Lost(FALSE) \/ Challenge \/ UNCHANGED vars
  PROVE  UNCHANGED Abstract!vars
<1>1. UNCHANGED <<call, toRelay, late, stored>>
  BY DEF OnOpen, ConnectTimeout, Lost, Challenge, vars, relayVars
<1>2. Wire' = Wire
  BY <1>1 DEF Wire, Pending, OnTheWire
<1>3. QED
  BY <1>1, <1>2, StutterMaps

LEMMA InitMaps == Init => Abstract!Init
<1> SUFFICES ASSUME Init PROVE Abstract!Init
  OBVIOUS
<1>1. Pending = NoEvent /\ Verdict = "none"
  BY DEF Init, NoCall, Pending, Verdict
<1>2. OnTheWire = {}
  BY DEF Init, OnTheWire, ToSet
<1>3. Wire = {} /\ stored = {}
  BY <1>1, <1>2 DEF Init, Wire
<1>4. QED
  BY <1>1, <1>3 DEF Abstract!Init, Wire, Verdict

\* Whatever the connection and the relay do, each step of the socket is one that
\* Publication allows: a call is answered once, with ok only for an event the relay has
\* stored, and what was written may still be stored later or be lost.  (That the answer
\* comes is liveness, which stays with the run.)
THEOREM SocketImplements == Spec => Abstract!Spec
<1>1. SocketInv /\ [Next]_vars => [Abstract!Next]_(Abstract!vars)
  <2> SUFFICES ASSUME SocketInv, [Next]_vars
               PROVE  Abstract!Next \/ UNCHANGED Abstract!vars
    OBVIOUS
  <2>1. ASSUME NEW e \in Event, Publish(e) PROVE Abstract!Next
    BY <2>1, PublishMaps DEF Abstract!Next
  <2>2. ASSUME NEW e \in Event, RelayStoresLate(e)
        PROVE  Abstract!Next \/ UNCHANGED Abstract!vars
    BY <2>2, LateMaps DEF Abstract!Next
  <2>3. ASSUME AwaitOpen \/ AckTimeout \/ AuthTimeout \/ OnClose \/ Close
        PROVE  Abstract!Next \/ UNCHANGED Abstract!vars
    BY <2>3, CallerMaps DEF Abstract!Next
  <2>4. ASSUME OnMessage PROVE Abstract!Next \/ UNCHANGED Abstract!vars
    BY <2>4, MessageMaps DEF Abstract!Next
  <2>5. ASSUME RelayTakes PROVE Abstract!Next \/ UNCHANGED Abstract!vars
    BY <2>5, RelayMaps DEF Abstract!Next
  <2>6. ASSUME Replace PROVE UNCHANGED Abstract!vars
    BY <2>6, ReplaceMaps
  <2>7. ASSUME OnOpen \/ ConnectTimeout \/ Lost(TRUE) \/ Lost(FALSE) \/ Challenge
               \/ UNCHANGED vars
        PROVE  UNCHANGED Abstract!vars
    BY <2>7, AsideMaps
  <2>8. QED
    BY <2>1, <2>2, <2>3, <2>4, <2>5, <2>6, <2>7 DEF Next
<1>2. QED
  BY <1>1, InitMaps, SocketInvariant, PTL DEF Spec, Abstract!Spec
=============================================================================
