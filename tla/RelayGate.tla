------------------------------- MODULE RelayGate -------------------------------
(***************************************************************************)
(* What the relay decides without keeping state: the configuration it      *)
(* starts from (relay/internal/config/config.go), who a request comes from *)
(* and whether it is served (Hardened in relay/internal/relay/relay.go),   *)
(* how much one filter may ask for, and the gates an event passes before   *)
(* it is stored (relay/internal/gate/gate.go and Build in relay.go).       *)
(*                                                                         *)
(* An environment variable is the value it is parsed to, UNSET or BAD.     *)
(***************************************************************************)
EXTENDS Naturals, Sequences, FiniteSets, SequencesExt

CONSTANTS
  CanonicalTags,      \* the t values of the vocabulary
  Twins(_),           \* the demo, pilot and test mirrors of one of them
  Loopback,           \* transport addresses of the host itself
  MaxPast, MaxFuture, \* the default freshness window and maxFutureAge, in seconds
  MaxContent, MaxIndexableTags,
  MaxFilterAuthors, MaxFilterIDs, MaxFilterTagValues,
  UNSET, BAD          \* a variable that is not set, one that cannot be parsed

-----------------------------------------------------------------------------
(* Configuration *)

DefaultAcceptedTags == CanonicalTags \cup UNION {Twins(t) : t \in CanonicalTags}

\* FromEnv returns a configuration: everything that is set can be parsed, the
\* service URL is there, and neither list is empty.
Loads(env) ==
  /\ BAD \notin {env[name] : name \in DOMAIN env}
  /\ env.serviceURL # UNSET
  /\ env.allowedPubkeys \notin {UNSET, {}}
  /\ env.acceptedTags # {}
  /\ env.maxEventPastAge \notin {0}

FromEnv(env) ==
  [serviceURL |-> env.serviceURL,
   allowedPubkeys |-> env.allowedPubkeys,
   acceptedTags |-> IF env.acceptedTags = UNSET THEN DefaultAcceptedTags ELSE env.acceptedTags,
   maxEventPastAge |-> IF env.maxEventPastAge = UNSET THEN MaxPast ELSE env.maxEventPastAge,
   trustedProxies |-> IF env.trustedProxies = UNSET THEN {} ELSE env.trustedProxies]

-----------------------------------------------------------------------------
(* Requests.  A request has a transport peer, a forwarded-for address or none, *)
(* a path and a kind: a websocket upgrade, NIP-86 or any other HTTP.           *)

NoAddress == "none"

Trusted(cfg, peer) == peer \in Loopback \cup cfg.trustedProxies

\* A fault: whoever sets X-Forwarded-For is believed.
BelievedIP(cfg, request) ==
  IF request.forwardedFor # NoAddress THEN request.forwardedFor ELSE request.peer

\* What khatru's GetIP returns behind Hardened.
ClientIP(cfg, request) ==
  IF Trusted(cfg, request.peer) /\ request.forwardedFor # NoAddress
    THEN request.forwardedFor
    ELSE request.peer

IsOpsPath(path) == path \in {"/healthz", "/metrics"}

\* What Hardened lets through to khatru.
Served(request) ==
  /\ IsOpsPath(request.path) => request.peer \in Loopback
  /\ request.kind # "nip86"

FilterTooComplex(filter) ==
  \/ filter.authors > MaxFilterAuthors
  \/ filter.ids > MaxFilterIDs
  \/ filter.tagValues > MaxFilterTagValues

-----------------------------------------------------------------------------
(* Writes.  An event has an author, a kind, the t values it carries, the length *)
(* of its content, the number of its indexable tags and its created_at.         *)

NoKey == "no key"

\* AuthGate.Check; authed is the key of the connection.
AuthGate(cfg, authed, event) ==
  IF authed = NoKey THEN "auth-required"
  ELSE IF authed \notin cfg.allowedPubkeys THEN "blocked: publisher"
  ELSE IF event.author # authed THEN "blocked: author"
  ELSE ""

\* VocabularyGate.Check.
VocabularyGate(cfg, event) ==
  CASE event.kind = 5 -> ""
    [] event.kind = 1 -> IF event.t \cap cfg.acceptedTags # {} THEN "" ELSE "blocked: no t tag"
    [] OTHER          -> "blocked: kind"

\* The gates of Build, in order; khatru's policies reject what is over the bound.
Gates(cfg, authed, event, now) ==
  << AuthGate(cfg, authed, event),
     IF event.content > MaxContent THEN "too large" ELSE "",
     IF event.created_at + cfg.maxEventPastAge < now THEN "too old" ELSE "",
     IF event.created_at > now + MaxFuture THEN "in the future" ELSE "",
     IF event.kind \in {1, 5} /\ event.indexable > MaxIndexableTags THEN "too many tags" ELSE "",
     VocabularyGate(cfg, event) >>

\* Seq: the first gate that rejects wins; "" is an event that is stored.
WriteGate(cfg, authed, event, now) ==
  LET rejecting == SelectSeq(Gates(cfg, authed, event, now), LAMBDA msg : msg # "")
  IN IF rejecting = <<>> THEN "" ELSE Head(rejecting)
=============================================================================
