------------------------------- MODULE Validity -------------------------------
(***************************************************************************)
(* The Validity layer on events as they are on the wire: validateEvent of  *)
(* packages/core/src/validate.ts.  lookupEvent is membership in the events *)
(* seen so far.  Only what decides the verdict is modelled: errors and     *)
(* awaited ids; VER-3 never decides, an event it fires for has no type.    *)
(***************************************************************************)
EXTENDS Events

\* checkTags: TAG-1, TAG-2, TAG-3.
TagsOk(event) ==
  /\ CountOf(event.t, {FABRIC}) = 1
  /\ Len(VersionTags(event)) = 1
  /\ Len(TypeTags(event)) = 1

\* checkIndexers: IR-1, every i value has a prefix.
IndexersOk(event) == \A value \in ToSet(event.i) : value[1] # ""

\* checkPayloadGrammar: C1 and P2.  A line that starts with "--- " is the header.
GrammarOk(payload) ==
  LET headers == {n \in DOMAIN payload : payload[n] \in {"--- a/content", "--- other"}}
      header == CHOOSE n \in headers : \A m \in headers : n <= m
  IN /\ headers # {}
     /\ \A n \in 1..(header - 1) : payload[n] # "git metadata"
     /\ payload[header] = "--- a/content"
     /\ header < Len(payload) /\ payload[header + 1] = "+++ b/content"

\* checkPatchPayload: the first backtick-fenced diff block, if any (E2, E6, E7).
PayloadOk(event) ==
  LET payloads == SelectSeq(event.blocks, LAMBDA block : block.backticks /\ block.diff)
  IN payloads = <<>> \/ GrammarOk(Head(payloads).payload)

\* What a check returns: whether there is an error, and the ids it waits for.
Failed == [error |-> TRUE, awaiting |-> {}]
Waiting(ids) == [error |-> FALSE, awaiting |-> ids]

\* checkBinding: BD-1 to BD-6, BD-10.
CheckBinding(event, seen) ==
  LET roots == Marked(event, "root") links == Marked(event, "link")
      root == Head(roots).id link == Head(links).id
  IN IF \/ Len(roots) # 1 \/ Len(links) # 1
        \/ root \in seen /\ ScrutinyEventType(root) # "product"
        \/ link \in seen /\ ScrutinyEventType(link) # "metadata"
       THEN Failed
       ELSE Waiting({root, link} \ seen)

\* A fault: a reply target that has not been seen fails PT-7.
EagerPatch(event, seen) ==
  LET roots == Marked(event, "root") replies == Marked(event, "reply")
      root == Head(roots).id reply == Head(replies).id
      typed == ScrutinyEventType(root) \in {"product", "metadata"}
      free == event.author = root.author \/ reply = root
      fits == reply \in seen /\ ScrutinyEventType(reply) = "patch" /\ reply.author = root.author
  IN CASE Len(roots) # 1 \/ Len(replies) # 1 \/ ~PayloadOk(event) -> Failed
       [] Len(roots) = 1 /\ Len(replies) = 1 /\ PayloadOk(event) /\ root \notin seen -> Waiting({root})
       [] OTHER -> IF typed /\ (free \/ fits) THEN Waiting({}) ELSE Failed

\* checkPatch: PT-1, PT-2, UR-2, PT-10, PT-7.
CheckPatch(event, seen) ==
  LET roots == Marked(event, "root") replies == Marked(event, "reply")
      root == Head(roots).id reply == Head(replies).id
      typed == ScrutinyEventType(root) \in {"product", "metadata"}
      free == event.author = root.author \/ reply = root
      fits == ScrutinyEventType(reply) = "patch" /\ reply.author = root.author
  IN IF Len(roots) # 1 \/ Len(replies) # 1 \/ ~PayloadOk(event) THEN Failed
     ELSE IF root \notin seen THEN Waiting({root})
     ELSE IF ~typed THEN Failed
     ELSE IF free THEN Waiting({})
     ELSE IF reply \notin seen THEN Waiting({reply})
     ELSE IF fits THEN Waiting({})
     ELSE Failed

CheckType(event, seen) ==
  CASE ScrutinyEventType(event) \in {"product", "metadata"} ->
         IF IndexersOk(event) THEN Waiting({}) ELSE Failed
    [] ScrutinyEventType(event) = "binding" -> CheckBinding(event, seen)
    [] ScrutinyEventType(event) = "patch" -> CheckPatch(event, seen)
    [] OTHER -> Failed

ValidateEvent(event, seen) ==
  CASE ~IsScrutinyEvent(event) -> "not-scrutiny"
    [] IsScrutinyEvent(event) /\ (~TagsOk(event) \/ CheckType(event, seen).error) -> "invalid"
    [] OTHER -> IF CheckType(event, seen).awaiting = {} THEN "valid" ELSE "pending"
=============================================================================
