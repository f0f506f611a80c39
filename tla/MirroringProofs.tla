---------------------------- MODULE MirroringProofs ----------------------------
(***************************************************************************)
(* The verdicts of a reader are final: whatever the mirror and others      *)
(* have written, and in whatever order the relay answers, an event that is *)
(* valid or invalid stays so as more is observed.                          *)
(***************************************************************************)
EXTENDS Mirroring, TLAPS

\* A check that finds an error, or waits for nothing.
Decided(check) == check.error \/ check.awaiting = {}

\* checkBinding looks at the ends that are there; what it found wrong with one stays
\* wrong, and with both there is no more to see.
LEMMA BindingSettles ==
  ASSUME NEW event, NEW before, NEW after, before \subseteq after,
         Decided(CheckBinding(event, before))
  PROVE  CheckBinding(event, after) = CheckBinding(event, before)
<1> DEFINE roots == Marked(event, "root")
           links == Marked(event, "link")
           root == Head(roots).id
           link == Head(links).id
           Wrong(S) == \/ Len(roots) # 1 \/ Len(links) # 1
                       \/ root \in S /\ ScrutinyEventType(root) # "product"
                       \/ link \in S /\ ScrutinyEventType(link) # "metadata"
<1>1. \A S : CheckBinding(event, S) = IF Wrong(S) THEN Failed ELSE Waiting({root, link} \ S)
  BY DEF CheckBinding
<1>2. CASE Wrong(before)
  <2>1. Wrong(after)
    BY <1>2
  <2> HIDE DEF Wrong
  <2>2. QED
    BY <1>1, <1>2, <2>1
<1>3. CASE ~Wrong(before)
  <2>1. /\ ~Waiting({root, link} \ before).error
        /\ Waiting({root, link} \ before).awaiting = {root, link} \ before
    BY DEF Waiting
  <2>2. {root, link} \ before = {}
    <3> HIDE DEF Wrong, root, link
    <3>1. QED
      BY <1>1, <1>3, <2>1 DEF Decided
  <2>3. {root, link} \ after = {} /\ root \in before /\ link \in before
    BY <2>2
  <2>4. ~Wrong(after)
    BY <1>3, <2>3
  <2> HIDE DEF Wrong, root, link
  <2>5. QED
    BY <1>1, <1>3, <2>2, <2>3, <2>4
<1>4. QED
  BY <1>2, <1>3

\* checkPatch asks for the root, then for the reply target of an author's patch; the
\* rest of what it looks at is in the patch.
LEMMA PatchSettles ==
  ASSUME NEW event, NEW before, NEW after, before \subseteq after,
         Decided(CheckPatch(event, before))
  PROVE  CheckPatch(event, after) = CheckPatch(event, before)
<1>1. \A id : ~Decided(Waiting({id}))
  BY DEF Decided, Waiting
<1>2. QED
  BY <1>1 DEF CheckPatch

\* The checks of a type.
LEMMA TypeSettles ==
  ASSUME NEW event, NEW before, NEW after, before \subseteq after,
         Decided(CheckType(event, before))
  PROVE  CheckType(event, after) = CheckType(event, before)
<1> DEFINE type == ScrutinyEventType(event)
<1>1. CASE type = "binding"
  <2>1. \A S : CheckType(event, S) = CheckBinding(event, S)
    BY <1>1 DEF CheckType
  <2>2. QED
    BY <2>1, BindingSettles
<1>2. CASE type = "patch"
  <2>1. \A S : CheckType(event, S) = CheckPatch(event, S)
    BY <1>2 DEF CheckType
  <2>2. QED
    BY <2>1, PatchSettles
<1>3. CASE type \notin {"binding", "patch"}
  BY <1>3 DEF CheckType
<1>4. QED
  BY <1>1, <1>2, <1>3

\* More observed events settle pending verdicts and change no other.
LEMMA VerdictSettles ==
  ASSUME NEW event, NEW before, NEW after, before \subseteq after,
         ValidateEvent(event, before) # "pending"
  PROVE  ValidateEvent(event, after) = ValidateEvent(event, before)
<1>1. CASE ~IsScrutinyEvent(event) \/ ~TagsOk(event)
  BY <1>1 DEF ValidateEvent
<1>2. CASE IsScrutinyEvent(event) /\ TagsOk(event)
  <2>1. Decided(CheckType(event, before))
    BY <1>2 DEF ValidateEvent, Decided
  <2>2. CheckType(event, after) = CheckType(event, before)
    BY <2>1, TypeSettles
  <2>3. QED
    BY <2>2 DEF ValidateEvent
<1>3. QED
  BY <1>1, <1>2

\* A verdict that is not pending is final: only the answer to a query changes what a
\* reader has seen, and it adds to it (BD-7, UR-3).
THEOREM VerdictsAreFinal == Spec => VerdictsOnlySettle
<1>1. [Next]_vars => seen \subseteq seen'
  BY DEF Next, Build, Publish, Watch, Answer, Receive, vars, mirrorVars
<1>2. ASSUME [Next]_vars
      PROVE  [\A event \in seen : ValidateEvent(event, seen) # "pending" =>
                ValidateEvent(event, seen') = ValidateEvent(event, seen)]_seen
  BY <1>1, <1>2, VerdictSettles
<1>3. QED
  BY <1>2, PTL DEF Spec, VerdictsOnlySettle
=============================================================================
