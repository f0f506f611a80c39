----------------------------- MODULE PatchExchange -----------------------------
(***************************************************************************)
(* A producer and a consumer of patches.  The producer, core or the        *)
(* mirror, takes the content the consumer has to another one and sends the *)
(* patch event; the consumer applies it with core's applyPatchContent.     *)
(***************************************************************************)
EXTENDS Patch

CONSTANTS
  Content,      \* contents, as arrays of lines
  StartContext, \* contexts buildPatch is called with
  None

\* The lines of the contents.
Line == UNION {ToSet(lines) : lines \in Content}

\* A content has a line, if an empty one: it comes from splitting a string.
ASSUME ContentAssumption ==
  /\ Content \subseteq Seq(Line) \ {<<>>}
  /\ \A line \in Line : Ticks(line) \in Nat
  /\ CONTEXT_LINES \in Nat \ {0}

VARIABLES
  content, \* what the consumer has
  wanted,  \* what the producer wants it to have
  events,  \* the patch event on its way, if there is one
  report   \* how the producer fared

vars == <<content, wanted, events, report>>

Init ==
  /\ content \in Content /\ wanted = content
  /\ events = {} /\ report = None

\* Nothing is on its way, and the consumer has followed so far.
Settled == events = {} /\ content = wanted

\* A caller of buildPatch that publishes what comes without a warning.
Build(after, start) ==
  /\ Settled
  /\ \E script \in CoreScripts(content, after) :
     \E built \in {BuildPatch(content, after, script, start)} :
       /\ report' = [by |-> "core", after |-> after, script |-> script, start |-> start,
                     widened |-> built.widened, P4 |-> built.P4]
       /\ IF built.P4 \/ built.RL1 THEN UNCHANGED <<events, wanted>>
                                  ELSE events' = {built.event} /\ wanted' = after
  /\ UNCHANGED content

\* The engine, for a root whose content has changed.
Create(after) ==
  /\ Settled /\ after # content
  /\ \E script \in MirrorScripts(content, after) :
     \E hunks \in {CreatePatch(content, after, script)} :
       /\ report' = [by |-> "mirror", after |-> after, script |-> script, gaveUp |-> hunks = <<>>]
       /\ IF hunks = <<>> THEN UNCHANGED <<events, wanted>>
                          ELSE events' = {FencePatchPayload(hunks)} /\ wanted' = after
  /\ UNCHANGED content

Receive ==
  /\ \E event \in events : \E applied \in {ApplyPatchContent(content, event)} :
       /\ content' = applied.content
       /\ report' = IF applied.status = "limit" THEN [by |-> "consumer"] ELSE None
  /\ events' = {}
  /\ UNCHANGED wanted

Next ==
  \/ \E after \in Content, start \in StartContext : Build(after, start)
  \/ \E after \in Content : Create(after)
  \/ Receive

Spec == Init /\ [][Next]_vars

-----------------------------------------------------------------------------
(* Properties *)

\* A published patch takes the consumer to exactly the content the producer meant,
\* though the mirror checks it with a parser and an applier of its own (P4), or is
\* abandoned by the consumer's ceilings (RL-2), which the mirror does not look at.
PublishedPatchesApply ==
  events = {} => content = wanted \/ report = [by |-> "consumer"]

\* A patch that cannot be made unambiguous with the context asked for is made so with
\* the least context that does, and is given up only when no context does (build.ts,
\* buildPatch; the ceilings on work and hunks aside).  From no context at all
\* that is not so: widenContext skips the insertions that may confuse a later hunk.
WideningIsExact ==
  (report # None /\ report.by = "core" /\ report.start > 0 /\ ~report.widened.spent) =>
    LET full == FullContext(content, report.after)
        Works(context) ==
          ApplyPatchPayload(content, Hunks(report.script, context)).content = report.after
        working == {context \in Min({report.start, full})..full : Works(context)}
    IN IF working = {} THEN report.widened.exhausted /\ report.P4
                       ELSE report.widened.context = Min(working)

\* The mirror finds a patch for every change (createPatch: the whole-file hunk is
\* "unique by construction") but one that deletes a line which reads as a header.
CreateGivesUpOnHeadersOnly ==
  (report # None /\ report.by = "mirror" /\ report.gaveUp) =>
    \E i \in DOMAIN report.script :
      report.script[i].type = "del" /\ Dashed(report.script[i].line)

=============================================================================
