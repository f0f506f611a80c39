--------------------------------- MODULE Patch ---------------------------------
(***************************************************************************)
(* Patch payloads: how core applies one (patch.ts, patch-matcher.ts), how  *)
(* core builds one (build.ts) and how the mirror does                      *)
(* (emit/seccerts/patch.ts).                                               *)
(*                                                                         *)
(* A content is its array of lines (toLines): a final "" says that the     *)
(* content ends with a newline.  A diff is an edit script: a sequence of   *)
(* kept, deleted and inserted lines.  A payload is the sequence of its     *)
(* hunks; a hunk is a stretch of the script and the number of old lines    *)
(* before it.  Which of the shortest scripts a diff returns is left open.  *)
(***************************************************************************)
EXTENDS Integers, Sequences, FiniteSets, SequencesExt

CONSTANTS
  Size(_),   \* the characters of a line
  Ticks(_),  \* the longest run of backticks in a line; such a line is only that run
  Dashed(_), \* the line begins with "-- ": deleted, it reads as a header line
  MaxHunks, MaxWork,
  CONTEXT_LINES

-----------------------------------------------------------------------------
(* Lines *)

\* The lines of a content, the trailing-newline bit not among them.
LineCount(lines) ==
  IF lines # <<>> /\ Last(lines) = "" THEN Len(lines) - 1 ELSE Len(lines)

\* fromLines and back: no line at all is the empty content.
Normal(lines) == IF lines = <<>> THEN <<"">> ELSE lines

\* Every index the pattern occurs at, counted from 0.
Occurrences(lines, pattern) ==
  {i \in 0..(Len(lines) - Len(pattern)) : SubSeq(lines, i + 1, i + Len(pattern)) = pattern}

\* The charge for one full scan: every line against every character of the pattern,
\* and one unit more for each of its lines.
ScanCost(lines, pattern) ==
  Len(lines) * FoldLeft(LAMBDA sum, line : sum + Size(line) + 1, 0, pattern)

-----------------------------------------------------------------------------
(* Hunks *)

\* A finite set of numbers in ascending order, and what a sequence has at them.
InOrder(S) ==
  [n \in 1..Cardinality(S) |-> CHOOSE x \in S : Cardinality({y \in S : y < x}) = n - 1]
Picked(seq, indices) == LET order == InOrder(indices) IN [k \in DOMAIN order |-> seq[order[k]]]

Lines(ops) == [i \in DOMAIN ops |-> ops[i].line]
OldOps(hunk) == Picked(hunk.ops, {i \in DOMAIN hunk.ops : hunk.ops[i].type # "ins"})
NewOps(hunk) == Picked(hunk.ops, {i \in DOMAIN hunk.ops : hunk.ops[i].type # "del"})

\* reduceHunk: what the hunk must match, what replaces it, and whether a
\* "No newline at end of file" marker stands on either side.
OldPat(hunk) == Lines(OldOps(hunk))
NewRep(hunk) == Lines(NewOps(hunk))
OldNoEol(hunk) == \E i \in DOMAIN OldOps(hunk) : ~OldOps(hunk)[i].eol
NewNoEol(hunk) == \E i \in DOMAIN NewOps(hunk) : ~NewOps(hunk)[i].eol

Hunk(script, first, last) ==
  [ops |-> SubSeq(script, first, last),
   insertAt |-> Len(OldOps([ops |-> SubSeq(script, 1, first - 1)]))]

\* The hunks of a script: changes no more than twice the context apart are one
\* hunk, and each hunk takes in the context around it.
Hunks(script, context) ==
  LET changes == {i \in DOMAIN script : script[i].type # "equal"}
      Near(i, j) == i < j /\ j - i - 1 <= 2 * context
      starts == {j \in changes : \A i \in changes : ~Near(i, j)}
      EndOf(start) ==
        Max({i \in changes : i >= start /\ starts \cap (start + 1)..i = {}})
      Padded(start) ==
        Hunk(script, IF start > context THEN start - context ELSE 1,
             IF EndOf(start) + context < Len(script) THEN EndOf(start) + context ELSE Len(script))
      sorted == InOrder(starts)
  IN [k \in DOMAIN sorted |-> Padded(sorted[k])]

\* The hunk put at an index, or an end-of-file mismatch (C5).
SpliceAt(lines, hunk, at) ==
  LET end == at + Len(OldPat(hunk))
      atEnd == end = Len(lines)
      spliced == SubSeq(lines, 1, at) \o NewRep(hunk)
      Ok(result) == [ok |-> TRUE, lines |-> result]
      mismatch == [ok |-> FALSE, lines |-> lines]
  IN CASE OldNoEol(hunk) /\ atEnd -> Ok(IF NewNoEol(hunk) THEN spliced ELSE Append(spliced, ""))
       [] ~OldNoEol(hunk) /\ NewNoEol(hunk)
            /\ (atEnd \/ (end = Len(lines) - 1 /\ Last(lines) = "")) -> Ok(spliced)
       [] ~OldNoEol(hunk) /\ ~NewNoEol(hunk) ->
            Ok(spliced \o SubSeq(lines, end + 1, Len(lines)))
       [] OTHER -> mismatch

-----------------------------------------------------------------------------
(* Applying (patch.ts): T1, T2 and T3 *)

\* One turn of the loop over the hunks; after a halt or a limit nothing more happens.
ApplyHunk(state, hunk) ==
  LET pattern == OldPat(hunk)
      work == state.work + ScanCost(state.lines, pattern)
      found == Occurrences(state.lines, pattern)
      at == IF pattern = <<>>
              THEN Min({Max({hunk.insertAt + state.shift, 0}), LineCount(state.lines)})
              ELSE CHOOSE i \in found : TRUE
      spliced == SpliceAt(state.lines, hunk, at)
      Ends(status) == [state EXCEPT !.status = status]
  IN IF state.status # "applied" THEN state
     ELSE IF work > MaxWork THEN Ends("limit")
     ELSE IF pattern # <<>> /\ Cardinality(found) # 1
       THEN Ends(IF found = {} THEN "no-match" ELSE "ambiguous-match")
     ELSE IF ~spliced.ok THEN Ends("eof-mismatch")
     ELSE [status |-> "applied", lines |-> spliced.lines, work |-> work,
           shift |-> state.shift + LineCount(spliced.lines) - LineCount(state.lines)]

\* applyPatchPayload.  A halt discards what earlier hunks did.
ApplyPatchPayload(content, hunks) ==
  LET state[k \in 0..Len(hunks)] ==
        IF k = 0 THEN [status |-> "applied", lines |-> content, work |-> 0, shift |-> 0]
        ELSE ApplyHunk(state[k - 1], hunks[k])
      end == state[Len(hunks)]
  IN IF hunks = <<>> THEN [status |-> "noop", content |-> content]
     ELSE IF Len(hunks) > MaxHunks THEN [status |-> "limit", content |-> content]
     ELSE [status |-> end.status,
           content |-> IF end.status = "applied" THEN Normal(end.lines) ELSE content]

\* Every line a payload shows, and those it shows as context.
Shown(hunks) == UNION {ToSet(Lines(hunks[k].ops)) : k \in DOMAIN hunks}
Context(hunks) ==
  UNION {{op.line : op \in {o \in ToSet(hunks[k].ops) : o.type = "equal"}} : k \in DOMAIN hunks}

\* A fault: a fence as long as the longest run it encloses.
ShortFence(hunks) == Max({3} \cup {Ticks(line) : line \in Shown(hunks)})

\* E4: fenceLength, and the mirror's wrapPatchEventPayload.
FenceLength(hunks) == Max({3} \cup {Ticks(line) + 1 : line \in Shown(hunks)})

\* The content of a patch event.
FencePatchPayload(hunks) == [hunks |-> hunks, fence |-> FenceLength(hunks)]

\* applyPatchContent.  A context line that closes the fence cuts the payload short,
\* within a hunk that declares more lines.
ApplyPatchContent(content, event) ==
  IF \E line \in Context(event.hunks) : Ticks(line) >= event.fence
    THEN [status |-> "malformed-payload", content |-> content]
    ELSE ApplyPatchPayload(content, event.hunks)

-----------------------------------------------------------------------------
(* Scripts *)

\* What a diff compares: in core a line and whether a newline ends it (jsdiff), in
\* the mirror the elements of the array, the final "" among them.
Tokens(content) ==
  [i \in 1..LineCount(content) |-> [line |-> content[i], eol |-> i < Len(content)]]
Elements(content) == [i \in DOMAIN content |-> [line |-> content[i], eol |-> TRUE]]

\* The ways to keep as much as two sequences have in common.
Alignments(a, b) ==
  LET common == {keep \in (SUBSET DOMAIN a) \X (SUBSET DOMAIN b) :
                   /\ Cardinality(keep[1]) = Cardinality(keep[2])
                   /\ Picked(a, keep[1]) = Picked(b, keep[2])}
      most == Max({Cardinality(keep[1]) : keep \in common})
  IN {keep \in common : Cardinality(keep[1]) = most}

\* Past DP_CELL_CAP the mirror keeps the common ends only.
CommonEnds(a, b) ==
  LET short == Min({Len(a), Len(b)})
      start == Max({n \in 0..short : SubSeq(a, 1, n) = SubSeq(b, 1, n)})
      end == Max({n \in 0..(short - start) :
               SubSeq(a, Len(a) - n + 1, Len(a)) = SubSeq(b, Len(b) - n + 1, Len(b))})
      Kept(seq) == 1..start \cup (Len(seq) - end + 1)..Len(seq)
  IN <<Kept(a), Kept(b)>>

\* One turn of the loop that writes a script: i and j are the next lines on either
\* side.  Between two kept lines, deletions come first.
ScriptStep(a, b, keep, at) ==
  LET Op(type, token) == [type |-> type, line |-> token.line, eol |-> token.eol]
      Written(op, i, j) == [ops |-> Append(at.ops, op), i |-> i, j |-> j]
  IN CASE at.i <= Len(a) /\ at.i \notin keep[1] ->
            Written(Op("del", a[at.i]), at.i + 1, at.j)
       [] at.j <= Len(b) /\ at.j \notin keep[2] /\ (at.i > Len(a) \/ at.i \in keep[1]) ->
            Written(Op("ins", b[at.j]), at.i, at.j + 1)
       [] at.i \in keep[1] /\ at.j \in keep[2] ->
            Written(Op("equal", a[at.i]), at.i + 1, at.j + 1)
       [] OTHER -> at

\* The script of an alignment.
Script(a, b, keep) ==
  LET written[n \in 0..(Len(a) + Len(b))] ==
        IF n = 0 THEN [ops |-> <<>>, i |-> 1, j |-> 1] ELSE ScriptStep(a, b, keep, written[n - 1])
  IN written[Len(a) + Len(b)].ops

CoreScripts(before, after) ==
  LET a == Tokens(before) b == Tokens(after) IN {Script(a, b, keep) : keep \in Alignments(a, b)}

MirrorScripts(before, after) ==
  LET a == Elements(before) b == Elements(after)
  IN {Script(a, b, keep) : keep \in Alignments(a, b) \cup {CommonEnds(a, b)}}

-----------------------------------------------------------------------------
(* Building in core (patch-matcher.ts, build.ts) *)

\* A fault: every hunk is looked for in the content before the patch.
StaticTry(trial, hunk) ==
  LET pattern == OldPat(hunk)
      work == trial.work + ScanCost(trial.lines, pattern)
      found == Occurrences(trial.lines, pattern)
  IN IF trial.verdict # "fine" \/ pattern = <<>> THEN trial
     ELSE IF work > MaxWork THEN [trial EXCEPT !.verdict = "spent"]
     ELSE IF Cardinality(found) # 1 THEN [trial EXCEPT !.verdict = "ambiguous", !.work = work]
     ELSE [trial EXCEPT !.work = work]

\* One hunk of a trial: looked for in what the hunks before it produced.
Try(trial, hunk) ==
  LET pattern == OldPat(hunk)
      work == trial.work + ScanCost(trial.lines, pattern)
      found == Occurrences(trial.lines, pattern)
      spliced == SpliceAt(trial.lines, hunk, CHOOSE i \in found : TRUE)
  IN IF trial.verdict # "fine" \/ pattern = <<>> THEN trial
     ELSE IF work > MaxWork THEN [trial EXCEPT !.verdict = "spent"]
     ELSE IF Cardinality(found) # 1 \/ ~spliced.ok
       THEN [trial EXCEPT !.verdict = "ambiguous", !.work = work]
     ELSE [verdict |-> "fine", lines |-> spliced.lines, work |-> work]

FullContext(before, after) == Max({LineCount(before), LineCount(after)})

\* The search for a context wide enough, one line more at a time, the work of every
\* trial counted.
WidenContext(before, after, script, start) ==
  LET full == FullContext(before, after)
      first == Min({start, full})
      Trial(context, work) ==
        [context |-> context] @@
          FoldLeft(Try, [verdict |-> "fine", lines |-> before, work |-> work],
                   Hunks(script, context))
      upTo[context \in first..full] ==
        IF context = first THEN Trial(first, 0)
        ELSE LET last == upTo[context - 1]
             IN IF last.verdict = "ambiguous" THEN Trial(context, last.work) ELSE last
      end == upTo[full]
  IN [context |-> end.context, exhausted |-> end.verdict # "fine", spent |-> end.verdict = "spent"]

\* buildPatch: the event, and whether it carries the P4 or the RL-1 warning.
BuildPatch(before, after, script, start) ==
  LET widened == WidenContext(before, after, script, start)
      hunks == Hunks(script, widened.context)
      event == FencePatchPayload(hunks)
      check == ApplyPatchContent(before, event)
  IN [event |-> event, widened |-> widened,
      P4 |-> check.status \notin {"applied", "noop"} \/ check.content # after,
      RL1 |-> Len(hunks) > MaxHunks]

-----------------------------------------------------------------------------
(* Building in the mirror (emit/seccerts/patch.ts) *)

\* One hunk in the mirror's own applyPatch, which knows no end-of-file markers.
MirrorApplyHunk(state, hunk) ==
  LET pattern == OldPat(hunk)
      found == Occurrences(state.lines, pattern)
      at == IF pattern = <<>>
              THEN Min({Max({hunk.insertAt + state.carry, 0}), LineCount(state.lines)})
              ELSE CHOOSE i \in found : TRUE
  IN IF ~state.ok \/ (pattern # <<>> /\ Cardinality(found) # 1)
       THEN [state EXCEPT !.ok = FALSE]
       ELSE [ok |-> TRUE,
             lines |-> SubSeq(state.lines, 1, at) \o NewRep(hunk)
                         \o SubSeq(state.lines, at + Len(pattern) + 1, Len(state.lines)),
             carry |-> state.carry + Len(NewRep(hunk)) - Len(pattern)]

\* Its parser takes a deleted line that begins with "-- " for a header, whatever the
\* counts of the hunk say: it throws, or the lines it drops fail the comparison.
Misread(hunk) ==
  \E i \in DOMAIN hunk.ops : hunk.ops[i].type = "del" /\ Dashed(hunk.ops[i].line)

MirrorApplies(before, hunks, after) ==
  LET state[k \in 0..Len(hunks)] ==
        IF k = 0 THEN [ok |-> TRUE, lines |-> before, carry |-> 0]
        ELSE MirrorApplyHunk(state[k - 1], hunks[k])
      end == state[Len(hunks)]
  IN /\ \A k \in DOMAIN hunks : ~Misread(hunks[k])
     /\ end.ok /\ Normal(end.lines) = after

\* A fault: there is no second attempt.
CreateOnce(before, after, script) ==
  LET narrow == Hunks(script, CONTEXT_LINES)
  IN IF MirrorApplies(before, narrow, after) THEN narrow ELSE <<>>

\* createPatch: the diff if the mirror's applyPatch makes the new content of it, the
\* whole file as one hunk if not, and an exception (no hunk) if that fails too.
CreatePatch(before, after, script) ==
  LET narrow == Hunks(script, CONTEXT_LINES)
      whole == <<Hunk(script, 1, Len(script))>>
  IN CASE MirrorApplies(before, narrow, after) -> narrow
       [] ~MirrorApplies(before, narrow, after) /\ MirrorApplies(before, whole, after) -> whole
       [] OTHER -> <<>>
=============================================================================
