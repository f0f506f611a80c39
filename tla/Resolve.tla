------------------------------- MODULE Resolve -------------------------------
(***************************************************************************)
(* Resolution of one Product or Metadata against a set of events:          *)
(* packages/core/src/resolve.ts.  The function is pure; its argument is a  *)
(* set here, so the order of the code's array is not represented.  What a  *)
(* patch payload does to a content (patch.ts) is the constant Effect.      *)
(***************************************************************************)
EXTENDS Fabric, Naturals, SequencesExt

CONSTANTS
  Content,      \* the contents a root can have along its chain
  RootContent,  \* root -> the content it is published with
  Effect        \* patch -> content -> new content, "halt" or "limit"

ASSUME ContentAssumption == {"halt", "limit"} \cap Content = {}

ASSUME EffectAssumption ==
  /\ RootContent \in [Event -> Content]
  /\ Effect \in [Event -> [Content -> Content \cup {"halt", "limit"}]]

-----------------------------------------------------------------------------
(* Which patches can be links of the chain *)

Patches(r, seen) == {p \in seen : ~IsDeletion(p) /\ IsPatch(p) /\ Body[p].root = r}

RootAuthored(r, seen) == {p \in Patches(r, seen) : AuthorOf(p) = AuthorOf(r)}

\* DEL-1, DEL-6 and DEL-8.
HonouredDeletions(seen) ==
  {x \in seen : ~IsDeletion(x) /\ DeletionsOf(x, seen) # {}}

\* PT-6 and UR-4: follow the reply references from p.  The lineage is a chain
\* when it reaches the root, held when it reaches an event that has not arrived,
\* and ignored when it ends or reaches an event of another author.
Eligibility(r, p, seen) ==
  LET class[n \in 0..Cardinality(seen)] ==
        [q \in Event |->
           LET parent == Body[q].reply
           IN CASE n = 0 \/ parent = NoEvent       -> "ignored"
                [] n > 0 /\ parent = r             -> "chain"
                [] n > 0 /\ parent \notin seen \cup {r, NoEvent} -> "held"
                [] OTHER -> IF AuthorOf(parent) # AuthorOf(r) THEN "ignored"
                                                              ELSE class[n - 1][parent]]
  IN class[Cardinality(seen)][p]

\* DEL-2: a deleted patch takes the linkable patches below it along.
Removed(linkable, deleted) ==
  LET below[n \in 0..Cardinality(linkable)] ==
        IF n = 0 THEN linkable \cap deleted
        ELSE LET above == below[n - 1]
             IN above \cup {p \in linkable : Body[p].reply \in above}
  IN below[Cardinality(linkable)]

\* A fault: the links are not filtered by the deletions.
UncheckedSurviving(r, seen) ==
  {p \in RootAuthored(r, seen) : Eligibility(r, p, seen) = "chain"}

Surviving(r, seen) ==
  LET linkable == {p \in RootAuthored(r, seen) : Eligibility(r, p, seen) = "chain"}
  IN linkable \ Removed(linkable, HonouredDeletions(seen))

Children(position, links) == {p \in links : Body[p].reply = position}

\* A fault: at a fork the walk goes on with one of the branches (SF-4).
ChoosingChainPatches(r, links) ==
  LET walk[n \in 0..Cardinality(links)] ==
        IF n = 0 THEN <<>>
        ELSE LET w == walk[n - 1]
                 kids == Children(IF w = <<>> THEN r ELSE Last(w), links)
             IN IF kids # {} THEN Append(w, CHOOSE k \in kids : TRUE) ELSE w
  IN walk[Cardinality(links)]

\* The walk: from the root through only children, up to a leaf or a fork (SF-1).
ChainPatches(r, links) ==
  LET walk[n \in 0..Cardinality(links)] ==
        IF n = 0 THEN <<>>
        ELSE LET w == walk[n - 1]
                 kids == Children(IF w = <<>> THEN r ELSE Last(w), links)
             IN IF Cardinality(kids) = 1 THEN Append(w, CHOOSE k \in kids : TRUE) ELSE w
  IN walk[Cardinality(links)]

-----------------------------------------------------------------------------
(* Application along the chain *)

\* The contents before the first patch and after each patch that applied.  The
\* loop stops at the first halt (H1) or resource limit.
Positions(r, patches) ==
  LET contents[n \in 0..Len(patches)] ==
        IF n = 0 THEN <<RootContent[r]>>
        ELSE LET cs == contents[n - 1]
                 next == Effect[patches[n]][Last(cs)]
             IN IF Len(cs) = n /\ next \in Content THEN Append(cs, next) ELSE cs
  IN contents[Len(patches)]

Absent(reason, held) ==
  [status |-> reason, content |-> "none", tip |-> NoEvent, applied |-> <<>>,
   stoppedAt |-> NoEvent, forkParent |-> NoEvent, branches |-> {},
   overlays |-> {}, pending |-> held]

\* OV-3: clean, stale and conflict are judged against the content at the target;
\* a target off the applied prefix has none.
OverlayState(o, positions, contents, tip, seen) ==
  LET target == Body[o].reply
      at == CHOOSE i \in DOMAIN positions : positions[i] = target
  IN IF target \notin ToSet(positions)
       THEN IF target \in seen THEN "orphaned-alpha" ELSE "orphaned-beta"
       ELSE LET result == Effect[o][contents[at]]
            IN CASE result = "limit" -> "unclassified"
                 [] result = "halt"  -> "conflict"
                 [] OTHER -> IF target = tip THEN "clean" ELSE "stale"

\* What resolve returns once the links, the walk and the contents along it are known.
Resolution(r, seen, links, patches, contents) ==
  LET applied  == SubSeq(patches, 1, Len(contents) - 1)
      stopped  == Len(applied) < Len(patches)
      next     == IF stopped THEN patches[Len(contents)] ELSE NoEvent
      end      == IF patches = <<>> THEN r ELSE Last(patches)
      branches == Children(end, links)
      status   == CASE stopped /\ Effect[next][Last(contents)] = "halt" -> "halted"
                    [] stopped /\ Effect[next][Last(contents)] = "limit" -> "aborted"
                    [] ~stopped /\ branches # {} -> "forked"
                    [] OTHER -> "resolved"
      tip      == IF applied = <<>> THEN r ELSE Last(applied)
      deleted  == HonouredDeletions(seen)
      foreign  == {o \in Patches(r, seen) \ deleted :
                     AuthorOf(o) # AuthorOf(r) /\ Body[o].reply # NoEvent}
  IN [status |-> status, content |-> Last(contents),
      tip |-> tip, applied |-> applied, stoppedAt |-> next,
      forkParent |-> IF branches # {} THEN end ELSE NoEvent, branches |-> branches,
      overlays |-> {[id |-> o, target |-> Body[o].reply,
                     state |-> OverlayState(o, <<r>> \o applied, contents,
                                 IF status = "forked" THEN NoEvent ELSE tip, seen)]
                    : o \in foreign},
      pending |-> {p \in RootAuthored(r, seen) \ deleted : Eligibility(r, p, seen) = "held"}]

ResolvePresent(r, seen) ==
  LET links   == Surviving(r, seen)
      patches == ChainPatches(r, links)
  IN Resolution(r, seen, links, patches, Positions(r, patches))

\* UR-2: without the root no patch can be classified, so all are retained.
ResolveRoot(r, seen) ==
  IF r \notin seen THEN Absent("root-unobserved", Patches(r, seen))
  ELSE IF ~IsRoot(r) THEN Absent("root-not-patchable", {})
  ELSE ResolvePresent(r, seen)
=============================================================================
