----------------------------- MODULE PatchProofs -----------------------------
(***************************************************************************)
(* A patch that is published takes its consumer to the content that was    *)
(* meant, unless the consumer's ceilings stop it, and the mirror gives up  *)
(* on a change only where it deletes a line that reads as a header: for    *)
(* every set of contents, whatever the sizes, ceilings and contexts.       *)
(*                                                                         *)
(* Core checks what it publishes with the applier the consumer has.  The   *)
(* mirror checks with one of its own; the two are shown to agree on every  *)
(* hunk it can make (AppliersAgree).  That the mirror always has a patch   *)
(* to publish rests on its scripts: of whatever alignment, they show both  *)
(* contents whole (ScriptIsFaithful).                                      *)
(***************************************************************************)
EXTENDS PatchExchange, SequenceTheorems, FiniteSetTheorems, TLAPS

-----------------------------------------------------------------------------
(* Numbers in order *)

\* The numbers below x in S.
Below(S, x) == {y \in S : y < x}

\* The numbers of a finite set have the ranks from 0 on, each one.
LEMMA RanksAreTaken ==
  ASSUME NEW S \in SUBSET Int, IsFiniteSet(S), NEW n \in 1..Cardinality(S)
  PROVE  \E x \in S : Cardinality(Below(S, x)) = n - 1
<1> DEFINE c == Cardinality(S)
           r == [x \in S |-> Cardinality(Below(S, x))]
<1>1. c \in Nat
  BY FS_CardinalityType
<1>2. ASSUME NEW x \in S
      PROVE  IsFiniteSet(Below(S, x)) /\ Cardinality(Below(S, x)) \in 0..c - 1
  <2>1. IsFiniteSet(S \ {x}) /\ Cardinality(S \ {x}) = c - 1
    BY FS_RemoveElement
  <2>2. Below(S, x) \in SUBSET (S \ {x})
    BY DEF Below
  <2>3. IsFiniteSet(Below(S, x)) /\ Cardinality(Below(S, x)) <= c - 1
    BY <2>1, <2>2, FS_Subset
  <2>4. Cardinality(Below(S, x)) \in Nat
    BY <2>3, FS_CardinalityType
  <2> HIDE DEF c
  <2>5. QED
    BY <1>1, <2>3, <2>4
<1>3. ASSUME NEW x \in S, NEW y \in S, x < y PROVE r[x] < r[y]
  <2>1. Below(S, x) \in SUBSET (Below(S, y) \ {x}) /\ x \in Below(S, y)
    <3>1. \A z \in S : z < x => z < y /\ z # x
      BY <1>3
    <3>2. QED
      BY <1>3, <3>1 DEF Below
  <2>2. /\ IsFiniteSet(Below(S, y) \ {x})
        /\ Cardinality(Below(S, y) \ {x}) = Cardinality(Below(S, y)) - 1
    BY <1>2, <2>1, FS_RemoveElement
  <2>3. Cardinality(Below(S, x)) <= Cardinality(Below(S, y)) - 1
    BY <2>1, <2>2, FS_Subset
  <2>4. QED
    BY <1>2, <2>3
<1>4. r \in Injection(S, 0..c - 1)
  <2>1. r \in [S -> 0..c - 1]
    BY <1>2
  <2>2. \A x, y \in S : x = y \/ x < y \/ y < x
    OBVIOUS
  <2>3. ASSUME NEW x \in S, NEW y \in S, r[x] = r[y] PROVE x = y
    <3>1. ~(r[x] < r[y]) /\ ~(r[y] < r[x])
      <4>1. r[x] \in Int
        BY <2>1
      <4> HIDE DEF r
      <4>2. QED
        BY <2>3, <4>1
    <3> HIDE DEF r
    <3>2. QED
      BY <1>3, <2>2, <3>1
  <2> HIDE DEF r
  <2>4. QED
    BY <2>1, <2>3 DEF Injection, IsInjective
<1>5. IsFiniteSet(0..c - 1) /\ Cardinality(0..c - 1) = c
  <2>1. 0 \in Int /\ c - 1 \in Int /\ (IF 0 > c - 1 THEN 0 ELSE c - 1 - 0 + 1) = c
    <3> HIDE DEF c
    <3>1. QED
      BY <1>1
  <2> HIDE DEF c
  <2>2. QED
    BY <2>1, FS_Interval
<1>6. r \in Surjection(S, 0..c - 1)
  <2> HIDE DEF r, c
  <2>1. QED
    BY <1>4, <1>5, FS_Injection DEF c
<1>7. n - 1 \in 0..c - 1
  BY <1>1
<1> HIDE DEF c
<1>8. PICK x \in S : r[x] = n - 1
  <2> HIDE DEF r
  <2>1. QED
    BY <1>6, <1>7 DEF Surjection
<1>9. QED
  BY <1>8

\* InOrder lists the numbers of a finite set by rank.
LEMMA NumbersInOrder ==
  ASSUME NEW S \in SUBSET Int, IsFiniteSet(S)
  PROVE  /\ Cardinality(S) \in Nat
         /\ InOrder(S) \in [1..Cardinality(S) -> S]
         /\ \A n \in 1..Cardinality(S) : Cardinality(Below(S, InOrder(S)[n])) = n - 1
<1>1. Cardinality(S) \in Nat
  BY FS_CardinalityType
<1>2. ASSUME NEW n \in 1..Cardinality(S)
      PROVE  /\ InOrder(S)[n] \in S
             /\ Cardinality(Below(S, InOrder(S)[n])) = n - 1
  <2>1. InOrder(S)[n] = CHOOSE x \in S : Cardinality(Below(S, x)) = n - 1
    BY DEF InOrder, Below
  <2>2. QED
    BY <2>1, RanksAreTaken
<1>3. InOrder(S) = [n \in 1..Cardinality(S) |-> InOrder(S)[n]]
  BY SMTT(30) DEF InOrder
<1>4. QED
  BY <1>1, <1>2, <1>3

\* No two numbers have one rank.
LEMMA RanksDiffer ==
  ASSUME NEW S \in SUBSET Int, IsFiniteSet(S), NEW x \in S, NEW y \in S,
         Cardinality(Below(S, x)) = Cardinality(Below(S, y))
  PROVE  x = y
<1>1. ASSUME NEW v \in S, NEW w \in S, v < w,
             Cardinality(Below(S, v)) = Cardinality(Below(S, w))
      PROVE  FALSE
  <2>1. Below(S, v) \in SUBSET Below(S, w) /\ v \in Below(S, w) \ Below(S, v)
    <3>1. \A z \in S : z < v => z < w
      BY <1>1
    <3>2. ~(v < v)
      OBVIOUS
    <3>3. QED
      BY <1>1, <3>1, <3>2 DEF Below
  <2>2. Below(S, w) \in SUBSET S
    BY DEF Below
  <2>3. IsFiniteSet(Below(S, w))
    BY <2>2, FS_Subset
  <2>4. Below(S, w) = Below(S, v)
    BY <1>1, <2>1, <2>3, FS_Subset
  <2>5. QED
    BY <2>1, <2>4
<1>2. x = y \/ x < y \/ y < x
  OBVIOUS
<1>3. QED
  BY <1>1, <1>2

\* A number above all others comes last.
LEMMA LargestIsLast ==
  ASSUME NEW S \in SUBSET Int, IsFiniteSet(S), NEW m \in Int, \A x \in S : x < m
  PROVE  /\ Cardinality(S \cup {m}) = Cardinality(S) + 1
         /\ InOrder(S \cup {m})[Cardinality(S) + 1] = m
         /\ \A n \in 1..Cardinality(S) : InOrder(S \cup {m})[n] = InOrder(S)[n]
<1> DEFINE all == S \cup {m}
           c == Cardinality(S)
<1>1. m \notin S
  <2>1. ~(m < m)
    OBVIOUS
  <2>2. QED
    BY <2>1
<1>2. all \in SUBSET Int /\ IsFiniteSet(all) /\ Cardinality(all) = c + 1 /\ c \in Nat
  BY <1>1, FS_AddElement, FS_CardinalityType
<1>3. \A n \in 1..c + 1 :
        InOrder(all)[n] \in all /\ Cardinality(Below(all, InOrder(all)[n])) = n - 1
  BY <1>2, NumbersInOrder
<1>4. Below(all, m) = S
  <2>1. ~(m < m)
    OBVIOUS
  <2>2. QED
    BY <2>1 DEF Below
<1> DEFINE last == InOrder(all)[c + 1]
<1>5. \A x \in S : Below(all, x) = Below(S, x)
  <2>1. ASSUME NEW x \in S PROVE ~(m < x)
    OBVIOUS
  <2>2. QED
    BY <2>1 DEF Below
<1>6. last = m
  <2>1. c + 1 \in 1..c + 1 /\ c + 1 - 1 = c
    BY <1>2
  <2>2. Cardinality(Below(all, m)) = c /\ m \in all
    BY <1>4
  <2> HIDE DEF all, c
  <2>3. last \in all /\ Cardinality(Below(all, last)) = c + 1 - 1
    BY <1>2, <1>3, <2>1
  <2> HIDE DEF last
  <2>4. QED
    BY <1>2, <2>1, <2>2, <2>3, RanksDiffer
<1>7. ASSUME NEW n \in 1..c PROVE InOrder(all)[n] = InOrder(S)[n]
  <2>1. n \in 1..c + 1 /\ n - 1 # c
    BY <1>2
  <2>2. InOrder(all)[n] \in S
    BY <1>3, <1>4, <2>1
  <2>3. Cardinality(Below(S, InOrder(all)[n])) = n - 1
    BY <1>3, <1>5, <2>1, <2>2
  <2>4. InOrder(S)[n] \in S /\ Cardinality(Below(S, InOrder(S)[n])) = n - 1
    BY NumbersInOrder
  <2> DEFINE v == InOrder(all)[n]
             w == InOrder(S)[n]
  <2>5. v \in S /\ w \in S /\ Cardinality(Below(S, v)) = Cardinality(Below(S, w))
    BY <2>2, <2>3, <2>4
  <2> HIDE DEF v, w
  <2>6. v = w
    BY <2>5, RanksDiffer
  <2>7. QED
    BY <2>6 DEF v, w
<1>8. QED
  BY <1>2, <1>6, <1>7

\* What is picked from a sequence comes from it, and is nothing only at no index.
LEMMA PickedIsThere ==
  ASSUME NEW T, NEW seq \in Seq(T), NEW I \in SUBSET (DOMAIN seq)
  PROVE  /\ Picked(seq, I) \in Seq(T)
         /\ \A k \in DOMAIN Picked(seq, I) : \E i \in I : Picked(seq, I)[k] = seq[i]
         /\ Picked(seq, I) = <<>> => I = {}
<1>1. DOMAIN seq = 1..Len(seq) /\ Len(seq) \in Nat
  OBVIOUS
<1>2. I \in SUBSET Int /\ IsFiniteSet(I)
  <2>1. IsFiniteSet(1..Len(seq))
    BY <1>1, FS_Interval
  <2>2. QED
    BY <1>1, <2>1, FS_Subset
<1> DEFINE order == InOrder(I)
           c == Cardinality(I)
<1>3. c \in Nat /\ order \in [1..c -> I]
  BY <1>2, NumbersInOrder
<1>4. Picked(seq, I) = [k \in 1..c |-> seq[order[k]]]
  BY <1>3 DEF Picked
<1>5. c = 0 <=> I = {}
  BY <1>2, FS_EmptySet
<1> HIDE DEF order, c
<1>6. \A k \in 1..c : order[k] \in I /\ seq[order[k]] \in T
  BY <1>1, <1>3
<1>7. Picked(seq, I) \in Seq(T) /\ Len(Picked(seq, I)) = c
  BY <1>3, <1>4, <1>6
<1>8. ASSUME NEW k \in DOMAIN Picked(seq, I) PROVE \E i \in I : Picked(seq, I)[k] = seq[i]
  BY <1>4, <1>6
<1>9. Picked(seq, I) = <<>> => I = {}
  BY <1>3, <1>5, <1>7
<1>10. QED
  BY <1>7, <1>8, <1>9

\* A sequence that grows by one element: it is picked last or not at all.
LEMMA PickedGrows ==
  ASSUME NEW T, NEW seq \in Seq(T), NEW x \in T, NEW I \in SUBSET (DOMAIN seq)
  PROVE  /\ Picked(Append(seq, x), I) = Picked(seq, I)
         /\ Picked(Append(seq, x), I \cup {Len(seq) + 1}) = Append(Picked(seq, I), x)
<1> DEFINE m == Len(seq) + 1
           c == Cardinality(I)
           grown == Append(seq, x)
<1>1. /\ DOMAIN seq = 1..Len(seq) /\ Len(seq) \in Nat /\ m \in Int
      /\ \A i \in DOMAIN seq : i < m /\ grown[i] = seq[i]
      /\ grown[m] = x
  OBVIOUS
<1>2. I \in SUBSET Int /\ IsFiniteSet(I)
  <2>1. IsFiniteSet(1..Len(seq))
    BY <1>1, FS_Interval
  <2>2. QED
    BY <1>1, <2>1, FS_Subset
<1>3. /\ c \in Nat /\ InOrder(I) \in [1..c -> I]
      /\ InOrder(I \cup {m}) = [n \in 1..c + 1 |-> InOrder(I \cup {m})[n]]
      /\ InOrder(I \cup {m})[c + 1] = m
      /\ \A n \in 1..c : InOrder(I \cup {m})[n] = InOrder(I)[n]
  <2>1. Cardinality(I \cup {m}) = c + 1
    BY <1>1, <1>2, LargestIsLast
  <2>2. InOrder(I \cup {m}) = [n \in 1..Cardinality(I \cup {m}) |-> InOrder(I \cup {m})[n]]
    <3>1. IsFiniteSet(I \cup {m}) /\ I \cup {m} \in SUBSET Int
      BY <1>1, <1>2, FS_AddElement
    <3> HIDE DEF m
    <3>2. InOrder(I \cup {m}) \in [1..Cardinality(I \cup {m}) -> I \cup {m}]
      BY <3>1, NumbersInOrder
    <3>3. QED
      BY <3>2
  <2> HIDE DEF m
  <2>3. QED
    BY <1>1, <1>2, <2>1, <2>2, NumbersInOrder, LargestIsLast
<1> HIDE DEF m, c, grown
<1>4. Picked(seq, I) = [k \in 1..c |-> seq[InOrder(I)[k]]]
  BY <1>3 DEF Picked
<1>5. Picked(grown, I) = [k \in 1..c |-> grown[InOrder(I)[k]]]
  BY <1>3 DEF Picked
<1>6. \A k \in 1..c : InOrder(I)[k] \in DOMAIN seq
  BY <1>3
<1>7. Picked(grown, I) = Picked(seq, I)
  BY <1>1, <1>4, <1>5, <1>6
<1>8. Picked(grown, I \cup {m}) = [k \in 1..c + 1 |-> grown[InOrder(I \cup {m})[k]]]
  <2>1. DOMAIN InOrder(I \cup {m}) = 1..c + 1
    BY <1>3
  <2>2. QED
    BY <2>1 DEF Picked
<1>9. Picked(seq, I) \in Seq(T) /\ Len(Picked(seq, I)) = c
  <2>1. Picked(seq, I) \in Seq(T)
    BY PickedIsThere
  <2>2. QED
    BY <1>3, <1>4, <2>1
<1>10. Append(Picked(seq, I), x) = [k \in 1..c + 1 |-> IF k = c + 1 THEN x ELSE Picked(seq, I)[k]]
  <2> DEFINE p == Picked(seq, I)
  <2>1. p \in Seq(T) /\ Len(p) = c
    BY <1>9
  <2> HIDE DEF p
  <2>2. Append(p, x) \in Seq(T) /\ Len(Append(p, x)) = c + 1
    BY <2>1
  <2>3. \A k \in 1..c + 1 : Append(p, x)[k] = IF k = c + 1 THEN x ELSE p[k]
    BY <2>1, <1>3
  <2> DEFINE q == [k \in 1..c + 1 |-> IF k = c + 1 THEN x ELSE p[k]]
             r == Append(p, x)
  <2>4. DOMAIN r = 1..c + 1 /\ DOMAIN q = 1..c + 1 /\ r = [k \in 1..c + 1 |-> r[k]]
    <3>1. r \in [1..c + 1 -> T]
      BY <2>2, LenProperties
    <3> HIDE DEF r
    <3>2. QED
      BY <3>1
  <2>5. \A k \in 1..c + 1 : r[k] = q[k]
    BY <2>3
  <2>6. r = q
    <3> HIDE DEF r
    <3>1. QED
      BY <2>4, <2>5
  <2>7. QED
    BY <2>6 DEF p
<1>11. ASSUME NEW k \in 1..c + 1
       PROVE  grown[InOrder(I \cup {m})[k]] = IF k = c + 1 THEN x ELSE Picked(seq, I)[k]
  <2>1. CASE k = c + 1
    BY <1>1, <1>3, <2>1
  <2>2. CASE k # c + 1
    <3>1. k \in 1..c
      BY <1>3, <2>2
    <3>2. InOrder(I \cup {m})[k] = InOrder(I)[k] /\ InOrder(I)[k] \in DOMAIN seq
      BY <1>3, <1>6, <3>1
    <3>3. QED
      BY <1>1, <1>4, <2>2, <3>1, <3>2
  <2>3. QED
    BY <2>1, <2>2
<1>12. QED
  BY <1>7, <1>8, <1>10, <1>11 DEF m, grown

-----------------------------------------------------------------------------
(* The sides of a script *)

\* An edit of the mirror's: its scripts know no missing newline.
Token == [line : Line, eol : {TRUE}]
Op == [type : {"del", "ins", "equal"}, line : Line, eol : {TRUE}]

\* The lines of the script without the edits of one type.
Side(ops, other) == Lines(Picked(ops, {i \in DOMAIN ops : ops[i].type # other}))

\* The pattern and the replacement of a hunk are its two sides.
LEMMA SidesOfHunk ==
  \A hunk : OldPat(hunk) = Side(hunk.ops, "ins") /\ NewRep(hunk) = Side(hunk.ops, "del")
BY DEF OldPat, NewRep, OldOps, NewOps, Side

\* A side of a longer script.
LEMMA SideGrows ==
  ASSUME NEW ops \in Seq(Op), NEW op \in Op, NEW other
  PROVE  /\ Side(ops, other) \in Seq(Line)
         /\ op.type = other => Side(Append(ops, op), other) = Side(ops, other)
         /\ op.type # other => Side(Append(ops, op), other) = Append(Side(ops, other), op.line)
<1> DEFINE I == {i \in DOMAIN ops : ops[i].type # other}
           m == Len(ops) + 1
           grown == Append(ops, op)
           J == {i \in DOMAIN grown : grown[i].type # other}
           p == Picked(ops, I)
<1>1. /\ DOMAIN ops = 1..Len(ops) /\ Len(ops) \in Nat
      /\ DOMAIN grown = 1..m /\ grown[m] = op
      /\ \A i \in DOMAIN ops : grown[i] = ops[i]
  OBVIOUS
<1>2. I \in SUBSET (DOMAIN ops)
  OBVIOUS
<1>3. J = IF op.type = other THEN I ELSE I \cup {m}
  <2>1. 1..m = (1..Len(ops)) \cup {m}
    BY <1>1
  <2> HIDE DEF grown, m
  <2>2. QED
    BY <1>1, <2>1
<1>4. p \in Seq(Op)
  BY <1>2, PickedIsThere
<1>5. Picked(grown, J) = IF op.type = other THEN p ELSE Append(p, op)
  <2>1. Picked(grown, I) = p /\ Picked(grown, I \cup {m}) = Append(p, op)
    <3>1. ops \in Seq(Op) /\ op \in Op /\ I \in SUBSET (DOMAIN ops)
      BY <1>2
    <3> HIDE DEF I
    <3>2. QED
      BY <3>1, PickedGrows, SMTT(30)
  <2> HIDE DEF I, m, grown, p, J
  <2>2. QED
    BY <1>3, <2>1
<1> HIDE DEF p, I, J, grown
<1>6. Lines(p) \in Seq(Line) /\ Len(Lines(p)) = Len(p)
  <2>1. ASSUME NEW i \in 1..Len(p) PROVE p[i].line \in Line
    <3>1. p[i] \in Op
      BY <1>4
    <3>2. QED
      BY <3>1 DEF Op
  <2>2. QED
    BY <1>4, <2>1 DEF Lines
<1>7. Lines(Append(p, op)) = Append(Lines(p), op.line)
  <2> DEFINE l == Lines(p)
             x == op.line
             q == Append(p, op)
  <2>1. l = [i \in 1..Len(p) |-> p[i].line]
    BY <1>4 DEF Lines
  <2>2. DOMAIN q = 1..Len(p) + 1 /\ q[Len(p) + 1] = op /\ \A i \in 1..Len(p) : q[i] = p[i]
    BY <1>4
  <2>3. x \in Line
    BY DEF Op
  <2>4. Lines(q) = [i \in 1..Len(p) + 1 |-> q[i].line]
    BY <2>2 DEF Lines
  <2>5. \A i \in 1..Len(p) + 1 : q[i].line = IF i = Len(p) + 1 THEN x ELSE l[i]
    BY <1>4, <2>1, <2>2
  <2>6. l \in Seq(Line) /\ Len(l) = Len(p)
    BY <1>6
  <2> HIDE DEF l, x
  <2>7. /\ DOMAIN Append(l, x) = 1..Len(p) + 1
        /\ \A i \in 1..Len(p) + 1 : Append(l, x)[i] = IF i = Len(p) + 1 THEN x ELSE l[i]
    BY <2>3, <2>6, <1>4
  <2>8. Append(l, x) \in [1..Len(p) + 1 -> Line]
    <3>1. Append(l, x) \in Seq(Line) /\ Len(Append(l, x)) = Len(p) + 1
      BY <2>3, <2>6, <1>4
    <3> DEFINE s == Append(l, x)
    <3> HIDE DEF s
    <3>2. s \in [1..Len(s) -> Line]
      BY <3>1, LenProperties DEF s
    <3>3. QED
      BY <3>1, <3>2 DEF s
  <2> HIDE DEF q
  <2>9. QED
    BY <2>4, <2>5, <2>7, <2>8 DEF l, x, q
<1>8. Side(ops, other) = Lines(p) /\ Side(grown, other) = Lines(Picked(grown, J))
  BY DEF Side, p, I, J
<1>9. QED
  BY <1>5, <1>6, <1>7, <1>8 DEF grown

-----------------------------------------------------------------------------
(* Hunks and fences *)

\* Max finds the largest number of a finite set.
LEMMA LargestExists ==
  ASSUME NEW S \in SUBSET Int, IsFiniteSet(S), S # {}
  PROVE  Max(S) \in S /\ \A y \in S : y <= Max(S)
<1> DEFINE c == Cardinality(S)
<1>1. c \in Nat /\ c # 0
  BY FS_CardinalityType, FS_EmptySet
<1>2. PICK x \in S : Cardinality(Below(S, x)) = c - 1
  <2>1. c \in 1..c
    BY <1>1
  <2>2. QED
    BY <2>1, RanksAreTaken
<1>3. IsFiniteSet(S \ {x}) /\ Cardinality(S \ {x}) = c - 1
  BY FS_RemoveElement
<1>4. Below(S, x) \in SUBSET (S \ {x})
  BY DEF Below
<1>5. Below(S, x) = S \ {x}
  BY <1>2, <1>3, <1>4, FS_Subset
<1>6. \A y \in S : x >= y
  BY <1>5 DEF Below
<1>7. QED
  BY <1>6 DEF Max

\* What a payload consists of.
Edits == [ops : Seq(Op), insertAt : Nat]

\* The fence is longer than any run of backticks in the payload.
LEMMA FenceHolds ==
  ASSUME NEW hunks \in Seq(Edits), NEW line \in Shown(hunks)
  PROVE  ~(Ticks(line) >= FenceLength(hunks))
<1> DEFINE Of(k) == ToSet(Lines(hunks[k].ops))
           runs == {3} \cup {Ticks(l) + 1 : l \in Shown(hunks)}
<1>1. ASSUME NEW k \in DOMAIN hunks PROVE IsFiniteSet(Of(k)) /\ Of(k) \in SUBSET Line
  <2> DEFINE ops == hunks[k].ops
             f == [i \in DOMAIN ops |-> ops[i].line]
  <2>1. ops \in Seq(Op)
    <3>1. hunks[k] \in Edits
      OBVIOUS
    <3>2. QED
      BY <3>1 DEF Edits
  <2>2. Of(k) = {f[i] : i \in DOMAIN ops}
    BY DEF ToSet, Lines
  <2>3. DOMAIN ops = 1..Len(ops) /\ Len(ops) \in Nat
    BY <2>1
  <2>4. IsFiniteSet(DOMAIN ops)
    BY <2>3, FS_Interval
  <2>5. f \in Surjection(DOMAIN ops, Of(k))
    BY <2>2 DEF Surjection
  <2>6. IsFiniteSet(Of(k))
    BY <2>4, <2>5, FS_Surjection
  <2>7. ASSUME NEW i \in DOMAIN ops PROVE f[i] \in Line
    <3>1. ops[i] \in Op
      BY <2>1
    <3>2. QED
      BY <3>1 DEF Op
  <2>8. QED
    BY <2>2, <2>6, <2>7
<1>2. IsFiniteSet(Shown(hunks)) /\ Shown(hunks) \in SUBSET Line
  <2> DEFINE g == [k \in DOMAIN hunks |-> Of(k)]
             all == {Of(k) : k \in DOMAIN hunks}
  <2>1. IsFiniteSet(DOMAIN hunks)
    BY FS_Interval
  <2>2. g \in Surjection(DOMAIN hunks, all)
    BY DEF Surjection
  <2>3. IsFiniteSet(all)
    BY <2>1, <2>2, FS_Surjection
  <2>4. IsFiniteSet(UNION all)
    BY <1>1, <2>3, FS_UNION
  <2>5. Shown(hunks) = UNION all
    BY DEF Shown
  <2>6. QED
    BY <1>1, <2>4, <2>5
<1>3. \A l \in Line : Ticks(l) \in Nat
  BY ContentAssumption
<1>4. runs \in SUBSET Int /\ IsFiniteSet(runs)
  <2> DEFINE more == {Ticks(l) + 1 : l \in Shown(hunks)}
             h == [l \in Shown(hunks) |-> Ticks(l) + 1]
  <2>1. h \in Surjection(Shown(hunks), more)
    BY DEF Surjection
  <2>2. IsFiniteSet(more)
    BY <1>2, <2>1, FS_Surjection
  <2>3. IsFiniteSet({3} \cup more)
    BY <2>2, FS_Singleton, FS_Union
  <2>4. \A l \in Shown(hunks) : Ticks(l) + 1 \in Int
    BY <1>2, <1>3
  <2>5. QED
    BY <2>3, <2>4
<1>5. Ticks(line) + 1 \in runs /\ Ticks(line) \in Nat
  BY <1>2, <1>3
<1>6. FenceLength(hunks) = Max(runs)
  BY DEF FenceLength
<1>7. Max(runs) \in runs /\ \A y \in runs : y <= Max(runs)
  <2> HIDE DEF runs
  <2>1. QED
    BY <1>4, <1>5, LargestExists
<1> DEFINE m == Max(runs)
<1>8. m \in Int /\ Ticks(line) + 1 <= m
  <2> HIDE DEF runs
  <2>1. QED
    BY <1>4, <1>5, <1>7
<1> HIDE DEF m
<1>9. ~(Ticks(line) >= m)
  BY <1>5, <1>8
<1>10. QED
  BY <1>6, <1>9 DEF m

\* No hunk of the mirror's has a marker for a missing newline.
LEMMA NoMarkers ==
  ASSUME NEW hunk \in Edits
  PROVE  ~OldNoEol(hunk) /\ ~NewNoEol(hunk)
<1>1. ASSUME NEW I \in SUBSET (DOMAIN hunk.ops), NEW k \in DOMAIN Picked(hunk.ops, I)
      PROVE  Picked(hunk.ops, I)[k].eol
  <2>1. hunk.ops \in Seq(Op)
    BY DEF Edits
  <2>2. PICK i \in I : Picked(hunk.ops, I)[k] = hunk.ops[i]
    BY <2>1, PickedIsThere
  <2>3. hunk.ops[i] \in Op
    BY <2>1
  <2>4. QED
    BY <2>2, <2>3 DEF Op
<1>2. QED
  BY <1>1 DEF OldNoEol, NewNoEol, OldOps, NewOps

\* A stretch of a script is a hunk.
LEMMA StretchIsHunk ==
  ASSUME NEW script \in Seq(Op), NEW first \in 1..Len(script), NEW last \in 1..Len(script)
  PROVE  Hunk(script, first, last) \in Edits
<1> DEFINE ahead == SubSeq(script, 1, first - 1)
           I == {i \in DOMAIN ahead : ahead[i].type # "ins"}
<1>1. SubSeq(script, first, last) \in Seq(Op) /\ ahead \in Seq(Op)
  <2>1. first \in Int /\ last \in Int /\ 1 <= first /\ last <= Len(script)
        /\ first - 1 <= Len(script)
    OBVIOUS
  <2>2. \A i \in first..last : script[i] \in Op
    BY <2>1
  <2>3. \A i \in 1..first - 1 : script[i] \in Op
    BY <2>1
  <2>4. QED
    BY <2>1, <2>2, <2>3, SubSeqProperties
<1>2. Len(Picked(ahead, I)) \in Nat
  <2> HIDE DEF ahead
  <2>1. Picked(ahead, I) \in Seq(Op)
    BY <1>1, PickedIsThere
  <2>2. QED
    BY <2>1
<1>3. OldOps([ops |-> ahead]) = Picked(ahead, I)
  BY DEF OldOps
<1>4. QED
  BY <1>1, <1>2, <1>3 DEF Hunk, Edits

\* Where a hunk begins, and what it takes in: the places of a script that differ, those
\* of them that begin a hunk, the last that belongs to it, and the context around it.
Changes(script) == {i \in DOMAIN script : script[i].type # "equal"}
Starts(script, context) ==
  {j \in Changes(script) : \A i \in Changes(script) : ~(i < j /\ j - i - 1 <= 2 * context)}
LastOf(script, context, start) ==
  Max({i \in Changes(script) : i >= start /\ Starts(script, context) \cap (start + 1)..i = {}})
From(context, start) == IF start > context THEN start - context ELSE 1
To(script, context, start) ==
  IF LastOf(script, context, start) + context < Len(script)
    THEN LastOf(script, context, start) + context ELSE Len(script)

\* Hunks, in these terms.
LEMMA HunksInOrder ==
  ASSUME NEW script, NEW context
  PROVE  Hunks(script, context) =
           [k \in DOMAIN InOrder(Starts(script, context)) |->
              Hunk(script, From(context, InOrder(Starts(script, context))[k]),
                   To(script, context, InOrder(Starts(script, context))[k]))]
BY Zenon DEF Hunks, Changes, Starts, LastOf, From, To

\* A hunk begins at a change, at most the context before it, and ends after it.
LEMMA HunkBounds ==
  ASSUME NEW script \in Seq(Op), NEW context \in Nat, NEW start \in Starts(script, context)
  PROVE  /\ start \in 1..Len(script)
         /\ From(context, start) \in 1..start
         /\ To(script, context, start) \in start..Len(script)
<1> DEFINE S == Starts(script, context)
           ends == {i \in Changes(script) : i >= start /\ S \cap (start + 1)..i = {}}
<1>1. Len(script) \in Nat /\ DOMAIN script = 1..Len(script)
  OBVIOUS
<1>2. start \in Changes(script) /\ Changes(script) \in SUBSET (1..Len(script))
  BY <1>1 DEF Starts, Changes
<1>3. start \in ends
  <2>1. (start + 1)..start = {}
    BY <1>2
  <2>2. start >= start
    BY <1>2
  <2>3. QED
    BY <1>2, <2>1, <2>2
<1>4. ends \in SUBSET Int /\ IsFiniteSet(ends) /\ \A i \in ends : i \in start..Len(script)
  <2>1. ends \in SUBSET (1..Len(script))
    BY <1>2
  <2>2. IsFiniteSet(1..Len(script))
    BY <1>1, FS_Interval
  <2>3. IsFiniteSet(ends)
    BY <2>1, <2>2, FS_Subset
  <2>4. \A i \in ends : i >= start /\ i \in 1..Len(script)
    BY <2>1
  <2>5. \A i \in ends : i \in start..Len(script)
    BY <1>1, <1>2, <2>4
  <2>6. QED
    BY <2>1, <2>3, <2>5
<1>5. LastOf(script, context, start) = Max(ends)
  BY DEF LastOf
<1>6. LastOf(script, context, start) \in start..Len(script)
  <2> HIDE DEF ends
  <2>1. Max(ends) \in ends
    BY <1>3, <1>4, LargestExists
  <2>2. QED
    BY <1>4, <1>5, <2>1
<1>7. QED
  BY <1>1, <1>2, <1>6 DEF From, To

\* The hunks of a script of the mirror's, in the order of where they begin.
LEMMA HunksAreEdits ==
  ASSUME NEW script \in Seq(Op), NEW context \in Nat
  PROVE  /\ Hunks(script, context) \in Seq(Edits)
         /\ \A k \in DOMAIN Hunks(script, context) :
              /\ InOrder(Starts(script, context))[k] \in Starts(script, context)
              /\ Cardinality(Below(Starts(script, context),
                                   InOrder(Starts(script, context))[k])) = k - 1
<1> DEFINE S == Starts(script, context)
           sorted == InOrder(S)
           c == Cardinality(S)
           hunks == Hunks(script, context)
           H(k) == Hunk(script, From(context, sorted[k]), To(script, context, sorted[k]))
<1>1. S \in SUBSET (1..Len(script)) /\ Len(script) \in Nat
  BY DEF Starts, Changes
<1>2. S \in SUBSET Int /\ IsFiniteSet(S)
  <2>1. IsFiniteSet(1..Len(script))
    BY <1>1, FS_Interval
  <2>2. QED
    BY <1>1, <2>1, FS_Subset
<1>3. /\ c \in Nat /\ sorted \in [1..c -> S]
      /\ \A k \in 1..c : Cardinality(Below(S, sorted[k])) = k - 1
  <2> HIDE DEF S
  <2>1. QED
    BY <1>2, NumbersInOrder
<1>4. hunks = [k \in 1..c |-> H(k)]
  <2>1. DOMAIN sorted = 1..c
    BY <1>3
  <2>2. hunks = [k \in DOMAIN sorted |-> H(k)]
    BY Zenon, HunksInOrder
  <2> HIDE DEF hunks, sorted, c, H
  <2>3. QED
    BY <2>1, <2>2
<1>5. ASSUME NEW k \in 1..c PROVE H(k) \in Edits
  <2> DEFINE start == sorted[k]
             first == From(context, start)
             last == To(script, context, start)
  <2>1. start \in S
    BY <1>3
  <2>2. start \in 1..Len(script) /\ first \in 1..start /\ last \in start..Len(script)
    <3> HIDE DEF start
    <3>1. QED
      BY <2>1, HunkBounds
  <2>3. first \in 1..Len(script) /\ last \in 1..Len(script)
    <3> HIDE DEF start, first, last
    <3>1. QED
      BY <1>1, <2>2
  <2>4. Hunk(script, first, last) \in Edits
    <3> HIDE DEF first, last
    <3>1. QED
      BY <2>3, StretchIsHunk
  <2>5. QED
    BY <2>4
<1>6. hunks \in Seq(Edits) /\ DOMAIN hunks = 1..c
  <2> HIDE DEF H, hunks, c
  <2>1. QED
    BY <1>3, <1>4, <1>5
<1>7. QED
  BY <1>3, <1>6

\* With some context, a hunk that has nothing to match is the first one.
LEMMA BlindHunkIsFirst ==
  ASSUME NEW script \in Seq(Op), NEW context \in Nat \ {0},
         NEW k \in DOMAIN Hunks(script, context), OldPat(Hunks(script, context)[k]) = <<>>
  PROVE  k = 1
<1> DEFINE S == Starts(script, context)
           start == InOrder(S)[k]
           first == From(context, start)
           last == To(script, context, start)
           ops == SubSeq(script, first, last)
           I == {i \in DOMAIN ops : ops[i].type # "ins"}
           hunk == Hunks(script, context)[k]
<1>1. start \in S /\ Cardinality(Below(S, start)) = k - 1 /\ k \in Int
  <2>1. Hunks(script, context) \in Seq(Edits)
    BY HunksAreEdits
  <2>2. QED
    BY <2>1, HunksAreEdits
<1>2. start \in 1..Len(script) /\ first \in 1..start /\ last \in start..Len(script)
  <2> HIDE DEF start
  <2>1. QED
    BY <1>1, HunkBounds
<1>3. hunk = Hunk(script, first, last)
  <2>1. DOMAIN Hunks(script, context) = DOMAIN InOrder(S)
    BY HunksInOrder
  <2>2. QED
    BY <2>1, HunksInOrder
<1>4. hunk.ops = ops
  <2> HIDE DEF first, last, hunk
  <2>1. Hunk(script, first, last).ops = SubSeq(script, first, last)
    BY DEF Hunk
  <2>2. QED
    BY <1>3, <2>1
<1> HIDE DEF start, first, last
<1>5. /\ ops \in Seq(Op) /\ Len(ops) = last - first + 1
      /\ \A i \in 1..last - first + 1 : ops[i] = script[first + i - 1]
  <2>1. first \in Int /\ last \in Int /\ first <= last
    BY <1>2
  <2>2. \A i \in first..last : script[i] \in Op
    BY <1>2
  <2>3. QED
    BY <2>1, <2>2, SubSeqProperties
<1>6. I = {}
  <2>1. I \in SUBSET (DOMAIN ops)
    OBVIOUS
  <2>2. OldPat(hunk) = Lines(Picked(ops, I))
    BY <1>4 DEF OldPat, OldOps
  <2>3. Picked(ops, I) = <<>>
    <3> DEFINE p == Picked(ops, I)
    <3>1. p \in Seq(Op)
      <4> HIDE DEF I, ops
      <4>1. QED
        BY <1>5, <2>1, PickedIsThere
    <3>2. Lines(p) = <<>>
      BY <2>2
    <3>3. DOMAIN p = {}
      <4> HIDE DEF p
      <4>1. DOMAIN Lines(p) = DOMAIN p
        BY DEF Lines
      <4>2. QED
        BY <3>2, <4>1
    <3> HIDE DEF p
    <3>4. p = <<>>
      BY <3>1, <3>3
    <3>5. QED
      BY <3>4 DEF p
  <2> HIDE DEF I, ops
  <2>4. QED
    BY <1>5, <2>1, <2>3, PickedIsThere
<1>7. start = 1
  <2>1. SUFFICES ASSUME start > 1 PROVE FALSE
    BY <1>2
  <2>2. start - 1 \in first..last
    BY <1>2, <2>1 DEF From, first
  <2> DEFINE i == start - first
  <2>3. /\ i \in DOMAIN ops /\ ops[i] = script[start - 1]
    <3>1. i \in 1..last - first + 1 /\ first + i - 1 = start - 1
      BY <1>2, <2>2
    <3> HIDE DEF i, ops
    <3>2. QED
      BY <1>5, <3>1
  <2>4. start - 1 \notin Changes(script)
    <3>1. start - 1 < start /\ start - (start - 1) - 1 <= 2 * context
      BY <1>2
    <3>2. QED
      BY <1>1, <3>1 DEF Starts
  <2>5. script[start - 1].type = "equal"
    <3>1. start - 1 \in DOMAIN script
      BY <1>2, <2>1
    <3>2. QED
      BY <2>4, <3>1 DEF Changes
  <2>6. i \in I
    BY <2>3, <2>5
  <2>7. QED
    BY <1>6, <2>6
<1>8. Below(S, start) = {}
  BY <1>7 DEF Below, Starts, Changes
<1>9. QED
  BY <1>1, <1>8, FS_EmptySet

-----------------------------------------------------------------------------
(* The two appliers *)

\* A set of natural numbers has a least one.
LEMMA LeastNatural ==
  ASSUME NEW S \in SUBSET Nat, S # {}
  PROVE  \E m \in S : \A n \in S : m <= n
<1>1. PICK x \in S : TRUE
  OBVIOUS
<1> DEFINE B == {y \in S : y <= x}
<1>2. IsFiniteSet(B) /\ B # {} /\ B \in SUBSET Int
  <2>1. B \in SUBSET (0..x) /\ x \in B
    <3>1. \A y \in B : y \in 0..x
      BY <1>1
    <3>2. x \in B
      BY <1>1
    <3>3. QED
      BY <3>1, <3>2
  <2>2. IsFiniteSet(0..x)
    BY <1>1, FS_Interval
  <2>3. QED
    BY <2>1, <2>2, FS_Subset
<1>3. PICK m \in B : Cardinality(Below(B, m)) = 0
  <2> HIDE DEF B
  <2>1. 1 \in 1..Cardinality(B)
    BY <1>2, FS_EmptySet, FS_CardinalityType
  <2>2. PICK m \in B : Cardinality(Below(B, m)) = 1 - 1
    BY <1>2, <2>1, RanksAreTaken
  <2>3. QED
    BY <2>2
<1>4. Below(B, m) = {}
  <2>1. Below(B, m) \in SUBSET B
    BY DEF Below
  <2> HIDE DEF B
  <2>2. IsFiniteSet(Below(B, m))
    BY <1>2, <2>1, FS_Subset
  <2>3. QED
    BY <1>3, <2>2, FS_EmptySet
<1>5. ASSUME NEW n \in S PROVE m <= n
  <2>1. CASE n <= x
    <3>1. n \in B
      BY <2>1
    <3>2. ~(n < m)
      BY <1>4, <3>1 DEF Below
    <3>3. QED
      BY <3>2
  <2>2. CASE ~(n <= x)
    BY <2>2
  <2>3. QED
    BY <2>1, <2>2
<1>6. QED
  BY <1>5

\* Induction over 0..N, of membership in a set.
LEMMA SetInduction ==
  ASSUME NEW N \in Nat, NEW S, 0 \in S, \A n \in 1..N : n - 1 \in S => n \in S
  PROVE  0..N \subseteq S
<1> DEFINE T == 0..N \ S
<1>1. SUFFICES ASSUME T # {} PROVE FALSE
  OBVIOUS
<1>2. PICK m \in T : \A n \in T : m <= n
  <2>1. T \in SUBSET Nat
    OBVIOUS
  <2> HIDE DEF T
  <2>2. QED
    BY <1>1, <2>1, LeastNatural
<1>3. m \in 1..N /\ m - 1 \in 0..N /\ ~(m <= m - 1)
  BY <1>2
<1>4. m - 1 \in S
  BY <1>2, <1>3
<1>5. QED
  BY <1>2, <1>3, <1>4

-----------------------------------------------------------------------------

\* Where a hunk goes, and what it makes of the lines there.
Place(hunk, lines, carry) ==
  IF OldPat(hunk) = <<>>
    THEN Min({Max({hunk.insertAt + carry, 0}), LineCount(lines)})
    ELSE CHOOSE i \in Occurrences(lines, OldPat(hunk)) : TRUE
Spliced(lines, hunk, at) ==
  SubSeq(lines, 1, at) \o NewRep(hunk)
    \o SubSeq(lines, at + Len(OldPat(hunk)) + 1, Len(lines))
Unambiguous(lines, hunk) ==
  OldPat(hunk) # <<>> => Cardinality(Occurrences(lines, OldPat(hunk))) = 1

\* Without markers core splices as the mirror does.
LEMMA SplicesAlike ==
  ASSUME NEW lines, NEW hunk \in Edits, NEW at
  PROVE  SpliceAt(lines, hunk, at) = [ok |-> TRUE, lines |-> Spliced(lines, hunk, at)]
BY NoMarkers DEF SpliceAt, Spliced

\* Core's applier takes an unambiguous hunk, unless it is at its ceiling.
LEMMA CoreTakesHunk ==
  ASSUME NEW state, NEW hunk \in Edits, "status" \in DOMAIN state,
         state.status = "applied", Unambiguous(state.lines, hunk)
  PROVE  /\ "status" \in DOMAIN ApplyHunk(state, hunk)
         /\ \/ ApplyHunk(state, hunk).status = "limit"
            \/ /\ ApplyHunk(state, hunk).status = "applied"
               /\ ApplyHunk(state, hunk).lines =
                    Spliced(state.lines, hunk, Place(hunk, state.lines, state.shift))
<1> DEFINE pattern == OldPat(hunk)
           work == state.work + ScanCost(state.lines, pattern)
           found == Occurrences(state.lines, pattern)
           at == Place(hunk, state.lines, state.shift)
           spliced == SpliceAt(state.lines, hunk, at)
           next == [status |-> "applied", lines |-> spliced.lines, work |-> work,
                    shift |-> state.shift + LineCount(spliced.lines) - LineCount(state.lines)]
<1>1. ApplyHunk(state, hunk) =
        IF state.status # "applied" THEN state
        ELSE IF work > MaxWork THEN [state EXCEPT !.status = "limit"]
        ELSE IF pattern # <<>> /\ Cardinality(found) # 1
          THEN [state EXCEPT !.status = IF found = {} THEN "no-match" ELSE "ambiguous-match"]
        ELSE IF ~spliced.ok THEN [state EXCEPT !.status = "eof-mismatch"]
        ELSE next
  BY DEF ApplyHunk, Place
<1>2. pattern # <<>> => Cardinality(found) = 1
  BY DEF Unambiguous
<1>3. spliced = [ok |-> TRUE, lines |-> Spliced(state.lines, hunk, at)]
  <2> HIDE DEF at
  <2>1. QED
    BY SplicesAlike
<1>4. next.status = "applied" /\ next.lines = spliced.lines /\ "status" \in DOMAIN next
  OBVIOUS
<1>5. spliced.ok = TRUE /\ spliced.lines = Spliced(state.lines, hunk, at)
  <2> HIDE DEF spliced, at
  <2>1. QED
    BY <1>3
<1> HIDE DEF pattern, work, found, spliced, next, at
<1>6. CASE work > MaxWork
  <2>1. ApplyHunk(state, hunk) = [state EXCEPT !.status = "limit"]
    BY <1>1, <1>6
  <2>2. QED
    BY <2>1
<1>7. CASE ~(work > MaxWork)
  <2>1. ApplyHunk(state, hunk) = next
    BY <1>1, <1>2, <1>5, <1>7
  <2>2. QED
    BY <2>1, <1>4, <1>5 DEF at
<1>8. QED
  BY <1>6, <1>7

\* The mirror's applier takes an unambiguous hunk and no other.
LEMMA MirrorTakesHunk ==
  ASSUME NEW state, NEW hunk, "ok" \in DOMAIN state
  PROVE  /\ "ok" \in DOMAIN MirrorApplyHunk(state, hunk)
         /\ MirrorApplyHunk(state, hunk).ok =>
              /\ state.ok /\ Unambiguous(state.lines, hunk)
              /\ MirrorApplyHunk(state, hunk).lines =
                   Spliced(state.lines, hunk, Place(hunk, state.lines, state.carry))
<1> DEFINE pattern == OldPat(hunk)
           found == Occurrences(state.lines, pattern)
           at == Place(hunk, state.lines, state.carry)
           next == [ok |-> TRUE, lines |-> Spliced(state.lines, hunk, at),
                    carry |-> state.carry + Len(NewRep(hunk)) - Len(pattern)]
<1>1. MirrorApplyHunk(state, hunk) =
        IF ~state.ok \/ (pattern # <<>> /\ Cardinality(found) # 1)
          THEN [state EXCEPT !.ok = FALSE] ELSE next
  BY DEF MirrorApplyHunk, Place, Spliced
<1>2. next.lines = Spliced(state.lines, hunk, at) /\ "ok" \in DOMAIN next
  OBVIOUS
<1>3. Unambiguous(state.lines, hunk) <=> ~(pattern # <<>> /\ Cardinality(found) # 1)
  BY DEF Unambiguous
<1> HIDE DEF pattern, found, next
<1>4. CASE ~state.ok \/ (pattern # <<>> /\ Cardinality(found) # 1)
  <2>1. MirrorApplyHunk(state, hunk) = [state EXCEPT !.ok = FALSE]
    BY <1>1, <1>4
  <2>2. QED
    BY <2>1
<1>5. CASE ~(~state.ok \/ (pattern # <<>> /\ Cardinality(found) # 1))
  <2>1. MirrorApplyHunk(state, hunk) = next
    BY <1>1, <1>5
  <2>2. QED
    BY <2>1, <1>2, <1>3, <1>5
<1>6. QED
  BY <1>4, <1>5

\* The states of the two appliers after each hunk.
CoreStates(before, hunks) ==
  LET state[k \in 0..Len(hunks)] ==
        IF k = 0 THEN [status |-> "applied", lines |-> before, work |-> 0, shift |-> 0]
        ELSE ApplyHunk(state[k - 1], hunks[k])
  IN state
MirrorStates(before, hunks) ==
  LET state[k \in 0..Len(hunks)] ==
        IF k = 0 THEN [ok |-> TRUE, lines |-> before, carry |-> 0]
        ELSE MirrorApplyHunk(state[k - 1], hunks[k])
  IN state

\* The recursive definitions define the states they describe.
LEMMA CoreGoesOn ==
  ASSUME NEW before, NEW hunks \in Seq(Edits)
  PROVE  /\ CoreStates(before, hunks)[0] =
              [status |-> "applied", lines |-> before, work |-> 0, shift |-> 0]
         /\ \A k \in 1..Len(hunks) :
              CoreStates(before, hunks)[k] =
                ApplyHunk(CoreStates(before, hunks)[k - 1], hunks[k])
<1> DEFINE first == [status |-> "applied", lines |-> before, work |-> 0, shift |-> 0]
           Body(f, k) == IF k = 0 THEN first ELSE ApplyHunk(f[k - 1], hunks[k])
           Upto(n) == \E f : f = [k \in 0..n |-> Body(f, k)]
           N == Len(hunks)
           T == {n \in 0..N : Upto(n)}
<1>1. N \in Nat
  OBVIOUS
<1> HIDE DEF first, N
<1>2. Upto(0)
  <2> DEFINE f == [k \in 0..0 |-> first]
  <2>1. \A k \in 0..0 : k = 0
    OBVIOUS
  <2>2. f = [k \in 0..0 |-> Body(f, k)]
    BY <2>1
  <2>3. QED
    BY <2>2
<1>3. ASSUME NEW n \in 1..N, Upto(n - 1) PROVE Upto(n)
  <2>1. PICK f : f = [k \in 0..n - 1 |-> Body(f, k)]
    BY <1>3
  <2> DEFINE g == [k \in 0..n |-> IF k = n THEN Body(f, n) ELSE f[k]]
  <2>2. ASSUME NEW k \in 0..n PROVE g[k] = Body(g, k)
    <3>1. CASE k = 0
      <4>1. 0 \in 0..n - 1 /\ k # n
        BY <3>1
      <4>2. g[k] = f[0] /\ f[0] = first
        BY <2>1, <3>1, <4>1
      <4>3. QED
        BY <3>1, <4>2
    <3>2. CASE k # 0 /\ k # n
      <4>1. k \in 0..n - 1 /\ k - 1 \in 0..n /\ k - 1 # n
        BY <3>2
      <4>2. g[k] = f[k] /\ g[k - 1] = f[k - 1]
        BY <3>2, <4>1
      <4>3. f[k] = ApplyHunk(f[k - 1], hunks[k])
        BY <2>1, <3>2, <4>1
      <4>4. QED
        BY <3>2, <4>2, <4>3
    <3>3. CASE k # 0 /\ k = n
      <4>1. k - 1 \in 0..n /\ k - 1 # n
        BY <3>3
      <4>2. g[k] = ApplyHunk(f[k - 1], hunks[k]) /\ g[k - 1] = f[k - 1]
        BY <3>3, <4>1
      <4>3. QED
        BY <3>3, <4>2
    <3>4. QED
      BY <3>1, <3>2, <3>3
  <2>3. g = [k \in 0..n |-> Body(g, k)]
    <3>1. g = [k \in 0..n |-> g[k]]
      OBVIOUS
    <3> HIDE DEF g
    <3>2. QED
      BY <2>2, <3>1
  <2> HIDE DEF g
  <2>4. QED
    BY <2>3
<1>4. Upto(N)
  <2> HIDE DEF Upto
  <2>1. 0 \in T /\ \A n \in 1..N : n - 1 \in T => n \in T
    BY <1>1, <1>2, <1>3
  <2> HIDE DEF T
  <2>2. 0..N \subseteq T
    BY <1>1, <2>1, SetInduction
  <2>3. QED
    BY <1>1, <2>2 DEF T
<1> DEFINE h == CoreStates(before, hunks)
<1>5. h = CHOOSE f : f = [k \in 0..N |-> Body(f, k)]
  BY DEF CoreStates, N, first
<1> HIDE DEF h
<1>6. h = [k \in 0..N |-> Body(h, k)]
  BY <1>4, <1>5
<1>7. h[0] = first
  BY <1>1, <1>6
<1>8. ASSUME NEW k \in 1..N PROVE h[k] = ApplyHunk(h[k - 1], hunks[k])
  BY <1>1, <1>6
<1>9. QED
  BY <1>7, <1>8 DEF h, first, N

\* The same of the mirror's.
LEMMA MirrorGoesOn ==
  ASSUME NEW before, NEW hunks \in Seq(Edits)
  PROVE  /\ MirrorStates(before, hunks)[0] =
              [ok |-> TRUE, lines |-> before, carry |-> 0]
         /\ \A k \in 1..Len(hunks) :
              MirrorStates(before, hunks)[k] =
                MirrorApplyHunk(MirrorStates(before, hunks)[k - 1], hunks[k])
<1> DEFINE first == [ok |-> TRUE, lines |-> before, carry |-> 0]
           Body(f, k) == IF k = 0 THEN first ELSE MirrorApplyHunk(f[k - 1], hunks[k])
           Upto(n) == \E f : f = [k \in 0..n |-> Body(f, k)]
           N == Len(hunks)
           T == {n \in 0..N : Upto(n)}
<1>1. N \in Nat
  OBVIOUS
<1> HIDE DEF first, N
<1>2. Upto(0)
  <2> DEFINE f == [k \in 0..0 |-> first]
  <2>1. \A k \in 0..0 : k = 0
    OBVIOUS
  <2>2. f = [k \in 0..0 |-> Body(f, k)]
    BY <2>1
  <2>3. QED
    BY <2>2
<1>3. ASSUME NEW n \in 1..N, Upto(n - 1) PROVE Upto(n)
  <2>1. PICK f : f = [k \in 0..n - 1 |-> Body(f, k)]
    BY <1>3
  <2> DEFINE g == [k \in 0..n |-> IF k = n THEN Body(f, n) ELSE f[k]]
  <2>2. ASSUME NEW k \in 0..n PROVE g[k] = Body(g, k)
    <3>1. CASE k = 0
      <4>1. 0 \in 0..n - 1 /\ k # n
        BY <3>1
      <4>2. g[k] = f[0] /\ f[0] = first
        BY <2>1, <3>1, <4>1
      <4>3. QED
        BY <3>1, <4>2
    <3>2. CASE k # 0 /\ k # n
      <4>1. k \in 0..n - 1 /\ k - 1 \in 0..n /\ k - 1 # n
        BY <3>2
      <4>2. g[k] = f[k] /\ g[k - 1] = f[k - 1]
        BY <3>2, <4>1
      <4>3. f[k] = MirrorApplyHunk(f[k - 1], hunks[k])
        BY <2>1, <3>2, <4>1
      <4>4. QED
        BY <3>2, <4>2, <4>3
    <3>3. CASE k # 0 /\ k = n
      <4>1. k - 1 \in 0..n /\ k - 1 # n
        BY <3>3
      <4>2. g[k] = MirrorApplyHunk(f[k - 1], hunks[k]) /\ g[k - 1] = f[k - 1]
        BY <3>3, <4>1
      <4>3. QED
        BY <3>3, <4>2
    <3>4. QED
      BY <3>1, <3>2, <3>3
  <2>3. g = [k \in 0..n |-> Body(g, k)]
    <3>1. g = [k \in 0..n |-> g[k]]
      OBVIOUS
    <3> HIDE DEF g
    <3>2. QED
      BY <2>2, <3>1
  <2> HIDE DEF g
  <2>4. QED
    BY <2>3
<1>4. Upto(N)
  <2> HIDE DEF Upto
  <2>1. 0 \in T /\ \A n \in 1..N : n - 1 \in T => n \in T
    BY <1>1, <1>2, <1>3
  <2> HIDE DEF T
  <2>2. 0..N \subseteq T
    BY <1>1, <2>1, SetInduction
  <2>3. QED
    BY <1>1, <2>2 DEF T
<1> DEFINE h == MirrorStates(before, hunks)
<1>5. h = CHOOSE f : f = [k \in 0..N |-> Body(f, k)]
  BY DEF MirrorStates, N, first
<1> HIDE DEF h
<1>6. h = [k \in 0..N |-> Body(h, k)]
  BY <1>4, <1>5
<1>7. h[0] = first
  BY <1>1, <1>6
<1>8. ASSUME NEW k \in 1..N PROVE h[k] = MirrorApplyHunk(h[k - 1], hunks[k])
  BY <1>1, <1>6
<1>9. QED
  BY <1>7, <1>8 DEF h, first, N

\* What the mirror's applier has got through, core's makes the same of, unless it is at
\* its ceiling.
LEMMA AppliersAgree ==
  ASSUME NEW before, NEW hunks \in Seq(Edits),
         \A k \in 1..Len(hunks) : OldPat(hunks[k]) = <<>> => k = 1,
         MirrorStates(before, hunks)[Len(hunks)].ok
  PROVE  LET mine == CoreStates(before, hunks)[Len(hunks)]
             its == MirrorStates(before, hunks)[Len(hunks)]
         IN mine.status = "limit" \/ (mine.status = "applied" /\ mine.lines = its.lines)
<1> DEFINE C == CoreStates(before, hunks)
           M == MirrorStates(before, hunks)
           N == Len(hunks)
           Typed == {k \in 0..N : "ok" \in DOMAIN M[k]}
           Fine == {k \in 0..N : M[N - k].ok}
           Agree(k) == /\ "status" \in DOMAIN C[k]
                       /\ \/ C[k].status = "limit"
                          \/ C[k].status = "applied" /\ C[k].lines = M[k].lines
           Agreed == {k \in 0..N : Agree(k)}
<1>1. N \in Nat
  OBVIOUS
<1>2. /\ C[0] = [status |-> "applied", lines |-> before, work |-> 0, shift |-> 0]
      /\ \A k \in 1..N : C[k] = ApplyHunk(C[k - 1], hunks[k])
  BY CoreGoesOn
<1>3. /\ M[0] = [ok |-> TRUE, lines |-> before, carry |-> 0]
      /\ \A k \in 1..N : M[k] = MirrorApplyHunk(M[k - 1], hunks[k])
  BY MirrorGoesOn
<1>4. \A k \in 1..N : hunks[k] \in Edits
  OBVIOUS
<1>5. M[N].ok /\ \A k \in 1..N : OldPat(hunks[k]) = <<>> => k = 1
  OBVIOUS
<1> HIDE DEF C, M, N
<1>6. \A k \in 0..N : "ok" \in DOMAIN M[k]
  <2>1. 0 \in Typed
    <3>1. "ok" \in DOMAIN M[0]
      BY <1>3
    <3>2. QED
      BY <1>1, <3>1
  <2>2. ASSUME NEW k \in 1..N, k - 1 \in Typed PROVE k \in Typed
    <3>1. "ok" \in DOMAIN M[k - 1] /\ M[k] = MirrorApplyHunk(M[k - 1], hunks[k])
      BY <1>3, <2>2
    <3>2. "ok" \in DOMAIN M[k]
      BY <3>1, MirrorTakesHunk
    <3>3. QED
      BY <3>2
  <2> HIDE DEF Typed
  <2>3. 0..N \subseteq Typed
    BY <1>1, <2>1, <2>2, SetInduction
  <2>4. QED
    BY <2>3 DEF Typed
<1>7. ASSUME NEW k \in 1..N, M[k].ok
      PROVE  /\ M[k - 1].ok /\ Unambiguous(M[k - 1].lines, hunks[k])
             /\ M[k].lines = Spliced(M[k - 1].lines, hunks[k],
                                     Place(hunks[k], M[k - 1].lines, M[k - 1].carry))
  <2>1. k - 1 \in 0..N
    BY <1>1
  <2>2. "ok" \in DOMAIN M[k - 1] /\ M[k] = MirrorApplyHunk(M[k - 1], hunks[k])
    BY <1>3, <1>6, <2>1
  <2>3. QED
    BY <1>7, <2>2, MirrorTakesHunk
<1>8. \A k \in 0..N : M[k].ok
  <2>1. 0 \in Fine
    BY <1>1, <1>5
  <2>2. ASSUME NEW k \in 1..N, k - 1 \in Fine PROVE k \in Fine
    <3>1. N - (k - 1) \in 1..N /\ N - (k - 1) - 1 = N - k /\ M[N - (k - 1)].ok
      BY <1>1, <2>2
    <3>2. M[N - k].ok
      BY <1>7, <3>1
    <3>3. QED
      BY <3>2
  <2> HIDE DEF Fine
  <2>3. 0..N \subseteq Fine
    BY <1>1, <2>1, <2>2, SetInduction
  <2>4. ASSUME NEW k \in 0..N PROVE M[k].ok
    <3>1. N - k \in 0..N /\ N - (N - k) = k
      BY <1>1
    <3>2. M[N - (N - k)].ok
      BY <2>3, <3>1 DEF Fine
    <3>3. QED
      BY <3>1, <3>2
  <2>5. QED
    BY <2>4
<1>9. ASSUME NEW k \in 1..N, Agree(k - 1) PROVE Agree(k)
  <2> DEFINE mine == C[k - 1]
             its == M[k - 1]
             hunk == hunks[k]
  <2>1. its.ok /\ Unambiguous(its.lines, hunk)
        /\ M[k].lines = Spliced(its.lines, hunk, Place(hunk, its.lines, its.carry))
    BY <1>7, <1>8
  <2>2. C[k] = ApplyHunk(mine, hunk) /\ hunk \in Edits
    BY <1>2, <1>4
  <2>3. /\ "status" \in DOMAIN mine
        /\ mine.status = "limit" \/ (mine.status = "applied" /\ mine.lines = its.lines)
    BY <1>9
  <2>4. Place(hunk, its.lines, mine.shift) = Place(hunk, its.lines, its.carry)
    <3>1. CASE OldPat(hunk) = <<>>
      <4>1. k = 1
        BY <1>5, <3>1
      <4>2. mine.shift = 0 /\ its.carry = 0
        BY <1>2, <1>3, <4>1
      <4>3. QED
        BY <4>2
    <3>2. CASE OldPat(hunk) # <<>>
      BY <3>2 DEF Place
    <3>3. QED
      BY <3>1, <3>2
  <2> HIDE DEF mine, its, hunk
  <2>5. CASE mine.status = "limit"
    <3>1. ApplyHunk(mine, hunk) = mine
      BY <2>5 DEF ApplyHunk
    <3>2. QED
      BY <2>2, <2>3, <2>5, <3>1
  <2>6. CASE mine.status = "applied" /\ mine.lines = its.lines
    <3>1. Unambiguous(mine.lines, hunk)
      BY <2>1, <2>6
    <3>2. /\ "status" \in DOMAIN ApplyHunk(mine, hunk)
          /\ \/ ApplyHunk(mine, hunk).status = "limit"
             \/ /\ ApplyHunk(mine, hunk).status = "applied"
                /\ ApplyHunk(mine, hunk).lines =
                     Spliced(mine.lines, hunk, Place(hunk, mine.lines, mine.shift))
      BY <2>2, <2>3, <2>6, <3>1, CoreTakesHunk
    <3>3. Spliced(mine.lines, hunk, Place(hunk, mine.lines, mine.shift)) = M[k].lines
      BY <2>1, <2>4, <2>6
    <3>4. QED
      BY <2>2, <3>2, <3>3
  <2>7. QED
    BY <2>3, <2>5, <2>6
<1>10. Agree(0)
  BY <1>2, <1>3
<1>11. Agree(N)
  <2> HIDE DEF Agree
  <2>1. 0 \in Agreed /\ \A k \in 1..N : k - 1 \in Agreed => k \in Agreed
    BY <1>1, <1>9, <1>10
  <2> HIDE DEF Agreed
  <2>2. 0..N \subseteq Agreed
    BY <1>1, <2>1, SetInduction
  <2>3. QED
    BY <1>1, <2>2 DEF Agreed
<1>12. QED
  BY <1>11 DEF C, M, N

\* A patch of the mirror's whose blind hunk, if any, is the first: the consumer has the
\* new content, or is stopped by its ceilings and keeps the old one.
LEMMA MirrorsPatchApplies ==
  ASSUME NEW before, NEW after, NEW hunks \in Seq(Edits), hunks # <<>>,
         \A k \in 1..Len(hunks) : OldPat(hunks[k]) = <<>> => k = 1,
         MirrorApplies(before, hunks, after)
  PROVE  LET applied == ApplyPatchContent(before, FencePatchPayload(hunks))
         IN applied.content = after \/ (applied.status = "limit" /\ applied.content = before)
<1> DEFINE mine == CoreStates(before, hunks)[Len(hunks)]
           its == MirrorStates(before, hunks)[Len(hunks)]
           applied == ApplyPatchContent(before, FencePatchPayload(hunks))
<1>1. its.ok /\ Normal(its.lines) = after
  BY DEF MirrorApplies, MirrorStates
<1>2. mine.status = "limit" \/ (mine.status = "applied" /\ mine.lines = its.lines)
  BY <1>1, AppliersAgree
<1>3. ApplyPatchPayload(before, hunks) =
        IF Len(hunks) > MaxHunks THEN [status |-> "limit", content |-> before]
        ELSE [status |-> mine.status,
              content |-> IF mine.status = "applied" THEN Normal(mine.lines) ELSE before]
  BY DEF ApplyPatchPayload, CoreStates
<1>4. applied = ApplyPatchPayload(before, hunks)
  <2>1. ASSUME NEW line \in Context(hunks) PROVE ~(Ticks(line) >= FenceLength(hunks))
    <3>1. line \in Shown(hunks)
      <4>1. PICK k \in DOMAIN hunks :
              line \in {op.line : op \in {o \in ToSet(hunks[k].ops) : o.type = "equal"}}
        BY DEF Context
      <4>2. PICK i \in DOMAIN hunks[k].ops : line = hunks[k].ops[i].line
        BY <4>1 DEF ToSet
      <4>3. line \in ToSet(Lines(hunks[k].ops))
        BY <4>2 DEF ToSet, Lines
      <4>4. QED
        BY <4>3 DEF Shown
    <3>2. QED
      BY <3>1, FenceHolds
  <2>2. FencePatchPayload(hunks).hunks = hunks
        /\ FencePatchPayload(hunks).fence = FenceLength(hunks)
    BY DEF FencePatchPayload
  <2>3. QED
    BY <2>1, <2>2 DEF ApplyPatchContent
<1> HIDE DEF mine, its, applied
<1>5. CASE Len(hunks) > MaxHunks
  BY <1>3, <1>4, <1>5 DEF applied
<1>6. CASE ~(Len(hunks) > MaxHunks)
  <2>1. applied.status = mine.status
        /\ applied.content = IF mine.status = "applied" THEN Normal(mine.lines) ELSE before
    BY <1>3, <1>4, <1>6
  <2>2. QED
    BY <1>1, <1>2, <2>1 DEF applied
<1>7. QED
  BY <1>5, <1>6

-----------------------------------------------------------------------------
(* Alignments *)

\* What an alignment keeps of two sequences is as much of either and the same, in order.
Aligned(a, b, keep) ==
  /\ keep[1] \in SUBSET (DOMAIN a) /\ keep[2] \in SUBSET (DOMAIN b)
  /\ Cardinality(keep[1]) = Cardinality(keep[2])
  /\ \A i \in keep[1], j \in keep[2] :
       Cardinality(Below(keep[1], i)) = Cardinality(Below(keep[2], j)) => a[i] = b[j]

\* Places of a sequence are finitely many numbers.
LEMMA PlacesAreFinite ==
  ASSUME NEW T, NEW seq \in Seq(T), NEW I \in SUBSET (DOMAIN seq)
  PROVE  /\ I \in SUBSET Int /\ IsFiniteSet(I) /\ Cardinality(I) \in Nat
         /\ \A i \in I : i \in 1..Len(seq)
<1>1. DOMAIN seq = 1..Len(seq) /\ Len(seq) \in Nat
  OBVIOUS
<1>2. IsFiniteSet(1..Len(seq))
  BY <1>1, FS_Interval
<1>3. I \in SUBSET Int /\ IsFiniteSet(I)
  BY <1>1, <1>2, FS_Subset
<1>4. QED
  BY <1>1, <1>3, FS_CardinalityType

\* What is picked at a place of a given rank.
LEMMA PickedByRank ==
  ASSUME NEW T, NEW seq \in Seq(T), NEW I \in SUBSET (DOMAIN seq), NEW i \in I
  PROVE  /\ Cardinality(Below(I, i)) + 1 \in 1..Cardinality(I)
         /\ Picked(seq, I)[Cardinality(Below(I, i)) + 1] = seq[i]
<1> DEFINE c == Cardinality(I)
           n == Cardinality(Below(I, i)) + 1
           order == InOrder(I)
<1>1. I \in SUBSET Int /\ IsFiniteSet(I) /\ c \in Nat
  BY PlacesAreFinite
<1>2. n \in 1..c
  <2>1. Below(I, i) \in SUBSET (I \ {i})
    <3>1. i \in Int /\ ~(i < i)
      BY <1>1
    <3>2. QED
      BY <3>1 DEF Below
  <2>2. IsFiniteSet(I \ {i}) /\ Cardinality(I \ {i}) = c - 1
    BY <1>1, FS_RemoveElement
  <2>3. IsFiniteSet(Below(I, i)) /\ Cardinality(Below(I, i)) <= c - 1
    BY <2>1, <2>2, FS_Subset
  <2>4. Cardinality(Below(I, i)) \in Nat
    BY <2>3, FS_CardinalityType
  <2> HIDE DEF c
  <2>5. QED
    BY <1>1, <2>3, <2>4
<1>3. order \in [1..c -> I] /\ \A k \in 1..c : Cardinality(Below(I, order[k])) = k - 1
  BY <1>1, NumbersInOrder
<1>4. order[n] = i
  <2>1. order[n] \in I /\ Cardinality(Below(I, order[n])) = n - 1
    <3> HIDE DEF order, n, c
    <3>1. QED
      BY <1>2, <1>3
  <2>2. Cardinality(Below(I, order[n])) = Cardinality(Below(I, i))
    <3>1. Cardinality(Below(I, i)) \in Int
      <4>1. Below(I, i) \in SUBSET I
        BY DEF Below
      <4>2. QED
        BY <1>1, <4>1, FS_Subset, FS_CardinalityType
    <3>2. QED
      BY <2>1, <3>1
  <2> HIDE DEF order, n
  <2>3. QED
    BY <1>1, <2>1, <2>2, RanksDiffer
<1>5. Picked(seq, I) = [k \in 1..c |-> seq[order[k]]]
  BY <1>3 DEF Picked
<1> HIDE DEF order, c, n
<1>6. Picked(seq, I)[n] = seq[i]
  BY <1>2, <1>4, <1>5
<1>7. QED
  BY <1>2, <1>6 DEF c, n

\* The alignments of a shortest script.
LEMMA AlignmentsAlign ==
  ASSUME NEW a \in Seq(Token), NEW b \in Seq(Token), NEW keep \in Alignments(a, b)
  PROVE  Aligned(a, b, keep)
<1>1. /\ keep[1] \in SUBSET (DOMAIN a) /\ keep[2] \in SUBSET (DOMAIN b)
      /\ Cardinality(keep[1]) = Cardinality(keep[2])
      /\ Picked(a, keep[1]) = Picked(b, keep[2])
  BY DEF Alignments
<1>2. ASSUME NEW i \in keep[1], NEW j \in keep[2],
             Cardinality(Below(keep[1], i)) = Cardinality(Below(keep[2], j))
      PROVE  a[i] = b[j]
  <2>1. Picked(a, keep[1])[Cardinality(Below(keep[1], i)) + 1] = a[i]
    BY <1>1, PickedByRank
  <2>2. Picked(b, keep[2])[Cardinality(Below(keep[2], j)) + 1] = b[j]
    BY <1>1, PickedByRank
  <2>3. QED
    BY <1>1, <1>2, <2>1, <2>2
<1>3. QED
  BY <1>1, <1>2 DEF Aligned

\* The two ends of n places.
Ends(start, end, n) == 1..start \cup (n - end + 1)..n

\* How many there are, and their ranks.
LEMMA RanksOfEnds ==
  ASSUME NEW start \in Nat, NEW end \in Nat, NEW n \in Nat, start + end <= n
  PROVE  /\ Ends(start, end, n) \in SUBSET (1..n)
         /\ Cardinality(Ends(start, end, n)) = start + end
         /\ \A i \in Ends(start, end, n) :
              Cardinality(Below(Ends(start, end, n), i)) =
                IF i <= start THEN i - 1 ELSE start + (i - (n - end + 1))
<1> DEFINE K == Ends(start, end, n)
<1>1. K \in SUBSET (1..n)
  BY DEF Ends
<1>2. ASSUME NEW from \in Int, NEW to \in Int, from > start
      PROVE  Cardinality(1..start \cup from..to) = start + (IF from > to THEN 0 ELSE to - from + 1)
  <2>1. 1..start \cap from..to = {}
    BY <1>2
  <2>2. IsFiniteSet(1..start) /\ Cardinality(1..start) = start
    <3>1. 1 \in Int /\ start \in Int /\ (IF 1 > start THEN 0 ELSE start - 1 + 1) = start
      OBVIOUS
    <3>2. QED
      BY <3>1, FS_Interval
  <2>3. IsFiniteSet(from..to)
        /\ Cardinality(from..to) = IF from > to THEN 0 ELSE to - from + 1
    BY FS_Interval
  <2> DEFINE low == 1..start
             high == from..to
  <2>4. IsFiniteSet(low) /\ IsFiniteSet(high)
        /\ Cardinality(low \cap high) = 0 /\ Cardinality(low) = start
    BY <2>1, <2>2, <2>3, FS_EmptySet
  <2>5. Cardinality(low \cup high) = start + Cardinality(high)
    <3> HIDE DEF low, high
    <3>1. Cardinality(low \cup high) = start + Cardinality(high) - 0
      BY <2>4, FS_Union
    <3>2. Cardinality(high) \in Nat
      BY <2>4, FS_CardinalityType
    <3>3. QED
      BY <3>1, <3>2
  <2>6. QED
    BY <2>3, <2>5
<1>3. Cardinality(K) = start + end
  <2>1. /\ n - end + 1 \in Int /\ n - end + 1 > start
        /\ start + (IF n - end + 1 > n THEN 0 ELSE n - (n - end + 1) + 1) = start + end
    OBVIOUS
  <2>2. QED
    BY <1>2, <2>1 DEF Ends
<1>4. ASSUME NEW i \in K
      PROVE  Cardinality(Below(K, i)) = IF i <= start THEN i - 1 ELSE start + (i - (n - end + 1))
  <2>1. CASE i <= start
    <3>1. Below(K, i) = 1..i - 1
      BY <1>1, <2>1 DEF Below, Ends
    <3>2. 1 \in Int /\ i - 1 \in Int /\ (IF 1 > i - 1 THEN 0 ELSE i - 1 - 1 + 1) = i - 1
      BY <1>1
    <3>3. Cardinality(1..i - 1) = i - 1
      BY <3>2, FS_Interval
    <3>4. QED
      BY <2>1, <3>1, <3>3
  <2>2. CASE ~(i <= start)
    <3> DEFINE from == n - end + 1
               to == i - 1
    <3>1. from \in Int /\ to \in Int /\ from > start /\ i \in from..n
      BY <1>1, <2>2 DEF Ends
    <3>2. Below(K, i) = 1..start \cup from..to
      BY <3>1, <2>2 DEF Below, Ends
    <3>3. (IF from > to THEN 0 ELSE to - from + 1) = i - (n - end + 1)
      BY <3>1
    <3> HIDE DEF from, to
    <3>4. QED
      BY <1>2, <2>2, <3>1, <3>2, <3>3
  <2>3. QED
    BY <2>1, <2>2
<1>5. QED
  BY <1>1, <1>3, <1>4

\* The fallback keeps the common ends, which do not overlap.
LEMMA EndsAlign ==
  ASSUME NEW a \in Seq(Token), NEW b \in Seq(Token)
  PROVE  Aligned(a, b, CommonEnds(a, b))
<1> DEFINE short == Min({Len(a), Len(b)})
           starts == {n \in 0..short : SubSeq(a, 1, n) = SubSeq(b, 1, n)}
           start == Max(starts)
           ends == {n \in 0..(short - start) :
                     SubSeq(a, Len(a) - n + 1, Len(a)) = SubSeq(b, Len(b) - n + 1, Len(b))}
           end == Max(ends)
           A == Ends(start, end, Len(a))
           B == Ends(start, end, Len(b))
<1>1. CommonEnds(a, b) = <<A, B>>
  BY DEF CommonEnds, Ends
<1>2. Len(a) \in Nat /\ Len(b) \in Nat /\ DOMAIN a = 1..Len(a) /\ DOMAIN b = 1..Len(b)
  OBVIOUS
<1>3. short \in Nat /\ short <= Len(a) /\ short <= Len(b)
  <2> DEFINE m == IF Len(a) <= Len(b) THEN Len(a) ELSE Len(b)
  <2>1. m \in {Len(a), Len(b)} /\ \A y \in {Len(a), Len(b)} : m <= y
    BY <1>2
  <2> HIDE DEF m
  <2>2. short \in {Len(a), Len(b)} /\ \A y \in {Len(a), Len(b)} : short <= y
    BY <2>1 DEF Min
  <2>3. QED
    BY <1>2, <2>2
<1>4. start \in 0..short /\ SubSeq(a, 1, start) = SubSeq(b, 1, start)
  <2>1. 0 \in starts
    <3>1. SubSeq(a, 1, 0) = <<>> /\ SubSeq(b, 1, 0) = <<>>
      BY SubSeqEmpty
    <3> HIDE DEF short
    <3>2. QED
      BY <1>3, <3>1
  <2>2. starts \in SUBSET Int /\ IsFiniteSet(starts)
    <3> HIDE DEF short
    <3>1. starts \in SUBSET (0..short) /\ 0..short \in SUBSET Int /\ IsFiniteSet(0..short)
      BY <1>3, FS_Interval
    <3> HIDE DEF starts
    <3>2. QED
      BY <3>1, FS_Subset
  <2>3. start \in starts
    <3> HIDE DEF starts
    <3>1. QED
      BY <2>1, <2>2, LargestExists
  <2>4. QED
    BY <2>3
<1>5. /\ end \in 0..(short - start)
      /\ SubSeq(a, Len(a) - end + 1, Len(a)) = SubSeq(b, Len(b) - end + 1, Len(b))
  <2> HIDE DEF short, start
  <2>1. 0 \in ends
    <3>1. SubSeq(a, Len(a) - 0 + 1, Len(a)) = <<>> /\ SubSeq(b, Len(b) - 0 + 1, Len(b)) = <<>>
      BY <1>2, SubSeqEmpty
    <3>2. QED
      BY <1>3, <1>4, <3>1
  <2>2. ends \in SUBSET Int /\ IsFiniteSet(ends)
    <3>1. /\ ends \in SUBSET (0..(short - start)) /\ 0..(short - start) \in SUBSET Int
          /\ IsFiniteSet(0..(short - start))
      BY <1>3, <1>4, FS_Interval
    <3> HIDE DEF ends
    <3>2. QED
      BY <3>1, FS_Subset
  <2>3. end \in ends
    <3> HIDE DEF ends
    <3>1. QED
      BY <2>1, <2>2, LargestExists
  <2>4. QED
    BY <2>3
<1> HIDE DEF short, start, end
<1>6. /\ start \in Nat /\ end \in Nat
      /\ start + end <= Len(a) /\ start + end <= Len(b)
  BY <1>2, <1>3, <1>4, <1>5
<1>7. ASSUME NEW i \in A, NEW j \in B,
             Cardinality(Below(A, i)) = Cardinality(Below(B, j))
      PROVE  a[i] = b[j]
  <2>1. i \in 1..Len(a) /\ j \in 1..Len(b)
    BY <1>2, <1>6, RanksOfEnds
  <2>2. (IF i <= start THEN i - 1 ELSE start + (i - (Len(a) - end + 1)))
          = (IF j <= start THEN j - 1 ELSE start + (j - (Len(b) - end + 1)))
    BY <1>2, <1>6, <1>7, RanksOfEnds
  <2>3. /\ i \in 1..start \/ i \in (Len(a) - end + 1)..Len(a)
        /\ j \in 1..start \/ j \in (Len(b) - end + 1)..Len(b)
    BY DEF Ends
  <2>4. CASE i <= start
    <3>1. i = j /\ i \in 1..start
      BY <1>2, <1>6, <2>1, <2>2, <2>3, <2>4
    <3>2. SubSeq(a, 1, start)[i] = a[i] /\ SubSeq(b, 1, start)[i] = b[i]
      <4>1. \A k \in 1..start : a[k] \in Token /\ b[k] \in Token
        BY <1>2, <1>6
      <4>2. 1 \in Int /\ start \in Int /\ i \in 1..(start - 1 + 1) /\ 1 + i - 1 = i
        BY <1>6, <3>1
      <4>3. QED
        BY <4>1, <4>2, SubSeqProperties
    <3>3. QED
      BY <1>4, <3>1, <3>2
  <2>5. CASE ~(i <= start)
    <3> DEFINE p == Len(a) - end + 1
               q == Len(b) - end + 1
               k == i - p + 1
    <3>1. i - p = j - q /\ i \in p..Len(a) /\ j \in q..Len(b)
      BY <1>2, <1>6, <2>1, <2>2, <2>3, <2>5
    <3>2. SubSeq(a, p, Len(a))[k] = a[i]
      <4>1. \A x \in p..Len(a) : a[x] \in Token
        BY <1>2, <1>6
      <4>2. p \in Int /\ Len(a) \in Int /\ k \in 1..Len(a) - p + 1 /\ p + k - 1 = i
        BY <1>2, <1>6, <3>1
      <4> HIDE DEF p, k
      <4>3. QED
        BY <4>1, <4>2, SubSeqProperties
    <3>3. SubSeq(b, q, Len(b))[k] = b[j]
      <4>1. \A x \in q..Len(b) : b[x] \in Token
        BY <1>2, <1>6
      <4>2. q \in Int /\ Len(b) \in Int /\ k \in 1..Len(b) - q + 1 /\ q + k - 1 = j
        BY <1>2, <1>6, <3>1
      <4> HIDE DEF q, k
      <4>3. QED
        BY <4>1, <4>2, SubSeqProperties
    <3>4. QED
      BY <1>5, <3>2, <3>3
  <2>6. QED
    BY <2>4, <2>5
<1>8. QED
  <2>1. /\ A \in SUBSET (DOMAIN a) /\ B \in SUBSET (DOMAIN b)
        /\ Cardinality(A) = Cardinality(B)
    BY <1>2, <1>6, RanksOfEnds
  <2> HIDE DEF A, B
  <2>2. QED
    BY <1>1, <1>7, <2>1 DEF Aligned

-----------------------------------------------------------------------------
(* Scripts *)

\* Of the numbers below the next one, one more if this one is among them.
LEMMA RankGrows ==
  ASSUME NEW K \in SUBSET Int, IsFiniteSet(K), NEW i \in Int
  PROVE  /\ Cardinality(Below(K, i)) \in Nat
         /\ Cardinality(Below(K, i + 1)) = Cardinality(Below(K, i)) + (IF i \in K THEN 1 ELSE 0)
<1> DEFINE low == Below(K, i)
<1>1. low \in SUBSET K /\ i \notin low
  <2>1. ~(i < i)
    OBVIOUS
  <2>2. QED
    BY <2>1 DEF Below
<1>2. IsFiniteSet(low) /\ Cardinality(low) \in Nat
  <2> HIDE DEF low
  <2>1. QED
    BY <1>1, FS_Subset, FS_CardinalityType
<1>3. Below(K, i + 1) = IF i \in K THEN low \cup {i} ELSE low
  <2>1. \A y \in K : y < i + 1 <=> y < i \/ y = i
    OBVIOUS
  <2>2. QED
    BY <2>1 DEF Below
<1> HIDE DEF low
<1>4. CASE i \in K
  BY <1>1, <1>2, <1>3, <1>4, FS_AddElement DEF low
<1>5. CASE i \notin K
  BY <1>2, <1>3, <1>5 DEF low
<1>6. QED
  BY <1>4, <1>5

\* The lines of the first n tokens.
First(seq, n) == [k \in 1..n |-> seq[k].line]

\* One line more.
LEMMA FirstGrows ==
  ASSUME NEW seq \in Seq(Token), NEW n \in Nat, n < Len(seq)
  PROVE  /\ seq[n + 1] \in Token
         /\ Append(First(seq, n), seq[n + 1].line) = First(seq, n + 1)
<1> DEFINE f == First(seq, n)
           g == First(seq, n + 1)
           x == seq[n + 1].line
<1>1. \A k \in 1..n + 1 : seq[k] \in Token
  OBVIOUS
<1>2. \A k \in 1..n + 1 : seq[k].line \in Line
  BY <1>1 DEF Token
<1>3. /\ f \in [1..n -> Line] /\ g \in [1..n + 1 -> Line] /\ x \in Line
      /\ \A k \in 1..n : g[k] = f[k]
      /\ g[n + 1] = x
  <2>1. n + 1 \in 1..n + 1 /\ \A k \in 1..n : k \in 1..n + 1
    OBVIOUS
  <2>2. QED
    BY <1>2, <2>1 DEF First
<1> HIDE DEF f, g, x
<1>4. f \in Seq(Line) /\ Len(f) = n /\ g \in Seq(Line) /\ Len(g) = n + 1
  BY <1>3
<1>5. \A k \in 1..n + 1 : k \in 1..n \/ k = n + 1
  OBVIOUS
<1>6. \A k \in 1..n + 1 : Append(f, x)[k] = g[k]
  BY <1>3, <1>4, <1>5
<1>7. Append(f, x) \in Seq(Line) /\ Len(Append(f, x)) = n + 1
  BY <1>3, <1>4
<1>8. Append(f, x) = g
  <2> DEFINE h == Append(f, x)
  <2>1. h \in [1..n + 1 -> Line]
    BY <1>7, LenProperties
  <2>2. \A k \in 1..n + 1 : h[k] = g[k]
    BY <1>6
  <2> HIDE DEF h
  <2>3. h = g
    BY <1>3, <2>1, <2>2
  <2>4. QED
    BY <2>3 DEF h
<1>9. QED
  BY <1>1, <1>8 DEF f, g, x

\* A script under way: its sides are what has been read of either sequence, as much of
\* the alignment has been passed on both, and every turn reads something.
Fits(a, b, keep, at, n) ==
  /\ at \in [ops : Seq(Op), i : 1..(Len(a) + 1), j : 1..(Len(b) + 1)]
  /\ Side(at.ops, "ins") = First(a, at.i - 1)
  /\ Side(at.ops, "del") = First(b, at.j - 1)
  /\ Cardinality(Below(keep[1], at.i)) = Cardinality(Below(keep[2], at.j))
  /\ n <= at.i + at.j - 2

\* A turn of the loop that writes a script keeps to that.
LEMMA TurnReads ==
  ASSUME NEW a \in Seq(Token), NEW b \in Seq(Token), NEW keep, Aligned(a, b, keep),
         NEW n \in Nat, n < Len(a) + Len(b), NEW at, Fits(a, b, keep, at, n)
  PROVE  Fits(a, b, keep, ScriptStep(a, b, keep, at), n + 1)
<1> DEFINE ops == at.ops
           i == at.i
           j == at.j
           next == ScriptStep(a, b, keep, at)
           OpOf(type, token) == [type |-> type, line |-> token.line, eol |-> token.eol]
           Del == i <= Len(a) /\ i \notin keep[1]
           Ins == j <= Len(b) /\ j \notin keep[2] /\ (i > Len(a) \/ i \in keep[1])
           Keep == i \in keep[1] /\ j \in keep[2]
<1>1. /\ Len(a) \in Nat /\ Len(b) \in Nat
      /\ ops \in Seq(Op) /\ i \in 1..(Len(a) + 1) /\ j \in 1..(Len(b) + 1)
      /\ Side(ops, "ins") = First(a, i - 1) /\ Side(ops, "del") = First(b, j - 1)
      /\ Cardinality(Below(keep[1], i)) = Cardinality(Below(keep[2], j))
      /\ n <= i + j - 2
      /\ at = [ops |-> ops, i |-> i, j |-> j]
  BY DEF Fits
<1>2. /\ keep[1] \in SUBSET Int /\ IsFiniteSet(keep[1]) /\ Cardinality(keep[1]) \in Nat
      /\ keep[2] \in SUBSET Int /\ IsFiniteSet(keep[2]) /\ Cardinality(keep[2]) \in Nat
      /\ Cardinality(keep[1]) = Cardinality(keep[2])
      /\ \A x \in keep[1] : x \in 1..Len(a)
      /\ \A x \in keep[2] : x \in 1..Len(b)
  BY PlacesAreFinite DEF Aligned
<1>3. /\ Del => next = [ops |-> Append(ops, OpOf("del", a[i])), i |-> i + 1, j |-> j]
      /\ Ins => next = [ops |-> Append(ops, OpOf("ins", b[j])), i |-> i, j |-> j + 1]
      /\ Keep => next = [ops |-> Append(ops, OpOf("equal", a[i])), i |-> i + 1, j |-> j + 1]
      /\ ~Del /\ ~Ins /\ ~Keep => next = at
  <2> DEFINE Written(op, x, y) == [ops |-> Append(ops, op), i |-> x, j |-> y]
             d == Written(OpOf("del", a[i]), i + 1, j)
             e == Written(OpOf("ins", b[j]), i, j + 1)
             f == Written(OpOf("equal", a[i]), i + 1, j + 1)
  <2>1. next = CASE Del -> d [] Ins -> e [] Keep -> f [] OTHER -> at
    BY DEF ScriptStep
  <2>2. (Del => ~Ins /\ ~Keep) /\ (Ins => ~Del /\ ~Keep) /\ (Keep => ~Ins /\ ~Del)
    BY <1>1, <1>2
  <2> HIDE DEF Del, Ins, Keep, d, e, f, next
  <2>3. /\ Del => next = d
        /\ Ins => next = e
        /\ Keep => next = f
        /\ ~Del /\ ~Ins /\ ~Keep => next = at
    BY <2>1, <2>2
  <2>4. QED
    BY <2>3 DEF d, e, f
<1>4. /\ i \in Int /\ j \in Int /\ i \in 1..(Len(a) + 1) /\ j \in 1..(Len(b) + 1)
      /\ Len(a) \in Nat /\ Len(b) \in Nat /\ n \in Nat /\ n < Len(a) + Len(b)
      /\ n <= i + j - 2
  BY <1>1
<1>5. /\ Cardinality(Below(keep[1], i + 1)) =
           Cardinality(Below(keep[1], i)) + (IF i \in keep[1] THEN 1 ELSE 0)
      /\ Cardinality(Below(keep[2], j + 1)) =
           Cardinality(Below(keep[2], j)) + (IF j \in keep[2] THEN 1 ELSE 0)
      /\ Cardinality(Below(keep[1], i)) \in Nat /\ Cardinality(Below(keep[2], j)) \in Nat
  <2> HIDE DEF i, j
  <2>1. QED
    BY <1>2, <1>4, RankGrows
<1>9. Del \/ Ins \/ Keep \/ (i = Len(a) + 1 /\ j = Len(b) + 1)
  <2> HIDE DEF i, j
  <2>1. SUFFICES ASSUME ~Del, ~Ins, ~Keep, ~(i = Len(a) + 1 /\ j = Len(b) + 1) PROVE FALSE
    OBVIOUS
  <2>2. ASSUME i = Len(a) + 1 PROVE Cardinality(Below(keep[1], i)) = Cardinality(keep[1])
    <3>1. \A x \in keep[1] : x < i
      BY <1>2, <1>4, <2>2
    <3>2. Below(keep[1], i) = keep[1]
      BY <3>1 DEF Below
    <3>3. QED
      BY <3>2
  <2>3. ASSUME j = Len(b) + 1 PROVE Cardinality(Below(keep[2], j)) = Cardinality(keep[2])
    <3>1. \A x \in keep[2] : x < j
      BY <1>2, <1>4, <2>3
    <3>2. Below(keep[2], j) = keep[2]
      BY <3>1 DEF Below
    <3>3. QED
      BY <3>2
  <2>4. ASSUME i \in keep[1] PROVE Cardinality(Below(keep[1], i)) < Cardinality(keep[1])
    <3>1. Cardinality(Below(keep[1], i)) + 1 \in 1..Cardinality(keep[1])
      BY <2>4, PickedByRank DEF Aligned
    <3>2. QED
      BY <1>2, <1>5, <3>1
  <2>5. ASSUME j \in keep[2] PROVE Cardinality(Below(keep[2], j)) < Cardinality(keep[2])
    <3>1. Cardinality(Below(keep[2], j)) + 1 \in 1..Cardinality(keep[2])
      BY <2>5, PickedByRank DEF Aligned
    <3>2. QED
      BY <1>2, <1>5, <3>1
  <2>6. CASE i = Len(a) + 1
    <3>1. j \in keep[2]
      BY <1>4, <2>1, <2>6
    <3>2. Cardinality(Below(keep[2], j)) < Cardinality(keep[2])
      BY <2>5, <3>1
    <3>3. Cardinality(Below(keep[2], j)) = Cardinality(keep[2])
      BY <1>1, <1>2, <2>2, <2>6
    <3>4. QED
      BY <1>2, <3>2, <3>3
  <2>7. CASE i # Len(a) + 1
    <3>1. i \in keep[1]
      BY <1>4, <2>1, <2>7
    <3>2. j = Len(b) + 1
      BY <1>4, <2>1, <3>1
    <3>3. Cardinality(Below(keep[1], i)) = Cardinality(keep[1])
      BY <1>1, <1>2, <2>3, <3>2
    <3>4. QED
      BY <1>2, <2>4, <3>1, <3>3
  <2>8. QED
    BY <2>6, <2>7
<1>6. /\ i <= Len(a) => a[i] \in Token /\ First(a, i) = Append(First(a, i - 1), a[i].line)
      /\ j <= Len(b) => b[j] \in Token /\ First(b, j) = Append(First(b, j - 1), b[j].line)
  <2> HIDE DEF i, j
  <2>1. i - 1 \in Nat /\ i - 1 + 1 = i /\ j - 1 \in Nat /\ j - 1 + 1 = j
    BY <1>4
  <2>2. ASSUME i <= Len(a) PROVE a[i] \in Token /\ First(a, i) = Append(First(a, i - 1), a[i].line)
    <3>1. i - 1 < Len(a)
      BY <1>4, <2>2
    <3>2. QED
      BY <2>1, <3>1, FirstGrows
  <2>3. ASSUME j <= Len(b) PROVE b[j] \in Token /\ First(b, j) = Append(First(b, j - 1), b[j].line)
    <3>1. j - 1 < Len(b)
      BY <1>4, <2>3
    <3>2. QED
      BY <2>1, <3>1, FirstGrows
  <2>4. QED
    BY <2>2, <2>3
<1>7. ASSUME NEW type \in {"del", "ins", "equal"}, NEW token \in Token
      PROVE  /\ OpOf(type, token) \in Op /\ OpOf(type, token).type = type
             /\ OpOf(type, token).line = token.line
  BY DEF Op, Token
<1> DEFINE p == next.ops
           k == next.i
           l == next.j
<1>8. SUFFICES /\ next = [ops |-> p, i |-> k, j |-> l]
               /\ p \in Seq(Op) /\ k \in 1..(Len(a) + 1) /\ l \in 1..(Len(b) + 1)
               /\ Side(p, "ins") = First(a, k - 1) /\ Side(p, "del") = First(b, l - 1)
               /\ Cardinality(Below(keep[1], k)) = Cardinality(Below(keep[2], l))
               /\ n + 1 <= k + l - 2
  <2> HIDE DEF p, k, l
  <2>1. next \in [ops : Seq(Op), i : 1..(Len(a) + 1), j : 1..(Len(b) + 1)]
    BY <1>8
  <2>2. QED
    BY <1>8, <2>1 DEF Fits, p, k, l
<1>10. CASE Del
  <2> DEFINE op == OpOf("del", a[i])
  <2>1. next = [ops |-> Append(ops, op), i |-> i + 1, j |-> j]
    BY <1>3, <1>10
  <2>2. p = Append(ops, op) /\ k = i + 1 /\ l = j
    <3> HIDE DEF next, op, ops, i, j
    <3>1. QED
      BY <2>1
  <2>3. op \in Op /\ op.type = "del" /\ op.line = a[i].line
        /\ First(a, i) = Append(First(a, i - 1), a[i].line)
    BY <1>6, <1>7, <1>10
  <2>4. i <= Len(a) /\ i \notin keep[1]
    BY <1>10
  <2> HIDE DEF op, ops, i, j, p, k, l, next
  <2>5. Side(p, "ins") = First(a, i) /\ Side(p, "del") = Side(ops, "del") /\ p \in Seq(Op)
    <3>1. Side(p, "ins") = Append(Side(ops, "ins"), op.line)
      BY <1>1, <2>2, <2>3, SideGrows
    <3>2. Side(p, "del") = Side(ops, "del")
      BY <1>1, <2>2, <2>3, SideGrows
    <3>3. p \in Seq(Op)
      BY <1>1, <2>2, <2>3
    <3>4. QED
      BY <1>1, <2>3, <3>1, <3>2, <3>3
  <2>6. k - 1 = i /\ l - 1 = j - 1 /\ k \in 1..(Len(a) + 1) /\ n + 1 <= k + l - 2
    BY <1>4, <2>2, <2>4
  <2>7. Cardinality(Below(keep[1], k)) = Cardinality(Below(keep[2], l))
    BY <1>1, <1>5, <2>2, <2>4
  <2>8. QED
    BY <1>1, <2>1, <2>2, <2>5, <2>6, <2>7
<1>11. CASE Ins
  <2> DEFINE op == OpOf("ins", b[j])
  <2>1. next = [ops |-> Append(ops, op), i |-> i, j |-> j + 1]
    BY <1>3, <1>11
  <2>2. p = Append(ops, op) /\ k = i /\ l = j + 1
    <3> HIDE DEF next, op, ops, i, j
    <3>1. QED
      BY <2>1
  <2>3. op \in Op /\ op.type = "ins" /\ op.line = b[j].line
        /\ First(b, j) = Append(First(b, j - 1), b[j].line)
    BY <1>6, <1>7, <1>11
  <2>4. j <= Len(b) /\ j \notin keep[2]
    BY <1>11
  <2> HIDE DEF op, ops, i, j, p, k, l, next
  <2>5. Side(p, "del") = First(b, j) /\ Side(p, "ins") = Side(ops, "ins") /\ p \in Seq(Op)
    <3>1. Side(p, "del") = Append(Side(ops, "del"), op.line)
      BY <1>1, <2>2, <2>3, SideGrows
    <3>2. Side(p, "ins") = Side(ops, "ins")
      BY <1>1, <2>2, <2>3, SideGrows
    <3>3. p \in Seq(Op)
      BY <1>1, <2>2, <2>3
    <3>4. QED
      BY <1>1, <2>3, <3>1, <3>2, <3>3
  <2>6. l - 1 = j /\ k - 1 = i - 1 /\ l \in 1..(Len(b) + 1) /\ n + 1 <= k + l - 2
    BY <1>4, <2>2, <2>4
  <2>7. Cardinality(Below(keep[1], k)) = Cardinality(Below(keep[2], l))
    BY <1>1, <1>5, <2>2, <2>4
  <2>8. QED
    BY <1>1, <2>1, <2>2, <2>5, <2>6, <2>7
<1>12. CASE Keep
  <2> DEFINE op == OpOf("equal", a[i])
  <2>1. next = [ops |-> Append(ops, op), i |-> i + 1, j |-> j + 1]
    BY <1>3, <1>12
  <2>2. p = Append(ops, op) /\ k = i + 1 /\ l = j + 1
    <3> HIDE DEF next, op, ops, i, j
    <3>1. QED
      BY <2>1
  <2>3. a[i] = b[j]
    BY <1>1, <1>12 DEF Aligned
  <2>4. i \in keep[1] /\ j \in keep[2]
    BY <1>12
  <2>5. i \in 1..Len(a) /\ j \in 1..Len(b)
    BY <1>2, <2>4
  <2>6. op \in Op /\ op.type = "equal" /\ op.line = a[i].line /\ op.line = b[j].line
        /\ First(a, i) = Append(First(a, i - 1), a[i].line)
        /\ First(b, j) = Append(First(b, j - 1), b[j].line)
    <3>1. i <= Len(a) /\ j <= Len(b)
      BY <2>5
    <3>2. a[i] \in Token /\ "equal" \in {"del", "ins", "equal"}
      BY <1>6, <3>1
    <3>3. QED
      BY <1>6, <1>7, <2>3, <3>1, <3>2
  <2> HIDE DEF op, ops, i, j, p, k, l, next
  <2>7. Side(p, "ins") = First(a, i) /\ Side(p, "del") = First(b, j) /\ p \in Seq(Op)
    <3>1. Side(p, "ins") = Append(Side(ops, "ins"), op.line)
      BY <1>1, <2>2, <2>6, SideGrows
    <3>2. Side(p, "del") = Append(Side(ops, "del"), op.line)
      BY <1>1, <2>2, <2>6, SideGrows
    <3>3. p \in Seq(Op)
      BY <1>1, <2>2, <2>6
    <3>4. QED
      BY <1>1, <2>6, <3>1, <3>2, <3>3
  <2>8. l - 1 = j /\ k - 1 = i /\ k \in 1..(Len(a) + 1) /\ l \in 1..(Len(b) + 1)
        /\ n + 1 <= k + l - 2
    BY <1>4, <2>2, <2>5
  <2>9. Cardinality(Below(keep[1], k)) = Cardinality(Below(keep[2], l))
    BY <1>1, <1>5, <2>2, <2>4
  <2>10. QED
    BY <1>1, <2>1, <2>2, <2>7, <2>8, <2>9
<1>13. CASE ~Del /\ ~Ins /\ ~Keep
  <2>1. next = at
    BY <1>3, <1>13
  <2>2. i = Len(a) + 1 /\ j = Len(b) + 1
    BY <1>9, <1>13
  <2>3. p = ops /\ k = i /\ l = j
    BY <2>1
  <2> HIDE DEF ops, i, j, p, k, l, next
  <2>4. n + 1 <= k + l - 2
    BY <1>4, <2>2, <2>3
  <2>5. QED
    BY <1>1, <2>1, <2>3, <2>4
<1>14. QED
  <2> HIDE DEF Del, Ins, Keep, p, k, l, next
  <2>1. QED
    BY <1>10, <1>11, <1>12, <1>13

\* The script of an alignment after each turn.
Written(a, b, keep) ==
  LET written[n \in 0..(Len(a) + Len(b))] ==
        IF n = 0 THEN [ops |-> <<>>, i |-> 1, j |-> 1] ELSE ScriptStep(a, b, keep, written[n - 1])
  IN written

\* The recursive definition defines the states it describes.
LEMMA ScriptGoesOn ==
  ASSUME NEW a \in Seq(Token), NEW b \in Seq(Token), NEW keep
  PROVE  /\ Written(a, b, keep)[0] = [ops |-> <<>>, i |-> 1, j |-> 1]
         /\ \A k \in 1..(Len(a) + Len(b)) :
              Written(a, b, keep)[k] = ScriptStep(a, b, keep, Written(a, b, keep)[k - 1])
<1> DEFINE first == [ops |-> <<>>, i |-> 1, j |-> 1]
           Body(f, k) == IF k = 0 THEN first ELSE ScriptStep(a, b, keep, f[k - 1])
           Upto(n) == \E f : f = [k \in 0..n |-> Body(f, k)]
           N == Len(a) + Len(b)
           T == {n \in 0..N : Upto(n)}
<1>1. N \in Nat
  OBVIOUS
<1> HIDE DEF first, N
<1>2. Upto(0)
  <2> DEFINE f == [k \in 0..0 |-> first]
  <2>1. \A k \in 0..0 : k = 0
    OBVIOUS
  <2>2. f = [k \in 0..0 |-> Body(f, k)]
    BY <2>1
  <2>3. QED
    BY <2>2
<1>3. ASSUME NEW n \in 1..N, Upto(n - 1) PROVE Upto(n)
  <2>1. PICK f : f = [k \in 0..n - 1 |-> Body(f, k)]
    BY <1>3
  <2> DEFINE g == [k \in 0..n |-> IF k = n THEN Body(f, n) ELSE f[k]]
  <2>2. ASSUME NEW k \in 0..n PROVE g[k] = Body(g, k)
    <3>1. CASE k = 0
      <4>1. 0 \in 0..n - 1 /\ k # n
        BY <3>1
      <4>2. g[k] = f[0] /\ f[0] = first
        BY <2>1, <3>1, <4>1
      <4>3. QED
        BY <3>1, <4>2
    <3>2. CASE k # 0 /\ k # n
      <4>1. k \in 0..n - 1 /\ k - 1 \in 0..n /\ k - 1 # n
        BY <3>2
      <4>2. g[k] = f[k] /\ g[k - 1] = f[k - 1]
        BY <3>2, <4>1
      <4>3. f[k] = ScriptStep(a, b, keep, f[k - 1])
        BY <2>1, <3>2, <4>1
      <4>4. QED
        BY <3>2, <4>2, <4>3
    <3>3. CASE k # 0 /\ k = n
      <4>1. k - 1 \in 0..n /\ k - 1 # n
        BY <3>3
      <4>2. g[k] = ScriptStep(a, b, keep, f[k - 1]) /\ g[k - 1] = f[k - 1]
        BY <3>3, <4>1
      <4>3. QED
        BY <3>3, <4>2
    <3>4. QED
      BY <3>1, <3>2, <3>3
  <2>3. g = [k \in 0..n |-> Body(g, k)]
    <3>1. g = [k \in 0..n |-> g[k]]
      OBVIOUS
    <3> HIDE DEF g
    <3>2. QED
      BY <2>2, <3>1
  <2> HIDE DEF g
  <2>4. QED
    BY <2>3
<1>4. Upto(N)
  <2> HIDE DEF Upto
  <2>1. 0 \in T /\ \A n \in 1..N : n - 1 \in T => n \in T
    BY <1>1, <1>2, <1>3
  <2> HIDE DEF T
  <2>2. 0..N \subseteq T
    BY <1>1, <2>1, SetInduction
  <2>3. QED
    BY <1>1, <2>2 DEF T
<1> DEFINE h == Written(a, b, keep)
<1>5. h = CHOOSE f : f = [k \in 0..N |-> Body(f, k)]
  BY DEF Written, N, first
<1> HIDE DEF h
<1>6. h = [k \in 0..N |-> Body(h, k)]
  BY <1>4, <1>5
<1>7. h[0] = first
  BY <1>1, <1>6
<1>8. ASSUME NEW k \in 1..N PROVE h[k] = ScriptStep(a, b, keep, h[k - 1])
  BY <1>1, <1>6
<1>9. QED
  BY <1>7, <1>8 DEF h, first, N

\* Nothing is picked from nothing.
LEMMA NothingPicked ==
  ASSUME NEW ops \in Seq(Op), NEW I \in SUBSET (DOMAIN ops), I = {}
  PROVE  Lines(Picked(ops, I)) = <<>>
<1> DEFINE p == Picked(ops, I)
<1>1. p \in Seq(Op) /\ \A k \in DOMAIN p : \E i \in I : p[k] = ops[i]
  BY PickedIsThere
<1> HIDE DEF p
<1>2. DOMAIN p = {}
  BY <1>1
<1>3. DOMAIN Lines(p) = {}
  BY <1>2 DEF Lines
<1>4. Lines(p) = <<>>
  BY <1>2, <1>3 DEF Lines
<1>5. QED
  BY <1>4 DEF p

\* An empty script shows nothing.
LEMMA NoSides ==
  ASSUME NEW ops \in Seq(Op), ops = <<>>, NEW other
  PROVE  Side(ops, other) = <<>>
<1> DEFINE I == {i \in DOMAIN ops : ops[i].type # other}
<1>1. I \in SUBSET (DOMAIN ops) /\ I = {}
  OBVIOUS
<1>2. Side(ops, other) = Lines(Picked(ops, I))
  BY DEF Side
<1> HIDE DEF I
<1>3. QED
  BY <1>1, <1>2, NothingPicked

\* The script of an alignment has the two sequences as its sides.
LEMMA ScriptIsFaithful ==
  ASSUME NEW a \in Seq(Token), NEW b \in Seq(Token), NEW keep, Aligned(a, b, keep)
  PROVE  /\ Script(a, b, keep) \in Seq(Op)
         /\ Side(Script(a, b, keep), "ins") = First(a, Len(a))
         /\ Side(Script(a, b, keep), "del") = First(b, Len(b))
<1> DEFINE W == Written(a, b, keep)
           N == Len(a) + Len(b)
           T == {n \in 0..N : Fits(a, b, keep, W[n], n)}
<1>1. Len(a) \in Nat /\ Len(b) \in Nat /\ N \in Nat
  OBVIOUS
<1>2. /\ W[0] = [ops |-> <<>>, i |-> 1, j |-> 1]
      /\ \A k \in 1..N : W[k] = ScriptStep(a, b, keep, W[k - 1])
  BY ScriptGoesOn
<1> HIDE DEF W
<1>3. Fits(a, b, keep, W[0], 0)
  <2>1. W[0].ops = <<>> /\ W[0].i = 1 /\ W[0].j = 1
    BY <1>2
  <2>2. W[0] \in [ops : Seq(Op), i : 1..(Len(a) + 1), j : 1..(Len(b) + 1)]
    BY <1>1, <1>2
  <2>3. First(a, 1 - 1) = <<>> /\ First(b, 1 - 1) = <<>>
    BY DEF First
  <2>4. Below(keep[1], 1) = {} /\ Below(keep[2], 1) = {}
    BY PlacesAreFinite DEF Aligned, Below
  <2>5. 0 <= 1 + 1 - 2
    OBVIOUS
  <2>6. QED
    <3>1. W[0].ops \in Seq(Op)
      BY <2>2
    <3>2. Side(W[0].ops, "ins") = <<>> /\ Side(W[0].ops, "del") = <<>>
      BY <2>1, <3>1, NoSides
    <3>3. QED
      BY <2>1, <2>2, <2>3, <2>4, <2>5, <3>2 DEF Fits
<1>4. ASSUME NEW n \in 1..N, Fits(a, b, keep, W[n - 1], n - 1)
      PROVE  Fits(a, b, keep, W[n], n)
  <2> DEFINE m == n - 1
  <2>1. m \in Nat /\ m < N /\ m + 1 = n /\ W[n] = ScriptStep(a, b, keep, W[m])
    BY <1>1, <1>2
  <2>2. Fits(a, b, keep, W[m], m)
    BY <1>4
  <2> HIDE DEF m
  <2>3. Fits(a, b, keep, ScriptStep(a, b, keep, W[m]), m + 1)
    BY <2>1, <2>2, TurnReads
  <2>4. QED
    BY <2>1, <2>3
<1>5. Fits(a, b, keep, W[N], N)
  <2>1. 0 \in T /\ \A n \in 1..N : n - 1 \in T => n \in T
    <3> HIDE DEF N
    <3>1. QED
      BY <1>1, <1>3, <1>4
  <2> HIDE DEF T, N
  <2>2. 0..N \subseteq T
    BY <1>1, <2>1, SetInduction
  <2>3. QED
    BY <1>1, <2>2 DEF T
<1> DEFINE end == W[N]
<1>6. end.i - 1 = Len(a) /\ end.j - 1 = Len(b)
  <2> HIDE DEF end
  <2>1. end.i \in 1..(Len(a) + 1) /\ end.j \in 1..(Len(b) + 1)
        /\ Len(a) + Len(b) <= end.i + end.j - 2
    BY <1>5 DEF Fits, end
  <2> DEFINE x == end.i
             y == end.j
  <2>2. /\ x \in 1..(Len(a) + 1) /\ y \in 1..(Len(b) + 1)
        /\ Len(a) + Len(b) <= x + y - 2
    BY <2>1
  <2> HIDE DEF x, y
  <2>3. x - 1 = Len(a) /\ y - 1 = Len(b)
    BY <1>1, <2>2
  <2>4. QED
    BY <2>3 DEF x, y
<1>7. end.ops \in Seq(Op) /\ Side(end.ops, "ins") = First(a, end.i - 1)
      /\ Side(end.ops, "del") = First(b, end.j - 1)
  <2> HIDE DEF end
  <2>1. QED
    BY <1>5 DEF Fits, end
<1>8. Script(a, b, keep) = end.ops
  BY DEF Script, Written, W
<1>9. QED
  BY <1>6, <1>7, <1>8

\* A script of the mirror's shows the old content and the new one.
LEMMA MirrorScriptsAreFaithful ==
  ASSUME NEW before \in Seq(Line), NEW after \in Seq(Line),
         NEW script \in MirrorScripts(before, after)
  PROVE  /\ script \in Seq(Op)
         /\ Side(script, "ins") = before /\ Side(script, "del") = after
<1> DEFINE a == Elements(before)
           b == Elements(after)
<1>1. ASSUME NEW c \in Seq(Line)
      PROVE  /\ Elements(c) \in Seq(Token)
             /\ First(Elements(c), Len(Elements(c))) = c
  <2> DEFINE e == Elements(c)
  <2>1. e = [i \in 1..Len(c) |-> [line |-> c[i], eol |-> TRUE]] /\ Len(c) \in Nat
    BY DEF Elements
  <2>2. \A i \in 1..Len(c) : [line |-> c[i], eol |-> TRUE] \in Token
    BY DEF Token
  <2> HIDE DEF e
  <2>3. e \in Seq(Token) /\ Len(e) = Len(c)
    BY <2>1, <2>2
  <2>4. \A i \in 1..Len(c) : e[i].line = c[i]
    BY <2>1
  <2>5. First(e, Len(e)) = [i \in 1..Len(c) |-> c[i]]
    BY <2>3, <2>4 DEF First
  <2>6. c = [i \in 1..Len(c) |-> c[i]]
    OBVIOUS
  <2>7. QED
    BY <2>3, <2>5, <2>6 DEF e
<1>2. a \in Seq(Token) /\ b \in Seq(Token)
      /\ First(a, Len(a)) = before /\ First(b, Len(b)) = after
  BY <1>1
<1>3. PICK keep \in Alignments(a, b) \cup {CommonEnds(a, b)} : script = Script(a, b, keep)
  BY DEF MirrorScripts
<1> HIDE DEF a, b
<1>4. Aligned(a, b, keep)
  BY <1>2, AlignmentsAlign, EndsAlign
<1>5. QED
  BY <1>2, <1>3, <1>4, ScriptIsFaithful

-----------------------------------------------------------------------------
(* createPatch *)

\* A hunk of a whole script applies to the old content and makes the new one of it.
LEMMA WholeFileApplies ==
  ASSUME NEW before \in Seq(Line), NEW after \in Seq(Line), before # <<>>, after # <<>>,
         NEW script \in Seq(Op), Side(script, "ins") = before, Side(script, "del") = after,
         ~Misread(Hunk(script, 1, Len(script)))
  PROVE  MirrorApplies(before, <<Hunk(script, 1, Len(script))>>, after)
<1> DEFINE hunk == Hunk(script, 1, Len(script))
           hunks == <<hunk>>
           state == [ok |-> TRUE, lines |-> before, carry |-> 0]
           next == MirrorApplyHunk(state, hunk)
           found == Occurrences(before, before)
           L == Len(before)
<1>1. Len(script) \in Nat \ {0}
  <2>1. script # <<>>
    BY NoSides
  <2>2. QED
    BY <2>1, EmptySeq
<1>2. hunk \in Edits
  <2>1. 1 \in 1..Len(script) /\ Len(script) \in 1..Len(script)
    BY <1>1
  <2>2. QED
    BY <2>1, StretchIsHunk
<1>3. OldPat(hunk) = before /\ NewRep(hunk) = after
  <2>1. SubSeq(script, 1, Len(script)) = script
    <3> DEFINE s == SubSeq(script, 1, Len(script))
    <3>1. \A i \in 1..Len(script) : script[i] \in Op
      OBVIOUS
    <3>2. 1 \in Int /\ Len(script) \in Int /\ 1 <= Len(script)
          /\ Len(script) - 1 + 1 = Len(script) /\ \A i \in 1..Len(script) : 1 + i - 1 = i
      BY <1>1
    <3>3. s \in Seq(Op) /\ Len(s) = Len(script) /\ \A i \in 1..Len(script) : s[i] = script[i]
      BY <3>1, <3>2, SubSeqProperties
    <3> HIDE DEF s
    <3>4. s = script
      BY <3>3, SeqEqual
    <3>5. QED
      BY <3>4 DEF s
  <2>2. hunk.ops = script
    BY <2>1 DEF Hunk
  <2> HIDE DEF hunk
  <2>3. QED
    BY <2>2, SidesOfHunk
<1>4. L \in Nat /\ before = SubSeq(before, 1, L)
  <2> DEFINE s == SubSeq(before, 1, L)
  <2>1. L \in Nat /\ L # 0
    BY EmptySeq
  <2>2. \A i \in 1..L : before[i] \in Line
    OBVIOUS
  <2>3. 1 \in Int /\ L \in Int /\ 1 <= L /\ L - 1 + 1 = L /\ \A i \in 1..L : 1 + i - 1 = i
    BY <2>1
  <2>4. s \in Seq(Line) /\ Len(s) = L /\ \A i \in 1..L : s[i] = before[i]
    <3> HIDE DEF L
    <3>1. QED
      BY <2>2, <2>3, SubSeqProperties
  <2> HIDE DEF s
  <2>5. s = before
    BY <2>4, SeqEqual
  <2>6. QED
    BY <2>1, <2>5 DEF s
<1>5. found = {0}
  <2>1. 0..(L - L) = {0} /\ 0 + 1 = 1 /\ 0 + L = L
    BY <1>4
  <2>2. ASSUME NEW i \in {0} PROVE SubSeq(before, i + 1, i + L) = before
    BY <1>4, <2>1
  <2>3. QED
    BY <2>1, <2>2 DEF Occurrences
<1>6. Cardinality(found) = 1 /\ (CHOOSE i \in found : TRUE) = 0
  BY <1>5, FS_Singleton
<1>7. next.ok = TRUE /\ next.lines = after
  <2> DEFINE result == SubSeq(before, 1, 0) \o after \o SubSeq(before, 0 + L + 1, L)
             carry == state.carry + Len(after) - L
  <2>1. state.ok = TRUE /\ state.lines = before
    OBVIOUS
  <2> HIDE DEF state, hunk, found, L
  <2>2. next = [ok |-> TRUE, lines |-> result, carry |-> carry]
    <3>1. found = Occurrences(state.lines, OldPat(hunk)) /\ OldPat(hunk) # <<>>
      BY <1>3, <2>1 DEF found
    <3>2. QED
      BY <1>3, <1>6, <2>1, <3>1 DEF MirrorApplyHunk, L
  <2>3. result = after
    <3>1. SubSeq(before, 1, 0) = <<>> /\ SubSeq(before, 0 + L + 1, L) = <<>>
      BY <1>4, SubSeqEmpty
    <3>2. QED
      BY <3>1, ConcatEmptySeq
  <2> HIDE DEF next, result, carry
  <2>4. QED
    BY <2>2, <2>3
<1> DEFINE M == MirrorStates(before, hunks)
<1>8. M[1] = next
  <2>1. hunks \in Seq(Edits) /\ Len(hunks) = 1 /\ hunks[1] = hunk
    BY <1>2
  <2> HIDE DEF hunks, hunk
  <2>2. M[0] = state /\ \A k \in 1..Len(hunks) : M[k] = MirrorApplyHunk(M[k - 1], hunks[k])
    BY <2>1, MirrorGoesOn
  <2> HIDE DEF M, state
  <2>3. QED
    BY <2>1, <2>2
<1>9. Normal(after) = after
  BY DEF Normal
<1>10. \A k \in DOMAIN hunks : ~Misread(hunks[k])
  OBVIOUS
<1>11. Len(hunks) = 1
  OBVIOUS
<1> HIDE DEF hunks, next
<1>12. QED
  BY <1>7, <1>8, <1>9, <1>10, <1>11 DEF MirrorApplies, MirrorStates, hunks, hunk

\* What createPatch returns applies, and its blind hunk, if any, is the first.
LEMMA CreatedPatchApplies ==
  ASSUME NEW before \in Seq(Line), NEW after \in Seq(Line), before # <<>>,
         NEW script \in MirrorScripts(before, after),
         CreatePatch(before, after, script) # <<>>
  PROVE  /\ CreatePatch(before, after, script) \in Seq(Edits)
         /\ \A k \in 1..Len(CreatePatch(before, after, script)) :
              OldPat(CreatePatch(before, after, script)[k]) = <<>> => k = 1
         /\ MirrorApplies(before, CreatePatch(before, after, script), after)
<1> DEFINE narrow == Hunks(script, CONTEXT_LINES)
           whole == <<Hunk(script, 1, Len(script))>>
           hunks == CreatePatch(before, after, script)
<1>1. script \in Seq(Op) /\ Side(script, "ins") = before
  BY MirrorScriptsAreFaithful
<1>2. \/ hunks = narrow /\ MirrorApplies(before, narrow, after)
      \/ hunks = whole /\ MirrorApplies(before, whole, after)
  BY DEF CreatePatch
<1>3. CASE hunks = narrow /\ MirrorApplies(before, narrow, after)
  <2>1. CONTEXT_LINES \in Nat \ {0}
    BY ContentAssumption
  <2>2. narrow \in Seq(Edits)
    BY <1>1, <2>1, HunksAreEdits
  <2>3. \A k \in DOMAIN narrow : OldPat(narrow[k]) = <<>> => k = 1
    BY <1>1, <2>1, BlindHunkIsFirst
  <2> HIDE DEF narrow, hunks
  <2>4. QED
    BY <1>3, <2>2, <2>3 DEF hunks
<1>4. CASE hunks = whole /\ MirrorApplies(before, whole, after)
  <2>1. script # <<>>
    BY <1>1, NoSides
  <2>2. Len(script) \in Nat \ {0}
    BY <1>1, <2>1, EmptySeq
  <2>3. 1 \in 1..Len(script) /\ Len(script) \in 1..Len(script)
    BY <2>2
  <2>4. Hunk(script, 1, Len(script)) \in Edits
    BY <1>1, <2>3, StretchIsHunk
  <2>5. whole \in Seq(Edits) /\ Len(whole) = 1
    BY <2>4
  <2> HIDE DEF whole, hunks
  <2>6. QED
    BY <1>4, <2>5 DEF hunks
<1>5. QED
  BY <1>2, <1>3, <1>4

-----------------------------------------------------------------------------

\* A patch under way takes the consumer to what the producer wants, unless the
\* consumer's ceilings stop it.
EventsFit ==
  \A event \in events :
    LET applied == ApplyPatchContent(content, event)
    IN applied.content = wanted \/ (applied.status = "limit" /\ applied.content = content)

ExchangeInv ==
  /\ content \in Content /\ wanted \in Content
  /\ EventsFit
  /\ PublishedPatchesApply

\* Core publishes only what its own applier turns into the new content.
LEMMA BuildKeepsInv ==
  ASSUME ExchangeInv, NEW after \in Content, NEW start, Build(after, start)
  PROVE  ExchangeInv'
<1>1. PICK script \in CoreScripts(content, after) :
        LET built == BuildPatch(content, after, script, start)
            sent == ~built.P4 /\ ~built.RL1
        IN /\ Settled /\ content' = content
           /\ IF sent THEN events' = {built.event} /\ wanted' = after
                      ELSE events' = events /\ wanted' = wanted
  BY DEF Build
<1> DEFINE built == BuildPatch(content, after, script, start)
           sent == ~built.P4 /\ ~built.RL1
<1>2. built.P4 =
        (\/ ApplyPatchContent(content, built.event).status \notin {"applied", "noop"}
         \/ ApplyPatchContent(content, built.event).content # after)
  BY DEF BuildPatch
<1> HIDE DEF built
<1>3. CASE sent
  <2>1. events' = {built.event} /\ wanted' = after /\ content' = content
    BY <1>1, <1>3 DEF built
  <2>2. ApplyPatchContent(content, built.event).content = after
    BY <1>2, <1>3
  <2>3. EventsFit'
    BY <2>1, <2>2 DEF EventsFit
  <2>4. QED
    BY <2>1, <2>3 DEF ExchangeInv, PublishedPatchesApply
<1>4. CASE ~sent
  <2>1. events' = events /\ wanted' = wanted /\ content' = content /\ Settled
    BY <1>1, <1>4 DEF built
  <2>2. QED
    BY <2>1 DEF ExchangeInv, EventsFit, PublishedPatchesApply, Settled
<1>5. QED
  BY <1>3, <1>4

\* What the mirror publishes its own applier has taken, and so will core's.
LEMMA CreateKeepsInv ==
  ASSUME ExchangeInv, NEW after \in Content, Create(after)
  PROVE  ExchangeInv'
<1>1. PICK script \in MirrorScripts(content, after) :
        LET hunks == CreatePatch(content, after, script)
        IN /\ Settled /\ content' = content
           /\ IF hunks # <<>> THEN events' = {FencePatchPayload(hunks)} /\ wanted' = after
                              ELSE events' = events /\ wanted' = wanted
  BY DEF Create
<1> DEFINE hunks == CreatePatch(content, after, script)
<1>2. content \in Seq(Line) /\ content # <<>> /\ after \in Seq(Line)
  BY ContentAssumption DEF ExchangeInv
<1>3. CASE hunks # <<>>
  <2>1. /\ hunks \in Seq(Edits) /\ MirrorApplies(content, hunks, after)
        /\ \A k \in 1..Len(hunks) : OldPat(hunks[k]) = <<>> => k = 1
    BY <1>2, <1>3, CreatedPatchApplies
  <2>2. events' = {FencePatchPayload(hunks)} /\ wanted' = after /\ content' = content
    BY <1>1, <1>3
  <2> HIDE DEF hunks
  <2>3. LET applied == ApplyPatchContent(content, FencePatchPayload(hunks))
        IN applied.content = after \/ (applied.status = "limit" /\ applied.content = content)
    BY <1>3, <2>1, MirrorsPatchApplies
  <2>4. EventsFit'
    BY <2>2, <2>3 DEF EventsFit
  <2>5. QED
    BY <2>2, <2>4 DEF ExchangeInv, PublishedPatchesApply
<1>4. CASE hunks = <<>>
  <2>1. events' = events /\ wanted' = wanted /\ content' = content /\ Settled
    BY <1>1, <1>4
  <2>2. QED
    BY <2>1 DEF ExchangeInv, EventsFit, PublishedPatchesApply, Settled
<1>5. QED
  BY <1>3, <1>4

\* The consumer has what the producer wants, or says that it stopped.
LEMMA ReceiveKeepsInv ==
  ASSUME ExchangeInv, Receive
  PROVE  ExchangeInv'
<1>1. PICK event \in events :
        LET applied == ApplyPatchContent(content, event)
        IN /\ content' = applied.content
           /\ report' = IF applied.status = "limit" THEN [by |-> "consumer"] ELSE None
  BY DEF Receive
<1>2. events' = {} /\ wanted' = wanted
  BY DEF Receive
<1> DEFINE applied == ApplyPatchContent(content, event)
<1>3. applied.content = wanted \/ (applied.status = "limit" /\ applied.content = content)
  BY DEF ExchangeInv, EventsFit
<1>4. content' = applied.content
      /\ report' = IF applied.status = "limit" THEN [by |-> "consumer"] ELSE None
  BY <1>1
<1> HIDE DEF applied
<1>5. content' \in Content /\ (content' = wanted \/ report' = [by |-> "consumer"])
  BY <1>3, <1>4 DEF ExchangeInv
<1>6. QED
  BY <1>2, <1>5 DEF ExchangeInv, EventsFit, PublishedPatchesApply

\* The invariant: what is published fits what the consumer has.
THEOREM ExchangeInvariant == Spec => []ExchangeInv
<1>1. Init => ExchangeInv
  BY DEF Init, ExchangeInv, EventsFit, PublishedPatchesApply
<1>2. ExchangeInv /\ [Next]_vars => ExchangeInv'
  <2>1. SUFFICES ASSUME ExchangeInv, [Next]_vars PROVE ExchangeInv'
    OBVIOUS
  <2>2. CASE \E after \in Content, start \in StartContext : Build(after, start)
    BY <2>1, <2>2, BuildKeepsInv
  <2>3. CASE \E after \in Content : Create(after)
    BY <2>1, <2>3, CreateKeepsInv
  <2>4. CASE Receive
    BY <2>1, <2>4, ReceiveKeepsInv
  <2>5. CASE UNCHANGED vars
    BY <2>1, <2>5 DEF vars, ExchangeInv, EventsFit, PublishedPatchesApply
  <2>6. QED
    BY <2>1, <2>2, <2>3, <2>4, <2>5 DEF Next
<1>3. QED
  BY <1>1, <1>2, PTL DEF Spec

\* What core's buildPatch or the mirror's createPatch publishes takes the consumer to
\* exactly the content that was meant, or the consumer's ceilings stop it.
THEOREM PatchesAreFollowed == Spec => []PublishedPatchesApply
<1>1. ExchangeInv => PublishedPatchesApply
  BY DEF ExchangeInv
<1>2. QED
  BY <1>1, ExchangeInvariant, PTL

\* An attempt that gives up has a deleted line that reads as a header.
LEMMA GivesUpOnHeaders ==
  ASSUME NEW before \in Seq(Line), NEW after \in Seq(Line), before # <<>>, after # <<>>,
         before # after, NEW script \in MirrorScripts(before, after),
         CreatePatch(before, after, script) = <<>>
  PROVE  \E i \in DOMAIN script : script[i].type = "del" /\ Dashed(script[i].line)
<1> DEFINE narrow == Hunks(script, CONTEXT_LINES)
           hunk == Hunk(script, 1, Len(script))
           whole == <<hunk>>
<1>1. /\ script \in Seq(Op) /\ Side(script, "ins") = before /\ Side(script, "del") = after
  BY MirrorScriptsAreFaithful
<1>2. ~MirrorApplies(before, whole, after)
  <2>1. SUFFICES ASSUME MirrorApplies(before, whole, after) PROVE FALSE
    OBVIOUS
  <2>2. whole # <<>>
    OBVIOUS
  <2> HIDE DEF whole, narrow
  <2>3. narrow = <<>> /\ MirrorApplies(before, narrow, after)
    BY <2>1, <2>2 DEF CreatePatch, narrow, whole, hunk
  <2> DEFINE M == MirrorStates(before, narrow)
  <2>4. narrow \in Seq(Edits) /\ Len(narrow) = 0
    BY <2>3
  <2>5. M[0] = [ok |-> TRUE, lines |-> before, carry |-> 0]
    BY <2>4, MirrorGoesOn
  <2>6. Normal(M[Len(narrow)].lines) = after
    BY <2>3 DEF MirrorApplies, MirrorStates
  <2> HIDE DEF M
  <2>7. Normal(before) = after
    BY <2>4, <2>5, <2>6
  <2>8. QED
    BY <2>7 DEF Normal
<1>3. Misread(hunk)
  <2> HIDE DEF whole
  <2>1. QED
    BY <1>1, <1>2, WholeFileApplies DEF whole
<1>4. PICK i \in DOMAIN hunk.ops : hunk.ops[i].type = "del" /\ Dashed(hunk.ops[i].line)
  <2> HIDE DEF hunk
  <2>1. QED
    BY <1>3 DEF Misread
<1>5. Len(script) \in Nat \ {0}
  <2>1. script # <<>>
    BY <1>1, NoSides
  <2>2. QED
    BY <1>1, <2>1, EmptySeq
<1>6. i \in DOMAIN script /\ hunk.ops[i] = script[i]
  <2> DEFINE s == SubSeq(script, 1, Len(script))
  <2>1. \A k \in 1..Len(script) : script[k] \in Op
    BY <1>1
  <2>2. 1 \in Int /\ Len(script) \in Int /\ 1 <= Len(script)
        /\ Len(script) - 1 + 1 = Len(script) /\ \A k \in 1..Len(script) : 1 + k - 1 = k
    BY <1>5
  <2>3. s \in Seq(Op) /\ Len(s) = Len(script) /\ \A k \in 1..Len(script) : s[k] = script[k]
    BY <2>1, <2>2, SubSeqProperties
  <2>4. hunk.ops = s
    BY DEF Hunk
  <2> HIDE DEF s, hunk
  <2>5. i \in 1..Len(script)
    BY <2>3, <2>4
  <2>6. QED
    BY <1>1, <2>3, <2>4, <2>5
<1>7. QED
  BY <1>4, <1>6

\* createPatch finds a patch for every change but one that deletes a line which its
\* parser reads as a header.
THEOREM GivingUpIsJustified == Spec => []CreateGivesUpOnHeadersOnly
<1>1. Init => CreateGivesUpOnHeadersOnly
  BY DEF Init, CreateGivesUpOnHeadersOnly
<1>2. ASSUME ExchangeInv, CreateGivesUpOnHeadersOnly, [Next]_vars
      PROVE  CreateGivesUpOnHeadersOnly'
  <2>1. ASSUME NEW after \in Content, NEW start, Build(after, start)
        PROVE  CreateGivesUpOnHeadersOnly'
    <3>1. \E script \in CoreScripts(content, after) :
            report' = [by |-> "core", after |-> after, script |-> script, start |-> start,
                       widened |-> BuildPatch(content, after, script, start).widened,
                       P4 |-> BuildPatch(content, after, script, start).P4]
      BY <2>1 DEF Build
    <3>2. report'.by = "core"
      BY <3>1
    <3>3. QED
      BY <3>2 DEF CreateGivesUpOnHeadersOnly
  <2>2. ASSUME NEW after \in Content, Create(after) PROVE CreateGivesUpOnHeadersOnly'
    <3>1. PICK script \in MirrorScripts(content, after) :
            /\ after # content
            /\ report' = [by |-> "mirror", after |-> after, script |-> script,
                          gaveUp |-> CreatePatch(content, after, script) = <<>>]
      BY <2>2 DEF Create
    <3>2. /\ content \in Seq(Line) /\ content # <<>>
          /\ after \in Seq(Line) /\ after # <<>>
      BY <1>2, ContentAssumption DEF ExchangeInv
    <3>3. report'.script = script
          /\ report'.gaveUp = (CreatePatch(content, after, script) = <<>>)
      BY <3>1
    <3>4. CreatePatch(content, after, script) = <<>> =>
            \E i \in DOMAIN script : script[i].type = "del" /\ Dashed(script[i].line)
      BY <3>1, <3>2, GivesUpOnHeaders
    <3>5. QED
      BY <3>3, <3>4 DEF CreateGivesUpOnHeadersOnly
  <2>3. ASSUME Receive PROVE CreateGivesUpOnHeadersOnly'
    <3>1. report' = [by |-> "consumer"] \/ report' = None
      BY <2>3 DEF Receive
    <3>2. [by |-> "consumer"].by = "consumer"
      OBVIOUS
    <3>3. QED
      BY <3>1, <3>2 DEF CreateGivesUpOnHeadersOnly
  <2>4. CASE UNCHANGED vars
    BY <1>2, <2>4 DEF vars, CreateGivesUpOnHeadersOnly
  <2>5. QED
    BY <1>2, <2>1, <2>2, <2>3, <2>4 DEF Next
<1>3. Spec => []ExchangeInv
  BY ExchangeInvariant
<1>4. QED
  BY <1>1, <1>2, <1>3, PTL DEF Spec
==============================================================================
