--------------------------- MODULE Anchoring_proofs ---------------------------
(***************************************************************************)
(* Proofs about the anchoring of findings, for any patches and reports: a  *)
(* line has one comment of a category, a duplicate gives way only to a     *)
(* finding that is no worse, the line map is exact, and a comment stands   *)
(* on the line it is about.                                                *)
(***************************************************************************)
EXTENDS Anchoring, FiniteSetTheorems, TLAPS

\* What has been judged comes before what has not.
Sorted == \A i, j \in DOMAIN report :
            verdict[i] # "todo" /\ verdict[j] = "todo" => V!Before(i, j)

\* The keys seen are those of the findings kept.
SeenIsKept == seen = V!Shown

IInv == /\ AnchorTypeOK /\ report \in Seq(V!FindingType)
        /\ Sorted /\ SeenIsKept /\ OnePerKey /\ BestIsKept

USE PatchAssumption, ReportAssumption

-----------------------------------------------------------------------------
(* Types.                                                                   *)

\* The next line of the patch is one.
LEMMA ReadType ==
  ASSUME TypeOK, NEW kind, Read(kind)
  PROVE  /\ patch' \in Seq(LineType) /\ read' \in 0..Len(patch')
         /\ patch[read + 1].start \in Nat
<1>1. read + 1 \in 1..Len(patch)
  BY DEF Read, TypeOK
<1>2. patch[read + 1] \in LineType
  BY <1>1 DEF TypeOK
<1>3. QED
  BY <1>1, <1>2 DEF Read, TypeOK, LineType

\* An anchored line is in the map, and the map stays one into Nat.
LEMMA AnchorType ==
  ASSUME TypeOK, Anchor
  PROVE  /\ position' \in Nat /\ newLine' \in Nat
         /\ DOMAIN lineMap' = DOMAIN lineMap \union {newLine}
         /\ DOMAIN lineMap' \subseteq Nat
         /\ \A n \in DOMAIN lineMap' : lineMap'[n] \in Nat
BY DEF TypeOK, Anchor

\* The locals of build_line_map keep their types.
LEMMA LoopType == TypeOK /\ [Next]_vars => TypeOK'
<1> SUFFICES ASSUME TypeOK, [Next]_vars PROVE TypeOK'
  OBVIOUS
<1>1. CASE Hunk
  <2>1. Read("hunk")
    BY <1>1 DEF Hunk
  <2>2. QED
    BY <1>1, <2>1, ReadType DEF Hunk, HunkPosition, TypeOK
<1>2. CASE Preamble
  BY <1>2, ReadType DEF Preamble, TypeOK
<1>3. CASE Added
  BY <1>3, ReadType, AnchorType DEF Added, TypeOK
<1>4. CASE Context
  BY <1>4, ReadType, AnchorType DEF Context, TypeOK
<1>5. CASE Removed
  BY <1>5, ReadType DEF Removed, TypeOK
<1>6. CASE NoNewline
  BY <1>6, ReadType DEF NoNewline, TypeOK
<1>7. CASE UNCHANGED vars
  BY <1>7 DEF vars, TypeOK
<1>8. QED
  BY <1>1, <1>2, <1>3, <1>4, <1>5, <1>6, <1>7 DEF Next

-----------------------------------------------------------------------------
(* One turn of the loop of _validate.                                       *)

\* A finding is before another only if it is not worse.
LEMMA BeforeIsNoWorse ==
  ASSUME report \in Seq(V!FindingType),
         NEW i \in DOMAIN report, NEW j \in DOMAIN report, V!Before(i, j)
  PROVE  ~V!Better(report[j], report[i])
<1>1. report[i] \in V!FindingType /\ report[j] \in V!FindingType
  OBVIOUS
<1>2. /\ report[i].severity \in Nat /\ report[i].confidence \in Nat
      /\ report[j].severity \in Nat /\ report[j].confidence \in Nat
  BY <1>1 DEF V!FindingType
<1>3. QED
  BY <1>2 DEF V!Before, V!Better

\* The call of _validate starts with nothing judged.
LEMMA BeginStep ==
  ASSUME IInv, NEW r \in Reports, V!Begin(r), UNCHANGED vars PROVE IInv'
<1> USE DEF IInv, AnchorTypeOK
<1>1. /\ report = <<>> /\ report' = r /\ r \in Seq(V!FindingType)
      /\ verdict' = [i \in DOMAIN r |-> "todo"] /\ place' = [i \in DOMAIN r |-> None]
      /\ seen' = seen
  BY DEF V!Begin
<1>2. TypeOK'
  BY LoopType DEF vars
<1>3. V!TypeOK'
  BY <1>1 DEF V!TypeOK, V!Drops
<1>4. seen = {} /\ V!Shown' = {}
  BY <1>1 DEF SeenIsKept, V!Shown
<1>5. Sorted' /\ SeenIsKept'
  BY <1>1, <1>4 DEF Sorted, SeenIsKept
<1>6. OnePerKey' /\ BestIsKept'
  BY <1>1 DEF OnePerKey, BestIsKept, V!OnePerKey, V!BestIsKept
<1>7. QED
  BY <1>1, <1>2, <1>3, <1>5, <1>6

\* A finding judged keeps what holds of those judged before it.
LEMMA JudgeStep ==
  ASSUME IInv, NEW i \in DOMAIN report, V!Judge(i), UNCHANGED vars PROVE IInv'
<1> DEFINE f == report[i]
           reason == V!Reason(f)
<1> USE DEF IInv, AnchorTypeOK
<1>1. /\ verdict[i] = "todo" /\ report' = report
      /\ verdict' = [verdict EXCEPT ![i] = reason]
      /\ \A j \in DOMAIN report \ {i} : verdict[j] = "todo" => V!Before(i, j)
  BY DEF V!Judge
<1>2. /\ reason = "kept" => seen' = seen \union {V!KeyOf(f)} /\ V!KeyOf(f) \notin seen
      /\ reason # "kept" => seen' = seen /\ place' = place
      /\ reason = "duplicate" => V!KeyOf(f) \in seen
      /\ reason \in V!Drops \union {"kept"}
  BY DEF V!Judge, V!Reason, V!Repeated, V!Drops
<1>3. reason = "kept" =>
        \E n \in Nat : place' = [place EXCEPT ![i] = n]
  BY DEF V!Judge, V!Reason, V!Touched, TypeOK
<1>4. verdict \in [DOMAIN report -> V!Drops \union {"todo", "kept"}]
  BY DEF V!TypeOK
<1> HIDE DEF reason
<1>5. TypeOK'
  BY LoopType DEF vars
<1>6. V!TypeOK'
  BY <1>1, <1>2, <1>3, <1>4 DEF V!TypeOK, V!Drops
<1>7. Sorted'
  BY <1>1, <1>2, <1>4 DEF Sorted, V!Before, V!Drops
<1>8. \A j \in DOMAIN report : verdict'[j] = IF j = i THEN reason ELSE verdict[j]
  BY <1>1, <1>4
<1>9. SeenIsKept'
  <2>1. CASE reason = "kept"
    BY <1>1, <1>2, <1>8, <2>1 DEF SeenIsKept, V!Shown
  <2>2. CASE reason # "kept"
    BY <1>1, <1>2, <1>8, <2>2 DEF SeenIsKept, V!Shown
  <2>3. QED
    BY <2>1, <2>2
<1>10. OnePerKey'
  BY <1>1, <1>2, <1>8 DEF OnePerKey, V!OnePerKey, SeenIsKept, V!Shown
<1>11. BestIsKept'
  <2>1. ASSUME NEW k \in DOMAIN report, verdict'[k] = "duplicate"
        PROVE  \E j \in DOMAIN report : /\ verdict'[j] = "kept"
                                        /\ V!KeyOf(report[j]) = V!KeyOf(report[k])
                                        /\ ~V!Better(report[k], report[j])
    <3>1. CASE k = i
      <4>1. PICK j \in DOMAIN report : verdict[j] = "kept" /\ V!KeyOf(report[j]) = V!KeyOf(f)
        BY <1>2, <1>8, <2>1, <3>1 DEF SeenIsKept, V!Shown
      <4>2. V!Before(j, i)
        BY <1>1, <4>1 DEF Sorted
      <4>3. ~V!Better(report[i], report[j])
        BY <4>2, BeforeIsNoWorse
      <4>4. QED
        BY <1>1, <1>8, <3>1, <4>1, <4>3
    <3>2. CASE k # i
      <4>1. PICK j \in DOMAIN report : /\ verdict[j] = "kept"
                                       /\ V!KeyOf(report[j]) = V!KeyOf(report[k])
                                       /\ ~V!Better(report[k], report[j])
        BY <1>8, <2>1, <3>2 DEF BestIsKept, V!BestIsKept
      <4>2. QED
        BY <1>1, <1>8, <4>1
    <3>3. QED
      BY <3>1, <3>2
  <2>2. QED
    BY <1>1, <2>1 DEF BestIsKept, V!BestIsKept
<1>12. QED
  BY <1>1, <1>5, <1>6, <1>7, <1>9, <1>10, <1>11

-----------------------------------------------------------------------------
(* The inductive invariant, and what follows.                               *)

\* To begin with there is no finding.
LEMMA InitInv == AnchorInit => IInv
<1> SUFFICES ASSUME AnchorInit PROVE IInv
  OBVIOUS
<1> USE DEF AnchorInit
<1>1. TypeOK
  <2>1. patch \in Seq(LineType)
    BY DEF Init
  <2>2. Len(patch) \in Nat
    BY <2>1
  <2>3. read = 0 /\ position = 0 /\ newLine = 0 /\ seenHunk = FALSE
    BY Zenon DEF Init
  <2>4. read \in 0..Len(patch) /\ position \in Nat /\ newLine \in Nat
    <3> HIDE DEF AnchorInit
    <3>1. QED
      BY <2>2, <2>3
  <2>5. seenHunk \in BOOLEAN
    BY <2>3, Zenon
  <2>6. lineMap = <<>> /\ added = {}
    BY DEF Init
  <2>7. DOMAIN lineMap = {}
    BY <2>6
  <2>8. QED
    BY <2>1, <2>4, <2>5, <2>6, <2>7 DEF TypeOK
<1>2. report = <<>> /\ verdict = <<>> /\ place = <<>> /\ seen = {}
  BY DEF V!Init
<1>3. V!TypeOK
  BY <1>2 DEF V!TypeOK
<1>4. Sorted /\ SeenIsKept /\ OnePerKey /\ BestIsKept
  BY <1>2 DEF Sorted, SeenIsKept, OnePerKey, BestIsKept, V!OnePerKey, V!BestIsKept, V!Shown
<1>5. report \in Seq(V!FindingType)
  BY <1>2
<1>6. QED
  BY <1>1, <1>3, <1>4, <1>5 DEF IInv, AnchorTypeOK

\* While the diff is parsed, nothing changes for the findings.
LEMMA ParseStep ==
  ASSUME IInv, [Next]_vars, UNCHANGED findingVars PROVE IInv'
<1>1. UNCHANGED <<report, verdict, place, seen>>
  BY DEF findingVars
<1>2. TypeOK'
  BY LoopType DEF IInv, AnchorTypeOK
<1>3. V!TypeOK'
  BY <1>1 DEF IInv, AnchorTypeOK, V!TypeOK
<1>4. Sorted' /\ SeenIsKept'
  BY <1>1 DEF IInv, Sorted, SeenIsKept, V!Shown, V!Before
<1>5. OnePerKey' /\ BestIsKept'
  BY <1>1 DEF IInv, OnePerKey, BestIsKept, V!OnePerKey, V!BestIsKept
<1>6. QED
  BY <1>1, <1>2, <1>3, <1>4, <1>5 DEF IInv, AnchorTypeOK

\* The inductive invariant holds throughout.
LEMMA Invariance == AnchorSpec => []IInv
<1>1. IInv /\ [AnchorNext]_<<vars, findingVars>> => IInv'
  <2> SUFFICES ASSUME IInv, [AnchorNext]_<<vars, findingVars>> PROVE IInv'
    OBVIOUS
  <2>1. CASE [Next]_vars /\ UNCHANGED findingVars
    BY <2>1, ParseStep
  <2>2. ASSUME NEW r \in Reports, V!Begin(r), UNCHANGED vars PROVE IInv'
    BY <2>2, BeginStep
  <2>3. ASSUME NEW i \in DOMAIN report, V!Judge(i), UNCHANGED vars PROVE IInv'
    BY <2>3, JudgeStep
  <2>4. QED
    BY <2>1, <2>2, <2>3 DEF AnchorNext
<1>2. QED
  BY <1>1, InitInv, PTL DEF AnchorSpec

\* The locals of both loops keep their types, and exactly the findings kept
\* have a position (tasks.py:298-299).
THEOREM Typing == AnchorSpec => []AnchorTypeOK
BY Invariance, PTL DEF IInv

\* A line gets at most one comment of a category (tasks.py:294-298).
THEOREM OneComment == AnchorSpec => []OnePerKey
BY Invariance, PTL DEF IInv

\* Of several findings that say the same, the best is kept (tasks.py:281-283).
THEOREM KeepsTheBest == AnchorSpec => []BestIsKept
BY Invariance, PTL DEF IInv

-----------------------------------------------------------------------------
(* The line map: the locals of the loop follow the numbering of the patch.  *)

\* A line is in one hunk.
LEMMA HunkIs ==
  ASSUME NEW p \in Seq(LineType), NEW h, NEW j \in Int, InHunk(p, h, j)
  PROVE  NewLineOf(p, j) =
           p[h].start + Cardinality({i \in (h + 1)..(j - 1) : OnNewSide(p, i)})
<1>1. \A g : InHunk(p, g, j) <=> g = h
  <2>1. \A g \in Hunks(p) : g \in Int
    BY DEF Hunks
  <2>2. QED
    BY <2>1 DEF InHunk
<1>2. (CHOOSE i \in Hunks(p) : InHunk(p, i, j)) = h
  BY <1>1 DEF InHunk
<1>3. QED
  BY <1>2 DEF NewLineOf

\* In a hunk, a line of the new file moves the number on, any other does not.
LEMMA NextLine ==
  ASSUME NEW p \in Seq(LineType), NEW r \in Nat, r + 1 \in DOMAIN p,
         NEW h, InHunk(p, h, r + 1), p[r + 1].kind # "hunk"
  PROVE  /\ InHunk(p, h, r + 2)
         /\ NewLineOf(p, r + 1) \in Nat
         /\ NewLineOf(p, r + 2) = NewLineOf(p, r + 1)
                                  + (IF OnNewSide(p, r + 1) THEN 1 ELSE 0)
<1> DEFINE S(j) == {i \in (h + 1)..(j - 1) : OnNewSide(p, i)}
<1>1. h \in Nat /\ h < r + 1 /\ p[h].start \in Nat
  <2>1. h \in DOMAIN p /\ h < r + 1
    BY DEF InHunk, Hunks
  <2>2. p[h] \in LineType /\ h \in Nat
    BY <2>1
  <2>3. QED
    BY <2>1, <2>2 DEF LineType
<1>2. InHunk(p, h, r + 2)
  <2>1. \A i \in Hunks(p) : i \in Int /\ i # r + 1
    BY DEF Hunks
  <2>2. QED
    BY <1>1, <2>1 DEF InHunk
<1>3. IsFiniteSet(S(r + 1)) /\ Cardinality(S(r + 1)) \in Nat
  <2>1. IsFiniteSet((h + 1)..(r + 1 - 1))
    BY <1>1, FS_Interval
  <2>2. S(r + 1) \subseteq (h + 1)..(r + 1 - 1)
    OBVIOUS
  <2>3. QED
    BY <2>1, <2>2, FS_Subset, FS_CardinalityType
<1>4. NewLineOf(p, r + 1) = p[h].start + Cardinality(S(r + 1))
  <2>1. r + 1 \in Int
    OBVIOUS
  <2>2. QED
    BY <2>1, HunkIs, Zenon
<1>5. NewLineOf(p, r + 2) = p[h].start + Cardinality(S(r + 2))
  <2>1. r + 2 \in Int
    OBVIOUS
  <2>2. QED
    BY <1>2, <2>1, HunkIs, Zenon
<1>6. CASE OnNewSide(p, r + 1)
  <2>1. S(r + 2) = S(r + 1) \union {r + 1} /\ r + 1 \notin S(r + 1)
    BY <1>1, <1>6
  <2>2. Cardinality(S(r + 2)) = Cardinality(S(r + 1)) + 1
    BY <1>3, <2>1, FS_AddElement
  <2>3. QED
    BY <1>1, <1>2, <1>3, <1>4, <1>5, <1>6, <2>2
<1>7. CASE ~OnNewSide(p, r + 1)
  <2>1. S(r + 2) = S(r + 1)
    BY <1>1, <1>7
  <2>2. Cardinality(S(r + 2)) = Cardinality(S(r + 1))
    BY <2>1
  <2>3. QED
    BY <1>1, <1>2, <1>3, <1>4, <1>5, <1>7, <2>2
<1>8. QED
  BY <1>6, <1>7

\* A header sets the number to where its hunk starts.
LEMMA NewHunk ==
  ASSUME NEW p \in Seq(LineType), NEW h \in Hunks(p)
  PROVE  /\ InHunk(p, h, h + 1)
         /\ NewLineOf(p, h + 1) = p[h].start
<1>1. h \in Nat
  BY DEF Hunks
<1>2. InHunk(p, h, h + 1)
  BY <1>1 DEF InHunk, Hunks
<1>3. p[h].start \in Nat
  <2>1. p[h] \in LineType
    BY DEF Hunks
  <2>2. QED
    BY <2>1 DEF LineType
<1>a. PICK j \in Int : j = h + 1
  BY <1>1
<1> DEFINE S == {i \in (h + 1)..(j - 1) : OnNewSide(p, i)}
<1>4. NewLineOf(p, j) = p[h].start + Cardinality(S)
  BY <1>2, <1>a, HunkIs
<1>5. Cardinality(S) = 0
  <2>1. S = {}
    BY <1>1, <1>a
  <2>2. QED
    BY <2>1, FS_EmptySet
<1> HIDE DEF S
<1>6. QED
  BY <1>2, <1>3, <1>a, <1>4, <1>5

FirstHunk(p) == CHOOSE h \in Hunks(p) : \A i \in Hunks(p) : h <= i

\* Inductive: position counts from the first header, newLine is the number of
\* the line to come, and it is beyond every number the map has.
Follows ==
  /\ TypeOK /\ patch \in Patches
  /\ seenHunk <=> \E h \in Hunks(patch) : h <= read
  /\ seenHunk => /\ position = read - FirstHunk(patch)
                 /\ newLine = NewLineOf(patch, read + 1)
                 /\ \E h : InHunk(patch, h, read + 1)
                 /\ \E g \in Hunks(patch) : \A i \in Hunks(patch) : g <= i
  /\ \A j \in Shown({"added", "context"}) : NewLineOf(patch, j) < newLine
  /\ MapIsExact

\* Of the lines shown, one more, if the line read is in a hunk and of the kind.
LEMMA ShownNext ==
  ASSUME Follows, NEW kind, Read(kind), NEW K
  PROVE  Shown(K)' = Shown(K) \union (IF seenHunk /\ kind \in K THEN {read + 1} ELSE {})
<1>1. /\ patch' = patch /\ read' = read + 1 /\ patch[read + 1].kind = kind
      /\ read \in Nat
  BY DEF Read, Follows, TypeOK
<1>2. seenHunk <=> \E h \in Hunks(patch) : h < read + 1
  <2>1. \A h \in Hunks(patch) : h \in Int
    BY DEF Hunks, Follows, TypeOK
  <2>2. QED
    BY <1>1, <2>1 DEF Follows
<1>3. \A j : j \in 1..(read + 1) <=> j \in 1..read \/ j = read + 1
  BY <1>1
<1>4. QED
  BY <1>1, <1>2, <1>3 DEF Shown

\* A line of the new file goes into the map under its number and its position.
LEMMA AnchorFollows ==
  ASSUME Follows, seenHunk, NEW kind \in {"added", "context"}, Read(kind), Anchor,
         UNCHANGED seenHunk,
         added' = IF kind = "added" THEN added \union {newLine} ELSE added,
         TypeOK'
  PROVE  Follows'
<1> DEFINE lines == Shown({"added", "context"})
           n == NewLineOf(patch, read + 1)
<1>1. /\ patch' = patch /\ read' = read + 1 /\ patch[read + 1].kind = kind
      /\ read \in Nat /\ read + 1 \in DOMAIN patch /\ patch \in Seq(LineType)
  BY DEF Read, Follows, TypeOK
<1>2. newLine = n /\ position = read - FirstHunk(patch) /\ position \in Nat
  BY DEF Follows, TypeOK
<1>3. PICK h : InHunk(patch, h, read + 1)
  BY DEF Follows
<1>4. /\ InHunk(patch, h, read + 2) /\ n \in Nat
      /\ NewLineOf(patch, read + 2) = n + 1
  BY <1>1, <1>3, NextLine DEF OnNewSide
<1>5. FirstHunk(patch) \in Int
  <2>1. \E g \in Hunks(patch) : \A i \in Hunks(patch) : g <= i
    BY DEF Follows
  <2>2. FirstHunk(patch) \in Hunks(patch)
    BY <2>1 DEF FirstHunk
  <2>3. QED
    BY <1>1, <2>2 DEF Hunks
<1>6. /\ lines' = lines \union {read + 1}
      /\ Shown({"added"})' = Shown({"added"}) \union (IF kind = "added" THEN {read + 1} ELSE {})
  BY ShownNext
<1>7. \A j \in lines : j \in Nat /\ NewLineOf(patch, j) < n
  BY <1>2 DEF Follows, Shown
<1>8. read' + 1 = read + 2
  BY <1>1
<1>9. position' = read' - FirstHunk(patch') /\ newLine' = NewLineOf(patch', read' + 1)
  BY <1>1, <1>2, <1>4, <1>5, <1>8 DEF Anchor
<1>10. \A j \in lines' : NewLineOf(patch', j) < newLine'
  <2>1. \A j \in lines : NewLineOf(patch, j) \in Nat
    BY <1>1 DEF Follows, MapIsExact, TypeOK
  <2>2. newLine' = n + 1
    BY <1>2 DEF Anchor
  <2>3. QED
    BY <1>1, <1>4, <1>6, <1>7, <2>1, <2>2
<1>11. MapIsExact'
  <2>1. DOMAIN lineMap' = DOMAIN lineMap \union {n}
    BY <1>2 DEF Anchor
  <2>2. lineMap'[n] = read + 1 - FirstHunk(patch)
    BY <1>1, <1>2, <1>5 DEF Anchor
  <2>3. \A j \in lines : lineMap'[NewLineOf(patch, j)] = lineMap[NewLineOf(patch, j)]
    BY <1>2, <1>4, <1>7 DEF Anchor, Follows, MapIsExact
  <2>4. \A j \in lines' : lineMap'[NewLineOf(patch, j)] = j - FirstHunk(patch)
    <3>1. \A j \in lines : lineMap[NewLineOf(patch, j)] = j - FirstHunk(patch)
      BY DEF Follows, MapIsExact, PositionOf, FirstHunk
    <3> HIDE DEF lines
    <3>2. QED
      <4> SUFFICES ASSUME NEW j \in lines'
                   PROVE  lineMap'[NewLineOf(patch, j)] = j - FirstHunk(patch)
        OBVIOUS
      <4>1. CASE j \in lines
        BY <2>3, <3>1, <4>1
      <4>2. CASE j = read + 1
        <5>1. NewLineOf(patch, j) = n
          BY <4>2
        <5>2. j - FirstHunk(patch) = read + 1 - FirstHunk(patch)
          BY <1>1, <1>5, <4>2
        <5> HIDE DEF n
        <5>3. QED
          BY <2>2, <5>1, <5>2
      <4>3. QED
        BY <1>6, <4>1, <4>2
  <2>5. DOMAIN lineMap' = {NewLineOf(patch, j) : j \in lines'}
    BY <1>6, <2>1 DEF Follows, MapIsExact
  <2>6. added' = {NewLineOf(patch, j) : j \in Shown({"added"})'}
    BY <1>2, <1>6 DEF Follows, MapIsExact
  <2>7. QED
    BY <1>1, <2>4, <2>5, <2>6 DEF MapIsExact, PositionOf, FirstHunk
<1>12. seenHunk' <=> \E g \in Hunks(patch') : g <= read'
  BY <1>1, <1>3 DEF InHunk, Hunks
<1>13. QED
  BY <1>1, <1>4, <1>8, <1>9, <1>10, <1>11, <1>12 DEF Follows

\* A line that is not in the new file only takes a position.
LEMMA PassFollows ==
  ASSUME Follows, seenHunk, NEW kind \in {"removed", "no_newline"}, Read(kind),
         position' = position + 1, UNCHANGED <<newLine, seenHunk, lineMap, added>>,
         TypeOK'
  PROVE  Follows'
<1>1. /\ patch' = patch /\ read' = read + 1 /\ patch[read + 1].kind = kind
      /\ read \in Nat /\ read + 1 \in DOMAIN patch /\ patch \in Seq(LineType)
  BY DEF Read, Follows, TypeOK
<1>2. PICK h : InHunk(patch, h, read + 1)
  BY DEF Follows
<1>3. /\ InHunk(patch, h, read + 2)
      /\ NewLineOf(patch, read + 2) = NewLineOf(patch, read + 1)
  BY <1>1, <1>2, NextLine DEF OnNewSide
<1>4. FirstHunk(patch) \in Int
  <2>1. \E g \in Hunks(patch) : \A i \in Hunks(patch) : g <= i
    BY DEF Follows
  <2>2. FirstHunk(patch) \in Hunks(patch)
    BY <2>1 DEF FirstHunk
  <2>3. QED
    BY <1>1, <2>2 DEF Hunks
<1>5. /\ Shown({"added"})' = Shown({"added"})
      /\ Shown({"added", "context"})' = Shown({"added", "context"})
  <2>1. kind \notin {"added"} /\ kind \notin {"added", "context"}
    OBVIOUS
  <2>2. QED
    <3>1. /\ Shown({"added"})' = Shown({"added"})
                \union (IF seenHunk /\ kind \in {"added"} THEN {read + 1} ELSE {})
          /\ Shown({"added", "context"})' = Shown({"added", "context"})
                \union (IF seenHunk /\ kind \in {"added", "context"} THEN {read + 1} ELSE {})
      BY <2>1, ShownNext
    <3>2. QED
      BY <2>1, <3>1
<1>6. read' + 1 = read + 2
  BY <1>1
<1>7. position' = read' - FirstHunk(patch') /\ newLine' = NewLineOf(patch', read' + 1)
  BY <1>1, <1>3, <1>4, <1>6 DEF Follows
<1>8. MapIsExact'
  BY <1>1, <1>5 DEF Follows, MapIsExact, PositionOf
<1>9. seenHunk' <=> \E g \in Hunks(patch') : g <= read'
  BY <1>1, <1>2 DEF InHunk, Hunks
<1>10. QED
  BY <1>1, <1>3, <1>5, <1>6, <1>7, <1>8, <1>9 DEF Follows

\* A header: the first one starts the positions, a later one goes on with them;
\* its hunk starts at or after the number reached.
LEMMA HunkFollows == ASSUME Follows, Hunk, TypeOK' PROVE Follows'
<1>1. /\ patch' = patch /\ read' = read + 1 /\ patch[read + 1].kind = "hunk"
      /\ read \in Nat /\ read + 1 \in Hunks(patch) /\ patch \in Seq(LineType)
      /\ newLine' = patch[read + 1].start /\ seenHunk' = TRUE
      /\ UNCHANGED <<lineMap, added>>
  BY DEF Read, Hunk, Hunks, Follows, TypeOK
<1>2. /\ InHunk(patch, read + 1, read + 1 + 1)
      /\ NewLineOf(patch, read + 1 + 1) = newLine'
  BY <1>1, NewHunk
<1>3. /\ Shown({"added"})' = Shown({"added"})
      /\ Shown({"added", "context"})' = Shown({"added", "context"})
  <2>1. Read("hunk")
    BY DEF Hunk
  <2>2. QED
    <3>1. /\ Shown({"added"})' = Shown({"added"})
                \union (IF seenHunk /\ "hunk" \in {"added"} THEN {read + 1} ELSE {})
          /\ Shown({"added", "context"})' = Shown({"added", "context"})
                \union (IF seenHunk /\ "hunk" \in {"added", "context"} THEN {read + 1} ELSE {})
      BY <2>1, ShownNext
    <3>2. QED
      BY <2>1, <3>1
<1>4. read' + 1 = read + 1 + 1
  BY <1>1
<1>5. \A g \in Hunks(patch) : g \in Nat
  BY <1>1 DEF Hunks
<1>6. position' = read' - FirstHunk(patch')
  <2>1. CASE seenHunk
    <3>1. \E g \in Hunks(patch) : \A i \in Hunks(patch) : g <= i
      BY <2>1 DEF Follows
    <3>2. FirstHunk(patch) \in Nat
      BY <1>5, <3>1 DEF FirstHunk
    <3>3. QED
      BY <1>1, <2>1, <3>2 DEF Hunk, HunkPosition, Follows
  <2>2. CASE ~seenHunk
    <3>1. \A i \in Hunks(patch) : read + 1 <= i
      BY <1>1, <1>5, <2>2 DEF Follows
    <3>2. FirstHunk(patch) = read + 1
      BY <1>1, <1>5, <3>1 DEF FirstHunk
    <3>3. QED
      BY <1>1, <2>2, <3>2 DEF Hunk, HunkPosition
  <2>3. QED
    BY <2>1, <2>2
<1>7. \A j \in Shown({"added", "context"})' : NewLineOf(patch', j) < newLine'
  <2> SUFFICES ASSUME NEW j \in Shown({"added", "context"})
               PROVE  NewLineOf(patch, j) < newLine'
    BY <1>1, <1>3
  <2>1. PICK g \in Hunks(patch) : g < j /\ j \in 1..read
    BY DEF Shown
  <2>2. seenHunk /\ g < read + 1
    BY <1>1, <1>5, <2>1 DEF Follows
  <2>3. NewLineOf(patch, read + 1) <= patch[read + 1].start
    BY <1>1, <2>1, <2>2, PatchAssumption DEF WellFormed, Follows
  <2>4. NewLineOf(patch, j) < NewLineOf(patch, read + 1)
    BY <2>2 DEF Follows
  <2>5. /\ NewLineOf(patch, j) \in Nat /\ NewLineOf(patch, read + 1) \in Nat
        /\ newLine' \in Nat
    BY <2>2 DEF Follows, MapIsExact, TypeOK
  <2>6. QED
    BY <1>1, <2>3, <2>4, <2>5
<1>8. MapIsExact'
  BY <1>1, <1>3 DEF Follows, MapIsExact, PositionOf
<1>9. \E g \in Hunks(patch') : g <= read'
  BY <1>1
<1>10. newLine' = NewLineOf(patch', read' + 1) /\ \E h : InHunk(patch', h, read' + 1)
  BY <1>1, <1>2, <1>4
<1>11. \E g \in Hunks(patch') : \A i \in Hunks(patch') : g <= i
  BY <1>1, <1>5 DEF Follows
<1>12. QED
  BY <1>1, <1>6, <1>7, <1>8, <1>9, <1>10, <1>11 DEF Follows

\* A line before the first header leaves everything as it is.
LEMMA PreambleFollows == ASSUME Follows, Preamble, TypeOK' PROVE Follows'
<1>1. /\ patch' = patch /\ read' = read + 1 /\ patch[read + 1].kind = "preamble"
      /\ read \in Nat /\ read + 1 \notin Hunks(patch) /\ patch \in Seq(LineType)
      /\ ~seenHunk /\ UNCHANGED <<position, newLine, seenHunk, lineMap, added>>
  BY DEF Read, Preamble, Hunks, Follows, TypeOK
<1>2. /\ Shown({"added"})' = Shown({"added"})
      /\ Shown({"added", "context"})' = Shown({"added", "context"})
  <2>1. Read("preamble")
    BY DEF Preamble
  <2>2. QED
    <3>1. /\ Shown({"added"})' = Shown({"added"})
                \union (IF seenHunk /\ "preamble" \in {"added"} THEN {read + 1} ELSE {})
          /\ Shown({"added", "context"})' = Shown({"added", "context"})
                \union (IF seenHunk /\ "preamble" \in {"added", "context"} THEN {read + 1} ELSE {})
      BY <2>1, ShownNext
    <3>2. QED
      BY <1>1, <3>1
<1>3. \A g \in Hunks(patch) : g \in Nat /\ g # read + 1
  BY <1>1 DEF Hunks
<1>4. ~ \E g \in Hunks(patch') : g <= read'
  BY <1>1, <1>3 DEF Follows
<1>5. MapIsExact'
  BY <1>1, <1>2 DEF Follows, MapIsExact, PositionOf
<1>6. QED
  BY <1>1, <1>2, <1>4, <1>5 DEF Follows

LEMMA FollowsInit == ASSUME Init, TypeOK PROVE Follows
<1>1. read = 0 /\ seenHunk = FALSE /\ lineMap = <<>> /\ added = {} /\ patch \in Patches
  BY Zenon DEF Init
<1>2. \A K : Shown(K) = {}
  BY <1>1 DEF Shown
<1>3. \A h \in Hunks(patch) : h \in Nat /\ h > 0
  BY DEF Hunks, TypeOK
<1>4. ~ \E h \in Hunks(patch) : h <= read
  BY <1>1, <1>3
<1>5. MapIsExact
  BY <1>1, <1>2 DEF MapIsExact
<1>6. QED
  BY <1>1, <1>2, <1>4, <1>5 DEF Follows

LEMMA FollowsStep == Follows /\ [Next]_vars => Follows'
<1> SUFFICES ASSUME Follows, [Next]_vars PROVE Follows'
  OBVIOUS
<1>1. TypeOK'
  BY LoopType DEF Follows
<1>2. CASE Hunk
  BY <1>1, <1>2, HunkFollows
<1>3. CASE Preamble
  BY <1>1, <1>3, PreambleFollows
<1>4. CASE Added
  BY <1>1, <1>4, AnchorFollows DEF Added
<1>5. CASE Context
  BY <1>1, <1>5, AnchorFollows DEF Context
<1>6. CASE Removed
  BY <1>1, <1>6, PassFollows DEF Removed
<1>7. CASE NoNewline
  BY <1>1, <1>7, PassFollows DEF NoNewline
<1>8. CASE UNCHANGED vars
  <2>1. UNCHANGED <<patch, read, position, newLine, seenHunk, lineMap, added>>
    BY <1>8 DEF vars
  <2>2. \A K : Shown(K)' = Shown(K)
    BY <2>1 DEF Shown
  <2>3. MapIsExact'
    BY <2>1, <2>2 DEF Follows, MapIsExact, PositionOf
  <2>4. QED
    BY <1>1, <2>1, <2>2, <2>3 DEF Follows
<1>9. QED
  BY <1>2, <1>3, <1>4, <1>5, <1>6, <1>7, <1>8 DEF Next

LEMMA FollowsHolds == AnchorSpec => []Follows
<1>1. AnchorInit => Follows
  BY InitInv, FollowsInit DEF AnchorInit, IInv, AnchorTypeOK
<1>2. Follows /\ [AnchorNext]_<<vars, findingVars>> => Follows'
  BY FollowsStep DEF AnchorNext
<1>3. QED
  BY <1>1, <1>2, PTL DEF AnchorSpec

\* For every patch Git can produce, of any length and number of hunks: the map
\* has exactly the lines of the new file, each at the position GitHub counts,
\* and the added lines are exactly those the patch adds (build_line_map).
THEOREM ExactMap == AnchorSpec => []MapIsExact
BY FollowsHolds, PTL DEF Follows

-----------------------------------------------------------------------------
(* The comments.                                                            *)

\* Findings are judged on the finished map; one that was kept is on an added
\* line and has its position.
Placed == \A i \in DOMAIN report :
            /\ read = Len(patch)
            /\ verdict[i] = "kept" => /\ report[i].line \in added
                                      /\ place[i] = lineMap[report[i].line]

LEMMA PlacedStep ==
  IInv /\ Placed /\ [AnchorNext]_<<vars, findingVars>> => Placed'
<1> SUFFICES ASSUME IInv, Placed, [AnchorNext]_<<vars, findingVars>> PROVE Placed'
  OBVIOUS
<1>1. CASE Next /\ UNCHANGED findingVars
  <2>1. read < Len(patch)
    BY <1>1 DEF Next, Hunk, Preamble, Added, Context, Removed, NoNewline, Read
  <2>2. Len(patch) \in Nat /\ read \in Nat
    BY DEF IInv, AnchorTypeOK, TypeOK
  <2>3. \A i \in DOMAIN report : FALSE
    <3>1. read # Len(patch)
      BY <2>1, <2>2
    <3>2. QED
      BY <3>1, Zenon DEF Placed
  <2>4. QED
    BY <1>1, <2>3 DEF Placed, findingVars
<1>2. ASSUME NEW r \in Reports, V!Begin(r), UNCHANGED vars, read = Len(patch)
      PROVE  Placed'
  BY <1>2 DEF V!Begin, vars, Placed
<1>3. ASSUME NEW i \in DOMAIN report, V!Judge(i), UNCHANGED vars, read = Len(patch)
      PROVE  Placed'
  <2> DEFINE f == report[i]
             reason == V!Reason(f)
  <2>1. /\ report' = report /\ verdict' = [verdict EXCEPT ![i] = reason]
        /\ UNCHANGED <<patch, read, lineMap, added>>
    BY <1>3 DEF V!Judge, vars
  <2>2. reason = "kept" => f.line \in added
    BY DEF V!Reason, V!Touched
  <2>3. place' = IF reason = "kept" THEN [place EXCEPT ![i] = lineMap[f.line]] ELSE place
    BY <1>3 DEF V!Judge, V!Reason
  <2>4. i \in DOMAIN verdict /\ DOMAIN verdict = DOMAIN report /\ DOMAIN place = DOMAIN report
    BY <1>3 DEF IInv, AnchorTypeOK, V!TypeOK
  <2> HIDE DEF reason
  <2>5. QED
    BY <1>3, <2>1, <2>2, <2>3, <2>4 DEF Placed
<1>4. CASE UNCHANGED <<vars, findingVars>>
  BY <1>4 DEF vars, findingVars, Placed
<1>5. QED
  BY <1>1, <1>2, <1>3, <1>4 DEF AnchorNext

\* For every patch and every report: a comment stands at the position of the
\* added line its finding cites, in the numbering of the new file (tasks.py:
\* 283-299 on the maps of github/diff.py).
THEOREM OnItsLine == AnchorSpec => []CommentIsOnItsLine
<1>1. AnchorInit => Placed
  BY DEF AnchorInit, V!Init, Placed
<1>2. []IInv /\ [][AnchorNext]_<<vars, findingVars>> /\ Placed => []Placed
  BY PlacedStep, PTL
<1>3. Placed /\ MapIsExact => CommentIsOnItsLine
  <2> SUFFICES ASSUME Placed, MapIsExact, NEW i \in DOMAIN report, verdict[i] = "kept"
               PROVE  \E j \in Shown({"added"}) : /\ PositionOf(j) = place[i]
                                                  /\ NewLineOf(patch, j) = report[i].line
    BY DEF CommentIsOnItsLine
  <2>1. PICK j \in Shown({"added"}) : NewLineOf(patch, j) = report[i].line
    BY DEF Placed, MapIsExact
  <2>2. j \in Shown({"added", "context"})
    BY DEF Shown
  <2>3. lineMap[report[i].line] = PositionOf(j)
    BY <2>1, <2>2 DEF MapIsExact
  <2>4. QED
    BY <2>1, <2>3 DEF Placed
<1>4. QED
  BY <1>1, <1>2, <1>3, Invariance, ExactMap, PTL DEF AnchorSpec
-----------------------------------------------------------------------------
(* What is lost, and what is not.                                           *)

\* A line the pull request added to the file under review.
OnAdded(f) == f.file = Reviewed /\ f.line \in added

\* The verdicts are true of the map: what is kept or a duplicate cites an added
\* line, and what was dropped for any other reason does not.
Merited == \A i \in DOMAIN report :
             /\ verdict[i] \in {"kept", "duplicate"} => OnAdded(report[i])
             /\ verdict[i] \in V!Drops \ {"duplicate"} => ~OnAdded(report[i])

LEMMA MeritedStep ==
  IInv /\ Placed /\ Merited /\ [AnchorNext]_<<vars, findingVars>> => Merited'
<1> SUFFICES ASSUME IInv, Placed, Merited, [AnchorNext]_<<vars, findingVars>>
             PROVE  Merited'
  OBVIOUS
<1>1. CASE Next /\ UNCHANGED findingVars
  <2>1. read < Len(patch)
    BY <1>1 DEF Next, Hunk, Preamble, Added, Context, Removed, NoNewline, Read
  <2>2. Len(patch) \in Nat /\ read \in Nat
    BY DEF IInv, AnchorTypeOK, TypeOK
  <2>3. \A i \in DOMAIN report : FALSE
    <3>1. read # Len(patch)
      BY <2>1, <2>2
    <3>2. QED
      BY <3>1, Zenon DEF Placed
  <2>4. QED
    BY <1>1, <2>3 DEF Merited, findingVars
<1>2. ASSUME NEW r \in Reports, V!Begin(r), UNCHANGED vars PROVE Merited'
  BY <1>2 DEF V!Begin, V!Drops, Merited
<1>3. ASSUME NEW i \in DOMAIN report, V!Judge(i), UNCHANGED vars PROVE Merited'
  <2> DEFINE f == report[i]
             reason == V!Reason(f)
  <2>1. /\ report' = report /\ verdict' = [verdict EXCEPT ![i] = reason]
        /\ added' = added
    BY <1>3 DEF V!Judge, vars
  <2>2. added \subseteq DOMAIN lineMap
    BY DEF IInv, AnchorTypeOK, TypeOK
  <2>3. /\ reason \in {"kept", "duplicate"} => OnAdded(f)
        /\ reason \in V!Drops \ {"duplicate"} => ~OnAdded(f)
    BY <2>2 DEF V!Reason, V!Touched, V!Drops, OnAdded
  <2>4. DOMAIN verdict = DOMAIN report
    BY DEF IInv, AnchorTypeOK, V!TypeOK
  <2> HIDE DEF reason
  <2>5. QED
    BY <1>3, <2>1, <2>3, <2>4 DEF Merited, OnAdded, V!Drops
<1>4. CASE UNCHANGED <<vars, findingVars>>
  BY <1>4 DEF vars, findingVars, Merited, OnAdded, V!Drops
<1>5. QED
  BY <1>1, <1>2, <1>3, <1>4 DEF AnchorNext

\* What has been judged keeps every comment on an added line and no other.
LEMMA JudgedIsExact ==
  ASSUME IInv, Merited, \A i \in DOMAIN report : verdict[i] # "todo"
  PROVE  V!Shown = V!Cited
<1>1. ASSUME NEW i \in DOMAIN report
      PROVE  V!KeyOf(report[i]) \in V!Cited <=> OnAdded(report[i])
  <2>1. /\ V!KeyOf(report[i])[1] = report[i].file
        /\ V!KeyOf(report[i])[2] = report[i].line
    BY DEF V!KeyOf
  <2>2. QED
    BY <2>1 DEF V!Cited, OnAdded
<1>2. ASSUME NEW k \in V!Shown PROVE k \in V!Cited
  <2>1. PICK i \in DOMAIN report : verdict[i] = "kept" /\ k = V!KeyOf(report[i])
    BY DEF V!Shown
  <2>2. QED
    BY <1>1, <2>1 DEF Merited
<1>3. ASSUME NEW k \in V!Cited PROVE k \in V!Shown
  <2>1. PICK i \in DOMAIN report : k = V!KeyOf(report[i])
    BY DEF V!Cited
  <2>2. OnAdded(report[i])
    BY <1>1, <1>3, <2>1
  <2>3. verdict[i] \in {"kept", "duplicate"}
    BY <2>2 DEF Merited, IInv, AnchorTypeOK, V!TypeOK
  <2>4. PICK j \in DOMAIN report : verdict[j] = "kept" /\ V!KeyOf(report[j]) = k
    BY <2>1, <2>3 DEF IInv, BestIsKept, V!BestIsKept
  <2>5. QED
    BY <2>4 DEF V!Shown
<1>4. QED
  BY <1>2, <1>3

\* For every patch and every report: once the whole report is judged, the lines
\* with a comment of a category are the added lines the model had one for.  No
\* finding on them is lost, not even as a duplicate, and none on another line is
\* kept (tasks.py:281-300): NothingLost, but for the loop coming to its end.
THEOREM NothingLostOnceJudged ==
  AnchorSpec => []((\A i \in DOMAIN report : verdict[i] # "todo") => V!Shown = V!Cited)
<1>1. AnchorInit => Placed /\ Merited
  BY DEF AnchorInit, V!Init, Placed, Merited
<1>2. IInv /\ Placed /\ [AnchorNext]_<<vars, findingVars>> => Placed'
  BY PlacedStep
<1>3. IInv /\ Placed /\ Merited /\ [AnchorNext]_<<vars, findingVars>> => Merited'
  BY MeritedStep
<1>4. IInv /\ Merited =>
        ((\A i \in DOMAIN report : verdict[i] # "todo") => V!Shown = V!Cited)
  BY JudgedIsExact
<1>5. QED
  BY <1>1, <1>2, <1>3, <1>4, Invariance, PTL DEF AnchorSpec
=============================================================================
