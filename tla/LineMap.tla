------------------------------- MODULE LineMap -------------------------------
(***************************************************************************)
(* build_line_map (github/diff.py): one pass over the patch of a file that *)
(* maps every line of the new file the patch shows to its diff position,   *)
(* and collects the lines the pull request added.                          *)
(*                                                                         *)
(* A patch is the sequence of its lines after rstrip and split.  Of a line *)
(* only its kind matters, and of a hunk header the line of the new file at *)
(* which the hunk starts.                                                  *)
(***************************************************************************)
EXTENDS Naturals, Sequences, FiniteSets

CONSTANT Patches   \* the patches GitHub may send

Kinds == {"preamble", "hunk", "added", "removed", "context", "no_newline"}

LineType == [kind: Kinds, start: Nat]

\* The lines of a patch that are lines of the new file.
OnNewSide(p, j) == p[j].kind \in {"added", "context"}

Hunks(p) == {j \in DOMAIN p : p[j].kind = "hunk"}

\* Line j is in hunk h of p.
InHunk(p, h, j) == h \in Hunks(p) /\ h < j /\ \A i \in Hunks(p) : i <= h \/ j <= i

\* The number in the new file of line j of p, or of the line that would come
\* next: the start of its hunk, and one more for every line since.
NewLineOf(p, j) ==
  LET h == CHOOSE i \in Hunks(p) : InHunk(p, i, j)
  IN p[h].start + Cardinality({i \in (h + 1)..(j - 1) : OnNewSide(p, i)})

\* What Git guarantees of a patch: a preamble only before the first hunk, the
\* marker of a missing newline right after the line it is about, hunks in the
\* order of the file and not overlapping, and no line of the new file in a hunk
\* that starts at 0 (the file is removed).
WellFormed(p) ==
  /\ \A j \in DOMAIN p : (p[j].kind = "preamble") <=> (\A h \in Hunks(p) : j < h)
  /\ \A j \in DOMAIN p : p[j].kind = "no_newline" =>
       j > 1 /\ p[j - 1].kind \in {"added", "removed", "context"}
  /\ \A h \in Hunks(p) : (\E g \in Hunks(p) : g < h) => NewLineOf(p, h) <= p[h].start
  /\ \A h \in Hunks(p), j \in DOMAIN p :
       p[h].start = 0 /\ InHunk(p, h, j) => ~OnNewSide(p, j)

ASSUME PatchAssumption == \A p \in Patches : p \in Seq(LineType) /\ WellFormed(p)

VARIABLES patch,     \* the argument
          read,      \* lines of it the loop has handled
          position, newLine, seenHunk, lineMap, added   \* the locals

vars == <<patch, read, position, newLine, seenHunk, lineMap, added>>

Init == /\ patch \in Patches
        /\ read = 0
        /\ position = 0 /\ newLine = 0 /\ seenHunk = FALSE
        /\ lineMap = <<>> /\ added = {}

-----------------------------------------------------------------------------
\* The next line of the patch is of this kind.
Read(kind) == /\ read < Len(patch)
              /\ patch[read + 1].kind = kind
              /\ read' = read + 1
              /\ UNCHANGED patch

\* Mutant: a later header takes no position.
HunkPosition_free == IF seenHunk THEN position ELSE 0

\* The first header is position 0; a later one takes a position of its own.
HunkPosition == IF seenHunk THEN position + 1 ELSE 0

Hunk == /\ Read("hunk")
        /\ newLine' = patch[read + 1].start
        /\ position' = HunkPosition
        /\ seenHunk' = TRUE
        /\ UNCHANGED <<lineMap, added>>

\* Lines before the first header (---, +++) are not looked at.
Preamble == /\ ~seenHunk /\ Read("preamble")
            /\ UNCHANGED <<position, newLine, seenHunk, lineMap, added>>

\* line_map[new_line] = position, after the position was counted.
Anchor == /\ position' = position + 1
          /\ lineMap' = [n \in DOMAIN lineMap \union {newLine} |->
                           IF n = newLine THEN position + 1 ELSE lineMap[n]]
          /\ newLine' = newLine + 1

Added == /\ seenHunk /\ Read("added")
         /\ Anchor
         /\ added' = added \union {newLine}
         /\ UNCHANGED seenHunk

\* Every line with no marker of its own is one of context, blank lines too.
Context == /\ seenHunk /\ Read("context")
           /\ Anchor
           /\ UNCHANGED <<seenHunk, added>>

Removed == /\ seenHunk /\ Read("removed")
           /\ position' = position + 1
           /\ UNCHANGED <<newLine, seenHunk, lineMap, added>>

\* "\ No newline at end of file" takes a position and is not a line.
NoNewline == /\ seenHunk /\ Read("no_newline")
             /\ position' = position + 1
             /\ UNCHANGED <<newLine, seenHunk, lineMap, added>>

Next == Hunk \/ Preamble \/ Added \/ Context \/ Removed \/ NoNewline

Spec == Init /\ [][Next]_vars

-----------------------------------------------------------------------------
(* Properties.                                                              *)

\* Every local keeps its type.
TypeOK == /\ patch \in Seq(LineType)
          /\ read \in 0..Len(patch)
          /\ position \in Nat /\ newLine \in Nat /\ seenHunk \in BOOLEAN
          /\ DOMAIN lineMap \subseteq Nat
          /\ \A n \in DOMAIN lineMap : lineMap[n] \in Nat
          /\ added \subseteq DOMAIN lineMap

\* The lines of the new file among those read, and GitHub's position of line j
\* (diff.py:12-14): how many lines down it is from the first header.
Shown(kinds) == {j \in 1..read : patch[j].kind \in kinds
                                  /\ \E h \in Hunks(patch) : h < j}
PositionOf(j) == j - (CHOOSE h \in Hunks(patch) : \A i \in Hunks(patch) : h <= i)

\* The map has every line of the new file the patch shows, under its number in
\* the new file, at GitHub's position, whatever hunks and removals come between;
\* and the added lines are those the patch adds, no context line among them.
MapIsExact ==
  LET lines == Shown({"added", "context"})
  IN /\ DOMAIN lineMap = {NewLineOf(patch, j) : j \in lines}
     /\ \A j \in lines : lineMap[NewLineOf(patch, j)] = PositionOf(j)
     /\ added = {NewLineOf(patch, j) : j \in Shown({"added"})}
==============================================================================
