----------------------------- MODULE MCAnchoring -----------------------------
(* Anchoring on every well-formed patch of at most MaxLines lines, its hunks    *)
(* starting at one of Starts, and every report of at most two findings.         *)
EXTENDS Anchoring, SequencesExt

CONSTANTS MaxLines, Starts, OtherFile

Line == [kind: Kinds \ {"hunk"}, start: {0}] \union [kind: {"hunk"}, start: Starts]

MCPatches == {p \in BoundedSeq(Line, MaxLines) : WellFormed(p)}

Says(file, line, category, severity, confidence) ==
  [file |-> file, line |-> line, category |-> category,
   severity |-> severity, confidence |-> confidence]

\* Findings that compete for a line, one of the other category, one elsewhere.
MCFindings ==
  {Says(Reviewed, n, "BUG", s[1], s[2]) :
     n \in 1..2, s \in {<<0, 0>>, <<0, 1>>, <<1, 1>>}} \union
  {Says(Reviewed, 3, "BUG", 0, 1), Says(Reviewed, 1, "SECURITY", 1, 1),
   Says(OtherFile, 1, "BUG", 0, 1)}

MCReports == BoundedSeq(MCFindings, 2)
==============================================================================
