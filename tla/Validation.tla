----------------------------- MODULE Validation -----------------------------
(***************************************************************************)
(* _validate (apps/worker/tasks.py): the findings the model reported, most *)
(* severe and most confident first, are kept when they cite a line the     *)
(* pull request added and dropped, with the reason, when they do not.      *)
(* Anchoring runs it on the line maps that LineMap builds.                 *)
(***************************************************************************)
EXTENDS Naturals, Sequences, FiniteSets

CONSTANTS File, Category,
          None

FindingType == [file: File, line: Nat, severity: Nat,
                category: Category, confidence: Nat]

VARIABLES maps,        \* per file under review: its line map and added lines
          report,      \* the argument findings
          verdict,     \* per finding: "todo", "kept" or the drop_reason
          place,       \* the diff position a kept finding is stored with
          seen         \* the keys kept so far

vars == <<maps, report, verdict, place, seen>>

Init == report = <<>> /\ verdict = <<>> /\ place = <<>> /\ seen = {}

\* The call: maps[f].line is FileDiff.line_map, maps[f].added its added_lines.
Begin(r) == /\ report = <<>>
            /\ report' = r
            /\ verdict' = [i \in DOMAIN r |-> "todo"]
            /\ place' = [i \in DOMAIN r |-> None]
            /\ UNCHANGED <<maps, seen>>

\* (SEVERITY_ORDER, -confidence): 0 is CRITICAL.  sorted is stable.
Better(f, g) == \/ f.severity < g.severity
                \/ f.severity = g.severity /\ f.confidence > g.confidence

\* Mutant: the findings are taken as the model reported them.
Before_reported(i, j) == i < j

Before(i, j) == \/ Better(report[i], report[j])
                \/ ~Better(report[j], report[i]) /\ i < j

\* Findings that say the same of the same line.
KeyOf(f) == <<f.file, f.line, f.category>>

\* Mutant: any line in the diff will do, context lines too.
Touched_shown(f) == f.line \in DOMAIN maps[f.file].line

\* The pull request added the line.
Touched(f) == f.line \in maps[f.file].added

\* Mutant: one comment a line.
Repeated_line(f) == \E k \in seen : k[1] = f.file /\ k[2] = f.line

\* A better finding has said the same.
Repeated(f) == KeyOf(f) \in seen

\* Why a finding is dropped, or "kept": the first test that applies.
Reason(f) ==
  IF f.file \notin DOMAIN maps THEN "unknown_file"
  ELSE IF f.line \notin DOMAIN maps[f.file].line THEN "outside_diff"
  ELSE IF ~Touched(f) THEN "unchanged_line"
  ELSE IF Repeated(f) THEN "duplicate" ELSE "kept"

\* One turn of the loop over the sorted findings.
Judge(i) ==
  LET f == report[i]
      reason == Reason(f)
  IN /\ verdict[i] = "todo"
     /\ \A j \in DOMAIN report \ {i} : verdict[j] = "todo" => Before(i, j)
     /\ verdict' = [verdict EXCEPT ![i] = reason]
     /\ IF reason = "kept"
        THEN /\ seen' = seen \union {KeyOf(f)}
             /\ place' = [place EXCEPT ![i] = maps[f.file].line[f.line]]
        ELSE UNCHANGED <<seen, place>>
     /\ UNCHANGED <<maps, report>>

-----------------------------------------------------------------------------
(* Properties.                                                              *)

Drops == {"unknown_file", "outside_diff", "unchanged_line", "duplicate"}

\* Every local keeps its type, and exactly the kept findings have a position.
TypeOK == /\ verdict \in [DOMAIN report -> Drops \union {"todo", "kept"}]
          /\ place \in [DOMAIN report -> Nat \union {None}]
          /\ \A i \in DOMAIN report : (place[i] # None) <=> (verdict[i] = "kept")

\* A line gets at most one comment of a category.
OnePerKey ==
  \A i, j \in DOMAIN report :
    verdict[i] = "kept" /\ verdict[j] = "kept" /\ KeyOf(report[i]) = KeyOf(report[j])
      => i = j

\* A finding is dropped as a duplicate only in favour of one at least as severe
\* and, of equal severity, at least as confident, that will be shown.
BestIsKept ==
  \A i \in DOMAIN report : verdict[i] = "duplicate" =>
    \E j \in DOMAIN report : /\ verdict[j] = "kept"
                             /\ KeyOf(report[j]) = KeyOf(report[i])
                             /\ ~Better(report[i], report[j])

\* What the report says of lines the pull request added, and what is kept.
Cited == {k \in {KeyOf(report[i]) : i \in DOMAIN report} :
            k[1] \in DOMAIN maps /\ k[2] \in maps[k[1]].added}
Shown == {KeyOf(report[i]) : i \in {j \in DOMAIN report : verdict[j] = "kept"}}
=============================================================================
