------------------------------ MODULE Selection ------------------------------
(***************************************************************************)
(* What of a pull request is reviewed: the cap on the files fetched, the   *)
(* selection of the reviewable ones, the line budget (apps/worker/tasks.py)*)
(* and the character budget of the context (agent/context.py), and the     *)
(* verdict - completed, partial, skipped - that says what they left out.   *)
(*                                                                         *)
(* Files are known by their place in the list; GitHub lists them by path,  *)
(* but a list gathered from pages of two commits need not be sorted, and a *)
(* path may come twice.                                                    *)
(***************************************************************************)
EXTENDS Naturals, Sequences, FiniteSets, FiniteSetsExt

CONSTANTS PullRequests,                 \* lists of changed files
          MaxFiles, MaxLines, MaxChars  \* MAX_CHANGED_FILES, ..., MAX_CONTEXT_CHARS

\* What the code looks at in a file.  path: its rank among the paths; lines:
\* additions and deletions; patch: GitHub sent one; content: what came of
\* get_file_content; chars: the length of the file as rendered for the context.
FileType == [path: Nat, lines: Nat, patch: BOOLEAN, removed: BOOLEAN,
             source: BOOLEAN, ignored: BOOLEAN,
             content: {"none", "generated", "text"}, chars: Nat]

ASSUME FilesAssumption  == \A pr \in PullRequests : pr \in Seq(FileType)
ASSUME BudgetAssumption == MaxFiles \in Nat /\ MaxLines \in Nat /\ MaxChars \in Nat

VARIABLES pr,        \* the files the pull request changes
          phase,     \* where the pipeline stands
          todo,      \* the files the loop of this phase has not looked at
          kept,      \* the files under review
          spent,     \* lines of the files kept by _trim_to_budget
          included,  \* the files whose content is in the repository block
          budget,    \* characters left of MaxChars
          truncated, \* ContextBundle.truncated
          reason,    \* partial_reason
          outcome    \* the status the review will get

vars == <<pr, phase, todo, kept, spent, included, budget, truncated, reason, outcome>>

Init == /\ pr \in PullRequests
        /\ phase = "select"
        /\ todo = {} /\ kept = {} /\ spent = 0
        /\ included = {} /\ budget = MaxChars /\ truncated = FALSE
        /\ reason = "none" /\ outcome = "none"

\* get_pull_files returns files[:max_files].
Fetched == {i \in DOMAIN pr : i <= MaxFiles}

\* FileDiff.is_reviewable, is_source and not is_ignored.
Reviewable(f) == f.patch /\ ~f.removed /\ f.source /\ ~f.ignored
Selected == {i \in Fetched : Reviewable(pr[i])}

LinesOf(S) == MapThenSumSet(LAMBDA i : pr[i].lines, S)
CharsOf(S) == MapThenSumSet(LAMBDA i : pr[i].chars, S)

\* Mutant: the largest files are looked at first.
Smaller_largest(i, j) == \/ pr[i].lines > pr[j].lines
                         \/ pr[i].lines = pr[j].lines /\ i < j

\* The order in which _trim_to_budget looks at the files: smallest first.
Smaller(i, j) == \/ pr[i].lines < pr[j].lines
                 \/ pr[i].lines = pr[j].lines /\ i < j

-----------------------------------------------------------------------------
\* _select_reviewable, and the test against MAX_CHANGED_LINES.
Select ==
  /\ phase = "select"
  /\ IF LinesOf(Selected) > MaxLines
     THEN /\ phase' = "trim" /\ todo' = Selected /\ kept' = {}
          /\ reason' = "diff_too_large"
     ELSE /\ phase' = "decide" /\ todo' = {} /\ kept' = Selected
          /\ UNCHANGED reason
  /\ UNCHANGED <<pr, spent, included, budget, truncated, outcome>>

\* Mutant: ">=" for ">".
Fits_strict(i) == spent + pr[i].lines < MaxLines

\* The file fits what is left of the line budget.
Fits(i) == spent + pr[i].lines <= MaxLines

\* A turn of the loop of _trim_to_budget: a file that does not fit is left out.
Trim(i) ==
  /\ phase = "trim" /\ i \in todo
  /\ \A j \in todo \ {i} : Smaller(i, j)
  /\ todo' = todo \ {i}
  /\ phase' = IF todo = {i} THEN "decide" ELSE "trim"
  /\ IF Fits(i) THEN kept' = kept \union {i} /\ spent' = spent + pr[i].lines
                ELSE UNCHANGED <<kept, spent>>
  /\ UNCHANGED <<pr, included, budget, truncated, reason, outcome>>

\* "if not reviewable": the review is skipped, else the context is built.
Decide ==
  /\ phase = "decide"
  /\ IF kept = {}
     THEN /\ phase' = "done" /\ outcome' = "skipped" /\ reason' = "nothing_reviewable"
          /\ UNCHANGED todo
     ELSE /\ phase' = "assemble" /\ todo' = kept
          /\ UNCHANGED <<reason, outcome>>
  /\ UNCHANGED <<pr, kept, spent, included, budget, truncated>>

\* Mutant: the last file may overrun the budget.
Room_last(i) == budget > 0

\* The rendered file fits what is left of the character budget.
Room(i) == pr[i].chars <= budget

\* The order of sorted(files, key=path), which keeps that of the list for ties.
Earlier(i, j) == pr[i].path < pr[j].path \/ (pr[i].path = pr[j].path /\ i < j)

\* A turn of the loop of build_context.
Assemble(i) ==
  /\ phase = "assemble" /\ i \in todo
  /\ \A j \in todo \ {i} : Earlier(i, j)
  /\ todo' = todo \ {i}
  /\ \/ /\ pr[i].content # "text"
        /\ UNCHANGED <<included, budget, truncated>>
     \/ /\ pr[i].content = "text" /\ Room(i)
        /\ included' = included \union {i} /\ budget' = budget - pr[i].chars
        /\ UNCHANGED truncated
     \/ /\ pr[i].content = "text" /\ ~Room(i)
        /\ truncated' = TRUE /\ UNCHANGED <<included, budget>>
  /\ UNCHANGED <<pr, phase, kept, spent, reason, outcome>>

\* Mutant: the verdict does not look at ContextBundle.truncated.
Partial_blind == reason # "none"

\* is_partial or bundle.truncated
Partial == reason # "none" \/ truncated

\* is_partial, partial_reason and the status stored with the findings.
Conclude ==
  /\ phase = "assemble" /\ todo = {}
  /\ phase' = "done"
  /\ outcome' = IF Partial THEN "partial" ELSE "completed"
  /\ reason' = IF reason = "none" /\ truncated THEN "context_truncated" ELSE reason
  /\ UNCHANGED <<pr, todo, kept, spent, included, budget, truncated>>

Next == \/ Select \/ Decide \/ Conclude
        \/ \E i \in todo : Trim(i) \/ Assemble(i)

Spec == Init /\ [][Next]_vars /\ WF_vars(Next)

-----------------------------------------------------------------------------
(* Properties.                                                              *)

\* Neither budget is ever exceeded: not by the lines under review, once they
\* are chosen, nor by the characters of the context, which add up at any point.
WithinBudgets ==
  /\ phase # "select" => LinesOf(kept) <= MaxLines
  /\ CharsOf(included) + budget = MaxChars
  /\ budget >= 0

\* "more files reviewed per token spent" (tasks.py:254): no other choice of
\* files within the line budget has more of them.
MostFilesKept ==
  phase \in {"decide", "assemble", "done"} =>
    \A S \in SUBSET Selected :
      LinesOf(S) <= MaxLines => Cardinality(S) <= Cardinality(kept)

\* A review is called completed exactly when no budget left anything out of it:
\* each file selected is under review, and each content that could be is sent.
Sendable == {i \in Selected : pr[i].content = "text"}
CompletedIsWhole ==
  phase = "done" /\ kept # {} =>
    (outcome = "completed" <=> kept = Selected /\ included = Sendable)

\* The pipeline comes to a verdict, and skips only what has no file to review
\* within the line budget.
Concludes ==
  <>(/\ phase = "done"
     /\ (outcome = "skipped") <=> (\A i \in Selected : pr[i].lines > MaxLines))
==============================================================================
