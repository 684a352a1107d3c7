------------------------------- MODULE Pipeline -------------------------------
(***************************************************************************)
(* A run of the pipeline up to the call of the model (apps/worker/tasks.py,*)
(* 106-164): the fetching of GitHubClient, the lists it returns parsed     *)
(* (github/diff.py), the contents put to their paths, and then the budgets *)
(* of Selection on what came of it.                                        *)
(***************************************************************************)
EXTENDS GitHubClient, FiniteSets

CONSTANTS MaxLines, MaxChars  \* as in Selection

ASSUME BudgetsAssumption == MaxLines \in Nat /\ MaxChars \in Nat

VARIABLES contents,           \* what came of the content calls, in their order
          pr, phase, todo, kept, spent, included, budget, truncated, reason,
          verdict             \* those of Selection; verdict is its outcome

budgetVars   == <<phase, todo, kept, spent, included, budget, truncated, reason, verdict>>
pipelineVars == <<vars, contents, pr, budgetVars>>

\* An entry of a list is a file as in Selection, with what its text is taken for
\* if it can be fetched.
S == INSTANCE Selection WITH PullRequests <- {<<>>}, outcome <- verdict

ASSUME EntriesAssumption == File \subseteq S!FileType

PipelineInit == Init /\ S!Init /\ contents = <<>>

\* _select_reviewable on the parsed files.
ReviewableFiles == {i \in DOMAIN Files : S!Reviewable(Files[i])}

\* The loop of tasks.py:127 asks for the reviewable files in their order and puts
\* a text to its path: ResultOf is the answer to the call made for file i.
ResultOf(i) == contents[Cardinality({j \in ReviewableFiles : j <= i})]
HasText(f)  == \E i \in ReviewableFiles : Files[i].path = f.path /\ ResultOf(i) = "text"

\* Mutant: a file whose content is missing is not reviewed.
Parsed_dropped == SelectSeq(Files, HasText)

\* The files with the contents fetched, as the budgets see them.
Parsed == [i \in DOMAIN Files |->
             IF HasText(Files[i]) THEN Files[i] ELSE [Files[i] EXCEPT !.content = "none"]]

\* A step of the client; the last one hands over to the budgets.
Fetch == /\ \/ /\ Retry \/ Error \/ GetPullRequest \/ GetPullFiles
               /\ UNCHANGED contents
            \/ GetDiff(Cardinality(ReviewableFiles)) /\ UNCHANGED contents
            \/ \E c \in Results : /\ GetFileContent(c)
                                  /\ contents' = Append(contents, c)
         /\ pr' = IF outcome' = "fetched" THEN Parsed' ELSE pr
         /\ UNCHANGED budgetVars

Budget == outcome = "fetched" /\ S!Next /\ UNCHANGED <<vars, contents>>

Move(s) == Push(s) /\ UNCHANGED <<contents, pr, budgetVars>>

PipelineNext == Fetch \/ Budget \/ \E s \in Sha : Move(s)

\* Every attempt ends, with a reply or at GITHUB_TIMEOUT_SECONDS, and the run goes
\* on with it.
PipelineSpec == PipelineInit /\ [][PipelineNext]_pipelineVars
                             /\ WF_pipelineVars(Fetch \/ Budget)

-----------------------------------------------------------------------------
(* The run as ReviewTask sees it.                                           *)

Where == CASE op = "content"                -> "contents"
           [] op # "done" /\ op # "content" -> op
           [] outcome = "raised"            -> "fail"
           [] outcome \in {"not_found", "superseded"} -> "finish"
           [] outcome = "fetched" ->
                IF phase # "done" THEN "contents"
                ELSE IF verdict = "skipped" THEN "finish" ELSE "review"

Note == CASE outcome = "not_found"  -> "pr_not_found"
          [] outcome = "superseded" -> "superseded"
          [] phase = "done"         -> reason
          [] OTHER                  -> "none"

\* What the run does not touch before it calls the model.
Nought == [s \in Sha |-> 0]
Row    == [s \in Sha |-> [partial |-> FALSE, reason |-> "none", finished |-> FALSE,
                          error |-> "none", diff |-> None, anchor |-> None]]

T == INSTANCE ReviewTask WITH
       Slot <- {1}, MaxRedeliveries <- 0, PushBack <- TRUE, RedisRestarts <- FALSE,
       pushed <- Sha, status <- [s \in Sha |-> "running"], row <- Row,
       findings <- Nought, spent <- Nought, sent <- Nought, ready <- Nought,
       redelivered <- Nought, dropped <- {},
       pc <- <<Where>>, job <- <<sha>>, holds <- <<TRUE>>,
       work <- <<[files |-> filesAt, diff |-> diffAt, note |-> Note, refused |-> FALSE]>>

-----------------------------------------------------------------------------
(* Properties.                                                              *)

\* What ReviewTask takes for one call of a run - get_pull_request, the files, the
\* diff, the contents with the budgets - is what the pages, the retries and the
\* loops of this code add up to, in that order, each ending as it may end there.
TaskSeesItsRun == [][T!Step(1) \/ \E s \in Sha : T!Push(s)]_(T!vars)

\* "completed" covers the pull request: unless the list was cut or torn, every
\* reviewable file of the commit is under review, and the text of each is before
\* the model if it could be fetched and is not generated.
CompletedMeansAll ==
  LET list == ListOf[filesAt]
  IN verdict = "completed" /\ ~torn /\ Len(list) <= MaxFiles =>
       \A i \in DOMAIN list : S!Reviewable(list[i]) =>
          /\ i \in kept
          /\ list[i].content = "text" /\ ResultOf(i) = "text" => i \in included

\* The run comes to the call of the model or to its end, whatever fails and
\* wherever the branch moves: no call retries without end, no budget spins.
Terminates == <>(op = "done" /\ (outcome = "fetched" => phase = "done"))

\* docs/03-data-model.md:86, of the status partial: "budget or cap hit".  A list cut
\* at MAX_CHANGED_FILES leaves the review completed, though reviewable files of the
\* commit are not in it.
CutIsRecorded ==
  verdict = "completed" =>
    torn \/ \A i \in DOMAIN ListOf[filesAt] :
              S!Reviewable(ListOf[filesAt][i]) => i <= MaxFiles
===============================================================================
