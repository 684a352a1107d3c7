----------------------------- MODULE ReviewTask -----------------------------
(***************************************************************************)
(* The Celery task review.pull_request (apps/worker/tasks.py), its queue   *)
(* (apps/worker/celery_app.py) and the pull request it reads from GitHub.  *)
(*                                                                         *)
(* A run of the task is a sequence of calls to PostgreSQL, GitHub and the  *)
(* model, each an action, so that pushes, other runs and failures fall     *)
(* between any two of them.  A database transaction is one action: it      *)
(* takes effect at its commit, and the reply to the commit may be lost.    *)
(* The queue holds, per review, how many messages wait; a run holds the    *)
(* message it was started by until it acknowledges it.                     *)
(***************************************************************************)
EXTENDS Naturals, FiniteSets

CONSTANTS Sha,             \* commits of the pull request, one review row each
          Slot,            \* worker processes
          MaxRedeliveries, \* bound on how often one message is redelivered
          PushBack,        \* may a push move the branch back to an old commit?
          RedisRestarts,   \* may Redis lose its data?
          None

ASSUME BoundAssumption  == MaxRedeliveries \in Nat
ASSUME SwitchAssumption == PushBack \in BOOLEAN /\ RedisRestarts \in BOOLEAN
ASSUME NoneAssumption   == None \notin Sha

VARIABLES head, pushed,           \* GitHub: the branch's head, commits it ever had
          status, row,            \* the table reviews
          findings, spent,        \* rows added to findings, calls to the model
          sent, ready,            \* messages published; messages waiting
          redelivered,            \* times a message was put back in the queue
          dropped,                \* reviews whose message left with the row unsettled
          pc, job, holds, work    \* the run in each slot

github == <<head, pushed>>
table  == <<status, row, findings, spent>>
queue  == <<sent, ready, redelivered, dropped>>
runs   == <<pc, job, holds, work>>
vars   == <<head, pushed, status, row, findings, spent,
            sent, ready, redelivered, dropped, pc, job, holds, work>>

Settled  == {"completed", "partial", "failed", "skipped"}
Statuses == {"absent", "queued", "running"} \union Settled

SkipReasons    == {"pr_not_found", "superseded", "nothing_reviewable"}
PartialReasons == {"diff_too_large", "context_truncated"}
Reasons        == {"none"} \union SkipReasons \union PartialReasons

\* The columns of a review the model follows.  diff: the revision raw_diff was
\* fetched at; anchor: the revision of the files the findings are anchored to.
RowType == [partial: BOOLEAN, reason: Reasons, finished: BOOLEAN,
            error: {"none", "refusal", "exception"},
            diff: Sha \union {None}, anchor: Sha \union {None}]

\* The locals of a run: what it fetched, and the reason it will write.
WorkType == [files: Sha \union {None}, diff: Sha \union {None},
             note: Reasons, refused: BOOLEAN]

\* Where a run can be: fetching, inside the try of _review, not yet done.
Fetching == {"pull", "files", "diff", "contents"}
Pipeline == Fetching \union {"review", "persist", "finish"}
Live     == Pipeline \union {"start", "fail"}
Phases   == {"idle", "return"} \union Live

NewRow == [partial |-> FALSE, reason |-> "none", finished |-> FALSE,
           error |-> "none", diff |-> None, anchor |-> None]
Blank  == [files |-> None, diff |-> None, note |-> "none", refused |-> FALSE]

Init == /\ head \in Sha /\ pushed = {head}
        /\ status      = [s \in Sha |-> "absent"]
        /\ row         = [s \in Sha |-> NewRow]
        /\ findings    = [s \in Sha |-> 0]
        /\ spent       = [s \in Sha |-> 0]
        /\ sent        = [s \in Sha |-> 0]
        /\ ready       = [s \in Sha |-> 0]
        /\ redelivered = [s \in Sha |-> 0]
        /\ dropped     = {}
        /\ pc    = [w \in Slot |-> "idle"]
        /\ job   = [w \in Slot |-> None]
        /\ holds = [w \in Slot |-> FALSE]
        /\ work  = [w \in Slot |-> Blank]

-----------------------------------------------------------------------------
(* The environment: GitHub and the webhook endpoint.                        *)

Push(s) == /\ s # head
           /\ PushBack \/ s \notin pushed
           /\ head' = s
           /\ pushed' = pushed \union {s}
           /\ UNCHANGED <<table, queue, runs>>

\* What the endpoint does, as Admission has it: insert, then publish once.
Record(s) == /\ s \in pushed
             /\ status[s] = "absent"
             /\ status' = [status EXCEPT ![s] = "queued"]
             /\ UNCHANGED <<github, row, findings, spent, queue, runs>>

\* Mutant: the endpoint publishes a duplicate again.
Unsent_again(s) == sent[s] < 2 /\ ready[s] = 0

Unsent(s) == sent[s] = 0

Send(s) == /\ status[s] # "absent"
           /\ Unsent(s)
           /\ sent' = [sent EXCEPT ![s] = 1]
           /\ ready' = [ready EXCEPT ![s] = @ + 1]
           /\ UNCHANGED <<github, table, redelivered, dropped, runs>>

-----------------------------------------------------------------------------
(* A run, step by step.                                                     *)

Goto(w, p) == pc' = [pc EXCEPT ![w] = p]

\* Mutant: the slot keeps the job of the run that ended.
Clear_keepsJob(w) == /\ Goto(w, "idle")
                     /\ holds' = [holds EXCEPT ![w] = FALSE]
                     /\ work'  = [work EXCEPT ![w] = Blank]
                     /\ UNCHANGED job

\* The slot is free again, and its run's locals are gone.
Clear(w) == /\ Goto(w, "idle")
            /\ job'   = [job EXCEPT ![w] = None]
            /\ holds' = [holds EXCEPT ![w] = FALSE]
            /\ work'  = [work EXCEPT ![w] = Blank]

\* acks_late: the message stays with the run until the run ends.
Deliver(w, s) == /\ pc[w] = "idle"
                 /\ ready[s] > 0
                 /\ ready' = [ready EXCEPT ![s] = @ - 1]
                 /\ Goto(w, "start")
                 /\ job'   = [job EXCEPT ![w] = s]
                 /\ holds' = [holds EXCEPT ![w] = TRUE]
                 /\ UNCHANGED <<github, table, sent, redelivered, dropped, work>>

\* The prologue of _review: whatever the status was, it becomes "running".  It
\* is outside the try, so an error there (~reply) ends the run.
Start(w, reply) ==
  /\ pc[w] = "start"
  /\ IF status[job[w]] = "absent"
     THEN /\ Goto(w, "return")
          /\ UNCHANGED <<status, dropped>>
     ELSE /\ status' = [status EXCEPT ![job[w]] = "running"]
          /\ Goto(w, IF reply THEN "pull" ELSE "return")
          /\ dropped' = IF reply THEN dropped ELSE dropped \union {job[w]}
  /\ UNCHANGED <<github, row, findings, spent, sent, ready, redelivered, job, holds, work>>

\* Mutant: the test for a newer commit is the wrong way round.
Newer_inverted(w) == head = job[w]

\* current_sha != expected_head_sha
Newer(w) == head # job[w]

\* get_pull_request, and the test for a newer commit.
Pull(w) == /\ pc[w] = "pull"
           /\ IF Newer(w)
              THEN /\ Goto(w, "finish")
                   /\ work' = [work EXCEPT ![w].note = "superseded"]
              ELSE Goto(w, "files") /\ UNCHANGED work
           /\ UNCHANGED <<github, table, queue, job, holds>>

\* get_pull_files and get_diff name the pull request, not a commit: they
\* return whatever its head is by then.
Files(w) == /\ pc[w] = "files"
            /\ work' = [work EXCEPT ![w].files = head]
            /\ Goto(w, "diff")
            /\ UNCHANGED <<github, table, queue, job, holds>>

Diff(w) == /\ pc[w] = "diff"
           /\ work' = [work EXCEPT ![w].diff = head]
           /\ Goto(w, "contents")
           /\ UNCHANGED <<github, table, queue, job, holds>>

\* Contents are fetched and the budgets applied.  note is what came of it:
\* nothing left to review, a review of everything ("none"), or a partial one.
Contents(w, note) ==
  /\ pc[w] = "contents"
  /\ note \in {"none", "nothing_reviewable"} \union PartialReasons
  /\ work' = [work EXCEPT ![w].note = note]
  /\ Goto(w, IF note = "nothing_reviewable" THEN "finish" ELSE "review")
  /\ UNCHANGED <<github, table, queue, job, holds>>

\* GitHub answers 404 to one of the calls that turn it into a GitHubError.
NotFound(w) == /\ pc[w] \in {"pull", "files", "diff"}
               /\ work' = [work EXCEPT ![w].note = "pr_not_found"]
               /\ Goto(w, "finish")
               /\ UNCHANGED <<github, table, queue, job, holds>>

\* review_diff returned; a refusal is a result too.
Review(w, refused) ==
  /\ pc[w] = "review"
  /\ spent' = [spent EXCEPT ![job[w]] = @ + 1]
  /\ work' = [work EXCEPT ![w].refused = refused]
  /\ Goto(w, "persist")
  /\ UNCHANGED <<github, status, row, findings, queue, job, holds>>

\* Mutant: the status ignores is_partial.
Verdict_blind(w) == "completed"

\* PARTIAL if review.is_partial else COMPLETED
Verdict(w) == IF work[w].note \in PartialReasons THEN "partial" ELSE "completed"

\* The transaction that stores the verdict and adds the findings; the error
\* column is written for a refusal and otherwise left as it is.
Persist(w, reply) ==
  LET s == job[w]
  IN /\ pc[w] = "persist"
     /\ status' = [status EXCEPT ![s] = Verdict(w)]
     /\ row' = [row EXCEPT ![s] =
                 [partial |-> work[w].note \in PartialReasons,
                  reason |-> work[w].note, finished |-> TRUE,
                  error |-> IF work[w].refused THEN "refusal" ELSE row[s].error,
                  diff |-> work[w].diff, anchor |-> work[w].files]]
     /\ findings' = [findings EXCEPT ![s] = IF work[w].refused THEN @ ELSE @ + 1]
     /\ Goto(w, IF reply THEN "return" ELSE "fail")
     /\ UNCHANGED <<github, spent, queue, job, holds, work>>

\* _finish, always with "skipped".  It runs inside the try, except for
\* pr_not_found: then it runs in the handler, whose own error ends the run.
Finish(w, reply) ==
  LET s == job[w]
  IN /\ pc[w] = "finish"
     /\ status' = [status EXCEPT ![s] = "skipped"]
     /\ row' = [row EXCEPT ![s].reason = work[w].note,
                           ![s].finished = TRUE,
                           ![s].diff = IF work[w].note = "nothing_reviewable"
                                       THEN work[w].diff ELSE row[s].diff]
     /\ Goto(w, IF reply \/ work[w].note = "pr_not_found" THEN "return" ELSE "fail")
     /\ UNCHANGED <<github, findings, spent, queue, job, holds, work>>

\* Mutants: _fail queues the review again; it leaves the status alone.
Failure_requeues == "queued"
Failure_keeps    == "running"

Failure == "failed"

\* _fail, from either except clause; the exception is then raised again.
Fail(w) == /\ pc[w] = "fail"
           /\ status' = [status EXCEPT ![job[w]] = Failure]
           /\ row' = [row EXCEPT ![job[w]].finished = TRUE,
                                 ![job[w]].error = "exception"]
           /\ Goto(w, "return")
           /\ UNCHANGED <<github, findings, spent, queue, job, holds, work>>

\* Mutant: an exception makes the run start over in place.
Handler_retries == "pull"

\* The except clauses of _review.
Handler == "fail"

\* Any exception in the pipeline, the soft time limit raised in it included: a
\* GitHub call that used up its retries, a model call that failed (it may have
\* been paid for), a transaction rolled back.
Raise(w) == /\ pc[w] \in Pipeline
            /\ ~(pc[w] = "finish" /\ work[w].note = "pr_not_found")
            /\ spent' = IF pc[w] = "review"
                        THEN [spent EXCEPT ![job[w]] = @ + 1] ELSE spent
            /\ Goto(w, Handler)
            /\ UNCHANGED <<github, status, row, findings, queue, job, holds, work>>

\* An exception no handler of _review sees: a database error outside the try,
\* or the soft time limit raised in the event loop, which cancels the coroutine
\* (CancelledError is not an Exception).  The task has failed all the same.
Escape(w) == /\ pc[w] \in Live
             /\ Goto(w, "return")
             /\ dropped' = dropped \union {job[w]}
             /\ UNCHANGED <<github, table, sent, ready, redelivered, job, holds, work>>

\* The task returned or raised; no retry is configured that would apply
\* (autoretry_for is not set), so the message is acknowledged either way.
Return(w) == /\ pc[w] = "return"
             /\ Clear(w)
             /\ UNCHANGED <<github, table, queue>>

-----------------------------------------------------------------------------
(* Celery and Redis.                                                        *)

\* The hard time limit kills the process and acknowledges the message.
HardLimit(w) == /\ pc[w] \in Live
                /\ dropped' = dropped \union {job[w]}
                /\ Clear(w)
                /\ UNCHANGED <<github, table, sent, ready, redelivered>>

\* The message of w is put back in the queue.
Requeue(w) == /\ redelivered[job[w]] < MaxRedeliveries
              /\ ready' = [ready EXCEPT ![job[w]] = @ + 1]
              /\ redelivered' = [redelivered EXCEPT ![job[w]] = @ + 1]

\* Mutant: the message is acknowledged before the run (no task_acks_late).
WorkerLost_acked(w) == /\ pc[w] # "idle"
                       /\ Clear(w)
                       /\ UNCHANGED <<github, table, queue>>

\* Mutant: the message is requeued even when the broker has restored it.
WorkerLost_requeues(w) == /\ pc[w] # "idle"
                          /\ Requeue(w)
                          /\ Clear(w)
                          /\ UNCHANGED <<github, table, sent, dropped>>

\* The process dies.  task_reject_on_worker_lost requeues the message, when
\* the process still had it.
WorkerLost(w) == /\ pc[w] # "idle"
                 /\ IF holds[w]
                    THEN Requeue(w) /\ UNCHANGED dropped
                    ELSE /\ dropped' = IF pc[w] \in Live
                                       THEN dropped \union {job[w]} ELSE dropped
                         /\ UNCHANGED <<ready, redelivered>>
                 /\ Clear(w)
                 /\ UNCHANGED <<github, table, sent>>

\* The connection to the broker drops: the unacknowledged message is delivered
\* again, while the run that had it goes on.
ConnectionLost(w) == /\ pc[w] # "idle" /\ holds[w]
                     /\ Requeue(w)
                     /\ holds' = [holds EXCEPT ![w] = FALSE]
                     /\ UNCHANGED <<github, table, sent, dropped, pc, job, work>>

\* Redis restarts without its data (docker-compose.yml keeps none on disk).
RedisRestart == /\ RedisRestarts
                /\ ready' = [s \in Sha |-> 0]
                /\ holds' = [w \in Slot |-> FALSE]
                /\ dropped' = dropped \union {s \in Sha : ready[s] > 0}
                /\ UNCHANGED <<github, table, sent, redelivered, pc, job, work>>

-----------------------------------------------------------------------------
Step(w) == \/ \E reply \in BOOLEAN : Start(w, reply)
           \/ Pull(w)
           \/ Files(w)
           \/ Diff(w)
           \/ \E note \in Reasons : Contents(w, note)
           \/ NotFound(w)
           \/ \E refused \in BOOLEAN : Review(w, refused)
           \/ \E reply \in BOOLEAN : Persist(w, reply)
           \/ \E reply \in BOOLEAN : Finish(w, reply)
           \/ Fail(w)
           \/ Raise(w)
           \/ Escape(w)
           \/ Return(w)

Broker(w) == HardLimit(w) \/ WorkerLost(w) \/ ConnectionLost(w)

\* Everything but the endpoint: PRGuard puts the endpoint itself in its place.
WorkerNext == \/ \E s \in Sha : Push(s) \/ \E w \in Slot : Deliver(w, s)
              \/ \E w \in Slot : Step(w) \/ Broker(w)
              \/ RedisRestart

Next == WorkerNext \/ \E s \in Sha : Record(s) \/ Send(s)

Spec == Init /\ [][Next]_vars

-----------------------------------------------------------------------------
(* Properties.                                                              *)

\* Every variable keeps its type, and a slot has a job exactly when it is busy.
TypeOK == /\ head \in Sha /\ pushed \subseteq Sha
          /\ status \in [Sha -> Statuses]
          /\ row \in [Sha -> RowType]
          /\ findings \in [Sha -> Nat] /\ spent \in [Sha -> Nat]
          /\ sent \in [Sha -> Nat] /\ ready \in [Sha -> Nat]
          /\ redelivered \in [Sha -> Nat] /\ dropped \subseteq Sha
          /\ pc \in [Slot -> Phases]
          /\ job \in [Slot -> Sha \union {None}]
          /\ holds \in [Slot -> BOOLEAN]
          /\ work \in [Slot -> WorkType]
          /\ \A w \in Slot : /\ (pc[w] = "idle") <=> (job[w] = None)
                             /\ pc[w] = "idle" => ~holds[w] /\ work[w] = Blank

\* The runs of a review that have work left, and the ones that have its message.
Busy(s)    == {w \in Slot : job[w] = s /\ pc[w] \in Live}
Holders(s) == {w \in Slot : job[w] = s /\ holds[w]}

\* No review is left half done without anybody having it: one that is queued or
\* running waits for its publish, is in the queue, is in a run, or is on record
\* as dropped (its run ended without settling it, or Redis lost its message).
Accounted ==
  \A s \in Sha : status[s] \in {"queued", "running"} =>
    sent[s] = 0 \/ ready[s] > 0 \/ Busy(s) # {} \/ s \in dropped

\* There is one message of a review however it is requeued, restored or
\* redelivered: it waits in the queue or one run has it, never both.
OneMessage ==
  \A s \in Sha : ready[s] + Cardinality(Holders(s)) <= sent[s]

\* Unless its message is redelivered, a review has one run: no two slots work
\* on it, and none does while the message still waits.
OneOwner ==
  \A s \in Sha : redelivered[s] = 0 =>
    /\ \A v, w \in Slot : job[v] = s /\ job[w] = s => v = w
    /\ \A w \in Slot : job[w] = s => ready[s] = 0 /\ sent[s] = 1
    /\ ready[s] <= sent[s] /\ sent[s] <= 1

\* A commit is paid for once, and its findings are stored once, plus once more
\* for every redelivery: nothing else (no exception, no lost reply) repeats them.
PaidOncePerDelivery ==
  \A s \in Sha : /\ spent[s] <= 1 + redelivered[s]
                 /\ findings[s] <= spent[s]

\* The row of a review whose message was not redelivered tells one story: its
\* status, its reason, its error, its diff, its findings and what was spent agree.
Story(s) ==
  LET r == row[s]
      fetched == r.diff # None /\ r.anchor # None
      reviewed == /\ r.finished /\ fetched /\ spent[s] = 1
                  /\ r.error \in {"none", "refusal"}
                  /\ findings[s] = IF r.error = "refusal" THEN 0 ELSE 1
  IN CASE status[s] \in {"absent", "queued"} ->
            r = NewRow /\ spent[s] = 0 /\ findings[s] = 0
       [] status[s] = "running"   -> r = NewRow /\ findings[s] = 0
       [] status[s] = "completed" -> reviewed /\ ~r.partial /\ r.reason = "none"
       [] status[s] = "partial"   -> reviewed /\ r.partial /\ r.reason \in PartialReasons
       [] status[s] = "skipped"   -> /\ r.finished /\ ~r.partial /\ r.error = "none"
                                     /\ r.reason \in SkipReasons
                                     /\ (r.diff # None) <=> (r.reason = "nothing_reviewable")
                                     /\ spent[s] = 0 /\ findings[s] = 0
       [] status[s] = "failed"    -> r.finished /\ r.error = "exception"

OneStory == \A s \in Sha : redelivered[s] = 0 => Story(s)

\* While branches only move forward, a review is called superseded only when
\* its commit is no longer the head (tasks.py:111-116): no commit that people
\* look at goes without a review for that reason.
Superseded(s) == status[s] = "skipped" /\ row[s].reason = "superseded"
SupersededIsHistory == ~PushBack => \A s \in Sha : Superseded(s) => s # head

\* The life of a row, as far as its message was not delivered again: recorded,
\* started and settled once, whatever runs, exceptions and lost replies do.
LifeStatus == [s \in Sha |-> IF redelivered[s] = 0 THEN status[s] ELSE "reissued"]
Life       == INSTANCE ReviewLifecycle WITH status <- LifeStatus
Lifecycle  == Life!Spec

-----------------------------------------------------------------------------
(* What the repository says of this code and the code does not do.          *)

\* docs/03-data-model.md:58, of head_sha: "The commit actually reviewed".  The
\* files are those of the head at the time of get_pull_files.
HeadShaIsReviewed == \A s \in Sha : row[s].anchor \in {None, s}
=============================================================================
