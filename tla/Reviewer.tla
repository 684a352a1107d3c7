------------------------------ MODULE Reviewer -------------------------------
(***************************************************************************)
(* The call of the model (agent/reviewer.py, review_diff) against the clock *)
(* of its task: the attempts the SDK makes within one messages.parse, the   *)
(* closing of its client on every way out, the soft and the hard time limit *)
(* of Celery, and the transaction with which the run then writes its        *)
(* verdict, or _fail (apps/worker/tasks.py).  Each of them may take any     *)
(* time, or hang.  A pause between two attempts is less than a tick.        *)
(***************************************************************************)
EXTENDS Naturals

CONSTANTS Timeout,            \* LLM_TIMEOUT_SECONDS, in ticks
          MaxRetries,         \* LLM_MAX_RETRIES
          TaskSoftTimeLimit,  \* CELERY_TASK_SOFT_TIME_LIMIT
          TaskTimeLimit,      \* CELERY_TASK_TIME_LIMIT
          MaxFetch            \* bound: what the run may have spent before the call

ASSUME ClockAssumption ==
  {Timeout, MaxRetries, MaxFetch, TaskSoftTimeLimit, TaskTimeLimit} \subseteq Nat

VARIABLES clock,    \* ticks since the task was delivered
          began,    \* when the current attempt was made
          attempt,  \* attempts made
          at,       \* "call", "close", "called", "over"
          end,      \* how the call, or the run after it, ended; "none" before that
          paid,     \* review_diff has returned or raised
          struck,   \* the soft limit has been raised
          answer,   \* the answer the call returned
          partial,  \* the budgets left something out
          status    \* reviews.status

vars == <<clock, began, attempt, at, end, paid, struck, answer, partial, status>>

\* What an answer says and what the SDK parsed from it, if anything.
Answers  == [stop: {"end_turn", "max_tokens", "refusal"}, report: BOOLEAN]
NoAnswer == [stop |-> "none", report |-> FALSE]

\* The fetching has taken its part of the task's time.
Init == /\ clock \in 0 .. MaxFetch
        /\ began = clock
        /\ attempt = 1
        /\ at = "call"
        /\ end = "none"
        /\ paid = FALSE
        /\ struck = FALSE
        /\ answer = NoAnswer
        /\ partial \in BOOLEAN
        /\ status = "running"

-----------------------------------------------------------------------------
\* However the call ends, the client is closed first (finally), and then the run
\* goes on, in its body or in its handler, unless the exception is one that no
\* handler of it sees ("escaped").  An answer is lost when review_diff raises.
End(how) == /\ end' = how
            /\ at' = IF at = "call" THEN "close"
                     ELSE IF how = "escaped" THEN "over" ELSE "called"
            /\ paid' = (paid \/ (at = "close" /\ how # "escaped"))
            /\ answer' = IF paid \/ how = "returned" THEN answer ELSE NoAnswer

\* An exception in _fail leaves the except clause it runs in.
Becomes(how) == IF at = "called" /\ end = "raised" THEN "escaped" ELSE how

\* The API answers.  What cannot be parsed raises.
Answer(a) == /\ at = "call"
             /\ at' = "close"
             /\ end' = "returned"
             /\ answer' = a
             /\ UNCHANGED <<clock, began, attempt, paid, struck, partial, status>>

AttemptDue == at = "call" /\ clock - began >= Timeout

\* An attempt fails: by its timeout, or before by an error the SDK retries.
Retry == /\ at = "call"
         /\ attempt <= MaxRetries
         /\ attempt' = attempt + 1
         /\ began' = clock
         /\ UNCHANGED <<clock, at, end, paid, struck, answer, partial, status>>

\* The last attempt failed, the error is one the SDK does not retry (a 400),
\* or the answer is not what output_format asks for.
Error == /\ at = "call"
         /\ End("raised")
         /\ UNCHANGED <<clock, began, attempt, struck, partial, status>>

\* await client.close(): an exception of its own replaces the result, or the
\* exception on its way, a cancellation included.
Close(fails) == /\ at = "close"
                /\ End(IF fails THEN "raised" ELSE end)
                /\ UNCHANGED <<clock, began, attempt, struck, partial, status>>

\* The transaction of the verdict is rolled back, or the one of _fail.
Undone == /\ at = "called"
          /\ End(Becomes("raised"))
          /\ UNCHANGED <<clock, began, attempt, struck, partial, status>>

SoftDue == at # "over" /\ ~struck /\ clock >= TaskSoftTimeLimit

\* The signal of the soft limit: its exception is raised in the coroutine, or
\* in the event loop, which then cancels the coroutine.
Strike(how) == /\ SoftDue
               /\ how \in {"raised", "escaped"}
               /\ struck' = TRUE
               /\ End(Becomes(how))
               /\ UNCHANGED <<clock, began, attempt, partial, status>>

HardDue == at # "over" /\ clock >= TaskTimeLimit

\* The hard limit kills the process.
Kill == /\ HardDue
        /\ end' = "killed"
        /\ at' = "over"
        /\ UNCHANGED <<clock, began, attempt, paid, struck, answer, partial, status>>

\* Mutant: stop_reason is looked at after the output.
Report_first(a) == [refused |-> a.stop = "refusal", findings |-> a.report]

\* What review_diff makes of the answer: a refusal keeps nothing of it; a cut
\* answer is only logged, and one without a parsed output is an empty report.
Report(a) == IF a.stop = "refusal" THEN [refused |-> TRUE, findings |-> FALSE]
             ELSE [refused |-> FALSE, findings |-> a.report]

\* The run writes its verdict, or _fail.
Settle == /\ at = "called"
          /\ at' = "over"
          /\ status' = IF end = "raised" THEN "failed"
                       ELSE IF partial THEN "partial" ELSE "completed"
          /\ UNCHANGED <<clock, began, attempt, end, paid, struck, answer, partial>>

\* Time passes; timers that are due fire first.
Tick == /\ at # "over"
        /\ ~AttemptDue /\ ~SoftDue /\ ~HardDue
        /\ clock' = clock + 1
        /\ UNCHANGED <<began, attempt, at, end, paid, struck, answer, partial, status>>

Next == \/ \E a \in Answers : Answer(a)
        \/ Retry \/ Error \/ Undone
        \/ \E fails \in BOOLEAN : Close(fails)
        \/ \E how \in {"raised", "escaped"} : Strike(how)
        \/ Kill \/ Settle \/ Tick

Spec == Init /\ [][Next]_vars

-----------------------------------------------------------------------------
(* The call as ReviewTask sees it.                                          *)

Where == CASE at \in {"call", "close"} -> "review"
           [] at = "called" -> IF end = "returned" THEN "persist" ELSE "fail"
           [] at = "over"   -> IF end = "killed" THEN "idle" ELSE "return"

Stored == status \in {"partial", "completed"}
Gone   == at = "over" /\ end = "killed"
Note   == IF partial THEN "context_truncated" ELSE "none"
Known  == Report(answer)

\* The row, the counters and the locals of the only run of the only review.
Row  == [partial  |-> Stored /\ partial,
         reason   |-> IF Stored THEN Note ELSE "none",
         finished |-> status # "running",
         error    |-> IF status = "failed" THEN "exception"
                      ELSE IF Stored /\ Known.refused THEN "refusal" ELSE "none",
         diff |-> "none", anchor |-> "none"]
Work == [files |-> "none", diff |-> "none", note |-> Note,
         refused |-> paid /\ Known.refused]
Idle == [files |-> "none", diff |-> "none", note |-> "none", refused |-> FALSE]
One(b) == [s \in {"sha"} |-> IF b THEN 1 ELSE 0]

T == INSTANCE ReviewTask WITH
       Sha <- {"sha"}, Slot <- {1}, MaxRedeliveries <- 0, PushBack <- FALSE,
       RedisRestarts <- FALSE, None <- "none",
       head <- "sha", pushed <- {"sha"}, status <- [s \in {"sha"} |-> status],
       row <- [s \in {"sha"} |-> Row],
       findings <- One(Stored /\ (Known.refused => Known.findings)),
       spent <- One(paid),
       sent <- One(TRUE), ready <- One(FALSE), redelivered <- One(FALSE),
       dropped <- IF at = "over" /\ end \in {"escaped", "killed"} THEN {"sha"} ELSE {},
       pc <- <<Where>>, job <- <<IF Gone THEN "none" ELSE "sha">>,
       holds <- <<~Gone>>, work <- <<IF Gone THEN Idle ELSE Work>>

-----------------------------------------------------------------------------
(* Properties.                                                              *)

\* What ReviewTask takes for one call of a run and for the transaction after it is
\* what the attempts, the limits, the closing and a transaction that hangs add up
\* to: it returns a result, raises, escapes every handler or dies with the process,
\* once; what an interrupted transaction leaves is what no transaction leaves, and
\* a refused answer leaves no findings behind.
TaskSeesItsCall == [][T!Step(1) \/ T!Broker(1)]_(T!vars)
==============================================================================
