# PRGuard in TLA+

PRGuard reviews GitHub pull requests. A webhook records one review per commit and
puts its id in a queue; a worker fetches the pull request, has a model review it,
anchors what the model found to lines of the diff, and stores the result. This
directory holds its specification: modules that follow the code under `src/`, the
configurations that model-check them with TLC, and proofs checked by TLAPS.
`PROJECT.json` lists the runs, the mutants, the lines each definition stands for, the
hazards and the theorems.

## Inventory

| Part | Source | State | Operations | What makes it correct |
|---|---|---|---|---|
| Webhook endpoint | `apps/api/routes/webhooks.py`, `github/webhooks.py` | the row of a commit; where each handler stands | verify, parse, upsert, commit, publish | one row and at most one message per commit; a 202 is true; nothing is forgotten silently |
| Queue | `apps/worker/celery_app.py` | messages waiting, messages held by a run | deliver, acknowledge, requeue, restore, lose | a message is in one place; it is lost only in ways that are known |
| Review task | `apps/worker/tasks.py` | the row's columns, the findings, the locals of a run | `_review`, `_run_pipeline`, `_finish`, `_fail` | one run per review; paid once; the row tells one story; no head is "superseded" |
| Selection and budgets | `tasks.py`, `agent/context.py` | files kept, lines spent, characters left | select, trim, assemble, conclude | the budgets hold, the choice is the largest, "completed" means whole |
| Line map | `github/diff.py` | position, line number, map, added lines | one turn of the loop per patch line | every line at GitHub's position under its own number |
| Validation | `tasks.py` `_validate`, `agent/schemas.py` | keys seen, findings kept and dropped | one turn per finding | a comment sits on the line it cites; the better duplicate is kept |
| Pipeline | `tasks.py` `_run_pipeline` up to the model call | the contents fetched, in their order | fetch, parse, put contents to paths, budget | "completed" covers the commit that was fetched; its steps are those of the task |
| GitHub client | `github/client.py` | attempt, page, files | `_request`, four calls | complete pages, a bounded number of requests, it ends |
| Installation tokens | `github/app_auth.py` | the cached token and when it is dropped | get, mint, store | a token that is handed out is not about to expire |
| Model call | `agent/reviewer.py` | attempts made, what struck, the answer | parse with the SDK's retries, close, classify, and the transaction after it | one result, exception, escape or death, wherever a limit strikes; a refused answer leaves no findings |
| Models and sessions | `db/models.py`, `db/session.py` | the tables | a transaction | atomic; its reply can be lost |
| API process | `apps/api/main.py`, `db/session.py` | connections in use, the coroutine that blocks the loop, the probe's two checks | connect, commit, publish, probe | connections come back, everyone is answered, handlers and probe alike |
| Settings, migrations | `settings.py`, `db/migrations` | none of their own | reads | not modelled: values are constants |

How they interact: the endpoint and the worker share the table `reviews`; the endpoint
publishes to Redis and the worker consumes from it; the worker calls GitHub (through
the client, with a token Redis caches) and the model, and writes the table. Handlers and
probes share one event loop and one connection pool.

What is hard here: handlers of one commit interleave at every `await`; the commit and
the publish are not atomic; an acknowledgement comes late, so a message may be delivered
again to a run that is still going on or already done; the branch moves while a run
fetches, between two pages included; a publish blocks the loop; a model call is retried
against two time limits; an exception, the soft limit, the hard limit, a lost worker, a lost reply and a
Redis restart each end a run in a different way. `PROJECT.json` lists the hazards, line
by line, with the properties that speak of them.

## Modules

| Module | Models | Kind |
|---|---|---|
| `Admission` | what the endpoint promises: record once, then send at most once | abstract |
| `WebhookIntake` | the endpoint, one action per database or Redis call of a handler | component, implements `Admission` |
| `ReviewLifecycle` | the life of a row as a reader may rely on it | abstract |
| `ReviewTask` | queue, workers, table and the branch's head | component, implements `ReviewLifecycle` |
| `PRGuard` | `WebhookIntake` in front of `ReviewTask`, sharing `status` and the queue | composition, implements `ReviewTask` |
| `ApiProcess` | `WebhookIntake` on one event loop and one pool, with a readiness probe and a clock | composition, implements `WebhookIntake` |
| `LineMap` | `build_line_map`, one action per kind of patch line | algorithm |
| `Validation` | `_validate`, one action per finding | algorithm |
| `Anchoring` | `LineMap` and then `Validation` on the map it built | composition |
| `Selection` | file cap, selection, line budget, character budget, verdict | algorithm |
| `GitHubClient` | the retry loop under the calls of a review | component |
| `Pipeline` | `GitHubClient`, then parsing, then `Selection` | composition, implements four calls of `ReviewTask` |
| `Reviewer` | the model call of a run against the clock of its task | component, implements one call of `ReviewTask` |
| `TokenCache` | concurrent runs and the token cache, on a clock | component |
| `*_proofs` | the theorems about the module they are named after; `PRGuard_proofs` has those about `ReviewTask` too, `Pipeline_proofs` those about `GitHubClient` | proofs |
| `MC*` | instances for TLC | |

Definitions named `<Definition>_<word>` are mutants: the definition with a plausible
bug, one per property, which make that property fail in its run. They take no part in
any specification.

### How the models correspond to the code

*A handler* of the endpoint is in `phase[d]`: "new" (before `github_webhook`), "upsert",
"commit", "enqueue", or the answer it gave. `Receive` is everything up to the first
database call. `Upsert` waits while another handler has written the row and not
committed (`Locked`), which is what the unique index does to a second
`INSERT ... ON CONFLICT`; `created` is `(xmax = 0)`. `DatabaseFails(d, TRUE)` is a
commit applied whose reply is lost; `EnqueueFails(d, TRUE)` a publish Redis stored.
`lost` is history: the keys whose publish was given up. It is not in the code and no
guard reads it.

*A run* of the task is in `pc[w]`, named for the call it is about to make. Pushes
happen between any two steps, so `Files` and `Diff` record the head of that moment:
`tasks.py` passes the pull request's number there, not a commit. `Persist` is the whole
transaction of `tasks.py:174-226`. With `reply = FALSE` the transaction is applied and
an error is seen: then the `except` clause runs `_fail`. `Raise` is any exception the
`try` catches, `Escape` one it does not: an error in the prologue or in the handler, and
the `CancelledError` a soft limit raised in the event loop turns into. `findings` counts
how often a run added its findings. `spent` counts calls of `review_diff`; what the SDK
retries inside a call is not counted (`Reviewer` has those attempts).
`note` is chosen in `Contents` freely among what `Selection` can conclude. That
`Pipeline` and `Reviewer` fill in these calls as `ReviewTask` has them is `TaskSeesItsRun`
and `TaskSeesItsCall`: each of their steps, seen through a refinement mapping of all the
variables of `ReviewTask`, is a step of a run, a push or a stutter.

*The life of a row* in `ReviewLifecycle` is recorded, started, settled, with a settled
verdict overruled by "failed" when its commit was applied and reported as an error.
`LifeStatus` is the row's status until its own message is put back in the queue, and
"reissued" from then on: a rerun overwrites whatever is there.

*The queue* has `ready[s]` messages that wait, and a run that holds one until it
acknowledges (`holds`). `HardLimit` kills a run and acknowledges (Celery does, whatever
`task_reject_on_worker_lost` says); `WorkerLost` requeues, if the process still had the
message; `ConnectionLost` restores it under a run that goes on, as the broker's visibility
timeout also does; `RedisRestart` forgets
everything (`docker-compose.yml:26` starts Redis without persistence). `dropped` is history, like
`lost`: the reviews whose message left without their row being settled.

*The fetching* in `GitHubClient` is one action per attempt. `torn` is history: the head
moved after the first page and before the last, so that the list is of no one commit.
`filesAt` and `diffAt` are the heads at the last page and at the diff. In `Pipeline`
`contents` holds the answers of the content calls in the order they were made; `HasText`
puts them back to paths, as the dictionary of `tasks.py:126-132` does.

*The API process* in `ApiProcess` has `open` (handlers with a connection), `blocked` (the
handler inside the synchronous `send_task`), and one probe with a state per check.
Nothing runs while the loop is blocked, timers included, but the clock moves. A check
whose statement is cancelled gives its connection back in a step of its own (`Cleanup`).

*The model call* in `Reviewer` counts in ticks of 100 seconds: an attempt of 600 s, two
retries, limits of 900 and 1200 s (`settings.py`). Time passes, and both limits can
strike, in the call, while the client closes, and in the transaction after it, each of
which may hang. The soft limit strikes once: in the coroutine, or in the event loop,
which cancels it ("escaped", as is any exception in `_fail`). `client.close()` may raise
by itself; that replaces an answer, and a cancellation on its way as well. `paid` says
that `review_diff` has returned or raised, which is what `spent` counts.

*GitHub's list* in `Selection` is ordered by path, so a file's index stands for its
place in the list and among `sorted` paths.

*A patch* is the sequence of its lines with the kind of each. `WellFormed` says what Git
guarantees; `NewLineOf` and `PositionOf` define the number and the position of a line
from the whole patch, without a loop, and the loop is compared with them.

*Time* passes by `Tick` in `ApiProcess`, `Reviewer` and `TokenCache`. The sleeps of the
client have no length in `GitHubClient`: no property of its steps depends on it.

## Runs

States and times are those of a two-worker TLC.

| Run | Instance and bounds | Shows |
|---|---|---|
| `intake` | 3 deliveries, 2 commits, every kind of request; 24k states | at most one publish, nothing forgotten, honest answers, implements `Admission`, and under fairness a recorded review is published or its handler failed |
| `task_race` | 2 commits of which one is recorded (`OneReview`), 2 workers, 2 redeliveries, Redis restarts; symmetric in workers and commits; 1.8M states | who owns a review, where its message is, what it costs, what its row says, and that rows implement `ReviewLifecycle` |
| `system` | 1 delivery, 2 commits the branch moves between, back included, 1 worker, 1 redelivery, Redis restarts; 251k states | the endpoint is the environment `ReviewTask` assumes; a worker always finds its row; an unsettled review is in somebody's hands; one that was queued is settled or dropped in the end |
| `api` | 3 deliveries of 1 commit, pool of 2, a probe with a timeout of 1 tick; 53k states | connections come back, and under fairness the process keeps the promise `WebhookIntake` takes for granted and answers every handler and probe |
| `anchoring` | all well-formed patches of up to 5 lines with hunks at 0, 1, 3; all reports of up to 2 of 9 findings; 0.5M states | the map is exact; a comment sits on its line; no finding on an added line is lost |
| `selection` | all lists of up to 4 of 18 kinds of file; caps 3 files, 3 lines, 3 characters; 0.8M states | budgets, optimality, "completed" means whole |
| `pipeline` | 3 attempts, three commits with lists of 2, 3 and 4 files, 2 per page, cap 3, pushes at any point, every combination of code, `Retry-After` and used-up limit; 76k states | complete ordered lists, a bounded number of requests, "completed" covers the commit, the steps of `ReviewTask`, termination |
| `reviewer` | the settings of the repository, up to 800 s spent before the call; 19k states | the call, its limits and the transaction after it are the end of one run of `ReviewTask` |
| `token` | 2 runs, lifetime 9, margin 4, a SET up to 1 late, fetching for up to 6, 16 ticks; 1.5M states | a cached token is fresh, and one just handed out is good for 3 ticks of fetching |
| `intake_duplicate` | as `intake`, with Redis as the only thing that fails (`OnlyRedisFails`) | violation: see below |
| `task_headsha` | 2 workers, no redelivery | violation |
| `pipeline_cut` | as `pipeline`, 2 attempts, 4 lines and 6 characters: three of the four files of the long list fit both budgets | violation |

Why the bounds are enough to meet the interesting cases. Three deliveries are the one
that creates a row, one that waits for its transaction and one that comes after. Two
redeliveries let a message be restored while its run goes on and then requeued by the
same run's death. Two workers are the fewest that can share a review; the runs of
different reviews meet only in the head of the branch, so `task_race` records one review
and lets pushes move the other commit in and out of the head. Five patch lines hold two
hunks with lines before, between and after. In `selection` files of 1 to 4 lines and of
1, 2 and 4 characters fit, just fit, and do not fit budgets of 3, alone and together.
Two pages are the fewest a push can fall between, and a list
of four files is cut inside its second page. In `api` three handlers are one more than the pool holds: one has the row
lock, one waits for it with the last connection, one waits for the pool. One delivery is
enough in `system`, for `intake` has the races between deliveries and
`WorkersSeeTheirSpec` is proved for any number. In `token` lifetime, fetching, margin and
lateness keep the order of the real ones (3600 s, 900 s, 300 s, less than a second): a run
can fetch past the margin, and time passes while a token is assured. In `reviewer` the
slowest fetching leaves one tick before the soft limit, and three attempts outlast both.

Deadlock is not checked: every one of these systems may stop when its deliveries are
answered, its patch is read or its review is done. That none stops too early is what the
liveness properties say.

### Fairness

* `WebhookIntake!Fairness`: a handler that can go on does, for the event loop runs every
  coroutine. A failure or a crash may come instead, so `RecordedIsSent` allows `lost`.
* `PRGuard!SystemFairness`: handlers go on, a run goes on (each call it makes has a
  timeout, and the time limits end it in any case), and the queue delivers a waiting
  message when a worker is free (Celery polls). The failures are not fair: they may
  happen, and never have to. The number of redeliveries is bounded by `MaxRedeliveries`;
  without such a bound a process that dies every time would keep a review unsettled.
* `ApiProcess!ApiFairness`: weak fairness of a handler that has its connection (row locks
  are granted, `send_task` returns or raises), of the clock and the timers; strong
  fairness of getting a connection, for the pool of SQLAlchemy serves its waiters in
  order. PostgreSQL and Redis are not assumed to answer the probe. One thing is: a
  statement that `asyncio.timeout` cancels ends (`Cleanup`). psycopg asks the server to
  cancel it and the session then closes (`main.py:51-53`); against a server whose network
  is gone for good, both may wait, and the probe with them.
* `Pipeline`, `Selection`, `LineMap` and `Validation` (in `Anchoring`): a sequential
  program takes its next step; a request ends at `GITHUB_TIMEOUT_SECONDS`. Pushes are not
  fair and may be endless.

## Proofs

TLAPS checks the theorems below for every value of the constants: any number of
deliveries, commits, workers, redeliveries, any list of files, patch, report, budget and
limit. They rest on the named assumptions of the modules (`RequestAssumption`,
`NoKeyAssumption`, `BoundAssumption`, `BudgetsAssumption` and the like), which give
constants their types; besides, `PatchAssumption` says that patches are as Git writes
them (`WellFormed`). Every safety property of a passing run, invariant or action property, is
a theorem.

`WebhookIntake_proofs`. The inductive invariant `IInv` adds to the type invariant:
`OneWriter`, at most one handler of a key is between its insert and its commit;
`OnePublisher`, at most one is created-and-unpublished, and then nothing was sent; and
`RowFirst`, nothing is published or lost before its row is committed. `AtMostOneSend` is
not inductive: that a handler about to publish finds `sent = 0` follows only from there
having been one fresh insert, and that from the lock held until the commit. From it:
`Typing`, `SendOnce`, `NothingForgotten`, `AnswersHold`, and the refinement
`ImplementsAdmission`.

`PRGuard_proofs`, first part: the task. `Typing`; then each invariant with what it needs
beside it:

* `SingleOwner`: `OneOwner` is inductive together with the types.
* `RowFirst` (a run has a row) and then `NothingStranded`: a run that leaves the live
  phases has settled its row or is on record (`StepAccounts`).
* `SupersededHistory` from `Outdated`: a run that noted "superseded" works on a commit
  that is no longer the head, and a head that has moved on does not come back.
* `ConsistentRow` from `Straight`: the row's story and, for the one run of a review,
  `OnTrack`: what its locals must be at each step so that the next write keeps the
  story.
* `ImplementsLifecycle`, for any number of redeliveries, from the same invariants: a
  step that counts no redelivery moves one row along its life or one that is "reissued"
  (`LifeMoves`), and one that counts it is a `Reissue`.
* `MessageConserved` and `BillBounded` from `Balanced`, a ledger that counts the
  messages waiting and held against those sent and redelivered, and the calls paid and
  findings stored against the runs that are still to pay and to store.

`PRGuard_proofs`, second part: the system. `SystemInv` joins both inductive invariants
with `KeysPushed` (a handler's key is a commit that was pushed). Each step of the
endpoint is a `Record`, a `Send` or a stutter of `ReviewTask`: `ImplementsReviewTask`.
So all theorems about the task hold of the system, which `SystemIsSafe` says in one
formula. The workers write the rows the endpoint reads, so its own theorems do not carry
over by themselves: `WorkerKeeps` shows that no row appears or vanishes by it and
nothing is published, and `SystemAnswers` follows. `SomeHands` joins what the two
invariants say of a row: the endpoint's of one not yet published, the task's of one that
is. `RowIsThere`: the branch "missing" of `_review` is dead code as long as the publish
follows the commit.

`Selection_proofs`, for any list and any budgets. Sums over sets of files are out of an
induction's reach here. `Weight` counts instead: the sum over a set is the number of
pairs of a file and one of its lines (`Units`), so that adding a file, comparing two
sets and exchanging files become facts about finite sets. That the fold of the model is
this number (`FoldIsWeight`) is shown with a smallest counterexample (`WFMin` of the
library) and not by induction. `IInv` has a part for each phase: `Trimming` and `Greedy`
of the first loop (what was passed over does not fit and is no smaller than what was
kept), `Reasons`, `Assembled` of the second loop, `Verdict` of the end. `BudgetsHold` is
read off it. `TrimIsOptimal` is an exchange argument (`Fullest`): a larger choice has
more files that were passed over than it lacks of those kept, each no smaller, so it is
at least one such file longer, and for that there was no room.
`CompletedLeavesNothingOut` and `SkippedHasNothingToReview` compare the verdict with the
list. `LoopsEnd`: `TurnsLeft` is a natural number that every step decreases.

`Pipeline_proofs`, first part: the client. `FirstFiles` from `Gathered`: the pages
appended so far are all of the list before the next page, unless a push tore it.
`RequestsBounded`: a run makes at most `MaxAttempts * (Pages + MaxFiles + 2)` requests,
`Pages` being the pages that fill the cap. `AttemptsLeft` counts them down. The bound
rests on `Bounded`: a page with a next one is full, so that the pages before the present
one have brought exactly `(page - 1) * PerPage` files, fewer than the cap; pushes change
what a page holds and not that.

`Pipeline_proofs`, second part: the run. `PipelineInv` joins the client's invariant, the
one `Selection_proofs` has for the budgets, and `Handed`, which ties the two: what was
handed to the budgets is the list the client gathered, each file with the text of its
own call. `RunIsTheClients` carries the client's theorems over.
`CompletedCoversTheCommit` adds `FirstFiles` and `CompletedLeavesNothingOut` up: an
uncut, untorn list is the commit's own, and "completed" says that nothing of it was left
out. `RunImplementsTask` takes every attempt, page and turn to the step of `ReviewTask`
it is part of. `RunIsFinite` joins `AttemptsLeft` and `TurnsLeft` into a variant which
pushes leave alone.

`Reviewer_proofs`. `CallImplementsTask`, for any timeouts, retries and limits, from
`CallInv` (what is stored and what was paid agree with how far the run is and how it
ended) and `Views` (what `ReviewTask` sees in each phase; a refused answer has no
findings): each transition of the call, and each of the transaction after it, is one of
`Review`, `Raise`, `Escape`, `HardLimit`, `Persist`, `Fail` or invisible. A limit strikes
anywhere, so `EscapeSeen` and `KillSeen` speak of any phase (`Underway`).

`Anchoring_proofs`, for any well-formed patches and any reports. `Typing` goes through
the loop of `build_line_map` kind by kind. `OneComment` and `KeepsTheBest` rest on
`Sorted` (what has been judged is no worse than what has not, the sort of
`tasks.py:281-283`) and on `SeenIsKept` (the set `seen` holds exactly the keys of what
was kept): a duplicate is dropped because its key was seen, so a kept finding has that
key, and it was judged first. `ExactMap` compares the loop with counts over the whole
patch without an induction over it: `Follows` says that the position is the distance
from the first header, that the next line's number is the one the patch defines for it,
and that it is beyond every number in the map. `OnItsLine` from `Placed`: a finding kept
has the position the map has for its line, and that line is an added one.
`NothingLostOnceJudged` from `Merited`: of a finding that was dropped either its line is
not an added one or its key was kept. So once all are judged, what is shown is what was
rightly cited.

`TokenCache_proofs`. `Minted` (a run about to store its token took it recently, and its
ttl is the lifetime less the margin), `Dropped` (the key leaves the cache a margin
before its token ends, less the lateness of the SET), `Supplied` (a run starts to fetch
with the assured time left). Then `FreshCache` and `LiveToken`, for any lifetime, margin
and lateness, an unlimited number of runs overwriting each other's entry.

`ApiProcess_proofs`. `IntakeKept`: every step of the process is one of `WebhookIntake`
or a stutter, so the theorems of the endpoint hold under the loop and the pool.
`PoolKept` is inductive together with the types.

Only model-checked: liveness, which with ENABLED is beyond the prover. Three of the
eight have their safety half proved: of `NothingLost` what holds once all findings are
judged, of `Concludes` what a verdict means (`SkippedHasNothingToReview`), of it and of
`Terminates` that no run goes on for ever; TLC alone says that none stops before.
`RecordedIsSent`, `QueuedIsSettled`, `EndpointKeepsGoing`, `EveryoneAnswered` and
`ProbeAnswered` rest on the fairness of several actors and stay with TLC whole. So do
the runs that end in a violation.

## Where the code and its documentation disagree

Shown by a run:

* `intake_duplicate`. A publish fails and is answered 503; GitHub's retry is answered
  "duplicate" and nothing is queued, though `webhooks.py:91` takes the commit for one "already being
  reviewed" and `docs/01-architecture.md:203` relies on that retry.
* `task_headsha`. `head_sha` is not always "the commit actually reviewed"
  (`docs/03-data-model.md:58`): the files fetched may be those of a later push.
* `pipeline_cut`. Of four reviewable files the cap leaves three, and the review of the
  three is "completed", though `docs/03-data-model.md:86` has a review "partial" when a
  cap was hit.

Seen while modelling, without a run of their own:

* A redelivered message stores the findings again, though `celery_app.py:29-31` calls the
  task idempotent (`PaidOncePerDelivery` bounds how often). The error of a first run
  outlives a successful rerun.
* The hard limit acknowledges the message, so its job is not redelivered
  (`celery_app.py:29-30`); a Redis restart loses waiting messages, though
  `docs/03-data-model.md:3-4` says Redis "can be flushed without data loss".
* The soft limit ends in a failed review, or in one that stays running, never in "a clean
  partial review" (`docs/05-configuration.md:54`, `docs/phases/phase-13-reliability.md:63`).
* Three attempts of 600 s do not fit a soft limit of 900 s (`settings.py:43-52`), though
  `docs/phases/phase-13-reliability.md:95-97` says to budget for the retries.
* An answer that stopped at `max_tokens` is logged and its review completed
  (`reviewer.py:117`, `docs/04-llm-strategy.md:143-144`).
* A content over `MAX_FILE_BYTES`, and one that could not be fetched, leave the review
  "completed" (`client.py:169-174`), though `docs/phases/phase-02-queue-worker.md:148-150`
  has truncation recorded.
* `Retry-After` is capped at 60 s and skipped on the last attempt (`client.py:105-107`), not
  "honoured exactly" (`client.py:86`, `docs/phases/phase-02-queue-worker.md:125`,
  `docs/phases/phase-13-reliability.md:53`).
* The client goes on after GitHub said that the rate limit is used up: a 403 with
  `x-ratelimit-remaining: 0` and a `Retry-After` is retried before the test at
  `client.py:110` comes, and a 429 for a content becomes a missing content
  (`client.py:169`), after which the next one is asked for. Only a 403 that is not retried
  ends the run, and neither waits for the reset nor runs the task again later, as
  `docs/phases/phase-02-queue-worker.md:123-124` has it.
* `send_task` blocks the event loop (`webhooks.py:159`), and with it the timers of a probe,
  though the API "never does slow work" (`main.py:3-5`) and the probe has a timeout of one
  second (`docs/phases/phase-00-project-setup.md:99-100`).
* The margin of a token, 300 s, is shorter than the soft limit of a run, so that a long
  fetching may go on with a dead token, though the margin is there "so a token cannot
  expire mid-review" (`app_auth.py:22`). `FetchesWithLiveToken` says how long one is good.
* A review skipped as superseded stays so when the branch is pushed back to its commit
  (`tasks.py:112`); `raw_diff` is fetched apart from the files (`models.py:82-84`);
  `docs/phases/phase-01-github-webhook.md:131` has a failed review enqueued again, the code
  does not.

## Not modelled, and why

* The HMAC of `verify_signature`, `neutralise`, `render_numbered`, the layout of the
  prompt: pure functions on strings, whose outcome is a Boolean or a length here.
* Prompt caching and `estimate_cost`: figures for the log and for two columns nothing reads.
* `health.ping`, `/health/live`, settings, migrations: no state changes. The queue
  `posting` has no task yet.
* The visibility timeout of Redis, one hour by default (`celery_app.py` sets none): with the
  default hard limit no run lasts that long. Redis restoring a message under a run that
  goes on is `ConnectionLost`.
* A Redis that neither answers nor breaks the connection: `send_task` has no timeout of
  its own, and the fairness of `ApiProcess` assumes that it ends.
* Celery's own retry of a publish whose reply was lost, which may publish twice: a publish
  of the model is one message or none.
* How long a sleep of the client lasts. A `Retry-After` that is a date; two installations (each has a cache key of its own).
* The regular expression of the hunk header: a line is a header or it is not.

## Plan

1. *Done.* Intake, task, their composition and abstract specifications; the API process
   around the intake; client, parsing and budgets composed into the pipeline, and the
   pipeline and the model call shown to be the calls the task makes; line map, validation
   and tokens. Proofs of the invariants and refinements listed above.
2. *Done.* Proofs about `Selection`, and of `TaskSeesItsRun` and `TaskSeesItsCall` for any
   lists and limits.
3. Put `TokenCache` under `GitHubClient`, so that an expired token is one of its replies.
4. A variant for a run of `ReviewTask` as a whole, as `Pipeline` and `Selection` have one,
   so that of `QueuedIsSettled` only the fairness is left to TLC.
