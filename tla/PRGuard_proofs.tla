--------------------------- MODULE PRGuard_proofs ---------------------------
(***************************************************************************)
(* Proofs about the review task and the whole system, for any number of    *)
(* commits, deliveries, worker processes and redeliveries.  The first part *)
(* speaks of ReviewTask alone, under any environment it allows.  In the    *)
(* second the endpoint, whose invariant WebhookIntake_proofs shows, is     *)
(* that environment, so what the first part shows holds of PRGuard.        *)
(***************************************************************************)
EXTENDS PRGuard, FiniteSetTheorems, TLAPS

(***************************************************************************)
(* The review task.                                                        *)
(***************************************************************************)

\* The environment's actions, named for the case splits below.
Env(s) == Push(s) \/ Record(s) \/ Send(s)

-----------------------------------------------------------------------------
(* Types.                                                                   *)

LEMMA InitType == Init => TypeOK
BY NoneAssumption DEF Init, TypeOK, Statuses, RowType, NewRow, WorkType, Blank,
                      Reasons, Phases, Settled

LEMMA EnvType ==
  ASSUME TypeOK, NEW s \in Sha, Env(s) PROVE TypeOK'
<1> USE DEF TypeOK, github, table, queue, runs
<1>1. CASE Push(s)
  BY <1>1 DEF Push
<1>2. CASE Record(s)
  BY <1>2 DEF Record, Statuses
<1>3. CASE Send(s)
  BY <1>3 DEF Send, Unsent
<1>4. QED
  BY <1>1, <1>2, <1>3 DEF Env

LEMMA DeliverType ==
  ASSUME TypeOK, NEW w \in Slot, NEW s \in Sha, Deliver(w, s) PROVE TypeOK'
BY NoneAssumption DEF Deliver, Goto, TypeOK, Phases, Live, github, table

\* A busy slot has a commit to work on.
LEMMA Employed ==
  ASSUME TypeOK, NEW w \in Slot, pc[w] # "idle" PROVE job[w] \in Sha
BY DEF TypeOK

\* Writing a reason keeps the type of the locals.
LEMMA NoteType ==
  ASSUME work \in [Slot -> WorkType], NEW w \in Slot, NEW n \in Reasons
  PROVE  [work EXCEPT ![w].note = n] \in [Slot -> WorkType]
BY DEF WorkType

LEMMA StepType ==
  ASSUME TypeOK, NEW w \in Slot, Step(w) PROVE TypeOK'
<1> USE DEF TypeOK, Goto, Phases, Live, Pipeline, Fetching, github, table, queue
<1>1. ASSUME NEW reply \in BOOLEAN, Start(w, reply) PROVE TypeOK'
  BY <1>1, Employed DEF Start, Statuses
<1>2. CASE Pull(w)
  <2>1. work' \in [Slot -> WorkType]
    <3>1. CASE head # job[w]
      <4>1. work' = [work EXCEPT ![w].note = "superseded"]
        BY <1>2, <3>1 DEF Pull, Newer
      <4>2. QED
        BY <4>1, NoteType DEF Reasons, SkipReasons
    <3>2. CASE head = job[w]
      BY <1>2, <3>2 DEF Pull, Newer
    <3>3. QED
      BY <3>1, <3>2
  <2>2. pc' \in [Slot -> Phases] /\ \A v \in Slot : pc'[v] = "idle" <=> pc[v] = "idle"
    BY <1>2 DEF Pull, Newer
  <2>3. \A v \in Slot : pc[v] = "idle" => work'[v] = work[v]
    BY <1>2 DEF Pull, Newer
  <2>4. QED
    BY <1>2, <2>1, <2>2, <2>3 DEF Pull, Newer
<1>3. CASE Files(w)
  BY <1>3, Employed DEF Files, WorkType
<1>4. CASE Diff(w)
  BY <1>4, Employed DEF Diff, WorkType
<1>5. ASSUME NEW note \in Reasons, Contents(w, note) PROVE TypeOK'
  BY <1>5, Employed DEF Contents, WorkType
<1>6. CASE NotFound(w)
  BY <1>6, Employed DEF NotFound, WorkType, Reasons, SkipReasons
<1>7. ASSUME NEW refused \in BOOLEAN, Review(w, refused) PROVE TypeOK'
  <2>1. work' \in [Slot -> WorkType]
    BY <1>7 DEF Review, WorkType
  <2>2. spent' \in [Sha -> Nat]
    BY <1>7, Employed DEF Review
  <2>3. QED
    BY <1>7, <2>1, <2>2 DEF Review
<1>8. ASSUME NEW reply \in BOOLEAN, Persist(w, reply) PROVE TypeOK'
  <2>1. job[w] \in Sha /\ work[w] \in WorkType /\ row[job[w]] \in RowType
    BY <1>8, Employed DEF Persist, Verdict
  <2>2. row' \in [Sha -> RowType]
    BY <1>8, <2>1 DEF Persist, Verdict, RowType, WorkType
  <2>3. QED
    BY <1>8, <2>1, <2>2 DEF Persist, Verdict, Statuses, Settled
<1>9. ASSUME NEW reply \in BOOLEAN, Finish(w, reply) PROVE TypeOK'
  <2>1. job[w] \in Sha /\ work[w] \in WorkType /\ row[job[w]] \in RowType
    BY <1>9, Employed DEF Finish
  <2>2. row' \in [Sha -> RowType]
    BY <1>9, <2>1 DEF Finish, RowType, WorkType
  <2>3. QED
    BY <1>9, <2>1, <2>2 DEF Finish, Statuses, Settled
<1>10. CASE Fail(w)
  <2>1. job[w] \in Sha /\ row[job[w]] \in RowType
    BY <1>10, Employed DEF Fail, Failure
  <2>2. row' \in [Sha -> RowType]
    BY <1>10, <2>1 DEF Fail, Failure, RowType
  <2>3. QED
    BY <1>10, <2>1, <2>2 DEF Fail, Failure, Statuses, Settled
<1>11. CASE Raise(w)
  BY <1>11, Employed DEF Raise, Handler
<1>12. CASE Escape(w)
  BY <1>12, Employed DEF Escape
<1>13. CASE Return(w)
  BY <1>13, NoneAssumption DEF Return, Clear, WorkType, Blank, Reasons
<1>14. QED
  BY <1>1, <1>2, <1>3, <1>4, <1>5, <1>6, <1>7, <1>8, <1>9, <1>10, <1>11, <1>12,
     <1>13 DEF Step

LEMMA BrokerType ==
  ASSUME TypeOK, NEW w \in Slot, Broker(w) PROVE TypeOK'
<1> USE DEF TypeOK, Clear, Goto, Requeue, Phases, Live, Pipeline, Fetching, github, table
<1>1. CASE HardLimit(w)
  BY <1>1, Employed DEF HardLimit, WorkType, Blank, Reasons
<1>2. CASE WorkerLost(w)
  <2>1. job[w] \in Sha /\ Blank \in WorkType
    BY <1>2, Employed DEF WorkerLost, WorkType, Blank, Reasons
  <2>2. CASE holds[w]
    BY <1>2, <2>1, <2>2 DEF WorkerLost
  <2>3. CASE ~holds[w]
    BY <1>2, <2>1, <2>3 DEF WorkerLost
  <2>4. QED
    BY <2>2, <2>3
<1>3. CASE ConnectionLost(w)
  BY <1>3, Employed DEF ConnectionLost
<1>4. QED
  BY <1>1, <1>2, <1>3 DEF Broker

LEMMA TypeStep == TypeOK /\ [Next]_vars => TypeOK'
<1> SUFFICES ASSUME TypeOK, [Next]_vars PROVE TypeOK'
  OBVIOUS
<1>1. CASE RedisRestart
  BY <1>1 DEF RedisRestart, TypeOK, github, table
<1>2. CASE UNCHANGED vars
  BY <1>2 DEF vars, TypeOK
<1>3. QED
  BY <1>1, <1>2, EnvType, DeliverType, StepType, BrokerType DEF Next, WorkerNext, Env

\* Every variable keeps its type, and a slot has a job exactly when it is busy.
THEOREM Typing == Spec => []TypeOK
BY InitType, TypeStep, PTL DEF Spec

-----------------------------------------------------------------------------
(* What a step leaves alone.                                                *)

\* The slots other than w are as they were.
Others(w) == \A v \in Slot \ {w} : /\ pc'[v] = pc[v] /\ job'[v] = job[v]
                                   /\ holds'[v] = holds[v] /\ work'[v] = work[v]

\* The slot w is free.
Freed(w) == pc'[w] = "idle" /\ job'[w] = None /\ ~holds'[w]

\* A step of a run touches its own slot and its own review, and no message.
StepFrame(w) ==
  /\ Others(w)
  /\ UNCHANGED <<head, pushed, sent, ready, redelivered>>
  /\ \/ Freed(w) /\ UNCHANGED <<status, row, findings, spent, dropped>>
     \/ pc'[w] # "idle" /\ job' = job /\ holds' = holds
  /\ \A s \in Sha : s # job[w] =>
       /\ status'[s] = status[s] /\ row'[s] = row[s]
       /\ findings'[s] = findings[s] /\ spent'[s] = spent[s]
       /\ s \in dropped' <=> s \in dropped

LEMMA StepLocal ==
  ASSUME TypeOK, NEW w \in Slot, Step(w) PROVE StepFrame(w)
<1> USE DEF StepFrame, Others, Freed, TypeOK, Goto, github, table, queue
<1>1. ASSUME NEW reply \in BOOLEAN, Start(w, reply) PROVE StepFrame(w)
  BY <1>1 DEF Start
<1>2. CASE Pull(w)
  BY <1>2 DEF Pull, Newer
<1>3. CASE Files(w)
  BY <1>3 DEF Files
<1>4. CASE Diff(w)
  BY <1>4 DEF Diff
<1>5. ASSUME NEW note \in Reasons, Contents(w, note) PROVE StepFrame(w)
  BY <1>5 DEF Contents
<1>6. CASE NotFound(w)
  BY <1>6 DEF NotFound
<1>7. ASSUME NEW refused \in BOOLEAN, Review(w, refused) PROVE StepFrame(w)
  BY <1>7 DEF Review
<1>8. ASSUME NEW reply \in BOOLEAN, Persist(w, reply) PROVE StepFrame(w)
  BY <1>8 DEF Persist, Verdict
<1>9. ASSUME NEW reply \in BOOLEAN, Finish(w, reply) PROVE StepFrame(w)
  BY <1>9 DEF Finish
<1>10. CASE Fail(w)
  BY <1>10 DEF Fail, Failure
<1>11. CASE Raise(w)
  BY <1>11 DEF Raise, Handler
<1>12. CASE Escape(w)
  BY <1>12 DEF Escape
<1>13. CASE Return(w)
  BY <1>13 DEF Return, Clear
<1>14. QED
  BY <1>1, <1>2, <1>3, <1>4, <1>5, <1>6, <1>7, <1>8, <1>9, <1>10, <1>11, <1>12,
     <1>13 DEF Step

\* What Celery and Redis do to a slot leaves the tables alone: either the slot
\* is freed or its run goes on without its message, and the message is put
\* back (then counted as a redelivery) or not.
BrokerFrame(w) ==
  /\ pc[w] # "idle"
  /\ Others(w)
  /\ UNCHANGED <<head, pushed, status, row, findings, spent, sent>>
  /\ \/ Freed(w)
     \/ pc'[w] = pc[w] /\ job'[w] = job[w] /\ work'[w] = work[w] /\ ~holds'[w]
  /\ \/ /\ holds[w] /\ redelivered[job[w]] < MaxRedeliveries
        /\ ready' = [ready EXCEPT ![job[w]] = @ + 1]
        /\ redelivered' = [redelivered EXCEPT ![job[w]] = @ + 1]
        /\ UNCHANGED dropped
     \/ /\ Freed(w) /\ UNCHANGED <<ready, redelivered>>
        /\ dropped' = IF pc[w] \in Live THEN dropped \union {job[w]} ELSE dropped

LEMMA BrokerLocal ==
  ASSUME TypeOK, NEW w \in Slot, Broker(w) PROVE BrokerFrame(w)
<1> USE DEF BrokerFrame, Others, Freed, TypeOK, Clear, Goto, Requeue, github, table
<1>1. CASE HardLimit(w)
  BY <1>1 DEF HardLimit, Live, Pipeline, Fetching
<1>2. CASE WorkerLost(w)
  BY <1>2 DEF WorkerLost
<1>3. CASE ConnectionLost(w)
  BY <1>3 DEF ConnectionLost
<1>4. QED
  BY <1>1, <1>2, <1>3 DEF Broker

-----------------------------------------------------------------------------
(* One owner.                                                               *)

LEMMA OwnerStep == TypeOK /\ OneOwner /\ [Next]_vars => OneOwner'
<1> SUFFICES ASSUME TypeOK, OneOwner, [Next]_vars PROVE OneOwner'
  OBVIOUS
<1> USE DEF OneOwner, TypeOK
<1>1. ASSUME NEW s \in Sha, Env(s) PROVE OneOwner'
  <2>1. CASE Push(s)
    BY <2>1 DEF Push, table, queue, runs
  <2>2. CASE Record(s)
    BY <2>2 DEF Record, github, queue, runs
  <2>3. CASE Send(s)
    BY <2>3 DEF Send, Unsent, github, table, runs
  <2>4. QED
    BY <1>1, <2>1, <2>2, <2>3 DEF Env
<1>2. ASSUME NEW w \in Slot, NEW s \in Sha, Deliver(w, s) PROVE OneOwner'
  BY <1>2 DEF Deliver, Goto
<1>3. ASSUME NEW w \in Slot, Step(w) PROVE OneOwner'
  BY <1>3, StepLocal, NoneAssumption DEF StepFrame, Others, Freed
<1>4. ASSUME NEW w \in Slot, Broker(w) PROVE OneOwner'
  BY <1>4, BrokerLocal, NoneAssumption DEF BrokerFrame, Others, Freed
<1>5. CASE RedisRestart
  BY <1>5 DEF RedisRestart
<1>6. CASE UNCHANGED vars
  BY <1>6 DEF vars
<1>7. QED
  BY <1>1, <1>2, <1>3, <1>4, <1>5, <1>6 DEF Next, WorkerNext, Env

\* Unless its message is redelivered, no two runs of a review coexist.
THEOREM SingleOwner == Spec => []OneOwner
<1>1. Init => OneOwner
  BY NoneAssumption DEF Init, OneOwner
<1>2. QED
  BY <1>1, OwnerStep, Typing, PTL DEF Spec

-----------------------------------------------------------------------------
(* Rows come first, and only of commits that were pushed.                   *)

RowFirst == /\ head \in pushed
            /\ \A s \in Sha : status[s] # "absent" => s \in pushed
            /\ \A s \in Sha : status[s] = "absent" => sent[s] = 0 /\ ready[s] = 0
            /\ \A w \in Slot : pc[w] # "idle" => status[job[w]] # "absent"

\* No step of a run makes a row or unmakes one.
LEMMA StepKeepsRows ==
  ASSUME TypeOK, NEW w \in Slot, Step(w), pc[w] # "idle" => status[job[w]] # "absent"
  PROVE  \A s \in Sha : status'[s] = "absent" <=> status[s] = "absent"
BY Employed DEF TypeOK, Step, Start, Pull, Newer, Files, Diff, Contents, NotFound,
                Review, Persist, Verdict, Finish, Fail, Failure, Raise, Handler,
                Escape, Return, table

\* A run that takes a step has a job.
LEMMA StepIsBusy == ASSUME NEW w \in Slot, Step(w) PROVE pc[w] # "idle"
BY DEF Step, Start, Pull, Newer, Files, Diff, Contents, NotFound, Review, Persist,
       Verdict, Finish, Fail, Failure, Raise, Handler, Escape, Return, Pipeline, Live,
       Fetching

LEMMA RowFirstStep == TypeOK /\ RowFirst /\ [Next]_vars => RowFirst'
<1> SUFFICES ASSUME TypeOK, RowFirst, [Next]_vars PROVE RowFirst'
  OBVIOUS
<1> USE DEF RowFirst, TypeOK
<1>1. ASSUME NEW s \in Sha, Env(s) PROVE RowFirst'
  <2>1. CASE Push(s)
    BY <2>1 DEF Push, table, queue, runs
  <2>2. CASE Record(s)
    BY <2>2, Employed DEF Record, github, queue, runs
  <2>3. CASE Send(s)
    BY <2>3 DEF Send, Unsent, github, table, runs
  <2>4. QED
    BY <1>1, <2>1, <2>2, <2>3 DEF Env
<1>2. ASSUME NEW w \in Slot, NEW s \in Sha, Deliver(w, s) PROVE RowFirst'
  BY <1>2 DEF Deliver, Goto, github, table
<1>3. ASSUME NEW w \in Slot, Step(w) PROVE RowFirst'
  BY <1>3, StepLocal, StepKeepsRows, StepIsBusy, Employed DEF StepFrame, Others, Freed
<1>4. ASSUME NEW w \in Slot, Broker(w) PROVE RowFirst'
  BY <1>4, BrokerLocal, Employed DEF BrokerFrame, Others, Freed
<1>5. CASE RedisRestart
  BY <1>5 DEF RedisRestart, github, table
<1>6. CASE UNCHANGED vars
  BY <1>6 DEF vars
<1>7. QED
  BY <1>1, <1>2, <1>3, <1>4, <1>5, <1>6 DEF Next, WorkerNext, Env

LEMMA RowFirstHolds == Spec => []RowFirst
<1>1. Init => RowFirst
  BY DEF Init, RowFirst
<1>2. QED
  BY <1>1, RowFirstStep, Typing, PTL DEF Spec

-----------------------------------------------------------------------------
(* Nothing is left half done.                                               *)

\* A run with work left keeps it, settles its review, or records the loss.
LEMMA StepAccounts ==
  ASSUME TypeOK, RowFirst, NEW w \in Slot, Step(w), pc[w] \in Live
  PROVE  pc'[w] \in Live \/ status'[job[w]] \in Settled \/ job[w] \in dropped'
<1> USE DEF TypeOK, RowFirst, Goto, Live, Pipeline, Fetching, Settled
<1>1. ASSUME NEW reply \in BOOLEAN, Start(w, reply)
      PROVE pc'[w] \in Live \/ job[w] \in dropped'
  BY <1>1 DEF Start
<1>2. Pull(w) \/ Files(w) \/ Diff(w) \/ NotFound(w) \/ Raise(w) => pc'[w] \in Live
  BY DEF Pull, Newer, Files, Diff, NotFound, Raise, Handler
<1>3. ASSUME NEW note \in Reasons, Contents(w, note) PROVE pc'[w] \in Live
  BY <1>3 DEF Contents
<1>4. ASSUME NEW refused \in BOOLEAN, Review(w, refused) PROVE pc'[w] \in Live
  BY <1>4 DEF Review
<1>5. ASSUME NEW reply \in BOOLEAN, Persist(w, reply) PROVE status'[job[w]] \in Settled
  BY <1>5, Employed DEF Persist, Verdict
<1>6. ASSUME NEW reply \in BOOLEAN, Finish(w, reply) PROVE status'[job[w]] \in Settled
  BY <1>6, Employed DEF Finish
<1>7. CASE Fail(w)
  BY <1>7, Employed DEF Fail, Failure
<1>8. CASE Escape(w)
  BY <1>8 DEF Escape
<1>9. ~Return(w)
  BY DEF Return
<1>10. QED
  BY <1>1, <1>2, <1>3, <1>4, <1>5, <1>6, <1>7, <1>8, <1>9 DEF Step

\* A step that writes a status is the step of a run with work left.
LEMMA StepWrites ==
  ASSUME TypeOK, NEW w \in Slot, Step(w), pc[w] \notin Live PROVE UNCHANGED status
BY DEF Step, Start, Pull, Newer, Files, Diff, Contents, NotFound, Review, Persist,
       Verdict, Finish, Fail, Failure, Raise, Handler, Escape, Return, Pipeline, Live,
       Fetching, table

LEMMA AccountedStep == TypeOK /\ RowFirst /\ Accounted /\ [Next]_vars => Accounted'
<1> SUFFICES ASSUME TypeOK, RowFirst, Accounted, [Next]_vars PROVE Accounted'
  OBVIOUS
<1> USE DEF Accounted, Busy, TypeOK
<1>1. ASSUME NEW s \in Sha, Env(s) PROVE Accounted'
  <2>1. CASE Push(s)
    BY <2>1 DEF Push, table, queue, runs
  <2>2. CASE Record(s)
    BY <2>2 DEF Record, RowFirst, github, queue, runs
  <2>3. CASE Send(s)
    BY <2>3 DEF Send, Unsent, github, table, runs
  <2>4. QED
    BY <1>1, <2>1, <2>2, <2>3 DEF Env
<1>2. ASSUME NEW w \in Slot, NEW s \in Sha, Deliver(w, s) PROVE Accounted'
  <2>1. w \in Busy(s)' /\ \A t \in Sha : Busy(t) \subseteq Busy(t)'
    BY <1>2, NoneAssumption DEF Deliver, Goto, Live
  <2>2. \A t \in Sha : t # s => ready'[t] = ready[t]
    BY <1>2 DEF Deliver
  <2>3. UNCHANGED <<status, sent, dropped>>
    BY <1>2 DEF Deliver, table
  <2>4. QED
    BY <2>1, <2>2, <2>3
<1>3. ASSUME NEW w \in Slot, Step(w) PROVE Accounted'
  <2>1. StepFrame(w)
    BY <1>3, StepLocal
  <2>2. ASSUME NEW s \in Sha, s # job[w],
               status'[s] \in {"queued", "running"}
        PROVE  sent'[s] = 0 \/ ready'[s] > 0 \/ Busy(s)' # {} \/ s \in dropped'
    <3>1. \A v \in Busy(s) : v \in Busy(s)'
      BY <2>1, <2>2 DEF StepFrame, Others, Freed
    <3>2. QED
      BY <3>1, <2>1, <2>2 DEF StepFrame
  <2>3. ASSUME NEW s \in Sha, s = job[w], pc[w] \in Live, status'[s] \in {"queued", "running"}
        PROVE  s \in dropped' \/ w \in Busy(s)'
    <3>1. pc'[w] \in Live \/ s \in dropped'
      BY <1>3, <2>3, StepAccounts DEF Settled
    <3>2. pc'[w] \in Live => job'[w] = s
      BY <2>1, <2>3 DEF StepFrame, Freed, Live, Pipeline, Fetching
    <3>3. QED
      BY <3>1, <3>2
  <2>4. ASSUME NEW s \in Sha, s = job[w], pc[w] \notin Live, status'[s] \in {"queued", "running"}
        PROVE  sent'[s] = 0 \/ ready'[s] > 0 \/ Busy(s)' # {} \/ s \in dropped'
    <3>1. UNCHANGED status
      BY <1>3, <2>4, StepWrites
    <3>2. \A v \in Busy(s) : v \in Busy(s)'
      BY <2>1, <2>4 DEF StepFrame, Others
    <3>3. s \in dropped => s \in dropped'
      BY <1>3 DEF Step, Start, Pull, Newer, Files, Diff, Contents, NotFound, Review,
                  Persist, Verdict, Finish, Fail, Failure, Raise, Handler, Escape,
                  Return, queue
    <3>4. sent[s] = 0 \/ ready[s] > 0 \/ Busy(s) # {} \/ s \in dropped
      BY <3>1, <2>4
    <3>5. QED
      BY <3>2, <3>3, <3>4, <2>1 DEF StepFrame
  <2>5. ASSUME NEW s \in Sha, status'[s] \in {"queued", "running"}
        PROVE  sent'[s] = 0 \/ ready'[s] > 0 \/ Busy(s)' # {} \/ s \in dropped'
    <3>1. CASE s # job[w]
      BY <2>2, <2>5, <3>1
    <3>2. CASE s = job[w] /\ pc[w] \in Live
      BY <2>3, <2>5, <3>2
    <3>3. CASE s = job[w] /\ pc[w] \notin Live
      BY <2>4, <2>5, <3>3
    <3>4. QED
      BY <3>1, <3>2, <3>3
  <2>6. QED
    BY <2>5
<1>4. ASSUME NEW w \in Slot, Broker(w) PROVE Accounted'
  <2>1. BrokerFrame(w)
    BY <1>4, BrokerLocal
  <2>2. job[w] \in Sha
    BY <2>1, Employed DEF BrokerFrame
  <2>3. \A s \in Sha : ready'[s] >= ready[s] /\ (s \in dropped => s \in dropped')
    BY <2>1 DEF BrokerFrame
  <2>4. \A s \in Sha : \A v \in Busy(s) : v \in Busy(s)' \/ v = w
    BY <2>1 DEF BrokerFrame, Others
  <2>5. \A s \in Sha : w \in Busy(s) => ready'[s] > 0 \/ s \in dropped'
    BY <2>1, <2>2 DEF BrokerFrame
  <2>6. QED
    BY <2>1, <2>3, <2>4, <2>5 DEF BrokerFrame
<1>5. CASE RedisRestart
  BY <1>5 DEF RedisRestart, github, table
<1>6. CASE UNCHANGED vars
  BY <1>6 DEF vars
<1>7. QED
  BY <1>1, <1>2, <1>3, <1>4, <1>5, <1>6 DEF Next, WorkerNext, Env

\* No review is left queued or running without anybody having it.
THEOREM NothingStranded == Spec => []Accounted
<1>1. Init => Accounted
  BY DEF Init, Accounted
<1>2. QED
  BY <1>1, AccountedStep, RowFirstHolds, Typing, PTL DEF Spec

-----------------------------------------------------------------------------
(* What is superseded is history.                                           *)

\* A run that found its commit superseded works on a commit that is not the
\* head; with forward pushes alone that stays so, the commit being pushed.
Outdated == ~PushBack =>
  /\ \A s \in Sha : Superseded(s) => s # head
  /\ \A w \in Slot : work[w].note = "superseded" => pc[w] # "idle" /\ job[w] # head
  /\ \A w \in Slot : pc[w] \in {"review", "persist"} => work[w].note # "superseded"

LEMMA OutdatedStep == TypeOK /\ RowFirst /\ Outdated /\ [Next]_vars => Outdated'
<1> SUFFICES ASSUME TypeOK, RowFirst, Outdated, ~PushBack, [Next]_vars PROVE Outdated'
  BY DEF Outdated
<1> USE DEF Outdated, Superseded, TypeOK
<1>1. ASSUME NEW s \in Sha, Env(s) PROVE Outdated'
  <2>1. CASE Push(s)
    <3>1. \A t \in Sha : Superseded(t) => t \in pushed
      BY DEF RowFirst
    <3>2. \A w \in Slot : pc[w] # "idle" => job[w] \in pushed
      BY Employed DEF RowFirst
    <3>3. QED
      BY <2>1, <3>1, <3>2 DEF Push, table, queue, runs
  <2>2. CASE Record(s)
    BY <2>2 DEF Record, github, queue, runs
  <2>3. CASE Send(s)
    BY <2>3 DEF Send, Unsent, github, table, runs
  <2>4. QED
    BY <1>1, <2>1, <2>2, <2>3 DEF Env
<1>2. ASSUME NEW w \in Slot, NEW s \in Sha, Deliver(w, s) PROVE Outdated'
  BY <1>2, NoneAssumption DEF Deliver, Goto, github, table, Blank
<1>3. ASSUME NEW w \in Slot, Step(w) PROVE Outdated'
  <2>1. StepFrame(w) /\ pc[w] # "idle" /\ job[w] \in Sha
    BY <1>3, StepLocal, StepIsBusy, Employed
  <2>2. ASSUME NEW s \in Sha, s # job[w], Superseded(s)' PROVE s # head'
    BY <2>1, <2>2 DEF StepFrame
  <2>3. ASSUME NEW v \in Slot, v # w
        PROVE /\ work'[v].note = "superseded" => pc'[v] # "idle" /\ job'[v] # head'
              /\ pc'[v] \in {"review", "persist"} => work'[v].note # "superseded"
    BY <2>1, <2>3 DEF StepFrame, Others
  <2> DEFINE Good == /\ work'[w].note = "superseded" => pc'[w] # "idle" /\ job'[w] # head'
                     /\ pc'[w] \in {"review", "persist"} => work'[w].note # "superseded"
                     /\ \A s \in Sha : s = job[w] /\ Superseded(s)' => s # head'
  <2> USE DEF Goto, github, table, queue
  <2>4. ASSUME NEW reply \in BOOLEAN, Start(w, reply) PROVE Good
    BY <2>1, <2>4 DEF Start
  <2>5. CASE Pull(w)
    <3>1. CASE head # job[w]
      BY <2>1, <2>5, <3>1 DEF Pull, Newer
    <3>2. CASE head = job[w]
      BY <2>1, <2>5, <3>2 DEF Pull, Newer
    <3>3. QED
      BY <3>1, <3>2
  <2>6. Files(w) \/ Diff(w) \/ NotFound(w) \/ Escape(w) => Good
    BY <2>1 DEF Files, Diff, NotFound, Escape, WorkType
  <2>7. ASSUME NEW note \in Reasons, Contents(w, note) PROVE Good
    BY <2>1, <2>7 DEF Contents, PartialReasons
  <2>8. ASSUME NEW refused \in BOOLEAN, Review(w, refused) PROVE Good
    BY <2>1, <2>8 DEF Review, WorkType
  <2>9. ASSUME NEW reply \in BOOLEAN, Persist(w, reply) PROVE Good
    BY <2>1, <2>9 DEF Persist, Verdict, PartialReasons
  <2>10. ASSUME NEW reply \in BOOLEAN, Finish(w, reply) PROVE Good
    BY <2>1, <2>10 DEF Finish, RowType
  <2>11. CASE Fail(w)
    BY <2>1, <2>11 DEF Fail, Failure
  <2>12. CASE Raise(w)
    BY <2>1, <2>12 DEF Raise, Handler
  <2>13. CASE Return(w)
    BY <2>1, <2>13 DEF Return, Clear, Blank
  <2>14. Good
    BY <1>3, <2>4, <2>5, <2>6, <2>7, <2>8, <2>9, <2>10, <2>11, <2>12, <2>13 DEF Step
  <2>15. QED
    BY <2>2, <2>3, <2>14
<1>4. ASSUME NEW w \in Slot, Broker(w) PROVE Outdated'
  <2>1. BrokerFrame(w)
    BY <1>4, BrokerLocal
  <2>2. Freed(w) => work'[w] = Blank
    BY <1>4 DEF Broker, HardLimit, WorkerLost, ConnectionLost, Clear, Freed, Goto
  <2>3. QED
    BY <2>1, <2>2 DEF BrokerFrame, Others, Freed, Blank
<1>5. CASE RedisRestart
  BY <1>5 DEF RedisRestart, github, table
<1>6. CASE UNCHANGED vars
  BY <1>6 DEF vars
<1>7. QED
  BY <1>1, <1>2, <1>3, <1>4, <1>5, <1>6 DEF Next, WorkerNext, Env

\* While branches only move forward, no review of a head is superseded.
THEOREM SupersededHistory == Spec => []SupersededIsHistory
<1>1. Init => Outdated
  BY DEF Init, Outdated, Superseded, Blank
<1>2. Outdated => SupersededIsHistory
  BY DEF Outdated, SupersededIsHistory
<1>3. QED
  BY <1>1, <1>2, OutdatedStep, RowFirstHolds, Typing, PTL DEF Spec

-----------------------------------------------------------------------------
(* One story.                                                               *)

\* Where a run of a review that was not redelivered stands tells what has been
\* written and spent so far: the row is untouched up to the transaction that
\* settles it, and that transaction finds what it needs in the locals.
OnTrack(w) ==
  LET s == job[w]
  IN /\ pc[w] = "start" => status[s] = "queued"
     /\ pc[w] \in Pipeline => status[s] = "running"
     /\ pc[w] \in Fetching \union {"review", "finish"} => spent[s] = 0
     /\ pc[w] = "persist" => spent[s] = 1
     /\ pc[w] \in {"diff", "contents", "review", "persist"} => work[w].files # None
     /\ pc[w] \in {"contents", "review", "persist"} => work[w].diff # None
     /\ pc[w] \in {"review", "persist"} => work[w].note \in {"none"} \union PartialReasons
     /\ pc[w] = "finish" => /\ work[w].note \in SkipReasons
                            /\ work[w].note = "nothing_reviewable" => work[w].diff # None
     /\ pc[w] = "fail" => status[s] \in {"running", "completed", "partial", "skipped"}

Tracked(s) == /\ ready[s] > 0 => status[s] = "queued"
              /\ status[s] = "absent" => sent[s] = 0
              /\ \A w \in Slot : job[w] = s => OnTrack(w)
              /\ sent[s] = 0 => status[s] \in {"absent", "queued"}

Straight == \A s \in Sha : redelivered[s] = 0 => Story(s) /\ Tracked(s)

\* What a run does to its own review and its own locals.
LEMMA StepStraight ==
  ASSUME TypeOK, NEW w \in Slot, Step(w), NEW s \in Sha, s = job[w],
         Story(s), OnTrack(w), status[s] # "absent"
  PROVE  Story(s)' /\ (job'[w] = s => OnTrack(w)') /\ status'[s] # "absent"
<1> DEFINE Goal == Story(s)' /\ (job'[w] = s => OnTrack(w)') /\ status'[s] # "absent"
<1>0. StepFrame(w)
  BY StepLocal
<1> USE DEF TypeOK, Goto, Pipeline, Fetching, Story, OnTrack, github, table, queue
<1>1. ASSUME NEW reply \in BOOLEAN, Start(w, reply) PROVE Goal
  BY <1>1 DEF Start
<1>2. CASE Pull(w)
  <2>1. CASE head # job[w]
    <3>1. work' = [work EXCEPT ![w].note = "superseded"] /\ pc'[w] = "finish"
      BY <1>2, <2>1 DEF Pull, Newer
    <3>2. work'[w].note = "superseded"
      BY <3>1 DEF WorkType
    <3>3. pc[w] = "pull" /\ UNCHANGED <<job, status, row, findings, spent>>
      BY <1>2 DEF Pull, Newer
    <3>4. OnTrack(w)'
      BY <3>1, <3>2, <3>3 DEF SkipReasons
    <3>5. QED
      BY <3>3, <3>4
  <2>2. CASE head = job[w]
    BY <1>2, <2>2 DEF Pull, Newer
  <2>3. QED
    BY <2>1, <2>2
<1>3. CASE Files(w)
  BY <1>3, NoneAssumption DEF Files, WorkType
<1>4. CASE Diff(w)
  BY <1>4, NoneAssumption DEF Diff, WorkType
<1>5. ASSUME NEW note \in Reasons, Contents(w, note) PROVE Goal
  BY <1>5 DEF Contents, WorkType, SkipReasons, PartialReasons
<1>6. CASE NotFound(w)
  BY <1>6 DEF NotFound, WorkType, SkipReasons
<1>7. ASSUME NEW refused \in BOOLEAN, Review(w, refused) PROVE Goal
  BY <1>7 DEF Review, WorkType
<1>8. ASSUME NEW reply \in BOOLEAN, Persist(w, reply) PROVE Goal
  <2> DEFINE l == work[w]
             partial == l.note \in PartialReasons
  <2>1. /\ pc[w] = "persist" /\ status[s] = "running"
        /\ row[s] = NewRow /\ findings[s] = 0 /\ spent[s] = 1
        /\ l.files # None /\ l.diff # None /\ l.note \in {"none"} \union PartialReasons
    BY <1>8 DEF Persist, Verdict
  <2>2. l \in WorkType /\ row[s].error = "none"
    BY <2>1 DEF NewRow
  <2>3. row'[s] = [partial |-> partial, reason |-> l.note, finished |-> TRUE,
                   error |-> IF l.refused THEN "refusal" ELSE "none",
                   diff |-> l.diff, anchor |-> l.files]
    BY <1>8, <2>2 DEF Persist, Verdict
  <2>4. findings'[s] = (IF l.refused THEN 0 ELSE 1) /\ spent'[s] = 1
    BY <1>8, <2>1 DEF Persist, Verdict
  <2>5. status'[s] = (IF partial THEN "partial" ELSE "completed")
    BY <1>8 DEF Persist, Verdict
  <2>6. /\ row'[s].finished /\ row'[s].partial = partial /\ row'[s].reason = l.note
        /\ row'[s].error = (IF l.refused THEN "refusal" ELSE "none")
        /\ row'[s].diff # None /\ row'[s].anchor # None
    BY <2>1, <2>3
  <2>7. Story(s)'
    BY <2>1, <2>4, <2>5, <2>6
  <2>8. OnTrack(w)' /\ status'[s] # "absent"
    BY <1>8, <2>5 DEF Persist, Verdict
  <2>9. QED
    BY <2>7, <2>8
<1>9. ASSUME NEW reply \in BOOLEAN, Finish(w, reply) PROVE Goal
  BY <1>9, NoneAssumption DEF Finish, WorkType, RowType, NewRow, SkipReasons
<1>10. CASE Fail(w)
  BY <1>10 DEF Fail, Failure, RowType
<1>11. CASE Raise(w)
  BY <1>11 DEF Raise, Handler
<1>12. CASE Escape(w)
  BY <1>12 DEF Escape
<1>13. CASE Return(w)
  BY <1>13, NoneAssumption DEF Return, Clear
<1>14. QED
  BY <1>1, <1>2, <1>3, <1>4, <1>5, <1>6, <1>7, <1>8, <1>9, <1>10, <1>11, <1>12,
     <1>13 DEF Step

LEMMA StraightStep ==
  TypeOK /\ OneOwner /\ RowFirst /\ Straight /\ [Next]_vars => Straight'
<1> SUFFICES ASSUME TypeOK, OneOwner, RowFirst, Straight, [Next]_vars,
                    NEW s \in Sha, redelivered'[s] = 0
             PROVE  Story(s)' /\ Tracked(s)'
  BY DEF Straight
<1> USE DEF TypeOK, Tracked
<1>1. redelivered[s] = 0 => Story(s) /\ Tracked(s)
  BY DEF Straight
<1>2. ASSUME NEW t \in Sha, Env(t) PROVE Story(s)' /\ Tracked(s)'
  <2>1. CASE Push(t)
    BY <1>1, <2>1 DEF Push, Story, OnTrack, table, queue, runs
  <2>2. CASE Record(t)
    <3>1. redelivered[s] = 0
      BY <2>2 DEF Record, queue
    <3>2. t = s => \A w \in Slot : job[w] # s
      BY <2>2, NoneAssumption DEF Record, RowFirst
    <3>3. QED
      BY <1>1, <2>2, <3>1, <3>2 DEF Record, RowFirst, Story, OnTrack, github, queue, runs
  <2>3. CASE Send(t)
    <3>1. redelivered[s] = 0
      BY <2>3 DEF Send, Unsent
    <3>2. QED
      BY <1>1, <2>3, <3>1 DEF Send, Unsent, Story, OnTrack, github, table, runs
  <2>4. QED
    BY <1>2, <2>1, <2>2, <2>3 DEF Env
<1>3. ASSUME NEW w \in Slot, NEW t \in Sha, Deliver(w, t) PROVE Story(s)' /\ Tracked(s)'
  <2>1. redelivered[s] = 0 /\ UNCHANGED <<status, row, findings, spent, work>>
    BY <1>3 DEF Deliver, table
  <2>2. Story(s)'
    BY <1>1, <2>1 DEF Story
  <2>3. ASSUME NEW v \in Slot, job'[v] = s PROVE OnTrack(v)'
    <3>1. CASE v = w
      <4>1. pc'[v] = "start" /\ t = s /\ ready[s] > 0
        BY <1>3, <2>3, <3>1 DEF Deliver, Goto
      <4>2. QED
        BY <1>1, <2>1, <2>3, <4>1 DEF OnTrack, Pipeline, Fetching
    <3>2. CASE v # w
      BY <1>1, <1>3, <2>1, <2>3, <3>2 DEF Deliver, Goto, OnTrack
    <3>3. QED
      BY <3>1, <3>2
  <2>4. QED
    BY <1>1, <1>3, <2>1, <2>2, <2>3 DEF Deliver
<1>4. ASSUME NEW w \in Slot, Step(w) PROVE Story(s)' /\ Tracked(s)'
  <2>1. StepFrame(w) /\ pc[w] # "idle"
    BY <1>4, StepLocal, StepIsBusy
  <2>2. redelivered[s] = 0 /\ ready'[s] = ready[s] /\ sent'[s] = sent[s]
    BY <2>1 DEF StepFrame
  <2>3. CASE s # job[w]
    <3>1. /\ status'[s] = status[s] /\ row'[s] = row[s]
          /\ findings'[s] = findings[s] /\ spent'[s] = spent[s]
      BY <2>1, <2>3 DEF StepFrame
    <3>2. \A v \in Slot : job'[v] = s => v # w /\ job[v] = s /\ pc'[v] = pc[v] /\ work'[v] = work[v]
      BY <2>1, <2>3, NoneAssumption DEF StepFrame, Others, Freed
    <3>3. Story(s)'
      BY <1>1, <2>2, <3>1 DEF Story
    <3>4. ASSUME NEW v \in Slot, job'[v] = s PROVE OnTrack(v)'
      <4>1. OnTrack(v) /\ job[v] = s /\ pc'[v] = pc[v] /\ work'[v] = work[v]
        BY <1>1, <2>2, <3>2, <3>4
      <4>2. QED
        BY <3>1, <3>4, <4>1 DEF OnTrack
    <3>5. QED
      BY <1>1, <2>2, <3>1, <3>3, <3>4
  <2>4. CASE s = job[w]
    <3>1. OnTrack(w) /\ Story(s) /\ status[s] # "absent"
      BY <1>1, <2>1, <2>2, <2>4 DEF RowFirst
    <3>2. Story(s)' /\ (job'[w] = s => OnTrack(w)') /\ status'[s] # "absent"
      BY <1>4, <2>4, <3>1, StepStraight
    <3>3. \A v \in Slot : job'[v] = s => v = w
      BY <2>1, <2>2, <2>4, NoneAssumption DEF StepFrame, Others, Freed, OneOwner
    <3>4. ready[s] = 0 /\ sent[s] = 1
      BY <2>2, <2>4 DEF OneOwner
    <3>5. QED
      BY <2>2, <3>2, <3>3, <3>4
  <2>5. QED
    BY <2>3, <2>4
<1>5. ASSUME NEW w \in Slot, Broker(w) PROVE Story(s)' /\ Tracked(s)'
  <2>1. BrokerFrame(w)
    BY <1>5, BrokerLocal
  <2>2. redelivered[s] = 0 /\ ready'[s] = ready[s]
    BY <2>1, Employed DEF BrokerFrame
  <2>3. \A v \in Slot : job'[v] = s => job[v] = s /\ pc'[v] = pc[v] /\ work'[v] = work[v]
    BY <2>1, NoneAssumption DEF BrokerFrame, Others, Freed
  <2>4. UNCHANGED <<status, row, findings, spent, sent>>
    BY <2>1 DEF BrokerFrame
  <2>5. Story(s)'
    BY <1>1, <2>2, <2>4 DEF Story
  <2>6. ASSUME NEW v \in Slot, job'[v] = s PROVE OnTrack(v)'
    <3>1. OnTrack(v) /\ job[v] = s /\ pc'[v] = pc[v] /\ work'[v] = work[v]
      BY <1>1, <2>2, <2>3, <2>6
    <3>2. QED
      BY <2>4, <2>6, <3>1 DEF OnTrack
  <2>7. QED
    BY <1>1, <2>2, <2>4, <2>5, <2>6
<1>6. CASE RedisRestart
  <2>1. UNCHANGED <<status, row, findings, spent, sent, redelivered, pc, job, work>>
    BY <1>6 DEF RedisRestart, table
  <2>2. Story(s)' /\ ready'[s] = 0
    BY <1>1, <1>6, <2>1 DEF Story, RedisRestart
  <2>3. \A v \in Slot : OnTrack(v) => OnTrack(v)'
    BY <2>1 DEF OnTrack
  <2>4. QED
    BY <1>1, <2>1, <2>2, <2>3
<1>7. CASE UNCHANGED vars
  BY <1>1, <1>7 DEF vars, Story, OnTrack
<1>8. QED
  BY <1>2, <1>3, <1>4, <1>5, <1>6, <1>7 DEF Next, WorkerNext, Env

LEMMA StraightHolds == Spec => []Straight
<1>1. Init => Straight
  BY NoneAssumption DEF Init, Straight, Story, Tracked, OnTrack, Pipeline, Fetching
<1>2. QED
  BY <1>1, StraightStep, SingleOwner, RowFirstHolds, Typing, PTL DEF Spec

\* The columns of a review whose message was not redelivered agree.
THEOREM ConsistentRow == Spec => []OneStory
<1>1. Straight => OneStory
  BY DEF Straight, OneStory
<1>2. QED
  BY <1>1, StraightHolds, PTL

-----------------------------------------------------------------------------
(* The life of a row.                                                       *)

\* What the life of a row shows of it.
Told == Statuses \union {"reissued"}

\* What a row may become after a, as ReviewLifecycle has it.
After(a) == IF a = "absent" THEN {"queued"}
            ELSE IF a = "queued" THEN {"running"}
            ELSE IF a = "running" THEN Settled
            ELSE IF a \in {"completed", "partial", "skipped"} THEN {"failed"}
            ELSE {}

\* A step that moves one row, and counts no redelivery, is a step of its life,
\* or a stutter when the message of that row has been redelivered.
LEMMA LifeMoves ==
  ASSUME TypeOK, NEW s \in Sha, NEW t, status' = [status EXCEPT ![s] = t],
         UNCHANGED redelivered, redelivered[s] = 0 => t \in After(status[s])
  PROVE  [Life!Next]_LifeStatus
<1>1. CASE redelivered[s] = 0
  <2>1. /\ LifeStatus \in [Sha -> Told] /\ LifeStatus[s] = status[s]
        /\ LifeStatus' = [LifeStatus EXCEPT ![s] = t]
    BY <1>1 DEF LifeStatus, TypeOK, Told
  <2>2. t \in After(status[s])
    BY <1>1
  <2> HIDE DEF LifeStatus
  <2>3. QED
    BY <2>1, <2>2 DEF After, Settled, Life!Next, Life!Move, Life!Record, Life!Start,
                      Life!Settle, Life!Overrule, Life!Verdicts
<1>2. CASE redelivered[s] # 0
  BY <1>2 DEF LifeStatus, TypeOK
<1>3. QED
  BY <1>1, <1>2

\* The statuses a step of a run on track can write.
LEMMA StepLife ==
  ASSUME TypeOK, RowFirst, NEW w \in Slot, Step(w), OnTrack(w)
  PROVE  \/ UNCHANGED status
         \/ \E t \in After(status[job[w]]) : status' = [status EXCEPT ![job[w]] = t]
<1> DEFINE Goal == \/ UNCHANGED status
                   \/ \E t \in After(status[job[w]]) :
                        status' = [status EXCEPT ![job[w]] = t]
<1>0. job[w] \in Sha /\ status[job[w]] # "absent"
  BY StepIsBusy, Employed DEF RowFirst
<1> USE DEF After, Settled, Pipeline, Fetching
<1>1. ASSUME NEW reply \in BOOLEAN, Start(w, reply) PROVE Goal
  BY <1>0, <1>1 DEF Start, OnTrack
<1>2. ASSUME NEW reply \in BOOLEAN, Persist(w, reply) PROVE Goal
  BY <1>0, <1>2 DEF Persist, Verdict, OnTrack
<1>3. ASSUME NEW reply \in BOOLEAN, Finish(w, reply) PROVE Goal
  BY <1>0, <1>3 DEF Finish, OnTrack
<1>4. CASE Fail(w)
  <2>1. status' = [status EXCEPT ![job[w]] = "failed"]
    BY <1>4 DEF Fail, Failure
  <2>2. status[job[w]] \in {"running", "completed", "partial", "skipped"}
    BY <1>4 DEF Fail, Failure, OnTrack
  <2>3. QED
    BY <2>1, <2>2
<1>5. QED
  BY <1>1, <1>2, <1>3, <1>4 DEF Step, Pull, Newer, Files, Diff, Contents, NotFound,
                                Review, Raise, Handler, Escape, Return, table

\* A row lives the life ReviewLifecycle promises until its own message is
\* redelivered, however often the messages of other reviews are.
THEOREM ImplementsLifecycle == Spec => Lifecycle
<1>1. Init => Life!Init
  BY DEF Init, Life!Init, LifeStatus
<1>2. TypeOK /\ RowFirst /\ Straight /\ [Next]_vars => [Life!Next]_LifeStatus
  <2> SUFFICES ASSUME TypeOK, RowFirst, Straight, [Next]_vars
               PROVE  [Life!Next]_LifeStatus
    OBVIOUS
  <2>1. ASSUME NEW s \in Sha, Env(s) PROVE [Life!Next]_LifeStatus
    <3>1. CASE Record(s)
      BY <3>1, LifeMoves DEF Record, queue, After
    <3>2. CASE Push(s) \/ Send(s)
      BY <3>2 DEF Push, Send, Unsent, table, queue, LifeStatus
    <3>3. QED
      BY <2>1, <3>1, <3>2 DEF Env
  <2>2. ASSUME NEW w \in Slot, NEW s \in Sha, Deliver(w, s) PROVE UNCHANGED LifeStatus
    BY <2>2 DEF Deliver, table, LifeStatus
  <2>3. ASSUME NEW w \in Slot, Step(w) PROVE [Life!Next]_LifeStatus
    <3>1. StepFrame(w) /\ job[w] \in Sha
      BY <2>3, StepLocal, StepIsBusy, Employed
    <3>2. CASE redelivered[job[w]] = 0
      <4>1. OnTrack(w)
        BY <3>1, <3>2 DEF Straight, Tracked
      <4>2. CASE UNCHANGED status
        BY <3>1, <4>2 DEF StepFrame, LifeStatus
      <4>3. ASSUME NEW t \in After(status[job[w]]),
                   status' = [status EXCEPT ![job[w]] = t]
            PROVE  [Life!Next]_LifeStatus
        BY <3>1, <4>3, LifeMoves DEF StepFrame
      <4>4. QED
        BY <2>3, <4>1, <4>2, <4>3, StepLife
    <3>3. CASE redelivered[job[w]] # 0
      BY <3>1, <3>3 DEF StepFrame, LifeStatus
    <3>4. QED
      BY <3>2, <3>3
  <2>4. ASSUME NEW w \in Slot, Broker(w) PROVE [Life!Next]_LifeStatus
    <3> DEFINE s == job[w]
    <3>1. BrokerFrame(w) /\ s \in Sha /\ status[s] # "absent"
      BY <2>4, BrokerLocal, Employed DEF BrokerFrame, RowFirst
    <3>2. CASE UNCHANGED redelivered
      BY <3>1, <3>2 DEF BrokerFrame, LifeStatus
    <3>3. CASE redelivered' = [redelivered EXCEPT ![s] = @ + 1]
      <4>1. UNCHANGED status /\ redelivered'[s] # 0
        BY <3>1, <3>3 DEF BrokerFrame, TypeOK
      <4>2. CASE redelivered[s] = 0
        <5>1. /\ LifeStatus \in [Sha -> Told]
              /\ LifeStatus[s] \in {"queued", "running", "failed"} \union Life!Verdicts
              /\ LifeStatus' = [LifeStatus EXCEPT ![s] = "reissued"]
          <6>1. LifeStatus[s] = status[s] /\ LifeStatus \in [Sha -> Told]
            BY <3>1, <4>2 DEF LifeStatus, TypeOK, Told
          <6>2. \A u \in Sha : LifeStatus'[u] =
                                 IF u = s THEN "reissued" ELSE LifeStatus[u]
            BY <3>1, <3>3, <4>1 DEF LifeStatus, TypeOK
          <6>3. LifeStatus' = [LifeStatus EXCEPT ![s] = "reissued"]
            BY <6>2 DEF LifeStatus
          <6>4. QED
            BY <3>1, <6>1, <6>3 DEF TypeOK, Statuses, Settled, Life!Verdicts
        <5>2. QED
          BY <3>1, <5>1 DEF Life!Next, Life!Reissue, Life!Move
      <4>3. CASE redelivered[s] # 0
        BY <3>1, <3>3, <4>1, <4>3 DEF LifeStatus, TypeOK
      <4>4. QED
        BY <4>2, <4>3
    <3>4. QED
      BY <3>1, <3>2, <3>3 DEF BrokerFrame
  <2>5. RedisRestart \/ UNCHANGED vars => UNCHANGED LifeStatus
    BY DEF RedisRestart, vars, table, LifeStatus
  <2>6. QED
    BY <2>1, <2>2, <2>3, <2>4, <2>5 DEF Next, WorkerNext, Env
<1>3. QED
  BY <1>1, <1>2, StraightHolds, RowFirstHolds, Typing, PTL
     DEF Spec, Lifecycle, Life!Spec

-----------------------------------------------------------------------------
(* Counting messages, runs and bills.                                       *)

LEMMA NoMore ==
  ASSUME NEW S, NEW T, IsFiniteSet(S), T \subseteq S
  PROVE  /\ IsFiniteSet(T) /\ Cardinality(S) \in Nat /\ Cardinality(T) \in Nat
         /\ Cardinality(T) <= Cardinality(S)
BY FS_Subset, FS_CardinalityType

LEMMA OneLess ==
  ASSUME NEW S, NEW T, NEW x \in S, IsFiniteSet(S), T \subseteq S \ {x}
  PROVE  /\ IsFiniteSet(T) /\ Cardinality(S) \in Nat /\ Cardinality(T) \in Nat
         /\ Cardinality(T) + 1 <= Cardinality(S)
<1>1. IsFiniteSet(S \ {x}) /\ Cardinality(S \ {x}) = Cardinality(S) - 1
  BY FS_RemoveElement
<1>2. QED
  BY <1>1, NoMore, FS_CardinalityType

LEMMA OneMore ==
  ASSUME NEW S, NEW T, NEW x, IsFiniteSet(S), T \subseteq S \union {x}
  PROVE  /\ IsFiniteSet(T) /\ Cardinality(S) \in Nat /\ Cardinality(T) \in Nat
         /\ Cardinality(T) <= Cardinality(S) + 1
<1>1. /\ IsFiniteSet(S \union {x}) /\ Cardinality(S) \in Nat
      /\ Cardinality(S \union {x}) <= Cardinality(S) + 1
  <2>1. Cardinality(S) \in Nat
    BY FS_CardinalityType
  <2>2. /\ IsFiniteSet(S \union {x})
        /\ Cardinality(S \union {x}) = IF x \in S THEN Cardinality(S)
                                       ELSE Cardinality(S) + 1
    BY FS_AddElement
  <2>3. Cardinality(S \union {x}) <= Cardinality(S) + 1
    BY <2>1, <2>2
  <2>4. QED
    BY <2>1, <2>2, <2>3
<1>2. /\ IsFiniteSet(T) /\ Cardinality(T) \in Nat /\ Cardinality(S \union {x}) \in Nat
      /\ Cardinality(T) <= Cardinality(S \union {x})
  BY <1>1, NoMore
<1>3. QED
  BY <1>1, <1>2

\* The runs that may still call the model, and those that may store findings.
Owing(s)   == {w \in Slot : job[w] = s /\ pc[w] \in Fetching \union {"start", "review"}}
Writing(s) == {w \in Slot : job[w] = s /\ pc[w] = "persist"}

\* Every message is in one place; every message, run and bill of a review
\* comes from its publish or from a redelivery; findings are paid for first.
Ledger(s) ==
  /\ IsFiniteSet(Holders(s)) /\ IsFiniteSet(Owing(s)) /\ IsFiniteSet(Writing(s))
  /\ ready[s] + Cardinality(Holders(s)) <= sent[s]
  /\ sent[s] <= 1
  /\ ready[s] + Cardinality(Owing(s)) + spent[s] <= sent[s] + redelivered[s]
  /\ findings[s] + Cardinality(Writing(s)) <= spent[s]

Balanced == \A s \in Sha : Ledger(s)

\* How a step of a run changes its review's accounts.
LEMMA StepSpends ==
  ASSUME TypeOK, NEW w \in Slot, Step(w), NEW s \in Sha, s = job[w]
  PROVE  \/ /\ Owing(s)' \subseteq Owing(s) /\ Writing(s)' \subseteq Writing(s)
            /\ spent'[s] = spent[s] /\ findings'[s] = findings[s]
         \/ /\ w \in Owing(s) /\ Owing(s)' \subseteq Owing(s) \ {w}
            /\ Writing(s)' \subseteq Writing(s) \union {w}
            /\ spent'[s] = spent[s] + 1 /\ findings'[s] = findings[s]
         \/ /\ Owing(s)' \subseteq Owing(s)
            /\ w \in Writing(s) /\ Writing(s)' \subseteq Writing(s) \ {w}
            /\ spent'[s] = spent[s] /\ findings'[s] <= findings[s] + 1
<1> DEFINE Idle  == /\ Owing(s)' \subseteq Owing(s) /\ Writing(s)' \subseteq Writing(s)
                    /\ spent'[s] = spent[s] /\ findings'[s] = findings[s]
           Pays  == /\ w \in Owing(s) /\ Owing(s)' \subseteq Owing(s) \ {w}
                    /\ Writing(s)' \subseteq Writing(s) \union {w}
                    /\ spent'[s] = spent[s] + 1 /\ findings'[s] = findings[s]
           Saves == /\ Owing(s)' \subseteq Owing(s)
                    /\ w \in Writing(s) /\ Writing(s)' \subseteq Writing(s) \ {w}
                    /\ spent'[s] = spent[s] /\ findings'[s] <= findings[s] + 1
<1> USE DEF TypeOK, Owing, Writing, Goto, Fetching, Pipeline, table
<1>1. ASSUME NEW reply \in BOOLEAN, Start(w, reply) PROVE Idle
  BY <1>1 DEF Start
<1>2. Pull(w) \/ Files(w) \/ Diff(w) \/ NotFound(w) \/ Escape(w) => Idle
  BY DEF Pull, Newer, Files, Diff, NotFound, Escape
<1>3. ASSUME NEW note \in Reasons, Contents(w, note) PROVE Idle
  BY <1>3 DEF Contents
<1>4. ASSUME NEW refused \in BOOLEAN, Review(w, refused) PROVE Pays
  BY <1>4 DEF Review
<1>5. ASSUME NEW reply \in BOOLEAN, Persist(w, reply) PROVE Saves
  BY <1>5 DEF Persist, Verdict
<1>6. ASSUME NEW reply \in BOOLEAN, Finish(w, reply) PROVE Idle
  BY <1>6 DEF Finish
<1>7. CASE Fail(w)
  BY <1>7 DEF Fail, Failure
<1>8. CASE Raise(w)
  <2>1. CASE pc[w] = "review"
    BY <1>8, <2>1 DEF Raise, Handler
  <2>2. CASE pc[w] # "review"
    BY <1>8, <2>2 DEF Raise, Handler
  <2>3. QED
    BY <2>1, <2>2
<1>9. CASE Return(w)
  BY <1>9, NoneAssumption DEF Return, Clear
<1>10. QED
  BY <1>1, <1>2, <1>3, <1>4, <1>5, <1>6, <1>7, <1>8, <1>9 DEF Step

LEMMA BalancedStep == TypeOK /\ Balanced /\ [Next]_vars => Balanced'
<1> SUFFICES ASSUME TypeOK, Balanced, [Next]_vars, NEW s \in Sha PROVE Ledger(s)'
  BY DEF Balanced
<1> USE DEF TypeOK, Ledger
<1> DEFINE H == Holders(s)
           O == Owing(s)
           W == Writing(s)
<1>0. /\ Ledger(s)
      /\ Cardinality(H) \in Nat /\ Cardinality(O) \in Nat /\ Cardinality(W) \in Nat
  BY FS_CardinalityType DEF Balanced
<1>a. ASSUME ready'[s] <= ready[s], sent'[s] = sent[s], redelivered'[s] = redelivered[s],
             spent'[s] = spent[s], findings'[s] = findings[s],
             H' \subseteq H, O' \subseteq O, W' \subseteq W
      PROVE  Ledger(s)'
  <2>1. /\ IsFiniteSet(H') /\ Cardinality(H') \in Nat /\ Cardinality(H') <= Cardinality(H)
        /\ IsFiniteSet(O') /\ Cardinality(O') \in Nat /\ Cardinality(O') <= Cardinality(O)
        /\ IsFiniteSet(W') /\ Cardinality(W') \in Nat /\ Cardinality(W') <= Cardinality(W)
    BY <1>0, <1>a, NoMore
  <2>2. ready[s] \in Nat /\ ready'[s] \in Nat
    BY TypeStep
  <2>3. QED
    BY <1>0, <1>a, <2>1, <2>2
<1>1. ASSUME NEW t \in Sha, Env(t) PROVE Ledger(s)'
  <2>1. H' = H /\ O' = O /\ W' = W
    BY <1>1 DEF Env, Push, Record, Send, Unsent, runs, Holders, Owing, Writing
  <2>2. CASE Push(t) \/ Record(t)
    BY <1>a, <2>1, <2>2 DEF Push, Record, table, queue
  <2>3. CASE Send(t)
    BY <1>0, <2>1, <2>3 DEF Send, Unsent, table
  <2>4. QED
    BY <1>1, <2>2, <2>3 DEF Env
<1>2. ASSUME NEW w \in Slot, NEW t \in Sha, Deliver(w, t) PROVE Ledger(s)'
  <2>1. /\ UNCHANGED <<spent, findings, sent, redelivered>>
        /\ W' \subseteq W
    BY <1>2 DEF Deliver, Goto, table, Writing
  <2>2. CASE t # s
    <3>1. H' \subseteq H /\ O' \subseteq O /\ ready'[s] = ready[s]
      BY <1>2, <2>2 DEF Deliver, Goto, Holders, Owing
    <3>2. QED
      BY <1>a, <2>1, <3>1
  <2>3. CASE t = s
    <3>1. H' \subseteq H \union {w} /\ O' \subseteq O \union {w}
      BY <1>2 DEF Deliver, Goto, Holders, Owing
    <3>2. ready'[s] = ready[s] - 1
      BY <1>2, <2>3 DEF Deliver
    <3>3. /\ IsFiniteSet(H') /\ Cardinality(H') \in Nat /\ Cardinality(H') <= Cardinality(H) + 1
          /\ IsFiniteSet(O') /\ Cardinality(O') \in Nat /\ Cardinality(O') <= Cardinality(O) + 1
      BY <1>0, <3>1, OneMore
    <3>4. IsFiniteSet(W') /\ Cardinality(W') \in Nat /\ Cardinality(W') <= Cardinality(W)
      BY <1>0, <2>1, NoMore
    <3>5. QED
      BY <1>0, <2>1, <3>2, <3>3, <3>4
  <2>4. QED
    BY <2>2, <2>3
<1>3. ASSUME NEW w \in Slot, Step(w) PROVE Ledger(s)'
  <2>1. StepFrame(w)
    BY <1>3, StepLocal
  <2>2. H' \subseteq H /\ UNCHANGED <<ready, sent, redelivered>>
    BY <2>1, NoneAssumption DEF StepFrame, Others, Freed, Holders
  <2>3. CASE s # job[w]
    <3>1. O' \subseteq O /\ W' \subseteq W
      BY <2>1, <2>3, NoneAssumption DEF StepFrame, Others, Freed, Owing, Writing
    <3>2. QED
      BY <1>a, <2>1, <2>2, <2>3, <3>1 DEF StepFrame
  <2>4. CASE s = job[w]
    <3>0. IsFiniteSet(H') /\ Cardinality(H') \in Nat /\ Cardinality(H') <= Cardinality(H)
      BY <1>0, <2>2, NoMore
    <3>1. CASE /\ O' \subseteq O /\ W' \subseteq W
               /\ spent'[s] = spent[s] /\ findings'[s] = findings[s]
      BY <1>a, <2>2, <3>1
    <3>2. CASE /\ w \in O /\ O' \subseteq O \ {w} /\ W' \subseteq W \union {w}
               /\ spent'[s] = spent[s] + 1 /\ findings'[s] = findings[s]
      <4>1. IsFiniteSet(O') /\ Cardinality(O') \in Nat /\ Cardinality(O') + 1 <= Cardinality(O)
        BY <1>0, <3>2, OneLess
      <4>2. IsFiniteSet(W') /\ Cardinality(W') \in Nat /\ Cardinality(W') <= Cardinality(W) + 1
        BY <1>0, <3>2, OneMore
      <4>3. QED
        BY <1>0, <2>2, <3>0, <3>2, <4>1, <4>2
    <3>3. CASE /\ O' \subseteq O /\ w \in W /\ W' \subseteq W \ {w}
               /\ spent'[s] = spent[s] /\ findings'[s] <= findings[s] + 1
      <4>1. IsFiniteSet(O') /\ Cardinality(O') \in Nat /\ Cardinality(O') <= Cardinality(O)
        BY <1>0, <3>3, NoMore
      <4>2. IsFiniteSet(W') /\ Cardinality(W') \in Nat /\ Cardinality(W') + 1 <= Cardinality(W)
        BY <1>0, <3>3, OneLess
      <4>3. findings'[s] \in Nat
        BY TypeStep
      <4>4. QED
        BY <1>0, <2>2, <3>0, <3>3, <4>1, <4>2, <4>3
    <3>4. QED
      BY <1>3, <2>4, <3>1, <3>2, <3>3, StepSpends
  <2>5. QED
    BY <2>3, <2>4
<1>4. ASSUME NEW w \in Slot, Broker(w) PROVE Ledger(s)'
  <2>1. BrokerFrame(w) /\ job[w] \in Sha
    BY <1>4, BrokerLocal, Employed DEF BrokerFrame
  <2>2. H' \subseteq H \ {w} /\ O' \subseteq O /\ W' \subseteq W
    BY <2>1, NoneAssumption DEF BrokerFrame, Others, Freed, Holders, Owing, Writing
  <2>3. UNCHANGED <<spent, findings, sent>>
    BY <2>1 DEF BrokerFrame
  <2>4. CASE ready'[s] = ready[s] /\ redelivered'[s] = redelivered[s]
    BY <1>a, <2>2, <2>3, <2>4
  <2>5. CASE /\ s = job[w] /\ holds[w]
             /\ ready'[s] = ready[s] + 1 /\ redelivered'[s] = redelivered[s] + 1
    <3>1. w \in H
      BY <2>5 DEF Holders
    <3>2. IsFiniteSet(H') /\ Cardinality(H') \in Nat /\ Cardinality(H') + 1 <= Cardinality(H)
      BY <1>0, <2>2, <3>1, OneLess
    <3>3. /\ IsFiniteSet(O') /\ Cardinality(O') \in Nat /\ Cardinality(O') <= Cardinality(O)
          /\ IsFiniteSet(W') /\ Cardinality(W') \in Nat /\ Cardinality(W') <= Cardinality(W)
      BY <1>0, <2>2, NoMore
    <3>4. QED
      BY <1>0, <2>3, <2>5, <3>2, <3>3
  <2>6. QED
    BY <2>1, <2>4, <2>5 DEF BrokerFrame
<1>5. CASE RedisRestart
  <2>1. H' \subseteq H /\ O' = O /\ W' = W
    BY <1>5 DEF RedisRestart, Holders, Owing, Writing
  <2>2. QED
    BY <1>5, <1>a, <2>1 DEF RedisRestart, table
<1>6. CASE UNCHANGED vars
  <2>1. H' = H /\ O' = O /\ W' = W
    BY <1>6 DEF vars, Holders, Owing, Writing
  <2>2. QED
    BY <1>6, <1>a, <2>1 DEF vars
<1>7. QED
  BY <1>1, <1>2, <1>3, <1>4, <1>5, <1>6 DEF Next, WorkerNext, Env

LEMMA BalancedHolds == Spec => []Balanced
<1>1. Init => Balanced
  <2> SUFFICES ASSUME Init, NEW s \in Sha PROVE Ledger(s)
    BY DEF Balanced
  <2>1. Holders(s) = {} /\ Owing(s) = {} /\ Writing(s) = {}
    BY NoneAssumption DEF Init, Holders, Owing, Writing
  <2>2. QED
    BY <2>1, FS_EmptySet DEF Init, Ledger
<1>2. QED
  BY <1>1, BalancedStep, Typing, PTL DEF Spec

\* The message of a review is in one place, however often it is requeued.
THEOREM MessageConserved == Spec => []OneMessage
<1>1. Balanced => OneMessage
  BY DEF Balanced, Ledger, OneMessage
<1>2. QED
  BY <1>1, BalancedHolds, PTL

\* A review is paid for once, plus once per redelivery, and stores no more
\* findings than it paid for.
THEOREM BillBounded == Spec => []PaidOncePerDelivery
<1>1. TypeOK /\ Balanced => PaidOncePerDelivery
  <2> SUFFICES ASSUME TypeOK, Balanced, NEW s \in Sha
               PROVE  spent[s] <= 1 + redelivered[s] /\ findings[s] <= spent[s]
    BY DEF PaidOncePerDelivery
  <2>1. Ledger(s)
    BY DEF Balanced
  <2>2. Cardinality(Owing(s)) \in Nat /\ Cardinality(Writing(s)) \in Nat
    BY <2>1, FS_CardinalityType DEF Ledger
  <2>3. QED
    BY <2>1, <2>2 DEF Ledger, TypeOK
<1>2. QED
  BY <1>1, BalancedHolds, Typing, PTL

-----------------------------------------------------------------------------
(***************************************************************************)
(* The whole system.                                                       *)
(***************************************************************************)

IP == INSTANCE WebhookIntake_proofs WITH Key <- Sha, NoKey <- None

\* A handler works on a commit that has been pushed.
KeysPushed == \A d \in Delivery : phase[d] \in {"upsert", "commit", "enqueue"} =>
                                    key[d] \in pushed

SystemInv == TypeOK /\ RowFirst /\ IP!IInv /\ KeysPushed

-----------------------------------------------------------------------------
(* What is taken over from WebhookIntake_proofs.                            *)

LEMMA IntakeInvStep ==
  ASSUME IP!IInv, [IP!Next]_(IP!vars) PROVE IP!IInv'
BY RequestsAssumption, NoneAssumption, IP!InvStep
   DEF Intake!RequestType, IP!RequestType, Intake!HandledActions, IP!HandledActions

LEMMA IntakeInit == ASSUME Intake!Init PROVE IP!IInv
<1>1. IP!Init
  BY DEF Intake!Init, IP!Init
<1>2. QED
  BY <1>1, RequestsAssumption, NoneAssumption, IP!InitInv
     DEF Intake!RequestType, IP!RequestType, Intake!HandledActions, IP!HandledActions

\* The endpoint's step, seen by the theorems about the endpoint.
LEMMA EndpointIsIntake == ASSUME Endpoint PROVE IP!Next
<1>1. ASSUME NEW d \in Delivery, Arrive(d) PROVE \E r \in Request : IP!Receive(d, r)
  BY <1>1 DEF Arrive, Intake!Receive, Intake!KeyIn, IP!Receive, IP!KeyIn,
              Intake!Parse, Intake!Extract, IP!Parse, IP!Extract,
              Intake!HandledActions, IP!HandledActions
<1>2. ASSUME NEW d \in Delivery, Intake!Handle(d)
      PROVE IP!Upsert(d) \/ IP!Commit(d) \/ IP!Enqueue(d)
  BY <1>2 DEF Intake!Handle, Intake!Upsert, IP!Upsert, Intake!Commit,
              Intake!AfterCommit, IP!Commit, IP!AfterCommit, Intake!Enqueue,
              IP!Enqueue, Intake!Locked, IP!Locked, Intake!Insert, IP!Insert,
              Intake!Recorded, IP!Recorded
<1>3. ASSUME NEW d \in Delivery, NEW b \in BOOLEAN, Intake!DatabaseFails(d, b)
      PROVE IP!DatabaseFails(d, b)
  BY <1>3 DEF Intake!DatabaseFails, Intake!DatabaseError, IP!DatabaseFails,
              IP!DatabaseError, Intake!Insert, IP!Insert, Intake!Recorded, IP!Recorded
<1>4. ASSUME NEW d \in Delivery, NEW b \in BOOLEAN, Intake!EnqueueFails(d, b)
      PROVE IP!EnqueueFails(d, b)
  BY <1>4 DEF Intake!EnqueueFails, IP!EnqueueFails
<1>5. ASSUME Intake!Crash PROVE IP!Crash
  BY <1>5 DEF Intake!Crash, IP!Crash, Intake!Active, IP!Active
<1>6. QED
  BY <1>1, <1>2, <1>3, <1>4, <1>5 DEF Endpoint, IP!Next

-----------------------------------------------------------------------------
(* The endpoint is the workers' environment.                                *)

\* A step of the endpoint makes a row, publishes a message once, or does
\* nothing the workers can see.
LEMMA EndpointStep ==
  ASSUME SystemInv, Endpoint PROVE (\E s \in Sha : Record(s) \/ Send(s)) \/ UNCHANGED vars
<1> DEFINE Goal == (\E s \in Sha : Record(s) \/ Send(s)) \/ UNCHANGED vars
<1> USE DEF SystemInv, TypeOK
<1>1. /\ ready' = [s \in Sha |-> ready[s] + (sent'[s] - sent[s])]
      /\ UNCHANGED <<head, pushed, row, findings, spent, redelivered, dropped,
                     pc, job, holds, work>>
  BY DEF Endpoint, github, runs
<1>2. UNCHANGED sent => UNCHANGED ready
  <2> SUFFICES ASSUME UNCHANGED sent PROVE UNCHANGED ready
    OBVIOUS
  <2>1. \A s \in Sha : ready'[s] = ready[s]
    BY <1>1
  <2>2. QED
    BY <1>1, <2>1
<1>3. ASSUME UNCHANGED <<status, sent>> PROVE UNCHANGED vars
  BY <1>1, <1>2, <1>3 DEF vars
<1>4. ASSUME NEW s \in pushed, s \in Sha, status' = IP!Insert(s), UNCHANGED sent PROVE Goal
  <2>1. CASE status[s] = "absent"
    <3>1. Record(s)
      BY <1>1, <1>2, <1>4, <2>1 DEF Record, IP!Insert, IP!Recorded, github, queue, runs
    <3>2. QED
      BY <1>4, <3>1
  <2>2. CASE status[s] # "absent"
    <3>1. UNCHANGED status
      BY <1>4, <2>2 DEF IP!Insert, IP!Recorded
    <3>2. QED
      BY <1>3, <1>4, <3>1
  <2>3. QED
    BY <2>1, <2>2
<1>5. ASSUME NEW s \in Sha, status[s] # "absent", sent[s] = 0,
             sent' = [sent EXCEPT ![s] = @ + 1], UNCHANGED status
      PROVE  Goal
  <2>1. sent' = [sent EXCEPT ![s] = 1]
    BY <1>5
  <2>2. \A t \in Sha : ready'[t] = IF t = s THEN ready[t] + 1 ELSE ready[t]
    BY <1>1, <1>5
  <2>3. ready' = [ready EXCEPT ![s] = @ + 1]
    BY <1>1, <2>2
  <2>4. Send(s)
    BY <1>1, <1>5, <2>1, <2>3 DEF Send, Unsent, github, table, runs
  <2>5. QED
    BY <2>4
<1>6. IP!Next
  BY EndpointIsIntake
<1> USE DEF IP!IInv, IP!TypeOK, KeysPushed, IP!OnePublisher, IP!Recorded
<1>7. ASSUME NEW d \in Delivery, NEW r \in Request, IP!Receive(d, r) PROVE Goal
  BY <1>3, <1>7 DEF IP!Receive, IP!KeyIn
<1>8. ASSUME NEW d \in Delivery, IP!Upsert(d) PROVE Goal
  BY <1>3, <1>8 DEF IP!Upsert
<1>9. ASSUME NEW d \in Delivery, IP!Commit(d) PROVE Goal
  BY <1>4, <1>9 DEF IP!Commit, IP!AfterCommit, IP!Active
<1>10. ASSUME NEW d \in Delivery, IP!Enqueue(d) PROVE Goal
  BY <1>5, <1>10 DEF IP!Enqueue, IP!Active
<1>11. ASSUME NEW d \in Delivery, NEW b \in BOOLEAN, IP!DatabaseFails(d, b) PROVE Goal
  <2>1. key[d] \in Sha /\ key[d] \in pushed /\ UNCHANGED sent
    BY <1>11 DEF IP!DatabaseFails, IP!DatabaseError, IP!Active
  <2>2. status' = IP!Insert(key[d]) \/ UNCHANGED status
    BY <1>11 DEF IP!DatabaseFails, IP!DatabaseError
  <2>3. QED
    BY <1>3, <1>4, <2>1, <2>2
<1>12. ASSUME NEW d \in Delivery, NEW b \in BOOLEAN, IP!EnqueueFails(d, b) PROVE Goal
  <2>1. key[d] \in Sha /\ status[key[d]] # "absent" /\ sent[key[d]] = 0 /\ UNCHANGED status
    BY <1>12 DEF IP!EnqueueFails, IP!Active
  <2>2. sent' = [sent EXCEPT ![key[d]] = @ + 1] \/ UNCHANGED sent
    BY <1>12 DEF IP!EnqueueFails
  <2>3. QED
    BY <1>3, <1>5, <2>1, <2>2
<1>13. CASE IP!Crash
  BY <1>3, <1>13 DEF IP!Crash
<1>14. QED
  BY <1>6, <1>7, <1>8, <1>9, <1>10, <1>11, <1>12, <1>13 DEF IP!Next

\* Every step of the system is a step of ReviewTask.
LEMMA SystemStep ==
  ASSUME SystemInv, [SystemNext]_systemVars PROVE [Next]_vars
<1>1. CASE Endpoint
  BY <1>1, EndpointStep DEF Next
<1>2. CASE WorkerNext
  BY <1>2 DEF Next
<1>3. CASE UNCHANGED systemVars
  BY <1>3 DEF systemVars
<1>4. QED
  BY <1>1, <1>2, <1>3 DEF SystemNext

\* A step of the workers leaves rows in place and publishes nothing.
LEMMA WorkerKeeps ==
  ASSUME TypeOK, RowFirst, WorkerNext
  PROVE  /\ UNCHANGED sent
         /\ \A s \in Sha : status'[s] = "absent" <=> status[s] = "absent"
         /\ pushed \subseteq pushed'
<1>1. ASSUME NEW s \in Sha, Push(s) \/ \E w \in Slot : Deliver(w, s)
      PROVE UNCHANGED <<status, sent>> /\ pushed \subseteq pushed'
  BY <1>1 DEF Push, Deliver, github, table, queue
<1>2. ASSUME NEW w \in Slot, Step(w)
      PROVE /\ UNCHANGED <<sent, pushed>>
            /\ \A s \in Sha : status'[s] = "absent" <=> status[s] = "absent"
  BY <1>2, StepLocal, StepKeepsRows DEF StepFrame, RowFirst
<1>3. ASSUME NEW w \in Slot, Broker(w) PROVE UNCHANGED <<sent, status, pushed>>
  BY <1>3, BrokerLocal DEF BrokerFrame
<1>4. RedisRestart => UNCHANGED <<sent, status, pushed>>
  BY DEF RedisRestart, github, table
<1>5. QED
  BY <1>1, <1>2, <1>3, <1>4 DEF WorkerNext

\* ... so the endpoint's invariant does not notice it.
LEMMA WorkerKeepsIntake ==
  ASSUME SystemInv, WorkerNext, UNCHANGED intake PROVE IP!IInv' /\ KeysPushed'
<1>1. /\ UNCHANGED <<sent, phase, key, created, lost>> /\ pushed \subseteq pushed'
      /\ \A s \in Sha : status'[s] = "absent" <=> status[s] = "absent"
  BY WorkerKeeps DEF SystemInv, intake
<1>2. TypeOK'
  BY TypeStep DEF SystemInv, Next
<1> USE DEF SystemInv, IP!IInv, IP!TypeOK, IP!OneWriter, IP!OnePublisher, IP!RowFirst,
            IP!Recorded
<1>3. IP!TypeOK'
  BY <1>1, <1>2 DEF TypeOK, Statuses, Settled, IP!Statuses
<1>4. IP!OneWriter' /\ IP!OnePublisher' /\ IP!RowFirst'
  BY <1>1 DEF IP!Active
<1>5. QED
  BY <1>1, <1>3, <1>4 DEF KeysPushed

\* A handler's key comes from a commit that was pushed and never changes.
LEMMA EndpointKeys == ASSUME SystemInv, Endpoint PROVE KeysPushed'
<1> USE DEF SystemInv, KeysPushed
<1>1. UNCHANGED pushed
  BY DEF Endpoint, github
<1>2. ASSUME NEW d \in Delivery, Arrive(d) PROVE KeysPushed'
  <2>1. PICK r \in Request : r.key \in pushed /\ Intake!Receive(d, r)
    BY <1>2 DEF Arrive
  <2>2. /\ d \in DOMAIN phase /\ d \in DOMAIN key
        /\ \A e \in Delivery \ {d} : phase'[e] = phase[e] /\ key'[e] = key[e]
    BY <2>1 DEF Intake!Receive, Intake!KeyIn, IP!IInv, IP!TypeOK
  <2>3. Intake!Parse(r) \in Intake!Skipped \union {"upsert", "error"}
    BY DEF Intake!Parse, Intake!Extract, Intake!Skipped
  <2>4. Intake!Parse(r) = "upsert" => Intake!KeyIn(r) = r.key
    BY DEF Intake!Parse, Intake!Extract, Intake!KeyIn
  <2>5. phase'[d] \in {"upsert", "commit", "enqueue"} => key'[d] = r.key
    BY <2>1, <2>2, <2>3, <2>4 DEF Intake!Receive, Intake!Skipped, IP!IInv, IP!TypeOK
  <2>6. QED
    BY <1>1, <2>1, <2>2, <2>5
<1>3. ASSUME NEW d \in Delivery, Intake!Handle(d) PROVE KeysPushed'
  BY <1>1, <1>3 DEF Intake!Handle, Intake!Upsert, Intake!Commit, Intake!AfterCommit,
                    Intake!Enqueue, IP!IInv, IP!TypeOK
<1>4. ASSUME NEW d \in Delivery, NEW b \in BOOLEAN,
             Intake!DatabaseFails(d, b) \/ Intake!EnqueueFails(d, b)
      PROVE KeysPushed'
  BY <1>1, <1>4 DEF Intake!DatabaseFails, Intake!DatabaseError, Intake!EnqueueFails,
                    IP!IInv, IP!TypeOK
<1>5. Intake!Crash => KeysPushed'
  BY <1>1 DEF Intake!Crash, Intake!Active
<1>6. QED
  BY <1>2, <1>3, <1>4, <1>5 DEF Endpoint

LEMMA SystemInvHolds == SystemSpec => []SystemInv
<1>1. SystemInit => SystemInv
  BY IntakeInit, InitType DEF SystemInit, SystemInv, KeysPushed, RowFirst, Init,
                              Intake!Init
<1>2. SystemInv /\ [SystemNext]_systemVars => SystemInv'
  <2> SUFFICES ASSUME SystemInv, [SystemNext]_systemVars PROVE SystemInv'
    OBVIOUS
  <2>1. TypeOK' /\ RowFirst'
    BY SystemStep, TypeStep, RowFirstStep DEF SystemInv
  <2>2. CASE Endpoint
    BY <2>1, <2>2, EndpointIsIntake, IntakeInvStep, EndpointKeys DEF SystemInv
  <2>3. CASE WorkerNext /\ UNCHANGED intake
    BY <2>1, <2>3, WorkerKeepsIntake DEF SystemInv
  <2>4. CASE UNCHANGED systemVars
    <3>1. UNCHANGED IP!vars /\ UNCHANGED <<phase, key, pushed>>
      BY <2>4 DEF systemVars, vars, intake, IP!vars
    <3>2. QED
      BY <2>1, <3>1, IntakeInvStep DEF SystemInv, KeysPushed
  <2>5. QED
    BY <2>2, <2>3, <2>4 DEF SystemNext
<1>3. QED
  BY <1>1, <1>2, PTL DEF SystemSpec

\* The system implements the worker specification: every theorem about
\* ReviewTask is one about PRGuard.
THEOREM ImplementsReviewTask == SystemSpec => WorkersSeeTheirSpec
<1>1. SystemInit => Init
  BY DEF SystemInit
<1>2. SystemInv /\ [SystemNext]_systemVars => [Next]_vars
  BY SystemStep
<1>3. QED
  BY <1>1, <1>2, SystemInvHolds, PTL DEF SystemSpec, Spec, WorkersSeeTheirSpec

\* The task never misses its row: publishing comes after the commit.
THEOREM RowIsThere == SystemSpec => []NeverMissing
<1>1. SystemInv => NeverMissing
  BY DEF SystemInv, RowFirst, NeverMissing
<1>2. QED
  BY <1>1, SystemInvHolds, PTL

-----------------------------------------------------------------------------
(* No review is in nobody's hands.                                          *)

\* The endpoint's step accounts for what it recorded.
LEMMA IntakeAccountedStep ==
  ASSUME IP!IInv, IP!Accounted, [IP!Next]_(IP!vars) PROVE IP!Accounted'
BY RequestsAssumption, NoneAssumption, IP!AccountedStep
   DEF Intake!RequestType, IP!RequestType, Intake!HandledActions, IP!HandledActions

\* A recorded review is published, about to be, or its loss is on record: the
\* workers do not change that.
LEMMA IntakeAccounted == SystemSpec => []IP!Accounted
<1>1. SystemInit => IP!Accounted
  BY DEF SystemInit, Init, IP!Accounted, IP!Recorded
<1>2. SystemInv /\ IP!Accounted /\ [SystemNext]_systemVars => IP!Accounted'
  <2> SUFFICES ASSUME SystemInv, IP!Accounted, [SystemNext]_systemVars
               PROVE  IP!Accounted'
    OBVIOUS
  <2>1. CASE Endpoint
    BY <2>1, EndpointIsIntake, IntakeAccountedStep DEF SystemInv
  <2>2. CASE WorkerNext /\ UNCHANGED intake
    BY <2>2, WorkerKeeps DEF SystemInv, intake, IP!Accounted, IP!Recorded
  <2>3. CASE UNCHANGED systemVars
    BY <2>3 DEF systemVars, vars, intake, IP!Accounted, IP!Recorded
  <2>4. QED
    BY <2>1, <2>2, <2>3 DEF SystemNext
<1>3. QED
  BY <1>1, <1>2, SystemInvHolds, PTL DEF SystemSpec

\* For any deliveries, commits and workers: an unsettled review has a handler
\* that will publish it, a message, or a run, unless its loss is on record.  The
\* endpoint accounts for it until it is sent, the workers from then on.
THEOREM SomeHands == SystemSpec => []InSomeHands
<1>1. Accounted /\ IP!Accounted => InSomeHands
  <2> SUFFICES ASSUME Accounted, IP!Accounted,
                      NEW s \in Sha, status[s] \in {"queued", "running"},
                      ~ \E d \in Delivery : phase[d] = "enqueue" /\ key[d] = s,
                      s \notin lost
               PROVE  s \in dropped \/ ready[s] > 0 \/ Busy(s) # {}
    BY DEF InSomeHands
  <2>1. sent[s] = 1
    BY DEF IP!Accounted, IP!Recorded
  <2>2. QED
    BY <2>1 DEF Accounted
<1>2. Spec => []Accounted
  BY NothingStranded
<1>3. SystemSpec => Spec
  BY ImplementsReviewTask DEF WorkersSeeTheirSpec
<1>4. QED
  BY <1>1, <1>2, <1>3, IntakeAccounted, PTL

-----------------------------------------------------------------------------
(* What the two parts promise holds of the system.                          *)

\* What the endpoint answers stays true when workers write the same rows.
LEMMA IntakeAnswersStep ==
  ASSUME IP!IInv, IP!AnswersAreTrue, [IP!Next]_(IP!vars) PROVE IP!AnswersAreTrue'
BY RequestsAssumption, NoneAssumption, IP!AnswersStep
   DEF Intake!RequestType, IP!RequestType, Intake!HandledActions, IP!HandledActions

\* GitHub's deliveries get true answers while the workers rewrite the status the
\* endpoint reads: 202 queued once per commit with its message published, a
\* duplicate only when there is a row.  And a commit is published at most once.
THEOREM SystemAnswers == SystemSpec => [](IP!AnswersAreTrue /\ IP!AtMostOneSend)
<1>1. SystemInit => IP!AnswersAreTrue
  BY DEF SystemInit, Intake!Init, IP!AnswersAreTrue
<1>2. SystemInv /\ IP!AnswersAreTrue /\ [SystemNext]_systemVars => IP!AnswersAreTrue'
  <2> SUFFICES ASSUME SystemInv, IP!AnswersAreTrue, [SystemNext]_systemVars
               PROVE  IP!AnswersAreTrue'
    OBVIOUS
  <2>1. CASE Endpoint
    BY <2>1, EndpointIsIntake, IntakeAnswersStep DEF SystemInv
  <2>2. CASE WorkerNext /\ UNCHANGED intake
    <3>1. \A d \in Delivery : phase[d] \in {"queued", "duplicate"} => key[d] \in Sha
      BY DEF SystemInv, IP!IInv, IP!TypeOK
    <3>2. QED
      BY <2>2, <3>1, WorkerKeeps DEF SystemInv, intake, IP!AnswersAreTrue, IP!Recorded
  <2>3. CASE UNCHANGED systemVars
    BY <2>3 DEF systemVars, vars, intake, IP!AnswersAreTrue, IP!Recorded
  <2>4. QED
    BY <2>1, <2>2, <2>3 DEF SystemNext
<1>3. SystemInv => IP!AtMostOneSend
  BY DEF SystemInv, IP!IInv, IP!RowFirst, IP!AtMostOneSend
<1>4. QED
  BY <1>1, <1>2, <1>3, SystemInvHolds, PTL DEF SystemSpec

\* The promises of the worker, with the real endpoint in front of it and not the
\* environment ReviewTask assumes: one owner, one message and one bill per
\* delivery, rows that tell one story, no head called superseded, nothing
\* stranded, and the life of a row.
THEOREM SystemIsSafe ==
  SystemSpec => /\ [](OneOwner /\ OneMessage /\ PaidOncePerDelivery)
                /\ [](OneStory /\ SupersededIsHistory /\ Accounted)
                /\ Lifecycle
<1>1. SystemSpec => Spec
  BY ImplementsReviewTask DEF WorkersSeeTheirSpec
<1>2. QED
  BY <1>1, SingleOwner, MessageConserved, BillBounded, ConsistentRow,
     SupersededHistory, NothingStranded, ImplementsLifecycle, PTL
=============================================================================
