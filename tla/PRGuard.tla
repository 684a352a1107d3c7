------------------------------- MODULE PRGuard -------------------------------
(***************************************************************************)
(* The whole of PRGuard: the webhook endpoint of WebhookIntake in front of *)
(* the queue and the workers of ReviewTask.  They share the table reviews  *)
(* (status) and the queue: what the endpoint publishes, a worker receives. *)
(***************************************************************************)
EXTENDS ReviewTask

CONSTANTS Delivery, Request, SkipDrafts, SkipBots

VARIABLES phase, key, created, lost

Intake == INSTANCE WebhookIntake WITH Key <- Sha, NoKey <- None

ASSUME RequestsAssumption ==
  /\ Request \subseteq Intake!RequestType
  /\ SkipDrafts \in BOOLEAN /\ SkipBots \in BOOLEAN

intake    == <<phase, key, created, lost>>
systemVars == <<vars, intake>>

SystemInit == Init /\ Intake!Init

\* GitHub delivers events of commits that have been pushed.
Arrive(d) == \E r \in Request : r.key \in pushed /\ Intake!Receive(d, r)

\* A step of the endpoint: what it publishes is in the queue at once.
Endpoint == /\ \/ \E d \in Delivery : \/ Arrive(d)
                                      \/ Intake!Handle(d)
                                      \/ \E b \in BOOLEAN : Intake!DatabaseFails(d, b)
                                      \/ \E b \in BOOLEAN : Intake!EnqueueFails(d, b)
               \/ Intake!Crash
            /\ ready' = [s \in Sha |-> ready[s] + (sent'[s] - sent[s])]
            /\ UNCHANGED <<github, row, findings, spent, redelivered, dropped, runs>>

SystemNext == Endpoint \/ (WorkerNext /\ UNCHANGED intake)

SystemSpec == SystemInit /\ [][SystemNext]_systemVars

\* The fairness of the two parts: handlers, runs and the queue make progress.
SystemFairness ==
  /\ \A d \in Delivery : WF_systemVars(Endpoint /\ Intake!Handle(d))
  /\ \A w \in Slot : WF_systemVars(Step(w) /\ UNCHANGED intake)
  /\ \A s \in Sha : WF_systemVars((\E w \in Slot : Deliver(w, s)) /\ UNCHANGED intake)

FairSystemSpec == SystemSpec /\ SystemFairness

-----------------------------------------------------------------------------
\* A worker never looks for a row that is not there: the message is published
\* after the commit (webhooks.py:75-80), so the branch "missing" is dead.
NeverMissing == \A w \in Slot : pc[w] = "start" => status[job[w]] # "absent"

\* From the delivery to the verdict, an unsettled review is in somebody's hands
\* or its loss is on record: a handler is about to publish it or failed to, its
\* message waits, a run has it, or the run or Redis dropped it.
InSomeHands ==
  \A s \in Sha : status[s] \in {"queued", "running"} =>
    \/ \E d \in Delivery : phase[d] = "enqueue" /\ key[d] = s
    \/ s \in lost \union dropped
    \/ ready[s] > 0
    \/ Busy(s) # {}

\* GitHub was told "queued": the review is settled in the end, or was dropped.
QueuedIsSettled ==
  \A d \in Delivery, s \in Sha :
    phase[d] = "queued" /\ key[d] = s ~> (status[s] \in Settled \/ s \in dropped)

\* Seen from the workers, the endpoint is the environment ReviewTask assumes.
WorkersSeeTheirSpec == Spec
==============================================================================
