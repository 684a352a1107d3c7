---------------------------- MODULE WebhookIntake ----------------------------
(***************************************************************************)
(* The webhook endpoint, POST /webhooks/github (apps/api/routes/webhooks.py *)
(* with github/webhooks.py).                                               *)
(*                                                                         *)
(* Every delivery is handled by a coroutine of its own.  A handler yields  *)
(* at the insert, at the commit and between the commit and the publish, so *)
(* the handlers of several deliveries of one commit interleave at those    *)
(* points; each is an action here.  The insert of a row another handler    *)
(* has inserted and not committed waits for that handler's transaction.    *)
(* Any call to PostgreSQL or Redis may raise, and the process may die.     *)
(***************************************************************************)
EXTENDS Naturals

CONSTANTS Delivery,    \* deliveries GitHub makes, redeliveries included
          Key,         \* (repository_id, pr_number, head_sha) triples
          Request,     \* what a delivery can contain: see RequestType
          SkipDrafts,  \* settings.SKIP_DRAFT_PRS
          SkipBots,    \* settings.SKIP_BOT_AUTHORS
          NoKey        \* the key of a handler that parsed none

HandledActions == {"opened", "synchronize", "reopened"}

\* What the handler can tell apart in a request.  complete: the payload has
\* every field the extraction subscripts (installation.id, head.sha, ...).
RequestType ==
  [signed: BOOLEAN, json: BOOLEAN, event: {"pull_request", "other"},
   action: HandledActions \union {"closed"}, draft: BOOLEAN, bot: BOOLEAN,
   complete: BOOLEAN, key: Key]

ASSUME RequestAssumption == Request \subseteq RequestType
ASSUME NoKeyAssumption   == NoKey \notin Key
ASSUME SkipAssumption    == SkipDrafts \in BOOLEAN /\ SkipBots \in BOOLEAN

VARIABLES phase,   \* where the handler of each delivery stands, or its answer
          key,     \* the key it extracted from the payload
          created, \* the column "inserted" its upsert returned
          status,  \* reviews.status per key, "absent" when there is no row
          sent,    \* messages published per key
          lost     \* keys whose publish failed or was never reached

handlerVars == <<phase, key, created>>
vars == <<phase, key, created, status, sent, lost>>

Active   == {"upsert", "commit", "enqueue"}
Skipped  == {"unhandled_event", "unhandled_action", "draft", "bot_author"}
Answered == Skipped \union
            {"unauthorized", "malformed", "error", "queued", "duplicate", "dropped"}
Statuses == {"absent", "queued", "running", "completed", "partial", "failed", "skipped"}

Recorded(k) == status[k] # "absent"

Init == /\ phase   = [d \in Delivery |-> "new"]
        /\ key     = [d \in Delivery |-> NoKey]
        /\ created = [d \in Delivery |-> FALSE]
        /\ status  = [k \in Key |-> "absent"]
        /\ sent    = [k \in Key |-> 0]
        /\ lost    = {}

-----------------------------------------------------------------------------
\* Mutant: the fields are read with .get.
Extract_lenient(r) == "upsert"

\* The fields are subscripted: one that is missing raises and becomes a 500.
Extract(r) == IF r.complete THEN "upsert" ELSE "error"
KeyIn(r)   == IF r.complete THEN r.key ELSE NoKey

\* parse_pull_request_event: the first reason that applies, in the order the
\* code tests them.
Parse(r) ==
  CASE r.event # "pull_request"         -> "unhandled_event"
    [] /\ r.event = "pull_request"
       /\ r.action \notin HandledActions -> "unhandled_action"
    [] /\ r.event = "pull_request"
       /\ r.action \in HandledActions
       /\ SkipDrafts /\ r.draft         -> "draft"
    [] /\ r.event = "pull_request"
       /\ r.action \in HandledActions
       /\ ~(SkipDrafts /\ r.draft)
       /\ SkipBots /\ r.bot             -> "bot_author"
    [] OTHER                            -> Extract(r)

\* The part of github_webhook that runs before the first database call:
\* signature before JSON, JSON before parsing.
Receive(d, r) ==
  LET answer == IF ~r.signed THEN "unauthorized"
                ELSE IF ~r.json THEN "malformed" ELSE Parse(r)
  IN /\ phase[d] = "new"
     /\ phase' = [phase EXCEPT ![d] = answer]
     /\ key' = [key EXCEPT ![d] = IF answer = "upsert" THEN KeyIn(r) ELSE NoKey]
     /\ UNCHANGED <<created, status, sent, lost>>

\* Mutant: the table has no unique constraint to serialise the inserts.
Locked_never(k) == FALSE

\* Some transaction has written the row of k and not committed: the unique
\* index (for an insert) or the row lock (for an update) makes a second
\* INSERT ... ON CONFLICT of k wait.
Locked(k) == \E e \in Delivery : phase[e] = "commit" /\ key[e] = k

\* Mutant: the test of xmax is the wrong way round.
Upsert_inverted(d) == /\ phase[d] = "upsert"
                      /\ ~Locked(key[d])
                      /\ created' = [created EXCEPT ![d] = Recorded(key[d])]
                      /\ phase' = [phase EXCEPT ![d] = "commit"]
                      /\ UNCHANGED <<key, status, sent, lost>>

\* _upsert_review: (xmax = 0) tells whether the row is new.
Upsert(d) == /\ phase[d] = "upsert"
             /\ ~Locked(key[d])
             /\ created' = [created EXCEPT ![d] = ~Recorded(key[d])]
             /\ phase' = [phase EXCEPT ![d] = "commit"]
             /\ UNCHANGED <<key, status, sent, lost>>

\* What the commit makes visible: a fresh row is queued, an old one only has
\* its updated_at touched.
Insert(k) == [status EXCEPT ![k] = IF Recorded(k) THEN @ ELSE "queued"]

\* Mutants: "if not created"; every delivery publishes, a duplicate too.
AfterCommit_swapped(d) == IF created[d] THEN "duplicate" ELSE "enqueue"
AfterCommit_always(d)  == "enqueue"

\* "if created"
AfterCommit(d) == IF created[d] THEN "enqueue" ELSE "duplicate"

\* session.commit(), and the branch on created.
Commit(d) ==
  /\ phase[d] = "commit"
  /\ status' = Insert(key[d])
  /\ phase' = [phase EXCEPT ![d] = AfterCommit(d)]
  /\ UNCHANGED <<key, created, sent, lost>>

\* _enqueue: send_task returned.
Enqueue(d) == /\ phase[d] = "enqueue"
              /\ sent' = [sent EXCEPT ![key[d]] = @ + 1]
              /\ phase' = [phase EXCEPT ![d] = "queued"]
              /\ UNCHANGED <<key, created, status, lost>>

\* Mutant: the error is swallowed and the handler publishes all the same.
DatabaseError_swallowed == "enqueue"

\* No handler of the exception: FastAPI answers 500.
DatabaseError == "error"

\* A call to PostgreSQL raises: the answer is a 500 and the session rolls
\* back, unless the commit was applied and only its reply was lost.
DatabaseFails(d, applied) ==
  /\ phase[d] \in {"upsert", "commit"}
  /\ applied => phase[d] = "commit"
  /\ phase' = [phase EXCEPT ![d] = DatabaseError]
  /\ status' = IF applied THEN Insert(key[d]) ELSE status
  /\ lost' = IF applied /\ created[d] THEN lost \union {key[d]} ELSE lost
  /\ UNCHANGED <<key, created, sent>>

\* send_task raises: the answer is a 500.  The message may be in the queue all
\* the same, when only the reply of Redis was lost.
EnqueueFails(d, stored) ==
  /\ phase[d] = "enqueue"
  /\ phase' = [phase EXCEPT ![d] = "error"]
  /\ sent' = IF stored THEN [sent EXCEPT ![key[d]] = @ + 1] ELSE sent
  /\ lost' = IF stored THEN lost ELSE lost \union {key[d]}
  /\ UNCHANGED <<key, created, status>>

\* The API process dies: its handlers vanish and open transactions roll back.
\* (A commit PostgreSQL applied before the process died is
\* DatabaseFails(d, TRUE) followed by this step.)
Crash ==
  /\ \E d \in Delivery : phase[d] \in Active
  /\ phase' = [d \in Delivery |-> IF phase[d] \in Active THEN "dropped" ELSE phase[d]]
  /\ lost' = lost \union {key[d] : d \in {e \in Delivery : phase[e] = "enqueue"}}
  /\ UNCHANGED <<key, created, status, sent>>

Handle(d) == Upsert(d) \/ Commit(d) \/ Enqueue(d)

Next == \/ \E d \in Delivery : \/ \E r \in Request : Receive(d, r)
                               \/ Upsert(d)
                               \/ Commit(d)
                               \/ Enqueue(d)
                               \/ \E b \in BOOLEAN : DatabaseFails(d, b)
                               \/ \E b \in BOOLEAN : EnqueueFails(d, b)
        \/ Crash

Spec == Init /\ [][Next]_vars

\* A handler that can take its next step eventually takes it (the event loop
\* runs every coroutine), or fails, or dies with the process.
Fairness == \A d \in Delivery : WF_vars(Handle(d))

FairSpec == Spec /\ Fairness

-----------------------------------------------------------------------------
\* Every variable keeps its type; a handler past parsing has a key.
TypeOK == /\ phase \in [Delivery -> {"new"} \union Active \union Answered]
          /\ key \in [Delivery -> Key \union {NoKey}]
          /\ created \in [Delivery -> BOOLEAN]
          /\ status \in [Key -> Statuses]
          /\ sent \in [Key -> Nat]
          /\ lost \subseteq Key
          /\ \A d \in Delivery :
               phase[d] \in Active \union {"queued", "duplicate"} => key[d] \in Key

\* However many deliveries of a commit race, fail and are redelivered, the
\* commit is published at most once: one review is paid for, not several.
AtMostOneSend == \A k \in Key : sent[k] <= 1

\* A recorded review is never forgotten silently: it has been published, or
\* the handler that created it is about to, or that very handler failed.
Accounted ==
  \A k \in Key : Recorded(k) =>
    \/ sent[k] = 1
    \/ k \in lost
    \/ \E d \in Delivery : phase[d] = "enqueue" /\ key[d] = k

\* What a 202 tells GitHub is true: "queued" is answered by one delivery of a
\* commit only, and then the message is out; "duplicate" only when the row exists.
AnswersAreTrue ==
  \A d \in Delivery :
    /\ phase[d] = "queued" =>
         /\ sent[key[d]] = 1
         /\ \A e \in Delivery \ {d} : phase[e] = "queued" => key[e] # key[d]
    /\ phase[d] = "duplicate" => Recorded(key[d])

\* Every recorded review is published, unless its handler failed: nothing else
\* between the commit and the publish can hold it back.
RecordedIsSent ==
  \A k \in Key : Recorded(k) ~> (sent[k] = 1 \/ k \in lost)

\* The comment on the duplicate branch (webhooks.py:91): the commit is "already
\* being reviewed".  It is not, when the publish of the delivery that recorded it
\* failed.
DuplicateMeansQueued ==
  \A d \in Delivery : phase[d] = "duplicate" => key[d] \notin lost

-----------------------------------------------------------------------------
\* The endpoint implements Admission.
A == INSTANCE Admission WITH recorded <- {k \in Key : Recorded(k)}
Admitted == A!Spec
==============================================================================
