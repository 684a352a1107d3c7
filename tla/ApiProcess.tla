----------------------------- MODULE ApiProcess ------------------------------
(***************************************************************************)
(* The API process (apps/api/main.py, db/session.py): the webhook handlers  *)
(* of WebhookIntake and one readiness probe, GET /health, as coroutines of  *)
(* one event loop over one pool of database connections.                    *)
(*                                                                         *)
(* A handler takes a connection at its first statement and gives it back at *)
(* the commit or the rollback.  Its publish is a synchronous call: while it *)
(* lasts no coroutine runs and no timer fires.  What PostgreSQL does in the *)
(* meantime counts when the loop next sees it.  Time passes by Tick, in a   *)
(* blocked loop too, and is counted up to the timeout of a probe.  Left     *)
(* out: a Redis that neither answers nor breaks the connection, which would *)
(* hold the publish forever.                                                *)
(***************************************************************************)
EXTENDS WebhookIntake, FiniteSets

CONSTANTS PoolSize,   \* pool_size + max_overflow
          Timeout,    \* CHECK_TIMEOUT_SECONDS, in ticks
          Nobody      \* no handler is publishing

ASSUME PoolAssumption    == PoolSize \in Nat \ {0} /\ IsFiniteSet(Delivery)
ASSUME TimingAssumption  == Timeout \in Nat
ASSUME NobodyAssumption  == Nobody \notin Delivery

VARIABLES open,    \* the handlers that hold a connection
          blocked, \* the handler inside send_task, if there is one
          check,   \* where the probe's two checks stand
          waited,  \* ticks since the probe started, up to its timeout
          health   \* the answer to the last probe

probe   == <<check, waited, health>>
apiVars == <<vars, open, blocked, probe>>

Idle    == [database |-> "idle", redis |-> "idle"]
Probing == check # Idle
Ended   == {"ok", "error"}

ApiInit == /\ Init
           /\ open    = {}
           /\ blocked = Nobody
           /\ check   = Idle
           /\ waited  = 0
           /\ health  = "none"

LoopRuns == blocked = Nobody

-----------------------------------------------------------------------------
\* The pool: what handlers and the database check hold is bounded.
InUse == Cardinality(open) + (IF check.database \in {"busy", "closing"} THEN 1 ELSE 0)
Room  == InUse < PoolSize

\* Mutant: the session of a failed request is not closed.
Close_leaks(d) == IF phase'[d] = "error" THEN open ELSE open \ {d}

\* Leaving "async with get_sessionmaker()()": the connection goes back.
Close(d) == open \ {d}

\* The first statement of the session checks a connection out.
Connect(d) == /\ LoopRuns
              /\ phase[d] = "upsert"
              /\ d \notin open
              /\ Room
              /\ open' = open \union {d}
              /\ UNCHANGED <<vars, blocked, probe>>

\* Reading the request, or the insert on the connection checked out.
Arrive(d) == /\ LoopRuns
             /\ \/ \E r \in Request : Receive(d, r)
                \/ d \in open /\ Upsert(d)
             /\ UNCHANGED <<open, blocked, probe>>

\* The commit, or an error of PostgreSQL or of the pool (no connection
\* within pool_timeout): the session ends.
Leave(d) == /\ LoopRuns
            /\ Commit(d) \/ \E applied \in BOOLEAN : DatabaseFails(d, applied)
            /\ open' = Close(d)
            /\ UNCHANGED <<blocked, probe>>

\* _enqueue calls send_task, which does not yield.
Publish(d) == /\ LoopRuns
              /\ phase[d] = "enqueue"
              /\ blocked' = d
              /\ UNCHANGED <<vars, open, probe>>

\* send_task returns or raises, and the handler answers.
Published(d) == /\ blocked = d
                /\ Enqueue(d) \/ \E stored \in BOOLEAN : EnqueueFails(d, stored)
                /\ blocked' = Nobody
                /\ UNCHANGED <<open, probe>>

\* The process dies, and with it the pool and the probe.
Die == /\ Crash
       /\ open'    = {}
       /\ blocked' = Nobody
       /\ check'   = Idle
       /\ waited'  = 0
       /\ health'  = "none"

-----------------------------------------------------------------------------
\* health: gather starts _check_database and _check_redis.
Probe == /\ LoopRuns
         /\ ~Probing
         /\ check'  = [database |-> "wait", redis |-> "busy"]
         /\ waited' = 0
         /\ health' = "none"
         /\ UNCHANGED <<vars, open, blocked>>

Becomes(c, state) == /\ check' = [check EXCEPT ![c] = state]
                     /\ UNCHANGED <<vars, open, blocked, waited, health>>

\* _check_database gets its connection.
Checkout == /\ LoopRuns
            /\ check.database = "wait"
            /\ Room
            /\ Becomes("database", "busy")

\* SELECT 1 or PING answered, or raised; the connection goes back with it.
Answer(c) == /\ LoopRuns
             /\ check[c] = "busy"
             /\ \E state \in Ended : Becomes(c, state)

\* Mutant: the checks run without asyncio.timeout.
Due_never(c) == FALSE

\* The deadline of a check has passed.
Due(c) == check[c] \in {"wait", "busy"} /\ waited >= Timeout

\* asyncio.timeout cancels the check: it counts as an error, once the session of
\* a statement that was under way is closed.
Expire(c) == /\ LoopRuns
             /\ Due(c)
             /\ Becomes(c, IF c = "database" /\ check[c] = "busy" THEN "closing" ELSE "error")

\* The driver has cancelled the statement, and its connection goes back.
Cleanup == /\ LoopRuns
           /\ check.database = "closing"
           /\ Becomes("database", "error")

\* Both checks have ended: 200 when both are ok, 503 otherwise.
Respond == /\ LoopRuns
           /\ \A c \in DOMAIN check : check[c] \in Ended
           /\ health' = IF \A c \in DOMAIN check : check[c] = "ok"
                        THEN "ok" ELSE "degraded"
           /\ check' = Idle
           /\ waited' = 0
           /\ UNCHANGED <<vars, open, blocked>>

\* The clock: what is due is done when the loop comes to it, and not before.
Tick == /\ Probing
        /\ waited < Timeout
        /\ waited' = waited + 1
        /\ UNCHANGED <<vars, open, blocked, check, health>>

-----------------------------------------------------------------------------
Coroutine(d) == Connect(d) \/ Arrive(d) \/ Leave(d) \/ Publish(d) \/ Published(d)

ProbeStep == \/ Probe \/ Checkout \/ Cleanup \/ Respond \/ Tick
             \/ \E c \in DOMAIN check : Answer(c) \/ Expire(c)

ApiNext == Die \/ ProbeStep \/ \E d \in Delivery : Coroutine(d)

ApiSpec == ApiInit /\ [][ApiNext]_apiVars

\* The loop resumes every coroutine that is ready, PostgreSQL grants row locks
\* and send_task returns or raises, so no handler is held up for ever.  The
\* pool serves its waiters first come first served: one that finds room again
\* and again gets it (SF).  The clock moves and timers fire, and a
\* statement that is cancelled ends.  That PostgreSQL or Redis answers a check
\* is not assumed, nor that probes stop coming.
ApiFairness ==
  /\ \A d \in Delivery :
       /\ SF_apiVars(Connect(d))
       /\ WF_apiVars(d \in open /\ Coroutine(d))
       /\ WF_apiVars(Publish(d) \/ Published(d))
  /\ WF_apiVars(Tick) /\ WF_apiVars(Cleanup) /\ WF_apiVars(Respond)
  /\ WF_apiVars(Expire("database")) /\ WF_apiVars(Expire("redis"))

FairApiSpec == ApiSpec /\ ApiFairness

-----------------------------------------------------------------------------
\* A connection is held by exactly the handlers between their first statement
\* and the end of their session, whatever failed on the way: never while a
\* handler publishes or after it has answered.  The pool is never overdrawn.
PoolHolds == /\ InUse <= PoolSize
             /\ \A d \in open : phase[d] \in {"upsert", "commit"}
             /\ \A d \in Delivery : phase[d] = "commit" => d \in open

\* WebhookIntake assumes of the event loop that a handler that can go on does.
\* One loop, with publishes that block it, and one pool, smaller than the number
\* of its handlers, keep that promise.
EndpointKeepsGoing == FairSpec

\* Every delivery that reaches the database is answered, though the handlers
\* share a pool smaller than their number and wait for each other's row locks
\* with a connection in their hands.
EveryoneAnswered == \A d \in Delivery : phase[d] = "upsert" ~> phase[d] \in Answered

\* Every probe is answered, with the pool exhausted, and with a PostgreSQL or a
\* Redis that leaves the check without an answer.
ProbeAnswered == Probing ~> ~Probing
==============================================================================
