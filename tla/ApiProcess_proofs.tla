-------------------------- MODULE ApiProcess_proofs ---------------------------
(***************************************************************************)
(* Proofs about ApiProcess: it implements WebhookIntake, and its pool is    *)
(* never overdrawn and never leaks.                                         *)
(***************************************************************************)
EXTENDS ApiProcess, FiniteSetTheorems, TLAPS

\* One step of the process is one step of the intake, or none.
LEMMA StepIsIntakes == [ApiNext]_apiVars => [Next]_vars
<1> SUFFICES ASSUME [ApiNext]_apiVars
             PROVE  [Next]_vars
  OBVIOUS
<1>1. CASE Die
  BY <1>1 DEF Die, Next
<1>2. CASE ProbeStep
  BY <1>2 DEF ProbeStep, Probe, Checkout, Answer, Expire, Cleanup, Becomes, Respond, Tick
<1>3. ASSUME NEW d \in Delivery, Coroutine(d)
      PROVE  [Next]_vars
  <2>1. CASE Connect(d)
    BY <2>1 DEF Connect
  <2>2. CASE Arrive(d)
    BY <2>2 DEF Arrive, Next
  <2>3. CASE Leave(d)
    BY <2>3 DEF Leave, Next
  <2>4. CASE Publish(d)
    BY <2>4 DEF Publish
  <2>5. CASE Published(d)
    BY <2>5 DEF Published, Next
  <2> QED BY <1>3, <2>1, <2>2, <2>3, <2>4, <2>5 DEF Coroutine
<1>4. CASE UNCHANGED apiVars
  BY <1>4 DEF apiVars
<1> QED BY <1>1, <1>2, <1>3, <1>4 DEF ApiNext

\* The process is an intake: the pool, the blocking publish and the probes only
\* restrict the order in which its handlers move, so everything proved of
\* WebhookIntake (one publish per commit, true answers) holds of the process.
THEOREM IntakeKept == ApiSpec => Spec
<1>1. ApiInit => Init
  BY DEF ApiInit
<1> QED BY <1>1, StepIsIntakes, PTL DEF ApiSpec, Spec

-----------------------------------------------------------------------------
CheckStates == {"idle", "wait", "busy", "closing"} \union Ended

\* The types the theorem below rests on.
ApiTypeOK == /\ open \subseteq Delivery
             /\ phase \in [Delivery -> {"new"} \union Active \union Answered]
             /\ check \in [{"database", "redis"} -> CheckStates]
             /\ waited \in Nat

\* Inductive: besides the pool, that the type holds and that the database check
\* and the handlers fit in together.
PoolInv == ApiTypeOK /\ PoolHolds

LEMMA CheckCount ==
  ASSUME open \subseteq Delivery
  PROVE  IsFiniteSet(open) /\ Cardinality(open) \in Nat
BY PoolAssumption, FS_Subset, FS_CardinalityType

LEMMA PoolInit == ApiInit => PoolInv
<1> SUFFICES ASSUME ApiInit
             PROVE  PoolInv
  OBVIOUS
<1> USE DEF ApiInit, Init, Idle
<1>1. ApiTypeOK
  BY DEF ApiTypeOK, CheckStates
<1>2. InUse = 0
  BY FS_EmptySet DEF InUse
<1> QED BY <1>1, <1>2, PoolAssumption DEF PoolInv, PoolHolds

LEMMA PoolNext == PoolInv /\ [ApiNext]_apiVars => PoolInv'
<1> SUFFICES ASSUME PoolInv, [ApiNext]_apiVars
             PROVE  PoolInv'
  OBVIOUS
<1> USE DEF PoolInv
<1>a. /\ IsFiniteSet(open) /\ Cardinality(open) \in Nat
      /\ PoolSize \in Nat /\ InUse <= PoolSize
  BY CheckCount, PoolAssumption DEF ApiTypeOK, PoolHolds
<1>1. CASE Die
  <2>1. /\ open' = {} /\ check' = Idle /\ waited' = 0
        /\ phase' = [d \in Delivery |-> IF phase[d] \in Active THEN "dropped" ELSE phase[d]]
    BY <1>1 DEF Die, Crash
  <2>2. ApiTypeOK'
    BY <2>1 DEF ApiTypeOK, Idle, CheckStates, Active, Answered
  <2>3. InUse' = 0
    BY <2>1, FS_EmptySet DEF InUse, Idle
  <2>4. \A d \in Delivery : phase'[d] # "commit"
    BY <2>1 DEF Active
  <2> QED BY <1>a, <2>1, <2>2, <2>3, <2>4 DEF PoolHolds
<1>2. CASE ProbeStep
  <2>1. UNCHANGED <<open, phase>>
    BY <1>2 DEF ProbeStep, Probe, Checkout, Answer, Expire, Cleanup, Becomes, Respond, Tick, vars
  <2>2. ApiTypeOK'
    <3>1. check' \in [{"database", "redis"} -> CheckStates]
      BY <1>2 DEF ApiTypeOK, ProbeStep, Probe, Checkout, Answer, Expire, Cleanup, Becomes,
                  Respond, Tick, Idle, CheckStates, Ended
    <3>2. waited' \in Nat
      BY <1>2 DEF ApiTypeOK, ProbeStep, Probe, Checkout, Answer, Expire, Cleanup, Becomes,
                  Respond, Tick
    <3> QED BY <2>1, <3>1, <3>2 DEF ApiTypeOK
  <2>3. InUse' <= PoolSize
    <3>1. CASE Checkout
      BY <1>a, <2>1, <3>1 DEF Checkout, Room, InUse, Becomes
    <3>2. CASE ~Checkout
      <4>1. check'.database \in {"busy", "closing"} => check.database \in {"busy", "closing"}
        BY <1>2, <3>2 DEF ApiTypeOK, ProbeStep, Probe, Answer, Expire, Cleanup, Becomes,
                  Respond, Tick, Idle, Ended
      <4> QED BY <1>a, <2>1, <4>1 DEF InUse
    <3> QED BY <3>1, <3>2
  <2> QED BY <2>1, <2>2, <2>3 DEF PoolHolds
<1>3. ASSUME NEW d \in Delivery, Coroutine(d)
      PROVE  PoolInv'
  <2>1. CASE Connect(d)
    <3>1. /\ open' = open \union {d} /\ d \notin open /\ phase[d] = "upsert"
          /\ UNCHANGED <<phase, check, waited>>
      BY <2>1 DEF Connect, vars, probe
    <3>2. Cardinality(open') = Cardinality(open) + 1
      BY <1>a, <3>1, FS_AddElement
    <3>3. InUse' <= PoolSize
      BY <1>a, <2>1, <3>1, <3>2 DEF Connect, Room, InUse
    <3> QED BY <3>1, <3>3 DEF ApiTypeOK, PoolHolds
  <2>2. CASE Arrive(d)
    <3>1. UNCHANGED <<open, check, waited>>
      BY <2>2 DEF Arrive, probe
    <3>2. PICK p \in {"commit", "upsert"} \union Answered :
            /\ phase' = [phase EXCEPT ![d] = p]
            /\ p = "commit" => d \in open
            /\ d \in open => p = "commit"
      <4>1. CASE \E r \in Request : Receive(d, r)
        <5>1. PICK r \in Request : Receive(d, r)
          BY <4>1
        <5>2. d \notin open
          BY <5>1 DEF Receive, KeyIn, PoolHolds
        <5>3. Parse(r) \in {"upsert"} \union Answered
          BY DEF Parse, Extract, Answered, Skipped
        <5> DEFINE answer == IF ~r.signed THEN "unauthorized"
                             ELSE IF ~r.json THEN "malformed" ELSE Parse(r)
        <5>4. answer \in {"upsert"} \union Answered /\ answer # "commit"
          BY <5>3 DEF Answered, Skipped
        <5>5. phase' = [phase EXCEPT ![d] = answer]
          BY <5>1 DEF Receive, KeyIn
        <5> HIDE DEF answer
        <5> QED BY <5>2, <5>4, <5>5
      <4>2. CASE d \in open /\ Upsert(d)
        BY <4>2 DEF Upsert
      <4> QED BY <2>2, <4>1, <4>2 DEF Arrive
    <3>3. ApiTypeOK'
      BY <3>1, <3>2 DEF ApiTypeOK, Active
    <3>4. InUse' <= PoolSize
      BY <1>a, <3>1 DEF InUse
    <3> QED BY <3>1, <3>2, <3>3, <3>4 DEF PoolHolds, ApiTypeOK
  <2>3. CASE Leave(d)
    <3>1. open' = open \ {d} /\ UNCHANGED <<check, waited>>
      BY <2>3 DEF Leave, Close, probe
    <3>2. PICK p \in {"enqueue", "duplicate", "error"} : phase' = [phase EXCEPT ![d] = p]
      BY <2>3 DEF Leave, Commit, AfterCommit, DatabaseFails, DatabaseError
    <3>3. ApiTypeOK'
      BY <3>1, <3>2 DEF ApiTypeOK, Active, Answered
    <3>4. InUse' <= PoolSize
      <4>1. Cardinality(open') \in Nat /\ Cardinality(open') <= Cardinality(open)
        BY <1>a, <3>1, FS_Subset, FS_CardinalityType
      <4> QED BY <1>a, <3>1, <4>1 DEF InUse
    <3> QED BY <3>1, <3>2, <3>3, <3>4 DEF PoolHolds, ApiTypeOK
  <2>4. CASE Publish(d)
    BY <1>a, <2>4 DEF Publish, ApiTypeOK, PoolHolds, InUse, vars, probe
  <2>5. CASE Published(d)
    <3>1. UNCHANGED <<open, check, waited>>
      BY <2>5 DEF Published, probe
    <3>2. PICK p \in {"queued", "error"} : phase' = [phase EXCEPT ![d] = p]
      BY <2>5 DEF Published, Enqueue, EnqueueFails
    <3>3. phase[d] = "enqueue"
      BY <2>5 DEF Published, Enqueue, EnqueueFails
    <3>4. ApiTypeOK'
      BY <3>1, <3>2 DEF ApiTypeOK, Answered
    <3>5. InUse' <= PoolSize
      BY <1>a, <3>1 DEF InUse
    <3> QED BY <3>1, <3>2, <3>3, <3>4, <3>5 DEF PoolHolds, ApiTypeOK
  <2> QED BY <1>3, <2>1, <2>2, <2>3, <2>4, <2>5 DEF Coroutine
<1>4. CASE UNCHANGED apiVars
  BY <1>a, <1>4 DEF apiVars, ApiTypeOK, PoolHolds, InUse, vars, probe
<1> QED BY <1>1, <1>2, <1>3, <1>4 DEF ApiNext

\* Whatever the number of deliveries and the size of the pool, and whichever
\* calls fail: every connection taken is given back when the session ends
\* (db/session.py, "async with" in webhooks.py and main.py).
THEOREM PoolKept == ApiSpec => []PoolHolds
<1>1. PoolInv => PoolHolds
  BY DEF PoolInv
<1> QED BY <1>1, PoolInit, PoolNext, PTL DEF ApiSpec
===============================================================================
