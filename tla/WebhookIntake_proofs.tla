------------------------ MODULE WebhookIntake_proofs ------------------------
(***************************************************************************)
(* Proofs about the webhook endpoint, for any number of deliveries and     *)
(* keys: at most one publish per commit, no recorded review forgotten, the *)
(* answers are true, and the endpoint implements Admission.                *)
(***************************************************************************)
EXTENDS WebhookIntake, TLAPS

-----------------------------------------------------------------------------
(* The inductive invariant.                                                 *)

\* The row lock: one handler of a commit is between its upsert and its commit,
\* and what it was told of the row still holds.
OneWriter ==
  /\ \A d, e \in Delivery :
       phase[d] = "commit" /\ phase[e] = "commit" /\ key[d] = key[e] => d = e
  /\ \A d \in Delivery : phase[d] = "commit" => (created[d] <=> ~Recorded(key[d]))

\* The handler about to publish a commit is the only one, nobody has published
\* it, and its row is there.
OnePublisher ==
  /\ \A d, e \in Delivery :
       phase[d] = "enqueue" /\ phase[e] = "enqueue" /\ key[d] = key[e] => d = e
  /\ \A d \in Delivery : phase[d] = "enqueue" =>
       Recorded(key[d]) /\ sent[key[d]] = 0 /\ key[d] \notin lost

\* Nothing is published or lost before its row is committed.
RowFirst == \A k \in Key : /\ ~Recorded(k) => sent[k] = 0 /\ k \notin lost
                           /\ sent[k] \in {0, 1}

IInv == TypeOK /\ OneWriter /\ OnePublisher /\ RowFirst

-----------------------------------------------------------------------------
\* Parsing ends in a skip, a 500 or an event to upsert (webhooks.py:58-99).
LEMMA ParseType ==
  \A r : Parse(r) \in Skipped \union {"upsert", "error"}
BY DEF Parse, Extract, Skipped

\* An event that is upserted had every field, so it has its key.
LEMMA ParseKey ==
  ASSUME NEW r \in Request, Parse(r) = "upsert" PROVE KeyIn(r) \in Key
<1>1. r.key \in Key
  BY RequestAssumption DEF RequestType
<1>2. r.complete
  BY DEF Parse, Extract
<1>3. QED
  BY <1>1, <1>2 DEF KeyIn

USE DEF Recorded, Active

\* Every variable keeps its type along every step.
LEMMA TypeStep == TypeOK /\ [Next]_vars => TypeOK'
<1> SUFFICES ASSUME TypeOK, [Next]_vars PROVE TypeOK'
  OBVIOUS
<1> USE DEF TypeOK, Answered, Skipped, Statuses
<1>1. ASSUME NEW d \in Delivery, NEW r \in Request, Receive(d, r) PROVE TypeOK'
  BY <1>1, ParseType, ParseKey DEF Receive
<1>2. ASSUME NEW d \in Delivery, Upsert(d) PROVE TypeOK'
  BY <1>2 DEF Upsert
<1>3. ASSUME NEW d \in Delivery, Commit(d) PROVE TypeOK'
  BY <1>3 DEF Commit, AfterCommit, Insert
<1>4. ASSUME NEW d \in Delivery, Enqueue(d) PROVE TypeOK'
  BY <1>4 DEF Enqueue
<1>5. ASSUME NEW d \in Delivery, NEW b \in BOOLEAN, DatabaseFails(d, b) PROVE TypeOK'
  BY <1>5 DEF DatabaseFails, DatabaseError, Insert
<1>6. ASSUME NEW d \in Delivery, NEW b \in BOOLEAN, EnqueueFails(d, b) PROVE TypeOK'
  BY <1>6 DEF EnqueueFails
<1>7. CASE Crash
  BY <1>7 DEF Crash
<1>8. CASE UNCHANGED vars
  BY <1>8 DEF vars
<1>9. QED
  BY <1>1, <1>2, <1>3, <1>4, <1>5, <1>6, <1>7, <1>8 DEF Next

\* The invariant is inductive.  The conjuncts say where each action could
\* break it: the upsert by reading a row that changes, the commit by letting a
\* second publisher through, the publish by repeating it.
LEMMA InvStep == IInv /\ [Next]_vars => IInv'
<1> SUFFICES ASSUME IInv, [Next]_vars PROVE (OneWriter /\ OnePublisher /\ RowFirst)'
  BY TypeStep DEF IInv
<1> USE DEF IInv, OneWriter, OnePublisher, RowFirst, TypeOK
<1>1. ASSUME NEW d \in Delivery, NEW r \in Request, Receive(d, r)
      PROVE (OneWriter /\ OnePublisher /\ RowFirst)'
  <2>1. phase'[d] \notin {"commit", "enqueue"}
    BY <1>1, ParseType DEF Receive, KeyIn, Skipped
  <2>2. \A e \in Delivery \ {d} : phase'[e] = phase[e] /\ key'[e] = key[e]
    BY <1>1 DEF Receive, KeyIn
  <2>3. UNCHANGED <<created, status, sent, lost>>
    BY <1>1 DEF Receive, KeyIn
  <2>4. QED
    BY <2>1, <2>2, <2>3
<1>2. ASSUME NEW d \in Delivery, Upsert(d)
      PROVE (OneWriter /\ OnePublisher /\ RowFirst)'
  BY <1>2 DEF Upsert, Locked
<1>3. ASSUME NEW d \in Delivery, Commit(d)
      PROVE (OneWriter /\ OnePublisher /\ RowFirst)'
  <2>1. \A k \in Key : status'[k] = IF k = key[d] /\ ~Recorded(k) THEN "queued" ELSE status[k]
    BY <1>3 DEF Commit, AfterCommit, Insert
  <2>2. \A e \in Delivery \ {d} : phase'[e] = phase[e]
    BY <1>3 DEF Commit, AfterCommit
  <2>3. phase'[d] = IF created[d] THEN "enqueue" ELSE "duplicate"
    BY <1>3 DEF Commit, AfterCommit
  <2>4. phase[d] = "commit" /\ UNCHANGED <<key, created, sent, lost>>
    BY <1>3 DEF Commit, AfterCommit
  <2>5. OneWriter'
    BY <2>1, <2>2, <2>3, <2>4
  <2>6. OnePublisher'
    BY <2>1, <2>2, <2>3, <2>4
  <2>7. RowFirst'
    BY <2>1, <2>4
  <2>8. QED
    BY <2>5, <2>6, <2>7
<1>4. ASSUME NEW d \in Delivery, Enqueue(d)
      PROVE (OneWriter /\ OnePublisher /\ RowFirst)'
  BY <1>4 DEF Enqueue
<1>5. ASSUME NEW d \in Delivery, NEW b \in BOOLEAN, DatabaseFails(d, b)
      PROVE (OneWriter /\ OnePublisher /\ RowFirst)'
  BY <1>5 DEF DatabaseFails, DatabaseError, Insert
<1>6. ASSUME NEW d \in Delivery, NEW b \in BOOLEAN, EnqueueFails(d, b)
      PROVE (OneWriter /\ OnePublisher /\ RowFirst)'
  BY <1>6 DEF EnqueueFails
<1>7. CASE Crash
  BY <1>7 DEF Crash
<1>8. CASE UNCHANGED vars
  BY <1>8 DEF vars
<1>9. QED
  BY <1>1, <1>2, <1>3, <1>4, <1>5, <1>6, <1>7, <1>8 DEF Next

LEMMA InitInv == Init => IInv
BY NoKeyAssumption DEF Init, IInv, TypeOK, OneWriter, OnePublisher, RowFirst, Statuses

\* The inductive invariant holds throughout.
THEOREM Invariance == Spec => []IInv
BY InitInv, InvStep, PTL DEF Spec

-----------------------------------------------------------------------------
(* What follows.                                                            *)

\* Every variable keeps its type (webhooks.py:30-98 leaves no handler in a
\* phase it does not name, and none past parsing without a key).
THEOREM Typing == Spec => []TypeOK
BY Invariance, PTL DEF IInv

\* A commit is published at most once, whatever deliveries race or fail.
THEOREM SendOnce == Spec => []AtMostOneSend
<1>1. IInv => AtMostOneSend
  BY DEF IInv, RowFirst, AtMostOneSend
<1>2. QED
  BY <1>1, Invariance, PTL

\* Accounted is preserved: the step that takes a handler from its publish is
\* the publish, a failure or a crash, and each leaves its trace.
LEMMA AccountedStep == IInv /\ Accounted /\ [Next]_vars => Accounted'
<1> SUFFICES ASSUME IInv, Accounted, [Next]_vars PROVE Accounted'
  OBVIOUS
<1> USE DEF IInv, TypeOK, OneWriter, RowFirst, Accounted
<1>1. ASSUME NEW d \in Delivery, NEW r \in Request, Receive(d, r) PROVE Accounted'
  BY <1>1 DEF Receive, KeyIn
<1>2. ASSUME NEW d \in Delivery, Upsert(d) PROVE Accounted'
  BY <1>2 DEF Upsert
<1>3. ASSUME NEW d \in Delivery, Commit(d) PROVE Accounted'
  BY <1>3 DEF Commit, AfterCommit, Insert
<1>4. ASSUME NEW d \in Delivery, Enqueue(d) PROVE Accounted'
  BY <1>4 DEF Enqueue, OnePublisher
<1>5. ASSUME NEW d \in Delivery, NEW b \in BOOLEAN, DatabaseFails(d, b) PROVE Accounted'
  BY <1>5 DEF DatabaseFails, DatabaseError, Insert
<1>6. ASSUME NEW d \in Delivery, NEW b \in BOOLEAN, EnqueueFails(d, b) PROVE Accounted'
  BY <1>6 DEF EnqueueFails, OnePublisher
<1>7. CASE Crash
  BY <1>7 DEF Crash
<1>8. CASE UNCHANGED vars
  BY <1>8 DEF vars
<1>9. QED
  BY <1>1, <1>2, <1>3, <1>4, <1>5, <1>6, <1>7, <1>8 DEF Next

\* No recorded review is forgotten without a trace.
THEOREM NothingForgotten == Spec => []Accounted
<1>1. Init => Accounted
  BY DEF Init, Accounted
<1>2. QED
  BY <1>1, AccountedStep, Invariance, PTL DEF Spec

\* AnswersAreTrue is preserved: an answer is given in the step that makes it
\* true, and rows and publishes are never taken back.
LEMMA AnswersStep == IInv /\ AnswersAreTrue /\ [Next]_vars => AnswersAreTrue'
<1> SUFFICES ASSUME IInv, AnswersAreTrue, [Next]_vars PROVE AnswersAreTrue'
  OBVIOUS
<1> USE DEF IInv, TypeOK, OneWriter, OnePublisher, RowFirst, AnswersAreTrue
<1>1. ASSUME NEW d \in Delivery, NEW r \in Request, Receive(d, r) PROVE AnswersAreTrue'
  <2>1. phase'[d] \notin {"queued", "duplicate"}
    BY <1>1, ParseType DEF Receive, KeyIn, Skipped
  <2>2. \A e \in Delivery \ {d} : phase'[e] = phase[e] /\ key'[e] = key[e]
    BY <1>1 DEF Receive, KeyIn
  <2>3. UNCHANGED <<status, sent>>
    BY <1>1 DEF Receive, KeyIn
  <2>4. QED
    BY <2>1, <2>2, <2>3
<1>2. ASSUME NEW d \in Delivery, Upsert(d) PROVE AnswersAreTrue'
  BY <1>2 DEF Upsert
<1>3. ASSUME NEW d \in Delivery, Commit(d) PROVE AnswersAreTrue'
  BY <1>3 DEF Commit, AfterCommit, Insert
<1>4. ASSUME NEW d \in Delivery, Enqueue(d) PROVE AnswersAreTrue'
  BY <1>4 DEF Enqueue
<1>5. ASSUME NEW d \in Delivery, NEW b \in BOOLEAN, DatabaseFails(d, b) PROVE AnswersAreTrue'
  BY <1>5 DEF DatabaseFails, DatabaseError, Insert
<1>6. ASSUME NEW d \in Delivery, NEW b \in BOOLEAN, EnqueueFails(d, b) PROVE AnswersAreTrue'
  BY <1>6 DEF EnqueueFails
<1>7. CASE Crash
  BY <1>7 DEF Crash
<1>8. CASE UNCHANGED vars
  BY <1>8 DEF vars
<1>9. QED
  BY <1>1, <1>2, <1>3, <1>4, <1>5, <1>6, <1>7, <1>8 DEF Next

\* A 202 never lies about the table or about the publish it stands for.
THEOREM AnswersHold == Spec => []AnswersAreTrue
<1>1. Init => AnswersAreTrue
  BY DEF Init, AnswersAreTrue
<1>2. QED
  BY <1>1, AnswersStep, Invariance, PTL DEF Spec

-----------------------------------------------------------------------------
(* Refinement.                                                              *)

\* A step of the endpoint records a commit, publishes one, or is invisible.
LEMMA AdmissionStep == IInv /\ [Next]_vars => [A!Next]_(A!vars)
<1> SUFFICES ASSUME IInv, [Next]_vars PROVE [A!Next]_(A!vars)
  OBVIOUS
<1> DEFINE rows == {k \in Key : Recorded(k)}
<1> USE DEF IInv, TypeOK, A!vars
<1>1. ASSUME NEW k \in Key, status' = Insert(k), ~Recorded(k), UNCHANGED sent
      PROVE A!Record(k)
  BY <1>1 DEF A!Record, Insert
<1>2. ASSUME NEW k \in Key, status' = Insert(k), Recorded(k), UNCHANGED sent
      PROVE UNCHANGED A!vars
  BY <1>2 DEF Insert
<1>3. ASSUME NEW k \in Key, sent' = [sent EXCEPT ![k] = @ + 1], UNCHANGED status,
             Recorded(k), sent[k] = 0
      PROVE A!Send(k)
  BY <1>3 DEF A!Send
<1>4. ASSUME UNCHANGED <<status, sent>> PROVE UNCHANGED A!vars
  BY <1>4
<1>5. ASSUME NEW d \in Delivery, NEW r \in Request, Receive(d, r) PROVE UNCHANGED A!vars
  BY <1>4, <1>5 DEF Receive, KeyIn
<1>6. ASSUME NEW d \in Delivery, Upsert(d) PROVE UNCHANGED A!vars
  BY <1>4, <1>6 DEF Upsert
<1>7. ASSUME NEW d \in Delivery, Commit(d) PROVE [A!Next]_(A!vars)
  <2>1. key[d] \in Key /\ status' = Insert(key[d]) /\ UNCHANGED sent
    BY <1>7 DEF Commit, AfterCommit
  <2>2. QED
    BY <2>1, <1>1, <1>2 DEF A!Next
<1>8. ASSUME NEW d \in Delivery, Enqueue(d) PROVE [A!Next]_(A!vars)
  <2>1. key[d] \in Key /\ Recorded(key[d]) /\ sent[key[d]] = 0
    BY <1>8 DEF Enqueue, OnePublisher
  <2>2. sent' = [sent EXCEPT ![key[d]] = @ + 1] /\ UNCHANGED status
    BY <1>8 DEF Enqueue
  <2>3. QED
    BY <2>1, <2>2, <1>3 DEF A!Next
<1>9. ASSUME NEW d \in Delivery, NEW b \in BOOLEAN, DatabaseFails(d, b)
      PROVE [A!Next]_(A!vars)
  <2>1. key[d] \in Key /\ UNCHANGED sent
    BY <1>9 DEF DatabaseFails, DatabaseError
  <2>2. status' = Insert(key[d]) \/ UNCHANGED status
    BY <1>9 DEF DatabaseFails, DatabaseError
  <2>3. QED
    BY <2>1, <2>2, <1>1, <1>2, <1>4 DEF A!Next
<1>10. ASSUME NEW d \in Delivery, NEW b \in BOOLEAN, EnqueueFails(d, b)
       PROVE [A!Next]_(A!vars)
  <2>1. key[d] \in Key /\ Recorded(key[d]) /\ sent[key[d]] = 0 /\ UNCHANGED status
    BY <1>10 DEF EnqueueFails, OnePublisher
  <2>2. sent' = [sent EXCEPT ![key[d]] = @ + 1] \/ UNCHANGED sent
    BY <1>10 DEF EnqueueFails
  <2>3. QED
    BY <2>1, <2>2, <1>3, <1>4 DEF A!Next
<1>11. CASE Crash
  BY <1>4, <1>11 DEF Crash
<1>12. CASE UNCHANGED vars
  BY <1>4, <1>12 DEF vars
<1>13. QED
  BY <1>5, <1>6, <1>7, <1>8, <1>9, <1>10, <1>11, <1>12 DEF Next

\* The endpoint implements Admission: recorded once, published at most once,
\* and never before it is recorded.
THEOREM ImplementsAdmission == Spec => Admitted
<1>1. Init => A!Init
  BY DEF Init, A!Init
<1>2. QED
  BY <1>1, AdmissionStep, Invariance, PTL DEF Spec, Admitted, A!Spec
=============================================================================
