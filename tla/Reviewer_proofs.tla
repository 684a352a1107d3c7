--------------------------- MODULE Reviewer_proofs ----------------------------
(***************************************************************************)
(* Proofs about the call of the model, for any timeout, number of retries  *)
(* and limits: what the attempts, the limits, the closing and a            *)
(* transaction that is cut off add up to is what ReviewTask takes for one  *)
(* call of a run and what it writes after it.                              *)
(***************************************************************************)
EXTENDS Reviewer, TLAPS

\* A run that is not over has not touched the row, and one that is has left there
\* what goes with its end; review_diff has returned or raised by the time the run
\* is to write something.
CallInv ==
  /\ at \in {"call", "close", "called", "over"}
  /\ partial \in BOOLEAN /\ paid \in BOOLEAN
  /\ at = "call" => end = "none"
  /\ at = "close" => end \in {"returned", "raised", "escaped"}
  /\ at = "called" => end \in {"returned", "raised"}
  /\ at = "over" => end \in {"returned", "raised", "escaped", "killed"}
  /\ at \in {"call", "close"} => paid = FALSE
  /\ at = "called" => paid = TRUE
  /\ at = "over" /\ end \in {"returned", "raised"} => paid = TRUE
  /\ at # "over" => status = "running"
  /\ at = "over" => status = IF end = "returned"
                             THEN IF partial THEN "partial" ELSE "completed"
                             ELSE IF end = "raised" THEN "failed" ELSE "running"

LEMMA CallInit == Init => CallInv
BY DEF Init, CallInv

LEMMA CallNext == CallInv /\ [Next]_vars => CallInv'
<1> SUFFICES ASSUME CallInv, [Next]_vars PROVE CallInv'
  OBVIOUS
<1> USE DEF CallInv
<1>1. ASSUME NEW a \in Answers, Answer(a) PROVE CallInv'
  BY <1>1 DEF Answer
<1>2. CASE Retry
  BY <1>2 DEF Retry
<1>3. CASE Error
  BY <1>3 DEF Error, End
<1>4. ASSUME NEW fails \in BOOLEAN, Close(fails) PROVE CallInv'
  BY <1>4 DEF Close, End
<1>5. CASE Undone
  BY <1>5 DEF Undone, End, Becomes
<1>6. ASSUME NEW how \in {"raised", "escaped"}, Strike(how) PROVE CallInv'
  <2>1. at # "over" /\ End(Becomes(how)) /\ UNCHANGED <<partial, status>>
    BY <1>6 DEF Strike, SoftDue
  <2>2. CASE at = "call"
    BY <1>6, <2>1, <2>2 DEF End, Becomes
  <2>3. CASE at = "close"
    BY <1>6, <2>1, <2>3 DEF End, Becomes
  <2>4. CASE at = "called"
    BY <1>6, <2>1, <2>4 DEF End, Becomes
  <2>5. QED
    BY <2>1, <2>2, <2>3, <2>4
<1>7. CASE Kill
  BY <1>7 DEF Kill, HardDue
<1>8. CASE Settle
  BY <1>8 DEF Settle
<1>9. CASE Tick
  BY <1>9 DEF Tick
<1>10. CASE UNCHANGED vars
  BY <1>10 DEF vars
<1>11. QED
  BY <1>1, <1>2, <1>3, <1>4, <1>5, <1>6, <1>7, <1>8, <1>9, <1>10 DEF Next

\* A row, and the locals of a run, of the values that come up.
RowOf(isPartial, why, over, what) ==
  [partial |-> isPartial, reason |-> why, finished |-> over, error |-> what,
   diff |-> "none", anchor |-> "none"]
LocalsOf(note, refused) ==
  [files |-> "none", diff |-> "none", note |-> note, refused |-> refused]
Only(x) == [s \in {"sha"} |-> x]

Findings == One(Stored /\ (Known.refused => Known.findings))
Spent    == One(paid)
Dropped  == IF at = "over" /\ end \in {"escaped", "killed"} THEN {"sha"} ELSE {}
Job      == IF Gone THEN "none" ELSE "sha"
Local    == IF Gone THEN Idle ELSE Work

\* What ReviewTask sees of the review and of its run.
Review(state, r, found, cost, left) ==
  /\ status = state /\ Row = r
  /\ Findings = Only(found) /\ Spent = Only(cost) /\ Dropped = left
Run(place, refused) ==
  /\ Where = place /\ Job = "sha" /\ ~Gone /\ Local = LocalsOf(Note, refused)

NewRow == RowOf(FALSE, "none", FALSE, "none")
DoneRow == RowOf(partial, Note, TRUE, IF Known.refused THEN "refusal" ELSE "none")

Cost     == IF paid THEN 1 ELSE 0
Refused  == paid /\ Known.refused

\* It sees one of these: a call in progress, what follows its end, what this has
\* written, a run that left its handlers, and a process that was killed.
InCall == at \in {"call", "close"} =>
            Review("running", NewRow, 0, 0, {}) /\ Run("review", FALSE)
Called == at = "called" =>
            /\ Review("running", NewRow, 0, 1, {})
            /\ Run(IF end = "returned" THEN "persist" ELSE "fail", Known.refused)
Escaped == at = "over" /\ end = "escaped" =>
             Review("running", NewRow, 0, Cost, {"sha"}) /\ Run("return", Refused)
Killed == at = "over" /\ end = "killed" =>
            /\ Review("running", NewRow, 0, Cost, {"sha"})
            /\ Where = "idle" /\ Job = "none" /\ Gone /\ Local = LocalsOf("none", FALSE)
Written == at = "over" /\ end = "returned" =>
             /\ Review(IF partial THEN "partial" ELSE "completed", DoneRow,
                       IF Known.refused THEN 0 ELSE 1, 1, {})
             /\ Run("return", Known.refused)
Failed == at = "over" /\ end = "raised" =>
            /\ Review("failed", RowOf(FALSE, "none", TRUE, "exception"), 0, 1, {})
            /\ Run("return", Known.refused)
Views == InCall /\ Called /\ Escaped /\ Killed /\ Written /\ Failed

\* A refusal keeps no findings.
LEMMA Refusals == Known.refused \in BOOLEAN /\ (Known.refused = TRUE => Known.findings = FALSE)
BY DEF Known, Report

LEMMA RefusalsNext == (Known.refused \in BOOLEAN)'
BY Refusals, PTL

LEMMA Viewed == CallInv => Views
<1> SUFFICES ASSUME CallInv PROVE Views
  OBVIOUS
<1> USE DEF Review, Run, Findings, Spent, Dropped, Job, Local, NewRow, DoneRow, Row, RowOf,
            One, Only, Work, LocalsOf, Where, Gone, Stored, Cost, Refused
<1>1. InCall
  BY DEF CallInv, InCall
<1>2. Called
  <2>1. CASE Known.refused = TRUE
    BY <2>1 DEF CallInv, Called
  <2>2. CASE Known.refused = FALSE
    BY <2>2 DEF CallInv, Called
  <2>3. QED
    BY <2>1, <2>2, Refusals
<1>3. Escaped
  BY DEF CallInv, Escaped
<1>4. Killed
  BY DEF CallInv, Killed, Idle
<1>5. Written
  <2>1. CASE Known.refused = TRUE
    BY <2>1, Refusals DEF CallInv, Written
  <2>2. CASE Known.refused = FALSE
    BY <2>2 DEF CallInv, Written
  <2>3. QED
    BY <2>1, <2>2, Refusals
<1>6. Failed
  <2>1. CASE Known.refused = TRUE
    BY <2>1 DEF CallInv, Failed
  <2>2. CASE Known.refused = FALSE
    BY <2>2 DEF CallInv, Failed
  <2>3. QED
    BY <2>1, <2>2, Refusals
<1>7. QED
  BY <1>1, <1>2, <1>3, <1>4, <1>5, <1>6 DEF Views

LEMMA ViewedNext == CallInv' => Views'
BY Viewed, PTL

\* The functions and sequences ReviewTask has, of one review and one slot.
LEMMA OneSlot ==
  ASSUME NEW x, NEW y
  PROVE  /\ <<x>>[1] = x /\ [<<x>> EXCEPT ![1] = y] = <<y>>
         /\ Only(x)["sha"] = x /\ [Only(x) EXCEPT !["sha"] = y] = Only(y)
BY DEF Only

\* A call that returned or raised is paid for once.
LEMMA PaidOnce ==
  ASSUME Job = "sha", Spent = Only(0), Spent' = Only(1)
  PROVE  Spent' = [Spent EXCEPT ![<<Job>>[1]] = @ + 1]
<1>1. <<Job>>[1] = "sha"
  BY OneSlot
<1>2. [Only(0) EXCEPT !["sha"] = @ + 1] = Only(1)
  BY DEF Only
<1>3. QED
  BY <1>1, <1>2, Zenon

WithRefused(w, v) == [w EXCEPT ![1].refused = v]

LEMMA OneLocal ==
  ASSUME NEW note, NEW r, NEW v
  PROVE  WithRefused(<<LocalsOf(note, r)>>, v) = <<LocalsOf(note, v)>>
BY DEF WithRefused, LocalsOf

Shown == T!Step(1) \/ T!Broker(1) \/ UNCHANGED T!vars

LEMMA Unseen ==
  ASSUME UNCHANGED <<status, Row, Findings, Spent, Dropped, Where, Job, Gone, Local>>
  PROVE  UNCHANGED T!vars
<1>1. /\ UNCHANGED <<Only(status), Only(Row), Findings, Spent, Dropped>>
      /\ UNCHANGED <<<<Where>>, <<Job>>, <<~Gone>>, <<Local>>>>
  BY DEF Only
<1>2. UNCHANGED <<One(TRUE), One(FALSE)>>
  BY DEF One
<1>3. QED
  BY <1>1, <1>2 DEF T!vars, Only, Findings, Spent, Dropped, Job, Local

\* While the call goes on, and while the client is closed, nothing is seen of it.
LEMMA CallUnseen ==
  ASSUME CallInv, CallInv', at \in {"call", "close"}, at' \in {"call", "close"},
         UNCHANGED partial
  PROVE  Shown
<1>1. InCall /\ InCall'
  BY Viewed, ViewedNext DEF Views
<1>2. Note' = Note /\ Gone = FALSE /\ Gone' = FALSE
  BY DEF Note, Gone
<1>3. QED
  BY <1>1, <1>2, Unseen DEF InCall, Review, Run, Shown

\* The end of a call that returned.
LEMMA ReturnSeen ==
  ASSUME CallInv, CallInv', at = "close", at' = "called", end' = "returned",
         UNCHANGED partial
  PROVE  Shown
<1> DEFINE r == Known.refused'
<1>1. /\ Review("running", NewRow, 0, 0, {}) /\ Run("review", FALSE)
      /\ Review("running", NewRow, 0, 1, {})' /\ Run("persist", Known.refused)'
  BY Viewed, ViewedNext DEF Views, InCall, Called
<1>2. Note' = Note /\ Gone = FALSE /\ Gone' = FALSE
  BY DEF Note, Gone
<1>3. <<Where>>[1] = "review" /\ T!Goto(1, "persist")
  BY <1>1, OneSlot DEF Run, T!Goto
<1>4. Spent' = [Spent EXCEPT ![<<Job>>[1]] = @ + 1]
  BY <1>1, PaidOnce DEF Review, Run
<1>5. <<Local>>' = WithRefused(<<Local>>, r)
  BY <1>1, <1>2, OneLocal DEF Run
<1>6. UNCHANGED <<T!github, Only(status), Only(Row), Findings, T!queue, <<Job>>, <<~Gone>>>>
  BY <1>1, <1>2 DEF Review, Run, T!github, T!queue, One, Only, Dropped
<1>7. T!Review(1, r)
  BY <1>3, <1>4, <1>5, <1>6
     DEF T!Review, Spent, Job, Local, WithRefused, Findings, Only
<1>8. r \in BOOLEAN
  BY RefusalsNext
<1>9. QED
  BY <1>7, <1>8 DEF Shown, T!Step

\* The end of a call that raised.
LEMMA RaiseSeen ==
  ASSUME CallInv, CallInv', at = "close", at' = "called", end' = "raised",
         Known'.refused = FALSE, UNCHANGED partial
  PROVE  Shown
<1>1. /\ Review("running", NewRow, 0, 0, {}) /\ Run("review", FALSE)
      /\ Review("running", NewRow, 0, 1, {})' /\ Run("fail", FALSE)'
  BY Viewed, ViewedNext DEF Views, InCall, Called
<1>2. Note' = Note /\ Gone = FALSE /\ Gone' = FALSE
  BY DEF Note, Gone
<1>3. <<Where>>[1] = "review" /\ T!Goto(1, "fail")
  BY <1>1, OneSlot DEF Run, T!Goto
<1>4. Spent' = [Spent EXCEPT ![<<Job>>[1]] = @ + 1]
  BY <1>1, PaidOnce DEF Review, Run
<1>5. UNCHANGED <<T!github, Only(status), Only(Row), Findings, T!queue, <<Job>>, <<~Gone>>,
                  <<Local>>>>
  BY <1>1, <1>2 DEF Review, Run, T!github, T!queue, One, Only, Dropped, LocalsOf
<1>6. T!Raise(1)
  BY <1>3, <1>4, <1>5
     DEF T!Raise, T!Pipeline, T!Handler, Spent, Job, Local, Findings, Only
<1>7. QED
  BY <1>6 DEF Shown, T!Step

\* The transaction of the verdict gives way to _fail.
LEMMA UndoneSeen ==
  ASSUME CallInv, CallInv', at = "called", at' = "called",
         end = "returned", end' = "raised", UNCHANGED <<answer, partial>>
  PROVE  Shown
<1>1. /\ Review("running", NewRow, 0, 1, {}) /\ Run("persist", Known.refused)
      /\ Review("running", NewRow, 0, 1, {})' /\ Run("fail", Known.refused)'
  BY Viewed, ViewedNext DEF Views, Called
<1>2. Note' = Note /\ Gone = FALSE /\ Gone' = FALSE /\ Known' = Known
  BY DEF Note, Gone, Known, Report
<1>3. <<Where>>[1] = "persist" /\ T!Goto(1, "fail")
  BY <1>1, OneSlot DEF Run, T!Goto
<1>4. UNCHANGED <<T!github, Only(status), Only(Row), Findings, Spent, T!queue, <<Job>>,
                  <<~Gone>>, <<Local>>>>
  BY <1>1, <1>2 DEF Review, Run, T!github, T!queue, One, Only, Dropped, LocalsOf
<1>5. T!Raise(1)
  BY <1>3, <1>4
     DEF T!Raise, T!Pipeline, T!Handler, Spent, Job, Local, Findings, Only
<1>6. QED
  BY <1>5 DEF Shown, T!Step

\* What the review and its run look like until the run is over.
Underway ==
  /\ Review("running", NewRow, 0, Cost, {}) /\ Run(Where, Refused)
  /\ Where \in {"review", "persist", "fail"}

LEMMA UnderwayViewed == CallInv /\ at # "over" => Underway
<1>1. CallInv /\ at \in {"call", "close"} => Underway
  BY Viewed DEF CallInv, Views, InCall, Review, Run, Underway, Cost, Refused
<1>2. CallInv /\ at = "called" => Underway
  BY Viewed, Refusals DEF CallInv, Views, Called, Review, Run, Underway, Cost, Refused
<1>3. QED
  BY <1>1, <1>2 DEF CallInv

\* An exception that no handler sees, wherever the run is.
LEMMA EscapeSeen ==
  ASSUME CallInv, CallInv', at # "over", at' = "over", end' = "escaped",
         UNCHANGED <<partial, paid>>, paid => answer' = answer
  PROVE  Shown
<1>1. /\ Underway
      /\ Review("running", NewRow, 0, Cost, {"sha"})' /\ Run("return", Refused)'
  BY UnderwayViewed, Viewed, ViewedNext DEF Views, Escaped
<1>2. Note' = Note /\ Gone = FALSE /\ Gone' = FALSE /\ Cost' = Cost /\ Refused' = Refused
  BY DEF Note, Gone, Cost, Refused, Known, Report
<1>3. <<Where>>[1] \in {"review", "persist", "fail"} /\ T!Goto(1, "return")
  BY <1>1, OneSlot DEF Underway, Run, T!Goto
<1>4. Dropped' = Dropped \union {<<Job>>[1]}
  BY <1>1, OneSlot DEF Underway, Review, Run
<1>5. /\ UNCHANGED <<T!github, Only(status), Only(Row), Findings, Spent>>
      /\ UNCHANGED <<One(TRUE), One(FALSE), <<Job>>, <<~Gone>>, <<Local>>>>
  BY <1>1, <1>2 DEF Underway, Review, Run, T!github, One, Only, LocalsOf
<1>6. T!Escape(1)
  BY <1>3, <1>4, <1>5
     DEF T!Escape, T!Live, T!Pipeline, T!table, Spent, Job, Local, Findings, Only, Dropped
<1>7. QED
  BY <1>6 DEF Shown, T!Step

\* The hard limit, wherever the run is.
LEMMA KillSeen ==
  ASSUME CallInv, CallInv', at # "over", at' = "over", end' = "killed",
         UNCHANGED <<partial, paid>>
  PROVE  Shown
<1>1. /\ Underway
      /\ Review("running", NewRow, 0, Cost, {"sha"})'
      /\ Where' = "idle" /\ Job' = "none" /\ Gone' /\ Local' = LocalsOf("none", FALSE)
  BY UnderwayViewed, Viewed, ViewedNext DEF Views, Killed, LocalsOf
<1>2. <<Where>>[1] \in {"review", "persist", "fail"} /\ T!Goto(1, "idle")
  BY <1>1, OneSlot DEF Underway, Run, T!Goto
<1>3. Dropped' = Dropped \union {<<Job>>[1]}
  BY <1>1, OneSlot DEF Underway, Review, Run
<1>4. /\ <<Job>>' = [<<Job>> EXCEPT ![1] = "none"]
      /\ <<~Gone>>' = [<<~Gone>> EXCEPT ![1] = FALSE]
      /\ <<Local>>' = [<<Local>> EXCEPT ![1] = T!Blank]
  <2>1. (~Gone)' = FALSE
    BY <1>1
  <2>2. Local' = T!Blank
    BY <1>1 DEF T!Blank, LocalsOf
  <2>3. QED
    BY <1>1, <2>1, <2>2, OneSlot
<1>5. /\ UNCHANGED <<T!github, Only(status), Only(Row), Findings, Spent>>
      /\ UNCHANGED <<One(TRUE), One(FALSE)>>
  <2>1. Cost' = Cost
    BY DEF Cost
  <2>2. QED
    BY <1>1, <2>1 DEF Underway, Review, T!github, One, Only
<1>6. T!Clear(1)
  BY <1>2, <1>4 DEF T!Clear, Job, Local
<1>7. T!HardLimit(1)
  BY <1>2, <1>3, <1>5, <1>6
     DEF T!HardLimit, T!Live, T!Pipeline, T!table, Spent, Job, Findings, Only, Dropped
<1>8. QED
  BY <1>7 DEF Shown, T!Broker

\* _fail, after a call that raised.
LEMMA FailSeen ==
  ASSUME CallInv, CallInv', at = "called", at' = "over", end = "raised", end' = "raised",
         UNCHANGED <<partial, answer>>
  PROVE  Shown
<1>1. /\ Review("running", NewRow, 0, 1, {}) /\ Run("fail", Known.refused)
      /\ Review("failed", RowOf(FALSE, "none", TRUE, "exception"), 0, 1, {})'
      /\ Run("return", Known.refused)'
  BY Viewed, ViewedNext DEF Views, Called, Failed, RowOf
<1>2. Note' = Note /\ Gone = FALSE /\ Gone' = FALSE /\ Known' = Known
  BY DEF Note, Gone, Known, Report
<1>3. <<Where>>[1] = "fail" /\ <<Job>>[1] = "sha" /\ T!Goto(1, "return")
  BY <1>1, OneSlot DEF Run, T!Goto
<1>4. Only(status)' = [Only(status) EXCEPT ![<<Job>>[1]] = T!Failure]
  <2>1. status' = T!Failure
    BY <1>1 DEF Review, T!Failure
  <2>2. Only(status)' = Only(status')
    BY DEF Only
  <2>3. [Only(status) EXCEPT !["sha"] = T!Failure] = Only(T!Failure)
    BY OneSlot
  <2>4. QED
    BY <1>3, <2>1, <2>2, <2>3, Zenon
<1>5. Only(Row)' = [Only(Row) EXCEPT ![<<Job>>[1]].finished = TRUE,
                                     ![<<Job>>[1]].error = "exception"]
  BY <1>1, <1>3 DEF Review, Only, RowOf, NewRow
<1>6. /\ UNCHANGED <<T!github, Findings, Spent, T!queue>>
      /\ UNCHANGED <<<<Job>>, <<~Gone>>, <<Local>>>>
  BY <1>1, <1>2 DEF Review, Run, T!github, T!queue, One, Only, Dropped, LocalsOf
<1>7. T!Fail(1)
  BY <1>3, <1>4, <1>5, <1>6 DEF T!Fail, Spent, Job, Local, Findings, Only
<1>8. QED
  BY <1>7 DEF Shown, T!Step

\* The transaction of the verdict, after a call that returned.
LEMMA WriteSeen ==
  ASSUME CallInv, CallInv', at = "called", at' = "over", end = "returned",
         end' = "returned", UNCHANGED <<partial, answer>>
  PROVE  Shown
<1> DEFINE k == Known.refused
<1>1. /\ Review("running", NewRow, 0, 1, {}) /\ Run("persist", k)
      /\ Review(IF partial THEN "partial" ELSE "completed", DoneRow,
                IF k THEN 0 ELSE 1, 1, {})'
      /\ Run("return", k)'
  BY Viewed, ViewedNext DEF Views, Called, Written
<1>2. Note' = Note /\ Gone = FALSE /\ Gone' = FALSE /\ Known' = Known /\ k' = k
  BY DEF Note, Gone, Known, Report
<1>3. <<Where>>[1] = "persist" /\ <<Job>>[1] = "sha" /\ T!Goto(1, "return")
  BY <1>1, OneSlot DEF Run, T!Goto
<1>4. /\ <<Local>>[1].note = Note /\ <<Local>>[1].refused = k
      /\ <<Local>>[1].diff = "none" /\ <<Local>>[1].files = "none"
  BY <1>1, OneSlot DEF Run, LocalsOf
<1>5. partial \in BOOLEAN /\ k \in BOOLEAN /\ (Note \in T!PartialReasons) = partial
  BY Refusals DEF CallInv, Note, T!PartialReasons
<1>6. T!Verdict(1) = IF partial THEN "partial" ELSE "completed"
  <2>1. (<<Local>>[1].note \in T!PartialReasons) <=> partial
    BY <1>4, <1>5
  <2>2. QED
    BY <2>1 DEF T!Verdict, Local
<1>7. Only(status)' = [Only(status) EXCEPT ![<<Job>>[1]] = T!Verdict(1)]
  <2>1. status' = T!Verdict(1)
    BY <1>1, <1>6 DEF Review
  <2>2. Only(status)' = Only(status')
    BY DEF Only
  <2>3. [Only(status) EXCEPT !["sha"] = T!Verdict(1)] = Only(T!Verdict(1))
    BY OneSlot
  <2>4. QED
    BY <1>3, <2>1, <2>2, <2>3, Zenon
<1> DEFINE new == [partial  |-> <<Local>>[1].note \in T!PartialReasons,
                   reason   |-> <<Local>>[1].note, finished |-> TRUE,
                   error    |-> IF <<Local>>[1].refused THEN "refusal"
                                ELSE Only(Row)[<<Job>>[1]].error,
                   diff     |-> <<Local>>[1].diff, anchor |-> <<Local>>[1].files]
<1>8. Only(Row)' = [Only(Row) EXCEPT ![<<Job>>[1]] = new]
  <2>1. Only(Row)[<<Job>>[1]].error = "none"
    <3>1. Row.error = "none"
      BY <1>1 DEF Review, NewRow, RowOf
    <3>2. Only(Row)["sha"] = Row
      BY OneSlot
    <3>3. QED
      BY <1>3, <3>1, <3>2, Zenon
  <2>2. new = RowOf(partial, Note, TRUE, IF k THEN "refusal" ELSE "none")
    BY <1>4, <1>5, <2>1 DEF RowOf
  <2>3. Row' = RowOf(partial, Note, TRUE, IF k THEN "refusal" ELSE "none")
    BY <1>1, <1>2 DEF Review, DoneRow, RowOf
  <2>4. Only(Row)' = Only(Row')
    BY DEF Only
  <2> HIDE DEF new
  <2>5. [Only(Row) EXCEPT !["sha"] = new] = Only(new)
    BY OneSlot
  <2>6. QED
    BY <1>3, <2>2, <2>3, <2>4, <2>5, Zenon
<1>9. Findings' = [Findings EXCEPT ![<<Job>>[1]] = IF <<Local>>[1].refused THEN @ ELSE @ + 1]
  <2>1. Findings = Only(0) /\ Findings' = Only(IF k THEN 0 ELSE 1)
    BY <1>1, <1>2 DEF Review, Only
  <2>2. [Only(0) EXCEPT !["sha"] = IF k THEN @ ELSE @ + 1] = Only(IF k THEN 0 ELSE 1)
    BY <1>5 DEF Only
  <2>3. QED
    BY <1>3, <1>4, <2>1, <2>2, Zenon
<1>10. UNCHANGED <<T!github, Spent, T!queue, <<Job>>, <<~Gone>>, <<Local>>>>
  BY <1>1, <1>2 DEF Review, Run, T!github, T!queue, One, Only, Dropped, LocalsOf
<1>11. T!Persist(1, TRUE)
  BY <1>3, <1>7, <1>8, <1>9, <1>10 DEF T!Persist, Spent, Job, Local, Findings, Only
<1>12. QED
  BY <1>11 DEF Shown, T!Step

\* Every step of the call is a step of the run, of the broker, or not seen.
LEMMA CallSeen == CallInv /\ [Next]_vars => [T!Step(1) \/ T!Broker(1)]_(T!vars)
<1> SUFFICES ASSUME CallInv, [Next]_vars PROVE Shown
  BY DEF Shown
<1>1. CallInv'
  BY CallNext
<1>2. CASE \E a \in Answers : Answer(a)
  BY <1>1, <1>2, CallUnseen DEF Answer
<1>3. CASE Retry
  BY <1>1, <1>3, CallUnseen DEF Retry
<1>4. CASE Error
  BY <1>1, <1>4, CallUnseen DEF Error, End
<1>5. ASSUME NEW how \in {"returned", "raised", "escaped"}, at # "over", End(Becomes(how)),
             UNCHANGED <<partial, status>>, how = "returned" => at = "close"
      PROVE  Shown
  <2>1. CASE at = "call"
    <3>1. at' = "close" /\ partial' = partial
      BY <1>5, <2>1 DEF End
    <3>2. QED
      BY <1>1, <2>1, <3>1, CallUnseen
  <2>2. CASE at = "close"
    <3>1. Becomes(how) = how /\ paid = FALSE
      BY <2>2 DEF Becomes, CallInv
    <3>2. CASE how = "returned"
      BY <1>1, <1>5, <2>2, <3>1, <3>2, ReturnSeen DEF End
    <3>3. CASE how = "raised"
      <4>1. answer' = NoAnswer
        BY <1>5, <3>1, <3>3 DEF End
      <4>2. Known'.refused = FALSE
        BY <4>1 DEF Known, Report, NoAnswer
      <4>3. QED
        BY <1>1, <1>5, <2>2, <3>1, <3>3, <4>2, RaiseSeen DEF End
    <3>4. CASE how = "escaped"
      BY <1>1, <1>5, <2>2, <3>1, <3>4, EscapeSeen DEF End
    <3>5. QED
      BY <1>5, <3>2, <3>3, <3>4
  <2>3. CASE at = "called"
    <3>1. paid = TRUE /\ end \in {"returned", "raised"} /\ answer' = answer /\ paid' = paid
      BY <1>5, <2>3 DEF End, CallInv
    <3>2. CASE Becomes(how) = "escaped"
      BY <1>1, <1>5, <2>3, <3>1, <3>2, EscapeSeen DEF End
    <3>3. CASE Becomes(how) = "raised" /\ end = "returned"
      BY <1>1, <1>5, <2>3, <3>1, <3>3, UndoneSeen DEF End
    <3>4. QED
      BY <1>5, <2>3, <3>1, <3>2, <3>3 DEF Becomes
  <2>4. QED
    BY <1>5, <2>1, <2>2, <2>3 DEF CallInv
<1>6. ASSUME NEW fails \in BOOLEAN, Close(fails) PROVE Shown
  <2> DEFINE how == IF fails THEN "raised" ELSE end
  <2>1. at = "close" /\ how \in {"returned", "raised", "escaped"} /\ Becomes(how) = how
    BY <1>6 DEF Close, CallInv, Becomes
  <2>2. End(how) /\ UNCHANGED <<partial, status>>
    BY <1>6 DEF Close
  <2> HIDE DEF how
  <2>3. QED
    BY <1>5, <2>1, <2>2
<1>7. CASE Undone
  BY <1>5, <1>7 DEF Undone
<1>8. ASSUME NEW how \in {"raised", "escaped"}, Strike(how) PROVE Shown
  BY <1>5, <1>8 DEF Strike, SoftDue
<1>9. CASE Kill
  BY <1>1, <1>9, KillSeen DEF Kill, HardDue
<1>10. CASE Settle
  BY <1>1, <1>10, WriteSeen, FailSeen DEF Settle, CallInv
<1>11. CASE Tick
  <2>1. UNCHANGED <<Row, Findings, Spent, Dropped, Where, Job, Gone, Local, status>>
    BY <1>11 DEF Tick, Row, Findings, Spent, Dropped, Where, Job, Gone, Local, One, Stored,
         Known, Report, Note, Work
  <2>2. QED
    BY <2>1, Unseen DEF Shown
<1>12. CASE UNCHANGED vars
  BY <1>12, Unseen
     DEF vars, Shown, Row, Findings, Spent, Dropped, Where, Job, Gone, Local, One, Stored,
         Known, Report, Note, Work
<1>13. QED
  BY <1>2, <1>3, <1>4, <1>6, <1>7, <1>8, <1>9, <1>10, <1>11, <1>12 DEF Next

\* What ReviewTask takes for one call of a run (Review, Raise, Escape, HardLimit)
\* and for the transaction after it (Persist, Fail, and Raise, Escape and HardLimit
\* there) is what the attempts, the two limits, the closing of the client and a
\* transaction that hangs or is rolled back add up to, for any timeout, retries and
\* limits (agent/reviewer.py:61-93, apps/worker/tasks.py:88-90, 174-194).
THEOREM CallImplementsTask == Spec => TaskSeesItsCall
BY CallInit, CallNext, CallSeen, PTL DEF Spec, TaskSeesItsCall

===============================================================================
