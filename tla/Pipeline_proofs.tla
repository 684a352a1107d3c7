--------------------------- MODULE Pipeline_proofs ---------------------------
(***************************************************************************)
(* Proofs about a run of the pipeline.  The first part is about the GitHub *)
(* client alone, for any lists, page size, caps and number of attempts:    *)
(* the list of files is a prefix of the list of one commit, and a run      *)
(* makes a bounded number of requests.  The second takes over what         *)
(* Selection_proofs shows of the budgets.                                  *)
(***************************************************************************)
EXTENDS Pipeline, SequenceTheorems, FiniteSetTheorems, TLAPS

(***************************************************************************)
(* The GitHub client.                                                      *)
(***************************************************************************)

\* Before the last page the client has, unless the branch has moved since the
\* first one, all of the pages before the one it asks for.
Before == (page - 1) * PerPage
Gathered ==
  /\ op \in {"pull", "files"} => filesAt = None
  /\ op \in {"pull", "files"} /\ page = 1 => got = <<>>
  /\ op = "pull" => page = 1
  /\ op = "files" /\ ~torn =>
       Before <= Len(ListOf[head]) /\ got = SubSeq(ListOf[head], 1, Before)

IInv == TypeOK /\ Gathered /\ FilesAreTheFirst

USE ClientAssumption

-----------------------------------------------------------------------------
(* The inductive invariant.                                                 *)

\* What every attempt leaves in place.
LEMMA AttemptType ==
  ASSUME TypeOK, Attempt
  PROVE  op # "done" /\ outcome = "running" /\ head' = head /\ sha' = sha
BY DEF TypeOK, Attempt

\* The list of a commit is a sequence of entries.
LEMMA ListType == ASSUME TypeOK PROVE ListOf[head] \in Seq(File)
BY DEF TypeOK

\* A page is a sequence of files, whatever the page is.
LEMMA BatchType == ASSUME NEW n \in Nat \ {0}, TypeOK PROVE Batch(n) \in Seq(File)
<1> DEFINE from == (n - 1) * PerPage + 1
           to   == Least(n * PerPage, Len(ListOf[head]))
<1>1. ListOf[head] \in Seq(File)
  BY ListType
<1>2. (n - 1) * PerPage \in Nat /\ n * PerPage \in Nat
  OBVIOUS
<1>3. from \in Nat \ {0} /\ to \in Nat /\ to <= Len(ListOf[head])
  <2>1. Len(ListOf[head]) \in Nat
    BY <1>1
  <2>2. from \in Nat \ {0}
    BY <1>2
  <2>3. QED
    BY <1>2, <2>1, <2>2 DEF Least
<1>4. SubSeq(ListOf[head], from, to) \in Seq(File)
  BY <1>1, <1>3
<1>5. QED
  BY <1>4 DEF Batch

\* The list returned is no longer than what was gathered.
LEMMA FilesLength == ASSUME got \in Seq(File) PROVE Len(Files) \in Nat
BY DEF Files, Least

\* Every variable keeps its type along every step.
LEMMA TypeStep == TypeOK /\ [Next]_vars => TypeOK'
<1> SUFFICES ASSUME TypeOK, [Next]_vars PROVE TypeOK'
  OBVIOUS
<1>1. CASE Retry
  <2>1. PICK r \in Replies : Again(r)
    BY <1>1 DEF Retry
  <2>2. QED
    BY <1>1, <2>1, AttemptType DEF Retry, TypeOK, Again, Round, fetched
<1>2. CASE Error
  <2>1. Attempt /\ (End("raised") \/ End("not_found"))
    BY <1>2 DEF Error
  <2>2. QED
    BY <2>1, AttemptType DEF TypeOK, End, fetched
<1>3. CASE GetPullRequest
  BY <1>3, AttemptType DEF GetPullRequest, Ok, TypeOK, Call, End, fetched
<1>4. CASE GetPullFiles
  <2>1. got' \in Seq(File)
    BY <1>4, BatchType DEF GetPullFiles, TypeOK
  <2>2. QED
    BY <1>4, <2>1, AttemptType DEF GetPullFiles, Ok, TypeOK, Call
<1>5. ASSUME NEW n \in 0..Len(Files), GetDiff(n) PROVE TypeOK'
  <2>1. n \in Nat
    BY FilesLength DEF TypeOK
  <2>2. QED
    BY <1>5, <2>1, AttemptType DEF GetDiff, Ok, TypeOK, Call
<1>6. ASSUME NEW c \in Results, GetFileContent(c) PROVE TypeOK'
  BY <1>6, AttemptType DEF GetFileContent, TypeOK
<1>7. ASSUME NEW s \in Sha, Push(s) PROVE TypeOK'
  BY <1>7 DEF Push, TypeOK
<1>8. CASE UNCHANGED vars
  BY <1>8 DEF vars, TypeOK
<1>9. QED
  BY <1>1, <1>2, <1>3, <1>4, <1>5, <1>6, <1>7, <1>8 DEF Next, Step

\* The pages gathered so far are all those before the next one.
LEMMA GatherStep ==
  TypeOK /\ Gathered /\ FilesAreTheFirst /\ [Next]_vars =>
    Gathered' /\ FilesAreTheFirst'
<1> DEFINE List == ListOf[head]
           Upto == Least(page * PerPage, Len(List))
<1> SUFFICES ASSUME TypeOK, Gathered, FilesAreTheFirst, [Next]_vars
             PROVE  Gathered' /\ FilesAreTheFirst'
  OBVIOUS
<1>1. CASE GetPullFiles
  <2>1. /\ op = "files" /\ head' = head /\ torn' = torn /\ got' = got \o Batch(page)
        /\ filesAt = None /\ page \in Nat \ {0} /\ List \in Seq(File) /\ List = (List)'
    BY <1>1, ListType DEF GetPullFiles, Ok, Attempt, Gathered, TypeOK
  <2>2. /\ Before \in Nat /\ page * PerPage = Before + PerPage /\ Len(List) \in Nat
        /\ Upto \in Nat /\ Upto <= Len(List)
    BY <2>1 DEF Before, Least
  <2>3. ~torn => got' = SubSeq(List, 1, Upto) /\ Before <= Upto
    <3>1. SUFFICES ASSUME ~torn PROVE got' = SubSeq(List, 1, Upto) /\ Before <= Upto
      OBVIOUS
    <3>2. Before <= Len(List) /\ got = SubSeq(List, 1, Before)
      BY <2>1, <3>1 DEF Gathered
    <3>3. Before <= Upto
      BY <2>2, <3>2 DEF Least
    <3>4. Batch(page) = SubSeq(List, Before + 1, Upto)
      BY DEF Batch, Before
    <3>5. SubSeq(List, 1, Before) \o SubSeq(List, Before + 1, Upto) = SubSeq(List, 1, Upto)
      <4> HIDE DEF List, Upto
      <4>1. List \in Seq(File) /\ 1 \in 1 .. Len(List) + 1
            /\ Before \in 1 - 1 .. Len(List) /\ Upto \in Before .. Len(List)
        BY <2>1, <2>2, <3>2, <3>3
      <4>2. QED
        BY <4>1, ConcatAdjacentSubSeq
    <3>6. QED
      BY <2>1, <3>2, <3>3, <3>4, <3>5
  <2>4. CASE HasNext(page) /\ Len(got') < MaxFiles
    <3>1. op' = "files" /\ page' = page + 1 /\ filesAt' = None
      BY <1>1, <2>1, <2>4 DEF GetPullFiles, Call
    <3>2. Before' = page * PerPage
      BY <3>1, <2>1 DEF Before
    <3>3. Upto = page * PerPage
      BY <2>1, <2>2, <2>4 DEF HasNext, Least
    <3>4. page' # 1
      BY <2>1, <3>1
    <3>5. QED
      BY <2>1, <2>2, <2>3, <3>1, <3>2, <3>3, <3>4 DEF Gathered, FilesAreTheFirst
  <2>5. CASE ~(HasNext(page) /\ Len(got') < MaxFiles)
    <3>1. op' = "diff" /\ filesAt' = head
      BY <1>1, <2>5 DEF GetPullFiles, Call
    <3>2. Gathered'
      BY <3>1 DEF Gathered
    <3>3. ~torn => Files' = SubSeq(List, 1, Least(Len(List), MaxFiles))
      <4>1. SUFFICES ASSUME ~torn PROVE Files' = SubSeq(List, 1, Least(Len(List), MaxFiles))
        OBVIOUS
      <4>2. got' = SubSeq(List, 1, Upto) /\ Len(got') = Upto
        <5>1. got' = SubSeq(List, 1, Upto)
          BY <2>3, <4>1
        <5>2. List \in Seq(File) /\ Upto \in Nat /\ Upto <= Len(List)
          BY <2>1, <2>2
        <5>3. \A i \in 1..Upto : List[i] \in File
          BY <5>2
        <5>4. Len(SubSeq(List, 1, Upto)) = IF 1 <= Upto THEN Upto - 1 + 1 ELSE 0
          BY <5>2, <5>3, SubSeqProperties
        <5>5. QED
          BY <5>1, <5>2, <5>4
      <4>3. Least(Upto, MaxFiles) = Least(Len(List), MaxFiles)
        BY <2>1, <2>2, <2>5, <4>2 DEF HasNext, Least
      <4>4. Least(Upto, MaxFiles) \in 0..Upto
        BY <2>2 DEF Least
      <4>5. SubSeq(SubSeq(List, 1, Upto), 1, Least(Upto, MaxFiles))
              = SubSeq(List, 1, Least(Upto, MaxFiles))
        BY <2>1, <2>2, <4>4, SubSeqOfSubSeq
      <4>6. Files' = SubSeq(got', 1, Least(Len(got'), MaxFiles))
        BY DEF Files
      <4>7. QED
        BY <4>2, <4>3, <4>5, <4>6
    <3>4. QED
      BY <2>1, <3>1, <3>2, <3>3 DEF FilesAreTheFirst
  <2>6. QED
    BY <2>4, <2>5
<1>2. CASE GetPullRequest
  <2>1. /\ op = "pull" /\ head' = head /\ UNCHANGED fetched
        /\ op' \in {"files", "done"}
    BY <1>2 DEF GetPullRequest, Ok, Attempt, Call, End, fetched
  <2>2. page = 1 /\ got = <<>> /\ filesAt = None
    BY <2>1 DEF Gathered
  <2>3. Before = 0 /\ Len(List) \in Nat /\ SubSeq(List, 1, 0) = <<>>
    BY <2>2, ListType, SubSeqEmpty DEF Before
  <2>4. QED
    BY <2>1, <2>2, <2>3 DEF Gathered, FilesAreTheFirst, fetched, Before
<1>3. ASSUME NEW s \in Sha, Push(s) PROVE Gathered' /\ FilesAreTheFirst'
  <2>1. FilesAreTheFirst'
    BY <1>3 DEF Push, FilesAreTheFirst, Files
  <2>2. /\ UNCHANGED <<op, page, got, filesAt>>
        /\ torn' = (torn \/ (op = "files" /\ page > 1))
        /\ ListOf[head'] \in Seq(File) /\ page \in Nat \ {0} /\ torn \in BOOLEAN
    BY <1>3 DEF Push, TypeOK
  <2>3. ASSUME op = "files", ~torn'
        PROVE  Before <= Len(ListOf[head']) /\ got = SubSeq(ListOf[head'], 1, Before)
    <3>1. page = 1 /\ got = <<>>
      <4>1. ~(page > 1)
        BY <2>2, <2>3
      <4>2. page = 1
        BY <2>2, <4>1
      <4>3. QED
        BY <2>3, <4>2 DEF Gathered
    <3>2. Before = 0 /\ Len(ListOf[head']) \in Nat /\ SubSeq(ListOf[head'], 1, 0) = <<>>
      BY <2>2, <3>1, SubSeqEmpty DEF Before
    <3>3. QED
      BY <3>1, <3>2
  <2>4. QED
    BY <2>1, <2>2, <2>3 DEF Gathered, Before
<1>4. CASE Retry \/ UNCHANGED vars
  <2>1. UNCHANGED <<op, page, got, torn, filesAt, head>>
    BY <1>4 DEF Retry, Attempt, fetched, vars
  <2>2. QED
    BY <2>1 DEF Gathered, Before, FilesAreTheFirst, Files
<1>5. CASE \/ Error \/ (\E n \in 0..Len(Files) : GetDiff(n))
           \/ \E c \in Results : GetFileContent(c)
  <2>1. UNCHANGED <<page, got, torn, filesAt>> /\ op' \notin {"pull", "files"}
    BY <1>5 DEF Error, End, GetDiff, Ok, Call, GetFileContent, fetched
  <2>2. QED
    BY <2>1 DEF Gathered, FilesAreTheFirst, Files
<1>6. QED
  BY <1>1, <1>2, <1>3, <1>4, <1>5 DEF Next, Step

LEMMA InitInv == Init => IInv
<1>1. ASSUME Init PROVE TypeOK
  <2>1. head \in Sha /\ sha \in Sha /\ torn \in BOOLEAN
    BY <1>1 DEF Init
  <2>2. attempt \in 1..MaxAttempts /\ page \in Nat \ {0} /\ left \in Nat
    BY <1>1 DEF Init
  <2>3. op = "pull" /\ outcome = "running" /\ filesAt = None /\ diffAt = None
    BY <1>1 DEF Init
  <2>4. got \in Seq(File)
    BY <1>1, EmptySeq DEF Init
  <2>5. QED
    BY <2>1, <2>2, <2>3, <2>4 DEF TypeOK
<1>2. Init => Gathered /\ FilesAreTheFirst
  BY DEF Init, Gathered, FilesAreTheFirst
<1>3. QED
  BY <1>1, <1>2 DEF IInv

LEMMA ClientKeep == IInv /\ [Next]_vars => IInv'
BY TypeStep, GatherStep DEF IInv

\* The inductive invariant holds throughout.
LEMMA Invariance == Spec => []IInv
BY InitInv, ClientKeep, PTL DEF Spec

-----------------------------------------------------------------------------
(* What follows.                                                            *)

\* Every local keeps its type, and the call ends when its outcome is known.
THEOREM Typing == Spec => []TypeOK
BY Invariance, PTL DEF IInv

\* The list is a prefix of the list of one commit, whichever page had to be
\* asked for again and wherever the branch moved but between two pages
\* (client.py:134-152).
THEOREM FirstFiles == Spec => []FilesAreTheFirst
BY Invariance, PTL DEF IInv

-----------------------------------------------------------------------------
(* How often GitHub is asked.                                               *)

\* Pages before the next one are full, so that there are no more of them than fill
\* the cap, and files are asked for up to the cap only.
Bounded == /\ op = "files" => Len(got) = (page - 1) * PerPage /\ Len(got) < MaxFiles
           /\ op = "content" => left <= MaxFiles

\* A step of the client uses up an attempt, and a push does not give one back.
Counted == /\ Step => AttemptsLeft' < AttemptsLeft
           /\ ~Step => AttemptsLeft' = AttemptsLeft

\* One request less is worth all the attempts there may have been at it.
LEMMA OneCallLess ==
  ASSUME NEW c \in Nat, NEW d \in Nat, d < c, NEW a \in 1 .. MaxAttempts
  PROVE  MaxAttempts * d < MaxAttempts * c - (a - 1)
<1>1. MaxAttempts * c = MaxAttempts * (c - 1) + MaxAttempts
  OBVIOUS
<1>2. d <= c - 1 /\ c - 1 \in Nat
  OBVIOUS
<1>3. MaxAttempts * d <= MaxAttempts * (c - 1)
  BY <1>2
<1>4. a - 1 < MaxAttempts
  OBVIOUS
<1>5. MaxAttempts * d \in Nat /\ MaxAttempts * (c - 1) \in Nat
  BY <1>2
<1>6. QED
  BY <1>1, <1>3, <1>4, <1>5

\* As many full pages as are asked for fit under the cap.
LEMMA PagesFit ==
  ASSUME NEW n \in Nat \ {0}, (n - 1) * PerPage < MaxFiles
  PROVE  Pages \in Nat /\ n <= Pages
<1> DEFINE q == (MaxFiles - 1) \div PerPage
<1>1. q \in Nat /\ MaxFiles - 1 < (q + 1) * PerPage
  OBVIOUS
<1>2. Pages = q + 1
  BY DEF Pages
<1> HIDE DEF q
<1>3. ASSUME n - 1 >= q + 1 PROVE FALSE
  <2>1. (n - 1) * PerPage >= (q + 1) * PerPage
    BY <1>1, <1>3
  <2>2. (n - 1) * PerPage \in Nat /\ (q + 1) * PerPage \in Nat
    BY <1>1
  <2>3. QED
    BY <1>1, <2>1, <2>2
<1>4. QED
  BY <1>1, <1>2, <1>3

LEMMA PagesType == Pages \in Nat \ {0}
<1>1. Pages \in Nat /\ 1 <= Pages
  BY PagesFit
<1>2. QED
  BY <1>1

LEMMA CallsType ==
  TypeOK /\ Gathered /\ Bounded =>
    /\ CallsLeft \in 0 .. Pages + MaxFiles + 2
    /\ op # "done" => CallsLeft > 0
    /\ op = "pull" => got = <<>> /\ page = 1
<1> SUFFICES ASSUME TypeOK, Gathered, Bounded
             PROVE  /\ CallsLeft \in 0 .. Pages + MaxFiles + 2
                    /\ op # "done" => CallsLeft > 0
                    /\ op = "pull" => got = <<>> /\ page = 1
  OBVIOUS
<1>1. left \in Nat /\ Pages \in Nat \ {0} /\ page \in Nat \ {0}
  BY PagesType DEF TypeOK
<1>2. op = "pull" => got = <<>> /\ page = 1
  BY DEF Gathered
<1>3. CASE op = "pull"
  BY <1>1, <1>2, <1>3 DEF CallsLeft
<1>4. CASE op = "files"
  <2>1. page <= Pages
    BY <1>1, <1>4, PagesFit DEF Bounded
  <2>2. QED
    BY <1>1, <1>4, <2>1 DEF CallsLeft
<1>5. CASE op = "diff"
  BY <1>1, <1>5 DEF CallsLeft
<1>6. CASE op = "content"
  BY <1>1, <1>6 DEF CallsLeft, Bounded, TypeOK
<1>7. CASE op = "done"
  BY <1>1, <1>7 DEF CallsLeft
<1>8. QED
  BY <1>2, <1>3, <1>4, <1>5, <1>6, <1>7 DEF TypeOK

LEMMA CallsTypeNext == (TypeOK /\ Gathered /\ Bounded)' => (CallsLeft \in 0 .. Pages + MaxFiles + 2)'
BY CallsType, PTL

LEMMA Product == ASSUME NEW m \in Nat, NEW n \in Nat PROVE m * n \in Nat
OBVIOUS

\* The first request takes all of them.
LEMMA AttemptsType ==
  ASSUME TypeOK, Gathered, Bounded
  PROVE  AttemptsLeft \in 0 .. MaxAttempts * (Pages + MaxFiles + 2)
<1>1. CASE op = "done"
  <2>1. MaxAttempts * (Pages + MaxFiles + 2) \in Nat
    BY PagesType
  <2>2. QED
    BY <1>1, <2>1 DEF AttemptsLeft
<1>2. CASE op # "done"
  <2> DEFINE c == CallsLeft
             m == Pages + MaxFiles + 2
  <2>1. c \in Nat /\ c > 0 /\ c <= m /\ m \in Nat /\ attempt \in 1 .. MaxAttempts
    BY <1>2, CallsType, PagesType DEF TypeOK
  <2>2. AttemptsLeft = MaxAttempts * c - (attempt - 1)
    BY <1>2 DEF AttemptsLeft
  <2> HIDE DEF c, m
  <2>3. MaxAttempts * c \in Nat /\ MaxAttempts * m \in Nat /\ MaxAttempts * c <= MaxAttempts * m
    BY <2>1
  <2>4. MaxAttempts * 0 < MaxAttempts * c - (attempt - 1)
    BY <2>1, OneCallLess
  <2>5. QED
    BY <2>1, <2>2, <2>3, <2>4 DEF m
<1>3. QED
  BY <1>1, <1>2

\* A page before the last is full.
LEMMA FullPage ==
  ASSUME TypeOK, HasNext(page) PROVE Len(Batch(page)) = PerPage
<1> DEFINE list == ListOf[head]
           from == (page - 1) * PerPage + 1
           to   == page * PerPage
<1>1. /\ list \in Seq(File) /\ Len(list) \in Nat /\ page \in Nat \ {0}
      /\ (page - 1) * PerPage \in Nat /\ to = (page - 1) * PerPage + PerPage
  BY ListType DEF TypeOK
<1>2. from \in Nat /\ from >= 1 /\ to \in Nat /\ to < Len(list) /\ from <= to
  <2>1. to < Len(list)
    BY DEF HasNext
  <2>2. to \in Nat
    BY <1>1
  <2>3. from = (to - PerPage) + 1 /\ to - PerPage \in Nat
    BY <1>1
  <2>4. QED
    BY <2>1, <2>2, <2>3
<1>3. Least(to, Len(list)) = to
  BY <1>1, <1>2 DEF Least
<1>4. Batch(page) = SubSeq(list, from, to)
  BY <1>3 DEF Batch
<1>5. to - from + 1 = PerPage
  BY <1>1
<1> HIDE DEF list, from, to
<1>6. \A i \in from .. to : list[i] \in File
  BY <1>1, <1>2
<1>7. Len(SubSeq(list, from, to)) = to - from + 1
  BY <1>2, <1>6, SubSeqProperties
<1>8. QED
  BY <1>4, <1>5, <1>7

\* The next request: fewer are left, and it begins with the first attempt.
LEMMA CallMade ==
  ASSUME TypeOK, Gathered, Bounded, TypeOK', Gathered', Bounded',
         op # "done", op' # "done", attempt' = 1, CallsLeft' < CallsLeft
  PROVE  AttemptsLeft' < AttemptsLeft
<1>1. CallsLeft \in Nat /\ attempt \in 1 .. MaxAttempts
  BY CallsType DEF TypeOK
<1>2. CallsLeft' \in Nat
  BY CallsTypeNext
<1>3. AttemptsLeft' = MaxAttempts * CallsLeft' - (1 - 1)
  BY DEF AttemptsLeft
<1>4. AttemptsLeft = MaxAttempts * CallsLeft - (attempt - 1)
  BY DEF AttemptsLeft
<1>5. MaxAttempts * CallsLeft' < MaxAttempts * CallsLeft - (attempt - 1)
  BY <1>1, <1>2, OneCallLess
<1>6. MaxAttempts * CallsLeft' \in Nat
  BY <1>2, Product
<1>7. QED
  BY <1>3, <1>4, <1>5, <1>6

\* The end of the fetching.
LEMMA FetchingDone ==
  ASSUME TypeOK, Gathered, Bounded, op # "done", op' = "done"
  PROVE  AttemptsLeft' < AttemptsLeft
<1>1. CallsLeft \in Nat /\ 0 < CallsLeft /\ attempt \in 1 .. MaxAttempts
  BY CallsType DEF TypeOK
<1>2. MaxAttempts * 0 < MaxAttempts * CallsLeft - (attempt - 1)
  BY <1>1, OneCallLess
<1>3. QED
  BY <1>2 DEF AttemptsLeft

LEMMA CountStep ==
  IInv /\ Bounded /\ [Next]_vars => Bounded' /\ Counted
<1> SUFFICES ASSUME IInv, Bounded, [Next]_vars PROVE Bounded' /\ Counted
  OBVIOUS
<1>1. TypeOK /\ Gathered /\ TypeOK' /\ Gathered'
  BY ClientKeep DEF IInv
<1>2. Len(got) \in Nat /\ Len(got)' \in Nat /\ left \in Nat /\ Len(Files) \in Nat
      /\ Len(Files) <= MaxFiles /\ Pages \in Nat \ {0}
  <2>1. got \in Seq(File) /\ Least(Len(got), MaxFiles) \in Nat
        /\ Least(Len(got), MaxFiles) <= Len(got) /\ Least(Len(got), MaxFiles) <= MaxFiles
    BY <1>1 DEF TypeOK, Least
  <2>2. Len(SubSeq(got, 1, Least(Len(got), MaxFiles))) = Least(Len(got), MaxFiles)
    BY <2>1
  <2>3. QED
    BY <1>1, <2>1, <2>2, PagesType DEF Files, TypeOK
<1>3. ASSUME NEW s \in Sha, Push(s) PROVE Bounded' /\ AttemptsLeft' = AttemptsLeft
  BY <1>3 DEF Push, Bounded, AttemptsLeft, CallsLeft
<1>4. ASSUME UNCHANGED vars PROVE Bounded' /\ AttemptsLeft' = AttemptsLeft
  BY <1>4 DEF vars, Bounded, AttemptsLeft, CallsLeft
<1>5. CASE Retry
  <2>1. /\ op # "done" /\ attempt' = attempt + 1
        /\ UNCHANGED <<op, got, left, page>>
    BY <1>5 DEF Retry, Attempt, Round, fetched
  <2>2. Bounded' /\ CallsLeft' = CallsLeft
    BY <2>1 DEF Bounded, CallsLeft
  <2>3. CallsLeft \in Nat /\ attempt \in Nat
    BY <1>1, CallsType DEF TypeOK
  <2>4. MaxAttempts * CallsLeft \in Nat
    BY <2>3
  <2>5. AttemptsLeft' < AttemptsLeft
    BY <2>1, <2>2, <2>3, <2>4 DEF AttemptsLeft
  <2>6. QED
    BY <1>5, <2>2, <2>5 DEF Counted, Step
<1>6. CASE Error
  <2>1. op # "done" /\ op' = "done"
    BY <1>6 DEF Error, Attempt, End
  <2>2. QED
    BY <1>1, <1>6, <2>1, FetchingDone DEF Bounded, Counted, Step
<1>7. CASE GetPullRequest
  <2>1. /\ op = "pull"
        /\ op' = "done" \/ (op' = "files" /\ attempt' = 1 /\ got' = got /\ page' = page)
    BY <1>7 DEF GetPullRequest, Ok, End, Call, fetched
  <2>2. got = <<>> /\ page = 1
    BY <1>1, <2>1, CallsType
  <2>3. Bounded' /\ (op' = "files" => CallsLeft' < CallsLeft)
    BY <1>2, <2>1, <2>2 DEF Bounded, CallsLeft
  <2>4. QED
    BY <1>1, <1>7, <2>1, <2>3, FetchingDone, CallMade DEF Counted, Step, Attempt,
       GetPullRequest, Ok
<1>8. CASE GetPullFiles
  <2>1. /\ op = "files" /\ attempt' = 1 /\ got' = got \o Batch(page)
        /\ \/ HasNext(page) /\ Len(got') < MaxFiles /\ op' = "files" /\ page' = page + 1
           \/ op' = "diff"
    BY <1>8 DEF GetPullFiles, Ok, Call
  <2>2. got \in Seq(File) /\ Batch(page) \in Seq(File) /\ page \in Nat \ {0}
    BY <1>1, BatchType DEF TypeOK
  <2>3. Len(got') = Len(got) + Len(Batch(page)) /\ Len(Batch(page)) \in Nat
    BY <2>1, <2>2
  <2>4. HasNext(page) => Len(got') = Len(got) + PerPage
    BY <1>1, <2>3, FullPage
  <2>5. Len(got) = (page - 1) * PerPage /\ Len(got) < MaxFiles /\ page <= Pages
    BY <2>1, <2>2, PagesFit DEF Bounded
  <2>6. ((page + 1) - 1) * PerPage = (page - 1) * PerPage + PerPage
    BY <2>2
  <2>7. Bounded'
    BY <2>1, <2>4, <2>5, <2>6 DEF Bounded
  <2>8. CallsLeft' < CallsLeft
    <3>1. UNCHANGED Pages
      BY DEF Pages
    <3>2. CASE op' = "diff"
      BY <1>2, <2>1, <2>2, <2>5, <3>1, <3>2 DEF CallsLeft
    <3>3. CASE op' = "files" /\ page' = page + 1
      BY <1>2, <2>1, <2>2, <3>1, <3>3 DEF CallsLeft
    <3>4. QED
      BY <2>1, <3>2, <3>3
  <2>9. AttemptsLeft' < AttemptsLeft
    BY <1>1, <2>1, <2>7, <2>8, CallMade
  <2>10. QED
    BY <1>8, <2>7, <2>9 DEF Counted, Step
<1>9. ASSUME NEW n \in 0 .. Len(Files), GetDiff(n) PROVE Bounded' /\ Counted
  <2>1. /\ op = "diff" /\ left' = n /\ n <= MaxFiles /\ n \in Nat
        /\ op' = "done" \/ (op' = "content" /\ attempt' = 1)
    BY <1>2, <1>9 DEF GetDiff, Ok, Call
  <2>2. Bounded' /\ (op' = "content" => CallsLeft' < CallsLeft)
    BY <2>1 DEF Bounded, CallsLeft
  <2>3. AttemptsLeft' < AttemptsLeft
    BY <1>1, <2>1, <2>2, FetchingDone, CallMade
  <2>4. QED
    BY <1>9, <2>2, <2>3 DEF Counted, Step
<1>10. ASSUME NEW c \in Results, GetFileContent(c) PROVE Bounded' /\ Counted
  <2>1. /\ op = "content" /\ left' = left - 1
        /\ op' = "done" \/ (op' = "content" /\ attempt' = 1)
    BY <1>10 DEF GetFileContent
  <2>2. Bounded' /\ (op' = "content" => CallsLeft' < CallsLeft)
    BY <1>2, <2>1 DEF Bounded, CallsLeft
  <2>3. AttemptsLeft' < AttemptsLeft
    BY <1>1, <2>1, <2>2, FetchingDone, CallMade
  <2>4. QED
    BY <1>10, <2>2, <2>3 DEF Counted, Step
<1>11. QED
  <2>1. CASE Step
    BY <1>5, <1>6, <1>7, <1>8, <1>9, <1>10, <2>1 DEF Step
  <2>2. CASE ~Step
    BY <1>3, <1>4, <2>2 DEF Next, Counted
  <2>3. QED
    BY <2>1, <2>2

\* A run asks GitHub at most MAX_ATTEMPTS * (Pages + MAX_CHANGED_FILES + 2) times
\* (client.py:69-176), however often the branch moves between the pages and whatever
\* fails: every step of the client takes an attempt off what is left, and a push puts
\* none back.
THEOREM RequestsBounded ==
  Spec => /\ [](AttemptsLeft \in 0 .. MaxAttempts * (Pages + MaxFiles + 2))
          /\ RequestsAreBounded
<1>1. Init => Bounded
  BY DEF Init, Bounded
<1>2. IInv /\ Bounded => AttemptsLeft \in 0 .. MaxAttempts * (Pages + MaxFiles + 2)
  BY AttemptsType DEF IInv
<1>3. IInv /\ Bounded /\ [Next]_vars => Bounded'
  BY CountStep
<1>4. IInv /\ Bounded /\ [Next]_vars => Counted
  BY CountStep
<1>5. IInv /\ Bounded => AttemptsLeft \in Nat
  BY PagesType, AttemptsType DEF IInv
<1>6. (IInv /\ Bounded)' => (AttemptsLeft \in Nat)'
  BY <1>5, PTL
<1>7. IInv /\ Bounded /\ [Next]_vars =>
        [/\ AttemptsLeft' \in Nat
         /\ Step => AttemptsLeft' < AttemptsLeft
         /\ ~Step => AttemptsLeft' = AttemptsLeft]_vars
  BY <1>3, <1>4, <1>6, ClientKeep DEF Counted
<1>8. QED
  BY <1>1, <1>2, <1>3, <1>7, Invariance, PTL DEF Spec, RequestsAreBounded

-----------------------------------------------------------------------------
(***************************************************************************)
(* The run of the pipeline.                                                *)
(***************************************************************************)

SP == INSTANCE Selection_proofs WITH PullRequests <- {<<>>}, outcome <- verdict

USE BudgetsAssumption

\* The budgets have what the fetching made of its lists, once it is done, and
\* have not begun before.
Handed == IF outcome = "fetched" THEN pr = Parsed /\ filesAt \in Sha
                                 ELSE SP!Fresh
Calling == op \in {"diff", "content"} => filesAt \in Sha

PipelineInv == IInv /\ SP!IInv /\ Handed /\ Calling

-----------------------------------------------------------------------------
(* What is taken over from Selection_proofs.                                *)

LEMMA BudgetsStart == pr \in Seq(SP!FileType) /\ SP!Fresh => SP!IInv
BY SP!Start

LEMMA BudgetsKeep == SP!IInv /\ [SP!Next]_(SP!vars) => SP!IInv'
BY SP!Keep

LEMMA BudgetsWhole == SP!IInv => SP!CompletedIsWhole
BY SP!Whole

LEMMA BudgetsCount == SP!IInv /\ SP!Next => SP!Advances
BY SP!TurnTaken

\* The steps of the budgets, seen by the theorems about them.
LEMMA BudgetsStep == S!Next => SP!Next
<1>1. S!Selected = SP!Selected
  BY DEF S!Selected, SP!Selected, S!Fetched, SP!Fetched, S!Reviewable, SP!Reviewable
<1>2. ASSUME NEW A PROVE S!LinesOf(A) = SP!LinesOf(A)
  BY DEF S!LinesOf, SP!LinesOf, S!MapThenSumSet, SP!MapThenSumSet,
         S!MapThenFoldSet, SP!MapThenFoldSet
<1>3. S!LinesOf(S!Selected) = SP!LinesOf(SP!Selected)
  <2>1. SP!LinesOf(S!Selected) = SP!LinesOf(SP!Selected)
    BY <1>1, Zenon
  <2>2. QED
    BY <1>2, <2>1
<1>4. ASSUME S!Select PROVE SP!Select
  BY <1>1, <1>3, <1>4 DEF S!Select, SP!Select
<1>5. ASSUME NEW i \in todo, S!Trim(i) PROVE SP!Trim(i)
  BY <1>5 DEF S!Trim, SP!Trim, S!Smaller, SP!Smaller, S!Fits, SP!Fits
<1>6. ASSUME S!Decide PROVE SP!Decide
  BY <1>6 DEF S!Decide, SP!Decide
<1>7. ASSUME NEW i \in todo, S!Assemble(i) PROVE SP!Assemble(i)
  BY <1>7 DEF S!Assemble, SP!Assemble, S!Earlier, SP!Earlier, S!Room, SP!Room
<1>8. ASSUME S!Conclude PROVE SP!Conclude
  BY <1>8 DEF S!Conclude, SP!Conclude, S!Partial, SP!Partial
<1>9. QED
  BY <1>4, <1>5, <1>6, <1>7, <1>8 DEF S!Next, SP!Next

\* No step of the budgets touches the list.
LEMMA BudgetsKeepTheList == S!Next => pr' = pr
BY DEF S!Next, S!Select, S!Trim, S!Decide, S!Assemble, S!Conclude

-----------------------------------------------------------------------------
(* What is taken over from the client.                                      *)

LEMMA FilesType ==
  TypeOK => Files \in Seq(File) /\ Len(Files) \in Nat /\ DOMAIN Files = 1 .. Len(Files)
<1> SUFFICES ASSUME TypeOK PROVE Files \in Seq(File)
  OBVIOUS
<1>1. got \in Seq(File) /\ Least(Len(got), MaxFiles) \in Nat
      /\ Least(Len(got), MaxFiles) <= Len(got)
  BY DEF TypeOK, Least
<1>2. SubSeq(got, 1, Least(Len(got), MaxFiles)) \in Seq(File)
  BY <1>1
<1>3. QED
  BY <1>2 DEF Files

\* There are no more reviewable files than files.
LEMMA ReviewableCount == TypeOK => Cardinality(ReviewableFiles) \in 0 .. Len(Files)
<1> SUFFICES ASSUME TypeOK PROVE Cardinality(ReviewableFiles) \in 0 .. Len(Files)
  OBVIOUS
<1>1. DOMAIN Files = 1 .. Len(Files) /\ Len(Files) \in Nat
  BY FilesType
<1>2. /\ IsFiniteSet(1 .. Len(Files)) /\ Cardinality(1 .. Len(Files)) = Len(Files)
  <2> DEFINE n == Len(Files)
  <2>1. n \in Nat
    BY <1>1
  <2> HIDE DEF n
  <2>2. IsFiniteSet(1 .. n) /\ Cardinality(1 .. n) = n
    BY <2>1, FS_Interval
  <2>3. QED
    BY <2>2 DEF n
<1>3. ReviewableFiles \subseteq 1 .. Len(Files)
  BY <1>1 DEF ReviewableFiles
<1>4. /\ IsFiniteSet(ReviewableFiles)
      /\ Cardinality(ReviewableFiles) <= Cardinality(1 .. Len(Files))
  BY <1>2, <1>3, FS_Subset
<1>5. QED
  BY <1>1, <1>2, <1>4, FS_CardinalityType

\* Every step of the run is one of the client, or none to it.
LEMMA ClientStep == TypeOK /\ [PipelineNext]_pipelineVars => [Next]_vars
<1> SUFFICES ASSUME TypeOK, [PipelineNext]_pipelineVars PROVE [Next]_vars
  OBVIOUS
<1>1. CASE Fetch
  BY <1>1, ReviewableCount DEF Fetch, Next, Step
<1>2. CASE Budget
  BY <1>2 DEF Budget
<1>3. ASSUME NEW s \in Sha, Move(s) PROVE Next
  BY <1>3 DEF Move, Next
<1>4. CASE UNCHANGED pipelineVars
  BY <1>4 DEF pipelineVars
<1>5. QED
  BY <1>1, <1>2, <1>3, <1>4 DEF PipelineNext

-----------------------------------------------------------------------------
(* The invariant of the run.                                                *)

\* What the fetching hands over is a list of files.
LEMMA ParsedType == TypeOK => Parsed \in Seq(SP!FileType)
<1> SUFFICES ASSUME TypeOK PROVE Parsed \in Seq(SP!FileType)
  OBVIOUS
<1>1. DOMAIN Files = 1 .. Len(Files) /\ Len(Files) \in Nat /\ Files \in Seq(File)
  BY FilesType
<1>2. ASSUME NEW i \in 1 .. Len(Files) PROVE Parsed[i] \in SP!FileType
  <2>1. Files[i] \in SP!FileType
    BY <1>1, EntriesAssumption DEF S!FileType, SP!FileType
  <2>2. [Files[i] EXCEPT !.content = "none"] \in SP!FileType
    BY <2>1 DEF SP!FileType
  <2>3. QED
    BY <1>1, <2>1, <2>2 DEF Parsed
<1>3. Parsed = [i \in 1 .. Len(Files) |-> Parsed[i]]
  BY <1>1 DEF Parsed
<1>4. QED
  BY <1>1, <1>2, <1>3

LEMMA FetchKeeps == PipelineInv /\ Fetch => SP!IInv' /\ Handed' /\ Calling'
<1> SUFFICES ASSUME PipelineInv, Fetch PROVE SP!IInv' /\ Handed' /\ Calling'
  OBVIOUS
<1>1. IInv' /\ TypeOK /\ TypeOK'
  <2>1. TypeOK
    BY DEF PipelineInv, IInv
  <2>2. [Next]_vars
    BY <2>1, ClientStep DEF PipelineNext
  <2>3. QED
    BY <2>1, <2>2, ClientKeep DEF PipelineInv, IInv
<1>2. op # "done" /\ outcome # "fetched"
  <2>1. op # "done"
    BY DEF Fetch, Retry, Error, GetPullRequest, GetPullFiles, GetDiff, GetFileContent,
           Ok, Attempt
  <2>2. QED
    BY <1>1, <2>1 DEF TypeOK
<1>3. SP!Fresh'
  BY <1>2 DEF PipelineInv, Handed, Fetch, budgetVars, SP!Fresh
<1>4. pr' \in Seq(SP!FileType)
  <2>1. Parsed' \in Seq(SP!FileType)
    <3>1. TypeOK' => (Parsed \in Seq(SP!FileType))'
      BY ParsedType, PTL
    <3>2. QED
      BY <1>1, <3>1 DEF SP!FileType
  <2>2. pr \in Seq(SP!FileType)
    BY DEF PipelineInv, SP!IInv, SP!Typed
  <2>3. QED
    BY <2>1, <2>2 DEF Fetch
<1>5. SP!IInv'
  <2>1. (pr \in Seq(SP!FileType) /\ SP!Fresh)' => SP!IInv'
    BY BudgetsStart, PTL
  <2>2. QED
    BY <1>3, <1>4, <2>1 DEF SP!FileType
<1>6. Calling' /\ (outcome' = "fetched" => filesAt' \in Sha)
  <2>1. CASE Retry
    BY <1>2, <2>1 DEF Retry, PipelineInv, Calling, fetched
  <2>2. CASE Error
    BY <1>2, <2>2 DEF Error, End, PipelineInv, Calling, fetched
  <2>3. CASE GetPullRequest
    BY <1>2, <2>3 DEF GetPullRequest, Ok, End, Call, PipelineInv, Calling, fetched
  <2>4. CASE GetPullFiles
    BY <1>1, <1>2, <2>4 DEF GetPullFiles, Ok, Call, TypeOK, Calling
  <2>5. CASE GetDiff(Cardinality(ReviewableFiles))
    BY <1>2, <2>5 DEF GetDiff, Ok, Call, PipelineInv, Calling
  <2>6. ASSUME NEW c \in Results, GetFileContent(c)
        PROVE  Calling' /\ (outcome' = "fetched" => filesAt' \in Sha)
    BY <1>2, <2>6 DEF GetFileContent, PipelineInv, Calling
  <2>7. QED
    BY <2>1, <2>2, <2>3, <2>4, <2>5, <2>6 DEF Fetch
<1>7. Handed'
  BY <1>3, <1>6 DEF Handed, Fetch
<1>8. QED
  BY <1>5, <1>6, <1>7

\* What the fetching handed over stays what it was.
LEMMA ParsedStays ==
  ASSUME UNCHANGED <<got, contents>> PROVE Parsed' = Parsed
BY DEF Parsed, HasText, ResultOf, ReviewableFiles, Files, S!Reviewable

LEMMA BudgetKeeps == PipelineInv /\ Budget => SP!IInv' /\ Handed' /\ Calling'
<1> SUFFICES ASSUME PipelineInv, Budget PROVE SP!IInv' /\ Handed' /\ Calling'
  OBVIOUS
<1>1. outcome = "fetched" /\ S!Next /\ UNCHANGED <<vars, contents>>
  BY DEF Budget
<1>2. SP!IInv'
  BY <1>1, BudgetsStep, BudgetsKeep DEF PipelineInv
<1>3. pr' = pr /\ Parsed' = Parsed
  BY <1>1, BudgetsKeepTheList, ParsedStays DEF vars
<1>4. QED
  BY <1>1, <1>2, <1>3 DEF PipelineInv, Handed, Calling, vars

LEMMA MoveKeeps ==
  PipelineInv /\ (UNCHANGED pipelineVars \/ \E s \in Sha : Move(s))
    => SP!IInv' /\ Handed' /\ Calling'
<1> SUFFICES ASSUME PipelineInv, UNCHANGED pipelineVars \/ \E s \in Sha : Move(s)
             PROVE  SP!IInv' /\ Handed' /\ Calling'
  OBVIOUS
<1>1. /\ UNCHANGED <<contents, pr, budgetVars>>
      /\ UNCHANGED <<op, got, filesAt, outcome>>
  BY DEF Move, Push, pipelineVars, vars
<1>2. UNCHANGED SP!vars
  BY <1>1 DEF SP!vars, budgetVars
<1>3. SP!IInv'
  BY <1>2, BudgetsKeep DEF PipelineInv
<1>4. Parsed' = Parsed
  BY <1>1, ParsedStays
<1>5. QED
  BY <1>1, <1>3, <1>4 DEF PipelineInv, Handed, Calling, SP!Fresh, budgetVars

LEMMA PipelineStart == PipelineInit => PipelineInv
<1> SUFFICES ASSUME PipelineInit PROVE PipelineInv
  OBVIOUS
<1>1. IInv
  BY InitInv DEF PipelineInit
<1>2. SP!Fresh /\ pr \in Seq(SP!FileType)
  BY EmptySeq DEF PipelineInit, S!Init, SP!Fresh
<1>3. SP!IInv
  BY <1>2, BudgetsStart
<1>4. QED
  BY <1>1, <1>2, <1>3 DEF PipelineInit, Init, PipelineInv, Handed, Calling

LEMMA PipelineKeep == PipelineInv /\ [PipelineNext]_pipelineVars => PipelineInv'
<1> SUFFICES ASSUME PipelineInv, [PipelineNext]_pipelineVars PROVE PipelineInv'
  OBVIOUS
<1>1. IInv'
  BY ClientStep, ClientKeep DEF PipelineInv, IInv
<1>2. QED
  BY <1>1, FetchKeeps, BudgetKeeps, MoveKeeps DEF PipelineNext, PipelineInv

\* The inductive invariant of the whole run holds throughout: the client's, the
\* budgets' on the list they were handed, and what is handed from one to the other.
THEOREM RunInvariance == PipelineSpec => []PipelineInv
BY PipelineStart, PipelineKeep, PTL DEF PipelineSpec

\* Whatever the pipeline does around its calls, it makes them as the client does:
\* what the first part shows of the client holds of the run.
THEOREM RunIsTheClients == PipelineSpec => Init /\ [][Next]_vars
<1>1. PipelineInit => Init
  BY DEF PipelineInit
<1>2. PipelineInv /\ [PipelineNext]_pipelineVars => [Next]_vars
  BY ClientStep DEF PipelineInv, IInv
<1>3. QED
  BY <1>1, <1>2, RunInvariance, PTL DEF PipelineSpec

-----------------------------------------------------------------------------
(* The run comes to its end.                                                *)

\* A request uses up an attempt, a turn of the budgets a turn, once the requests
\* are over; a push gives neither back.
RunCounted == /\ Fetch => AttemptsLeft' < AttemptsLeft
              /\ Budget => AttemptsLeft' = AttemptsLeft /\ SP!Advances
              /\ \A s \in Sha : Move(s) => UNCHANGED <<AttemptsLeft, SP!TurnsLeft>>

\* A run of the pipeline cannot go on for ever, whatever fails and however often the
\* branch moves: the attempts left, and after them the turns left of the budgets
\* (tasks.py:106-164), are numbers that its steps decrease.  That it does not stop
\* before its end is what fairness adds: Terminates.
THEOREM RunIsFinite ==
  PipelineSpec => [](AttemptsLeft \in Nat) /\ [][RunCounted]_pipelineVars
<1>1. PipelineInit => Bounded
  BY DEF PipelineInit, Init, Bounded
<1>2. PipelineInv /\ Bounded /\ [PipelineNext]_pipelineVars => Bounded'
  BY ClientStep, CountStep DEF PipelineInv, IInv
<1>3. PipelineInv /\ Bounded => AttemptsLeft \in Nat
  <2>1. MaxAttempts * (Pages + MaxFiles + 2) \in Nat
    BY PagesType, Product
  <2>2. QED
    BY <2>1, AttemptsType DEF PipelineInv, IInv
<1>4. ASSUME PipelineInv, Bounded, [PipelineNext]_pipelineVars PROVE RunCounted
  <2>1. Counted
    BY <1>4, ClientStep, CountStep DEF PipelineInv, IInv
  <2>2. Fetch => Step
    BY <1>4, ReviewableCount DEF Fetch, Step, PipelineInv, IInv
  <2>3. ASSUME Budget PROVE AttemptsLeft' = AttemptsLeft /\ SP!Advances
    <3>1. S!Next /\ UNCHANGED vars
      BY <2>3 DEF Budget
    <3>2. SP!Advances
      BY <1>4, <3>1, BudgetsStep, BudgetsCount DEF PipelineInv
    <3>3. QED
      BY <3>1, <3>2 DEF vars, AttemptsLeft, CallsLeft
  <2>4. ASSUME NEW s \in Sha, Move(s) PROVE UNCHANGED <<AttemptsLeft, SP!TurnsLeft>>
    BY <2>4
       DEF Move, Push, budgetVars, AttemptsLeft, CallsLeft, SP!TurnsLeft, SP!Selected,
           SP!Fetched, SP!Reviewable
  <2>5. QED
    BY <2>1, <2>2, <2>3, <2>4 DEF Counted, RunCounted
<1>5. QED
  BY <1>1, <1>2, <1>3, <1>4, RunInvariance, PTL DEF PipelineSpec

-----------------------------------------------------------------------------
(* What the verdict says of the commit.                                     *)

\* A list that is neither torn nor cut reaches the budgets whole, each file with
\* its text if that was fetched.
LEMMA WholeList ==
  ASSUME PipelineInv, outcome = "fetched", ~torn, Len(ListOf[filesAt]) <= MaxFiles
  PROVE  LET list == ListOf[filesAt]
         IN  /\ DOMAIN pr = DOMAIN list /\ \A i \in DOMAIN list : i <= MaxFiles
             /\ \A i \in DOMAIN list :
                  /\ S!Reviewable(list[i]) => SP!Reviewable(pr[i])
                  /\ S!Reviewable(list[i]) /\ ResultOf(i) = "text" => pr[i] = list[i]
<1> DEFINE list == ListOf[filesAt]
<1>1. filesAt \in Sha /\ pr = Parsed /\ TypeOK
  BY DEF PipelineInv, Handed, IInv
<1>2. list \in Seq(File) /\ Len(list) \in Nat /\ DOMAIN list = 1 .. Len(list)
  BY <1>1
<1>3. Files = list
  <2>1. Files = SubSeq(list, 1, Least(Len(list), MaxFiles))
    BY <1>1 DEF PipelineInv, IInv, FilesAreTheFirst
  <2>2. Least(Len(list), MaxFiles) = Len(list)
    BY <1>2 DEF Least
  <2>3. SubSeq(list, 1, Len(list)) = list
    BY <1>2
  <2>4. QED
    BY <2>1, <2>2, <2>3
<1>4. DOMAIN pr = DOMAIN list /\ \A i \in DOMAIN list : i <= MaxFiles
  BY <1>1, <1>2, <1>3 DEF Parsed
<1>5. ASSUME NEW i \in DOMAIN list
      PROVE  /\ S!Reviewable(list[i]) => SP!Reviewable(pr[i])
             /\ S!Reviewable(list[i]) /\ ResultOf(i) = "text" => pr[i] = list[i]
  <2>1. list[i] \in S!FileType
    BY <1>2, EntriesAssumption
  <2>2. pr[i] = IF HasText(list[i]) THEN list[i] ELSE [list[i] EXCEPT !.content = "none"]
    BY <1>1, <1>3 DEF Parsed
  <2>3. S!Reviewable(list[i]) => SP!Reviewable(pr[i])
    BY <2>1, <2>2 DEF S!Reviewable, SP!Reviewable, S!FileType
  <2>4. S!Reviewable(list[i]) /\ ResultOf(i) = "text" => HasText(list[i])
    BY <1>3 DEF HasText, ReviewableFiles
  <2>5. QED
    BY <2>2, <2>3, <2>4
<1>6. QED
  BY <1>4, <1>5

\* "completed" covers the commit (tasks.py:106-164): of a list neither cut nor torn
\* no reviewable file is missing, and no text that was fetched.
THEOREM CompletedCoversTheCommit == PipelineSpec => []CompletedMeansAll
<1>1. PipelineInv => CompletedMeansAll
  <2> SUFFICES ASSUME PipelineInv, verdict = "completed", ~torn,
                      Len(ListOf[filesAt]) <= MaxFiles,
                      NEW i \in DOMAIN ListOf[filesAt], S!Reviewable(ListOf[filesAt][i])
               PROVE  /\ i \in kept
                      /\ ListOf[filesAt][i].content = "text" /\ ResultOf(i) = "text"
                           => i \in included
    BY DEF CompletedMeansAll
  <2>1. outcome = "fetched"
    BY DEF PipelineInv, Handed, SP!Fresh
  <2>2. phase = "done" /\ kept # {} /\ kept = SP!Selected /\ included = SP!Sendable
    <3>1. phase = "done" /\ kept # {}
      BY <2>1 DEF PipelineInv, SP!IInv, SP!Verdict, SP!Typed
    <3>2. QED
      BY <3>1, BudgetsWhole DEF PipelineInv, SP!CompletedIsWhole
  <2>3. /\ i \in DOMAIN pr /\ i <= MaxFiles /\ SP!Reviewable(pr[i])
        /\ ResultOf(i) = "text" => pr[i] = ListOf[filesAt][i]
    BY <2>1, WholeList
  <2>4. i \in SP!Selected
    BY <2>3 DEF SP!Selected, SP!Fetched
  <2>5. QED
    BY <2>2, <2>3, <2>4 DEF SP!Sendable
<1>2. QED
  BY <1>1, RunInvariance, PTL

-----------------------------------------------------------------------------
(* The run as ReviewTask sees it.                                           *)

\* The locals of the only run.
Local(files, diff, note) ==
  [files |-> files, diff |-> diff, note |-> note, refused |-> FALSE]
Locals == Local(filesAt, diffAt, Note)

\* Changing the only slot changes all there is.
LEMMA OneSlot ==
  ASSUME NEW x, NEW y PROVE <<x>>[1] = x /\ [<<x>> EXCEPT ![1] = y] = <<y>>
OBVIOUS

WithFiles(w, v) == [w EXCEPT ![1].files = v]
WithDiff(w, v)  == [w EXCEPT ![1].diff = v]
WithNote(w, v)  == [w EXCEPT ![1].note = v]

LEMMA OneLocal ==
  ASSUME NEW v
  PROVE  /\ WithFiles(<<Locals>>, v) = <<Local(v, diffAt, Note)>>
         /\ WithDiff(<<Locals>>, v)  = <<Local(filesAt, v, Note)>>
         /\ WithNote(<<Locals>>, v)  = <<Local(filesAt, diffAt, v)>>
<1> DEFINE L(f, d, n, r) == [files |-> f, diff |-> d, note |-> n, refused |-> r]
<1>1. PICK r : r = FALSE
  OBVIOUS
<1>2. ASSUME NEW f, NEW d, NEW n
      PROVE  /\ WithFiles(<<Local(f, d, n)>>, v) = <<Local(v, d, n)>>
             /\ WithDiff(<<Local(f, d, n)>>, v)  = <<Local(f, v, n)>>
             /\ WithNote(<<Local(f, d, n)>>, v)  = <<Local(f, d, v)>>
  <2>1. /\ [<<L(f, d, n, r)>> EXCEPT ![1].files = v] = <<L(v, d, n, r)>>
        /\ [<<L(f, d, n, r)>> EXCEPT ![1].diff = v]  = <<L(f, v, n, r)>>
        /\ [<<L(f, d, n, r)>> EXCEPT ![1].note = v]  = <<L(f, d, v, r)>>
    OBVIOUS
  <2>2. QED
    BY <1>1, <2>1, Zenon DEF Local, WithFiles, WithDiff, WithNote
<1>3. QED
  BY <1>2, Zenon DEF Locals

\* What the steps of the run leave alone.
LEMMA Aside ==
  ASSUME UNCHANGED <<head, sha>>
  PROVE  /\ UNCHANGED <<T!github, T!table, T!queue, <<sha>>, <<TRUE>>>>
         /\ UNCHANGED <<[s \in Sha |-> "running"], Row, Nought, {}, Sha>>
BY DEF T!github, T!table, T!queue, Row, Nought

\* A step that changes neither where the run is nor its locals is none to it.
LEMMA Unseen ==
  ASSUME UNCHANGED <<head, sha>>, UNCHANGED <<Where, filesAt, diffAt, Note>>
  PROVE  UNCHANGED T!vars
<1>1. UNCHANGED <<Where>> /\ UNCHANGED Locals
  BY DEF Locals
<1>2. QED
  BY <1>1, Aside DEF T!vars, Locals

\* Where the run is, and the note it has.
Placed == /\ outcome = "running" =>
               /\ op \in {"pull", "files", "diff", "content"}
               /\ Where = (IF op = "content" THEN "contents" ELSE op) /\ Note = "none"
          /\ outcome = "raised" => Where = "fail" /\ Note = "none"
          /\ outcome = "not_found" => Where = "finish" /\ Note = "pr_not_found"
          /\ outcome = "superseded" => Where = "finish" /\ Note = "superseded"
          /\ outcome = "fetched" =>
               /\ Where = (IF phase # "done" THEN "contents"
                           ELSE IF verdict = "skipped" THEN "finish" ELSE "review")
               /\ Note = (IF phase = "done" THEN reason ELSE "none")

LEMMA Places == TypeOK /\ (outcome # "fetched" => phase = "select") => Placed
<1> SUFFICES ASSUME TypeOK, outcome # "fetched" => phase = "select" PROVE Placed
  OBVIOUS
<1> USE DEF Placed
<1>1. outcome # "running" => op = "done"
  BY DEF TypeOK
<1>2. CASE outcome = "raised"
  BY <1>1, <1>2 DEF Where, Note
<1>3. CASE outcome = "not_found"
  BY <1>1, <1>3 DEF Where, Note
<1>4. CASE outcome = "superseded"
  BY <1>1, <1>4 DEF Where, Note
<1>5. CASE outcome = "fetched"
  <2>1. Where = (IF phase # "done" THEN "contents"
                 ELSE IF verdict = "skipped" THEN "finish" ELSE "review")
    BY <1>1, <1>5 DEF Where
  <2>2. Note = (IF phase = "done" THEN reason ELSE "none")
    BY <1>5 DEF Note
  <2>3. QED
    BY <1>5, <2>1, <2>2
<1>6. CASE outcome = "running"
  BY <1>6 DEF TypeOK, Where, Note
<1>7. QED
  BY <1>2, <1>3, <1>4, <1>5, <1>6 DEF TypeOK

LEMMA PlacesNext == TypeOK' /\ (outcome' # "fetched" => phase' = "select") => Placed'
<1>1. (TypeOK /\ (outcome # "fetched" => phase = "select"))' => Placed'
  BY Places, PTL
<1>2. QED
  BY <1>1

\* The steps of the fetching, each one of the run or none.
Seen == T!Step(1) \/ UNCHANGED T!vars

LEMMA ErrorSeen ==
  ASSUME PipelineInv, TypeOK', phase' = "select", Error PROVE Seen
<1>1. /\ UNCHANGED <<head, sha, filesAt, diffAt>> /\ op' = "done"
      /\ outcome = "running"
      /\ \/ outcome' = "raised"
         \/ op # "content" /\ outcome' \in {"raised", "not_found"}
  BY DEF Error, Attempt, End, fetched, PipelineInv, IInv, TypeOK
<1>2. /\ Where = (IF op = "content" THEN "contents" ELSE op) /\ Note = "none"
      /\ op \in {"pull", "files", "diff", "content"}
  BY <1>1, Places DEF PipelineInv, IInv, Handed, SP!Fresh, Placed
<1>3. Placed'
  BY PlacesNext
<1>4. CASE outcome' = "raised"
  <2>1. UNCHANGED Locals
    BY <1>1, <1>2, <1>3, <1>4 DEF Locals, Placed
  <2>2. T!Raise(1)
    BY <1>1, <1>2, <1>3, <1>4, <2>1, Aside, OneSlot
       DEF T!Raise, T!Goto, T!Handler, T!Pipeline, T!Fetching, Locals, Placed
  <2>3. QED
    BY <2>2 DEF Seen, T!Step
<1>5. CASE op # "content" /\ outcome' = "not_found"
  <2>1. /\ Where = op /\ Where' = "finish" /\ Note' = "pr_not_found"
        /\ filesAt' = filesAt /\ diffAt' = diffAt
    BY <1>1, <1>2, <1>3, <1>5 DEF Placed
  <2>2. T!NotFound(1)
    <3>1. <<Where>>[1] \in {"pull", "files", "diff"}
      BY <1>2, <1>5, <2>1
    <3>2. <<Locals>>' = WithNote(<<Locals>>, "pr_not_found")
      <4>1. WithNote(<<Locals>>, "pr_not_found")
              = <<Local(filesAt, diffAt, "pr_not_found")>>
        BY OneLocal, Zenon
      <4>2. QED
        BY <2>1, <4>1 DEF Locals
    <3>3. T!Goto(1, "finish")
      BY <2>1, OneSlot DEF T!Goto
    <3>4. UNCHANGED <<T!github, T!table, T!queue, <<sha>>, <<TRUE>>>>
      BY <1>1, Aside
    <3>5. QED
      BY <3>1, <3>2, <3>3, <3>4, Zenon DEF T!NotFound, Locals, Local, WithNote
  <2>3. QED
    BY <2>2 DEF Seen, T!Step
<1>6. QED
  BY <1>1, <1>4, <1>5

LEMMA RetrySeen ==
  ASSUME PipelineInv, TypeOK', phase' = "select", Retry PROVE Seen
<1>1. UNCHANGED <<head, sha, op, filesAt, diffAt, outcome>> /\ outcome = "running"
  BY DEF Retry, Attempt, fetched, PipelineInv, IInv, TypeOK
<1>2. Placed /\ Placed'
  BY <1>1, Places, PlacesNext DEF PipelineInv, IInv, Handed, SP!Fresh
<1>3. QED
  BY <1>1, <1>2, Unseen DEF Seen, Placed

LEMMA PullSeen ==
  ASSUME PipelineInv, TypeOK', phase' = "select", GetPullRequest PROVE Seen
<1>1. /\ UNCHANGED <<head, sha, filesAt, diffAt>>
      /\ op = "pull" /\ outcome = "running"
      /\ \/ head # sha /\ outcome' = "superseded"
         \/ head = sha /\ op' = "files" /\ outcome' = "running"
  BY DEF GetPullRequest, Ok, Attempt, End, Call, Superseded, fetched, PipelineInv, IInv, TypeOK
<1>2. Placed /\ Placed'
  BY <1>1, Places, PlacesNext DEF PipelineInv, IInv, Handed, SP!Fresh
<1>3. Where = "pull" /\ Note = "none"
  BY <1>1, <1>2 DEF Placed
<1>4. CASE head # sha /\ outcome' = "superseded"
  <2>1. Where' = "finish" /\ Note' = "superseded"
    BY <1>2, <1>4 DEF Placed
  <2>2. <<Locals>>' = WithNote(<<Locals>>, "superseded")
    <3>1. WithNote(<<Locals>>, "superseded") = <<Local(filesAt, diffAt, "superseded")>>
      BY OneLocal, Zenon
    <3>2. QED
      BY <1>1, <2>1, <3>1 DEF Locals
  <2>3. T!Goto(1, "finish") /\ T!Newer(1) /\ <<Where>>[1] = "pull"
    BY <1>3, <1>4, <2>1, OneSlot DEF T!Goto, T!Newer
  <2>4. UNCHANGED <<T!github, T!table, T!queue, <<sha>>, <<TRUE>>>>
    BY <1>1, Aside
  <2>5. T!Pull(1)
    BY <2>2, <2>3, <2>4, Zenon DEF T!Pull, Locals, Local, WithNote
  <2>6. QED
    BY <2>5 DEF Seen, T!Step
<1>5. CASE head = sha /\ op' = "files" /\ outcome' = "running"
  <2>1. Where' = "files" /\ Note' = "none"
    BY <1>2, <1>5 DEF Placed
  <2>2. UNCHANGED <<Locals>>
    BY <1>1, <1>3, <2>1 DEF Locals
  <2>3. T!Goto(1, "files") /\ ~T!Newer(1) /\ <<Where>>[1] = "pull"
    BY <1>3, <1>5, <2>1, OneSlot DEF T!Goto, T!Newer
  <2>4. UNCHANGED <<T!github, T!table, T!queue, <<sha>>, <<TRUE>>>>
    BY <1>1, Aside
  <2>5. T!Pull(1)
    BY <2>2, <2>3, <2>4, Zenon DEF T!Pull, Locals, Local
  <2>6. QED
    BY <2>5 DEF Seen, T!Step
<1>6. QED
  BY <1>1, <1>4, <1>5

LEMMA FilesSeen ==
  ASSUME PipelineInv, TypeOK', phase' = "select", GetPullFiles PROVE Seen
<1>1. /\ UNCHANGED <<head, sha, diffAt>>
      /\ op = "files" /\ outcome = "running" /\ outcome' = "running"
      /\ \/ op' = "files" /\ filesAt' = filesAt
         \/ op' = "diff" /\ filesAt' = head
  BY DEF GetPullFiles, Ok, Attempt, Call, PipelineInv, IInv, TypeOK
<1>2. Placed /\ Placed'
  BY <1>1, Places, PlacesNext DEF PipelineInv, IInv, Handed, SP!Fresh
<1>3. Where = "files" /\ Note = "none" /\ Where' = op' /\ Note' = "none"
  BY <1>1, <1>2 DEF Placed
<1>4. CASE op' = "files" /\ filesAt' = filesAt
  BY <1>1, <1>3, <1>4, Unseen DEF Seen
<1>5. CASE op' = "diff" /\ filesAt' = head
  <2>1. <<Locals>>' = WithFiles(<<Locals>>, head)
    <3>1. WithFiles(<<Locals>>, head) = <<Local(head, diffAt, Note)>>
      BY OneLocal, Zenon
    <3>2. QED
      BY <1>1, <1>3, <1>5, <3>1 DEF Locals
  <2>2. T!Goto(1, "diff") /\ <<Where>>[1] = "files"
    BY <1>3, <1>5, OneSlot DEF T!Goto
  <2>3. UNCHANGED <<T!github, T!table, T!queue, <<sha>>, <<TRUE>>>>
    BY <1>1, Aside
  <2>4. T!Files(1)
    BY <2>1, <2>2, <2>3, Zenon DEF T!Files, Locals, Local, WithFiles
  <2>5. QED
    BY <2>4 DEF Seen, T!Step
<1>6. QED
  BY <1>1, <1>4, <1>5

LEMMA DiffSeen ==
  ASSUME PipelineInv, TypeOK', phase' = "select", GetDiff(Cardinality(ReviewableFiles))
  PROVE  Seen
<1>1. /\ UNCHANGED <<head, sha, filesAt>> /\ diffAt' = head
      /\ op = "diff" /\ outcome = "running"
      /\ outcome' = "fetched" \/ (op' = "content" /\ outcome' = "running")
  BY DEF GetDiff, Ok, Attempt, Call, PipelineInv, IInv, TypeOK
<1>2. Placed /\ Placed'
  BY <1>1, Places, PlacesNext DEF PipelineInv, IInv, Handed, SP!Fresh
<1>3. Where = "diff" /\ Note = "none" /\ Where' = "contents" /\ Note' = "none"
  BY <1>1, <1>2 DEF Placed
<1>4. <<Locals>>' = WithDiff(<<Locals>>, head)
  <2>1. WithDiff(<<Locals>>, head) = <<Local(filesAt, head, Note)>>
    BY OneLocal, Zenon
  <2>2. QED
    BY <1>1, <1>3, <2>1 DEF Locals
<1>5. T!Goto(1, "contents") /\ <<Where>>[1] = "diff"
  BY <1>3, OneSlot DEF T!Goto
<1>6. UNCHANGED <<T!github, T!table, T!queue, <<sha>>, <<TRUE>>>>
  BY <1>1, Aside
<1>7. T!Diff(1)
  BY <1>4, <1>5, <1>6, Zenon DEF T!Diff, Locals, Local, WithDiff
<1>8. QED
  BY <1>7 DEF Seen, T!Step

LEMMA ContentSeen ==
  ASSUME PipelineInv, TypeOK', phase' = "select", NEW c \in Results, GetFileContent(c)
  PROVE  Seen
<1>1. /\ UNCHANGED <<head, sha, filesAt, diffAt>>
      /\ op = "content" /\ outcome = "running"
      /\ outcome' = "fetched" \/ (op' = "content" /\ outcome' = "running")
  BY DEF GetFileContent, Attempt, PipelineInv, IInv, TypeOK
<1>2. Placed /\ Placed'
  BY <1>1, Places, PlacesNext DEF PipelineInv, IInv, Handed, SP!Fresh
<1>3. Where = "contents" /\ Note = "none" /\ Where' = "contents" /\ Note' = "none"
  BY <1>1, <1>2 DEF Placed
<1>4. QED
  BY <1>1, <1>3, Unseen DEF Seen

\* The budgets end with a verdict, and a reason that goes with it.
LEMMA BudgetEnds ==
  ASSUME SP!IInv, S!Next
  PROVE  /\ phase # "done"
         /\ phase' = "done" =>
              /\ reason' \in {"none", "nothing_reviewable"} \union T!PartialReasons
              /\ verdict' = "skipped" <=> reason' = "nothing_reviewable"
<1>1. SP!Next
  BY BudgetsStep
<1>2. phase = "assemble" => reason \in {"none", "diff_too_large"}
  BY DEF SP!IInv, SP!Reasons
<1>3. CASE SP!Select
  BY <1>3 DEF SP!Select
<1>4. CASE SP!Decide
  BY <1>4 DEF SP!Decide, SP!IInv, SP!Verdict
<1>5. CASE SP!Conclude
  BY <1>2, <1>5 DEF SP!Conclude, T!PartialReasons
<1>6. ASSUME NEW i \in todo, SP!Trim(i) \/ SP!Assemble(i)
      PROVE  phase # "done" /\ phase' # "done"
  BY <1>6 DEF SP!Trim, SP!Assemble
<1>7. QED
  BY <1>1, <1>3, <1>4, <1>5, <1>6 DEF SP!Next

LEMMA BudgetSeen ==
  ASSUME PipelineInv, TypeOK', Budget PROVE Seen
<1>1. /\ UNCHANGED <<head, sha, filesAt, diffAt>>
      /\ outcome = "fetched" /\ outcome' = "fetched" /\ S!Next
  BY DEF Budget, vars
<1>2. Placed /\ Placed'
  BY <1>1, Places, PlacesNext DEF PipelineInv, IInv
<1>3. /\ phase # "done"
      /\ phase' = "done" =>
           /\ reason' \in {"none", "nothing_reviewable"} \union T!PartialReasons
           /\ verdict' = "skipped" <=> reason' = "nothing_reviewable"
  BY <1>1, BudgetEnds DEF PipelineInv
<1>4. Where = "contents" /\ Note = "none"
  BY <1>1, <1>2, <1>3 DEF Placed
<1>5. CASE phase' # "done"
  <2>1. Where' = "contents" /\ Note' = "none"
    BY <1>1, <1>2, <1>5 DEF Placed
  <2>2. QED
    BY <1>1, <1>4, <2>1, Unseen DEF Seen
<1>6. CASE phase' = "done"
  <2>1. /\ Where' = (IF reason' = "nothing_reviewable" THEN "finish" ELSE "review")
        /\ Note' = reason'
    BY <1>1, <1>2, <1>3, <1>6 DEF Placed
  <2> DEFINE note == reason'
  <2>2. <<Locals>>' = WithNote(<<Locals>>, note)
    <3>1. WithNote(<<Locals>>, note) = <<Local(filesAt, diffAt, note)>>
      BY OneLocal, Zenon
    <3>2. QED
      BY <1>1, <2>1, <3>1 DEF Locals
  <2>3. /\ T!Goto(1, IF note = "nothing_reviewable" THEN "finish" ELSE "review")
        /\ <<Where>>[1] = "contents"
    BY <1>4, <2>1, OneSlot DEF T!Goto
  <2>4. UNCHANGED <<T!github, T!table, T!queue, <<sha>>, <<TRUE>>>>
    BY <1>1, Aside
  <2>5. note \in {"none", "nothing_reviewable"} \union T!PartialReasons
    BY <1>3, <1>6
  <2>6. T!Contents(1, note)
    BY <2>2, <2>3, <2>4, <2>5, Zenon DEF T!Contents, Locals, Local, WithNote
  <2>7. note \in T!Reasons
    BY <2>5 DEF T!Reasons, T!SkipReasons
  <2>8. QED
    BY <2>6, <2>7 DEF Seen, T!Step
<1>7. QED
  BY <1>5, <1>6

LEMMA MoveSeen ==
  ASSUME PipelineInv, TypeOK', NEW s \in Sha, Move(s) PROVE T!Push(s)
<1>1. /\ s # head /\ head' = s
      /\ UNCHANGED <<sha, op, filesAt, diffAt, outcome, phase, reason, verdict>>
  BY DEF Move, Push, budgetVars
<1>2. Where' = Where /\ Note' = Note
  BY <1>1 DEF Where, Note
<1>3. UNCHANGED <<T!table, T!queue>>
  BY DEF T!table, T!queue, Row, Nought
<1>4. UNCHANGED <<Locals>>
  BY <1>1, <1>2 DEF Locals
<1>5. UNCHANGED T!runs
  BY <1>1, <1>2, <1>4 DEF T!runs, Locals, Local
<1>6. Sha' = Sha \union {s}
  OBVIOUS
<1>7. QED
  BY <1>1, <1>3, <1>5, <1>6 DEF T!Push

\* What ReviewTask takes for one step is what the retries, the pages, the loops and
\* the budgets add up to (tasks.py:106-164): every step of the run is one of
\* ReviewTask's for its slot, a push, or nothing it can see.
THEOREM RunImplementsTask == PipelineSpec => TaskSeesItsRun
<1>1. ASSUME PipelineInv, TypeOK', SP!IInv', Handed', [PipelineNext]_pipelineVars
      PROVE  [T!Step(1) \/ \E s \in Sha : T!Push(s)]_(T!vars)
  <2>1. CASE Fetch
    <3>1. phase' = "select"
      <4>1. outcome # "fetched"
        BY <1>1, <2>1 DEF Fetch, Retry, Error, GetPullRequest, GetPullFiles, GetDiff,
                    GetFileContent, Ok, Attempt, PipelineInv, IInv, TypeOK
      <4>2. QED
        BY <1>1, <2>1, <4>1 DEF Fetch, budgetVars, PipelineInv, Handed, SP!Fresh
    <3>2. Seen
      BY <1>1, <2>1, <3>1, RetrySeen, ErrorSeen, PullSeen, FilesSeen, DiffSeen, ContentSeen
         DEF Fetch
    <3>3. QED
      BY <3>2 DEF Seen
  <2>2. CASE Budget
    BY <1>1, <2>2, BudgetSeen DEF Seen
  <2>3. ASSUME NEW s \in Sha, Move(s) PROVE T!Push(s)
    BY <1>1, <2>3, MoveSeen
  <2>4. CASE UNCHANGED pipelineVars
    <3>1. UNCHANGED <<head, sha, op, filesAt, diffAt, outcome, phase, reason, verdict>>
      BY <2>4 DEF pipelineVars, vars, budgetVars
    <3>2. QED
      BY <3>1, Unseen DEF Where, Note
  <2>5. QED
    BY <1>1, <2>1, <2>2, <2>3, <2>4 DEF PipelineNext
<1>2. PipelineInv => TypeOK
  BY DEF PipelineInv, IInv
<1>3. QED
  BY <1>1, <1>2, RunInvariance, PTL DEF PipelineSpec, TaskSeesItsRun, PipelineInv

==============================================================================
