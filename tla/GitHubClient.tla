---------------------------- MODULE GitHubClient ----------------------------
(***************************************************************************)
(* The GitHub client of a review (github/client.py): the retry loop of     *)
(* _request under the four calls the pipeline makes in turn, the second of *)
(* them once per page and the last once per file, while the branch of the  *)
(* pull request may be pushed to.                                          *)
(*                                                                         *)
(* A step of the client is one attempt: the request, the reply, what the   *)
(* loop and its caller make of it, and the sleep before the next attempt,  *)
(* however long it is.                                                     *)
(***************************************************************************)
EXTENDS Naturals, Sequences

CONSTANTS Sha,          \* commits the branch may be at
          File,         \* entries of the lists of changed files
          ListOf,       \* what a pull request with that head changes, by path
          MaxAttempts,  \* MAX_ATTEMPTS
          MaxFiles,     \* settings.MAX_CHANGED_FILES
          PerPage,      \* files GitHub puts on a page
          None

ASSUME ClientAssumption == /\ MaxAttempts \in Nat \ {0} /\ MaxFiles \in Nat \ {0}
                           /\ PerPage \in Nat \ {0}
                           /\ ListOf \in [Sha -> Seq(File)] /\ None \notin Sha

Codes == {"ok", "404", "403", "other", "5xx", "lost"}

\* lost: a timeout or a transport error, there is no reply.  other: 429 and any
\* other status from 400 up.  after: there is a Retry-After, of "0" or more.
\* exhausted: x-ratelimit-remaining is 0.
Replies == [code: Codes, after: BOOLEAN, exhausted: BOOLEAN]

VARIABLES head,     \* GitHub: where the branch is
          sha,      \* expected_head_sha
          op,       \* the call in progress, or "done"
          attempt,  \* the attempt of its request that comes next
          page, got,\* locals of get_pull_files
          torn,     \* the head moved between two pages
          filesAt,  \* the head when the last page was sent
          diffAt,   \* the head when the diff was sent
          left,     \* files whose content is still to be fetched
          outcome   \* how the fetching ended

fetched == <<page, got, torn, filesAt, diffAt, left>>
vars == <<head, sha, op, attempt, page, got, torn, filesAt, diffAt, left, outcome>>

Init == /\ head \in Sha /\ sha \in Sha
        /\ op = "pull" /\ attempt = 1 /\ page = 1 /\ got = <<>> /\ torn = FALSE
        /\ filesAt = None /\ diffAt = None /\ left = 0
        /\ outcome = "running"

Least(m, n) == IF m <= n THEN m ELSE n

\* The branch moves.
Push(s) == /\ s # head /\ head' = s
           /\ torn' = (torn \/ (op = "files" /\ page > 1))
           /\ UNCHANGED <<sha, op, attempt, page, got, filesAt, diffAt, left,
                          outcome>>

-----------------------------------------------------------------------------
(* _request.                                                                *)

\* The loop goes round again, after a sleep.  (After a lost reply it sleeps on the
\* last attempt, too, and then gives up.)
Again(r) == /\ attempt < MaxAttempts
            /\ r.code \in {"lost", "5xx"} \/ (r.code = "403" /\ r.after)

\* The request is over, but with an exception instead of a response.  That the
\* limit is used up is noticed on a 403 only, and then when it is not retried.
Raises(r) == ~Again(r) /\ (r.code = "lost" \/ (r.code = "403" /\ r.exhausted))

\* What an attempt does whatever becomes of its reply.
Attempt == op # "done" /\ UNCHANGED <<head, sha>>

\* Mutant: a retry that fails calls _request again, which counts from 1.
Round_afresh == attempt' = IF attempt = 1 THEN 2 ELSE 1

\* The next value of the loop's counter.
Round == attempt' = attempt + 1

Retry == /\ Attempt
         /\ \E r \in Replies : Again(r)
         /\ Round
         /\ UNCHANGED <<op, fetched, outcome>>

-----------------------------------------------------------------------------
(* What the callers make of a response.                                     *)

\* The fetching ends in this way.
End(how) == op' = "done" /\ outcome' = how /\ UNCHANGED <<attempt, fetched>>

\* The next request is made, by the call named.
Call(name) == op' = name /\ attempt' = 1 /\ UNCHANGED outcome

\* An exception of _request goes through every caller, and so does the
\* GitHubError that all but get_file_content raise for a status from 400 up.
Error == /\ Attempt
         /\ \E r \in Replies :
              /\ ~Again(r)
              /\ \/ Raises(r) /\ End("raised")
                 \/ /\ ~Raises(r) /\ op # "content" /\ r.code # "ok"
                    /\ End(IF r.code = "404" THEN "not_found" ELSE "raised")

Ok(name) == op = name /\ Attempt

\* Mutant: the head is not compared with the commit of the review.
Superseded_never == FALSE

\* A newer commit has landed (tasks.py:111).
Superseded == head # sha

GetPullRequest ==
  /\ Ok("pull")
  /\ IF Superseded THEN End("superseded")
                   ELSE Call("files") /\ UNCHANGED fetched

\* A page of the list, and whether its Link header names a next one.
Batch(n) == SubSeq(ListOf[head], (n - 1) * PerPage + 1,
                   Least(n * PerPage, Len(ListOf[head])))
HasNext(n) == n * PerPage < Len(ListOf[head])

\* A turn of the loop of get_pull_files.  (An empty page has no next one.)
GetPullFiles ==
  /\ Ok("files")
  /\ got' = got \o Batch(page)
  /\ IF HasNext(page) /\ Len(got') < MaxFiles
     THEN Call("files") /\ page' = page + 1 /\ UNCHANGED filesAt
     ELSE Call("diff") /\ filesAt' = head /\ UNCHANGED page
  /\ UNCHANGED <<torn, diffAt, left>>

\* Mutant: the last page is kept whole.
Files_uncut == got

\* files[:max_files]
Files == SubSeq(got, 1, Least(Len(got), MaxFiles))

\* Of the files, n are reviewable: their content is fetched, one by one.
GetDiff(n) ==
  /\ Ok("diff")
  /\ diffAt' = head
  /\ left' = n
  /\ IF n = 0 THEN op' = "done" /\ outcome' = "fetched" /\ UNCHANGED attempt
              ELSE Call("content")
  /\ UNCHANGED <<page, got, torn, filesAt>>

\* Any response will do: the text, or None, which to the caller is all one.
\* none: the file is missing or binary; large: it is over max_bytes; failed: any
\* other status from 400 up.
Results == {"text", "none", "large", "failed"}
Contents(code) == CASE code = "ok"  -> {"text", "none", "large"}
                    [] code = "404" -> {"none"}
                    [] OTHER        -> {"failed"}

GetFileContent(content) ==
  /\ op = "content" /\ Attempt
  /\ \E r \in Replies : ~Again(r) /\ ~Raises(r) /\ content \in Contents(r.code)
  /\ left' = left - 1
  /\ attempt' = 1
  /\ IF left = 1 THEN op' = "done" /\ outcome' = "fetched"
                 ELSE UNCHANGED <<op, outcome>>
  /\ UNCHANGED <<page, got, torn, filesAt, diffAt>>

\* The client's own steps; how many files are reviewable is the caller's business.
Step == \/ Retry \/ Error \/ GetPullRequest \/ GetPullFiles
        \/ \E n \in 0..Len(Files) : GetDiff(n)
        \/ \E c \in Results : GetFileContent(c)

Next == Step \/ \E s \in Sha : Push(s)

\* Every attempt ends: with a reply or at GITHUB_TIMEOUT_SECONDS.
Spec == Init /\ [][Next]_vars /\ WF_vars(Step)

-----------------------------------------------------------------------------
(* Properties.                                                              *)

\* Every local keeps its type.
TypeOK == /\ head \in Sha /\ sha \in Sha
          /\ op \in {"pull", "files", "diff", "content", "done"}
          /\ attempt \in 1..MaxAttempts
          /\ page \in Nat \ {0} /\ got \in Seq(File) /\ left \in Nat
          /\ torn \in BOOLEAN
          /\ filesAt \in Sha \union {None} /\ diffAt \in Sha \union {None}
          /\ outcome \in {"running", "raised", "not_found", "superseded", "fetched"}
          /\ (op = "done") <=> (outcome # "running")
          /\ op = "content" => left > 0

\* Whichever requests had to be retried, and wherever the branch moved before
\* the first page and after the last, the list is that of one commit: its first
\* MaxFiles files, in order, none missing and none twice.
FilesAreTheFirst ==
  filesAt # None /\ ~torn =>
    Files = SubSeq(ListOf[filesAt], 1, Least(Len(ListOf[filesAt]), MaxFiles))

\* The requests still to be made, at most, and the attempts at them, less those
\* made at the present one.
Pages     == (MaxFiles - 1) \div PerPage + 1
CallsLeft == CASE op = "pull"    -> Pages + MaxFiles + 2
               [] op = "files"   -> (Pages + 1 - page) + MaxFiles + 1
               [] op = "diff"    -> MaxFiles + 1
               [] op = "content" -> left
               [] op = "done"    -> 0
AttemptsLeft == IF op = "done" THEN 0 ELSE MaxAttempts * CallsLeft - (attempt - 1)

\* A run makes at most MaxAttempts * (Pages + MaxFiles + 2) requests, whatever
\* GitHub answers: every attempt leaves fewer, retries of calls, pages and contents
\* taken together, and no push, though it lengthens the list, gives one back.
RequestsAreBounded == [][/\ AttemptsLeft' \in Nat
                         /\ Step => AttemptsLeft' < AttemptsLeft
                         /\ ~Step => AttemptsLeft' = AttemptsLeft]_vars
=============================================================================
