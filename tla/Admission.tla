------------------------------ MODULE Admission ------------------------------
(***************************************************************************)
(* What the webhook endpoint promises the worker: a commit of a pull       *)
(* request is recorded once, and after that it is handed to the queue at   *)
(* most once, however many deliveries of it GitHub makes and however they  *)
(* interleave.  WebhookIntake implements this specification.               *)
(***************************************************************************)
EXTENDS Naturals

CONSTANT Key        \* (repository_id, pr_number, head_sha) triples

VARIABLES recorded, \* the keys that have a row in the table reviews
          sent      \* messages sent to the queue "reviews", per key

vars == <<recorded, sent>>

Init == /\ recorded = {}
        /\ sent = [k \in Key |-> 0]

Record(k) == /\ k \notin recorded
             /\ recorded' = recorded \union {k}
             /\ UNCHANGED sent

Send(k) == /\ k \in recorded
           /\ sent[k] = 0
           /\ sent' = [sent EXCEPT ![k] = 1]
           /\ UNCHANGED recorded

Next == \E k \in Key : Record(k) \/ Send(k)

Spec == Init /\ [][Next]_vars
==============================================================================
