--------------------------- MODULE MCWebhookIntake ---------------------------
(* WebhookIntake on a small instance: two commits, three deliveries, every     *)
(* kind of request the handler tells apart.                                    *)
EXTENDS WebhookIntake

CONSTANTS k1, k2

Good(k) == [signed |-> TRUE, json |-> TRUE, event |-> "pull_request",
            action |-> "opened", draft |-> FALSE, bot |-> FALSE,
            complete |-> TRUE, key |-> k]

MCRequest ==
  {Good(k) : k \in {k1, k2}} \union
  {[Good(k1) EXCEPT !.signed = FALSE], [Good(k1) EXCEPT !.json = FALSE],
   [Good(k1) EXCEPT !.event = "other"], [Good(k1) EXCEPT !.action = "closed"],
   [Good(k1) EXCEPT !.draft = TRUE], [Good(k1) EXCEPT !.bot = TRUE],
   [Good(k1) EXCEPT !.complete = FALSE]}

(* The behaviours of Spec in which PostgreSQL and the process hold out: what    *)
(* fails is the publish.                                                       *)
OnlyRedisFails ==
  Init /\ [][\E d \in Delivery : \/ \E r \in Request : Receive(d, r)
                                 \/ Handle(d)
                                 \/ \E stored \in BOOLEAN : EnqueueFails(d, stored)]_vars
==============================================================================
