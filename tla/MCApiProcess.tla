--------------------------- MODULE MCApiProcess ------------------------------
(* Deliveries of well-formed, signed requests: the rest of the intake is      *)
(* checked in MCWebhookIntake.                                               *)
EXTENDS ApiProcess

MCRequest == {[signed |-> TRUE, json |-> TRUE, event |-> "pull_request",
               action |-> "opened", draft |-> FALSE, bot |-> FALSE,
               complete |-> TRUE, key |-> k] : k \in Key}
==============================================================================
