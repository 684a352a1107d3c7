------------------------------ MODULE MCPRGuard ------------------------------
(* PRGuard on a small instance: every delivery is an acceptable event of one    *)
(* of the commits, or a draft.                                                  *)
EXTENDS PRGuard

Accepted(s) == [signed |-> TRUE, json |-> TRUE, event |-> "pull_request",
                action |-> "synchronize", draft |-> FALSE, bot |-> FALSE,
                complete |-> TRUE, key |-> s]

MCRequest == {Accepted(s) : s \in Sha} \union
             {[Accepted(s) EXCEPT !.draft = TRUE] : s \in Sha}
==============================================================================
