--------------------------- MODULE ReviewLifecycle ---------------------------
(***************************************************************************)
(* The life of a review row as its readers may rely on it: recorded once,  *)
(* started once, settled once.  A settled verdict can still be overruled   *)
(* by "failed" (the commit that settled it was applied but reported as an  *)
(* error), and nothing follows "failed".  Once the message of a review is  *)
(* delivered again, all bets about that review, and no other, are off.     *)
(* ReviewTask implements this specification.                               *)
(***************************************************************************)
CONSTANT Sha

VARIABLE status

Verdicts == {"completed", "partial", "skipped"}

Init == status = [s \in Sha |-> "absent"]

Move(s, from, to) == /\ status[s] \in from
                     /\ \E t \in to : status' = [status EXCEPT ![s] = t]

Record(s) == Move(s, {"absent"}, {"queued"})
Start(s)  == Move(s, {"queued"}, {"running"})
Settle(s) == Move(s, {"running"}, Verdicts \union {"failed"})
Overrule(s) == Move(s, Verdicts, {"failed"})

\* The message is put back in the queue: the row may go anywhere from here.
Reissue(s) == Move(s, {"queued", "running", "failed"} \union Verdicts, {"reissued"})

Next == \E s \in Sha :
          Record(s) \/ Start(s) \/ Settle(s) \/ Overrule(s) \/ Reissue(s)

Spec == Init /\ [][Next]_status
==============================================================================
