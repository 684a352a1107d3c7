---------------------------- MODULE MCReviewTask ----------------------------
(* ReviewTask on small instances.                                            *)
EXTENDS ReviewTask, TLC

\* Two commits, of which one is ever recorded (the delivery of the other is
\* skipped, say): the runs of one review race with each other and with pushes.
OneReview == Cardinality({s \in Sha : status[s] # "absent"}) <= 1

MCSymmetry == Permutations(Slot) \union Permutations(Sha)
=============================================================================
