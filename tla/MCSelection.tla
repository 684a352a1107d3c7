----------------------------- MODULE MCSelection -----------------------------
(* Selection on every list of at most MaxListed files: reviewable ones of each  *)
(* size with each kind of content, and one of each kind that is not reviewable. *)
EXTENDS Selection, SequencesExt

CONSTANT MaxListed

Source(lines, content, chars) ==
  [path |-> 0, lines |-> lines, patch |-> TRUE, removed |-> FALSE, source |-> TRUE,
   ignored |-> FALSE, content |-> content, chars |-> chars]

Reviewables == {Source(n, "text", c) : n \in 1..4, c \in {1, 2, 4}} \union
               {Source(1, "none", 1), Source(2, "generated", 1)}

Others == {[Source(1, "text", 1) EXCEPT !.patch = FALSE],
           [Source(1, "none", 1) EXCEPT !.removed = TRUE],
           [Source(4, "text", 1) EXCEPT !.source = FALSE],
           [Source(4, "text", 1) EXCEPT !.ignored = TRUE]}

\* A list in the order of the paths.
ByPath(q) == [i \in DOMAIN q |-> [q[i] EXCEPT !.path = i]]

MCPullRequests == {ByPath(q) : q \in BoundedSeq(Reviewables \union Others, MaxListed)}
==============================================================================
