------------------------------ MODULE MCPipeline ------------------------------
(* Pipeline on a small instance: three commits whose lists share files, with     *)
(* more files than the cap, fewer, and none.                                      *)
EXTENDS Pipeline

Source(path, lines, chars) ==
  [path |-> path, lines |-> lines, patch |-> TRUE, removed |-> FALSE, source |-> TRUE,
   ignored |-> FALSE, content |-> "text", chars |-> chars]

MCSha == {"short", "long", "moved"}

MCListOf ==
  [s \in MCSha |->
     CASE s = "short" -> <<Source(1, 2, 1), [Source(2, 2, 1) EXCEPT !.source = FALSE],
                           [Source(3, 1, 1) EXCEPT !.content = "generated"]>>
       [] s = "long"  -> <<Source(1, 2, 1), Source(3, 1, 3), Source(4, 1, 2), Source(5, 1, 1)>>
       [] s = "moved" -> <<Source(0, 4, 1), Source(1, 2, 1)>>]

MCFile == UNION {{MCListOf[s][i] : i \in DOMAIN MCListOf[s]} : s \in MCSha}
===============================================================================
