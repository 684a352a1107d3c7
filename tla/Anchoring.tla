------------------------------ MODULE Anchoring ------------------------------
(***************************************************************************)
(* From the patch of a file to the comments on it: the line map is built   *)
(* (LineMap), the model reports its findings, and each is anchored to a    *)
(* line the pull request added, or dropped (Validation).                   *)
(***************************************************************************)
EXTENDS LineMap

CONSTANTS File, Category, None,
          Reviewed,    \* the file under review, whose patch it is
          Reports      \* what the model may report: sequences of findings

VARIABLES report, verdict, place, seen

V == INSTANCE Validation
       WITH maps <- [f \in {Reviewed} |-> [line |-> lineMap, added |-> added]]

ASSUME ReportAssumption == /\ Reviewed \in File /\ None \notin Nat
                           /\ \A r \in Reports : r \in Seq(V!FindingType)

findingVars == <<report, verdict, place, seen>>

AnchorInit == Init /\ V!Init

\* The diffs are parsed before the model is called, and validated after.
AnchorNext == \/ Next /\ UNCHANGED findingVars
              \/ /\ read = Len(patch) /\ UNCHANGED vars
                 /\ \/ \E r \in Reports : V!Begin(r)
                    \/ \E i \in DOMAIN report : V!Judge(i)

AnchorSpec == AnchorInit /\ [][AnchorNext]_<<vars, findingVars>>
                         /\ WF_<<vars, findingVars>>(AnchorNext)

-----------------------------------------------------------------------------
\* Every local of the two loops keeps its type.
AnchorTypeOK == TypeOK /\ V!TypeOK

\* A comment goes to the very line it cites: its position, counted in the patch
\* from the first header, is that of a line the patch adds, and that line has
\* the number the finding cites.
CommentIsOnItsLine ==
  \A i \in DOMAIN report : verdict[i] = "kept" =>
    \E j \in Shown({"added"}) : /\ PositionOf(j) = place[i]
                                /\ NewLineOf(patch, j) = report[i].line

\* A line gets at most one comment of a category (tasks.py:293-298).
OnePerKey == V!OnePerKey

\* A duplicate gives way to a finding no less severe or confident.
BestIsKept == V!BestIsKept

\* In the end an added line has a comment of a category exactly when the model
\* reported one: no finding on it is lost, none on another line is kept.
NothingLost == <>[](V!Shown = V!Cited)
==============================================================================
