SPECIFICATION AnchorSpec
CONSTANTS
  MaxLines = 5
  Starts = {0, 1, 3}
  Patches <- MCPatches
  Reviewed = f1
  OtherFile = f2
  File = {f1, f2}
  Category = {"BUG", "SECURITY"}
  None = None
  Reports <- MCReports
INVARIANTS MapIsExact CommentIsOnItsLine BestIsKept
PROPERTY NothingLost
CHECK_DEADLOCK FALSE
