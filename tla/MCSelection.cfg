SPECIFICATION Spec
CONSTANTS
  MaxListed = 4
  MaxFiles = 3
  MaxLines = 3
  MaxChars = 3
  PullRequests <- MCPullRequests
INVARIANTS WithinBudgets MostFilesKept CompletedIsWhole
PROPERTY Concludes
CHECK_DEADLOCK FALSE
