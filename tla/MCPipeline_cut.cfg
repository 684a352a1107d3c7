SPECIFICATION PipelineSpec
CONSTANTS
  Sha <- MCSha
  File <- MCFile
  ListOf <- MCListOf
  MaxAttempts = 2
  MaxFiles = 3
  PerPage = 2
  None = None
  MaxLines = 4
  MaxChars = 6
INVARIANT CutIsRecorded
CHECK_DEADLOCK FALSE
