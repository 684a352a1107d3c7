SPECIFICATION PipelineSpec
CONSTANTS
  Sha <- MCSha
  File <- MCFile
  ListOf <- MCListOf
  MaxAttempts = 3
  MaxFiles = 3
  PerPage = 2
  None = None
  MaxLines = 3
  MaxChars = 3
INVARIANTS CompletedMeansAll FilesAreTheFirst
PROPERTIES RequestsAreBounded TaskSeesItsRun Terminates
CHECK_DEADLOCK FALSE
