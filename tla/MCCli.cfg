SPECIFICATION CliSpec
CONSTANTS
  Missing = Missing
  NULL = NULL
  FilesOf <- MCFilesOf
  Hash <- MCHash
  Verify <- MCVerify
INVARIANTS CliTypeOK VerifiesWholeFiles ResourcesReturned ExitCodeTellsVerdict
CHECK_DEADLOCK FALSE
