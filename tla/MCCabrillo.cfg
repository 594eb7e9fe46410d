SPECIFICATION Spec
CONSTANTS
  Logs <- MCLogs
  ConfigContests <- MCConfigContests
  UserContests <- MCUserContests
  ModeFiles <- MCModeFiles
INVARIANTS RecordIsLine EachLineAccounted
CHECK_DEADLOCK FALSE
