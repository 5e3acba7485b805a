\* A roster writer waiting for the realtime thread while holding
\* controllers_lock_, and the realtime thread waiting for that lock.
CONSTANTS
  Ctrls <- MCCtrls
  Itfs <- MCItfs
  CmdItfs <- MCCmdItfs
  Fallbacks <- MCFallbacks
  RosterOrder <- MCRosterOrder
  Async = {}
  Requests <- MCRequests
  CallbackResults <- MCSucceeding
  ErrorHookResults = {"UNCONFIGURED", "FINALIZED"}
  InitResults = {"OK", "ERROR"}
  UpdateMayFail = TRUE
  PrepareMayReject = TRUE
  UsedInit = 0
SPECIFICATION Spec
PROPERTY RTLoopProgress
CHECK_DEADLOCK FALSE
