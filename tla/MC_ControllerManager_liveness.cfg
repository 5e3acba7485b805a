\* Without update errors every service request returns, under weak
\* fairness of both threads and of the switch timeout.
CONSTANTS
  Ctrls <- MCCtrls
  Itfs <- MCItfs
  CmdItfs <- MCCmdItfs
  Fallbacks <- MCFallbacks
  RosterOrder <- MCRosterOrder
  Async = {}
  Requests <- MCRequests
  CallbackResults <- MCAnyAnswer
  ErrorHookResults = {"UNCONFIGURED", "FINALIZED"}
  InitResults = {"OK", "ERROR"}
  UpdateMayFail = FALSE
  PrepareMayReject = TRUE
  UsedInit = 0
SPECIFICATION Spec
PROPERTY SvcCallsReturn
