\* Loans against lifecycle state when activate() or deactivate() fail.
CONSTANTS
  Ctrls <- MCCtrls
  Itfs <- MCItfs
  CmdItfs <- MCCmdItfs
  Fallbacks <- MCFallbacks
  RosterOrder <- MCRosterOrder
  Async = {}
  Requests <- MCRequests
  CallbackResults <- MCAnyAnswer
  ErrorHookResults = {"UNCONFIGURED", "FINALIZED"}
  InitResults = {"OK", "ERROR"}
  UpdateMayFail = FALSE
  PrepareMayReject = TRUE
  UsedInit = 0
SPECIFICATION Spec
INVARIANT LoansMatchLifecycle
CHECK_DEADLOCK FALSE
