\* Safety of the roster double buffer, and the switch request
\* hand-off, with update errors, failing callbacks and timeouts.
CONSTANTS
  Ctrls <- MCCtrls
  Itfs <- MCItfs
  CmdItfs <- MCCmdItfs
  Fallbacks <- MCFallbacks
  RosterOrder <- MCRosterOrder
  Async = {}
  Requests <- MCRequests
  CallbackResults <- MCAnyAnswer
  ErrorHookResults = {"UNCONFIGURED", "FINALIZED"}
  InitResults = {"OK", "ERROR"}
  UpdateMayFail = TRUE
  PrepareMayReject = TRUE
  UsedInit = 0
SPECIFICATION Spec
INVARIANT TypeOK
INVARIANT NoTornAccess
INVARIANT SwitchRequestOwnedByCaller
\* The realtime thread and a roster writer can wait on each other forever
\* (run cm_deadlock); this run checks safety only.
CHECK_DEADLOCK FALSE
