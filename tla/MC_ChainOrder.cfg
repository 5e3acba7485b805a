\* Every load, unload and configure order over the diamond chain, with
\* failing lifecycle callbacks and export failures.
CONSTANTS
  Ctrls <- MCCtrls
  CmdRefs <- MCCmdRefs
  StateRefs <- MCStateRefs
  Chainable <- MCChainable
  CallbackResults = {"SUCCESS", "FAILURE"}
  ExportMayFail = TRUE
SPECIFICATION Spec
INVARIANTS ChainSpecSymmetric PrecedingUpdatedFirst
