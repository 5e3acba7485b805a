\* The linear chain of MC_ChainedSwitch.cfg under STRICT: after a switch
\* that puts f and g into chained mode has returned.
CONSTANTS
  Ctrls = {"u", "g", "f", "p", "h", "q"}
  Chainable = {"g", "f", "h"}
  Itfs <- LinearItfs
  Order <- LinearOrder
  HwCommanders = {"g", "h"}
  Unconfigured = {}
  Strictnesses = {"STRICT"}
  FallbackRejects = {}
  ActivateFails = {}
  MaxReq = 3
SPECIFICATION Spec
INVARIANT ChainedRefsAvailable
