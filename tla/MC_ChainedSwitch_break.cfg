\* p writes f's references and u is unrelated, loaded first; callers pass
\* BEST_EFFORT.
CONSTANTS
  Ctrls = {"u", "f", "p"}
  Chainable = {"f"}
  Itfs <- PairItfs
  Order <- PairOrder
  HwCommanders = {"f"}
  Unconfigured = {}
  Strictnesses = {"BEST_EFFORT"}
  FallbackRejects = {}
  ActivateFails = {}
  MaxReq = 2
SPECIFICATION Spec
INVARIANT ChainedModeMatchesUsers
