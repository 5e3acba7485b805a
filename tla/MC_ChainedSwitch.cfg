\* Chains p -> f -> g and q -> h, and u naming p (not chainable), under
\* STRICT, with fallback checks of f and p that may fail.
CONSTANTS
  Ctrls = {"u", "g", "f", "p", "h", "q"}
  Chainable = {"g", "f", "h"}
  Itfs <- LinearItfs
  Order <- LinearOrder
  HwCommanders = {"g", "h"}
  Unconfigured = {}
  Strictnesses = {"STRICT"}
  FallbackRejects = {"f", "p"}
  ActivateFails = {}
  MaxReq = 3
SPECIFICATION Spec
INVARIANT TypeOK
INVARIANT FollowersActive
INVARIANT RequestsClearedWhenIdle
