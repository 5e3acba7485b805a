\* Every sequence of lifecycle calls and reads over six cycles, with every
\* callback answer.
CONSTANTS
  CallbackResults = {"SUCCESS", "FAILURE", "ERROR"}
  MaxTime = 6
SPECIFICATION Spec
INVARIANTS IntrospectionOnlyWhenActive PeriodicitySinceActivation
PROPERTY ImplementsLifecycle
