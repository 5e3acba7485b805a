\* 100 Hz manager, 50 Hz controller, time in units of 10 microseconds.
\* A cycle wakes up on time or 1 ms late, so an update can see an actual
\* period of 19 ms: the example of the comment above controller_go.
CONSTANTS
  CmRate = 100
  CtrlRate = 50
  Second = 100000
  Latencies = {0, 100}
SPECIFICATION Spec
INVARIANT RateKept
