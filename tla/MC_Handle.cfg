\* Two controller threads reading one state interface, the hardware
\* writing it and the introspection publisher; two tries per call.
CONSTANTS
  Readers = {r1, r2}
  MaxTries = 2
  MaxCalls = 3
SPECIFICATION Spec
INVARIANT IntrospectionLocked
