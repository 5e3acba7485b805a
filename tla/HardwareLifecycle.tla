--------------------------- MODULE HardwareLifecycle ---------------------------
(***************************************************************************)
(* What a hardware component's lifecycle promises, after the managed-node *)
(* table of spec section 4.4: from UNKNOWN, init leads to UNCONFIGURED (or *)
(* FINALIZED when it fails); afterwards the state only moves along a       *)
(* transition of the table, or through the error hook to UNCONFIGURED or  *)
(* FINALIZED; FINALIZED is final.                                          *)
(***************************************************************************)
EXTENDS ControllerLifecycle

VARIABLE state

Unknown == "UNKNOWN"

LcTransitions == {"configure", "cleanup", "activate", "deactivate", "shutdown"}

\* The states one step may lead to from s.
Moves(s) ==
  IF s = Unknown THEN {"UNCONFIGURED", "FINALIZED"}
  ELSE IF s = "FINALIZED" THEN {}
  ELSE {GoalState(t) : t \in {u \in LcTransitions : s \in SourceStates(u)}}
       \cup ErrorExits

Init == state = Unknown

Next == \E s \in Moves(state) : state' = s

Spec == Init /\ [][Next]_state

=============================================================================
