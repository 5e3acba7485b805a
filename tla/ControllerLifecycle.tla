------------------------- MODULE ControllerLifecycle -------------------------
(***************************************************************************)
(* The managed-node lifecycle every controller goes through (spec section *)
(* 4.4).  The controller manager drives it by calling configure, cleanup, *)
(* activate, deactivate and shutdown on the controller's lifecycle node    *)
(* (controller_manager.cpp) and only reads back the resulting state; the   *)
(* transition table itself lives in rclcpp_lifecycle and in                *)
(* controller_interface_base.cpp, neither of which is in this repository's *)
(* src/, so it is written from the spec.                                   *)
(*                                                                         *)
(* A user callback answers SUCCESS, FAILURE or ERROR.  ERROR runs the      *)
(* error hook, whose own answer decides between UNCONFIGURED and           *)
(* FINALIZED; that answer is the parameter errExit.  A transition asked    *)
(* for in a state where it is not defined is refused and leaves the state  *)
(* as it was.                                                              *)
(***************************************************************************)

\* The primary states, and NONE for a name with no live controller object.
LcStates == {"UNCONFIGURED", "INACTIVE", "ACTIVE", "FINALIZED"}

NoController == "NONE"

Outcomes == {"SUCCESS", "FAILURE", "ERROR"}

\* The states the error hook may leave a controller in.
ErrorExits == {"UNCONFIGURED", "FINALIZED"}

\* The states each transition starts from.
SourceStates(t) ==
  CASE t = "configure"  -> {"UNCONFIGURED"}
    [] t = "cleanup"    -> {"INACTIVE"}
    [] t = "activate"   -> {"INACTIVE"}
    [] t = "deactivate" -> {"ACTIVE"}
    [] t = "shutdown"   -> {"UNCONFIGURED", "INACTIVE", "ACTIVE"}

\* The state a successful callback leads to.
GoalState(t) ==
  CASE t = "configure"  -> "INACTIVE"
    [] t = "cleanup"    -> "UNCONFIGURED"
    [] t = "activate"   -> "ACTIVE"
    [] t = "deactivate" -> "INACTIVE"
    [] t = "shutdown"   -> "FINALIZED"

\* State after asking transition t in state s when the callback answers
\* outcome and the error hook, if it runs, leaves errExit.  FAILURE keeps
\* the prior state, except for shutdown, which finalizes either way.
AfterTransition(t, s, outcome, errExit) ==
  IF s \notin SourceStates(t) THEN s
  ELSE CASE outcome = "SUCCESS" -> GoalState(t)
         [] outcome = "FAILURE" -> IF t = "shutdown" THEN "FINALIZED" ELSE s
         [] outcome = "ERROR"   -> errExit

\* The answers one lifecycle call can give: the callback's result from
\* results and, when it is ERROR, the error hook's exit from exits.
AnswersFrom(results, exits) ==
  {[res |-> r, err |-> "UNCONFIGURED"] : r \in results \ {"ERROR"}}
  \cup (IF "ERROR" \in results
        THEN {[res |-> "ERROR", err |-> e] : e \in exits} ELSE {})

=============================================================================
