------------------------ MODULE MC_ControllerManager ------------------------
(***************************************************************************)
(* Instances of ControllerManager for TLC.  Two controllers that command  *)
(* the same joint: "pid" and "safe", where "safe" is pid's fallback, so   *)
(* an update error of pid makes update() deactivate pid and activate safe *)
(* on the same interface.  The switch requests activate pid, swap pid for *)
(* safe, and deactivate pid or restart safe best-effort.                  *)
(***************************************************************************)
EXTENDS ControllerManager

MCCtrls == {"pid", "safe"}
MCItfs == {"joint1/position"}
MCCmdItfs == [c \in MCCtrls |-> {"joint1/position"}]
MCFallbacks == [c \in MCCtrls |-> IF c = "pid" THEN <<"safe">> ELSE <<>>]
MCRosterOrder == <<"pid", "safe">>
MCRequests ==
  { [act |-> <<"pid">>, deact |-> <<>>, strictness |-> "STRICT"],
    [act |-> <<"safe">>, deact |-> <<"pid">>, strictness |-> "STRICT"],
    [act |-> <<>>, deact |-> <<"pid">>, strictness |-> "BEST_EFFORT"],
    [act |-> <<"safe">>, deact |-> <<"safe">>, strictness |-> "BEST_EFFORT"] }

\* Callbacks always succeed; only update() may fail.
MCSucceeding == {"SUCCESS"}
\* Callbacks may answer anything, the error hook may recover or finalize.
MCAnyAnswer == {"SUCCESS", "FAILURE", "ERROR"}

=============================================================================
