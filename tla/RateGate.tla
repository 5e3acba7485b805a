------------------------------- MODULE RateGate -------------------------------
(***************************************************************************)
(* Per-controller rate gating in ControllerManager::update(): an active   *)
(* controller whose update rate is below the manager's runs in a cycle    *)
(* when the time since its last update, times its rate, reaches 0.99, or  *)
(* in its first cycle after activation; running stores the cycle's time   *)
(* as last_update_cycle_time.                                              *)
(*                                                                         *)
(* Time is an integer count of units, Second of them per second.  Cycle k *)
(* of the manager starts at k * Period plus a wake-up latency in          *)
(* Latencies: the node's loop sleeps until the next period and wakes up   *)
(* late, never early, and the controller reads the clock later still.     *)
(* Only differences of times matter, so the state keeps the number of     *)
(* cycles since the last update and the latency of that update's cycle.   *)
(* Cycles are counted in windows of one second (CmRate cycles), the       *)
(* first starting at activation.                                           *)
(***************************************************************************)
EXTENDS Integers

CONSTANTS
  CmRate,     \* update_rate_ of the manager, in Hz
  CtrlRate,   \* get_update_rate() of the controller, in Hz
  Second,     \* time units per second
  Latencies   \* possible wake-up latencies of a cycle, in time units

ASSUME
  /\ CmRate \in Nat \ {0} /\ CtrlRate \in Nat \ {0}
  /\ Second \in Nat /\ Second % CmRate = 0
  /\ Latencies \subseteq Nat /\ 0 \in Latencies

Period == Second \div CmRate

VARIABLES
  tick,    \* cycles done in the current one-second window
  runs,    \* updates of the controller in the current window
  since,   \* cycles since the controller's last update
  jLast,   \* latency of the cycle of the last update
  first    \* last_update_cycle_time is still zero (just activated)

vars == <<tick, runs, since, jLast, first>>

\* run_controller_at_cm_rate.
RunAtCmRate == CtrlRate >= CmRate

\* controller_actual_period.seconds() * controller_update_rate >= 0.99 for
\* an actual period of d units.  The product is a double computed from
\* nanoseconds; at exact equality its rounding may go either way.
Passed(d, roundsDown) ==
  IF 100 * d * CtrlRate = 99 * Second THEN ~roundsDown
  ELSE 100 * d * CtrlRate > 99 * Second

Init ==
  /\ tick = 0 /\ runs = 0 /\ since = 0 /\ jLast = 0
  /\ first = TRUE

\* One pass of update() over this controller; the first cycle of a window
\* starts the window's count afresh.  The clause of controller_go for a
\* time argument of zero is left out: cycle times here are read from a
\* running clock and are never zero.
Cycle ==
  \E j \in Latencies, roundsDown \in BOOLEAN :
    LET d == (since + 1) * Period + j - jLast
        go == first \/ RunAtCmRate \/ Passed(d, roundsDown)
        base == IF tick = CmRate THEN 0 ELSE runs
    IN  /\ tick' = IF tick = CmRate THEN 1 ELSE tick + 1
        /\ runs' = IF go THEN base + 1 ELSE base
        /\ since' = IF go THEN 0 ELSE since + 1
        /\ jLast' = IF go THEN j ELSE jLast
        /\ first' = FALSE

Next == Cycle

Spec == Init /\ [][Next]_vars

-----------------------------------------------------------------------------

\* Spec scenario S6 and section 3, for any pair of rates: over each second
\* the controller is updated CtrlRate times, give or take one, when its
\* rate is at most the manager's; the 0.99 factor of update() is there so
\* that latency does not make it skip a beat.
RateKept ==
  tick = CmRate =>
    runs \in (IF RunAtCmRate THEN CmRate ELSE CtrlRate) - 1 ..
             (IF RunAtCmRate THEN CmRate ELSE CtrlRate) + 1

=============================================================================
