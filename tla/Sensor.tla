-------------------------------- MODULE Sensor --------------------------------
(***************************************************************************)
(* The lifecycle wrapper hardware_interface::Sensor (sensor.cpp) around a *)
(* sensor plugin: initialize, configure, cleanup, shutdown, activate,     *)
(* deactivate and error run the plugin's callbacks under sensors_mutex_   *)
(* and set the plugin's lifecycle state from their answers; read() calls  *)
(* trigger_read in INACTIVE and ACTIVE and runs error() when it fails.    *)
(*                                                                         *)
(* Every operation is one atomic step: the transitions hold the recursive *)
(* sensors_mutex_ and error(), called from inside them, re-enters it.     *)
(* read() takes no lock of its own; the resource manager that calls it is *)
(* not part of this repository and is assumed to hold get_mutex() around  *)
(* it, so a read is atomic with respect to the transitions as well.       *)
(* Callback answers are any of CallbackResults.  read() is called once per *)
(* control cycle with the cycle's time, a count of cycles up to MaxTime.  *)
(***************************************************************************)
EXTENDS Integers, ControllerLifecycle

CONSTANTS
  CallbackResults,  \* what a plugin callback (on_init, on_configure, ...) may answer
  MaxTime           \* the last cycle time read() is called with

ASSUME CallbackResults \subseteq Outcomes /\ "SUCCESS" \in CallbackResults
ASSUME MaxTime \in Nat

VARIABLES
  hw,             \* impl_->get_lifecycle_state()
  introspection,  \* enable_introspection(true) was the last call
  now,            \* time of the latest read() call
  lastRead,       \* last_read_cycle_time_, or NoTime (RCL_CLOCK_UNINITIALIZED)
  activatedAt,    \* time of the latest activate() call (history)
  sampleFrom      \* start of the interval of the latest periodicity sample
                  \* since that activate() call, or NoTime (history)

vars == <<hw, introspection, now, lastRead, activatedAt, sampleFrom>>
NoTime == -1

Unknown == "UNKNOWN"
HwStates == LcStates \cup {Unknown}

\* lifecycleStateThatRequiresNoAction: read() has nothing to do.
RequiresNoAction(s) == s \in {Unknown, "UNCONFIGURED", "FINALIZED"}

\* Sensor::error() from state s when on_error answers r: only a component
\* past UNCONFIGURED runs on_error, which leads to UNCONFIGURED on SUCCESS
\* and to FINALIZED otherwise.
ErrorFrom(s, r) ==
  IF s \in {Unknown, "UNCONFIGURED"} THEN s
  ELSE IF r = "SUCCESS" THEN "UNCONFIGURED" ELSE "FINALIZED"

\* The outcome of a transition whose callback answers r in state s, given
\* where SUCCESS and FAILURE lead; any other answer goes through error().
Outcome(s, r, onSuccess, onFailure, e) ==
  CASE r = "SUCCESS" -> onSuccess
    [] r = "FAILURE" /\ onFailure # "error" -> onFailure
    [] OTHER -> ErrorFrom(s, e)

Init ==
  /\ hw = Unknown
  /\ introspection = FALSE
  /\ now = 0 /\ lastRead = NoTime
  /\ activatedAt = NoTime /\ sampleFrom = NoTime

\* Sensor::initialize.
Initialize ==
  /\ hw = Unknown
  /\ \E r \in CallbackResults :
       hw' = IF r = "SUCCESS" THEN "UNCONFIGURED" ELSE "FINALIZED"
  /\ UNCHANGED <<introspection, now, lastRead, activatedAt, sampleFrom>>

\* Sensor::configure: ERROR runs error() from UNCONFIGURED, which does
\* nothing and disables introspection.
Configure ==
  /\ hw = "UNCONFIGURED"
  /\ \E r, e \in CallbackResults :
       /\ hw' = Outcome(hw, r, "INACTIVE", "UNCONFIGURED", e)
       /\ introspection' = (introspection /\ r # "ERROR")
  /\ UNCHANGED <<now, lastRead, activatedAt, sampleFrom>>

\* Sensor::cleanup: FAILURE and ERROR both run error().
Cleanup ==
  /\ introspection' = FALSE
  /\ IF hw = "INACTIVE"
     THEN \E r, e \in CallbackResults : hw' = Outcome(hw, r, "UNCONFIGURED", "error", e)
     ELSE UNCHANGED hw
  /\ UNCHANGED <<now, lastRead, activatedAt, sampleFrom>>

\* Sensor::shutdown without its check for FINALIZED.
ShutdownFromFinalized ==
  /\ introspection' = FALSE
  /\ IF hw # Unknown
     THEN \E r, e \in CallbackResults : hw' = Outcome(hw, r, "FINALIZED", "error", e)
     ELSE UNCHANGED hw
  /\ UNCHANGED <<now, lastRead, activatedAt, sampleFrom>>

\* Sensor::shutdown: from any state but UNKNOWN and FINALIZED.
Shutdown ==
  /\ introspection' = FALSE
  /\ IF hw \notin {Unknown, "FINALIZED"}
     THEN \E r, e \in CallbackResults : hw' = Outcome(hw, r, "FINALIZED", "error", e)
     ELSE UNCHANGED hw
  /\ UNCHANGED <<now, lastRead, activatedAt, sampleFrom>>

\* Sensor::activate without the reset of last_read_cycle_time_.
ActivateNoReset ==
  /\ activatedAt' = now /\ sampleFrom' = NoTime
  /\ IF hw = "INACTIVE"
     THEN \E r, e \in CallbackResults :
            /\ hw' = Outcome(hw, r, "ACTIVE", "INACTIVE", e)
            /\ introspection' = (r = "SUCCESS" \/ (introspection /\ r = "FAILURE"))
     ELSE UNCHANGED <<hw, introspection>>
  /\ UNCHANGED <<now, lastRead>>

\* Sensor::activate: the read time and statistics are reset first, whatever
\* the state; introspection is enabled on success.
Activate ==
  /\ lastRead' = NoTime
  /\ activatedAt' = now /\ sampleFrom' = NoTime
  /\ IF hw = "INACTIVE"
     THEN \E r, e \in CallbackResults :
            /\ hw' = Outcome(hw, r, "ACTIVE", "INACTIVE", e)
            /\ introspection' = (r = "SUCCESS" \/ (introspection /\ r = "FAILURE"))
     ELSE UNCHANGED <<hw, introspection>>
  /\ UNCHANGED now

\* Sensor::deactivate, with introspection disabled before the state check.
DeactivateKeepIntrospection ==
  /\ IF hw = "ACTIVE"
     THEN \E r, e \in CallbackResults : hw' = Outcome(hw, r, "INACTIVE", "ACTIVE", e)
     ELSE UNCHANGED hw
  /\ UNCHANGED <<introspection, now, lastRead, activatedAt, sampleFrom>>

Deactivate ==
  /\ introspection' = FALSE
  /\ IF hw = "ACTIVE"
     THEN \E r, e \in CallbackResults : hw' = Outcome(hw, r, "INACTIVE", "ACTIVE", e)
     ELSE UNCHANGED hw
  /\ UNCHANGED <<now, lastRead, activatedAt, sampleFrom>>

\* Sensor::read at the next cycle time t: nothing but the time stamp where
\* no action is required; in INACTIVE and ACTIVE, trigger_read, error()
\* when it returns ERROR and, when the trigger was successful, a
\* periodicity sample against the previous stamp (if the clock is set) and
\* the new stamp.
Read ==
  /\ now < MaxTime
  /\ LET t == now + 1 IN
     /\ now' = t
     /\ \/ /\ RequiresNoAction(hw)
           /\ lastRead' = t
           /\ UNCHANGED <<hw, introspection, sampleFrom>>
        \/ /\ hw \in {"INACTIVE", "ACTIVE"}
           /\ \E failed, successful \in BOOLEAN, e \in CallbackResults :
                /\ hw' = IF failed THEN ErrorFrom(hw, e) ELSE hw
                /\ introspection' = (introspection /\ ~failed)
                /\ lastRead' = IF successful THEN t ELSE lastRead
                /\ sampleFrom' = IF successful /\ lastRead # NoTime
                                 THEN lastRead ELSE sampleFrom
  /\ UNCHANGED activatedAt

Next ==
  \/ Initialize \/ Configure \/ Cleanup \/ Shutdown
  \/ Activate \/ Deactivate \/ Read

Spec == Init /\ [][Next]_vars

-----------------------------------------------------------------------------

\* Introspection of the sensor's values is enabled only while the sensor
\* is ACTIVE: every way out of ACTIVE (deactivate, error() from a failed
\* transition or a failed read, shutdown) disables it first.
IntrospectionOnlyWhenActive == introspection => hw = "ACTIVE"

\* The read statistics restart with every activation: a periodicity sample
\* taken after activate() measures an interval that starts at or after
\* that call, never one reaching back to a read before it (a read in a
\* previous ACTIVE period, or in UNCONFIGURED before a re-configuration).
PeriodicitySinceActivation == sampleFrom # NoTime => sampleFrom >= activatedAt

Abstract == INSTANCE HardwareLifecycle WITH state <- hw

\* The wrapper implements the hardware lifecycle: whatever its callbacks
\* answer, each step moves along the lifecycle table or through the error
\* hook, a sensor is never re-activated without passing INACTIVE, and
\* FINALIZED is final.
ImplementsLifecycle == Abstract!Spec

=============================================================================
