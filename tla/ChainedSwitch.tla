---------------------------- MODULE ChainedSwitch ----------------------------
(***************************************************************************)
(* The chained-mode bookkeeping of a controller switch                    *)
(* (ControllerManager::switch_controller_cb and manage_switch,            *)
(* controller_manager.cpp).                                                *)
(*                                                                         *)
(* A controller c "uses" a following controller f when one of c's command *)
(* interfaces (a reference interface of f) or state interfaces (an        *)
(* exported state interface of f) has f's name as prefix                  *)
(* (is_interface_a_chained_interface).  The switch                        *)
(*   - propagates a deactivation to the first-level followings, which     *)
(*     leave chained mode (from_chained_mode_request_);                   *)
(*   - checks each activation's followings recursively and collects the   *)
(*     ones that must enter chained mode (to_chained_mode_request_),      *)
(*     making their exported interfaces available ahead of activation;    *)
(*   - checks each deactivation against its preceding controllers;        *)
(*   - restarts every active controller whose chained mode flips, drops   *)
(*     conflicting requests, and checks interface availability;           *)
(* then the realtime thread deactivates, flips chained mode, activates,   *)
(* and the caller clears the requests.                                    *)
(*                                                                         *)
(* Interface claims, names that are not loaded and the realtime/service   *)
(* interleaving are in ControllerManager; here the call is a sequence of  *)
(* steps of one caller.  Interface names are abstracted to the controller *)
(* that exports them; hardware interfaces are always available.           *)
(***************************************************************************)
EXTENDS Integers, SequencesExt

CONSTANTS
  Ctrls,           \* the loaded controllers
  Chainable,       \* those whose is_chainable() is true
  Itfs,            \* Itfs[c]: c's chained interfaces in configuration order,
                   \* command interfaces first: <<following controller, kind>>
  Order,           \* the updated controller list (preceding before following)
  HwCommanders,    \* controllers that also claim hardware command interfaces
  Unconfigured,    \* loaded controllers that were never configured
  Strictnesses,    \* the strictness values callers pass
  FallbackRejects, \* controllers whose fallback check may fail
  ActivateFails,   \* controllers whose activate() may answer FAILURE
  MaxReq           \* longest activate / deactivate list of one call

Kinds == {"cmd", "state"}

ASSUME
  /\ Chainable \subseteq Ctrls /\ Unconfigured \subseteq Ctrls
  /\ HwCommanders \subseteq Ctrls
  /\ Itfs \in [Ctrls -> Seq(Ctrls \X Kinds)]
  /\ Order \in Seq(Ctrls) /\ IsInjective(Order) /\ ToSet(Order) = Ctrls
  /\ Strictnesses \subseteq {"STRICT", "BEST_EFFORT"}
  /\ FallbackRejects \subseteq Ctrls /\ ActivateFails \subseteq Ctrls
  /\ MaxReq \in Nat

VARIABLES
  state,       \* lifecycle state of each controller
  chained,     \* controllers whose is_in_chained_mode() is true
  refAvail,    \* controllers whose reference interfaces are available
  stateAvail,  \* controllers whose exported state interfaces are available
  phase,       \* "idle", "validated", "switching" (do_switch) or "switched"
  act,         \* activate_request_
  deact,       \* deactivate_request_
  to,          \* to_chained_mode_request_
  from         \* from_chained_mode_request_

vars == <<state, chained, refAvail, stateAvail, phase, act, deact, to, from>>

Following(c) == {Itfs[c][i][1] : i \in DOMAIN Itfs[c]}
\* controllers writing f's reference interfaces
CmdUsers(f) == {c \in Ctrls : <<f, "cmd">> \in ToSet(Itfs[c])}
\* controller_chained_{state,reference}_interfaces_cache_[f]
Preceding(f) == {c \in Ctrls : f \in Following(c)}
\* extract_command_interfaces_for_controller adds something for c to the
\* activate/deactivate command interface requests.
HasCommandItfs(c) ==
  c \in HwCommanders \/ \E i \in DOMAIN Itfs[c] : Itfs[c][i][2] = "cmd"

Requests == {s \in BoundedSeq(Ctrls, MaxReq) : IsInjective(s)}

\* The request lists and the availability a validation step works on.
Work == [act |-> act, deact |-> deact, to |-> to, from |-> from,
         refAvail |-> refAvail, stateAvail |-> stateAvail]

Init ==
  /\ state = [c \in Ctrls |-> IF c \in Unconfigured THEN "unconfigured"
                                                  ELSE "inactive"]
  /\ chained = {} /\ refAvail = {} /\ stateAvail = {}
  /\ phase = "idle"
  /\ act = <<>> /\ deact = <<>> /\ to = <<>> /\ from = <<>>

-----------------------------------------------------------------------------
(* Validation in switch_controller_cb: pure operators over a Work record. *)

\* Appends to from_chained_mode_request_ the first-level followings of a
\* deactivated controller that are not already in it.
AddFrom(w, itf) ==
  IF Contains(w.from, itf[1]) THEN w
  ELSE [w EXCEPT !.from = Append(@, itf[1])]

RECURSIVE Propagate(_, _)
\* propagate_deactivation_of_chained_mode, from position i of the updated
\* list: a listed controller that is not active ends the whole loop.
Propagate(i, w) ==
  IF i > Len(Order) THEN w
  ELSE LET c == Order[i] IN
       IF ~Contains(w.deact, c) THEN Propagate(i + 1, w)
       ELSE IF state[c] # "active" THEN w
       ELSE Propagate(i + 1, FoldLeft(AddFrom, w, Itfs[c]))

\* The following controller f is active and will be deactivated, or is not
\* active and will not be activated.
FollowerRejected(f, w) ==
  IF state[f] = "active" THEN Contains(w.deact, f) ELSE ~Contains(w.act, f)

\* After a following controller f passed its checks: if f is not in
\* chained mode and not yet requested, its exported state interfaces (and,
\* when reached through a command interface, its reference interfaces)
\* become available and a command interface requests chained mode for it;
\* if f is in chained mode it is taken out of the 'from' request.
ChainedModeRequest(f, isCmd, w) ==
  IF f \in chained THEN [w EXCEPT !.from = Remove(@, f)]
  ELSE IF Contains(w.to, f) THEN w
  ELSE [w EXCEPT !.stateAvail = @ \cup {f},
                 !.refAvail = IF isCmd THEN @ \cup {f} ELSE @,
                 !.to = IF isCmd THEN Append(@, f) ELSE @]

\* A mutant that does not refuse a following controller that is not
\* chainable.
FollowerRefusedNoChainableCheck(f, w) == FollowerRejected(f, w)

\* check_following_controllers_for_activate refuses the following
\* controller f: it is not chainable, or it will not be running.
FollowerRefused(f, w) == f \notin Chainable \/ FollowerRejected(f, w)

RECURSIVE CheckFollowing(_, _, _)
\* check_following_controllers_for_activate for controller c, from its i-th
\* chained interface; requests recorded before a failure are kept.
CheckFollowing(c, i, w) ==
  IF i > Len(Itfs[c]) THEN [ok |-> TRUE, w |-> w]
  ELSE LET f == Itfs[c][i][1] IN
       IF FollowerRefused(f, w)
       THEN [ok |-> FALSE, w |-> w]
       ELSE LET r == CheckFollowing(f, 1, w) IN
            IF ~r.ok THEN r
            ELSE CheckFollowing(c, i + 1,
                   ChainedModeRequest(f, Itfs[c][i][2] = "cmd", r.w))

RECURSIVE CheckActivations(_, _, _, _)
\* The loop over activate_request_: an unconfigured controller, or an
\* active one that is not also deactivated, fails; an inactive one has its
\* followings checked; then the fallback check (rejected: the controllers
\* whose fallback check fails in this call).  BEST_EFFORT erases a failed
\* entry and steps back; STRICT stops.
CheckActivations(i, w, strictness, rejected) ==
  IF i > Len(w.act) THEN [ok |-> TRUE, w |-> w]
  ELSE LET c == w.act[i]
           r == CASE state[c] = "unconfigured" -> [ok |-> FALSE, w |-> w]
                  [] state[c] = "active" -> [ok |-> Contains(w.deact, c), w |-> w]
                  [] OTHER -> CheckFollowing(c, 1, w)
       IN IF r.ok /\ c \notin rejected
          THEN CheckActivations(i + 1, r.w, strictness, rejected)
          ELSE IF strictness = "BEST_EFFORT"
          THEN CheckActivations(i, [r.w EXCEPT !.act = RemoveAt(@, i)],
                                strictness, rejected)
          ELSE [ok |-> FALSE, w |-> r.w]

\* A mutant that only refuses for preceding controllers being activated.
PrecedingBlocksActivationOnly(c, w) ==
  /\ c \in Chainable
  /\ \E p \in Preceding(c) : state[p] = "inactive" /\ Contains(w.act, p)

\* check_preceding_controllers_for_deactivate fails: c is chainable and a
\* preceding controller is inactive and will be activated, or is active
\* and will not be deactivated.
PrecedingBlocks(c, w) ==
  /\ c \in Chainable
  /\ \E p \in Preceding(c) :
       \/ state[p] = "inactive" /\ Contains(w.act, p)
       \/ state[p] = "active" /\ ~Contains(w.deact, p)

RECURSIVE CheckDeactivations(_, _, _)
\* The loop over deactivate_request_.
CheckDeactivations(i, w, strictness) ==
  IF i > Len(w.deact) THEN [ok |-> TRUE, w |-> w]
  ELSE LET c == w.deact[i] IN
       IF state[c] = "active" /\ ~PrecedingBlocks(c, w)
       THEN CheckDeactivations(i + 1, w, strictness)
       ELSE IF strictness = "BEST_EFFORT"
       THEN CheckDeactivations(i, [w EXCEPT !.deact = RemoveAt(@, i)], strictness)
       ELSE [ok |-> FALSE, w |-> w]

\* c is active, not deactivated, and its chained mode is requested to flip.
FlipsChainedMode(c, w) ==
  /\ Contains(w.to, c) \/ Contains(w.from, c)
  /\ state[c] = "active" /\ ~Contains(w.deact, c)

RECURSIVE Restarts(_, _, _)
\* The loop over the updated list: an active controller whose chained mode
\* flips and that is not deactivated is deactivated and activated again;
\* then a double stop, a double activation and the activation of a
\* controller that is not inactive are conflicts: STRICT empties all four
\* lists and fails (handle_conflict), BEST_EFFORT drops the entry.
Restarts(i, w, strictness) ==
  IF i > Len(Order) THEN [ok |-> TRUE, w |-> w]
  ELSE LET c == Order[i]
           w1 == IF FlipsChainedMode(c, w)
                 THEN [w EXCEPT !.deact = Append(@, c), !.act = Append(@, c)]
                 ELSE w
           doubleStop == state[c] # "active" /\ Contains(w1.deact, c)
           w2 == IF doubleStop THEN [w1 EXCEPT !.deact = Remove(@, c)] ELSE w1
           badStart == /\ state[c] # "inactive"
                       /\ ~Contains(w2.deact, c) /\ Contains(w2.act, c)
           w3 == IF badStart THEN [w2 EXCEPT !.act = Remove(@, c)] ELSE w2
       IN IF strictness = "STRICT" /\ (doubleStop \/ badStart)
          THEN [ok |-> FALSE,
                w |-> [w1 EXCEPT !.act = <<>>, !.deact = <<>>, !.to = <<>>, !.from = <<>>]]
          ELSE Restarts(i + 1, w3, strictness)

\* check_for_interfaces_availability_to_activate: every chained interface
\* of every controller to activate is available.
InterfacesAvailable(w) ==
  \A i \in DOMAIN w.act : \A itf \in ToSet(Itfs[w.act[i]]) :
    IF itf[2] = "cmd" THEN itf[1] \in w.refAvail ELSE itf[1] \in w.stateAvail

\* A mutant that leaves from_chained_mode_request_ as it is.
ClearedKeepsFrom(w) ==
  [act |-> <<>>, deact |-> <<>>, to |-> <<>>, from |-> w.from,
   refAvail |-> w.refAvail \ ToSet(w.to),
   stateAvail |-> w.stateAvail \ ToSet(w.to)]

\* clear_requests: the 'to chained mode' controllers' exported interfaces
\* become unavailable and all request lists are emptied.
Cleared(w) ==
  [act |-> <<>>, deact |-> <<>>, to |-> <<>>, from |-> <<>>,
   refAvail |-> w.refAvail \ ToSet(w.to),
   stateAvail |-> w.stateAvail \ ToSet(w.to)]

\* Sets the request lists and the availability to those of w.
Store(w) ==
  /\ act' = w.act /\ deact' = w.deact /\ to' = w.to /\ from' = w.from
  /\ refAvail' = w.refAvail /\ stateAvail' = w.stateAvail

-----------------------------------------------------------------------------
(* Actions *)

\* switch_controller_cb from the lists it was given (after list_controllers)
\* to the point where prepare_command_mode_switch is called: a failed
\* STRICT check or an unavailable interface clears the requests, a STRICT
\* conflict empties the lists, and lists that end up empty return OK.
SwitchController(a, d, strictness, rejected) ==
  /\ phase = "idle"
  /\ LET w0 == Propagate(1, [Work EXCEPT !.act = a, !.deact = d])
         ra == CheckActivations(1, w0, strictness, rejected)
         rd == CheckDeactivations(1, ra.w, strictness)
         rs == Restarts(1, rd.w, strictness)
     IN CASE ~ra.ok -> Store(Cleared(ra.w)) /\ phase' = "idle"
          [] ~rd.ok -> Store(Cleared(rd.w)) /\ phase' = "idle"
          [] rd.w.act = <<>> /\ rd.w.deact = <<>> ->
               Store(Cleared(rd.w)) /\ phase' = "idle"
          [] ~rs.ok -> Store(rs.w) /\ phase' = "idle"
          [] rs.w.act = <<>> /\ rs.w.deact = <<>> ->
               Store(Cleared(rs.w)) /\ phase' = "idle"
          [] ~InterfacesAvailable(rs.w) -> Store(Cleared(rs.w)) /\ phase' = "idle"
          [] OTHER -> Store(rs.w) /\ phase' = "validated"
  /\ UNCHANGED <<state, chained>>

\* prepare_command_mode_switch accepts the request and do_switch is set.
PrepareAccepted ==
  /\ phase = "validated"
  /\ phase' = "switching"
  /\ UNCHANGED <<state, chained, refAvail, stateAvail, act, deact, to, from>>

\* prepare_command_mode_switch, called only when the command interface
\* requests are not empty, rejects the request: clear_requests, ERROR.
PrepareRejected ==
  /\ phase = "validated"
  /\ \E c \in ToSet(act) \cup ToSet(deact) : HasCommandItfs(c)
  /\ Store(Cleared(Work)) /\ phase' = "idle"
  /\ UNCHANGED <<state, chained>>

\* manage_switch in the realtime thread: deactivate_controllers (a chainable
\* controller's exported interfaces become unavailable), switch_chained_mode
\* to and then from chained mode for controllers that are not active, and
\* activate_controllers (a chainable controller's exported interfaces become
\* available, whatever activate() answered; failed: the controllers whose
\* activate() answers FAILURE and stay inactive).  deactivate() is taken
\* to succeed: its FAILURE and ERROR answers are in ControllerManager.
ManageSwitch ==
  /\ phase = "switching"
  /\ \E failed \in SUBSET ActivateFails :
       LET down == {c \in ToSet(deact) : state[c] = "active"}
           mid == [c \in Ctrls |-> IF c \in down THEN "inactive" ELSE state[c]]
           ups == ToSet(act)
       IN /\ state' = [c \in Ctrls |-> IF c \in ups \ failed THEN "active" ELSE mid[c]]
          /\ chained' = (chained \cup {c \in ToSet(to) : mid[c] # "active"})
                          \ {c \in ToSet(from) : mid[c] # "active"}
          /\ refAvail' = (refAvail \ (down \cap Chainable)) \cup (ups \cap Chainable)
          /\ stateAvail' = (stateAvail \ (down \cap Chainable)) \cup (ups \cap Chainable)
  /\ phase' = "switched"
  /\ UNCHANGED <<act, deact, to, from>>

\* The switch times out before the realtime thread ran manage_switch:
\* clear_requests, ERROR.
SwitchTimeout ==
  /\ phase = "switching"
  /\ Store(Cleared(Work)) /\ phase' = "idle"
  /\ UNCHANGED <<state, chained>>

\* The caller wakes after manage_switch and, after evaluating the result,
\* calls clear_requests.
SwitchReturn ==
  /\ phase = "switched"
  /\ Store(Cleared(Work)) /\ phase' = "idle"
  /\ UNCHANGED <<state, chained>>

Next ==
  \/ \E a, d \in Requests, s \in Strictnesses, rej \in SUBSET FallbackRejects :
       SwitchController(a, d, s, rej)
  \/ PrepareAccepted \/ PrepareRejected
  \/ ManageSwitch \/ SwitchTimeout \/ SwitchReturn

Spec == Init /\ [][Next]_vars

-----------------------------------------------------------------------------

\* Every variable holds a value of its kind; only chainable controllers are
\* ever put in chained mode (check_following_controllers_for_activate).
TypeOK ==
  /\ state \in [Ctrls -> {"unconfigured", "inactive", "active"}]
  /\ chained \subseteq Chainable
  /\ refAvail \subseteq Ctrls /\ stateAvail \subseteq Ctrls
  /\ phase \in {"idle", "validated", "switching", "switched"}
  /\ \A l \in {act, deact, to, from} : l \in Seq(Ctrls)

\* Spec 4.5 step 3 and the "following controller ... is currently inactive"
\* checks: an active controller only ever uses active followings, whatever
\* sequence of switches put them there.
FollowersActive ==
  \A c \in Ctrls : state[c] = "active" =>
    \A f \in Following(c) : state[f] = "active"

\* The chained-mode contract (controller_interface_base.hpp, spec glossary):
\* an active chainable controller is in chained mode exactly while an active
\* preceding controller writes its reference interfaces, so it is neither
\* written by a preceding controller and its subscribers at once, nor left
\* waiting for references nobody writes.
ChainedModeMatchesUsers ==
  \A f \in Chainable : state[f] = "active" =>
    (f \in chained <=> \E c \in CmdUsers(f) : state[c] = "active")

\* The realtime-side lists are empty whenever no switch is in progress: the
\* next switch_controller_cb throws if it finds them otherwise.
RequestsClearedWhenIdle ==
  phase = "idle" => act = <<>> /\ deact = <<>> /\ to = <<>> /\ from = <<>>

\* Spec glossary: chained mode means the reference interfaces are available
\* to preceding controllers; once a switch has returned, an active
\* controller in chained mode has them available.
ChainedRefsAvailable ==
  phase = "idle" =>
    \A f \in Chainable : state[f] = "active" /\ f \in chained => f \in refAvail

=============================================================================
