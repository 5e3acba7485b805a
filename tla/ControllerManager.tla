-------------------------- MODULE ControllerManager --------------------------
(***************************************************************************)
(* The controller manager scheduler of controller_manager.cpp: the roster *)
(* double buffer (RTControllerListWrapper), the realtime loop's update()  *)
(* with error-driven fallback activation and manage_switch(), and the     *)
(* service thread running load, unload, configure and switch requests.    *)
(*                                                                         *)
(* Two threads are modelled.  The realtime thread (rtPc) repeats          *)
(* update(): take the roster snapshot, update the active controllers,     *)
(* handle update errors (deactivate the failed controllers, activate     *)
(* their fallbacks, publish_activity()), then run manage_switch() when a  *)
(* switch is requested.  The service thread (svc) runs one service       *)
(* request at a time, as services_lock_ serializes them; every request    *)
(* that changes the roster goes through the same writer protocol:         *)
(* get_unused_list (wait), copy, switch_updated_list (flip, wait), clear. *)
(* The service thread holds controllers_lock_ (holdsLock) from the first  *)
(* roster access of a request to its return.  The realtime thread takes   *)
(* that lock only in publish_activity(), atomically, so it is never seen  *)
(* holding it; rtPc = "publish" is the realtime thread waiting for it.    *)
(*                                                                         *)
(* Abstracted: hardware (all interfaces exist and are available, mode     *)
(* switches are accepted unless PrepareMayReject), chaining (no chainable *)
(* controllers here, see ChainedSwitch), rate gating (every active        *)
(* controller is due every cycle), read()/write() (no hardware errors),   *)
(* state interfaces (claims are per command interface only), and the      *)
(* order of the roster, which is RosterOrder.                             *)
(***************************************************************************)
EXTENDS Integers, Sequences, SequencesExt, FiniteSets, ControllerLifecycle

CONSTANTS
  Ctrls,            \* names of the controllers that may be loaded
  Itfs,             \* command interfaces of the hardware
  CmdItfs,          \* CmdItfs[c]: command_interface_configuration().names
  Fallbacks,        \* Fallbacks[c]: the fallback_controllers parameter
  RosterOrder,      \* the order of the roster, a sequence of all of Ctrls
  Async,            \* controllers that run asynchronously (is_async())
  Requests,         \* switch requests: [act, deact : Seq(Ctrls), strictness]
  CallbackResults,  \* what a user lifecycle callback may answer
  ErrorHookResults, \* where the error hook may leave a controller
  InitResults,      \* what ControllerInterfaceBase::init may return
  UpdateMayFail,    \* whether a controller's update may return ERROR
  PrepareMayReject, \* whether prepare_command_mode_switch may refuse
  UsedInit          \* initial used_by_realtime_controllers_index_

NoSlot == -1
Slots == {0, 1}
NoName == "none"
NoRequest == [act |-> <<>>, deact |-> <<>>, strictness |-> "BEST_EFFORT"]

ASSUME
  /\ CmdItfs \in [Ctrls -> SUBSET Itfs]
  /\ Fallbacks \in [Ctrls -> Seq(Ctrls)]
  /\ \A c \in Ctrls : c \notin ToSet(Fallbacks[c])   \* refused by load_controller
  /\ ToSet(RosterOrder) = Ctrls /\ Len(RosterOrder) = Cardinality(Ctrls)
  /\ Async \subseteq Ctrls
  /\ \A r \in Requests : r.strictness \in {"STRICT", "BEST_EFFORT"}
  /\ CallbackResults \subseteq Outcomes /\ "SUCCESS" \in CallbackResults
  /\ ErrorHookResults \subseteq ErrorExits /\ ErrorHookResults # {}
  /\ InitResults \subseteq {"OK", "ERROR"} /\ "OK" \in InitResults
  /\ UpdateMayFail \in BOOLEAN /\ PrepareMayReject \in BOOLEAN
  /\ UsedInit \in {NoSlot, 0}

\* One answer of a user callback together with the error hook's answer.
Answers == AnswersFrom(CallbackResults, ErrorHookResults)

VARIABLES
  lc,         \* lc[c]: lifecycle state of controller c, or NoController
  loans,      \* loans[c]: command interfaces c holds loans of (claimed)
  slots,      \* controllers_lists_[0..1], as sets of names
  updated,    \* updated_controllers_index_
  used,       \* used_by_realtime_controllers_index_
  rtReg,      \* updated_controllers_index_ as read by the realtime thread
  rtPc,       \* where the realtime thread is in update()
  svc,        \* the service thread: request, step, result
  writing,    \* the slot the service thread is writing, or NoSlot
  holdsLock,  \* the service thread holds controllers_lock_
  actReq,     \* activate_request_
  deactReq,   \* deactivate_request_
  doSwitch    \* switch_params_.do_switch

vars == <<lc, loans, slots, updated, used, rtReg, rtPc, svc, writing,
          holdsLock, actReq, deactReq, doSwitch>>

RtPcs == {"acquire", "store", "update", "publish", "manage"}
SvcPcs == {"idle", "cfg_cleanup", "cfg_configure", "sw_wait",
           "unused", "flip", "flipwait", "clear"}
Ops == {"none", "load", "unload", "configure", "switch"}
Results == {"NONE", "OK", "ERROR"}
Reasons == {"none", "unknown_name", "validation", "rejected", "timeout",
            "evaluation"}

-----------------------------------------------------------------------------
(* Helpers over the roster.                                                *)

\* get_other_list without the modulo.
OtherNoWrap(i) == i + 1

\* get_other_list
Other(i) == (i + 1) % 2

\* The roster the service thread reads: get_updated_list.
Loaded == slots[updated]

\* The controllers of S in roster order.
InRosterOrder(S) == SelectSeq(RosterOrder, LAMBDA x : x \in S)

\* The command interfaces some controller holds a loan of.
Claimed(ls) == UNION {ls[x] : x \in Ctrls}

\* get_active_controllers_using_command_interfaces_of_controller
ActiveUsersOf(fb, rtList, lcs) ==
  IF fb \notin rtList THEN {}
  ELSE {x \in rtList : lcs[x] = "ACTIVE" /\ CmdItfs[x] \cap CmdItfs[fb] # {}}

\* deactivate_controllers: deactivate each listed controller of the
\* realtime list that is ACTIVE, and release its interfaces whatever the
\* deactivate callback answered.  st is [lc, loans]; ans[c] is c's answer.
DeactivateControllers(rtList, names, ans, st) ==
  LET Step(acc, c) ==
        IF c \notin rtList \/ acc.lc[c] # "ACTIVE" THEN acc
        ELSE [lc    |-> [acc.lc EXCEPT ![c] =
                           AfterTransition("deactivate", @, ans[c].res, ans[c].err)],
              loans |-> [acc.loans EXCEPT ![c] = {}]]
  IN FoldLeft(Step, st, names)

\* activate_controllers: skip a controller whose command interfaces are
\* already claimed, otherwise claim them and call activate; the loans are
\* kept whatever activate answered.
ActivateControllers(rtList, names, ans, st) ==
  LET Step(acc, c) ==
        IF c \notin rtList \/ CmdItfs[c] \cap Claimed(acc.loans) # {} THEN acc
        ELSE [lc    |-> [acc.lc EXCEPT ![c] =
                           AfterTransition("activate", @, ans[c].res, ans[c].err)],
              loans |-> [acc.loans EXCEPT ![c] = CmdItfs[c]]]
  IN FoldLeft(Step, st, names)

-----------------------------------------------------------------------------
(* Initial state: nothing loaded, no request, the realtime thread at the   *)
(* top of its loop.  UsedInit = NoSlot is the state before the realtime    *)
(* thread's first cycle, 0 the state after it.                             *)

Init ==
  /\ lc = [c \in Ctrls |-> NoController]
  /\ loans = [c \in Ctrls |-> {}]
  /\ slots = [i \in Slots |-> {}]
  /\ updated = 0
  /\ used = UsedInit
  /\ rtReg = 0
  /\ rtPc = "acquire"
  /\ svc = [pc |-> "idle", op |-> "none", ctrl |-> NoName, req |-> NoRequest,
            result |-> "NONE", reason |-> "none"]
  /\ writing = NoSlot
  /\ holdsLock = FALSE
  /\ actReq = <<>>
  /\ deactReq = <<>>
  /\ doSwitch = FALSE

-----------------------------------------------------------------------------
(* The realtime thread.                                                    *)

\* update_and_get_used_by_rt_list, first half: read updated_controllers_index_.
RTAcquire ==
  /\ rtPc = "acquire"
  /\ rtReg' = updated
  /\ rtPc' = "store"
  /\ UNCHANGED <<lc, loans, slots, updated, used, svc, writing, holdsLock,
                 actReq, deactReq, doSwitch>>

\* update_and_get_used_by_rt_list, second half: publish the index read as
\* used_by_realtime_controllers_index_ and start reading that slot.
RTStore ==
  /\ rtPc = "store"
  /\ used' = rtReg
  /\ rtPc' = "update"
  /\ UNCHANGED <<lc, loans, slots, updated, rtReg, svc, writing, holdsLock,
                 actReq, deactReq, doSwitch>>

\* The active controllers update() calls this cycle: an async controller
\* that a pending switch deactivates is skipped (do_switch and
\* deactivate_request_ are read here without the switch mutex).
Updating ==
  {c \in slots[used] :
     /\ lc[c] = "ACTIVE"
     /\ ~(doSwitch /\ c \in Async /\ c \in ToSet(deactReq))}

\* update(): every controller's update returns OK.
RTUpdateControllers ==
  /\ rtPc = "update"
  /\ rtPc' = "manage"
  /\ UNCHANGED <<lc, loans, slots, updated, used, rtReg, svc, writing,
                 holdsLock, actReq, deactReq, doSwitch>>

\* update(): the controllers in failed return ERROR.  They are deactivated
\* together with the active controllers using the command interfaces of
\* their fallbacks, then the fallbacks are activated, then
\* publish_activity() must take controllers_lock_.
RTUpdateFailure ==
  /\ rtPc = "update"
  /\ UpdateMayFail
  /\ \E failed \in SUBSET Updating \ {{}}, ans1, ans2 \in [Ctrls -> Answers] :
       LET rtList  == slots[used]
           failSeq == InRosterOrder(failed)
           fbList  == FlattenSeq([i \in DOMAIN failSeq |-> Fallbacks[failSeq[i]]])
           users   == UNION {ActiveUsersOf(fbList[i], rtList, lc) : i \in DOMAIN fbList}
           toStop  == failSeq \o InRosterOrder(users \ failed)
           st1     == DeactivateControllers(rtList, toStop, ans1,
                                            [lc |-> lc, loans |-> loans])
           st2     == IF fbList = <<>> THEN st1
                      ELSE ActivateControllers(rtList, fbList, ans2, st1)
       IN /\ lc' = st2.lc
          /\ loans' = st2.loans
  /\ rtPc' = "publish"
  /\ UNCHANGED <<slots, updated, used, rtReg, svc, writing, holdsLock,
                 actReq, deactReq, doSwitch>>

\* publish_activity(): blocks until controllers_lock_ is free.
RTPublishActivity ==
  /\ rtPc = "publish"
  /\ ~holdsLock
  /\ rtPc' = "manage"
  /\ UNCHANGED <<lc, loans, slots, updated, used, rtReg, svc, writing,
                 holdsLock, actReq, deactReq, doSwitch>>

\* manage_switch(): the switch mutex is free whenever do_switch is set (the
\* service thread is inside wait_for), so try_lock succeeds.  Take the
\* current roster, deactivate, activate, clear do_switch and notify.
RTManageSwitch ==
  /\ rtPc = "manage"
  /\ doSwitch
  /\ \E ans1, ans2 \in [Ctrls -> Answers] :
       LET st1 == DeactivateControllers(slots[updated], deactReq, ans1,
                                        [lc |-> lc, loans |-> loans])
           st2 == ActivateControllers(slots[updated], actReq, ans2, st1)
       IN /\ lc' = st2.lc
          /\ loans' = st2.loans
  /\ used' = updated
  /\ doSwitch' = FALSE
  /\ rtPc' = "acquire"
  /\ UNCHANGED <<slots, updated, rtReg, svc, writing, holdsLock,
                 actReq, deactReq>>

\* update() returns with no switch to manage.
RTEndCycle ==
  /\ rtPc = "manage"
  /\ ~doSwitch
  /\ rtPc' = "acquire"
  /\ UNCHANGED <<lc, loans, slots, updated, used, rtReg, svc, writing,
                 holdsLock, actReq, deactReq, doSwitch>>

-----------------------------------------------------------------------------
(* The service thread: starting a request.                                 *)

\* The service thread after a request returned.
Returned(res, why) == [svc EXCEPT !.pc = "idle", !.result = res, !.reason = why]

\* load_controller_service_cb -> add_controller_impl: take controllers_lock_
\* and go to get_unused_list.
CallLoad(c) ==
  /\ svc.pc = "idle"
  /\ svc' = [pc |-> "unused", op |-> "load", ctrl |-> c, req |-> NoRequest,
             result |-> "NONE", reason |-> "none"]
  /\ holdsLock' = TRUE
  /\ UNCHANGED <<lc, loans, slots, updated, used, rtReg, rtPc, writing,
                 actReq, deactReq, doSwitch>>

\* unload_controller_service_cb -> unload_controller: the same start.
CallUnload(c) ==
  /\ svc.pc = "idle"
  /\ svc' = [pc |-> "unused", op |-> "unload", ctrl |-> c, req |-> NoRequest,
             result |-> "NONE", reason |-> "none"]
  /\ holdsLock' = TRUE
  /\ UNCHANGED <<lc, loans, slots, updated, used, rtReg, rtPc, writing,
                 actReq, deactReq, doSwitch>>

\* configure_controller: look c up in a copy of the roster
\* (get_loaded_controllers) and read its state once; ACTIVE and FINALIZED
\* are refused, INACTIVE is cleaned up first.
CallConfigure(c) ==
  /\ svc.pc = "idle"
  /\ LET start(pc) == [pc |-> pc, op |-> "configure", ctrl |-> c,
                       req |-> NoRequest, result |-> "NONE", reason |-> "none"]
     IN \/ /\ c \notin Loaded \/ lc[c] \in {"ACTIVE", "FINALIZED"}
           /\ svc' = [start("idle") EXCEPT !.result = "ERROR"]
        \/ /\ c \in Loaded /\ lc[c] = "INACTIVE"
           /\ svc' = start("cfg_cleanup")
        \/ /\ c \in Loaded /\ lc[c] = "UNCONFIGURED"
           /\ svc' = start("cfg_configure")
  /\ UNCHANGED <<lc, loans, slots, updated, used, rtReg, rtPc, writing,
                 holdsLock, actReq, deactReq, doSwitch>>

\* cleanup_controller: anything but UNCONFIGURED afterwards is an error.
CfgCleanup ==
  /\ svc.pc = "cfg_cleanup"
  /\ \E a \in Answers :
       LET c == svc.ctrl
           s == AfterTransition("cleanup", lc[c], a.res, a.err)
       IN /\ lc' = [lc EXCEPT ![c] = s]
          /\ svc' = IF s = "UNCONFIGURED" THEN [svc EXCEPT !.pc = "cfg_configure"]
                    ELSE Returned("ERROR", "none")
  /\ UNCHANGED <<loans, slots, updated, used, rtReg, rtPc, writing, holdsLock,
                 actReq, deactReq, doSwitch>>

\* configure(); on INACTIVE take controllers_lock_ to reorder the roster.
CfgConfigure ==
  /\ svc.pc = "cfg_configure"
  /\ \E a \in Answers :
       LET c == svc.ctrl
           s == AfterTransition("configure", lc[c], a.res, a.err)
       IN /\ lc' = [lc EXCEPT ![c] = s]
          /\ svc' = IF s = "INACTIVE" THEN [svc EXCEPT !.pc = "unused"]
                    ELSE Returned("ERROR", "none")
          /\ holdsLock' = (s = "INACTIVE")
  /\ UNCHANGED <<loans, slots, updated, used, rtReg, rtPc, writing,
                 actReq, deactReq, doSwitch>>

\* The list_controllers lambda of switch_controller_cb: resolve names
\* against the roster.  STRICT aborts on the first unknown name; under
\* BEST_EFFORT an unknown name makes the result ERROR when no name before
\* it was found, and a later known name makes it OK again.
ListControllers(names, strictness) ==
  LET Step(acc, n) ==
        IF acc.abort THEN acc
        ELSE IF n \in Loaded
             THEN [res |-> "OK", list |-> Append(acc.list, n), abort |-> FALSE]
        ELSE IF strictness = "STRICT" THEN [acc EXCEPT !.res = "ERROR", !.abort = TRUE]
        ELSE [acc EXCEPT !.res = IF acc.list = <<>> THEN "ERROR" ELSE "OK"]
  IN FoldLeft(Step, [res |-> "OK", list |-> <<>>, abort |-> FALSE], names)

\* check_fallback_controllers_state_pre_activation, with every hardware
\* interface available: each fallback is loaded and INACTIVE or ACTIVE.
FallbacksReady(c) ==
  \A fb \in ToSet(Fallbacks[c]) : fb \in Loaded /\ lc[fb] \in {"INACTIVE", "ACTIVE"}

\* The activation checks of switch_controller_cb: INACTIVE, or ACTIVE and
\* also being deactivated (a restart), and the fallbacks ready.
CanActivate(c, deactList) ==
  /\ \/ lc[c] = "INACTIVE"
     \/ lc[c] = "ACTIVE" /\ c \in ToSet(deactList)
  /\ FallbacksReady(c)

\* The deactivation check: only an ACTIVE controller can be deactivated.
CanDeactivate(c) == lc[c] = "ACTIVE"

\* switch_controller_cb after the checks: return OK when nothing is left
\* to switch, let prepare_command_mode_switch veto, otherwise set
\* do_switch and wait holding controllers_lock_.  The conflict loop and
\* the interface availability check find nothing the checks before did
\* not, with every interface available.
SwitchRequested(start, actOk, deactOk) ==
  LET itfs == UNION {CmdItfs[c] : c \in ToSet(actOk) \cup ToSet(deactOk)} IN
  \/ /\ actOk = <<>> /\ deactOk = <<>>
     /\ svc' = [start EXCEPT !.result = "OK"]
     /\ doSwitch' = FALSE
     /\ UNCHANGED <<actReq, deactReq, holdsLock>>
  \/ /\ actOk # <<>> \/ deactOk # <<>>
     /\ itfs # {} /\ PrepareMayReject
     /\ svc' = [start EXCEPT !.result = "ERROR", !.reason = "rejected"]
     /\ doSwitch' = FALSE
     /\ UNCHANGED <<actReq, deactReq, holdsLock>>
  \/ /\ actOk # <<>> \/ deactOk # <<>>
     /\ doSwitch' = TRUE
     /\ actReq' = actOk
     /\ deactReq' = deactOk
     /\ svc' = [start EXCEPT !.pc = "sw_wait"]
     /\ holdsLock' = TRUE

\* switch_controller_cb up to the wait: reset do_switch, resolve both lists
\* (an unknown name fails the call), run the activation and deactivation
\* checks, dropping failures under BEST_EFFORT and refusing under STRICT.
\* The FATAL check on leftover requests is the guard on actReq and
\* deactReq.
CallSwitch(r) ==
  /\ svc.pc = "idle"
  /\ actReq = <<>> /\ deactReq = <<>>
  /\ LET dl      == ListControllers(r.deact, r.strictness)
         al      == ListControllers(r.act, r.strictness)
         actOk   == SelectSeq(al.list, LAMBDA c : CanActivate(c, dl.list))
         deactOk == SelectSeq(dl.list, CanDeactivate)
         refused == r.strictness = "STRICT" /\ (actOk # al.list \/ deactOk # dl.list)
         start   == [pc |-> "idle", op |-> "switch", ctrl |-> NoName, req |-> r,
                     result |-> "NONE", reason |-> "none"]
         fail(why) == /\ svc' = [start EXCEPT !.result = "ERROR", !.reason = why]
                      /\ doSwitch' = FALSE
                      /\ UNCHANGED <<actReq, deactReq, holdsLock>>
     IN
           \/ /\ dl.res = "ERROR" \/ al.res = "ERROR"
              /\ fail("unknown_name")
           \/ /\ dl.res = "OK" /\ al.res = "OK" /\ refused
              /\ fail("validation")
           \/ /\ dl.res = "OK" /\ al.res = "OK" /\ ~refused
              /\ SwitchRequested(start, actOk, deactOk)
  /\ UNCHANGED <<lc, loans, slots, updated, used, rtReg, rtPc, writing>>

\* clear_requests
ClearRequests ==
  /\ doSwitch' = FALSE
  /\ actReq' = <<>>
  /\ deactReq' = <<>>

\* wait_for returned because the realtime thread cleared do_switch.
SwitchWaitDone ==
  /\ svc.pc = "sw_wait"
  /\ ~doSwitch
  /\ svc' = [svc EXCEPT !.pc = "unused"]
  /\ UNCHANGED <<lc, loans, slots, updated, used, rtReg, rtPc, writing,
                 holdsLock, actReq, deactReq, doSwitch>>

\* A timeout path that returns without clear_requests.
SwitchTimeoutNoClear ==
  /\ svc.pc = "sw_wait"
  /\ doSwitch
  /\ svc' = Returned("ERROR", "timeout")
  /\ holdsLock' = FALSE
  /\ UNCHANGED <<lc, loans, slots, updated, used, rtReg, rtPc, writing,
                 actReq, deactReq, doSwitch>>

\* wait_for timed out with do_switch still set: clear_requests, return
\* ERROR and release controllers_lock_.
SwitchTimeout ==
  /\ svc.pc = "sw_wait"
  /\ doSwitch
  /\ ClearRequests
  /\ svc' = Returned("ERROR", "timeout")
  /\ holdsLock' = FALSE
  /\ UNCHANGED <<lc, loans, slots, updated, used, rtReg, rtPc, writing>>

-----------------------------------------------------------------------------
(* The service thread: the roster writer protocol.                         *)

\* wait_until_rt_not_using(i)
RtNotUsing(i) == used # i

\* get_unused_list returned: the free slot is not used by the realtime
\* thread and the request writes it.
Writable(op) ==
  /\ svc.pc = "unused"
  /\ svc.op = op
  /\ RtNotUsing(Other(updated))

\* A request that fails after copying the roster: to = from; to.clear().
CopyThenFail ==
  /\ slots' = [slots EXCEPT ![Other(updated)] = Loaded]
  /\ writing' = Other(updated)
  /\ svc' = [svc EXCEPT !.pc = "clear", !.result = "ERROR"]

\* A request that writes roster new into the free slot, then flips.
CopyThenFlip(new, res) ==
  /\ slots' = [slots EXCEPT ![Other(updated)] = new]
  /\ writing' = Other(updated)
  /\ svc' = [svc EXCEPT !.pc = "flip", !.result = res]

\* add_controller_impl: refuse a duplicate name, init the controller,
\* append it to the copy.
LoadWrite ==
  /\ Writable("load")
  /\ LET c == svc.ctrl IN
     \/ /\ c \in Loaded
        /\ CopyThenFail
        /\ UNCHANGED lc
     \/ /\ c \notin Loaded
        /\ "ERROR" \in InitResults
        /\ CopyThenFail
        /\ UNCHANGED lc
     \/ /\ c \notin Loaded
        /\ CopyThenFlip(Loaded \cup {c}, "OK")
        /\ lc' = [lc EXCEPT ![c] = "UNCONFIGURED"]
  /\ UNCHANGED <<loans, updated, used, rtReg, rtPc, holdsLock,
                 actReq, deactReq, doSwitch>>

\* unload_controller: refuse an unknown or ACTIVE controller, shut an
\* INACTIVE or UNCONFIGURED one down, erase it from the copy.
UnloadWrite ==
  /\ Writable("unload")
  /\ LET c == svc.ctrl IN
     \/ /\ c \notin Loaded \/ lc[c] = "ACTIVE"
        /\ CopyThenFail
        /\ UNCHANGED lc
     \/ /\ c \in Loaded /\ lc[c] # "ACTIVE"
        /\ \E a \in Answers :
             lc' = [lc EXCEPT ![c] = AfterTransition("shutdown", @, a.res, a.err)]
        /\ CopyThenFlip(Loaded \ {c}, "OK")
  /\ UNCHANGED <<loans, updated, used, rtReg, rtPc, holdsLock,
                 actReq, deactReq, doSwitch>>

\* configure_controller: copy the roster and reorder it (the order is not
\* modelled, the content is unchanged).
ConfigureWrite ==
  /\ Writable("configure")
  /\ CopyThenFlip(Loaded, "OK")
  /\ UNCHANGED <<lc, loans, updated, used, rtReg, rtPc, holdsLock,
                 actReq, deactReq, doSwitch>>

\* evaluate_switch_result: every controller asked to activate is ACTIVE and
\* every one asked only to deactivate is not.
EvaluateSwitchResult ==
  IF /\ \A c \in ToSet(actReq) : lc[c] = "ACTIVE"
     /\ \A c \in ToSet(deactReq) \ ToSet(actReq) : lc[c] # "ACTIVE"
  THEN "OK" ELSE "ERROR"

\* switch_controller_cb after the wait: copy the roster and evaluate.
SwitchWrite ==
  /\ Writable("switch")
  /\ CopyThenFlip(Loaded, EvaluateSwitchResult)
  /\ UNCHANGED <<lc, loans, updated, used, rtReg, rtPc, holdsLock,
                 actReq, deactReq, doSwitch>>

\* switch_updated_list: flip updated_controllers_index_.
Flip ==
  /\ svc.pc = "flip"
  /\ updated' = writing
  /\ writing' = NoSlot
  /\ svc' = [svc EXCEPT !.pc = "flipwait"]
  /\ UNCHANGED <<lc, loans, slots, used, rtReg, rtPc, holdsLock,
                 actReq, deactReq, doSwitch>>

\* switch_updated_list without wait_until_rt_not_using.
FlipWaitNoWait ==
  /\ svc.pc = "flipwait"
  /\ writing' = Other(updated)
  /\ svc' = [svc EXCEPT !.pc = "clear"]
  /\ UNCHANGED <<lc, loans, slots, updated, used, rtReg, rtPc, holdsLock,
                 actReq, deactReq, doSwitch>>

\* switch_updated_list waiting on the new index instead of the former one.
FlipWaitOnUpdated ==
  /\ svc.pc = "flipwait"
  /\ RtNotUsing(updated)
  /\ writing' = Other(updated)
  /\ svc' = [svc EXCEPT !.pc = "clear"]
  /\ UNCHANGED <<lc, loans, slots, updated, used, rtReg, rtPc, holdsLock,
                 actReq, deactReq, doSwitch>>

\* switch_updated_list: wait until the realtime thread leaves the former
\* slot, run the on-switch callback (publish_activity, re-entering the
\* recursive lock) and take the former slot again with get_unused_list.
FlipWait ==
  /\ svc.pc = "flipwait"
  /\ RtNotUsing(Other(updated))
  /\ writing' = Other(updated)
  /\ svc' = [svc EXCEPT !.pc = "clear"]
  /\ UNCHANGED <<lc, loans, slots, updated, used, rtReg, rtPc, holdsLock,
                 actReq, deactReq, doSwitch>>

\* Clear the slot written last.  Controllers that were only in it are
\* destroyed, and their loans with them.  Then return, releasing
\* controllers_lock_; a switch ends with clear_requests.
ClearSlot ==
  /\ svc.pc = "clear"
  /\ LET gone == slots[writing] \ Loaded IN
       /\ lc' = [c \in Ctrls |-> IF c \in gone THEN NoController ELSE lc[c]]
       /\ loans' = [c \in Ctrls |-> IF c \in gone THEN {} ELSE loans[c]]
  /\ slots' = [slots EXCEPT ![writing] = {}]
  /\ writing' = NoSlot
  /\ svc' = [svc EXCEPT !.pc = "idle"]
  /\ holdsLock' = FALSE
  /\ IF svc.op = "switch" THEN ClearRequests ELSE UNCHANGED <<actReq, deactReq, doSwitch>>
  /\ UNCHANGED <<updated, used, rtReg, rtPc>>

-----------------------------------------------------------------------------

RTNext ==
  \/ RTAcquire \/ RTStore \/ RTUpdateControllers \/ RTUpdateFailure
  \/ RTPublishActivity \/ RTManageSwitch \/ RTEndCycle

SvcInternal ==
  \/ CfgCleanup \/ CfgConfigure \/ SwitchWaitDone \/ SwitchTimeout
  \/ LoadWrite \/ UnloadWrite \/ ConfigureWrite \/ SwitchWrite
  \/ Flip \/ FlipWait \/ ClearSlot

SvcCall ==
  \/ \E c \in Ctrls : CallLoad(c) \/ CallUnload(c) \/ CallConfigure(c)
  \/ \E r \in Requests : CallSwitch(r)

Next == RTNext \/ SvcInternal \/ SvcCall

\* The realtime loop runs forever, and each step of a service request that
\* is enabled is eventually taken (the executor thread is not starved);
\* the wait_for timeout fires by the clock.  Clients need not call.
Fairness ==
  /\ WF_vars(RTAcquire) /\ WF_vars(RTStore)
  /\ WF_vars(RTUpdateControllers \/ RTUpdateFailure)
  /\ WF_vars(RTPublishActivity) /\ WF_vars(RTManageSwitch) /\ WF_vars(RTEndCycle)
  /\ WF_vars(CfgCleanup) /\ WF_vars(CfgConfigure)
  /\ WF_vars(SwitchWaitDone) /\ WF_vars(SwitchTimeout)
  /\ WF_vars(LoadWrite) /\ WF_vars(UnloadWrite) /\ WF_vars(ConfigureWrite)
  /\ WF_vars(SwitchWrite) /\ WF_vars(Flip) /\ WF_vars(FlipWait) /\ WF_vars(ClearSlot)

Spec == Init /\ [][Next]_vars /\ Fairness

-----------------------------------------------------------------------------
(* Properties.                                                             *)

TypeOK ==
  /\ lc \in [Ctrls -> LcStates \cup {NoController}]
  /\ loans \in [Ctrls -> SUBSET Itfs]
  /\ slots \in [Slots -> SUBSET Ctrls]
  /\ updated \in Slots /\ used \in Slots \cup {NoSlot} /\ rtReg \in Slots
  /\ rtPc \in RtPcs
  /\ svc.pc \in SvcPcs /\ svc.op \in Ops /\ svc.ctrl \in Ctrls \cup {NoName}
  /\ svc.result \in Results /\ svc.reason \in Reasons
  /\ writing \in Slots \cup {NoSlot}
  /\ holdsLock \in BOOLEAN /\ doSwitch \in BOOLEAN
  /\ actReq \in Seq(Ctrls) /\ deactReq \in Seq(Ctrls)

\* The slot the realtime thread iterates in update() is never the slot the
\* service thread is filling (copy into the unused list) or emptying of
\* controllers (clearing it after a flip or a failed request):
\* get_unused_list and switch_updated_list wait on
\* used_by_realtime_controllers_index_ so that the realtime thread never
\* reads a list being written.  Clearing a list that is already empty
\* writes nothing.
RtReadsSlot == IF rtPc = "update" THEN used ELSE NoSlot

NoTornAccess ==
  (writing # NoSlot /\ writing = RtReadsSlot)
    => svc.pc = "clear" /\ slots[writing] = {}

\* A pending switch request (do_switch, activate_request_,
\* deactivate_request_) always belongs to a switch_controller_cb call that
\* has not returned: after a timeout, or after an OK, the realtime thread
\* finds nothing left to apply, and the next call never meets leftovers
\* (which it would treat as FATAL).
SwitchRequestOwnedByCaller ==
  (doSwitch \/ actReq # <<>> \/ deactReq # <<>>)
    => /\ svc.op = "switch"
       /\ svc.pc \in {"sw_wait", "unused", "flip", "flipwait", "clear"}

\* Spec section 3 and 8.2: a controller holds loans of exactly its
\* configured command interfaces when ACTIVE and none otherwise.  The code
\* keeps the loans when activate() does not reach ACTIVE
\* (activate_controllers) and drops them when deactivate() does not leave
\* ACTIVE (deactivate_controllers).
LoansMatchLifecycle ==
  \A c \in Ctrls :
    /\ lc[c] = "ACTIVE" => loans[c] = CmdItfs[c]
    /\ lc[c] # "ACTIVE" => loans[c] = {}

\* The realtime loop keeps cycling: update() always returns.
RTLoopProgress == []<>(rtPc = "acquire")

\* Every service request returns: the writer's waits for the realtime
\* thread and the switch's wait for manage_switch() all end.
SvcCallsReturn == svc.pc # "idle" ~> svc.pc = "idle"

=============================================================================
