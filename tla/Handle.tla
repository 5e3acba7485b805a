-------------------------------- MODULE Handle --------------------------------
(***************************************************************************)
(* One state interface (hardware_interface::Handle, handle.hpp) shared by *)
(* a writer, the controllers that read it through LoanedStateInterface    *)
(* (loaned_state_interface.hpp), and the introspection publisher.         *)
(*                                                                         *)
(*  - The writer is the hardware component storing a new reading with     *)
(*    set_value: a try-lock of handle_mutex_ in exclusive mode, the store,*)
(*    and the unlock when the unique_lock goes out of scope.  A failed    *)
(*    try returns false and changes nothing.                              *)
(*  - A reader is a controller thread (the realtime thread, or the worker *)
(*    of an async controller) in LoanedStateInterface::get_optional: up   *)
(*    to max_tries try-locks in shared mode, counting every try, every    *)
(*    failure and every timeout.                                          *)
(*  - The introspection publisher calls the lambda registered by          *)
(*    StateInterface::registerIntrospection, which dereferences value_ptr_*)
(*    without taking handle_mutex_.                                       *)
(*                                                                         *)
(* The value itself is abstracted away: what matters is who holds the     *)
(* lock when it is accessed.                                              *)
(***************************************************************************)
EXTENDS Naturals

CONSTANTS
  Readers,    \* threads reading the handle through a LoanedStateInterface
  MaxTries,   \* the max_tries argument of get_optional (default 10)
  MaxCalls    \* get_optional calls per reader

ASSUME MaxTries \in Nat \ {0} /\ MaxCalls \in Nat

VARIABLES
  excl,       \* the writer holds handle_mutex_ exclusively
  shared,     \* readers holding handle_mutex_ in shared mode
  rpc,        \* rpc[r]: "idle", "trying" (in the do-while) or "locked"
  tries,      \* tries[r]: nr_tries of the call in progress
  total,      \* get_value_statistics_.total_counter of r's loan
  failed,     \* get_value_statistics_.failed_counter
  timeouts,   \* get_value_statistics_.timeout_counter
  calls,      \* get_optional calls r has made (bounded by MaxCalls)
  racy        \* introspection has read the value during a set_value (history)

vars == <<excl, shared, rpc, tries, total, failed, timeouts, calls, racy>>

\* An exclusive try_to_lock succeeds: no owner of either kind.
ExclusiveAvailable == ~excl /\ shared = {}

\* A shared try_to_lock of handle_mutex_ succeeds: no exclusive owner.
SharedAvailable == ~excl

Init ==
  /\ excl = FALSE /\ shared = {}
  /\ rpc = [r \in Readers |-> "idle"]
  /\ tries = [r \in Readers |-> 0]
  /\ total = [r \in Readers |-> 0]
  /\ failed = [r \in Readers |-> 0]
  /\ timeouts = [r \in Readers |-> 0]
  /\ calls = [r \in Readers |-> 0]
  /\ racy = FALSE

ReaderVars == <<rpc, tries, total, failed, timeouts, calls>>

\* Handle::set_value: the exclusive try-lock succeeds and the value is
\* being stored.
SetValueLock ==
  /\ ExclusiveAvailable
  /\ excl' = TRUE
  /\ UNCHANGED <<shared, racy>> /\ UNCHANGED ReaderVars

\* The store is done and the unique_lock releases handle_mutex_.
SetValueUnlock ==
  /\ excl
  /\ excl' = FALSE
  /\ UNCHANGED <<shared, racy>> /\ UNCHANGED ReaderVars

\* LoanedStateInterface::get_optional is entered.
GetOptional(r) ==
  /\ rpc[r] = "idle" /\ calls[r] < MaxCalls
  /\ rpc' = [rpc EXCEPT ![r] = "trying"]
  /\ tries' = [tries EXCEPT ![r] = 0]
  /\ calls' = [calls EXCEPT ![r] = @ + 1]
  /\ UNCHANGED <<excl, shared, total, failed, timeouts, racy>>

\* One pass of the do-while: the try is counted and Handle::get_optional's
\* shared try-lock succeeds.
TryLockOk(r) ==
  /\ rpc[r] = "trying"
  /\ SharedAvailable
  /\ total' = [total EXCEPT ![r] = @ + 1]
  /\ shared' = shared \cup {r}
  /\ rpc' = [rpc EXCEPT ![r] = "locked"]
  /\ UNCHANGED <<excl, tries, failed, timeouts, calls, racy>>

\* The try-lock fails: the failure is counted, the thread yields, and after
\* max_tries failures the call counts a timeout and returns nullopt.
TryLockFail(r) ==
  /\ rpc[r] = "trying"
  /\ ~SharedAvailable
  /\ total' = [total EXCEPT ![r] = @ + 1]
  /\ failed' = [failed EXCEPT ![r] = @ + 1]
  /\ tries' = [tries EXCEPT ![r] = @ + 1]
  /\ IF tries[r] + 1 < MaxTries
     THEN UNCHANGED <<rpc, timeouts>>
     ELSE /\ timeouts' = [timeouts EXCEPT ![r] = @ + 1]
          /\ rpc' = [rpc EXCEPT ![r] = "idle"]
  /\ UNCHANGED <<excl, shared, calls, racy>>

\* Handle::get_optional(lock) reads *value_ptr_ and the shared_lock is
\* released on return; the value goes back to the controller.
ReadValue(r) ==
  /\ rpc[r] = "locked"
  /\ shared' = shared \ {r}
  /\ rpc' = [rpc EXCEPT ![r] = "idle"]
  /\ UNCHANGED <<excl, tries, total, failed, timeouts, calls, racy>>

\* The introspection lambda: value_ptr_ ? *value_ptr_ : get<double>(value_),
\* with no lock taken.
IntrospectionRead ==
  /\ racy' = (racy \/ excl)
  /\ UNCHANGED <<excl, shared>> /\ UNCHANGED ReaderVars

Next ==
  \/ SetValueLock \/ SetValueUnlock \/ IntrospectionRead
  \/ \E r \in Readers :
       GetOptional(r) \/ TryLockOk(r) \/ TryLockFail(r) \/ ReadValue(r)

Spec == Init /\ [][Next]_vars

-----------------------------------------------------------------------------

\* Spec section 4.1: the introspection publisher, like every reader of a
\* handle, goes through the non-blocking lock and tolerates a missed read;
\* it never reads the value while set_value is storing it.
IntrospectionLocked == ~racy

=============================================================================
