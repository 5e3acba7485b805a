------------------------------ MODULE HandleValue ------------------------------
(***************************************************************************)
(* The value semantics of hardware_interface::Handle (handle.hpp): how a  *)
(* handle is constructed, copied and moved, and what the typed            *)
(* set_value and get_optional then do with its three data members         *)
(*   data_type_  the declared type (DOUBLE or BOOL),                      *)
(*   value_      a std::variant<monostate, double, bool>,                 *)
(*   value_ptr_  a double* that get/set of a double go through: null, the *)
(*               double of an owner (deprecated constructor), the double  *)
(*               inside some handle's value_, or indeterminate.           *)
(*                                                                         *)
(* A handle object lives in a slot; a slot is empty, holds a live handle  *)
(* or a moved-from one.  Locking is in Handle.tla; here every call holds  *)
(* the lock.  Beside the code's state the module keeps what each handle   *)
(* was declared as and the value its user last stored (decl, expect),     *)
(* the reference that get_optional is compared against.  value_ is split *)
(* into its active alternative and the bytes of its storage, which a     *)
(* value_ptr_ of another handle may still reach; reading released storage *)
(* is undefined behaviour: any double, or a crash.                        *)
(***************************************************************************)
EXTENDS Naturals

CONSTANTS
  Slots,      \* storage for handle objects
  Vals,       \* doubles a caller stores (besides NaN, 0.0 and 1.0)
  DeclTypes   \* data types handles are declared with: subset of {"double", "bool"}

ASSUME DeclTypes \subseteq {"double", "bool"}

NaN == "NaN"
\* A bool held by value_, and its static_cast<double>.
Bools == {"false", "true"}
Cast(b) == IF b = "true" THEN "1.0" ELSE "0.0"
Doubles == Vals \cup {NaN, "0.0", "1.0"}

VARIABLES
  live,      \* slots holding a handle in use
  moved,     \* slots holding a moved-from handle
  dtype,     \* dtype[s]: data_type_
  kind,      \* kind[s]: the alternative value_ holds: "mono", "double", "bool"
  raw,       \* raw[s]: the double or bool last written to value_'s storage
  ptr,       \* ptr[s]: value_ptr_: "null", "ext", "wild" or a slot
  ext,       \* the owner's double a deprecated handle points to
  decl,      \* decl[s]: the type s (or the handle s copies) was declared with
  expect     \* expect[s]: the value last stored through s, or "ext"

vars == <<live, moved, dtype, kind, raw, ptr, ext, decl, expect>>

Init ==
  /\ live = {} /\ moved = {}
  /\ dtype = [s \in Slots |-> "double"]
  /\ kind = [s \in Slots |-> "mono"]
  /\ raw = [s \in Slots |-> NaN]
  /\ ptr = [s \in Slots |-> "wild"]
  /\ ext = NaN
  /\ decl = [s \in Slots |-> "double"]
  /\ expect = [s \in Slots |-> NaN]

Free(s) == s \notin live \cup moved

\* A new handle in the free slot s: data_type_, value_ and value_ptr_ as
\* the constructor leaves them, declared as d with initial value v.
New(s, t, k, v, p, d, e) ==
  /\ Free(s)
  /\ live' = live \cup {s}
  /\ dtype' = [dtype EXCEPT ![s] = t]
  /\ kind' = [kind EXCEPT ![s] = k]
  /\ raw' = [raw EXCEPT ![s] = v]
  /\ ptr' = [ptr EXCEPT ![s] = p]
  /\ decl' = [decl EXCEPT ![s] = d]
  /\ expect' = [expect EXCEPT ![s] = e]
  /\ UNCHANGED <<moved, ext>>

\* Handle(prefix, name, data_type, initial_value) with data_type "double":
\* value_ holds the parsed initial value (NaN when empty) and value_ptr_
\* points into it.  An unparsable value throws and constructs nothing.
ConstructDouble(s, init) ==
  /\ "double" \in DeclTypes
  /\ New(s, "double", "double", init, s, "double", init)

\* The same constructor with data_type "bool": value_ptr_ is null and
\* value_ holds the parsed bool (false when empty).
ConstructBool(s, b) ==
  /\ "bool" \in DeclTypes
  /\ New(s, "bool", "bool", b, "null", "bool", b)

\* The deprecated Handle(prefix, name, double * value_ptr): value_ stays
\* monostate, data_type_ keeps its default DOUBLE.
ConstructLegacy(s) ==
  /\ "double" \in DeclTypes
  /\ New(s, "double", "mono", raw[s], "ext", "double", "ext")

\* The value_ptr_ Handle::copy gives d when copying s: the source's
\* pointer when value_ is monostate, else get_if<double>(&value_).
CopiedPtr(d, s) ==
  CASE kind[s] = "mono" -> ptr[s]
    [] kind[s] = "double" -> d
    [] OTHER -> "null"

\* Handle(const Handle &): copy() takes the names, value_ and value_ptr_
\* under both mutexes; data_type_ keeps its default DOUBLE.
CopyConstruct(d, s) ==
  /\ s \in live
  /\ New(d, "double", kind[s], IF kind[s] = "mono" THEN raw[d] ELSE raw[s],
         CopiedPtr(d, s), decl[s], expect[s])

\* Handle(Handle &&): swap(*this, other) on a default-initialised *this
\* exchanges value_ and value_ptr_, not data_type_.  The moved-from
\* handle holds monostate (its storage keeps its bytes) and the
\* indeterminate pointer.
MoveConstruct(d, s) ==
  /\ Free(d) /\ s \in live
  /\ live' = (live \ {s}) \cup {d}
  /\ moved' = moved \cup {s}
  /\ dtype' = [dtype EXCEPT ![d] = "double"]
  /\ kind' = [kind EXCEPT ![d] = kind[s], ![s] = "mono"]
  /\ raw' = [raw EXCEPT ![d] = raw[s]]
  /\ ptr' = [ptr EXCEPT ![d] = ptr[s], ![s] = "wild"]
  /\ decl' = [decl EXCEPT ![d] = decl[s]]
  /\ expect' = [expect EXCEPT ![d] = expect[s]]
  /\ UNCHANGED ext

\* Handle::operator=(const Handle &) on a live d: copy() as above, and
\* data_type_ keeps the value d had.
CopyAssign(d, s) ==
  /\ d \in live /\ s \in live /\ d # s
  /\ kind' = [kind EXCEPT ![d] = kind[s]]
  /\ raw' = IF kind[s] = "mono" THEN raw ELSE [raw EXCEPT ![d] = raw[s]]
  /\ ptr' = [ptr EXCEPT ![d] = CopiedPtr(d, s)]
  /\ decl' = [decl EXCEPT ![d] = decl[s]]
  /\ expect' = [expect EXCEPT ![d] = expect[s]]
  /\ UNCHANGED <<live, moved, dtype, ext>>

\* Handle::operator=(Handle &&): swap(*this, other) of two live handles
\* exchanges value_ and value_ptr_ but neither data_type_; s is left
\* moved-from.
MoveAssign(d, s) ==
  /\ d \in live /\ s \in live /\ d # s
  /\ live' = live \ {s} /\ moved' = moved \cup {s}
  /\ kind' = [kind EXCEPT ![d] = kind[s], ![s] = kind[d]]
  /\ raw' = [raw EXCEPT ![d] = raw[s], ![s] = raw[d]]
  /\ ptr' = [ptr EXCEPT ![d] = ptr[s], ![s] = ptr[d]]
  /\ decl' = [decl EXCEPT ![d] = decl[s]]
  /\ expect' = [expect EXCEPT ![d] = expect[s]]
  /\ UNCHANGED <<dtype, ext>>

\* ~Handle: the slot's storage is released.
Destroy(s) ==
  /\ s \in live \cup moved
  /\ live' = live \ {s} /\ moved' = moved \ {s}
  /\ UNCHANGED <<dtype, kind, raw, ptr, ext, decl, expect>>

\* set_value<double>: THROW_ON_NULLPTR(value_ptr_), then *value_ptr_ = x,
\* which lands in the storage value_ptr_ points to, whoever owns it now.
SetDouble(s, x) ==
  /\ s \in live /\ ptr[s] # "null"
  /\ ext' = IF ptr[s] = "ext" THEN x ELSE ext
  /\ raw' = IF ptr[s] \in Slots /\ ~Free(ptr[s]) THEN [raw EXCEPT ![ptr[s]] = x]
            ELSE raw
  /\ expect' = [expect EXCEPT ![s] = IF @ = "ext" THEN "ext" ELSE x]
  /\ UNCHANGED <<live, moved, dtype, kind, ptr, decl>>

\* set_value<bool>: throws unless value_ holds a bool, else stores it.
SetBool(s, b) ==
  /\ s \in live /\ kind[s] = "bool"
  /\ raw' = [raw EXCEPT ![s] = b]
  /\ expect' = [expect EXCEPT ![s] = b]
  /\ UNCHANGED <<live, moved, dtype, kind, ptr, ext, decl>>

Next ==
  \/ \E s \in Slots :
       \/ \E init \in Vals \cup {NaN} : ConstructDouble(s, init)
       \/ \E b \in Bools : ConstructBool(s, b) \/ SetBool(s, b)
       \/ ConstructLegacy(s) \/ Destroy(s)
       \/ \E x \in Vals : SetDouble(s, x)
       \/ \E d \in Slots : CopyConstruct(d, s) \/ MoveConstruct(d, s)
                          \/ CopyAssign(d, s) \/ MoveAssign(d, s)

Spec == Init /\ [][Next]_vars

-----------------------------------------------------------------------------

\* What *value_ptr_ yields: the owner's double, the bytes of a handle's
\* storage that still exists, or (released storage, an indeterminate
\* pointer) any double or a crash.
Deref(p) ==
  CASE p = "ext" -> {ext}
    [] p \in Slots /\ ~Free(p) /\ raw[p] \in Doubles -> {raw[p]}
    [] OTHER -> Doubles \cup {"crash"}

\* The outcomes of get_optional<double>() on s, holding the lock: DOUBLE
\* reads through value_ptr_ (null throws), BOOL casts std::get<bool>(value_)
\* (which throws when value_ holds no bool).
GetDouble(s) ==
  CASE dtype[s] = "bool" /\ kind[s] = "bool" -> {Cast(raw[s])}
    [] dtype[s] = "bool" \/ ptr[s] = "null" -> {"throw"}
    [] OTHER -> Deref(ptr[s])

\* The double a caller of get_optional<double>() on s is owed: the value
\* last stored, cast to double for a bool handle.
Expected(s) ==
  CASE decl[s] = "bool" -> Cast(expect[s])
    [] expect[s] = "ext" -> ext
    [] OTHER -> expect[s]

\* Spec 3.1 (the declared data type is immutable, bool-to-double casting is
\* permitted) and the get_optional contract: every handle in use, however
\* it was constructed, copied or moved, returns through get_optional<double>
\* exactly the value last stored through it.
GetOptionalReturnsValue ==
  \A s \in live : GetDouble(s) = {Expected(s)}

=============================================================================
