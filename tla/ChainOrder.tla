------------------------------ MODULE ChainOrder ------------------------------
(***************************************************************************)
(* The chain topology of controller_manager.cpp: controller_chain_spec_   *)
(* (following_controllers and preceding_controllers per loaded            *)
(* controller), the edges configure_controller adds for every command or  *)
(* state interface whose prefix names a loaded controller, the cleanup at *)
(* unload, and the roster order that configure_controller computes with   *)
(* the recursive update_list_with_controller_chain and publishes to the   *)
(* realtime thread.                                                        *)
(*                                                                         *)
(* A controller writing the reference interface "p/..." has p among its   *)
(* following controllers and is among p's preceding controllers; one      *)
(* reading the exported state "p/..." has p among its preceding ones.     *)
(*                                                                         *)
(* The names are iterated from an unordered_map, so the order the         *)
(* top-level loop visits them in is any permutation.  Activation is not   *)
(* part of this module (see ControllerManager); unload needs a controller *)
(* that is not ACTIVE, which every controller here is not.                *)
(***************************************************************************)
EXTENDS Integers, Sequences, SequencesExt, FiniteSets, ControllerLifecycle

CONSTANTS
  Ctrls,            \* names of the controllers that may be loaded
  CmdRefs,          \* CmdRefs[c]: controller prefixes of c's command interfaces
  StateRefs,        \* StateRefs[c]: controller prefixes of c's state interfaces
  Chainable,        \* controllers that export reference or state interfaces
  CallbackResults,  \* what on_configure / on_cleanup may answer
  ExportMayFail     \* whether exporting a chainable controller's interfaces may fail

ASSUME
  /\ CmdRefs \in [Ctrls -> Seq(Ctrls)] /\ StateRefs \in [Ctrls -> Seq(Ctrls)]
  /\ \A c \in Ctrls : c \notin ToSet(CmdRefs[c]) \cup ToSet(StateRefs[c])
  /\ Chainable \subseteq Ctrls
  /\ CallbackResults \subseteq Outcomes /\ "SUCCESS" \in CallbackResults
  /\ ExportMayFail \in BOOLEAN

VARIABLES
  lc,         \* lc[c]: lifecycle state of controller c, or NoController
  chainSpec,  \* controller_chain_spec_: [following, preceding] per controller
  roster      \* the order of the roster the realtime thread iterates

vars == <<lc, chainSpec, roster>>

NoChain == [following |-> <<>>, preceding |-> <<>>]
Answers == AnswersFrom(CallbackResults, ErrorExits)
Loaded == {c \in Ctrls : lc[c] # NoController}

\* Position of x in s (0 when absent), as std::find and std::distance.
PosOf(s, x) == SelectInSeq(s, LAMBDA y : y = x)

\* ros2_control::add_item: append x unless it is already there.
AddItem(s, x) == IF x \in ToSet(s) THEN s ELSE Append(s, x)

-----------------------------------------------------------------------------
(* The ordering algorithm.  An iterator is a 1-based index; Len + 1 is     *)
(* end().                                                                  *)

\* update_list_with_controller_chain(name, iterator, append) as the code
\* has it: place name before its earliest already-placed following
\* controller, then after its latest already-placed preceding one, insert
\* it there (one further when append), and recurse into its following
\* controllers (append) and then its preceding controllers (insert before),
\* each time anchored at name's current position.
RECURSIVE UpdateList(_, _, _, _, _), UpdateEach(_, _, _, _, _)

\* update_list_with_controller_chain inserting at the iterator whether or
\* not append is set.
UpdateListNoAppend(spec, order, name, it, append) ==
  IF name \in ToSet(order) THEN order
  ELSE
    LET placed(s) == {PosOf(order, x) : x \in ToSet(s) \cap ToSet(order)}
        itF == Min({it} \cup placed(spec[name].following))
        itP == Max({itF} \cup placed(spec[name].preceding))
        ins == InsertAt(order, itP, name)
        fol == UpdateEach(spec, ins, spec[name].following, name, TRUE)
    IN  UpdateEach(spec, fol, spec[name].preceding, name, FALSE)

UpdateList(spec, order, name, it, append) ==
  IF name \in ToSet(order) THEN order
  ELSE
    LET placed(s) == {PosOf(order, x) : x \in ToSet(s) \cap ToSet(order)}
        itF == Min({it} \cup placed(spec[name].following))
        itP == Max({itF} \cup placed(spec[name].preceding))
        ins == InsertAt(order, IF append THEN itP + 1 ELSE itP, name)
        fol == UpdateEach(spec, ins, spec[name].following, name, TRUE)
    IN  UpdateEach(spec, fol, spec[name].preceding, name, FALSE)

UpdateEach(spec, order, todo, anchor, append) ==
  IF todo = <<>> THEN order
  ELSE UpdateEach(spec,
                  UpdateList(spec, order, Head(todo), PosOf(order, anchor), append),
                  Tail(todo), anchor, append)

\* ordered_controllers_names_ rebuilt from scratch, visiting the names of
\* controller_chain_spec_ in the order keys.
OrderedNames(spec, keys) ==
  FoldLeft(LAMBDA o, n : UpdateList(spec, o, n, Len(o) + 1, FALSE), <<>>, keys)

\* The roster reordered after ordered_controllers_names_.
Reordered(spec, keys, list) ==
  SelectSeq(OrderedNames(spec, keys), LAMBDA n : n \in ToSet(list))

-----------------------------------------------------------------------------
(* Edges.                                                                  *)

\* The edges configure_controller adds for controller c, given the loaded
\* controllers an interface prefix is looked up in.
AddCmdEdge(spec, c, p) ==
  [spec EXCEPT ![c].following = AddItem(@, p), ![p].preceding = AddItem(@, c)]

AddStateEdge(spec, c, p) ==
  [spec EXCEPT ![c].preceding = AddItem(@, p), ![p].following = AddItem(@, c)]

WithEdgesOf(spec, c, loaded) ==
  LET known(refs) == SelectSeq(refs, LAMBDA p : p \in loaded)
      cmd == FoldLeft(LAMBDA s, p : AddCmdEdge(s, c, p), spec, known(CmdRefs[c]))
  IN  FoldLeft(LAMBDA s, p : AddStateEdge(s, c, p), cmd, known(StateRefs[c]))

\* controller_chain_spec_cleanup removing c only from the preceding lists
\* of its following controllers.
ChainSpecCleanupOneSided(spec, c) ==
  [x \in Ctrls |->
     IF x = c THEN NoChain
     ELSE [spec[x] EXCEPT !.preceding = IF x \in ToSet(spec[c].following)
                                        THEN Remove(@, c) ELSE @]]

\* controller_chain_spec_cleanup: c leaves the lists of its neighbours and
\* its own entry is erased.
ChainSpecCleanup(spec, c) ==
  [x \in Ctrls |->
     IF x = c THEN NoChain
     ELSE [following |-> IF x \in ToSet(spec[c].preceding)
                         THEN Remove(spec[x].following, c) ELSE spec[x].following,
           preceding |-> IF x \in ToSet(spec[c].following)
                         THEN Remove(spec[x].preceding, c) ELSE spec[x].preceding]]

-----------------------------------------------------------------------------
(* Operations.                                                             *)

Init ==
  /\ lc = [c \in Ctrls |-> NoController]
  /\ chainSpec = [c \in Ctrls |-> NoChain]
  /\ roster = <<>>

\* load_controller / add_controller_impl after a successful init: a fresh
\* chain entry, and the controller appended to the roster.
Load(c) ==
  /\ lc[c] = NoController
  /\ lc' = [lc EXCEPT ![c] = "UNCONFIGURED"]
  /\ chainSpec' = [chainSpec EXCEPT ![c] = NoChain]
  /\ roster' = Append(roster, c)

\* unload_controller of a controller that is not ACTIVE.
Unload(c) ==
  /\ lc[c] \notin {NoController, "ACTIVE"}
  /\ chainSpec' = ChainSpecCleanup(chainSpec, c)
  /\ lc' = [lc EXCEPT ![c] = NoController]
  /\ roster' = Remove(roster, c)

\* configure_controller: clean up first when INACTIVE, configure, export
\* the interfaces of a chainable controller, add the chain edges and
\* reorder the roster.  Each failure returns with what was done so far.
Configure(c) ==
  /\ lc[c] \in {"UNCONFIGURED", "INACTIVE"}
  /\ \E cl \in Answers, cf \in Answers, exported \in BOOLEAN,
        keys \in SetToSeqs(Loaded) :
       LET cleaned == IF lc[c] = "INACTIVE"
                      THEN AfterTransition("cleanup", lc[c], cl.res, cl.err)
                      ELSE lc[c]
           configured == AfterTransition("configure", cleaned, cf.res, cf.err)
           spec == WithEdgesOf(chainSpec, c, Loaded)
       IN  /\ exported \/ (ExportMayFail /\ c \in Chainable)
           /\ IF cleaned = "UNCONFIGURED" THEN lc' = [lc EXCEPT ![c] = configured]
                                          ELSE lc' = [lc EXCEPT ![c] = cleaned]
           /\ IF configured = "INACTIVE" /\ cleaned = "UNCONFIGURED" /\ exported
              THEN /\ chainSpec' = spec
                   /\ roster' = Reordered(spec, keys, roster)
              ELSE UNCHANGED <<chainSpec, roster>>

Next == \E c \in Ctrls : Load(c) \/ Unload(c) \/ Configure(c)

Spec == Init /\ [][Next]_vars

-----------------------------------------------------------------------------
(* Properties.                                                             *)

\* The chain edges: ChainEdge[p, f] when f is among p's following
\* controllers.
ChainEdge == [p, f \in Ctrls |-> f \in ToSet(chainSpec[p].following)]

\* Every edge is recorded at both ends and only between loaded
\* controllers: whatever order controllers are loaded, configured,
\* re-configured and unloaded in, f follows p exactly when p precedes f,
\* so the cleanup at unload leaves no name of an unloaded controller
\* behind (a later load of that name starts with a fresh entry).
ChainSpecSymmetric ==
  \A p, f \in Ctrls :
    /\ ChainEdge[p, f] <=> p \in ToSet(chainSpec[f].preceding)
    /\ ChainEdge[p, f] => {p, f} \subseteq Loaded

\* The realtime thread updates a preceding controller before the
\* following controller whose reference interfaces it writes, for every
\* order the unordered_map yields the names in: the order
\* update_list_with_controller_chain builds is consistent with every edge.
PrecedingUpdatedFirst ==
  \A p, f \in Ctrls : ChainEdge[p, f] => PosOf(roster, p) < PosOf(roster, f)

=============================================================================
