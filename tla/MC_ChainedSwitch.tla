--------------------------- MODULE MC_ChainedSwitch ---------------------------
(* Instances of ChainedSwitch for TLC. *)
EXTENDS ChainedSwitch

\* A linear chain: p writes f's references, f writes g's references, and
\* p reads g's exported state; u writes a command interface named after p,
\* which is not chainable; a second chain q -> h.  The updated list puts
\* each controller before the ones it uses, as
\* update_list_with_controller_chain orders it.
LinearItfs == [c \in {"u", "g", "f", "p", "h", "q"} |->
                 CASE c = "p" -> <<<<"f", "cmd">>, <<"g", "state">>>>
                   [] c = "f" -> <<<<"g", "cmd">>>>
                   [] c = "u" -> <<<<"p", "cmd">>>>
                   [] c = "q" -> <<<<"h", "cmd">>>>
                   [] OTHER -> <<>>]
LinearOrder == <<"u", "p", "f", "g", "q", "h">>

\* p writes f's references; u is an unrelated controller loaded first.
PairItfs == [c \in {"u", "f", "p"} |->
               IF c = "p" THEN <<<<"f", "cmd">>>> ELSE <<>>]
PairOrder == <<"u", "p", "f">>

=============================================================================
