---------------------------- MODULE MC_ChainOrder ----------------------------
(***************************************************************************)
(* Chains for TLC.  traj writes the references of the two chainable       *)
(* controllers left and right, both of which write the reference of the   *)
(* chainable base (a diamond); base also reads the state traj exports, a  *)
(* state edge in the same direction.                                      *)
(***************************************************************************)
EXTENDS ChainOrder

MCCtrls == {"traj", "left", "right", "base"}

MCCmdRefs ==
  [c \in MCCtrls |->
     CASE c = "traj"  -> <<"left", "right">>
       [] c = "left"  -> <<"base">>
       [] c = "right" -> <<"base">>
       [] c = "base"  -> <<>>]

MCStateRefs ==
  [c \in MCCtrls |-> IF c = "base" THEN <<"traj">> ELSE <<>>]

MCChainable == {"traj", "left", "right", "base"}
=============================================================================
