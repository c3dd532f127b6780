---------------------------- MODULE MCOrderFills ----------------------------
(* OrderFills for TLC: quantities of different scale, none, prices below   *)
(* zero, two legs, and one leg twice in an execution.                      *)
EXTENDS OrderFills

MCOddExecutions == {<<Leg(1, 10, 12), Leg(2, 5, 33)>>}
MCExecutions ==
    {<<Leg(1, 10, 33)>>, <<Leg(1, 5, 12)>>, <<Leg(1, 70, 1)>>,
     <<Leg(1, 10, -1)>>, <<Leg(1, 0, 12)>>, <<Leg(2, 10, 12)>>,
     <<Leg(1, 5, 1), Leg(1, 10, 33)>>} \cup MCOddExecutions
=============================================================================
