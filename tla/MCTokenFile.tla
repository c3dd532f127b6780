---------------------------- MODULE MCTokenFile ----------------------------
(***************************************************************************)
(* TokenFile in two scenes, one to a behaviour.  The constants of the      *)
(* configuration are those of "three": three writes, none of which leaves  *)
(* its file alone while a second passes.  In "stall" there are two, which  *)
(* may, and more seconds.                                                  *)
(***************************************************************************)
EXTENDS TokenFile

VARIABLE scene

Stall == INSTANCE TokenFile WITH
    MaxWrites <- 2, MaxClock <- 3, MaxAge <- 2, MaxStall <- 1

ScenesInit ==
    \/ scene = "three" /\ Init
    \/ scene = "stall" /\ Stall!Init

ScenesNext ==
    /\ \/ scene = "three" /\ Next
       \/ scene = "stall" /\ Stall!Next
    /\ UNCHANGED scene

ScenesSpec == ScenesInit /\ [][ScenesNext]_<<vars, scene>>
============================================================================
