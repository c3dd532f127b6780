------------------------------ MODULE MCSession -----------------------------
(***************************************************************************)
(* Keeping a token, in two scenes, one to a behaviour.  The constants of   *)
(* the configuration are those of "tasks".                                 *)
(*   tasks     two tasks, failing writes, crashes and power losses on a    *)
(*             platform that cannot always flush                           *)
(*   odd       one task makes requests: every odd store and offer          *)
(***************************************************************************)
EXTENDS MCTokenSession

VARIABLE scene

Odd == INSTANCE TokenSession WITH
    FirstStores <- MCStores, Offers <- MCOffers, MaxClock <- 4,
    SurelySynced <- TRUE

ScenesInit ==
    \/ scene = "tasks" /\ Init
    \/ scene = "odd" /\ Odd!Init

ScenesNext ==
    /\ UNCHANGED scene
    /\ \/ scene = "tasks" /\ Next
       \/ scene = "odd" /\ Odd!Next /\ task'["t2"] = task["t2"]

ScenesSpec == ScenesInit /\ [][ScenesNext]_<<scene, vars>>
=============================================================================
