------------------------------ MODULE MCStream ------------------------------
(***************************************************************************)
(* StreamClient in scenes, one to a behaviour, so that every property of a *)
(* run is checked in each.  The constants of the configuration are those   *)
(* of "odd"; the other scenes are instances that share its variables.      *)
(*   odd       frames that do not parse, responses whose id cannot be read *)
(*             or was never issued, room for one queued report             *)
(*   routing   requests that time out or are cancelled, late and batched   *)
(*             answers, a reader that comes and goes                       *)
(*   sessions  replacing, closing and losing connections, a cancellation   *)
(*   relogin   logging in again over unreadable responses whose reports    *)
(*             are queued; one caller at a time                            *)
(***************************************************************************)
EXTENDS MCStreamClient

VARIABLE scene

Routing == INSTANCE StreamClient WITH
    MaxFrame <- 4, MaxReports <- 2, Unsolicited <- OnlyData
AnySession == INSTANCE StreamClient WITH
    Ops <- {"login", "subs", "logout", "close"}, MaxFrame <- 2, MaxReports <- 2,
    Verdicts <- {"reject"}, Unsolicited <- OnlyData
Relogin == INSTANCE StreamClient WITH
    Ops <- {"login", "subs", "close"}, MaxFrame <- 2, MaxReports <- 2,
    MaxCancel <- 0, Verdicts <- {"reject"}, Unsolicited <- Unreadable
OneCaller == Cardinality({t \in Callers : op[t] # "none"}) <= 1

NextInScene ==
    /\ \/ scene = "odd" /\ Next
       \/ scene = "routing" /\ Routing!Next
       \/ scene = "sessions" /\ AnySession!Next
       \/ scene = "relogin" /\ Relogin!Next /\ OneCaller'
    /\ UNCHANGED scene

RoutingInit == scene \in {"odd", "routing"} /\ LoggedIn
RoutingSpec == RoutingInit /\ [][NextInScene]_<<vars, scene>>

SessionsInit == scene \in {"sessions", "relogin"} /\ LoggedIn
SessionsSpec == SessionsInit /\ [][NextInScene]_<<vars, scene>>
=============================================================================
