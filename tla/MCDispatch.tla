----------------------------- MODULE MCDispatch -----------------------------
(***************************************************************************)
(* StreamDispatch in scenes, one to a behaviour.  The constants of the     *)
(* configuration are those of "handlers".                                  *)
(*   handlers  two handlers of one service, and coroutines among them      *)
(*   errors    two error handlers, and exceptions that end a call          *)
(*   drains    two requests and handle_message drain one queue             *)
(*   flood     one channel malformed ten times, among other failures       *)
(*   names     more new names than the count alone would report            *)
(***************************************************************************)
EXTENDS MCStreamDispatch, TLC

CONSTANTS q1, q2    \* requests
VARIABLE scene

OneHandler == [h \in {"h1"} |-> "QUOTES"]
Errors == INSTANCE StreamDispatch WITH
    Handlers <- {"h1"}, ServiceOf <- OneHandler, ErrorHandlers <- {"e1", "e2"},
    Frames <- PlainFrames, Exits <- TRUE
Drains == INSTANCE StreamDispatch WITH
    Handlers <- {"h1"}, ServiceOf <- OneHandler, ErrorHandlers <- {"e1"},
    Requests <- {q1, q2}, Frames <- OrphanFrames, MaxLate <- 2, Cancels <- TRUE
Floods == INSTANCE StreamDispatch WITH
    Handlers <- {}, ServiceOf <- <<>>, Frames <- FloodFrames, MaxFrame <- 3,
    MaxLate <- 1, MaxReports <- 6
Names == INSTANCE StreamDispatch WITH
    Handlers <- {}, ServiceOf <- <<>>, Frames <- NewsFrames, MaxFrame <- 3,
    MaxEpoch <- 1, MaxReports <- 16, MaxShapes <- 7

ScenesInit ==
    /\ scene \in {"handlers", "errors", "drains", "flood", "names"}
    /\ IF scene = "drains" THEN Drains!Init ELSE Init

ScenesNext ==
    /\ \/ scene = "handlers" /\ Next
       \/ scene = "errors" /\ Errors!Next
       \/ scene = "drains" /\ Drains!Next
       \/ scene = "flood" /\ Floods!Next
       \/ scene = "names" /\ Names!Next
    /\ UNCHANGED scene

ScenesSpec == ScenesInit /\ [][ScenesNext]_<<scene, vars>>

Alike == Permutations({q1, q2})
=============================================================================
