------------------------------- MODULE MCEnds -------------------------------
(***************************************************************************)
(* That what is begun ends: the components whose code waits, in scenes,    *)
(* one to a behaviour, each under the fairness of its own module.  The     *)
(* components a scene is not about stay as they start, and the constants   *)
(* of the configuration are those of "login".                              *)
(*   session   two tasks make requests on one client (TokenSession)        *)
(*   login     programs log in on a port they bind or hold (LoginFlow)     *)
(*   dispatch  handle_message meets late rejections (StreamDispatch)       *)
(*   deadline  every operation, with a response timeout (StreamClient)     *)
(*   answers   subscriptions without one (StreamClient)                    *)
(***************************************************************************)
EXTENDS LoginFlow

VARIABLES
    scene,
    \* of TokenSession
    value, safe, call, clock, proc, session, meta, refreshQ, task, issued,
    granted, logins, dead, warned, torn,
    \* of StreamDispatch
    open, epoch, kinds, shapes, failures, handlers, errors, loop, reader,
    request, telling, tasks, held, made, late, calls, owed, heardOf, again,
    failed, popped, ended, rejections,
    \* of StreamClient
    socket, conn, wire, requested, nextId, pending, future, readQ, reqQ, overflow,
    reports, absorbed, flagged, where, op, req, at, hand, asked, verdict,
    outcome, taken, consumed, claimed, told, lost, cancels

\* The stores and offers of MCTokenSession.
S == INSTANCE MCTokenSession WITH
    Requesters <- {}, FirstStores <- {}, Offers <- {}, MaxToken <- 2,
    MaxLogin <- 1, MaxClock <- 0, Leeway <- 1, Longest <- 5,
    SurelySynced <- TRUE
Session == INSTANCE TokenSession WITH
    Requesters <- {"t1", "t2"}, FirstStores <- S!FewStores, Offers <- S!FewOffers,
    MaxToken <- 2, MaxLogin <- 1, MaxClock <- 2, Leeway <- 1, Longest <- 5,
    SurelySynced <- TRUE

Part(is, elements) == [is |-> is, elements |-> elements]
Item(is, service) == [is |-> is, service |-> service, labels |-> TRUE]
FrameOf(response, data) ==
    [object |-> TRUE, unread |-> {}, response |-> response, data |-> data,
     notify |-> Part("absent", <<>>)]
LateFrames ==
    {FrameOf(Part("list", <<Item("rejected", "none"), Item("accepted", "none"),
                            Item("junk", "none")>>),
             Part("list", <<Item("message", "QUOTES")>>)),
     FrameOf(Part("absent", <<>>), Part("list", <<Item("junk", "none")>>))}

TheRequest == [name |-> "request"]
Dispatch == INSTANCE StreamDispatch WITH
    Services <- {"QUOTES", "BOOK"}, Handlers <- {"h1"},
    ServiceOf <- [h \in {"h1"} |-> "QUOTES"], ErrorHandlers <- {"e1"},
    Requests <- {TheRequest}, Frames <- LateFrames, MaxFrame <- 1, MaxLate <- 1,
    MaxEpoch <- 2,
    MaxReports <- 4, MaxShapes <- 4, Cancels <- FALSE, Exits <- FALSE,
    queue <- failures, told <- heardOf, taken <- popped

Data == [kind |-> "data", els |-> <<>>]
Deadline == INSTANCE StreamClient WITH
    Callers <- {"c1", "c2"}, Readers <- {"r1"},
    Ops <- {"login", "subs", "logout", "close"}, MaxRequest <- 2,
    MaxSession <- 2, MaxFrame <- 1, MaxCancel <- 0, MaxReports <- 1,
    Serial <- TRUE, HasTimeout <- TRUE, Verdicts <- {"reject"},
    BatchLimit <- 1, LiveFirst <- TRUE, Unsolicited <- {Data},
    pc <- where, sent <- requested
Answered == INSTANCE MCStreamClient WITH
    Callers <- {"c1", "c2"}, Readers <- {"r1"}, Ops <- {"subs"},
    MaxRequest <- 3, MaxSession <- 1, MaxFrame <- 2, MaxCancel <- 1,
    MaxReports <- 1, Serial <- TRUE, HasTimeout <- FALSE,
    Verdicts <- {"reject"}, BatchLimit <- 2, LiveFirst <- TRUE,
    Unsolicited <- {Data}, pc <- where, sent <- requested

sessionVars == <<value, safe, call, clock, proc, session, meta, refreshQ, task,
    issued, granted, logins, dead, warned, torn>>
dispatchVars == <<open, epoch, kinds, shapes, failures, handlers, errors, loop,
    reader, request, telling, tasks, held, made, late, calls, owed, heardOf,
    again, failed, popped, ended, rejections>>
streamVars == <<socket, conn, wire, requested, nextId, pending, future, readQ, reqQ,
    overflow, reports, absorbed, flagged, where, op, req, at, hand, asked, verdict,
    outcome, taken, consumed, claimed, told, lost, cancels>>
allVars == <<scene, vars, sessionVars, dispatchVars, streamVars>>

ScenesInit ==
    /\ scene \in {"session", "login", "dispatch", "deadline", "answers"}
    /\ Init
    /\ scene # "login" => port = "free" /\ \A p \in Programs : stored[p] = "absent"
    /\ Session!Init /\ (scene # "session" => value = S!NoStore)
    /\ Dispatch!Init
    /\ \/ scene = "answers" /\ Answered!LoggedIn
       \/ scene # "answers" /\ Deadline!Init

ScenesNext ==
    /\ UNCHANGED scene
    /\ \/ /\ scene = "login" /\ Next
          /\ UNCHANGED <<sessionVars, dispatchVars, streamVars>>
       \/ /\ scene = "session" /\ Session!Next
          /\ UNCHANGED <<vars, dispatchVars, streamVars>>
       \/ /\ scene = "dispatch" /\ Dispatch!Next
          /\ UNCHANGED <<vars, sessionVars, streamVars>>
       \/ /\ scene = "deadline" /\ Deadline!Next
          /\ UNCHANGED <<vars, sessionVars, dispatchVars>>
       \/ /\ scene = "answers" /\ Answered!Next
          /\ UNCHANGED <<vars, sessionVars, dispatchVars>>

\* The fairness of each module, in its own scene.
SessionFair ==
    \A t \in {"t1", "t2"} :
        /\ WF_sessionVars(scene = "session" /\ Session!Check(t))
        /\ WF_sessionVars(scene = "session" /\ Session!AnswerArrives(t))
        /\ WF_sessionVars(scene = "session" /\ Session!WriteEnds(t))
        /\ WF_sessionVars(scene = "session" /\ Session!Send(t))
        /\ WF_sessionVars(scene = "session" /\ Session!StoreStep)
LoginFair ==
    \A p \in Programs : WF_vars(scene = "login" /\ FlowStep(p))
DispatchFair ==
    /\ WF_dispatchVars(scene = "dispatch" /\ Dispatch!CallHandle)
    /\ WF_dispatchVars(scene = "dispatch" /\ Dispatch!Drained)
    /\ WF_dispatchVars(scene = "dispatch" /\ Dispatch!Frame)
    /\ \A a \in {Dispatch!Reader, TheRequest} :
          SF_dispatchVars(scene = "dispatch" /\ Dispatch!Works(a))
StreamFair ==
    \A t \in {"c1", "c2", "r1"} :
        /\ WF_streamVars(scene = "deadline" /\ Deadline!TaskStep(t))
        /\ WF_streamVars(scene = "answers" /\ Answered!TaskStep(t))

ScenesSpec ==
    /\ ScenesInit /\ [][ScenesNext]_allVars
    /\ SessionFair /\ LoginFair /\ DispatchFair /\ StreamFair

----------------------------------------------------------------------------
(* The properties of the modules, each in the scenes it is about;          *)
(* OwnCode, NotSpent, PortInHand and LoginsEnd are LoginFlow's.            *)

\* Every request is answered or fails (the session's call_api and refresh).
RequestsEnd == Session!RequestsEnd

\* A rejection that is queued is told or cleared, though handle_message may
\* sit in recv() for ever (_drain_pending_reports).
Delivered == Dispatch!Delivered

\* With a response timeout every call of login, subs, logout and close ends,
\* whatever the venue answers (_await_response).
CallsEnd ==
    \A t \in {"c1", "c2"} :
        scene = "deadline" /\ op[t] # "none" ~> op[t] = "none"

\* Without one, a request the venue has answered ends all the same, also when
\* a task that was reading is cancelled (_await_response, _receive).
AnsweredCallsEnd ==
    \A t \in {"c1", "c2"} :
        scene = "answers" /\ req[t] # 0 /\ verdict[req[t]] # "none"
            ~> op[t] = "none"
=============================================================================
