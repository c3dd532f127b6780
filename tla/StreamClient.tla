---------------------------- MODULE StreamClient ----------------------------
(***************************************************************************)
(* schwaby.streaming.StreamClient: how requests (login, subs, logout) and  *)
(* handle_message share one websocket.                                     *)
(*                                                                         *)
(* A task is an asyncio task that calls one coroutine of the client after  *)
(* another.  An action is the code one task runs between two awaits, so    *)
(* an interleaving of actions is an interleaving the event loop can make.  *)
(*                                                                         *)
(*   _request_lock  one request outstanding; its holder fills the pending  *)
(*                  slot, sends, and waits for the answer                  *)
(*   _read_lock     one task inside recv(); a request waits for "my future *)
(*                  is resolved" or "I hold the read lock", whichever      *)
(*                  comes first                                            *)
(*   overflow       frames a request read that were not its answer         *)
(*   reports        rejections found behind an answer, to be reported once *)
(*                  no lock is held                                        *)
(*                                                                         *)
(* Identifiers: request ids count from 1 (the code's from 0), a session is *)
(* the connection one login opened, and 0 stands for "none" in each.       *)
(***************************************************************************)
EXTENDS FairLock, FiniteSets

CONSTANTS
    Callers,      \* tasks that call login(), logout(), close(), *_subs() ...
    Readers,      \* tasks that call handle_message()
    Ops,          \* the request operations the callers use
    MaxRequest,   \* bound: requests made in a behaviour
    MaxSession,   \* bound: connections opened in a behaviour
    MaxFrame,     \* bound: frames the venue sends on a connection
    MaxCancel,    \* bound: task cancellations in a behaviour
    MaxReports,   \* maxlen of _pending_reports (64 in the code)
    Serial,       \* callers never overlap login(), logout() and close()
    HasTimeout,   \* response_timeout is not None
    Verdicts,     \* the answers the venue gives: a subset of Codes
    BatchLimit,   \* bound: responses in one frame, 1 or 2
    LiveFirst,    \* in a batch the venue puts the newest request's answer first
    Unsolicited   \* what else it sends: data, bad text, unreadable responses

Tasks    == Callers \cup Readers
Ids      == 1 .. MaxRequest
Sessions == 1 .. MaxSession
Codes    == {"ok", "reject", "wrong"}

\* One response: the request it names (0: the id does not parse) and whether
\* it accepts, rejects, or names another service or command.
Element == [id : Nat, code : Codes]

\* One frame: data, a list of responses, or text that is not JSON.
Frame == [kind : {"data", "resp", "bad"}, els : Seq(Element),
          ses : Sessions, num : Nat]
NoFrame == [kind |-> "data", els |-> <<>>, ses |-> 0, num |-> 0]

\* What a waiting future can hold: nothing yet, an answer, or an exception.
FutureStates == {"none", "open", "ok", "reject", "wrong", "bad", "broken",
                 "readerCancelled"}
Results == {"none", "ok", "reject", "wrong", "bad", "broken", "timeout",
            "readerCancelled", "cancelled"}

\* Where a task is suspended.  "...Told": a handler is running.
States == {"idle", "reqlock", "sending", "await", "recv", "hlock", "drain",
           "drainTold", "orphans", "orphanTold", "unparsable",
           "unparsableTold", "replacing", "connecting", "closing"}

\* A report to the error handlers: what it is about and the frame it is from.
Report == [what : {"rejection", "unusable", "unparsable"}, id : Nat,
           ses : Sessions, num : Nat]

ASSUME OpsAssumption == Ops \subseteq {"subs", "login", "logout", "close"}
ASSUME VenueAssumption ==
    /\ Verdicts \subseteq Codes /\ BatchLimit \in {1, 2} /\ LiveFirst \in BOOLEAN
    /\ Unsolicited \subseteq [kind : {"data", "resp", "bad"}, els : Seq(Element)]
    /\ \A u \in Unsolicited : \A n \in 1 .. Len(u.els) : u.els[n].id \notin Ids
ASSUME BoundsAssumption ==
    /\ MaxRequest \in Nat \ {0} /\ MaxSession \in Nat \ {0}
    /\ MaxFrame \in Nat /\ MaxCancel \in Nat /\ MaxReports \in Nat \ {0}
    /\ HasTimeout \in BOOLEAN /\ Serial \in BOOLEAN

VARIABLES
    socket,    \* the session of self._socket, 0 when it is None
    conn,      \* [session -> "none", "open" or "closed"]
    wire,      \* [session -> frames the venue sent and nobody read yet]
    sent,      \* [session -> number of frames the venue sent on it]
    nextId,    \* _request_id
    pending,   \* the id in _pending_request, 0 when it is None
    future,    \* that request's future: [st, frame it failed on]
    readQ,     \* _read_lock
    reqQ,      \* _request_lock
    overflow,  \* _overflow_items, oldest first
    reports,   \* _pending_reports, oldest first
    absorbed,  \* _absorbed_kinds["a response frame with no usable request id"]
    flagged,   \* unparsable frames whose exception is marked _schwab_reported
    pc,        \* [task -> the await it is suspended in]
    op,        \* [task -> the operation it is performing]
    req,       \* [task -> the request id it allocated]
    at,        \* [task -> the session it reads, sends on or closes; for the
               \*  drain of handle_message, the session was_open saw]
    hand,      \* [task -> the frame it is delivering]
    asked,     \* [id -> the session on which the venue got the request]
    verdict,   \* history: [id -> the venue's answer]
    outcome,   \* history: [id -> what the caller of the request saw]
    taken,     \* history: frames of this session given to handle_message
    consumed,  \* history: frames of this session that went to a request or
               \*  were raised because they do not parse
    claimed,   \* history: ids whose own answer was given to their future
    told,      \* history: reports delivered, with the session at the time
    lost,      \* history: rejections dropped by a limit the docs state, or
               \* with a reader that ends while it reports their frame
    cancels    \* history: cancellations so far

connVars  == <<socket, conn, wire, sent>>
slotVars  == <<nextId, pending, future>>
queueVars == <<overflow, reports, absorbed>>
taskVars  == <<op, req, at, hand>>
venueVars == <<asked, verdict>>
frameHist == <<taken, consumed, claimed>>
toldHist  == <<told, lost>>
vars == <<connVars, slotVars, readQ, reqQ, queueVars, flagged, pc, taskVars,
          venueVars, outcome, frameHist, toldHist, cancels>>

NoFuture == [st |-> "none", by |-> NoFrame]
OpenFuture == [st |-> "open", by |-> NoFrame]

\* A task of these states holds the read lock or waits for it.
WantsRead(t) == pc[t] \in {"await", "hlock", "recv"}
\* A task of these states holds the request lock or waits for it.
WantsSlot(t) ==
    \/ pc[t] \in {"reqlock", "sending", "await"}
    \/ pc[t] = "recv" /\ op[t] # "handle"
\* A task of these states has filled the pending slot.
HasSlot(t) == WantsSlot(t) /\ pc[t] # "reqlock"

Init ==
    /\ socket = 0
    /\ conn = [s \in Sessions |-> "none"]
    /\ wire = [s \in Sessions |-> <<>>]
    /\ sent = [s \in Sessions |-> 0]
    /\ nextId = 1 /\ pending = 0 /\ future = NoFuture
    /\ readQ = Unlocked /\ reqQ = Unlocked
    /\ overflow = <<>> /\ reports = <<>> /\ absorbed = 0 /\ flagged = {}
    /\ pc = [t \in Tasks |-> "idle"]
    /\ op = [t \in Tasks |-> "none"]
    /\ req = [t \in Tasks |-> 0]
    /\ at = [t \in Tasks |-> 0]
    /\ hand = [t \in Tasks |-> NoFrame]
    /\ asked = [i \in Ids |-> 0]
    /\ verdict = [i \in Ids |-> "none"]
    /\ outcome = [i \in Ids |-> "none"]
    /\ taken = <<>> /\ consumed = {} /\ claimed = {}
    /\ told = <<>> /\ lost = {} /\ cancels = 0
-----------------------------------------------------------------------------
(* Pieces of a step. *)

\* t suspends in, or moves on to, state s of the same operation.
Goto(t, s) == pc' = [pc EXCEPT ![t] = s] /\ UNCHANGED taskVars

\* The coroutine t called returns or raises.
Return(t) ==
    /\ pc' = [pc EXCEPT ![t] = "idle"]
    /\ op' = [op EXCEPT ![t] = "none"]
    /\ req' = [req EXCEPT ![t] = 0]
    /\ at' = [at EXCEPT ![t] = 0]
    /\ hand' = [hand EXCEPT ![t] = NoFrame]

\* What is discarded with a session.
\* Mutant: the frames set aside survive.
ClearSession_KeepsFrames == reports' = <<>> /\ absorbed' = 0 /\ UNCHANGED overflow
\* Mutant: the queued reports survive.
ClearSession_KeepsReports ==
    overflow' = <<>> /\ absorbed' = 0 /\ UNCHANGED reports

ClearSession == overflow' = <<>> /\ reports' = <<>> /\ absorbed' = 0

\* close() up to its await: drop the socket and all that belongs to its
\* session, then close what was open.
StartClose(t) ==
    /\ socket' = 0 /\ ClearSession
    /\ IF socket = 0
       THEN Return(t)
       ELSE /\ pc' = [pc EXCEPT ![t] = "closing"]
            /\ at' = [at EXCEPT ![t] = socket]
            /\ op' = [op EXCEPT ![t] = IF @ = "logout" THEN @ ELSE "close"]
            /\ UNCHANGED <<req, hand>>

\* _request_response is over: logout() goes on to close(), the others return.
AfterRequest(t) ==
    \/ op[t] = "logout" /\ StartClose(t)
    \/ op[t] # "logout" /\ Return(t) /\ UNCHANGED <<socket, queueVars>>

\* Mutant: a waiter that gives up leaves its acquire() behind.
EndRequest_LeaksReadLock(t, result) ==
    /\ pending' = 0 /\ future' = NoFuture
    /\ reqQ' = Leave(reqQ, t)
    /\ readQ' = IF pc[t] = "recv" THEN Leave(readQ, t) ELSE readQ
    /\ outcome' = [outcome EXCEPT ![req[t]] = result]
    /\ UNCHANGED nextId

\* Mutant: the slot is not emptied.
EndRequest_KeepsSlot(t, result) ==
    /\ reqQ' = Leave(reqQ, t)
    /\ readQ' = IF WantsRead(t) THEN Leave(readQ, t) ELSE readQ
    /\ outcome' = [outcome EXCEPT ![req[t]] = result]
    /\ UNCHANGED slotVars

\* Mutant: a request that times out keeps the request lock.
EndRequest_KeepsLock(t, result) ==
    /\ pending' = 0 /\ future' = NoFuture
    /\ reqQ' = IF result = "timeout" THEN reqQ ELSE Leave(reqQ, t)
    /\ readQ' = IF WantsRead(t) THEN Leave(readQ, t) ELSE readQ
    /\ outcome' = [outcome EXCEPT ![req[t]] = result]
    /\ UNCHANGED nextId

\* The end of the request's "async with": empty the slot, release the lock,
\* and the read lock if t holds it or waits for it.
EndRequest(t, result) ==
    /\ pending' = 0 /\ future' = NoFuture
    /\ reqQ' = Leave(reqQ, t)
    /\ readQ' = IF WantsRead(t) THEN Leave(readQ, t) ELSE readQ
    /\ outcome' = [outcome EXCEPT ![req[t]] = result]
    /\ UNCHANGED nextId

\* _fail_pending_request: the read failed, and so does whoever waits for it.
FailPending(why, f) ==
    future' = IF pending # 0 /\ future.st = "open"
              THEN [st |-> why, by |-> f] ELSE future

\* Mutant: the id is incremented before it is read.
MakeRequest_IdAfter(t, o) ==
    /\ nextId \in Ids
    /\ nextId' = nextId + 1
    /\ req' = [req EXCEPT ![t] = nextId + 1]
    /\ op' = [op EXCEPT ![t] = o]
    /\ pc' = [pc EXCEPT ![t] = "reqlock"]
    /\ reqQ' = Join(reqQ, t)

\* _make_request: the id is allocated when the operation is called.
MakeRequest(t, o) ==
    /\ nextId \in Ids
    /\ nextId' = nextId + 1
    /\ req' = [req EXCEPT ![t] = nextId]
    /\ op' = [op EXCEPT ![t] = o]
    /\ pc' = [pc EXCEPT ![t] = "reqlock"]
    /\ reqQ' = Join(reqQ, t)

\* The bounded deque _pending_reports: a full one drops its oldest entry.
Enqueue(q, r) == IF Len(q) < MaxReports THEN Append(q, r) ELSE Append(Tail(q), r)

About(what, i, f) == [what |-> what, id |-> i, ses |-> f.ses, num |-> f.num]

IsRejection(f, i) == i <= Len(f.els) /\ f.els[i].code = "reject"

\* Mutant: extra responses are logged and not queued.
QueueIfRejected_LogsOnly(q, f, i) == q

\* _log_extra_responses: queue element i of f if it is a rejection.
QueueIfRejected(q, f, i) ==
    IF IsRejection(f, i)
    THEN Enqueue(q, About("rejection", f.els[i].id, f)) ELSE q

\* Error handlers hear of r.  "direct" reports never were in the queue.
Tell(r, direct) ==
    told' = Append(told, [report |-> r, now |-> socket, direct |-> direct])
-----------------------------------------------------------------------------
(* _read_and_route, for a frame that parsed. *)

\* Mutant: a frame of two responses is not an answer.
ForWaiter_Alone(f) ==
    /\ f.kind = "resp" /\ pending # 0
    /\ Len(f.els) = 1 /\ f.els[1].id # 0
    /\ (f.els[1].id = pending \/ f.els[1].id >= nextId)

\* Element 0 answers the pending request, or names one never issued.
ForWaiter(f) ==
    /\ f.kind = "resp" /\ pending # 0
    /\ f.els # <<>> /\ f.els[1].id # 0
    /\ (f.els[1].id = pending \/ f.els[1].id >= nextId)

NoUsableId(f) ==
    f.kind = "resp" /\ pending # 0 /\ (f.els = <<>> \/ f.els[1].id = 0)

\* Mutant: the request id is not compared.
Validated_AnyId(f) == f.els[1].code

\* _validate_response on element 0.
Validated(f) == IF f.els[1].id = pending THEN f.els[1].code ELSE "wrong"

\* _absorb logs and reports the first three of a kind, then powers of ten.
Loud(n) == n <= 3 \/ \E k \in 1 .. n : n = 10 ^ k

\* History: the rejections a full queue dropped between q and r.
Evicted(q, r) ==
    {q[i].id : i \in {j \in 1 .. Len(q) :
        q[j].what = "rejection" /\ \A k \in 1 .. Len(r) : r[k] # q[j]}}

\* Mutant: element 0 is queued although its waiter has it.
Route_FromFirst(f) ==
    LET q1 == QueueIfRejected(reports, f, 1)
        q2 == QueueIfRejected(q1, f, 2)
    IN  /\ claimed' = IF future.st = "open" /\ f.els[1].id = pending
                      THEN claimed \cup {pending} ELSE claimed
        /\ consumed' = consumed \cup {f.num}
        /\ reports' = q2
        /\ lost' = lost \cup Evicted(reports, q1) \cup Evicted(q1, q2)
        /\ UNCHANGED <<absorbed, taken>>

\* ROUTED: element 0 belongs to the future if that is still open, and the
\* rejections not claimed that way are queued.
Route(f) ==
    LET open == future.st = "open"
        q1 == IF open THEN reports ELSE QueueIfRejected(reports, f, 1)
        q2 == QueueIfRejected(q1, f, 2)
    IN  /\ claimed' = IF open /\ f.els[1].id = pending
                      THEN claimed \cup {pending} ELSE claimed
        /\ consumed' = consumed \cup {f.num}
        /\ reports' = q2
        /\ lost' = lost \cup Evicted(reports, q1) \cup Evicted(q1, q2)
        /\ UNCHANGED <<absorbed, taken>>

\* Not ROUTED: a response whose id cannot be read is absorbed on the way.
HandBack(f) ==
    /\ IF NoUsableId(f)
       THEN /\ absorbed' = absorbed + 1
            /\ reports' = IF Loud(absorbed + 1)
                          THEN Enqueue(reports, About("unusable", 0, f))
                          ELSE reports
       ELSE UNCHANGED <<absorbed, reports>>
    /\ lost' = lost \cup Evicted(reports, reports')
    /\ UNCHANGED <<claimed, consumed>>
-----------------------------------------------------------------------------
(* A request: subs, login once connected, logout. *)

\* Whether a caller may start o now.
MayCall(t, o) ==
    /\ pc[t] = "idle" /\ t \in Callers /\ o \in Ops
    /\ Serial /\ o # "subs" =>
          \A u \in Tasks : op[u] \notin {"login", "logout", "close"}

\* level_one_equity_subs() and the other 40 wrappers of _service_op, logout().
CallRequest(t) ==
    /\ \E o \in {"subs", "logout"} : MayCall(t, o) /\ MakeRequest(t, o)
    /\ UNCHANGED <<connVars, pending, future, readQ, queueVars, flagged, at,
                   hand, venueVars, outcome, frameHist, toldHist, cancels>>

\* The request lock is ours: fill the slot and send, or find no socket.
StartSend(t) ==
    /\ pc[t] = "reqlock" /\ Holds(reqQ, t)
    /\ IF socket = 0
       THEN EndRequest(t, "broken") /\ Goto(t, "drain")
       ELSE /\ pending' = req[t] /\ future' = OpenFuture
            /\ pc' = [pc EXCEPT ![t] = "sending"]
            /\ at' = [at EXCEPT ![t] = socket]
            /\ UNCHANGED <<nextId, readQ, reqQ, op, req, hand, outcome>>
    /\ UNCHANGED <<connVars, queueVars, flagged, venueVars, frameHist,
                   toldHist, cancels>>

\* The request reaches the venue; socket.send() may not have returned yet.
Transmit(t) ==
    /\ pc[t] = "sending" /\ conn[at[t]] = "open" /\ asked[req[t]] = 0
    /\ asked' = [asked EXCEPT ![req[t]] = at[t]]
    /\ UNCHANGED <<connVars, slotVars, readQ, reqQ, queueVars, flagged, pc,
                   taskVars, verdict, outcome, frameHist, toldHist, cancels>>

\* The future is resolved: the request returns its answer or raises it.  The
\* CancelledError of another task skips the drain like one of its own.
Answered(t) ==
    /\ EndRequest(t, future.st)
    /\ \/ future.st = "readerCancelled" /\ AfterRequest(t)
       \/ /\ future.st # "readerCancelled"
          /\ pc' = [pc EXCEPT ![t] =
                       IF future.st = "bad" THEN "unparsable" ELSE "drain"]
          /\ hand' = [hand EXCEPT ![t] = future.by]
          /\ UNCHANGED <<op, req, at, socket, queueVars>>

\* send() returns; wait for the answer unless another reader brought it.
SendReturns(t) ==
    /\ pc[t] = "sending" /\ asked[req[t]] # 0
    /\ IF future.st = "open"
       THEN /\ readQ' = Join(readQ, t)
            /\ Goto(t, "await")
            /\ UNCHANGED <<slotVars, reqQ, outcome, socket, queueVars>>
       ELSE Answered(t)
    /\ UNCHANGED <<conn, wire, sent, flagged, venueVars, frameHist, toldHist,
                   cancels>>

\* send() raises on a connection that is gone.
SendFails(t) ==
    /\ pc[t] = "sending" /\ conn[at[t]] = "closed"
    /\ EndRequest(t, "broken") /\ Goto(t, "drain")
    /\ UNCHANGED <<connVars, queueVars, flagged, venueVars, frameHist,
                   toldHist, cancels>>

\* The future was resolved while we waited.  If the read lock came to us in
\* the same instant it is released; if not, the attempt is cancelled.
Resolved(t) ==
    /\ pc[t] = "await" /\ future.st # "open"
    /\ Answered(t)
    /\ UNCHANGED <<conn, wire, sent, flagged, venueVars, frameHist, toldHist,
                   cancels>>

\* The read lock is ours and nobody resolved the future: read for ourselves.
BecomeReader(t) ==
    /\ pc[t] = "await" /\ future.st = "open" /\ Holds(readQ, t)
    /\ IF socket = 0
       THEN EndRequest(t, "broken") /\ Goto(t, "drain")
       ELSE /\ pc' = [pc EXCEPT ![t] = "recv"]
            /\ at' = [at EXCEPT ![t] = socket]
            /\ UNCHANGED <<slotVars, readQ, reqQ, op, req, hand, outcome>>
    /\ UNCHANGED <<connVars, queueVars, flagged, venueVars, frameHist,
                   toldHist, cancels>>

\* The response deadline passes: while waiting, or while reading.
Timeout(t) ==
    /\ HasTimeout /\ future.st = "open"
    /\ pc[t] \in {"await", "recv"} /\ op[t] # "handle"
    /\ EndRequest(t, "timeout") /\ Goto(t, "drain")
    /\ UNCHANGED <<connVars, queueVars, flagged, venueVars, frameHist,
                   toldHist, cancels>>
-----------------------------------------------------------------------------
(* Reading a frame from the socket. *)

\* A frame a request read goes behind the frames already set aside.
SetAside(f) == overflow' = Append(overflow, f)

NextFrame(t) == Head(wire[at[t]])

TakeFromWire(t) ==
    /\ wire[at[t]] # <<>>
    /\ wire' = [wire EXCEPT ![at[t]] = Tail(@)]
    /\ UNCHANGED <<socket, conn, sent>>

\* A request that is the reader gets its answer, or sets the frame aside for
\* handle_message and goes to the back of the queue for the read lock.
RequestReads(t) ==
    /\ pc[t] = "recv" /\ op[t] # "handle"
    /\ TakeFromWire(t)
    /\ LET f == NextFrame(t) IN
       \/ /\ f.kind = "bad"
          /\ EndRequest(t, "bad")
          /\ pc' = [pc EXCEPT ![t] = "unparsable"]
          /\ hand' = [hand EXCEPT ![t] = f]
          /\ consumed' = consumed \cup {f.num}
          /\ UNCHANGED <<queueVars, op, req, at, taken, claimed, lost>>
       \/ /\ ForWaiter(f) /\ Route(f)
          /\ EndRequest(t, Validated(f)) /\ Goto(t, "drain")
          /\ UNCHANGED overflow
       \/ /\ f.kind # "bad" /\ ~ForWaiter(f)
          /\ HandBack(f)
          /\ SetAside(f)
          /\ readQ' = Join(Leave(readQ, t), t)
          /\ Goto(t, "await")
          /\ UNCHANGED <<slotVars, reqQ, outcome, taken>>
    /\ UNCHANGED <<flagged, venueVars, told, cancels>>

\* recv() raises: the connection is gone, and the unread frames with it.
RecvFails(t) ==
    /\ pc[t] = "recv" /\ conn[at[t]] = "closed"
    /\ \/ /\ op[t] # "handle"
          /\ EndRequest(t, "broken") /\ Goto(t, "drain")
       \/ /\ op[t] = "handle"
          /\ FailPending("broken", NoFrame)
          /\ readQ' = Leave(readQ, t)
          /\ Return(t)
          /\ UNCHANGED <<nextId, pending, reqQ, outcome>>
    /\ UNCHANGED <<connVars, queueVars, flagged, venueVars, frameHist,
                   toldHist, cancels>>
-----------------------------------------------------------------------------
(* handle_message. *)

\* The top of the loop: remember whether the socket was open, then drain.
CallHandle(t) ==
    /\ pc[t] = "idle" /\ t \in Readers
    /\ pc' = [pc EXCEPT ![t] = "drain"]
    /\ op' = [op EXCEPT ![t] = "handle"]
    /\ at' = [at EXCEPT ![t] = socket]
    /\ UNCHANGED <<connVars, slotVars, readQ, reqQ, queueVars, flagged, req,
                   hand, venueVars, outcome, frameHist, toldHist, cancels>>

\* _read_and_route gave handle_message frame f: a routed answer sends it back
\* to the top of its loop, anything else is its message.
Handle(t, f) ==
    /\ readQ' = Leave(readQ, t)
    /\ \/ /\ ForWaiter(f) /\ Route(f)
          /\ future' = IF future.st = "open"
                       THEN [st |-> Validated(f), by |-> NoFrame] ELSE future
          /\ pc' = [pc EXCEPT ![t] = "drain"]
          /\ at' = [at EXCEPT ![t] = socket]
          /\ UNCHANGED <<op, req, hand>>
       \/ /\ ~ForWaiter(f) /\ HandBack(f)
          /\ taken' = Append(taken, f.num)
          /\ \/ f.kind = "data" /\ Return(t)
             \/ /\ f.kind = "resp"
                /\ pc' = [pc EXCEPT ![t] = "orphans"]
                /\ hand' = [hand EXCEPT ![t] = f]
                /\ UNCHANGED <<op, req, at>>
          /\ UNCHANGED future
    /\ UNCHANGED <<nextId, pending, reqQ, outcome>>

\* The read lock is ours: no socket raises, a frame set aside comes first,
\* else wait in recv().
TakeNext(t) ==
    /\ pc[t] = "hlock" /\ Holds(readQ, t)
    /\ \/ /\ socket = 0
          /\ FailPending("broken", NoFrame)
          /\ readQ' = Leave(readQ, t)
          /\ Return(t)
          /\ UNCHANGED <<nextId, pending, reqQ, queueVars, outcome, frameHist,
                         lost>>
       \/ /\ socket # 0 /\ overflow # <<>>
          /\ Handle(t, Head(overflow))
          /\ overflow' = Tail(overflow)
       \/ /\ socket # 0 /\ overflow = <<>>
          /\ pc' = [pc EXCEPT ![t] = "recv"]
          /\ at' = [at EXCEPT ![t] = socket]
          /\ UNCHANGED <<slotVars, readQ, reqQ, queueVars, op, req, hand,
                         outcome, frameHist, lost>>
    /\ UNCHANGED <<connVars, flagged, venueVars, told, cancels>>

\* recv() returns to handle_message; a frame that does not parse also fails
\* whoever waits for an answer, is reported, and is raised.
HandleReads(t) ==
    /\ pc[t] = "recv" /\ op[t] = "handle"
    /\ TakeFromWire(t)
    /\ LET f == NextFrame(t) IN
       \/ f.kind # "bad" /\ Handle(t, f) /\ UNCHANGED overflow
       \/ /\ f.kind = "bad"
          /\ FailPending("bad", f)
          /\ readQ' = Leave(readQ, t)
          /\ pc' = [pc EXCEPT ![t] = "unparsable"]
          /\ hand' = [hand EXCEPT ![t] = f]
          /\ consumed' = consumed \cup {f.num}
          /\ UNCHANGED <<nextId, pending, reqQ, queueVars, op, req, at,
                         outcome, taken, claimed, lost>>
    /\ UNCHANGED <<flagged, venueVars, told, cancels>>

\* A response with nobody waiting: report each rejection in it, one await
\* each, and return after the last element.
ReportOrphan(t) ==
    /\ pc[t] \in {"orphans", "orphanTold"}
    /\ LET f == hand[t] IN
       \/ f.els = <<>> /\ Return(t) /\ UNCHANGED told
       \/ /\ f.els # <<>>
          /\ hand' = [hand EXCEPT ![t].els = Tail(@)]
          /\ IF IsRejection(f, 1)
             THEN /\ Tell(About("rejection", f.els[1].id, f), TRUE)
                  /\ pc' = [pc EXCEPT ![t] = "orphanTold"]
             ELSE /\ pc' = [pc EXCEPT ![t] = "orphans"]
                  /\ UNCHANGED told
          /\ UNCHANGED <<op, req, at>>
    /\ UNCHANGED <<connVars, slotVars, readQ, reqQ, queueVars, flagged,
                   venueVars, outcome, frameHist, lost, cancels>>
\* The rejections left in a frame.
Unreported(f) ==
    {f.els[i].id : i \in {j \in 1 .. Len(f.els) : IsRejection(f, j)}}

\* A handler told of one raises a BaseException, which handle_message raises:
\* the rest of the frame goes with it.
OrphanHandlerRaises(t) ==
    /\ pc[t] = "orphanTold"
    /\ lost' = lost \cup Unreported(hand[t])
    /\ Return(t)
    /\ UNCHANGED <<connVars, slotVars, readQ, reqQ, queueVars, flagged,
                   venueVars, outcome, frameHist, told, cancels>>
-----------------------------------------------------------------------------
(* Reports, with no lock held. *)

\* The exception of frame f is not marked _schwab_reported yet.
FirstSight(f) == <<f.ses, f.num>> \notin flagged

\* _report_unparsable: once per exception, then raise it.
ReportUnparsable(t) ==
    /\ pc[t] = "unparsable"
    /\ IF FirstSight(hand[t])
       THEN /\ flagged' = flagged \cup {<<hand[t].ses, hand[t].num>>}
            /\ Tell(About("unparsable", 0, hand[t]), TRUE)
       ELSE UNCHANGED <<flagged, told>>
    /\ \/ op[t] = "handle" /\ Return(t)
       \/ /\ op[t] # "handle"
          /\ Goto(t, IF FirstSight(hand[t]) THEN "unparsableTold" ELSE "drain")
    /\ UNCHANGED <<connVars, slotVars, readQ, reqQ, queueVars, venueVars,
                   outcome, frameHist, lost, cancels>>

\* The handlers a request told of it return, or raise: it drains either way.
UnparsableTold(t) ==
    /\ pc[t] = "unparsableTold"
    /\ Goto(t, "drain")
    /\ UNCHANGED <<connVars, slotVars, readQ, reqQ, queueVars, flagged,
                   venueVars, outcome, frameHist, toldHist, cancels>>

\* _drain_pending_reports: pop one, await the handlers.
DrainOne(t) ==
    /\ pc[t] \in {"drain", "drainTold"} /\ reports # <<>>
    /\ Tell(Head(reports), FALSE)
    /\ reports' = Tail(reports)
    /\ Goto(t, "drainTold")
    /\ UNCHANGED <<connVars, slotVars, readQ, reqQ, overflow, absorbed, flagged,
                   venueVars, outcome, frameHist, lost, cancels>>

\* Nothing left to report: a request is over; handle_message goes on to read,
\* or returns if a handler closed the stream meanwhile.
Drained(t) ==
    /\ pc[t] \in {"drain", "drainTold"} /\ reports = <<>>
    /\ \/ op[t] # "handle" /\ AfterRequest(t) /\ UNCHANGED readQ
       \/ /\ op[t] = "handle" /\ at[t] # 0 /\ socket = 0
          /\ Return(t) /\ UNCHANGED <<readQ, socket, queueVars>>
       \/ /\ op[t] = "handle" /\ (at[t] = 0 \/ socket # 0)
          /\ readQ' = Join(readQ, t)
          /\ Goto(t, "hlock")
          /\ UNCHANGED <<socket, queueVars>>
    /\ UNCHANGED <<conn, wire, sent, slotVars, reqQ, flagged, venueVars,
                   outcome, frameHist, toldHist, cancels>>

\* A handler raises a BaseException: handle_message raises it, a request
\* logs it and keeps its own result; the other reports stay queued.
HandlerRaises(t) ==
    /\ pc[t] = "drainTold"
    /\ \/ op[t] # "handle" /\ AfterRequest(t)
       \/ op[t] = "handle" /\ Return(t) /\ UNCHANGED <<socket, queueVars>>
    /\ UNCHANGED <<conn, wire, sent, slotVars, readQ, reqQ, flagged, venueVars,
                   outcome, frameHist, toldHist, cancels>>
-----------------------------------------------------------------------------
(* login(), close(). *)

\* login() up to its first await on a socket: forget the previous connection
\* and close it.  The HTTP call before changes nothing here.
CallLogin(t) ==
    /\ MayCall(t, "login")
    /\ socket' = 0
    /\ op' = [op EXCEPT ![t] = "login"]
    /\ at' = [at EXCEPT ![t] = socket]
    /\ pc' = [pc EXCEPT ![t] = IF socket = 0 THEN "connecting" ELSE "replacing"]
    /\ UNCHANGED <<conn, wire, sent, slotVars, readQ, reqQ, queueVars, flagged,
                   req, hand, venueVars, outcome, frameHist, toldHist, cancels>>

\* close() of the previous connection returns or raises; login goes on.
PreviousClosed(t) ==
    /\ pc[t] = "replacing"
    /\ conn' = [conn EXCEPT ![at[t]] = "closed"]
    /\ Goto(t, "connecting")
    /\ UNCHANGED <<socket, wire, sent, slotVars, readQ, reqQ, queueVars, flagged,
                   venueVars, outcome, frameHist, toldHist, cancels>>

\* The event loop has a step of u to run now.  Opening a connection takes
\* several turns of the loop, so whatever could run when it began has run.
Runnable(u) ==
    \/ pc[u] \in {"drain", "orphans", "unparsable"}
    \/ pc[u] = "await" /\ (future.st # "open" \/ Holds(readQ, u))
    \/ pc[u] = "hlock" /\ Holds(readQ, u)
    \/ pc[u] = "reqlock" /\ Holds(reqQ, u)
    \/ pc[u] = "recv" /\ (conn[at[u]] = "closed" \/ wire[at[u]] # <<>>)
    \/ pc[u] = "sending" /\ conn[at[u]] = "closed"

\* The new socket is in place: only now are the queues of the old session
\* cleared, and the LOGIN request is made.
Connected(t) ==
    /\ pc[t] = "connecting" /\ \A u \in Tasks : ~Runnable(u)
    /\ \E s \in Sessions :
          /\ conn[s] = "none" /\ \A r \in Sessions : conn[r] = "none" => s <= r
          /\ conn' = [conn EXCEPT ![s] = "open"]
          /\ socket' = s
    /\ ClearSession
    /\ MakeRequest(t, "login")
    /\ taken' = <<>> /\ consumed' = {}
    /\ UNCHANGED <<wire, sent, pending, future, readQ, flagged, at, hand,
                   venueVars, outcome, claimed, toldHist, cancels>>

\* connect() raises, and with it login(); there is no socket any more.
ConnectFails(t) ==
    /\ pc[t] = "connecting"
    /\ Return(t)
    /\ UNCHANGED <<connVars, slotVars, readQ, reqQ, queueVars, flagged,
                   venueVars, outcome, frameHist, toldHist, cancels>>

\* close(), also through "async with".
CallClose(t) ==
    /\ MayCall(t, "close")
    /\ StartClose(t)
    /\ UNCHANGED <<conn, wire, sent, slotVars, readQ, reqQ, flagged, venueVars,
                   outcome, frameHist, toldHist, cancels>>

\* socket.close() returns or raises: close() and logout() are over.
Closed(t) ==
    /\ pc[t] = "closing"
    /\ conn' = [conn EXCEPT ![at[t]] = "closed"]
    /\ Return(t)
    /\ UNCHANGED <<socket, wire, sent, slotVars, readQ, reqQ, queueVars, flagged,
                   venueVars, outcome, frameHist, toldHist, cancels>>
-----------------------------------------------------------------------------
(* Cancellation of a task, at the await it is suspended in. *)

\* A request gives up the slot and both locks and skips the drain; logout()
\* still closes.
CancelRequest(t) ==
    /\ WantsSlot(t)
    /\ \/ /\ pc[t] = "reqlock"
          /\ reqQ' = Leave(reqQ, t)
          /\ outcome' = [outcome EXCEPT ![req[t]] = "cancelled"]
          /\ UNCHANGED <<slotVars, readQ>>
       \/ pc[t] # "reqlock" /\ EndRequest(t, "cancelled")
    /\ AfterRequest(t)
    /\ UNCHANGED <<conn, lost>>

\* A request whose result is in is cancelled while it reports what it read:
\* its caller sees the cancellation, and nothing more is drained.
CancelDrain(t) ==
    /\ pc[t] \in {"drainTold", "unparsableTold"} /\ op[t] # "handle"
    /\ outcome' = [outcome EXCEPT ![req[t]] = "cancelled"]
    /\ AfterRequest(t)
    /\ UNCHANGED <<conn, slotVars, readQ, reqQ, lost>>

\* handle_message: reading, the cancellation is a failed read like any other;
\* reporting an orphan, the rest of the frame goes with it.
CancelHandle(t) ==
    /\ op[t] = "handle"
    /\ \/ pc[t] = "drainTold" /\ UNCHANGED <<future, readQ, lost>>
       \/ /\ pc[t] = "orphanTold"
          /\ lost' = lost \cup Unreported(hand[t])
          /\ UNCHANGED <<future, readQ>>
       \/ /\ pc[t] = "hlock"
          /\ readQ' = Leave(readQ, t)
          /\ UNCHANGED <<future, lost>>
       \/ /\ pc[t] = "recv"
          /\ FailPending("readerCancelled", NoFrame)
          /\ readQ' = Leave(readQ, t)
          /\ UNCHANGED lost
    /\ Return(t)
    /\ UNCHANGED <<conn, socket, queueVars, nextId, pending, reqQ, outcome>>

\* Opening or closing a connection: the close frame is already on its way.
CancelConnection(t) ==
    /\ \/ pc[t] = "connecting" /\ UNCHANGED conn
       \/ /\ pc[t] \in {"replacing", "closing"}
          /\ conn' = [conn EXCEPT ![at[t]] = "closed"]
    /\ Return(t)
    /\ UNCHANGED <<socket, queueVars, slotVars, readQ, reqQ, outcome, lost>>

Cancel(t) ==
    /\ cancels < MaxCancel /\ cancels' = cancels + 1
    /\ \/ CancelRequest(t)
       \/ CancelDrain(t)
       \/ CancelHandle(t)
       \/ CancelConnection(t)
    /\ UNCHANGED <<wire, sent, flagged, venueVars, frameHist, told>>
-----------------------------------------------------------------------------
(* The venue and the network, external to the code. *)

Send(s, kind, els) ==
    /\ conn[s] = "open" /\ sent[s] < MaxFrame
    /\ sent' = [sent EXCEPT ![s] = @ + 1]
    /\ wire' = [wire EXCEPT ![s] = Append(@, [kind |-> kind, els |-> els,
                                             ses |-> s, num |-> sent[s] + 1])]
    /\ UNCHANGED <<socket, conn, slotVars, readQ, reqQ, queueVars, flagged, pc,
                   taskVars, asked, outcome, frameHist, toldHist, cancels>>

Unanswered(s, i) == asked[i] = s /\ verdict[i] = "none"

\* One request is answered, in time, late, or never.
VenueAnswers(s) ==
    \E i \in Ids, c \in Verdicts :
        /\ Unanswered(s, i)
        /\ Send(s, "resp", <<[id |-> i, code |-> c]>>)
        /\ verdict' = [verdict EXCEPT ![i] = c]

\* Two answers in one frame: the newest request can be waiting for its own.
VenueBatches(s) ==
    \E i, j \in Ids, c, d \in Verdicts :
        /\ BatchLimit = 2 /\ i # j /\ (LiveFirst => i > j)
        /\ Unanswered(s, i) /\ Unanswered(s, j)
        /\ Send(s, "resp", <<[id |-> i, code |-> c], [id |-> j, code |-> d]>>)
        /\ verdict' = [verdict EXCEPT ![i] = c, ![j] = d]

\* Market data, and what the code calls unusable.
VenueSends(s) ==
    \E u \in Unsolicited : Send(s, u.kind, u.els) /\ UNCHANGED verdict

Disconnect(s) ==
    /\ conn[s] = "open"
    /\ conn' = [conn EXCEPT ![s] = "closed"]
    /\ UNCHANGED <<socket, wire, sent, slotVars, readQ, reqQ, queueVars, flagged,
                   pc, taskVars, venueVars, outcome, frameHist, toldHist,
                   cancels>>
-----------------------------------------------------------------------------
RequestStep(t) ==
    \/ StartSend(t) \/ Transmit(t) \/ SendReturns(t) \/ SendFails(t)
    \/ Resolved(t) \/ BecomeReader(t) \/ Timeout(t) \/ RequestReads(t)

HandleStep(t) ==
    \/ TakeNext(t) \/ HandleReads(t)
    \/ ReportOrphan(t) \/ OrphanHandlerRaises(t)

SharedStep(t) ==
    \/ RecvFails(t) \/ ReportUnparsable(t) \/ UnparsableTold(t)
    \/ DrainOne(t) \/ Drained(t) \/ HandlerRaises(t)

ConnectionStep(t) ==
    PreviousClosed(t) \/ Connected(t) \/ ConnectFails(t) \/ Closed(t)

CallStep(t) ==
    CallRequest(t) \/ CallHandle(t) \/ CallLogin(t) \/ CallClose(t)

VenueStep(s) ==
    VenueAnswers(s) \/ VenueBatches(s) \/ VenueSends(s) \/ Disconnect(s)

Next ==
    \/ \E t \in Tasks : CallStep(t) \/ RequestStep(t) \/ HandleStep(t)
                         \/ SharedStep(t) \/ ConnectionStep(t) \/ Cancel(t)
    \/ \E s \in Sessions : VenueStep(s)

Spec == Init /\ [][Next]_vars

\* What asyncio promises: a task that can run is run, a timer fires, and a
\* socket operation ends.  Nobody has to call anything, and the venue has to
\* say nothing.
TaskStep(t) ==
    RequestStep(t) \/ HandleStep(t) \/ SharedStep(t) \/ ConnectionStep(t)

FairSpec == Spec /\ \A t \in Tasks : WF_vars(TaskStep(t))
-----------------------------------------------------------------------------
(* Types. *)

ConnTypes ==
    /\ socket \in 0 .. MaxSession
    /\ conn \in [Sessions -> {"none", "open", "closed"}]
    /\ wire \in [Sessions -> Seq(Frame)]
    /\ sent \in [Sessions -> Nat]

SlotTypes ==
    /\ nextId \in Nat \ {0}
    /\ pending \in 0 .. MaxRequest
    /\ future \in [st : FutureStates, by : Frame \cup {NoFrame}]

LockTypes == readQ \in Seq(Tasks) /\ reqQ \in Seq(Tasks)

QueueTypes ==
    /\ overflow \in Seq(Frame)
    /\ reports \in Seq(Report)
    /\ absorbed \in Nat

TaskTypes ==
    /\ pc \in [Tasks -> States]
    /\ op \in [Tasks -> {"none", "handle", "subs", "login", "logout", "close"}]
    /\ req \in [Tasks -> 0 .. MaxRequest]
    /\ at \in [Tasks -> 0 .. MaxSession]
    /\ hand \in [Tasks -> Frame \cup {NoFrame}]

VenueTypes ==
    /\ asked \in [Ids -> 0 .. MaxSession]
    /\ verdict \in [Ids -> Codes \cup {"none"}]

HistoryTypes ==
    /\ flagged \in SUBSET ((0 .. MaxSession) \X Nat)
    /\ outcome \in [Ids -> Results]
    /\ taken \in Seq(Nat) /\ consumed \in SUBSET Nat
    /\ claimed \in SUBSET Ids /\ lost \in SUBSET Nat
    /\ told \in Seq([report : Report, now : 0 .. MaxSession, direct : BOOLEAN])
    /\ cancels \in Nat

\* Every variable keeps its type.
TypeOK ==
    /\ ConnTypes /\ SlotTypes /\ LockTypes /\ QueueTypes
    /\ TaskTypes /\ VenueTypes /\ HistoryTypes
-----------------------------------------------------------------------------
(* Safety. *)

\* The read lock is never leaked and never shared: exactly the tasks that say
\* so hold it or wait for it, once each, and whoever is inside recv() is its
\* holder, so websockets never sees two concurrent recv() calls
\* (_read_lock, streaming.py __init__ and _await_response).
ReadLockDiscipline ==
    /\ NoneTwice(readQ)
    /\ Queued(readQ) = {t \in Tasks : WantsRead(t)}
    /\ \A t \in Tasks : pc[t] = "recv" => Holds(readQ, t)

\* One request is outstanding: the pending slot is filled exactly while the
\* holder of the request lock is between sending and its result, it names
\* that request, and no one else touches it (_request_response).
SlotDiscipline ==
    /\ NoneTwice(reqQ)
    /\ Queued(reqQ) = {t \in Tasks : WantsSlot(t)}
    /\ \A t \in Tasks : HasSlot(t) =>
          Holds(reqQ, t) /\ pending = req[t] /\ future.st # "none"
    /\ (\A t \in Tasks : ~HasSlot(t)) => pending = 0 /\ future = NoFuture

Numbers(q) == [i \in 1 .. Len(q) |-> q[i].num]

\* Arrival order: what handle_message was given, then what is set aside for
\* it, is in the order the venue sent it, and every frame read on the live
\* connection is in exactly one place: handled, set aside, or consumed
\* (_overflow_items: appendleft in _await_response, pop in _receive).
ArrivalOrder ==
    LET seen == taken \o Numbers(overflow) IN
    socket # 0 =>
        /\ \A i, j \in 1 .. Len(seen) : i < j => seen[i] < seen[j]
        /\ \A i \in 1 .. Len(seen) : seen[i] \notin consumed
        /\ Queued(seen) \cup consumed = 1 .. sent[socket] - Len(wire[socket])

\* A request succeeds or is rejected only on the venue's own answer to it: a
\* late answer to an abandoned request never reaches a later one
\* (_read_and_route, "One timeout would wedge every subsequent request").  A
\* response to an id never issued fails it as "wrong".
OwnAnswer ==
    \A i \in Ids : outcome[i] \in Codes =>
        \/ outcome[i] = verdict[i]
        \/ outcome[i] = "wrong" /\ \E u \in Unsolicited : u.els # <<>>

OnWire(i) == \E k \in 1 .. Len(wire[socket]), n \in 1 .. 2 :
    n <= Len(wire[socket][k].els) /\ wire[socket][k].els[n].id = i

InFrame(f, i) == \E n \in 1 .. Len(f.els) : f.els[n].id = i

\* What the code still has to say about a rejection of request i.
Held(i) ==
    \/ \E k \in 1 .. Len(reports) : reports[k].id = i /\ reports[k].what = "rejection"
    \/ \E k \in 1 .. Len(overflow) : InFrame(overflow[k], i)
    \/ \E t \in Tasks : pc[t] \in {"orphans", "orphanTold"} /\ InFrame(hand[t], i)

Told(i) == {k \in 1 .. Len(told) :
               told[k].report.what = "rejection" /\ told[k].report.id = i}

\* Losing the raise is right; losing the news is not: once read on the live
\* connection, a rejection is given to its own waiter, held, told to the error
\* handlers, or dropped by a limit the documentation names (a full queue, a
\* cancelled handle_message) or with a reader that ends while it reports the
\* frame, because an error handler raised what no reader catches.
RejectionHeard ==
    \A i \in Ids :
        socket # 0 /\ asked[i] = socket /\ verdict[i] = "reject" /\ ~OnWire(i)
            => i \in claimed \/ Held(i) \/ Told(i) # {} \/ i \in lost

\* A rejection is told at most once, and not at all when a waiter claimed it
\* (tests: "element zero stays with its waiter"); a frame that does not parse
\* is told once although both readers see its exception.
ToldOnce ==
    /\ \A i \in Ids : Cardinality(Told(i)) <= 1 /\ (i \in claimed => Told(i) = {})
    /\ \A j, k \in 1 .. Len(told) :
          told[j].report = told[k].report /\ told[j].report.what = "unparsable"
              => j = k

\* A queued report never outlives its session: close() and login() clear the
\* queue, login() only once the old socket can add nothing more.
QueuedReportsFresh ==
    \A k \in 1 .. Len(told) :
        ~told[k].direct => told[k].now \in {0, told[k].report.ses}

\* An answer that was read reached its waiter: while a request waits, its
\* answer is not among the frames set aside or treated as orphans.
NotOvertaken ==
    future.st = "open" =>
        /\ \A k \in 1 .. Len(overflow) : ~InFrame(overflow[k], pending)
        /\ \A t \in Tasks : pc[t] = "orphans" => ~InFrame(hand[t], pending)
-----------------------------------------------------------------------------
(* Liveness. *)

\* With a response timeout every request, login and logout ends, whatever the
\* venue does: a request never answered does not block the ones behind it
\* (DEFAULT_RESPONSE_TIMEOUT).
CallsEnd == \A t \in Callers : op[t] # "none" ~> op[t] = "none"

\* And without a timeout, a request ends once the venue has answered it,
\* although handle_message may sit in recv() or never be called again: whoever
\* reads the answer hands it over (_await_response, "That is what stops a
\* subscription from blocking behind a handle_message ...").
AnsweredCallsEnd ==
    \A t \in Callers :
        req[t] # 0 /\ verdict[req[t]] # "none" ~> op[t] = "none"

-----------------------------------------------------------------------------
(* What the code or its documentation says, and the code does not do. *)

\* "Nothing that arrived on a connection you have since replaced reaches you
\* afterwards" (docs/streaming.rst, the cleared queue).
NothingFromReplaced ==
    \A k \in 1 .. Len(told) : told[k].now \in {0, told[k].report.ses}

\* "Element 0 went to the waiter, so it is accounted for" (_read_and_route).
ClaimedIsHeard ==
    \A i \in claimed : verdict[i] = "reject" =>
        outcome[i] \in {"none", "reject"} \/ Told(i) # {}

\* "Schwab rejected a request which had already been abandoned", because "a
\* second response in the same frame cannot be an answer to anything this
\* client is currently waiting on" (_log_extra_responses).
ReportedIsAbandoned == future.st = "open" => Told(pending) = {}

\* "waiting on a response, which will otherwise wait for a reply that can no
\* longer arrive" (handle_message): a read failure fails the waiter because
\* its connection cannot deliver any more.
FailedReadMeansNoReply ==
    future.st = "readerCancelled" => socket = 0 \/ conn[socket] # "open"
=============================================================================
