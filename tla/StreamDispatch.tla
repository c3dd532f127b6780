--------------------------- MODULE StreamDispatch ---------------------------
(***************************************************************************)
(* What StreamClient does with a frame once it has it: the stream handlers *)
(* and the tasks of coroutine handlers, what it cannot use (_absorb), the  *)
(* bounded queue of reports and the error handlers they go to              *)
(* (schwaby/streaming.py).  How a frame reaches its reader, and the        *)
(* requests behind it, are StreamClient's subject.                         *)
(*                                                                         *)
(* One event loop runs everything: an actor that does not await keeps it.  *)
(* Only an error handler that is a coroutine, the wait for a frame and the *)
(* end of a call let another actor in, which may close or log in again:    *)
(* an error handler that does so is one that awaits meanwhile.             *)
(***************************************************************************)
EXTENDS Naturals, Sequences, FiniteSets, SequencesExt

CONSTANTS
    Services,       \* services of _KNOWN_SERVICES
    Handlers,       \* stream handlers; each has one service
    ServiceOf,      \* [Handlers -> Services]
    ErrorHandlers,
    Requests,       \* the requests that may read, and drain at their end
    Frames,         \* the frames the venue may send
    MaxFrame,       \* bound: frames handle_message reads
    MaxLate,        \* bound: elements found behind an answer
    MaxEpoch,       \* bound: how often the client closes or logs in
    MaxReports,     \* maxlen of _pending_reports (64)
    MaxShapes,      \* _MAX_REPORTED_SHAPES (64)
    Cancels,        \* whether a request may be cancelled
    Exits           \* whether a handler may raise a BaseException

\* A frame: whether it is an object, the channels of it this version does not
\* read, and what it has under those it does.  An element of a channel is no
\* object, a heartbeat, or a message: its service and whether it relabels.  An
\* element of a response is no object, a rejection, or an acceptance.
Channels == {"response", "data", "notify"}
Elements ==
    [is : {"junk", "heartbeat", "message", "rejected", "accepted"},
     service : STRING, labels : BOOLEAN]
Parts == [is : {"absent", "notList", "list"}, elements : Seq(Elements)]

\* Who runs: the task that calls handle_message, a request at its end, and
\* the task of a coroutine handler, named by the call that made it.
Reader == [name |-> "handle_message"]
Nobody == [name |-> "nobody"]

ASSUME DispatchAssumption ==
    /\ Reader \notin Requests /\ Nobody \notin Requests
    /\ ServiceOf \in [Handlers -> Services] /\ Services \subseteq STRING
    /\ {"none", "unhashable", "Invalid Service"} \cap Services = {}
    /\ Frames \subseteq [object : BOOLEAN, unread : SUBSET STRING,
                         response : Parts, data : Parts, notify : Parts]
    /\ MaxFrame \in Nat /\ MaxLate \in Nat /\ MaxEpoch \in Nat
    /\ MaxReports \in Nat \ {0} /\ MaxShapes \in Nat \ {0}
    /\ Cancels \in BOOLEAN /\ Exits \in BOOLEAN

Element(is, service, labels) ==
    [is |-> is, service |-> service, labels |-> labels]
Absent == [is |-> "absent", elements |-> <<>>]
NotList == [is |-> "notList", elements |-> <<>>]
List(elements) == [is |-> "list", elements |-> elements]

\* The kinds failures are counted by, and the names that are told once.
Kind(what, of) == [what |-> what, of |-> of]
Kinds ==
    [what : {"notObject", "newChannel", "newService", "badService",
             "invalidService"}, of : {"frame"}]
    \cup [what : {"notList", "junk"}, of : Channels]
    \cup [what : {"relabel"}, of : Services]

NotTelling == [report |-> <<>>, next |-> 0]

VARIABLES
    open,       \* _socket is not None
    epoch,      \* number of times the session was cleared
    kinds,      \* _absorbed_kinds
    shapes,     \* _reported_shapes
    queue,      \* _pending_reports
    handlers,   \* _handlers: [Services -> registered, in order]
    errors,     \* _error_handlers
    loop,       \* who holds the event loop
    reader,     \* the call of handle_message
    request,    \* [Requests -> "idle" or "draining"]
    telling,    \* [actor -> the report it tells, and to whom next]
    tasks,      \* coroutine handlers that have not ended
    held,       \* _handler_tasks
    made,       \* number of reports made
    late,       \* number of elements found behind an answer
    calls,      \* history: calls of stream handlers
    owed,       \* history: the calls dispatch owes
    told,       \* history: [report, to] error handlers called
    again,      \* history: whether one was called twice with one report
    failed,     \* history: reports of failing handlers
    taken,      \* history: reports popped from the queue
    ended,      \* history: reports told or cut short, and who had to hear
    rejections  \* history: rejections queued

session == <<open, epoch>>
absorbing == <<kinds, shapes, queue, made>>
registered == <<handlers, errors>>
work == <<tasks, held>>
heard == <<calls, owed, failed>>
history == <<told, again, taken, ended>>
extra == <<late, rejections>>
vars == <<session, absorbing, registered, loop, reader, request, telling,
          work, heard, history, extra>>

Idle == [at |-> "idle", wasOpen |-> FALSE, frame |-> 0, work |-> <<>>,
         item |-> 0, next |-> 0, spoiled |-> FALSE, result |-> "none",
         closedAt |-> "never"]

Init ==
    /\ open = FALSE /\ epoch = 0
    /\ kinds = [k \in Kinds |-> 0] /\ shapes = {} /\ queue = <<>> /\ made = 0
    /\ handlers = [s \in Services |-> <<>>] /\ errors = <<>>
    /\ loop = Nobody /\ reader = Idle /\ request = [q \in Requests |-> "idle"]
    /\ telling = [a \in {Reader} \cup Requests |-> NotTelling]
    /\ tasks = {} /\ held = {}
    /\ calls = <<>> /\ owed = {} /\ failed = {}
    /\ told = {} /\ again = FALSE /\ taken = {} /\ ended = {}
    /\ late = 0 /\ rejections = {}

----------------------------------------------------------------------------
(* Absorbing: count, and report the first three, powers of ten, and names  *)
(* not seen before.                                                        *)

IsPowerOfTen(n) ==
    LET rest[k \in Nat] ==
            IF k >= 10 /\ k % 10 = 0 THEN rest[k \div 10] ELSE k
    IN  rest[n] = 1

\* The queue keeps the newest.
Push(q, report) == Append(IF Len(q) = MaxReports THEN Tail(q) ELSE q, report)

Report(about, names) ==
    [id |-> made + 1, about |-> about, names |-> names, epoch |-> epoch]

ReportNewShape(names, new) ==
    LET unseen == names \ shapes
        room == MaxShapes - Cardinality(shapes)
    IN  /\ new \subseteq unseen
        /\ Cardinality(new) = IF Cardinality(unseen) <= room
                              THEN Cardinality(unseen) ELSE room

Loud(kind, forced) ==
    \/ forced
    \/ kinds[kind] + 1 <= 3
    \/ IsPowerOfTen(kinds[kind] + 1)

\* names: what of the frame the report names.
Absorb_SharedCount(kind, names) ==
    \E new \in SUBSET names :
        /\ ReportNewShape(names, new)
        /\ shapes' = shapes \cup new
        /\ kinds' = [kinds EXCEPT ![kind] = @ + 1]
        /\ IF new # {} \/ \A k \in Kinds : kinds[k] = 0
           THEN /\ queue' = Push(queue, Report(kind, names))
                /\ made' = made + 1
           ELSE UNCHANGED <<queue, made>>
Absorb(kind, names) ==
    \E new \in SUBSET names :
        /\ ReportNewShape(names, new)
        /\ shapes' = shapes \cup new
        /\ kinds' = [kinds EXCEPT ![kind] = @ + 1]
        /\ IF Loud(kind, new # {})
           THEN /\ queue' = Push(queue, Report(kind, names))
                /\ made' = made + 1
           ELSE UNCHANGED <<queue, made>>

----------------------------------------------------------------------------
(* Registering.                                                            *)

Telling(a) == telling[a] # NotTelling

\* The application's own code runs: between the steps of the client, or in
\* the stream handler or the error handler that was just called.
UserCode ==
    \/ loop = Nobody
    \/ loop = Reader /\ reader.at = "frame" /\ reader.next > 1 /\ ~reader.spoiled
    \/ loop \in DOMAIN telling /\ Telling(loop) /\ telling[loop].next > 1

AddHandler(h) ==
    /\ \A i \in DOMAIN handlers[ServiceOf[h]] : handlers[ServiceOf[h]][i] # h
    /\ UserCode
    /\ handlers' = [handlers EXCEPT ![ServiceOf[h]] = Append(@, h)]
    /\ UNCHANGED <<session, absorbing, errors, loop, reader, request,
                   telling, work, heard, history, extra>>

\* A callable that does not take three arguments is refused: no change.
AddErrorHandler(e) ==
    /\ \A i \in DOMAIN errors : errors[i] # e
    /\ UserCode
    /\ errors' = Append(errors, e)
    /\ UNCHANGED <<session, absorbing, handlers, loop, reader, request,
                   telling, work, heard, history, extra>>

----------------------------------------------------------------------------
(* Telling a report to the error handlers, one after the other.            *)

MayRun(a) == loop \in {Nobody, a}
Begin(a, report) == telling' = [telling EXCEPT ![a] = [report |-> report, next |-> 1]]

Called(a) ==
    LET call == <<telling[a].report, errors[telling[a].next]>> IN
    /\ told' = told \cup {call}
    /\ again' = (again \/ call \in told)

\* An Exception of an error handler is logged and swallowed; a coroutine is
\* awaited, and others run meanwhile.
TellOne_StopsOnError(a, how) ==
    /\ Called(a)
    /\ IF how = "raises"
       THEN /\ telling' = [telling EXCEPT ![a] = NotTelling]
            /\ ended' = ended \cup
                 {[report |-> telling[a].report, owed |-> ToSet(errors)]}
       ELSE telling' = [telling EXCEPT ![a].next = @ + 1] /\ UNCHANGED ended
    /\ loop' = IF how = "awaits" THEN Nobody ELSE a
TellOne(a, how) ==
    /\ Called(a)
    /\ telling' = [telling EXCEPT ![a].next = @ + 1]
    /\ loop' = IF how = "awaits" THEN Nobody ELSE a
    /\ UNCHANGED ended

Tell(a) ==
    /\ MayRun(a) /\ Telling(a) /\ telling[a].next <= Len(errors)
    /\ \E how \in {"returns", "raises", "awaits"} : TellOne(a, how)
    /\ UNCHANGED <<session, absorbing, registered, reader, request, work,
                   heard, taken, extra>>

\* Told: the actor goes on.  A task has nothing left to do.
Told(a) ==
    /\ MayRun(a) /\ Telling(a) /\ telling[a].next > Len(errors)
    /\ ended' = ended \cup
         {[report |-> telling[a].report, owed |-> ToSet(errors)]}
    /\ IF a \in {Reader} \cup Requests
       THEN /\ telling' = [telling EXCEPT ![a] = NotTelling]
            /\ loop' = a
            /\ UNCHANGED work
       ELSE /\ telling' = [b \in DOMAIN telling \ {a} |-> telling[b]]
            /\ loop' = Nobody
            /\ tasks' = tasks \ {a} /\ held' = held \ {a}
    /\ UNCHANGED <<session, absorbing, registered, reader, request, heard,
                   told, again, taken, extra>>

\* A BaseException of an error handler leaves the call it was told in; a
\* request logs it and keeps its own outcome.
TellExits(a) ==
    /\ Exits
    /\ MayRun(a) /\ Telling(a) /\ telling[a].next <= Len(errors)
    /\ Called(a)
    /\ loop' = Nobody
    /\ IF a \in {Reader} \cup Requests
       THEN telling' = [telling EXCEPT ![a] = NotTelling] /\ UNCHANGED work
       ELSE /\ telling' = [b \in DOMAIN telling \ {a} |-> telling[b]]
            /\ tasks' = tasks \ {a} /\ held' = held \ {a}
    /\ reader' = IF a = Reader
                 THEN [Idle EXCEPT !.frame = reader.frame, !.result = "exits"]
                 ELSE reader
    /\ request' = [q \in Requests |-> IF q = a THEN "idle" ELSE request[q]]
    /\ owed' = IF a = Reader THEN ToSet(calls) ELSE owed
    /\ ended' = ended \cup {[report |-> telling[a].report, owed |-> {}]}
    /\ UNCHANGED <<session, absorbing, registered, calls, failed, taken,
                   extra>>

\* _drain_pending_reports: popped before it is awaited.
Draining(a) == IF a = Reader THEN reader.at = "draining"
               ELSE request[a] = "draining"

DrainOne_KeepsHead(a) ==
    /\ MayRun(a) /\ Draining(a) /\ ~Telling(a) /\ queue # <<>>
    /\ Begin(a, Head(queue))
    /\ queue' = IF errors # <<>> /\ Head(queue) \notin taken
                THEN queue ELSE Tail(queue)
    /\ taken' = taken \cup {Head(queue)}
    /\ loop' = a
    /\ UNCHANGED <<session, kinds, shapes, made, registered, reader, request,
                   work, heard, told, again, ended, extra>>
DrainOne(a) ==
    /\ MayRun(a) /\ Draining(a) /\ ~Telling(a) /\ queue # <<>>
    /\ Begin(a, Head(queue))
    /\ queue' = Tail(queue)
    /\ taken' = taken \cup {Head(queue)}
    /\ loop' = a
    /\ UNCHANGED <<session, kinds, shapes, made, registered, reader, request,
                   work, heard, told, again, ended, extra>>

----------------------------------------------------------------------------
(* handle_message.                                                         *)

CallHandle ==
    /\ loop = Nobody /\ reader.at = "idle"
    /\ reader' = [reader EXCEPT !.at = "draining", !.wasOpen = open,
                                !.result = "none", !.closedAt = "never"]
    /\ loop' = Reader
    /\ UNCHANGED <<session, absorbing, registered, request, telling, work,
                   heard, history, extra>>

Return(result) ==
    /\ reader' = [Idle EXCEPT !.frame = reader.frame, !.result = result,
                              !.wasOpen = reader.wasOpen,
                              !.closedAt = reader.closedAt]
    /\ loop' = Nobody

\* An error handler may have closed the client: return quietly then.
Drained ==
    /\ MayRun(Reader) /\ reader.at = "draining" /\ ~Telling(Reader)
    /\ queue = <<>>
    /\ IF reader.wasOpen /\ ~open
       THEN Return("closed")
       ELSE reader' = [reader EXCEPT !.at = "reading"] /\ loop' = Nobody
    /\ UNCHANGED <<session, absorbing, registered, request, telling, work,
                   heard, history, extra>>

\* It waits for the read lock, and there must still be a socket then.
NotOpen ==
    /\ MayRun(Reader) /\ reader.at = "reading" /\ ~open
    /\ Return("notOpen")
    /\ UNCHANGED <<session, absorbing, registered, request, telling, work,
                   heard, history, extra>>

\* The work a frame is, in order: a frame with a response is read no further.
OfChannel(frame, channel) ==
    CASE frame[channel].is = "absent" -> <<>>
      [] frame[channel].is = "notList" ->
            << [do |-> "absorb", kind |-> Kind("notList", channel),
                names |-> {}] >>
      [] OTHER -> [i \in DOMAIN frame[channel].elements |->
            LET e == frame[channel].elements[i] IN
            IF e.is = "junk"
            THEN [do |-> "absorb", kind |-> Kind("junk", channel),
                  names |-> {}]
            ELSE [do |-> e.is, channel |-> channel, element |-> e]]

Work(frame) ==
    IF ~frame.object
    THEN << [do |-> "absorb", kind |-> Kind("notObject", "frame"),
             names |-> {}] >>
    ELSE (IF frame.unread = {} THEN <<>>
          ELSE << [do |-> "absorb", kind |-> Kind("newChannel", "frame"),
                   names |-> [what : {"channel"}, name : frame.unread]] >>)
         \o IF frame.response # Absent THEN OfChannel(frame, "response")
            ELSE OfChannel(frame, "data") \o OfChannel(frame, "notify")

Read(frame) ==
    /\ loop = Nobody /\ reader.at = "reading" /\ open
    /\ reader.frame < MaxFrame
    /\ reader' = [reader EXCEPT !.at = "frame", !.frame = @ + 1,
                                !.work = Work(frame), !.item = 1]
    /\ loop' = Reader
    /\ UNCHANGED <<session, absorbing, registered, request, telling, work,
                   heard, history, extra>>

\* recv() raises: the connection is gone, or a reader inside it was thrown
\* out by close().  One that waits for the read lock finds no socket.
ReadLost ==
    /\ loop = Nobody /\ reader.at = "reading"
    /\ Return("lost")
    /\ UNCHANGED <<session, absorbing, registered, request, telling, work,
                   heard, history, extra>>

\* An answer to a waiting request, with another element behind it, a late
\* rejection or one that is no object: routed, and the loop drains again.
QueueRejection ==
    LET report == Report(Kind("rejection", "ADMIN"), {}) IN
    /\ queue' = Push(queue, report) /\ made' = made + 1
    /\ rejections' = rejections \cup {report}
    /\ UNCHANGED <<kinds, shapes>>

AbsorbBehind == Absorb(Kind("junk", "response"), {}) /\ UNCHANGED rejections

FindBehind ==
    /\ late < MaxLate /\ late' = late + 1
    /\ QueueRejection \/ AbsorbBehind

ReadAnswer ==
    /\ loop = Nobody /\ reader.at = "reading" /\ open
    /\ FindBehind
    /\ reader' = [reader EXCEPT !.at = "draining", !.wasOpen = open,
                                !.closedAt = "never"]
    /\ loop' = Reader
    /\ UNCHANGED <<session, registered, request, telling, work, heard, history>>

\* A request has the read lock, reads the same, and drains at its end unless
\* it is cancelled; it has no lock then, and another may drain meanwhile.
RequestReads_NoDrain(q) ==
    /\ loop = Nobody /\ request[q] = "idle" /\ open
    /\ FindBehind
    /\ UNCHANGED <<session, registered, loop, reader, request, telling, work,
                   heard, history>>
RequestReads(q) ==
    /\ loop = Nobody /\ request[q] = "idle" /\ open
    /\ FindBehind
    /\ \/ request' = [request EXCEPT ![q] = "draining"]
       \/ Cancels /\ UNCHANGED request
    /\ UNCHANGED <<session, registered, loop, reader, telling, work, heard,
                   history>>

RequestEnds(q) ==
    /\ MayRun(q) /\ request[q] = "draining" /\ ~Telling(q)
    /\ queue = <<>>
    /\ request' = [request EXCEPT ![q] = "idle"] /\ loop' = Nobody
    /\ UNCHANGED <<session, absorbing, registered, reader, telling, work,
                   heard, history, extra>>

----------------------------------------------------------------------------
(* One element after the other, one handler after the other.               *)

AtWork == MayRun(Reader) /\ reader.at = "frame" /\ ~Telling(Reader)
Item == reader.work[reader.item]
NextItem == [reader EXCEPT !.item = @ + 1, !.next = 0, !.spoiled = FALSE]

FrameDone ==
    /\ AtWork /\ reader.item > Len(reader.work)
    /\ Return("done")
    /\ UNCHANGED <<session, absorbing, registered, request, telling, work,
                   heard, history, extra>>

HasItem == AtWork /\ reader.item <= Len(reader.work)

AbsorbItem ==
    /\ HasItem /\ Item.do = "absorb"
    /\ Absorb(Item.kind, Item.names)
    /\ reader' = NextItem /\ loop' = Reader
    /\ UNCHANGED <<session, registered, request, telling, work, heard,
                   history, extra>>

\* Neither a heartbeat nor a late acceptance is news.
SkipItem ==
    /\ HasItem /\ Item.do \in {"heartbeat", "accepted"}
    /\ reader' = NextItem /\ loop' = Reader
    /\ UNCHANGED <<session, absorbing, registered, request, telling, work,
                   heard, history, extra>>

\* A late rejection in a frame of its own is told at once.
ReportRejection ==
    /\ HasItem /\ Item.do = "rejected"
    /\ Begin(Reader, Report(Kind("rejection", "ADMIN"), {}))
    /\ made' = made + 1
    /\ reader' = NextItem /\ loop' = Reader
    /\ UNCHANGED <<session, kinds, shapes, queue, registered, request, work,
                   heard, history, extra>>

\* _dispatch_to_handlers, up to its loop.
DispatchAbsorbs ==
    /\ HasItem /\ Item.do = "message"
    /\ LET service == Item.element.service IN
       /\ service \notin Services \cup {"none"}
       /\ CASE service = "unhashable" ->
                  Absorb(Kind("badService", "frame"), {})
            [] service = "Invalid Service" ->
                  Absorb(Kind("invalidService", "frame"), {})
            [] OTHER ->
                  Absorb(Kind("newService", "frame"),
                         {[what |-> "service", name |-> service]})
    /\ reader' = NextItem /\ loop' = Reader
    /\ UNCHANGED <<session, registered, request, telling, work, heard,
                   history, extra>>

Hearers == IF Item.element.service \in Services
           THEN handlers[Item.element.service] ELSE <<>>
Call(h) == [frame |-> reader.frame, item |-> reader.item, handler |-> h]
MustRelabel == Item.channel = "data"
Relabels == ~MustRelabel \/ Item.element.labels

StartDispatch ==
    /\ HasItem /\ Item.do = "message" /\ reader.next = 0
    /\ Item.element.service \in Services \cup {"none"}
    /\ reader' = [reader EXCEPT !.next = 1] /\ loop' = Reader
    /\ owed' = IF Relabels THEN owed \cup {Call(h) : h \in ToSet(Hearers)}
               ELSE owed
    /\ UNCHANGED <<session, absorbing, registered, request, telling, work,
                   calls, failed, history, extra>>

Dispatching == HasItem /\ Item.do = "message" /\ reader.next > 0
Handler == Hearers[reader.next]

EndDispatch ==
    /\ Dispatching /\ reader.next > Len(Hearers)
    /\ reader' = NextItem /\ loop' = Reader
    /\ UNCHANGED <<session, absorbing, registered, request, telling, work,
                   heard, history, extra>>

\* Absorbed once per message, whichever handlers it was for.
RelabelFails ==
    /\ Dispatching /\ reader.next <= Len(Hearers) /\ ~Relabels
    /\ IF reader.spoiled THEN UNCHANGED absorbing
       ELSE Absorb(Kind("relabel", Item.element.service), {})
    /\ reader' = [reader EXCEPT !.next = @ + 1, !.spoiled = TRUE]
    /\ loop' = Reader
    /\ UNCHANGED <<session, registered, request, telling, work, heard,
                   history, extra>>

Hears == Dispatching /\ reader.next <= Len(Hearers) /\ Relabels

HandlerReturns ==
    /\ Hears
    /\ calls' = Append(calls, Call(Handler))
    /\ reader' = [reader EXCEPT !.next = @ + 1] /\ loop' = Reader
    /\ UNCHANGED <<session, absorbing, registered, request, telling, work,
                   owed, failed, history, extra>>

\* Its failure is told to the error handlers, and the next handler hears.
HandlerRaises_LastHeard ==
    LET report == Report(Kind("handler", ServiceOf[Handler]), {}) IN
    /\ Hears
    /\ calls' = Append(calls, Call(Handler))
    /\ Begin(Reader, report) /\ made' = made + 1
    /\ failed' = failed \cup {report}
    /\ reader' = [reader EXCEPT !.next = Len(Hearers) + 1] /\ loop' = Reader
    /\ UNCHANGED <<session, kinds, shapes, queue, registered, request, work,
                   owed, history, extra>>
HandlerRaises ==
    LET report == Report(Kind("handler", ServiceOf[Handler]), {}) IN
    /\ Hears
    /\ calls' = Append(calls, Call(Handler))
    /\ Begin(Reader, report) /\ made' = made + 1
    /\ failed' = failed \cup {report}
    /\ reader' = [reader EXCEPT !.next = @ + 1] /\ loop' = Reader
    /\ UNCHANGED <<session, kinds, shapes, queue, registered, request, work,
                   owed, history, extra>>

\* A BaseException of a handler ends handle_message.
HandlerExits ==
    /\ Exits /\ Hears
    /\ calls' = Append(calls, Call(Handler))
    /\ owed' = ToSet(calls')
    /\ Return("exits")
    /\ UNCHANGED <<session, absorbing, registered, request, telling, work,
                   failed, history, extra>>

\* A coroutine becomes a task, which the client holds on to.
HandlerIsCoroutine ==
    /\ Hears
    /\ calls' = Append(calls, Call(Handler))
    /\ tasks' = tasks \cup {Call(Handler)} /\ held' = held \cup {Call(Handler)}
    /\ reader' = [reader EXCEPT !.next = @ + 1] /\ loop' = Reader
    /\ UNCHANGED <<session, absorbing, registered, request, telling,
                   owed, failed, history, extra>>

----------------------------------------------------------------------------
(* Tasks of coroutine handlers.                                            *)

Runs(t) == t \in tasks /\ t \notin DOMAIN telling /\ loop = Nobody

\* It returns, or is cancelled or exits: nothing is reported.
TaskEnds(t) ==
    /\ Runs(t)
    /\ tasks' = tasks \ {t} /\ held' = held \ {t}
    /\ UNCHANGED <<session, absorbing, registered, loop, reader, request,
                   telling, heard, history, extra>>

TaskFails(t) ==
    LET report == Report(Kind("handler", ServiceOf[t.handler]), {}) IN
    /\ Runs(t)
    /\ telling' = [a \in DOMAIN telling \cup {t} |->
                     IF a = t THEN [report |-> report, next |-> 1]
                     ELSE telling[a]]
    /\ made' = made + 1
    /\ failed' = failed \cup {report}
    /\ loop' = t
    /\ UNCHANGED <<session, kinds, shapes, queue, registered, reader, request,
                   work, calls, owed, history, extra>>

----------------------------------------------------------------------------
(* close() and login(), called by anyone else on the loop.                 *)

Clear ==
    /\ epoch < MaxEpoch /\ epoch' = epoch + 1
    /\ queue' = <<>> /\ kinds' = [k \in Kinds |-> 0]

Close ==
    /\ loop = Nobody
    /\ open' = FALSE
    /\ Clear
    /\ reader' = [reader EXCEPT !.closedAt = reader.at]
    /\ UNCHANGED <<shapes, made, registered, loop, request, telling, work,
                   heard, history, extra>>

Login ==
    /\ loop = Nobody
    /\ open' = TRUE
    /\ Clear
    /\ UNCHANGED <<shapes, made, registered, loop, reader, request, telling,
                   work, heard, history, extra>>

----------------------------------------------------------------------------
Dispatch == StartDispatch \/ EndDispatch \/ RelabelFails \/ HandlerReturns
            \/ HandlerRaises \/ HandlerExits \/ HandlerIsCoroutine
Frame == FrameDone \/ AbsorbItem \/ SkipItem \/ ReportRejection
         \/ DispatchAbsorbs \/ Dispatch

Next ==
    \/ \E h \in Handlers : AddHandler(h)
    \/ \E e \in ErrorHandlers : AddErrorHandler(e)
    \/ \E a \in DOMAIN telling : Tell(a) \/ Told(a) \/ TellExits(a)
    \/ \E a \in {Reader} \cup Requests : DrainOne(a)
    \/ CallHandle \/ Drained \/ NotOpen \/ ReadLost \/ ReadAnswer
    \/ \E frame \in Frames : Read(frame)
    \/ \E q \in Requests : RequestReads(q) \/ RequestEnds(q)
    \/ Frame
    \/ \E t \in tasks : TaskEnds(t) \/ TaskFails(t)
    \/ Close \/ Login

Spec == Init /\ [][Next]_vars

\* What an actor that drains or tells does next.
Works(a) ==
    \/ DrainOne(a) \/ Tell(a) \/ Told(a)
    \/ a \in Requests /\ RequestEnds(a)

\* The caller calls handle_message in a loop, the loop runs what is ready in
\* turn, and error handlers return.  The venue and the tasks owe nothing.
Fairness ==
    /\ WF_vars(CallHandle) /\ WF_vars(Drained) /\ WF_vars(Frame)
    /\ \A a \in {Reader} \cup Requests : SF_vars(Works(a))

LiveSpec == Spec /\ Fairness

----------------------------------------------------------------------------
Queued == ToSet(queue)
Seen == Queued \cup taken

\* Position in the order of arrival and registration.
Before(c, d) ==
    \/ c.frame < d.frame
    \/ c.frame = d.frame /\ c.item < d.item
    \/ /\ c.frame = d.frame /\ c.item = d.item
       /\ ServiceOf[c.handler] = ServiceOf[d.handler]
       /\ \E i, j \in DOMAIN handlers[ServiceOf[c.handler]] :
            /\ i < j
            /\ handlers[ServiceOf[c.handler]][i] = c.handler
            /\ handlers[ServiceOf[d.handler]][j] = d.handler

\* Each message that relabels reaches every handler of its service once, in
\* the order of arrival and of registration, whatever the other handlers and
\* the error handlers do, and whoever closes meanwhile (_dispatch_to_handlers:
\* "one misbehaving handler ... must not prevent the other handlers").
EveryHandlerHears ==
    /\ \A i, j \in DOMAIN calls : i < j => Before(calls[i], calls[j])
    /\ \A c \in owed \ ToSet(calls) :
         reader.at = "frame" /\ c.frame = reader.frame /\ c.item = reader.item

\* The failure of a stream handler, in the call or in its task, is told to
\* every error handler, also past one that raises; so is what is drained.  The
\* loop refers to a task only weakly: the client holds each until it ends, or
\* it could be collected before it fails.
FailureTold ==
    /\ \A x \in ended : \A e \in x.owed : <<x.report, e>> \in told
    /\ \A r \in failed : \/ \E a \in DOMAIN telling : telling[a].report = r
                         \/ \E x \in ended : x.report = r
    /\ held = tasks

\* No error handler hears one report twice, though handle_message and any
\* number of requests drain one queue, and each awaits error handlers that
\* may start another drain.
ToldOnce == ~again

\* close() from an error handler in the drain of a client that was open ends
\* the call quietly, and does not raise "Socket not open" out of it.
QuietClose ==
    reader.result = "notOpen" /\ reader.wasOpen => reader.closedAt # "draining"

\* What waits is told once, and whoever closes while it is told is obeyed.
DrainsOnce == ToldOnce /\ QuietClose

\* Of every kind absorbed in this session something was reported: a flood of
\* one kind neither uses up the reports of another nor pushes them out.
NotSilenced ==
    \A k \in Kinds : kinds[k] > 0 =>
        \E r \in Seen : r.about = k /\ r.epoch = epoch

\* Nor does it push out a rejection nothing else will ever report.
RejectionSurvives == \A r \in rejections : r.epoch = epoch => r \in Seen

\* A name that counts as reported is in a report that was taken up or waits:
\* it is never forced again (_report_new_shape: "the handlers are the ones
\* that already heard").
Sighted == \A name \in shapes : \E r \in Seen : name \in r.names

\* Whatever else fails, what is new is heard of: of every kind of failure, of
\* every rejection, and, until the session is cleared, of every name.
NewsHeard == NotSilenced /\ RejectionSurvives /\ (epoch <= 1 => Sighted)

\* What is queued is told or cleared, though handle_message may sit in recv()
\* on a stream where nothing more arrives: the request that read it drains.
Delivered == []<>(queue = <<>>)
=============================================================================
