------------------------ MODULE StreamDispatchProofs ------------------------
(***************************************************************************)
(* For every number of handlers, frames, reports and sessions: who hears   *)
(* what of a frame, that no report is told twice or to some only, and,     *)
(* while the queue has room, that every kind of failure and every          *)
(* rejection behind an answer is heard of.                                 *)
(***************************************************************************)
EXTENDS StreamDispatch, TLAPS

Names == [what : {"channel", "service"}, name : STRING]
Abouts == Kinds \cup [what : {"rejection"}, of : {"ADMIN"}]
                \cup [what : {"handler"}, of : Services]
Notes == [id : Nat, about : Abouts, names : SUBSET Names, epoch : Nat]
Items ==
    [do : {"absorb"}, kind : Kinds, names : SUBSET Names]
    \cup [do : {"heartbeat", "message", "rejected", "accepted"}, channel : Channels,
          element : Elements]
CallSet == [frame : Nat, item : Nat, handler : Handlers]
Tellings == [report : Notes, next : Nat \ {0}]

\* Those that may drain the queue, and what the requests among them do.
Drainers == {Reader} \cup Requests
AnyReads == \E q \in Requests : RequestReads(q)
AnyEnds == \E q \in Requests : RequestEnds(q)

NoteTypes ==
    /\ epoch \in Nat /\ made \in Nat
    /\ kinds \in [Kinds -> Nat] /\ shapes \subseteq Names
    /\ queue \in Seq(Notes) /\ taken \subseteq Notes
    /\ rejections \subseteq Notes /\ failed \subseteq Notes

TellTypes ==
    /\ errors \in Seq(ErrorHandlers) /\ told \subseteq Notes \X ErrorHandlers
    /\ telling \in [DOMAIN telling -> Tellings \cup {NotTelling}]
    /\ Drainers \subseteq DOMAIN telling
    /\ \A a \in DOMAIN telling \ Drainers : telling[a] # NotTelling

CallTypes ==
    /\ handlers \in [Services -> Seq(Handlers)]
    /\ calls \in Seq(CallSet) /\ owed \subseteq CallSet
    /\ tasks \subseteq CallSet

ReaderTypes ==
    /\ DOMAIN reader = DOMAIN Idle
    /\ reader.at \in {"idle", "draining", "reading", "frame"}
    /\ reader.frame \in Nat /\ reader.item \in Nat /\ reader.next \in Nat
    /\ reader.work \in Seq(Items)
    /\ reader.at = "frame" => reader.item > 0

DTypes == NoteTypes /\ TellTypes /\ CallTypes /\ ReaderTypes

(* What holds of the reports.  An id is given once: it waits in the queue, *)
(* or is told by one actor, or neither ever again.                         *)

InOrder(q) == \A i, j \in DOMAIN q : i < j => q[i].id < q[j].id

IdsInv ==
    /\ InOrder(queue)
    /\ \A i \in DOMAIN queue : queue[i].id <= made
    /\ \A a \in DOMAIN telling : Telling(a) =>
         /\ telling[a].report.id <= made
         /\ \A i \in DOMAIN queue : queue[i].id # telling[a].report.id
    /\ \A a, b \in DOMAIN telling : Telling(a) /\ Telling(b) /\ a # b =>
         telling[a].report.id # telling[b].report.id

\* Who was told a report stands before the one that is told it next.
HeardInv ==
    /\ \A c \in told : /\ c[1].id <= made
                       /\ \A i \in DOMAIN queue : queue[i].id # c[1].id
    /\ \A a \in DOMAIN telling : Telling(a) =>
         \A c \in told : c[1] = telling[a].report =>
           \E k \in DOMAIN errors : k < telling[a].next /\ errors[k] = c[2]
    /\ \A i, j \in DOMAIN errors : i # j => errors[i] # errors[j]
    /\ ~again

\* A report that is told was told to all before the one that is next.
TellInv ==
    /\ \A a \in DOMAIN telling : Telling(a) =>
         /\ telling[a].next <= Len(errors) + 1
         /\ \A k \in DOMAIN errors :
              k < telling[a].next => <<telling[a].report, errors[k]>> \in told
    /\ \A x \in ended : \A e \in x.owed : <<x.report, e>> \in told
    /\ \A r \in failed :
         \/ \E a \in DOMAIN telling : Telling(a) /\ telling[a].report = r
         \/ \E x \in ended : x.report = r

\* Whoever closes during the drain is noticed at its end.
QuietInv ==
    /\ reader.at # "idle" => reader.result = "none"
    /\ reader.at = "reading" /\ reader.wasOpen /\ reader.closedAt = "draining" => open
    /\ QuietClose

(* What holds of the calls. *)

HandlersOnce ==
    \A s \in Services :
      /\ \A i \in DOMAIN handlers[s] : ServiceOf[handlers[s][i]] = s
      /\ \A i, j \in DOMAIN handlers[s] : i # j => handlers[s][i] # handlers[s][j]

\* A call that was made lies before where the reader is.
Behind(c) ==
    /\ c.frame <= reader.frame
    /\ reader.at = "frame" /\ c.frame = reader.frame =>
         /\ c.item <= reader.item
         /\ c.item = reader.item =>
              /\ reader.next > 0 /\ reader.item <= Len(reader.work)
              /\ Item.do = "message"
              /\ \E k \in DOMAIN Hearers : k < reader.next /\ Hearers[k] = c.handler

\* One that is owed lies where the reader is, with a handler still to come.
Ahead(c) ==
    /\ reader.at = "frame" /\ c.frame = reader.frame /\ c.item = reader.item
    /\ reader.next > 0 /\ reader.item <= Len(reader.work)
    /\ Item.do = "message" /\ Relabels
    /\ \E k \in DOMAIN Hearers : k >= reader.next /\ Hearers[k] = c.handler

CallsInv ==
    /\ HandlersOnce
    /\ \A i \in DOMAIN calls : Behind(calls[i])
    /\ \A i, j \in DOMAIN calls : i < j => Before(calls[i], calls[j])
    /\ \A c \in owed \ ToSet(calls) : Ahead(c)

(* What holds of the news, while the queue has room for one more. *)

HasRoom == Len(queue) < MaxReports

NewsInv ==
    /\ NotSilenced
    /\ RejectionSurvives
    /\ epoch <= 1 => Sighted
    /\ \A r \in rejections : r.epoch <= epoch
-----------------------------------------------------------------------------
(* Frames and queues. *)

\* A channel is worth a sequence of items.
LEMMA OfChannelType ==
    ASSUME NEW frame \in Frames, NEW c \in Channels
    PROVE  OfChannel(frame, c) \in Seq(Items)
<1>1. frame[c] \in Parts
  BY DispatchAssumption DEF Channels
<1>2. CASE frame[c].is = "absent"
  BY <1>2 DEF OfChannel
<1>3. CASE frame[c].is = "notList"
  BY <1>3 DEF OfChannel, Items, Kind, Kinds
<1>4. CASE frame[c].is = "list"
  <2> DEFINE item(e) == IF e.is = "junk"
                        THEN [do |-> "absorb", kind |-> Kind("junk", c), names |-> {}]
                        ELSE [do |-> e.is, channel |-> c, element |-> e]
  <2>1. PICK q \in Seq(Elements) : q = frame[c].elements
    BY <1>1 DEF Parts
  <2>2. \A e \in Elements : item(e) \in Items
    BY DEF Items, Kind, Kinds, Elements
  <2>3. OfChannel(frame, c) = [i \in 1 .. Len(q) |-> item(q[i])]
    BY <1>4, <2>1 DEF OfChannel
  <2> HIDE DEF item
  <2>4. Len(q) \in Nat /\ \A i \in 1 .. Len(q) : item(q[i]) \in Items
    BY <2>1, <2>2
  <2>5. [i \in 1 .. Len(q) |-> item(q[i])] \in [1 .. Len(q) -> Items]
    BY <2>4
  <2> QED
    BY <2>3, <2>4, <2>5
<1> QED
  BY <1>1, <1>2, <1>3, <1>4 DEF Parts

\* So is a frame.
LEMMA WorkType == ASSUME NEW frame \in Frames PROVE Work(frame) \in Seq(Items)
<1>1. /\ OfChannel(frame, "response") \in Seq(Items)
      /\ OfChannel(frame, "data") \in Seq(Items)
      /\ OfChannel(frame, "notify") \in Seq(Items)
  BY OfChannelType DEF Channels
<1>2. PICK q \in Seq(Items) :
         q = IF frame.response # Absent THEN OfChannel(frame, "response")
             ELSE OfChannel(frame, "data") \o OfChannel(frame, "notify")
  <2>1. OfChannel(frame, "data") \o OfChannel(frame, "notify") \in Seq(Items)
    BY <1>1
  <2> QED
    BY <1>1, <2>1
<1>3. frame.unread \subseteq STRING
  <2>1. frame \in [object : BOOLEAN, unread : SUBSET STRING, response : Parts,
                   data : Parts, notify : Parts]
    BY DispatchAssumption
  <2> QED
    BY <2>1
<1>4. /\ << [do |-> "absorb", kind |-> Kind("notObject", "frame"), names |-> {}] >>
            \in Seq(Items)
      /\ << [do |-> "absorb", kind |-> Kind("newChannel", "frame"),
             names |-> [what : {"channel"}, name : frame.unread]] >> \in Seq(Items)
  BY <1>3 DEF Items, Kind, Kinds, Names
<1> QED
  BY <1>2, <1>4 DEF Work

\* A queue that takes a report keeps what it had, but the oldest if it is full.
LEMMA PushType ==
    ASSUME NEW q \in Seq(Notes), NEW r \in Notes
    PROVE  Push(q, r) \in Seq(Notes)
<1>1. CASE Len(q) = MaxReports
  <2>1. q # <<>>
    BY <1>1, DispatchAssumption
  <2>2. Tail(q) \in Seq(Notes)
    BY <2>1
  <2> QED
    BY <1>1, <2>2 DEF Push
<1>2. CASE Len(q) # MaxReports
  BY <1>2 DEF Push
<1> QED
  BY <1>1, <1>2

\* Absorbing counts, and may queue a report.
LEMMA AbsorbType ==
    ASSUME NoteTypes, NEW kind \in Kinds, NEW names \in SUBSET Names, Absorb(kind, names)
    PROVE  /\ kinds' \in [Kinds -> Nat] /\ shapes' \subseteq Names
           /\ queue' \in Seq(Notes) /\ made' \in Nat
<1>1. PICK new \in SUBSET names :
         /\ shapes' = shapes \cup new
         /\ kinds' = [kinds EXCEPT ![kind] = @ + 1]
         /\ \/ queue' = Push(queue, Report(kind, names)) /\ made' = made + 1
            \/ UNCHANGED <<queue, made>>
  BY DEF Absorb
<1>3. Report(kind, names) \in Notes
  BY DEF Report, Notes, Abouts, NoteTypes
<1> QED
  BY <1>1, <1>3, PushType DEF NoteTypes

\* The item the reader is at.
LEMMA ItemType ==
    ASSUME ReaderTypes, HasItem
    PROVE  /\ Item \in Items
           /\ Item.do = "absorb" => Item.kind \in Kinds /\ Item.names \in SUBSET Names
           /\ Item.do = "message" => Item.element \in Elements
<1>1. Item \in Items
  <2>1. reader.item \in 1 .. Len(reader.work) /\ reader.work \in Seq(Items)
    BY DEF ReaderTypes, HasItem, AtWork
  <2> QED
    BY <2>1 DEF Item
<1> QED
  BY <1>1 DEF Items

\* Who hears an item is a sequence of handlers.
LEMMA HearersType == ASSUME DTypes PROVE Hearers \in Seq(Handlers)
<1>1. <<>> \in Seq(Handlers)
  OBVIOUS
<1> QED
  BY <1>1 DEF Hearers, DTypes, CallTypes

\* The handler that is next is one of its service.
LEMMA HandlerType ==
    ASSUME DTypes, Dispatching
    PROVE  /\ Hearers \in Seq(Handlers)
           /\ reader.next <= Len(Hearers) => Handler \in Handlers /\ Call(Handler) \in CallSet
<1>2. PICK q \in Seq(Handlers) : q = Hearers
  BY HearersType
<1>3. reader.next \in Nat \ {0} /\ reader.frame \in Nat /\ reader.item \in Nat
  BY DEF DTypes, ReaderTypes, Dispatching
<1>4. reader.next <= Len(q) => q[reader.next] \in Handlers
  BY <1>3
<1> QED
  BY <1>2, <1>3, <1>4 DEF Handler, Call, CallSet

\* A report that is made now.
LEMMA ReportType ==
    ASSUME NoteTypes, NEW about \in Abouts, NEW names \in SUBSET Names
    PROVE  /\ Report(about, names) \in Notes
           /\ Report(about, names).id = made + 1 /\ Report(about, names).epoch = epoch
BY DEF Report, Notes, NoteTypes

\* What reports are about.
LEMMA AboutTypes ==
    /\ Kinds \subseteq Abouts /\ Kind("rejection", "ADMIN") \in Abouts
    /\ \A h \in Handlers : Kind("handler", ServiceOf[h]) \in Abouts
    /\ \A c \in {"badService", "invalidService", "newService"} : Kind(c, "frame") \in Kinds
    /\ \A s \in Services : Kind("relabel", s) \in Kinds
    /\ Kind("junk", "response") \in Kinds
BY DispatchAssumption DEF Abouts, Kind, Kinds, Channels

\* What a step that makes no report and takes none leaves alone.
NotesKeep == <<epoch, made, kinds, shapes, queue, taken, rejections, failed>>

\* A step keeps the types of the reports.
LEMMA NotesTyped == ASSUME DTypes, Next PROVE NoteTypes'
<1> USE DEF DTypes
<1>1. CASE UNCHANGED NotesKeep
  BY <1>1 DEF NotesKeep, NoteTypes
<1>2. ASSUME NEW kind \in Kinds, NEW names \in SUBSET Names, Absorb(kind, names),
             UNCHANGED <<epoch, taken, rejections, failed>>
      PROVE  NoteTypes'
  BY <1>2, AbsorbType DEF NoteTypes
<1>3. CASE AbsorbItem
  BY <1>2, <1>3, ItemType DEF AbsorbItem, session, history, extra, heard
<1>4. CASE DispatchAbsorbs
  <2>1. PICK service : service = Item.element.service
    OBVIOUS
  <2>2. Item.element \in Elements
    BY <1>4, ItemType DEF DispatchAbsorbs
  <2>3. {[what |-> "service", name |-> service]} \in SUBSET Names
    BY <2>1, <2>2 DEF Names, Elements
  <2>4. UNCHANGED <<epoch, taken, rejections, failed>>
    BY <1>4 DEF DispatchAbsorbs, session, history, extra, heard
  <2>5. \/ Absorb(Kind("badService", "frame"), {})
        \/ Absorb(Kind("invalidService", "frame"), {})
        \/ Absorb(Kind("newService", "frame"), {[what |-> "service", name |-> service]})
    BY <1>4, <2>1 DEF DispatchAbsorbs
  <2> QED
    BY <1>2, <2>3, <2>4, <2>5, AboutTypes
<1>5. CASE RelabelFails
  <2>1. UNCHANGED <<epoch, taken, rejections, failed>>
    BY <1>5 DEF RelabelFails, session, history, extra, heard
  <2>2. CASE reader.spoiled
    BY <1>1, <1>5, <2>1, <2>2 DEF RelabelFails, absorbing, NotesKeep
  <2>3. CASE ~reader.spoiled
    <3>1. Item.element.service \in Services
      BY <1>5 DEF RelabelFails, Dispatching, Hearers, DTypes, ReaderTypes
    <3> QED
      BY <1>2, <1>5, <2>1, <2>3, <3>1, AboutTypes DEF RelabelFails
  <2> QED
    BY <2>2, <2>3
<1>6. ASSUME NEW a, DrainOne(a) PROVE NoteTypes'
  <2>1. Head(queue) \in Notes /\ Tail(queue) \in Seq(Notes)
    BY <1>6 DEF DrainOne, NoteTypes
  <2> QED
    BY <1>6, <2>1 DEF DrainOne, NoteTypes, session, heard, extra
<1>7. ASSUME QueueRejection, UNCHANGED <<session, kinds, shapes, heard, history>>
      PROVE  NoteTypes'
  <2>1. PICK r \in Notes : r = Report(Kind("rejection", "ADMIN"), {})
    BY ReportType, AboutTypes
  <2>2. queue' = Push(queue, r) /\ rejections' = rejections \cup {r} /\ made' = made + 1
    BY <1>7, <2>1 DEF QueueRejection
  <2> QED
    BY <1>7, <2>2, PushType DEF NoteTypes, session, heard, history
<1>8. CASE ReadAnswer \/ AnyReads
  <2>1. FindBehind /\ UNCHANGED <<session, heard, history>>
    BY <1>8 DEF ReadAnswer, AnyReads, RequestReads
  <2>2. CASE QueueRejection
    BY <1>7, <2>1, <2>2 DEF QueueRejection
  <2>3. CASE AbsorbBehind
    BY <1>2, <2>1, <2>3, AboutTypes DEF AbsorbBehind, session, heard, history
  <2> QED
    BY <2>1, <2>2, <2>3 DEF FindBehind
<1>9. CASE ReportRejection
  BY <1>9 DEF ReportRejection, NoteTypes, session, heard, history, extra
<1>10. CASE HandlerRaises
  <2>1. Handler \in Handlers
    BY <1>10, HandlerType DEF HandlerRaises, Hears
  <2>2. PICK r \in Notes : r = Report(Kind("handler", ServiceOf[Handler]), {})
    BY <2>1, ReportType, AboutTypes
  <2> QED
    BY <1>10, <2>2 DEF HandlerRaises, NoteTypes, session, history, extra
<1>11. ASSUME NEW t \in tasks, TaskFails(t) PROVE NoteTypes'
  <2>1. t.handler \in Handlers
    BY DEF CallTypes, CallSet
  <2>2. PICK r \in Notes : r = Report(Kind("handler", ServiceOf[t.handler]), {})
    BY <2>1, ReportType, AboutTypes
  <2> QED
    BY <1>11, <2>2 DEF TaskFails, NoteTypes, session, history, extra
<1>12. CASE Close \/ Login
  <2>1. Clear /\ UNCHANGED <<shapes, made, heard, history, extra>>
    BY <1>12 DEF Close, Login
  <2>2. <<>> \in Seq(Notes) /\ [k \in Kinds |-> 0] \in [Kinds -> Nat]
    OBVIOUS
  <2> QED
    BY <2>1, <2>2 DEF Clear, NoteTypes, heard, history, extra
<1> USE DEF session, absorbing, registered, heard, history, extra, NotesKeep
<1>13. ASSUME NEW a, Tell(a) \/ Told(a) \/ TellExits(a) PROVE NoteTypes'
  BY <1>1, <1>13 DEF Tell, TellOne, Called, Told, TellExits
<1>14. ASSUME NEW h, AddHandler(h) \/ AddErrorHandler(h) \/ Read(h) \/ TaskEnds(h)
       PROVE  NoteTypes'
  BY <1>1, <1>14 DEF AddHandler, AddErrorHandler, Read, TaskEnds
<1>15. CASE CallHandle \/ Drained \/ NotOpen \/ ReadLost \/ AnyEnds
  BY <1>1, <1>15 DEF CallHandle, Drained, NotOpen, ReadLost, AnyEnds, RequestEnds
<1>16. CASE FrameDone \/ SkipItem \/ StartDispatch \/ EndDispatch \/ HandlerReturns
            \/ HandlerExits \/ HandlerIsCoroutine
  BY <1>1, <1>16 DEF FrameDone, SkipItem, StartDispatch, EndDispatch, HandlerReturns,
                     HandlerExits, HandlerIsCoroutine
<1> QED
  BY <1>3, <1>4, <1>5, <1>6, <1>8, <1>9, <1>10, <1>11, <1>12, <1>13, <1>14, <1>15, <1>16
     DEF Next, Frame, Dispatch, Drainers, AnyReads, AnyEnds

TellsKeep == <<errors, told, telling>>

\* A step keeps the types of what is being told.
LEMMA TellsTyped == ASSUME DTypes, Next PROVE TellTypes'
<1> USE DEF DTypes
<1>1. CASE UNCHANGED TellsKeep
  BY <1>1 DEF TellsKeep, TellTypes, NotTelling
<1>2. ASSUME NEW a \in DOMAIN telling, Telling(a), telling[a].next <= Len(errors)
      PROVE  <<telling[a].report, errors[telling[a].next]>> \in Notes \X ErrorHandlers
  BY <1>2 DEF Telling, TellTypes, Tellings
<1>3. ASSUME NEW a, Tell(a), a \in DOMAIN telling PROVE TellTypes'
  <2>1. /\ Telling(a) /\ telling' = [telling EXCEPT ![a].next = @ + 1]
        /\ told' = told \cup {<<telling[a].report, errors[telling[a].next]>>}
        /\ telling[a].next <= Len(errors) /\ UNCHANGED errors
    BY <1>3 DEF Tell, TellOne, Called, registered
  <2>2. telling[a] \in Tellings
    BY <1>3, <2>1 DEF TellTypes, Telling
  <2>3. PICK now \in Tellings : now = [telling[a] EXCEPT !.next = @ + 1]
    <3>1. [telling[a] EXCEPT !.next = @ + 1] \in Tellings
      BY <2>2 DEF Tellings
    <3> QED
      BY <3>1
  <2>4. telling' = [telling EXCEPT ![a] = now]
    BY <2>1, <2>3
  <2>5. now # NotTelling
    BY <2>3 DEF Tellings, NotTelling
  <2>6. told' \subseteq Notes \X ErrorHandlers
    BY <1>2, <1>3, <2>1 DEF TellTypes
  <2> QED
    BY <1>3, <2>1, <2>4, <2>5, <2>6 DEF TellTypes
<1>4. ASSUME NEW a \in DOMAIN telling,
             IF a \in Drainers THEN telling' = [telling EXCEPT ![a] = NotTelling]
             ELSE telling' = [b \in DOMAIN telling \ {a} |-> telling[b]]
      PROVE  /\ telling' \in [DOMAIN telling' -> Tellings \cup {NotTelling}]
             /\ Drainers \subseteq DOMAIN telling'
             /\ \A b \in DOMAIN telling' \ Drainers : telling'[b] # NotTelling
  BY <1>4 DEF TellTypes
<1>5. ASSUME NEW a, Told(a), a \in DOMAIN telling PROVE TellTypes'
  BY <1>4, <1>5 DEF TellTypes, Told, Drainers, registered
<1>6. ASSUME NEW a, TellExits(a), a \in DOMAIN telling PROVE TellTypes'
  <2>1. told' \subseteq Notes \X ErrorHandlers
    BY <1>2, <1>6 DEF TellTypes, TellExits, Called
  <2> QED
    BY <1>4, <1>6, <2>1 DEF TellTypes, TellExits, Drainers, registered
<1>7. ASSUME NEW a \in DOMAIN telling, NEW r \in Notes, Begin(a, r), UNCHANGED <<errors, told>>
      PROVE  TellTypes'
  <2>1. [report |-> r, next |-> 1] \in Tellings
    BY DEF Tellings
  <2>2. [report |-> r, next |-> 1] # NotTelling
    BY DEF NotTelling
  <2> QED
    BY <1>7, <2>1, <2>2 DEF Begin, TellTypes
<1>8. ASSUME NEW a \in Drainers, DrainOne(a) PROVE TellTypes'
  <2>1. Head(queue) \in Notes
    BY <1>8 DEF DrainOne, NoteTypes
  <2> QED
    BY <1>7, <1>8, <2>1 DEF DrainOne, TellTypes, registered, history
<1>9. CASE ReportRejection
  BY <1>7, <1>9, ReportType, AboutTypes
     DEF ReportRejection, TellTypes, Drainers, registered, history
<1>10. CASE HandlerRaises
  <2>1. Handler \in Handlers
    BY <1>10, HandlerType DEF HandlerRaises, Hears
  <2>2. PICK r \in Notes : r = Report(Kind("handler", ServiceOf[Handler]), {})
    BY <2>1, ReportType, AboutTypes
  <2> QED
    BY <1>7, <1>10, <2>2 DEF HandlerRaises, TellTypes, Drainers, registered, history
<1>11. ASSUME NEW t \in tasks, TaskFails(t) PROVE TellTypes'
  <2>1. t.handler \in Handlers
    BY DEF CallTypes, CallSet
  <2>2. PICK r \in Notes : r = Report(Kind("handler", ServiceOf[t.handler]), {})
    BY <2>1, ReportType, AboutTypes
  <2>3. PICK first \in Tellings : first = [report |-> r, next |-> 1]
    <3>1. [report |-> r, next |-> 1] \in Tellings
      BY DEF Tellings
    <3> QED
      BY <3>1
  <2>4. first # NotTelling
    BY <2>3 DEF NotTelling
  <2>5. telling' = [a \in DOMAIN telling \cup {t} |-> IF a = t THEN first ELSE telling[a]]
    BY <1>11, <2>2, <2>3 DEF TaskFails
  <2> QED
    BY <1>11, <2>4, <2>5 DEF TaskFails, TellTypes, registered, history
<1>12. ASSUME NEW e \in ErrorHandlers, AddErrorHandler(e) PROVE TellTypes'
  BY <1>12 DEF AddErrorHandler, TellTypes, history
<1> USE DEF session, absorbing, registered, heard, history, extra, TellsKeep
<1>13. ASSUME NEW h, AddHandler(h) \/ Read(h) \/ TaskEnds(h) PROVE TellTypes'
  BY <1>1, <1>13 DEF AddHandler, Read, TaskEnds
<1>14. CASE CallHandle \/ Drained \/ NotOpen \/ ReadLost \/ AnyEnds \/ ReadAnswer
            \/ AnyReads \/ Close \/ Login
  BY <1>1, <1>14 DEF CallHandle, Drained, NotOpen, ReadLost, AnyEnds, RequestEnds, ReadAnswer,
                     AnyReads, RequestReads, Close, Login
<1>15. CASE FrameDone \/ SkipItem \/ StartDispatch \/ EndDispatch \/ HandlerReturns
            \/ HandlerExits \/ HandlerIsCoroutine
  BY <1>1, <1>15 DEF FrameDone, SkipItem, StartDispatch, EndDispatch, HandlerReturns,
                     HandlerExits, HandlerIsCoroutine
<1>16. CASE AbsorbItem \/ DispatchAbsorbs \/ RelabelFails
  BY <1>1, <1>16 DEF AbsorbItem, DispatchAbsorbs, RelabelFails
<1> QED
  BY <1>3, <1>5, <1>6, <1>8, <1>9, <1>10, <1>11, <1>12, <1>13, <1>14, <1>15, <1>16
     DEF Next, Frame, Dispatch, Drainers, AnyReads, AnyEnds, TellTypes

CallsKeep == <<handlers, calls, owed, tasks>>

\* A step keeps the types of the handlers and of their calls.
LEMMA CallsTyped == ASSUME DTypes, Next PROVE CallTypes'
<1> USE DEF DTypes
<1>1. CASE UNCHANGED CallsKeep
  BY <1>1 DEF CallsKeep, CallTypes
<1>2. ToSet(calls) \subseteq CallSet
  BY DEF ToSet, CallTypes
<1>3. ASSUME NEW a, Told(a) \/ TellExits(a) PROVE CallTypes'
  BY <1>2, <1>3 DEF Told, TellExits, CallTypes, registered, heard, work
<1>4. ASSUME Hears PROVE Call(Handler) \in CallSet /\ Append(calls, Call(Handler)) \in Seq(CallSet)
  BY <1>4, HandlerType DEF Hears, CallTypes
<1>5. CASE HandlerReturns \/ HandlerRaises
  BY <1>4, <1>5 DEF HandlerReturns, HandlerRaises, CallTypes, registered, work
<1>6. CASE HandlerIsCoroutine
  BY <1>4, <1>6 DEF HandlerIsCoroutine, CallTypes, registered
<1>7. CASE HandlerExits
  <2>1. PICK q \in Seq(CallSet) : q = Append(calls, Call(Handler))
    BY <1>4, <1>7 DEF HandlerExits
  <2>2. calls' = q /\ owed' = ToSet(q)
    BY <1>7, <2>1 DEF HandlerExits
  <2>3. ToSet(q) \subseteq CallSet
    BY DEF ToSet
  <2> QED
    BY <1>7, <2>2, <2>3 DEF HandlerExits, CallTypes, registered, work
<1>8. CASE StartDispatch
  <2>1. Hearers \in Seq(Handlers)
    BY HearersType
  <2>2. \A h \in ToSet(Hearers) : h \in Handlers
    BY <2>1 DEF ToSet
  <2>3. \A h \in Handlers : Call(h) \in CallSet
    BY DEF Call, CallSet, ReaderTypes
  <2>4. owed' \subseteq CallSet
    BY <1>8, <2>2, <2>3 DEF StartDispatch, CallTypes
  <2> QED
    BY <1>8, <2>4 DEF StartDispatch, CallTypes, registered, work
<1>9. ASSUME NEW h \in Handlers, AddHandler(h) PROVE CallTypes'
  <2>1. ServiceOf[h] \in Services
    BY DispatchAssumption
  <2>2. Append(handlers[ServiceOf[h]], h) \in Seq(Handlers)
    BY <2>1 DEF CallTypes
  <2> QED
    BY <1>9, <2>1, <2>2 DEF AddHandler, CallTypes, work, heard
<1>10. ASSUME NEW t \in tasks, TaskEnds(t) PROVE CallTypes'
  BY <1>10 DEF TaskEnds, CallTypes, registered, heard
<1> USE DEF session, absorbing, registered, heard, history, extra, work, CallsKeep
<1>11. ASSUME NEW h, AddErrorHandler(h) \/ Read(h) \/ TaskFails(h) \/ Tell(h) \/ DrainOne(h)
       PROVE  CallTypes'
  BY <1>1, <1>11 DEF AddErrorHandler, Read, TaskFails, Tell, DrainOne
<1>12. CASE CallHandle \/ Drained \/ NotOpen \/ ReadLost \/ AnyEnds \/ ReadAnswer
            \/ AnyReads \/ Close \/ Login
  BY <1>1, <1>12 DEF CallHandle, Drained, NotOpen, ReadLost, AnyEnds, RequestEnds, ReadAnswer,
                     AnyReads, RequestReads, Close, Login
<1>13. CASE FrameDone \/ SkipItem \/ EndDispatch \/ AbsorbItem \/ DispatchAbsorbs
            \/ RelabelFails \/ ReportRejection
  BY <1>1, <1>13 DEF FrameDone, SkipItem, EndDispatch, AbsorbItem, DispatchAbsorbs,
                     RelabelFails, ReportRejection
<1> QED
  BY <1>3, <1>5, <1>6, <1>7, <1>8, <1>9, <1>10, <1>11, <1>12, <1>13
     DEF Next, Frame, Dispatch, Drainers, AnyReads, AnyEnds

\* A step keeps the types of the reader.
LEMMA ReaderTyped == ASSUME DTypes, Next PROVE ReaderTypes'
<1> USE DEF DTypes
<1> USE DEF session, absorbing, registered, heard, history, extra, work
<1>1. CASE UNCHANGED reader
  BY <1>1 DEF ReaderTypes, Idle
<1>2. ASSUME NEW result \in {"closed", "notOpen", "lost", "done", "exits"}, Return(result)
      PROVE  ReaderTypes'
  <2>1. <<>> \in Seq(Items)
    OBVIOUS
  <2> QED
    BY <1>2, <2>1 DEF Return, Idle, ReaderTypes
<1>3. CASE NotOpen \/ ReadLost \/ FrameDone \/ HandlerExits
  BY <1>2, <1>3 DEF NotOpen, ReadLost, FrameDone, HandlerExits
<1>4. CASE Drained
  BY <1>2, <1>4 DEF Drained, ReaderTypes, Idle
<1>5. CASE CallHandle \/ ReadAnswer
  BY <1>5 DEF CallHandle, ReadAnswer, ReaderTypes, Idle
<1>6. ASSUME NEW frame \in Frames, Read(frame) PROVE ReaderTypes'
  <2>1. PICK items \in Seq(Items) : items = Work(frame)
    BY WorkType
  <2>2. reader' = [reader EXCEPT !.at = "frame", !.frame = @ + 1, !.work = items, !.item = 1]
    BY <1>6, <2>1 DEF Read
  <2> HIDE <1>6
  <2> QED
    BY <2>2 DEF ReaderTypes, Idle
<1>7. ASSUME reader' = NextItem PROVE ReaderTypes'
  BY <1>7 DEF NextItem, ReaderTypes, Idle
<1>8. CASE AbsorbItem \/ SkipItem \/ ReportRejection \/ DispatchAbsorbs \/ EndDispatch
  BY <1>7, <1>8 DEF AbsorbItem, SkipItem, ReportRejection, DispatchAbsorbs, EndDispatch
<1>9. CASE StartDispatch \/ RelabelFails \/ HandlerReturns \/ HandlerRaises
           \/ HandlerIsCoroutine
  <2>1. CASE reader' = [reader EXCEPT !.next = 1]
    BY <2>1 DEF ReaderTypes, Idle
  <2>2. CASE reader' = [reader EXCEPT !.next = @ + 1]
    BY <2>2 DEF ReaderTypes, Idle
  <2>3. CASE reader' = [reader EXCEPT !.next = @ + 1, !.spoiled = TRUE]
    BY <2>3 DEF ReaderTypes, Idle
  <2> QED
    BY <1>9, <2>1, <2>2, <2>3 DEF StartDispatch, RelabelFails, HandlerReturns, HandlerRaises,
                                  HandlerIsCoroutine
<1>10. ASSUME NEW a, Tell(a) \/ Told(a) PROVE ReaderTypes'
  BY <1>1, <1>10 DEF Tell, Told
<1>15. ASSUME NEW a, TellExits(a) PROVE ReaderTypes'
  <2>1. CASE reader' = [Idle EXCEPT !.frame = reader.frame, !.result = "exits"]
    <3>1. <<>> \in Seq(Items)
      OBVIOUS
    <3> QED
      BY <2>1, <3>1 DEF Idle, ReaderTypes
  <2> QED
    BY <1>1, <1>15, <2>1 DEF TellExits
<1>11. CASE Close
  BY <1>11 DEF Close, ReaderTypes, Idle
<1>12. CASE Login
  BY <1>12 DEF Login, ReaderTypes, Idle
<1>13. ASSUME NEW h, AddHandler(h) \/ AddErrorHandler(h) \/ TaskEnds(h) \/ TaskFails(h)
                     \/ DrainOne(h)
       PROVE  ReaderTypes'
  BY <1>1, <1>13 DEF AddHandler, AddErrorHandler, TaskEnds, TaskFails, DrainOne
<1>14. CASE AnyReads \/ AnyEnds
  BY <1>1, <1>14 DEF AnyReads, RequestReads, AnyEnds, RequestEnds
<1> QED
  BY <1>3, <1>4, <1>5, <1>6, <1>8, <1>9, <1>10, <1>11, <1>12, <1>13, <1>14, <1>15
     DEF Next, Frame, Dispatch, Drainers, AnyReads, AnyEnds

\* Every value is of its kind at first.
LEMMA InitTyped == ASSUME Init PROVE DTypes
<1>1. /\ [k \in Kinds |-> 0] \in [Kinds -> Nat] /\ <<>> \in Seq(Notes)
      /\ <<>> \in Seq(ErrorHandlers) /\ <<>> \in Seq(CallSet) /\ <<>> \in Seq(Items)
      /\ [s \in Services |-> <<>>] \in [Services -> Seq(Handlers)]
  OBVIOUS
<1>2. NoteTypes
  BY <1>1 DEF Init, NoteTypes
<1>3. TellTypes
  BY <1>1 DEF Init, TellTypes, Drainers
<1>4. CallTypes
  BY <1>1 DEF Init, CallTypes
<1>5. ReaderTypes
  BY <1>1 DEF Init, ReaderTypes, Idle
<1> QED
  BY <1>2, <1>3, <1>4, <1>5 DEF DTypes

\* And it stays so.
LEMMA NextTyped == ASSUME DTypes, [Next]_vars PROVE DTypes'
<1>1. CASE Next
  BY <1>1, NotesTyped, TellsTyped, CallsTyped, ReaderTyped DEF DTypes
<1>2. CASE UNCHANGED vars
  BY <1>2 DEF vars, session, absorbing, registered, heard, history, extra, work,
              DTypes, NoteTypes, TellTypes, CallTypes, ReaderTypes
<1> QED
  BY <1>1, <1>2
-----------------------------------------------------------------------------
(* What a step does to the reports. *)

Apart == <<told, again, errors, ended>>
Same == UNCHANGED <<queue, made, telling, failed, Apart>>
Clears == queue' = <<>> /\ UNCHANGED <<made, telling, failed, Apart>>
Queues(r) ==
    /\ r.id = made + 1 /\ made' = made + 1 /\ queue' = Push(queue, r)
    /\ UNCHANGED <<telling, failed, Apart>>
Starts(a, r) ==
    /\ a \in DOMAIN telling => ~Telling(a)
    /\ telling' = [b \in DOMAIN telling \cup {a} |->
                     IF b = a THEN [report |-> r, next |-> 1] ELSE telling[b]]
StartsNew(a, r) ==
    /\ r.id = made + 1 /\ made' = made + 1 /\ Starts(a, r)
    /\ failed' \subseteq failed \cup {r} /\ UNCHANGED <<queue, Apart>>
StartsOld(a) ==
    /\ queue # <<>> /\ queue' = Tail(queue) /\ Starts(a, Head(queue))
    /\ UNCHANGED <<made, failed, Apart>>

\* Every step is one of these, as far as the reports are concerned.
LEMMA ReportSteps ==
    ASSUME DTypes, Next
    PROVE  \/ Same \/ Clears
           \/ \E r \in Notes : Queues(r) \/ \E a : StartsNew(a, r)
           \/ \E a \in Drainers : StartsOld(a)
           \/ \E a \in DOMAIN telling : Tell(a) \/ Told(a) \/ TellExits(a)
           \/ \E e \in ErrorHandlers : AddErrorHandler(e)
<1> USE DEF session, absorbing, registered, heard, history, extra, work, Apart
<1> DEFINE Absorbs == Same \/ \E r \in Notes : Queues(r)
           Begins == \E r \in Notes : \E a : StartsNew(a, r)
<1>1. ASSUME NEW kind \in Kinds, NEW names \in SUBSET Names, Absorb(kind, names),
             UNCHANGED <<telling, failed, Apart>>
      PROVE  Absorbs
  <2>1. PICK r \in Notes : r = Report(kind, names) /\ r.id = made + 1
    BY ReportType, AboutTypes DEF DTypes
  <2> QED
    BY <1>1, <2>1 DEF Absorb, Queues, Same
<1>2. ASSUME NEW a, NEW r \in Notes, r.id = made + 1, made' = made + 1,
             a \in DOMAIN telling, ~Telling(a), Begin(a, r),
             failed' \subseteq failed \cup {r}, UNCHANGED <<queue, Apart>>
      PROVE  Begins
  <2>1. Starts(a, r)
    BY <1>2 DEF Begin, Starts
  <2> QED
    BY <1>2, <2>1 DEF StartsNew
<1>3. CASE AbsorbItem
  BY <1>1, <1>3, ItemType DEF AbsorbItem, DTypes
<1>4. CASE DispatchAbsorbs
  <2>1. PICK service : service = Item.element.service
    OBVIOUS
  <2>2. Item.element \in Elements
    BY <1>4, ItemType DEF DispatchAbsorbs, DTypes
  <2>3. {[what |-> "service", name |-> service]} \in SUBSET Names
    BY <2>1, <2>2 DEF Names, Elements
  <2>4. UNCHANGED <<telling, failed, Apart>>
    BY <1>4 DEF DispatchAbsorbs
  <2>5. \/ Absorb(Kind("badService", "frame"), {})
        \/ Absorb(Kind("invalidService", "frame"), {})
        \/ Absorb(Kind("newService", "frame"), {[what |-> "service", name |-> service]})
    BY <1>4, <2>1 DEF DispatchAbsorbs
  <2> QED
    BY <1>1, <2>3, <2>4, <2>5, AboutTypes
<1>5. CASE RelabelFails
  <2>1. UNCHANGED <<telling, failed, Apart>>
    BY <1>5 DEF RelabelFails
  <2>2. CASE reader.spoiled
    BY <1>5, <2>1, <2>2 DEF RelabelFails, Same
  <2>3. CASE ~reader.spoiled
    <3>1. Item.element.service \in Services
      BY <1>5 DEF RelabelFails, Dispatching, Hearers, DTypes, ReaderTypes
    <3> QED
      BY <1>1, <1>5, <2>1, <2>3, <3>1, AboutTypes DEF RelabelFails
  <2> QED
    BY <2>2, <2>3
<1>6. ASSUME NEW a \in Drainers, DrainOne(a) PROVE StartsOld(a)
  <2>1. a \in DOMAIN telling
    BY DEF DTypes, TellTypes
  <2>2. Begin(a, Head(queue)) /\ ~Telling(a)
    BY <1>6 DEF DrainOne
  <2>3. Starts(a, Head(queue))
    BY <2>1, <2>2 DEF Begin, Starts
  <2> QED
    BY <1>6, <2>3 DEF DrainOne, StartsOld
<1>7. ASSUME QueueRejection, UNCHANGED <<telling, failed, Apart>> PROVE Absorbs
  <2>1. PICK r \in Notes : r = Report(Kind("rejection", "ADMIN"), {}) /\ r.id = made + 1
    BY ReportType, AboutTypes DEF DTypes
  <2> QED
    BY <1>7, <2>1 DEF QueueRejection, Queues
<1>8. ASSUME ReadAnswer \/ AnyReads PROVE Absorbs
  <2>1. FindBehind /\ UNCHANGED <<telling, failed, Apart>>
    BY <1>8 DEF ReadAnswer, AnyReads, RequestReads
  <2>2. CASE QueueRejection
    BY <1>7, <2>1, <2>2
  <2>3. CASE AbsorbBehind
    BY <1>1, <2>1, <2>3, AboutTypes DEF AbsorbBehind
  <2> QED
    BY <2>1, <2>2, <2>3 DEF FindBehind
<1>9. CASE ReportRejection
  <2>1. PICK r \in Notes : r = Report(Kind("rejection", "ADMIN"), {}) /\ r.id = made + 1
    BY ReportType, AboutTypes DEF DTypes
  <2>2. Reader \in DOMAIN telling /\ ~Telling(Reader)
    BY <1>9 DEF ReportRejection, HasItem, AtWork, DTypes, TellTypes, Drainers
  <2> QED
    BY <1>2, <1>9, <2>1, <2>2 DEF ReportRejection
<1>10. CASE HandlerRaises
  <2>1. Handler \in Handlers
    BY <1>10, HandlerType DEF HandlerRaises, Hears
  <2>2. PICK r \in Notes : r = Report(Kind("handler", ServiceOf[Handler]), {}) /\ r.id = made + 1
    BY <2>1, ReportType, AboutTypes DEF DTypes
  <2>3. Reader \in DOMAIN telling /\ ~Telling(Reader)
    BY <1>10 DEF HandlerRaises, Hears, Dispatching, HasItem, AtWork, DTypes, TellTypes,
                 Drainers
  <2> QED
    BY <1>2, <1>10, <2>2, <2>3 DEF HandlerRaises
<1>11. ASSUME NEW t \in tasks, TaskFails(t) PROVE Begins
  <2>1. t.handler \in Handlers
    BY DEF DTypes, CallTypes, CallSet
  <2>2. PICK r \in Notes :
           r = Report(Kind("handler", ServiceOf[t.handler]), {}) /\ r.id = made + 1
    BY <2>1, ReportType, AboutTypes DEF DTypes
  <2> QED
    BY <1>11, <2>2 DEF TaskFails, Runs, StartsNew, Starts
<1>12. CASE Close \/ Login
  BY <1>12 DEF Close, Login, Clear, Clears
<1>13. ASSUME NEW h, AddHandler(h) \/ Read(h) \/ TaskEnds(h) PROVE Same
  BY <1>13 DEF AddHandler, Read, TaskEnds, Same
<1>14. CASE CallHandle \/ Drained \/ NotOpen \/ ReadLost \/ AnyEnds
  BY <1>14 DEF CallHandle, Drained, NotOpen, ReadLost, AnyEnds, RequestEnds, Same
<1>15. CASE FrameDone \/ SkipItem \/ StartDispatch \/ EndDispatch \/ HandlerReturns
            \/ HandlerExits \/ HandlerIsCoroutine
  BY <1>15 DEF FrameDone, SkipItem, StartDispatch, EndDispatch, HandlerReturns,
               HandlerExits, HandlerIsCoroutine, Same
<1> QED
  BY <1>3, <1>4, <1>5, <1>6, <1>8, <1>9, <1>10, <1>11, <1>12, <1>13, <1>14, <1>15
     DEF Next, Frame, Dispatch, Drainers, AnyReads, AnyEnds, DTypes, TellTypes

\* A report has a number and the session it is about.
LEMMA NoteTypesOf == \A n \in Notes : n.id \in Nat /\ n.epoch \in Nat
BY DEF Notes

\* A queue in order stays so when its head is popped.
LEMMA PopOrder ==
    ASSUME NEW q \in Seq(Notes), InOrder(q), q # <<>>
    PROVE  /\ InOrder(Tail(q)) /\ Tail(q) \in Seq(Notes)
           /\ Head(q) = q[1] /\ 1 \in DOMAIN q
           /\ \A i \in DOMAIN Tail(q) : \E j \in DOMAIN q : Tail(q)[i] = q[j] /\ j # 1
<1>1. /\ Tail(q) \in Seq(Notes) /\ Len(Tail(q)) = Len(q) - 1 /\ 1 \in DOMAIN q
      /\ \A i \in 1 .. (Len(q) - 1) : Tail(q)[i] = q[i + 1]
  OBVIOUS
<1>2. InOrder(Tail(q))
  <2> SUFFICES ASSUME NEW i \in 1 .. (Len(q) - 1), NEW j \in 1 .. (Len(q) - 1), i < j
               PROVE  Tail(q)[i].id < Tail(q)[j].id
    BY <1>1 DEF InOrder
  <2>1. i + 1 \in DOMAIN q /\ j + 1 \in DOMAIN q /\ i + 1 < j + 1
    OBVIOUS
  <2>2. q[i + 1].id < q[j + 1].id
    BY <2>1 DEF InOrder
  <2> QED
    BY <1>1, <2>2
<1>3. ASSUME NEW i \in 1 .. (Len(q) - 1)
      PROVE  \E j \in DOMAIN q : Tail(q)[i] = q[j] /\ j # 1
  <2>1. i + 1 \in DOMAIN q /\ i + 1 # 1 /\ Tail(q)[i] = q[i + 1]
    BY <1>1
  <2> QED
    BY <2>1
<1> QED
  BY <1>1, <1>2, <1>3

\* So it does when a newer report is pushed.
LEMMA PushOrder ==
    ASSUME NEW q \in Seq(Notes), NEW r \in Notes, InOrder(q),
           \A i \in DOMAIN q : q[i].id < r.id
    PROVE  /\ InOrder(Push(q, r))
           /\ \A i \in DOMAIN Push(q, r) :
                Push(q, r)[i] = r \/ \E j \in DOMAIN q : Push(q, r)[i] = q[j]
<1>5. ASSUME NEW p \in Seq(Notes), InOrder(p), \A i \in DOMAIN p : p[i].id < r.id,
             \A i \in DOMAIN p : \E j \in DOMAIN q : p[i] = q[j]
      PROVE  /\ InOrder(Append(p, r))
             /\ \A i \in DOMAIN Append(p, r) :
                  Append(p, r)[i] = r \/ \E j \in DOMAIN q : Append(p, r)[i] = q[j]
  <2>1. /\ DOMAIN Append(p, r) = 1 .. (Len(p) + 1) /\ Append(p, r)[Len(p) + 1] = r
        /\ \A i \in 1 .. Len(p) : Append(p, r)[i] = p[i]
    OBVIOUS
  <2>2. \A i \in 1 .. (Len(p) + 1) : i \in 1 .. Len(p) \/ i = Len(p) + 1
    OBVIOUS
  <2>3. \A i \in 1 .. (Len(p) + 1) :
           Append(p, r)[i] = r \/ \E j \in DOMAIN q : Append(p, r)[i] = q[j]
    BY <1>5, <2>1, <2>2
  <2>4. ASSUME NEW i \in 1 .. (Len(p) + 1), NEW j \in 1 .. (Len(p) + 1), i < j
        PROVE  Append(p, r)[i].id < Append(p, r)[j].id
    <3>1. i \in 1 .. Len(p)
      BY <2>4
    <3>2. CASE j = Len(p) + 1
      BY <1>5, <2>1, <3>1, <3>2
    <3>3. CASE j \in 1 .. Len(p)
      BY <1>5, <2>1, <2>4, <3>1, <3>3 DEF InOrder
    <3> QED
      BY <3>2, <3>3
  <2> QED
    BY <2>1, <2>3, <2>4 DEF InOrder
<1>6. CASE Len(q) = MaxReports
  <2>1. q # <<>>
    BY <1>6, DispatchAssumption
  <2>2. PICK p \in Seq(Notes) :
           /\ p = Tail(q) /\ InOrder(p)
           /\ \A i \in DOMAIN p : \E j \in DOMAIN q : p[i] = q[j]
    BY <2>1, PopOrder
  <2>3. \A i \in DOMAIN p : p[i].id < r.id
    BY <2>2
  <2>4. Push(q, r) = Append(p, r)
    BY <1>6, <2>2 DEF Push
  <2>5. /\ InOrder(Append(p, r))
        /\ \A i \in DOMAIN Append(p, r) :
             Append(p, r)[i] = r \/ \E j \in DOMAIN q : Append(p, r)[i] = q[j]
    BY <1>5, <2>2, <2>3
  <2> QED
    BY <2>4, <2>5, Zenon
<1>7. CASE Len(q) # MaxReports
  <2>1. Push(q, r) = Append(q, r)
    BY <1>7 DEF Push
  <2> QED
    BY <1>5, <2>1
<1> QED
  BY <1>6, <1>7

\* What stands in the queue and with the actors after a step stood there before,
\* or is new.
LEMMA IdsKept == ASSUME DTypes, IdsInv, Next PROVE IdsInv'
<1> USE DEF DTypes
<1>1. /\ \A i \in DOMAIN queue : queue[i] \in Notes /\ queue[i].id \in Nat
      /\ \A a \in DOMAIN telling : Telling(a) =>
           telling[a].report \in Notes /\ telling[a].report.id \in Nat
      /\ made \in Nat
  <2>1. \A i \in DOMAIN queue : queue[i] \in Notes
    BY DEF NoteTypes
  <2>2. \A a \in DOMAIN telling : Telling(a) => telling[a].report \in Notes
    BY DEF TellTypes, Tellings, Telling
  <2> QED
    BY <2>1, <2>2, NoteTypesOf DEF NoteTypes
<1>2. ASSUME NEW r \in Notes, Queues(r) PROVE IdsInv'
  <2>1. r.id = made + 1 /\ made' = made + 1 /\ telling' = telling
    BY <1>2 DEF Queues
  <2>2. PICK q \in Seq(Notes) : q = queue
    BY DEF NoteTypes
  <2>3. InOrder(q) /\ \A i \in DOMAIN q : q[i].id < r.id
    BY <1>1, <2>1, <2>2 DEF IdsInv
  <2>4. PICK p \in Seq(Notes) : p = Push(q, r)
    BY PushType
  <2>5. InOrder(p) /\ \A i \in DOMAIN p : p[i] = r \/ \E j \in DOMAIN q : p[i] = q[j]
    BY <2>3, <2>4, PushOrder
  <2>6. queue' = p
    BY <1>2, <2>2, <2>4 DEF Queues
  <2>7. \A i \in DOMAIN p : p[i].id <= made + 1
    BY <1>1, <2>1, <2>2, <2>3, <2>5
  <2>8. ASSUME NEW a \in DOMAIN telling, Telling(a)
        PROVE  /\ telling[a].report.id <= made + 1
               /\ \A i \in DOMAIN p : p[i].id # telling[a].report.id
    BY <1>1, <2>1, <2>2, <2>5, <2>8 DEF IdsInv
  <2> QED
    BY <2>1, <2>5, <2>6, <2>7, <2>8 DEF IdsInv, Telling
<1>3. ASSUME NEW r \in Notes, NEW a, StartsNew(a, r) PROVE IdsInv'
  <2>1. /\ r.id = made + 1 /\ made' = made + 1 /\ queue' = queue
        /\ DOMAIN telling' = DOMAIN telling \cup {a}
        /\ telling'[a].report = r
        /\ \A b \in DOMAIN telling : b # a => telling'[b] = telling[b]
    BY <1>3 DEF StartsNew, Starts
  <2>2. ASSUME NEW b \in DOMAIN telling', telling'[b] # NotTelling
        PROVE  /\ telling'[b].report.id <= made + 1
               /\ \A i \in DOMAIN queue : queue[i].id # telling'[b].report.id
    <3>1. CASE b = a
      BY <1>1, <2>1, <3>1 DEF IdsInv
    <3>2. CASE b # a
      BY <1>1, <2>1, <2>2, <3>2 DEF IdsInv, Telling
    <3> QED
      BY <3>1, <3>2
  <2>3. ASSUME NEW b \in DOMAIN telling', NEW c \in DOMAIN telling', b # c,
               telling'[b] # NotTelling, telling'[c] # NotTelling
        PROVE  telling'[b].report.id # telling'[c].report.id
    BY <1>1, <2>1, <2>3 DEF IdsInv, Telling
  <2> QED
    BY <1>1, <2>1, <2>2, <2>3 DEF IdsInv, Telling
<1>4. ASSUME NEW a, StartsOld(a) PROVE IdsInv'
  <2>1. PICK q \in Seq(Notes) : q = queue /\ q # <<>>
    BY <1>4 DEF NoteTypes, StartsOld
  <2>3. /\ InOrder(Tail(q)) /\ Head(q) = q[1] /\ 1 \in DOMAIN q
        /\ \A i \in DOMAIN Tail(q) : \E j \in DOMAIN q : Tail(q)[i] = q[j] /\ j # 1
    BY <2>1, PopOrder DEF IdsInv
  <2>4. PICK p : p = Tail(q)
    OBVIOUS
  <2>5. /\ queue' = p /\ made' = made
        /\ DOMAIN telling' = DOMAIN telling \cup {a}
        /\ telling'[a].report = q[1]
        /\ \A b \in DOMAIN telling : b # a => telling'[b] = telling[b]
    BY <1>4, <2>1, <2>3, <2>4 DEF StartsOld, Starts
  <2>6. /\ InOrder(p) /\ 1 \in DOMAIN q
        /\ \A i \in DOMAIN p : \E j \in DOMAIN q : p[i] = q[j] /\ j # 1
    BY <2>3, <2>4
  <2>7. \A i \in DOMAIN q : i # 1 => q[1].id # q[i].id
    BY <1>1, <2>1, <2>6 DEF IdsInv, InOrder
  <2>8. \A i \in DOMAIN p : p[i].id <= made /\ p[i].id # q[1].id
    BY <1>1, <2>1, <2>6, <2>7 DEF IdsInv
  <2>9. ASSUME NEW b \in DOMAIN telling', telling'[b] # NotTelling
        PROVE  /\ telling'[b].report.id <= made
               /\ \A i \in DOMAIN p : p[i].id # telling'[b].report.id
    <3>1. CASE b = a
      BY <1>1, <2>1, <2>5, <2>6, <2>8, <3>1 DEF IdsInv
    <3>2. CASE b # a
      BY <1>1, <2>1, <2>5, <2>6, <2>9, <3>2 DEF IdsInv, Telling
    <3> QED
      BY <3>1, <3>2
  <2>10. ASSUME NEW b \in DOMAIN telling', NEW c \in DOMAIN telling', b # c,
                telling'[b] # NotTelling, telling'[c] # NotTelling
         PROVE  telling'[b].report.id # telling'[c].report.id
    BY <1>1, <2>1, <2>5, <2>6, <2>10 DEF IdsInv, Telling
  <2> QED
    BY <2>5, <2>6, <2>8, <2>9, <2>10 DEF IdsInv, Telling
<1>5. ASSUME UNCHANGED <<queue, made>>,
             \A b \in DOMAIN telling' : telling'[b] # NotTelling =>
               /\ b \in DOMAIN telling /\ Telling(b)
               /\ telling'[b].report = telling[b].report
      PROVE  IdsInv'
  BY <1>5 DEF IdsInv, InOrder, Telling
<1>6. ASSUME NEW a \in DOMAIN telling, Tell(a) PROVE IdsInv'
  <2>1. telling' = [telling EXCEPT ![a].next = @ + 1] /\ Telling(a)
        /\ UNCHANGED <<queue, made>>
    BY <1>6 DEF Tell, TellOne, absorbing
  <2>2. telling[a] \in Tellings
    BY <2>1 DEF TellTypes, Telling
  <2>3. telling'[a].report = telling[a].report
    BY <2>1, <2>2 DEF Tellings
  <2> QED
    BY <1>5, <2>1, <2>3 DEF Telling
<1>7. ASSUME NEW a \in DOMAIN telling, Told(a) \/ TellExits(a) PROVE IdsInv'
  BY <1>5, <1>7 DEF Told, TellExits, absorbing, Telling
<1>8. CASE Same
  BY <1>8 DEF Same, IdsInv, Telling, InOrder
<1>9. CASE Clears
  BY <1>9 DEF Clears, IdsInv, Telling, InOrder
<1>10. ASSUME NEW e, AddErrorHandler(e) PROVE IdsInv'
  BY <1>10 DEF AddErrorHandler, absorbing, IdsInv, Telling, InOrder
<1> QED
  BY <1>2, <1>3, <1>4, <1>6, <1>7, <1>8, <1>9, <1>10, ReportSteps

\* An actor tells a report to those that did not hear it: who heard it stands before
\* the next, and a new report, or one that waited, nobody heard.
LEMMA HeardKept == ASSUME DTypes, IdsInv, HeardInv, Next PROVE HeardInv'
<1> USE DEF DTypes
<1>1. /\ \A i \in DOMAIN queue : queue[i] \in Notes /\ queue[i].id \in Nat
      /\ \A c \in told : c[1] \in Notes /\ c[1].id \in Nat
      /\ \A a \in DOMAIN telling : Telling(a) =>
           telling[a] \in Tellings /\ telling[a].report \in Notes /\ telling[a].next \in Nat
      /\ made \in Nat
  <2>1. \A i \in DOMAIN queue : queue[i] \in Notes
    BY DEF NoteTypes
  <2>2. \A a \in DOMAIN telling : Telling(a) =>
           telling[a] \in Tellings /\ telling[a].report \in Notes /\ telling[a].next \in Nat
    BY DEF TellTypes, Tellings, Telling
  <2>3. \A c \in told : c[1] \in Notes
    BY DEF TellTypes
  <2> QED
    BY <2>1, <2>2, <2>3, NoteTypesOf DEF NoteTypes
<1>2. ASSUME NEW r \in Notes, Queues(r) PROVE HeardInv'
  <2>1. r.id = made + 1 /\ made' = made + 1 /\ UNCHANGED <<telling, told, again, errors>>
    BY <1>2 DEF Queues, Apart
  <2>2. PICK q \in Seq(Notes) : q = queue
    BY DEF NoteTypes
  <2>3. InOrder(q) /\ \A i \in DOMAIN q : q[i].id < r.id
    BY <1>1, <2>1, <2>2 DEF IdsInv
  <2>4. PICK p \in Seq(Notes) : p = Push(q, r)
    BY PushType
  <2>5. \A i \in DOMAIN p : p[i] = r \/ \E j \in DOMAIN q : p[i] = q[j]
    BY <2>3, <2>4, PushOrder
  <2>6. queue' = p
    BY <1>2, <2>2, <2>4 DEF Queues
  <2>7. \A c \in told : c[1].id <= made + 1 /\ \A i \in DOMAIN p : p[i].id # c[1].id
    BY <1>1, <2>1, <2>2, <2>5 DEF HeardInv
  <2> QED
    BY <2>1, <2>6, <2>7 DEF HeardInv, Telling
<1>3. ASSUME NEW r \in Notes, NEW a, UNCHANGED <<told, again, errors>>, made' \in Nat,
             made <= made', \A c \in told : c[1] # r,
             \A i \in DOMAIN queue' : \E j \in DOMAIN queue : queue'[i] = queue[j],
             DOMAIN telling' = DOMAIN telling \cup {a}, telling'[a].report = r,
             \A b \in DOMAIN telling : b # a => telling'[b] = telling[b]
      PROVE  HeardInv'
  <2>1. \A c \in told : /\ c[1].id <= made'
                        /\ \A i \in DOMAIN queue' : queue'[i].id # c[1].id
    BY <1>1, <1>3 DEF HeardInv
  <2>2. ASSUME NEW b \in DOMAIN telling', telling'[b] # NotTelling, NEW c \in told,
               c[1] = telling'[b].report
        PROVE  \E k \in DOMAIN errors : k < telling'[b].next /\ errors[k] = c[2]
    BY <1>3, <2>2 DEF HeardInv, Telling
  <2> QED
    BY <1>3, <2>1, <2>2 DEF HeardInv, Telling
<1>4. ASSUME NEW r \in Notes, NEW a, StartsNew(a, r) PROVE HeardInv'
  <2>1. \A c \in told : c[1] # r
    BY <1>1, <1>4 DEF StartsNew, HeardInv
  <2>2. /\ made' \in Nat /\ made <= made' /\ UNCHANGED <<told, again, errors, queue>>
        /\ DOMAIN telling' = DOMAIN telling \cup {a} /\ telling'[a].report = r
        /\ \A b \in DOMAIN telling : b # a => telling'[b] = telling[b]
    BY <1>1, <1>4 DEF StartsNew, Starts, Apart
  <2> QED
    BY <1>3, <2>1, <2>2
<1>5. ASSUME NEW a, StartsOld(a) PROVE HeardInv'
  <2>1. PICK q \in Seq(Notes) : q = queue /\ q # <<>>
    BY <1>5 DEF NoteTypes, StartsOld
  <2>5. /\ Head(q) = q[1] /\ 1 \in DOMAIN q
        /\ \A i \in DOMAIN Tail(q) : \E j \in DOMAIN q : Tail(q)[i] = q[j]
    BY <2>1, PopOrder DEF IdsInv
  <2>6. PICK r \in Notes : r = q[1] /\ r = Head(q)
    BY <1>1, <2>1, <2>5
  <2>7. PICK p : p = Tail(q)
    OBVIOUS
  <2>2. /\ p = Tail(q) /\ r = q[1] /\ r = Head(q) /\ 1 \in DOMAIN q
        /\ \A i \in DOMAIN p : \E j \in DOMAIN q : p[i] = q[j]
    BY <2>5, <2>6, <2>7, Zenon
  <2>3. \A c \in told : c[1] # r
    BY <2>1, <2>2 DEF HeardInv
  <2>4. /\ made' = made /\ UNCHANGED <<told, again, errors>> /\ queue' = p
        /\ DOMAIN telling' = DOMAIN telling \cup {a} /\ telling'[a].report = r
        /\ \A b \in DOMAIN telling : b # a => telling'[b] = telling[b]
    BY <1>5, <2>1, <2>2 DEF StartsOld, Starts, Apart
  <2> QED
    BY <1>1, <1>3, <2>1, <2>2, <2>3, <2>4
<1>6. ASSUME NEW a \in DOMAIN telling, Telling(a), telling[a].next <= Len(errors), Called(a)
      PROVE  /\ ~again'
             /\ \A c \in told' : c[1].id <= made /\ \A i \in DOMAIN queue : queue[i].id # c[1].id
             /\ \A b \in DOMAIN telling : b # a /\ Telling(b) =>
                  \A c \in told' : c[1] = telling[b].report =>
                    \E k \in DOMAIN errors : k < telling[b].next /\ errors[k] = c[2]
             /\ \A c \in told' : c[1] = telling[a].report =>
                  \E k \in DOMAIN errors : k < telling[a].next + 1 /\ errors[k] = c[2]
  <2>1. PICK r \in Notes, n \in DOMAIN errors : r = telling[a].report /\ n = telling[a].next
    <3>1. telling[a].next \in DOMAIN errors
      BY <1>6 DEF TellTypes, Tellings, Telling
    <3> QED
      BY <1>1, <1>6, <3>1
  <2>2. told' = told \cup {<<r, errors[n]>>} /\ again' = (again \/ <<r, errors[n]>> \in told)
    BY <1>6, <2>1 DEF Called
  <2>3. <<r, errors[n]>> \notin told
    <3>1. \A k \in DOMAIN errors : k < n => errors[k] # errors[n]
      <4>1. \A k \in DOMAIN errors : k < n => k # n
        BY DEF TellTypes
      <4> QED
        BY <4>1 DEF HeardInv
    <3>2. \A c \in told : c[1] = r => \E k \in DOMAIN errors : k < n /\ errors[k] = c[2]
      BY <1>6, <2>1 DEF HeardInv
    <3> QED
      BY <3>1, <3>2
  <2>4. r.id <= made /\ \A i \in DOMAIN queue : queue[i].id # r.id
    BY <1>6, <2>1 DEF IdsInv
  <2>5. \A b \in DOMAIN telling : b # a /\ Telling(b) => telling[b].report # r
    BY <1>6, <2>1 DEF IdsInv
  <2>6. \A c \in told' : c \in told \/ (c[1] = r /\ c[2] = errors[n])
    BY <2>2
  <2>7. ASSUME NEW c \in told', c[1] = r
        PROVE  \E k \in DOMAIN errors : k < n + 1 /\ errors[k] = c[2]
    <3>1. CASE c \in told
      <4>1. PICK k \in DOMAIN errors : k < n /\ errors[k] = c[2]
        BY <1>6, <2>1, <2>7, <3>1 DEF HeardInv
      <4>2. k \in Nat /\ n \in Nat
        BY DEF TellTypes
      <4> QED
        BY <4>1, <4>2
    <3>2. CASE c[2] = errors[n]
      BY <3>2 DEF TellTypes
    <3> QED
      BY <2>6, <2>7, <3>1, <3>2
  <2>8. ~again'
    BY <2>2, <2>3 DEF HeardInv
  <2> QED
    BY <2>1, <2>4, <2>5, <2>6, <2>7, <2>8 DEF HeardInv
<1>7. ASSUME NEW a \in DOMAIN telling, Tell(a) PROVE HeardInv'
  <2>1. /\ telling' = [telling EXCEPT ![a].next = @ + 1] /\ Telling(a) /\ Called(a)
        /\ telling[a].next <= Len(errors) /\ UNCHANGED <<queue, made, errors>>
    BY <1>7 DEF Tell, TellOne, absorbing, registered
  <2>2. telling[a] \in Tellings
    BY <2>1 DEF TellTypes, Telling
  <2>3. /\ telling'[a].report = telling[a].report /\ telling'[a].next = telling[a].next + 1
        /\ DOMAIN telling' = DOMAIN telling
        /\ \A b \in DOMAIN telling : b # a => telling'[b] = telling[b]
    BY <2>1, <2>2 DEF Tellings
  <2>4. ASSUME NEW b \in DOMAIN telling, telling'[b] # NotTelling, NEW c \in told',
               c[1] = telling'[b].report
        PROVE  \E k \in DOMAIN errors : k < telling'[b].next /\ errors[k] = c[2]
    <3>1. CASE b = a
      BY <1>6, <2>1, <2>3, <2>4, <3>1
    <3>2. CASE b # a
      BY <1>6, <2>1, <2>3, <2>4, <3>2 DEF Telling
    <3> QED
      BY <3>1, <3>2
  <2>5. ~again' /\ \A c \in told' : /\ c[1].id <= made'
                                    /\ \A i \in DOMAIN queue' : queue'[i].id # c[1].id
    BY <1>6, <2>1
  <2> QED
    BY <2>1, <2>3, <2>4, <2>5 DEF HeardInv, Telling
<1>8. ASSUME NEW a \in DOMAIN telling,
             \/ telling' = [telling EXCEPT ![a] = NotTelling]
             \/ telling' = [b \in DOMAIN telling \ {a} |-> telling[b]]
      PROVE  \A b \in DOMAIN telling' : telling'[b] # NotTelling =>
                b \in DOMAIN telling /\ b # a /\ telling'[b] = telling[b]
  BY <1>8
<1>9. ASSUME NEW a \in DOMAIN telling, TellExits(a) PROVE HeardInv'
  <2>1. /\ Telling(a) /\ Called(a) /\ telling[a].next <= Len(errors)
        /\ UNCHANGED <<queue, made, errors>>
        /\ \/ telling' = [telling EXCEPT ![a] = NotTelling]
           \/ telling' = [b \in DOMAIN telling \ {a} |-> telling[b]]
    BY <1>9 DEF TellExits, absorbing, registered
  <2>2. ~again' /\ \A c \in told' : /\ c[1].id <= made'
                                   /\ \A i \in DOMAIN queue' : queue'[i].id # c[1].id
    BY <1>6, <2>1
  <2>3. ASSUME NEW b \in DOMAIN telling', telling'[b] # NotTelling, NEW c \in told',
               c[1] = telling'[b].report
        PROVE  \E k \in DOMAIN errors : k < telling'[b].next /\ errors[k] = c[2]
    <3>1. b \in DOMAIN telling /\ b # a /\ telling'[b] = telling[b]
      BY <1>8, <2>1, <2>3
    <3> QED
      BY <1>6, <2>1, <2>3, <3>1 DEF Telling
  <2> QED
    BY <2>1, <2>2, <2>3 DEF HeardInv, Telling
<1>10. ASSUME NEW a \in DOMAIN telling, Told(a) PROVE HeardInv'
  <2>1. /\ UNCHANGED <<queue, made, errors, told, again>>
        /\ \/ telling' = [telling EXCEPT ![a] = NotTelling]
           \/ telling' = [b \in DOMAIN telling \ {a} |-> telling[b]]
    BY <1>10 DEF Told, absorbing, registered
  <2>2. \A b \in DOMAIN telling' : telling'[b] # NotTelling =>
          b \in DOMAIN telling /\ telling'[b] = telling[b]
    BY <1>8, <2>1
  <2> QED
    BY <2>1, <2>2 DEF HeardInv, Telling
<1>11. CASE Same \/ Clears
  BY <1>11 DEF Same, Clears, Apart, HeardInv, Telling
<1>12. ASSUME NEW e \in ErrorHandlers, AddErrorHandler(e) PROVE HeardInv'
  <2>1. PICK es \in Seq(ErrorHandlers) : es = errors
    BY DEF TellTypes
  <2>2. /\ errors' = Append(es, e) /\ UNCHANGED <<queue, made, told, again, telling>>
        /\ \A i \in DOMAIN es : es[i] # e
    BY <1>12, <2>1 DEF AddErrorHandler, absorbing, history
  <2>3. PICK fs \in Seq(ErrorHandlers) :
           /\ fs = Append(es, e) /\ DOMAIN fs = 1 .. (Len(es) + 1) /\ fs[Len(es) + 1] = e
           /\ \A i \in 1 .. Len(es) : fs[i] = es[i]
    <3>1. /\ Append(es, e) \in Seq(ErrorHandlers)
          /\ DOMAIN Append(es, e) = 1 .. (Len(es) + 1) /\ Append(es, e)[Len(es) + 1] = e
          /\ \A i \in 1 .. Len(es) : Append(es, e)[i] = es[i]
      OBVIOUS
    <3> QED
      BY <3>1, Zenon
  <2>4. ASSUME NEW i \in DOMAIN fs, NEW j \in DOMAIN fs, i # j PROVE fs[i] # fs[j]
    <3>1. /\ i \in 1 .. Len(es) \/ i = Len(es) + 1
          /\ j \in 1 .. Len(es) \/ j = Len(es) + 1
      BY <2>3
    <3> QED
      BY <2>1, <2>2, <2>3, <2>4, <3>1 DEF HeardInv
  <2>5. \A k \in DOMAIN es : k \in DOMAIN fs /\ fs[k] = es[k]
    BY <2>3
  <2> QED
    BY <2>1, <2>2, <2>3, <2>4, <2>5 DEF HeardInv, Telling
<1> QED
  BY <1>2, <1>4, <1>5, <1>7, <1>9, <1>10, <1>11, <1>12, ReportSteps

\* A report is with an actor until it was told, or the call it is told in ends.
LEMMA TellKept == ASSUME DTypes, TellInv, Next PROVE TellInv'
<1> USE DEF DTypes
<1>1. /\ \A a \in DOMAIN telling : Telling(a) =>
           /\ telling[a] \in Tellings
           /\ DOMAIN telling[a] = {"report", "next"} /\ telling[a].next \in Nat
      /\ errors \in Seq(ErrorHandlers)
  BY DEF TellTypes, Tellings, Telling
<1>2. ASSUME NEW r, NEW a, Starts(a, r), failed' \subseteq failed \cup {r},
             UNCHANGED <<told, errors, ended>>
      PROVE  TellInv'
  <2>1. /\ DOMAIN telling' = DOMAIN telling \cup {a}
        /\ telling'[a].report = r /\ telling'[a].next = 1 /\ telling'[a] # NotTelling
        /\ \A b \in DOMAIN telling : b # a => telling'[b] = telling[b]
    BY <1>2 DEF Starts, NotTelling
  <2>2. ASSUME NEW b \in DOMAIN telling', telling'[b] # NotTelling, NEW k \in DOMAIN errors,
               k < telling'[b].next
        PROVE  <<telling'[b].report, errors[k]>> \in told
    <3>1. b # a
      BY <1>1, <2>1, <2>2
    <3> QED
      BY <2>1, <2>2, <3>1 DEF TellInv, Telling
  <2>3. ASSUME NEW f \in failed'
        PROVE  \/ \E b \in DOMAIN telling' : telling'[b] # NotTelling /\ telling'[b].report = f
               \/ \E x \in ended : x.report = f
    <3>1. CASE f = r
      BY <2>1, <3>1
    <3>2. CASE f \in failed
      <4>1. \A b \in DOMAIN telling : Telling(b) => b # a
        BY <1>2 DEF Starts
      <4> QED
        BY <2>1, <3>2, <4>1 DEF TellInv, Telling
    <3> QED
      BY <1>2, <3>1, <3>2
  <2>4. \A b \in DOMAIN telling' : telling'[b] # NotTelling => telling'[b].next <= Len(errors) + 1
    <3>1. Len(errors) \in Nat
      BY <1>1
    <3> QED
      BY <2>1, <3>1 DEF TellInv, Telling
  <2> QED
    BY <1>2, <2>2, <2>3, <2>4 DEF TellInv, Telling
<1>3. ASSUME NEW r \in Notes, NEW a, StartsNew(a, r) PROVE TellInv'
  BY <1>2, <1>3 DEF StartsNew, Apart
<1>4. ASSUME NEW a, StartsOld(a) PROVE TellInv'
  BY <1>2, <1>4 DEF StartsOld, Apart
<1>5. ASSUME NEW a \in DOMAIN telling, Tell(a) PROVE TellInv'
  <2>1. /\ telling' = [telling EXCEPT ![a].next = @ + 1] /\ Telling(a)
        /\ told' = told \cup {<<telling[a].report, errors[telling[a].next]>>}
        /\ UNCHANGED <<errors, ended, failed>>
    BY <1>5 DEF Tell, TellOne, Called, registered, heard
  <2>2. /\ telling'[a].report = telling[a].report /\ telling'[a].next = telling[a].next + 1
        /\ DOMAIN telling' = DOMAIN telling /\ telling'[a] # NotTelling
        /\ \A b \in DOMAIN telling : b # a => telling'[b] = telling[b]
    BY <1>1, <2>1 DEF NotTelling
  <2>3. ASSUME NEW b \in DOMAIN telling, telling'[b] # NotTelling, NEW k \in DOMAIN errors,
               k < telling'[b].next
        PROVE  <<telling'[b].report, errors[k]>> \in told'
    <3>1. CASE b # a
      BY <2>1, <2>2, <2>3, <3>1 DEF TellInv, Telling
    <3>2. CASE b = a
      <4>1. k < telling[a].next \/ k = telling[a].next
        BY <1>1, <2>1, <2>2, <2>3, <3>2
      <4> QED
        BY <2>1, <2>2, <3>2, <4>1 DEF TellInv
    <3> QED
      BY <3>1, <3>2
  <2>4. \A f \in failed :
           \/ \E b \in DOMAIN telling' : telling'[b] # NotTelling /\ telling'[b].report = f
           \/ \E x \in ended : x.report = f
    BY <2>2 DEF TellInv, Telling
  <2>5. \A x \in ended : \A e \in x.owed : <<x.report, e>> \in told'
    BY <2>1 DEF TellInv
  <2>6. telling[a].next <= Len(errors)
    BY <1>5 DEF Tell
  <2>7. \A b \in DOMAIN telling : telling'[b] # NotTelling => telling'[b].next <= Len(errors) + 1
    <3>1. telling'[a].next <= Len(errors) + 1
      BY <1>1, <2>1, <2>2, <2>6
    <3> QED
      BY <2>2, <3>1 DEF TellInv, Telling
  <2> QED
    BY <2>1, <2>2, <2>3, <2>4, <2>5, <2>7 DEF TellInv, Telling
<1>6. ASSUME NEW a \in DOMAIN telling, NEW x, UNCHANGED <<errors, failed>>,
             \/ telling' = [telling EXCEPT ![a] = NotTelling]
             \/ telling' = [b \in DOMAIN telling \ {a} |-> telling[b]],
             told \subseteq told', ended' = ended \cup {x}, x.report = telling[a].report,
             \A e \in x.owed : <<x.report, e>> \in told'
      PROVE  TellInv'
  <2>1. /\ \A b \in DOMAIN telling' : telling'[b] # NotTelling =>
             b \in DOMAIN telling /\ b # a /\ telling'[b] = telling[b]
        /\ \A b \in DOMAIN telling : b # a => b \in DOMAIN telling' /\ telling'[b] = telling[b]
    BY <1>6
  <2>2. ASSUME NEW f \in failed
        PROVE  \/ \E b \in DOMAIN telling' : telling'[b] # NotTelling /\ telling'[b].report = f
               \/ \E y \in ended' : y.report = f
    BY <1>6, <2>1 DEF TellInv, Telling
  <2>3. \A y \in ended' : \A e \in y.owed : <<y.report, e>> \in told'
    BY <1>6 DEF TellInv
  <2>4. ASSUME NEW b \in DOMAIN telling', telling'[b] # NotTelling, NEW k \in DOMAIN errors,
               k < telling'[b].next
        PROVE  <<telling'[b].report, errors[k]>> \in told'
    BY <1>6, <2>1, <2>4 DEF TellInv, Telling
  <2>5. \A b \in DOMAIN telling' : telling'[b] # NotTelling => telling'[b].next <= Len(errors) + 1
    BY <2>1 DEF TellInv, Telling
  <2> QED
    BY <1>6, <2>2, <2>3, <2>4, <2>5 DEF TellInv, Telling
<1>7. ASSUME NEW a \in DOMAIN telling, Told(a) PROVE TellInv'
  <2>0. PICK x : x = [report |-> telling[a].report, owed |-> ToSet(errors)]
    OBVIOUS
  <2>1. /\ x = [report |-> telling[a].report, owed |-> ToSet(errors)]
        /\ x.report = telling[a].report /\ x.owed = ToSet(errors)
    BY <2>0
  <2>2. /\ UNCHANGED <<errors, failed, told>> /\ ended' = ended \cup {x}
        /\ Telling(a) /\ telling[a].next > Len(errors)
        /\ \/ telling' = [telling EXCEPT ![a] = NotTelling]
           \/ telling' = [b \in DOMAIN telling \ {a} |-> telling[b]]
    BY <1>7, <2>1 DEF Told, registered, heard
  <2>3. ASSUME NEW e \in ToSet(errors) PROVE <<telling[a].report, e>> \in told
    <3>1. PICK k \in DOMAIN errors : e = errors[k]
      BY DEF ToSet
    <3>2. k < telling[a].next
      BY <1>1, <2>2
    <3> QED
      BY <2>2, <3>1, <3>2 DEF TellInv
  <2>4. \A e \in x.owed : <<x.report, e>> \in told'
    BY <2>1, <2>2, <2>3
  <2>5. told \subseteq told' /\ UNCHANGED <<errors, failed>>
    BY <2>2
  <2> HIDE <1>7
  <2> QED
    BY <1>6, <2>1, <2>2, <2>4, <2>5
<1>8. ASSUME NEW a \in DOMAIN telling, TellExits(a) PROVE TellInv'
  <2>0. PICK x : x = [report |-> telling[a].report, owed |-> {}]
    OBVIOUS
  <2>1. /\ x = [report |-> telling[a].report, owed |-> {}]
        /\ x.report = telling[a].report /\ x.owed = {}
    BY <2>0
  <2>2. /\ UNCHANGED <<errors, failed>> /\ ended' = ended \cup {x} /\ told \subseteq told'
        /\ \/ telling' = [telling EXCEPT ![a] = NotTelling]
           \/ telling' = [b \in DOMAIN telling \ {a} |-> telling[b]]
    BY <1>8, <2>1 DEF TellExits, Called, registered
  <2>3. \A e \in x.owed : <<x.report, e>> \in told'
    BY <2>1
  <2> QED
    BY <1>6, <2>1, <2>2, <2>3
<1>9. CASE Same \/ Clears \/ \E r \in Notes : Queues(r)
  BY <1>9 DEF Same, Clears, Queues, Apart, TellInv, Telling
<1>10. ASSUME NEW e \in ErrorHandlers, AddErrorHandler(e) PROVE TellInv'
  <2>1. PICK es \in Seq(ErrorHandlers) : es = errors
    BY <1>1
  <2>2. /\ errors' = Append(es, e) /\ UNCHANGED <<failed, told, ended, telling>>
    BY <1>10, <2>1 DEF AddErrorHandler, heard, history
  <2>3. PICK fs \in Seq(ErrorHandlers) :
           /\ fs = Append(es, e) /\ Len(fs) = Len(es) + 1
           /\ \A i \in 1 .. Len(es) : fs[i] = es[i]
    <3>1. /\ Append(es, e) \in Seq(ErrorHandlers) /\ Len(Append(es, e)) = Len(es) + 1
          /\ \A i \in 1 .. Len(es) : Append(es, e)[i] = es[i]
      OBVIOUS
    <3> QED
      BY <3>1, Zenon
  <2>4. ASSUME NEW a \in DOMAIN telling, Telling(a)
        PROVE  /\ telling[a].next <= Len(fs) + 1
               /\ \A k \in DOMAIN fs :
                    k < telling[a].next => <<telling[a].report, fs[k]>> \in told
    <3>1. telling[a].next <= Len(es) + 1 /\ telling[a].next \in Nat
      BY <1>1, <2>1, <2>4 DEF TellInv
    <3>2. ASSUME NEW k \in DOMAIN fs, k < telling[a].next
          PROVE  <<telling[a].report, fs[k]>> \in told
      <4>1. k \in DOMAIN es
        BY <2>3, <3>1, <3>2
      <4> QED
        BY <2>1, <2>3, <2>4, <3>2, <4>1 DEF TellInv
    <3> QED
      BY <2>3, <3>1, <3>2
  <2> QED
    BY <2>2, <2>3, <2>4 DEF TellInv, Telling
<1> QED
  BY <1>3, <1>4, <1>5, <1>7, <1>8, <1>9, <1>10, ReportSteps

\* The client holds the tasks that run, and no others.
LEMMA HeldKept == ASSUME held = tasks, Next PROVE held' = tasks'
<1> USE DEF session, absorbing, registered, heard, history, extra, work
<1>1. ASSUME NEW a, Tell(a) \/ Told(a) \/ TellExits(a) PROVE held' = tasks'
  BY <1>1 DEF Tell, Told, TellExits
<1>2. ASSUME NEW h, AddHandler(h) \/ AddErrorHandler(h) \/ Read(h) \/ TaskEnds(h)
                    \/ TaskFails(h) \/ DrainOne(h)
      PROVE  held' = tasks'
  BY <1>2 DEF AddHandler, AddErrorHandler, Read, TaskEnds, TaskFails, DrainOne
<1>3. CASE CallHandle \/ Drained \/ NotOpen \/ ReadLost \/ AnyEnds \/ ReadAnswer
           \/ AnyReads \/ Close \/ Login
  BY <1>3 DEF CallHandle, Drained, NotOpen, ReadLost, AnyEnds, RequestEnds, ReadAnswer,
              AnyReads, RequestReads, Close, Login
<1>4. CASE FrameDone \/ SkipItem \/ EndDispatch \/ AbsorbItem \/ DispatchAbsorbs
           \/ RelabelFails \/ ReportRejection \/ StartDispatch
  BY <1>4 DEF FrameDone, SkipItem, EndDispatch, AbsorbItem, DispatchAbsorbs,
              RelabelFails, ReportRejection, StartDispatch
<1>5. CASE HandlerReturns \/ HandlerRaises \/ HandlerExits \/ HandlerIsCoroutine
  BY <1>5 DEF HandlerReturns, HandlerRaises, HandlerExits, HandlerIsCoroutine
<1> QED
  BY <1>1, <1>2, <1>3, <1>4, <1>5
     DEF Next, Frame, Dispatch, Drainers, AnyReads, AnyEnds
-----------------------------------------------------------------------------
(* What a step does to the reader and to the calls. *)

\* The reader stays where it is in its frame, or goes to the next handler.
StaysAt(n) ==
    /\ reader.at = "frame" /\ reader'.at = "frame" /\ reader'.next = n
    /\ reader'.frame = reader.frame /\ reader'.work = reader.work
    /\ reader'.item = reader.item

\* It is in no frame afterwards; in an item of a frame no handler awaits it.
Leaves == reader'.at # "frame" /\ reader'.frame = reader.frame
NothingAhead == \A c : ~Ahead(c)
GoesOn ==
    /\ reader.at = "frame" /\ reader'.at = "frame" /\ reader'.frame = reader.frame
    /\ reader'.item = reader.item + 1 /\ NothingAhead
OpensFrame ==
    /\ reader.at # "frame" /\ reader'.at = "frame" /\ reader'.frame = reader.frame + 1
    /\ reader'.item > 0

\* A handler of the item is called.
Calling ==
    /\ Hears /\ calls' = Append(calls, Call(Handler)) /\ UNCHANGED handlers

\* Every step is one of these, as far as the reader and the calls are concerned.
LEMMA ReaderSteps ==
    ASSUME DTypes, Next
    PROVE  \/ UNCHANGED <<handlers, calls, owed>> /\ UNCHANGED reader
           \/ UNCHANGED <<handlers, calls, owed>> /\ Leaves /\ NothingAhead
           \/ UNCHANGED <<handlers, calls, owed>> /\ StaysAt(reader.next)
           \/ UNCHANGED <<handlers, calls, owed>> /\ GoesOn
           \/ UNCHANGED <<handlers, calls, owed>> /\ OpensFrame
           \/ /\ UNCHANGED <<handlers, calls, owed>>
              /\ Dispatching /\ ~Relabels /\ StaysAt(reader.next + 1)
           \/ StartDispatch /\ StaysAt(1) /\ UNCHANGED <<handlers, calls>>
           \/ UNCHANGED owed /\ Calling /\ StaysAt(reader.next + 1)
           \/ owed' = ToSet(calls') /\ Calling /\ Leaves
           \/ owed' = ToSet(calls) /\ UNCHANGED <<handlers, calls>> /\ Leaves
           \/ \E h \in Handlers : AddHandler(h)
<1> USE DEF session, absorbing, registered, heard, history, extra, work
<1> DEFINE Keep == UNCHANGED <<handlers, calls, owed>>
<1>1. DOMAIN reader = DOMAIN Idle
  BY DEF DTypes, ReaderTypes
<1>2. \A result : Return(result) => Leaves
  BY DEF Return, Idle, Leaves
<1>3. CASE NotOpen \/ ReadLost \/ Drained
  <2>1. NothingAhead
    BY <1>3 DEF NotOpen, ReadLost, Drained, NothingAhead, Ahead
  <2>2. ASSUME reader' = [reader EXCEPT !.at = "reading"] PROVE Leaves
    BY <1>1, <2>2 DEF Leaves, Idle
  <2>3. Leaves
    BY <1>2, <1>3, <2>2 DEF NotOpen, ReadLost, Drained
  <2> QED
    BY <1>3, <2>1, <2>3 DEF NotOpen, ReadLost, Drained
<1>4. CASE FrameDone
  <2>1. NothingAhead
    BY <1>4 DEF FrameDone, NothingAhead, Ahead, DTypes, ReaderTypes
  <2> QED
    BY <1>2, <1>4, <2>1 DEF FrameDone
<1>5. CASE CallHandle \/ ReadAnswer
  <2>1. NothingAhead
    BY <1>5 DEF CallHandle, ReadAnswer, NothingAhead, Ahead
  <2>2. Leaves
    BY <1>1, <1>5 DEF CallHandle, ReadAnswer, Leaves, Idle
  <2> QED
    BY <1>5, <2>1, <2>2 DEF CallHandle, ReadAnswer
<1>6. ASSUME NEW frame, Read(frame) PROVE Keep /\ OpensFrame
  BY <1>1, <1>6 DEF Read, OpensFrame, Idle
<1>7. ASSUME reader' = NextItem, reader.at = "frame", NothingAhead PROVE GoesOn
  BY <1>1, <1>7 DEF NextItem, GoesOn, Idle
<1>8. CASE AbsorbItem \/ SkipItem \/ ReportRejection
  <2>1. NothingAhead
    BY <1>8 DEF AbsorbItem, SkipItem, ReportRejection, NothingAhead, Ahead
  <2> QED
    BY <1>7, <1>8, <2>1 DEF AbsorbItem, SkipItem, ReportRejection, HasItem, AtWork
<1>9. CASE DispatchAbsorbs
  <2>1. Hearers = <<>>
    BY <1>9 DEF DispatchAbsorbs, Hearers
  <2>2. NothingAhead
    BY <2>1 DEF NothingAhead, Ahead
  <2> QED
    BY <1>7, <1>9, <2>2 DEF DispatchAbsorbs, HasItem, AtWork
<1>10. CASE EndDispatch
  <2>1. Hearers \in Seq(Handlers) /\ reader.next > Len(Hearers) /\ reader.next \in Nat
    BY <1>10, HandlerType DEF EndDispatch, DTypes, ReaderTypes
  <2>2. \A k \in DOMAIN Hearers : ~(k >= reader.next)
    BY <2>1
  <2>3. NothingAhead
    BY <2>2 DEF NothingAhead, Ahead
  <2> QED
    BY <1>7, <1>10, <2>3 DEF EndDispatch, Dispatching, HasItem, AtWork
<1>11. ASSUME reader.at = "frame",
              \/ reader' = [reader EXCEPT !.next = @ + 1]
              \/ reader' = [reader EXCEPT !.next = @ + 1, !.spoiled = TRUE]
       PROVE  StaysAt(reader.next + 1)
  BY <1>1, <1>11 DEF StaysAt, Idle
<1>12. CASE RelabelFails
  BY <1>11, <1>12 DEF RelabelFails, Dispatching, HasItem, AtWork
<1>13. CASE StartDispatch
  <2>1. StaysAt(1)
    BY <1>1, <1>13 DEF StartDispatch, HasItem, AtWork, StaysAt, Idle
  <2> QED
    BY <1>13, <2>1 DEF StartDispatch
<1>14. CASE HandlerReturns \/ HandlerRaises \/ HandlerIsCoroutine
  <2>1. Calling /\ UNCHANGED owed
    BY <1>14 DEF HandlerReturns, HandlerRaises, HandlerIsCoroutine, Calling
  <2>2. StaysAt(reader.next + 1)
    BY <1>11, <1>14, <2>1 DEF HandlerReturns, HandlerRaises, HandlerIsCoroutine, Calling,
                              Hears, Dispatching, HasItem, AtWork
  <2> QED
    BY <2>1, <2>2
<1>15. CASE HandlerExits
  BY <1>2, <1>15 DEF HandlerExits, Calling
<1>16. ASSUME NEW a, TellExits(a)
       PROVE  \/ Keep /\ UNCHANGED reader
              \/ owed' = ToSet(calls) /\ UNCHANGED <<handlers, calls>> /\ Leaves
  <2>1. CASE a = Reader
    BY <1>16, <2>1 DEF TellExits, Leaves, Idle
  <2>2. CASE a # Reader
    BY <1>16, <2>2 DEF TellExits
  <2> QED
    BY <2>1, <2>2
<1>17. ASSUME Close
       PROVE  \/ Keep /\ Leaves /\ NothingAhead
              \/ Keep /\ StaysAt(reader.next)
  <2>1. Keep /\ reader' = [reader EXCEPT !.closedAt = reader.at]
    BY <1>17 DEF Close
  <2>2. CASE reader.at = "frame"
    BY <1>1, <2>1, <2>2 DEF StaysAt, Idle
  <2>3. CASE reader.at # "frame"
    <3>1. NothingAhead
      BY <2>3 DEF NothingAhead, Ahead
    <3> QED
      BY <1>1, <2>1, <2>3, <3>1 DEF Leaves, Idle
  <2> QED
    BY <2>2, <2>3
<1>18. CASE Login
  BY <1>18 DEF Login
<1>19. ASSUME NEW h, AddErrorHandler(h) \/ TaskEnds(h) \/ TaskFails(h) \/ DrainOne(h)
                     \/ Tell(h) \/ Told(h)
       PROVE  Keep /\ UNCHANGED reader
  BY <1>19 DEF AddErrorHandler, TaskEnds, TaskFails, DrainOne, Tell, Told
<1>20. CASE AnyReads \/ AnyEnds
  BY <1>20 DEF AnyReads, RequestReads, AnyEnds, RequestEnds
<1> QED
  BY <1>3, <1>4, <1>5, <1>6, <1>8, <1>9, <1>10, <1>12, <1>13, <1>14, <1>15, <1>16, <1>17,
     <1>18, <1>19, <1>20 DEF Next, Frame, Dispatch, Drainers, AnyReads, AnyEnds

\* An item stays what it is while the reader stays there.
LEMMA SamePlace ==
    ASSUME NEW n, StaysAt(n), UNCHANGED handlers
    PROVE  Item' = Item /\ Hearers' = Hearers /\ Relabels' = Relabels
BY DEF StaysAt, Item, Hearers, Relabels, MustRelabel

\* The order of two calls is what it was, while no handler is registered.
LEMMA SameOrder ==
    ASSUME UNCHANGED handlers, NEW c, NEW d
    PROVE  Before(c, d)' <=> Before(c, d)
BY DEF Before

\* A call lies behind the reader that leaves its frame, or goes on in it.
LEMMA BehindKept ==
    ASSUME DTypes, UNCHANGED handlers, NEW c \in CallSet, Behind(c),
           \/ Leaves \/ GoesOn \/ OpensFrame
           \/ \E n \in Nat : StaysAt(n) /\ n >= reader.next
    PROVE  Behind(c)'
<1>1. /\ c.frame \in Nat /\ c.item \in Nat /\ reader.frame \in Nat
      /\ reader.item \in Nat /\ reader.next \in Nat
  BY DEF CallSet, DTypes, ReaderTypes
<1>2. CASE Leaves
  BY <1>1, <1>2 DEF Leaves, Behind
<1>3. CASE GoesOn
  BY <1>1, <1>3 DEF GoesOn, Behind
<1>4. CASE OpensFrame
  BY <1>1, <1>4 DEF OpensFrame, Behind
<1>5. ASSUME NEW n \in Nat, StaysAt(n), n >= reader.next PROVE Behind(c)'
  <2>1. Item' = Item /\ Hearers' = Hearers
    BY <1>5, SamePlace
  <2>2. /\ reader'.at = "frame" /\ reader.at = "frame" /\ reader'.frame = reader.frame
        /\ reader'.item = reader.item /\ reader'.next = n /\ reader'.work = reader.work
    BY <1>5 DEF StaysAt
  <2>3. ASSUME c.frame = reader.frame
        PROVE  /\ c.item <= reader.item
               /\ c.item = reader.item =>
                    /\ n > 0 /\ reader.item <= Len(reader.work)
                    /\ Item.do = "message"
                    /\ \E k \in DOMAIN Hearers : k < n /\ Hearers[k] = c.handler
    <3>1. ASSUME c.item = reader.item
          PROVE  /\ n > 0 /\ reader.item <= Len(reader.work) /\ Item.do = "message"
                 /\ \E k \in DOMAIN Hearers : k < n /\ Hearers[k] = c.handler
      <4>1. reader.next > 0 /\ reader.item <= Len(reader.work) /\ Item.do = "message"
        BY <2>2, <2>3, <3>1 DEF Behind
      <4>2. PICK k \in DOMAIN Hearers : k < reader.next /\ Hearers[k] = c.handler
        BY <2>2, <2>3, <3>1 DEF Behind
      <4>3. k \in Nat
        BY HearersType
      <4> QED
        BY <1>1, <1>5, <4>1, <4>2, <4>3
    <3> QED
      BY <2>2, <2>3, <3>1 DEF Behind
  <2>4. c.frame <= reader.frame
    BY DEF Behind
  <2> QED
    BY <2>1, <2>2, <2>3, <2>4 DEF Behind
<1> QED
  BY <1>2, <1>3, <1>4, <1>5

\* A call that is made comes after those behind the reader, and lies behind it then.
LEMMA CallMade ==
    ASSUME DTypes, HandlersOnce, Calling, NEW n, StaysAt(n) \/ Leaves, n = reader.next + 1
    PROVE  \E d \in CallSet :
             /\ d = Call(Handler) /\ Behind(d)'
             /\ \A c \in CallSet : Behind(c) => Before(c, d)
<1>1. /\ Hearers \in Seq(Handlers) /\ reader.next \in DOMAIN Hearers
      /\ reader.next \in Nat \ {0} /\ Call(Handler) \in CallSet
      /\ Handler = Hearers[reader.next]
  BY HandlerType DEF Calling, Hears, Dispatching, DTypes, ReaderTypes, Handler
<1>2. /\ reader.at = "frame" /\ reader.item <= Len(reader.work) /\ Item.do = "message"
      /\ reader.item \in Nat /\ reader.frame \in Nat
  BY DEF Calling, Hears, Dispatching, HasItem, AtWork, DTypes, ReaderTypes
<1>3. PICK d \in CallSet : /\ d = Call(Handler) /\ d.frame = reader.frame
                           /\ d.item = reader.item /\ d.handler = Handler
  BY <1>1 DEF Call
<1>4. PICK s \in Services : s = Item.element.service /\ Hearers = handlers[s]
  BY <1>1 DEF Hearers
<1>5. ASSUME NEW c \in CallSet, Behind(c) PROVE Before(c, d)
  <2>1. c.frame \in Nat /\ c.item \in Nat
    BY DEF CallSet
  <2>2. CASE c.frame # reader.frame
    BY <1>2, <1>3, <1>5, <2>1, <2>2 DEF Behind, Before
  <2>3. CASE c.frame = reader.frame /\ c.item # reader.item
    BY <1>2, <1>3, <1>5, <2>1, <2>3 DEF Behind, Before
  <2>4. CASE c.frame = reader.frame /\ c.item = reader.item
    <3>1. PICK k \in DOMAIN Hearers : k < reader.next /\ Hearers[k] = c.handler
      BY <1>2, <1>5, <2>4 DEF Behind
    <3>2. ServiceOf[c.handler] = s /\ ServiceOf[d.handler] = s
      BY <1>1, <1>3, <1>4, <3>1 DEF HandlersOnce
    <3>3. \E i, j \in DOMAIN handlers[s] :
             i < j /\ handlers[s][i] = c.handler /\ handlers[s][j] = d.handler
      BY <1>1, <1>3, <1>4, <3>1
    <3> QED
      BY <1>3, <2>4, <3>2, <3>3 DEF Before
  <2> QED
    BY <2>2, <2>3, <2>4
<1>6. Behind(d)'
  <2>1. CASE Leaves
    BY <1>2, <1>3, <2>1 DEF Leaves, Behind
  <2>2. CASE StaysAt(n)
    <3>1. Item' = Item /\ Hearers' = Hearers
      BY <2>2, SamePlace DEF Calling
    <3>2. /\ reader'.at = "frame" /\ reader'.frame = reader.frame
          /\ reader'.item = reader.item /\ reader'.next = n /\ reader'.work = reader.work
      BY <2>2 DEF StaysAt
    <3>3. reader.next < n /\ n > 0
      BY <1>1
    <3>4. \E k \in DOMAIN Hearers : k < n /\ Hearers[k] = d.handler
      BY <1>1, <1>3, <3>3
    <3> QED
      BY <1>2, <1>3, <3>1, <3>2, <3>3, <3>4 DEF Behind
  <2> QED
    BY <2>1, <2>2
<1> QED
  BY <1>3, <1>5, <1>6

\* The order of calls holds for one more that comes after them all.
LEMMA OrderGrows ==
    ASSUME NEW cs \in Seq(CallSet), NEW d \in CallSet, UNCHANGED handlers,
           \A i, j \in DOMAIN cs : i < j => Before(cs[i], cs[j]),
           \A i \in DOMAIN cs : Behind(cs[i])' /\ Before(cs[i], d),
           Behind(d)', calls' = Append(cs, d)
    PROVE  \E ds \in Seq(CallSet) :
             /\ calls' = ds /\ ToSet(ds) = ToSet(cs) \cup {d}
             /\ \A i \in DOMAIN ds : Behind(ds[i])'
             /\ \A i, j \in DOMAIN ds : i < j => Before(ds[i], ds[j])
<1>1. PICK ds \in Seq(CallSet) :
         /\ ds = Append(cs, d) /\ DOMAIN ds = 1 .. (Len(cs) + 1) /\ ds[Len(cs) + 1] = d
         /\ \A i \in 1 .. Len(cs) : ds[i] = cs[i]
  <2>1. /\ Append(cs, d) \in Seq(CallSet)
        /\ DOMAIN Append(cs, d) = 1 .. (Len(cs) + 1) /\ Append(cs, d)[Len(cs) + 1] = d
        /\ \A i \in 1 .. Len(cs) : Append(cs, d)[i] = cs[i]
    OBVIOUS
  <2> QED
    BY <2>1, Zenon
<1>2. \A i \in DOMAIN ds : i \in 1 .. Len(cs) \/ i = Len(cs) + 1
  BY <1>1
<1>3. \A i \in DOMAIN ds : Behind(ds[i])'
  BY <1>1, <1>2
<1>4. ASSUME NEW i \in DOMAIN ds, NEW j \in DOMAIN ds, i < j PROVE Before(ds[i], ds[j])
  <2>1. i \in 1 .. Len(cs)
    BY <1>1, <1>4
  <2> QED
    BY <1>1, <1>2, <1>4, <2>1
<1>5. ToSet(ds) = ToSet(cs) \cup {d}
  <2>1. Len(cs) + 1 \in DOMAIN ds /\ \A i \in DOMAIN cs : i \in DOMAIN ds /\ ds[i] = cs[i]
    BY <1>1
  <2> QED
    BY <1>1, <1>2, <2>1 DEF ToSet
<1> QED
  BY <1>1, <1>3, <1>4, <1>5

\* No handler is called before those that stand before it, nor twice.
LEMMA CallsKept == ASSUME DTypes, CallsInv, Next PROVE CallsInv'
<1>1. PICK cs \in Seq(CallSet) : cs = calls
  BY DEF DTypes, CallTypes
<1>2. /\ HandlersOnce /\ \A i \in DOMAIN cs : cs[i] \in CallSet /\ Behind(cs[i])
      /\ \A i, j \in DOMAIN cs : i < j => Before(cs[i], cs[j])
      /\ \A c \in owed \ ToSet(cs) : Ahead(c)
  BY <1>1 DEF CallsInv
<1>3. ASSUME UNCHANGED <<handlers, calls>>,
             \/ Leaves \/ GoesOn \/ OpensFrame
             \/ \E n \in Nat : StaysAt(n) /\ n >= reader.next,
             \A c \in owed' \ ToSet(cs) : Ahead(c)'
      PROVE  CallsInv'
  <2>1. \A i \in DOMAIN cs : Behind(cs[i])'
    BY <1>2, <1>3, BehindKept
  <2>2. \A i \in DOMAIN cs : \A j \in DOMAIN cs : i < j => Before(cs[i], cs[j])'
    BY <1>2, <1>3, SameOrder
  <2>3. HandlersOnce'
    BY <1>2, <1>3 DEF HandlersOnce
  <2>4. (\A i \in DOMAIN calls : Behind(calls[i]))'
    BY <1>1, <1>3, <2>1 DEF Behind
  <2>5. (\A i, j \in DOMAIN calls : i < j => Before(calls[i], calls[j]))'
    BY <1>1, <1>3, <2>2 DEF Before
  <2>6. (\A c \in owed \ ToSet(calls) : Ahead(c))'
    BY <1>1, <1>3
  <2> QED
    BY <2>3, <2>4, <2>5, <2>6 DEF CallsInv
<1>4. ASSUME NothingAhead PROVE owed \subseteq ToSet(cs)
  BY <1>2, <1>4 DEF NothingAhead
<1>5. CASE UNCHANGED <<handlers, calls, owed>> /\ UNCHANGED reader
  BY <1>5 DEF CallsInv, HandlersOnce, Behind, Before, Ahead, Item, Hearers, Relabels, MustRelabel
<1>6. CASE UNCHANGED <<handlers, calls, owed>> /\ Leaves /\ NothingAhead
  BY <1>3, <1>4, <1>6
<1>7. CASE UNCHANGED <<handlers, calls, owed>> /\ StaysAt(reader.next)
  <2>1. reader.next \in Nat
    BY DEF DTypes, ReaderTypes
  <2>2. \A c : Ahead(c) => Ahead(c)'
    BY <1>7, SamePlace DEF StaysAt, Ahead
  <2> QED
    BY <1>2, <1>3, <1>7, <2>1, <2>2
<1>8. CASE UNCHANGED <<handlers, calls, owed>> /\ GoesOn
  BY <1>3, <1>4, <1>8 DEF GoesOn
<1>9. CASE UNCHANGED <<handlers, calls, owed>> /\ OpensFrame
  <2>1. NothingAhead
    BY <1>9 DEF OpensFrame, NothingAhead, Ahead
  <2> QED
    BY <1>3, <1>4, <1>9, <2>1
<1>10. CASE /\ UNCHANGED <<handlers, calls, owed>>
            /\ Dispatching /\ ~Relabels /\ StaysAt(reader.next + 1)
  <2>1. NothingAhead
    BY <1>10 DEF NothingAhead, Ahead
  <2>2. reader.next \in Nat /\ reader.next + 1 \in Nat /\ reader.next + 1 >= reader.next
    BY DEF DTypes, ReaderTypes
  <2> QED
    BY <1>3, <1>4, <1>10, <2>1, <2>2
<1>11. CASE StartDispatch /\ StaysAt(1) /\ UNCHANGED <<handlers, calls>>
  <2>1. /\ reader.next = 0 /\ reader.item <= Len(reader.work) /\ Item.do = "message"
        /\ owed' = IF Relabels THEN owed \cup {Call(h) : h \in ToSet(Hearers)} ELSE owed
    BY <1>11 DEF StartDispatch, HasItem
  <2>2. NothingAhead
    BY <2>1 DEF NothingAhead, Ahead
  <2>3. Item' = Item /\ Hearers' = Hearers /\ Relabels' = Relabels
    BY <1>11, SamePlace
  <2>4. ASSUME Relabels, NEW h \in ToSet(Hearers), NEW c, c = Call(h) PROVE Ahead(c)'
    <3>1. PICK k \in DOMAIN Hearers : Hearers[k] = h
      BY DEF ToSet
    <3>2. k \in Nat /\ k >= 1
      BY HearersType
    <3>3. c.frame = reader.frame /\ c.item = reader.item /\ c.handler = h
      BY <2>4 DEF Call
    <3>4. /\ reader'.at = "frame" /\ reader'.frame = reader.frame
          /\ reader'.item = reader.item /\ reader'.next = 1 /\ reader'.work = reader.work
      BY <1>11 DEF StaysAt
    <3> QED
      BY <2>1, <2>3, <2>4, <3>1, <3>2, <3>3, <3>4 DEF Ahead
  <2>5. \A c \in owed' \ ToSet(cs) : Ahead(c)'
    BY <1>4, <2>1, <2>2, <2>4
  <2> QED
    BY <1>3, <1>11, <2>1, <2>5
<1>12. ASSUME Calling, NEW n, StaysAt(n) \/ Leaves, n = reader.next + 1,
              NEW d \in CallSet, d = Call(Handler), Behind(d)',
              \A c \in CallSet : Behind(c) => Before(c, d),
              \A c \in owed' \ (ToSet(cs) \cup {d}) : Ahead(c)'
       PROVE  CallsInv'
  <2>1. calls' = Append(cs, d) /\ UNCHANGED handlers
    BY <1>1, <1>12 DEF Calling
  <2>2. n \in Nat /\ n >= reader.next
    BY <1>12 DEF DTypes, ReaderTypes
  <2>3. \A i \in DOMAIN cs : Behind(cs[i])' /\ Before(cs[i], d)
    BY <1>2, <1>12, <2>1, <2>2, BehindKept
  <2>4. PICK ds \in Seq(CallSet) :
             /\ calls' = ds /\ ToSet(ds) = ToSet(cs) \cup {d}
             /\ \A i \in DOMAIN ds : Behind(ds[i])'
             /\ \A i, j \in DOMAIN ds : i < j => Before(ds[i], ds[j])
    BY <1>2, <1>12, <2>1, <2>3, OrderGrows
  <2>5. HandlersOnce'
    BY <1>2, <2>1 DEF HandlersOnce
  <2>6. (\A i \in DOMAIN calls : Behind(calls[i]))'
    BY <2>4 DEF Behind
  <2>7. (\A i, j \in DOMAIN calls : i < j => Before(calls[i], calls[j]))'
    BY <2>1, <2>4 DEF Before
  <2>8. (\A c \in owed \ ToSet(calls) : Ahead(c))'
    BY <1>12, <2>4
  <2> QED
    BY <2>5, <2>6, <2>7, <2>8 DEF CallsInv
<1>13. CASE UNCHANGED owed /\ Calling /\ StaysAt(reader.next + 1)
  <2>1. PICK n : n = reader.next + 1
    OBVIOUS
  <2>2. PICK d \in CallSet : /\ d = Call(Handler) /\ Behind(d)'
                             /\ \A c \in CallSet : Behind(c) => Before(c, d)
    BY <1>2, <1>13, <2>1, CallMade
  <2>3. Item' = Item /\ Hearers' = Hearers /\ Relabels' = Relabels
    BY <1>13, SamePlace DEF Calling
  <2>4. /\ reader'.at = "frame" /\ reader'.frame = reader.frame
        /\ reader'.item = reader.item /\ reader'.next = n /\ reader'.work = reader.work
    BY <1>13, <2>1 DEF StaysAt
  <2>5. ASSUME NEW c \in owed', c \notin ToSet(cs), c # d PROVE Ahead(c)'
    <3>1. Ahead(c) /\ c \in CallSet
      BY <1>2, <1>13, <2>5 DEF DTypes, CallTypes
    <3>2. PICK k \in DOMAIN Hearers : k >= reader.next /\ Hearers[k] = c.handler
      BY <3>1 DEF Ahead
    <3>3. k # reader.next
      <4>1. c.frame = reader.frame /\ c.item = reader.item
        BY <3>1 DEF Ahead
      <4>2. d = [frame |-> reader.frame, item |-> reader.item, handler |-> Hearers[reader.next]]
        BY <2>2 DEF Call, Handler
      <4>3. c = [frame |-> c.frame, item |-> c.item, handler |-> c.handler]
        BY <3>1 DEF CallSet
      <4> QED
        BY <2>5, <3>2, <4>1, <4>2, <4>3
    <3>4. k >= n /\ n > 0
      <4>1. k \in Nat /\ reader.next \in Nat
        BY HearersType DEF DTypes, ReaderTypes
      <4> QED
        BY <2>1, <3>2, <3>3, <4>1
    <3> QED
      BY <2>3, <2>4, <3>1, <3>2, <3>4 DEF Ahead
  <2> QED
    BY <1>12, <1>13, <2>1, <2>2, <2>5
<1>14. CASE owed' = ToSet(calls') /\ Calling /\ Leaves
  <2>1. PICK n : n = reader.next + 1
    OBVIOUS
  <2>2. PICK d \in CallSet : /\ d = Call(Handler) /\ Behind(d)'
                             /\ \A c \in CallSet : Behind(c) => Before(c, d)
    BY <1>2, <1>14, <2>1, CallMade
  <2>3. owed' \subseteq ToSet(cs) \cup {d}
    <3>1. calls' = Append(cs, d)
      BY <1>1, <1>14, <2>2 DEF Calling
    <3>2. ToSet(Append(cs, d)) \subseteq ToSet(cs) \cup {d}
      BY DEF ToSet
    <3> QED
      BY <1>14, <3>1, <3>2
  <2> QED
    BY <1>12, <1>14, <2>1, <2>2, <2>3
<1>15. CASE owed' = ToSet(calls) /\ UNCHANGED <<handlers, calls>> /\ Leaves
  BY <1>1, <1>3, <1>15
<1>16. ASSUME NEW h \in Handlers, AddHandler(h) PROVE CallsInv'
  <2> DEFINE t == ServiceOf[h]
  <2>1. PICK hs \in Seq(Handlers) : hs = handlers[t]
    BY DispatchAssumption DEF DTypes, CallTypes
  <2>2. PICK gs \in Seq(Handlers) :
           /\ gs = Append(hs, h) /\ DOMAIN gs = 1 .. (Len(hs) + 1) /\ gs[Len(hs) + 1] = h
           /\ \A i \in 1 .. Len(hs) : gs[i] = hs[i]
    <3>1. /\ Append(hs, h) \in Seq(Handlers)
          /\ DOMAIN Append(hs, h) = 1 .. (Len(hs) + 1) /\ Append(hs, h)[Len(hs) + 1] = h
          /\ \A i \in 1 .. Len(hs) : Append(hs, h)[i] = hs[i]
      OBVIOUS
    <3> QED
      BY <3>1, Zenon
  <2>3. /\ t \in Services /\ handlers' = [handlers EXCEPT ![t] = gs]
        /\ \A i \in DOMAIN hs : hs[i] # h /\ DOMAIN handlers = Services
        /\ UNCHANGED <<calls, owed, reader>>
    BY <1>16, <2>1, <2>2, DispatchAssumption
       DEF AddHandler, heard, DTypes, CallTypes
  <2>4. \A s \in Services : /\ s # t => handlers'[s] = handlers[s]
                            /\ s = t => handlers'[s] = gs
    BY <2>3 DEF DTypes, CallTypes
  <2> HIDE DEF t
  <2>5. \A i \in DOMAIN hs : i \in DOMAIN gs /\ gs[i] = hs[i]
    BY <2>2
  <2>6. \A s \in Services : \A i \in DOMAIN handlers[s] :
           i \in DOMAIN handlers'[s] /\ handlers'[s][i] = handlers[s][i]
    BY <2>1, <2>4, <2>5
  <2>7. HandlersOnce'
    <3>1. \A i \in DOMAIN gs : ServiceOf[gs[i]] = t
      <4>1. \A i \in DOMAIN gs : i \in DOMAIN hs \/ i = Len(hs) + 1
        BY <2>2
      <4> QED
        BY <1>2, <2>1, <2>2, <2>3, <4>1 DEF HandlersOnce, t
    <3>2. ASSUME NEW i \in DOMAIN gs, NEW j \in DOMAIN gs, i # j PROVE gs[i] # gs[j]
      <4>1. /\ i \in DOMAIN hs \/ i = Len(hs) + 1
            /\ j \in DOMAIN hs \/ j = Len(hs) + 1
        BY <2>2
      <4> QED
        BY <1>2, <2>1, <2>2, <2>3, <3>2, <4>1 DEF HandlersOnce
    <3> QED
      BY <1>2, <2>4, <3>1, <3>2 DEF HandlersOnce
  <2>8. \A c \in CallSet : \A d \in CallSet : Before(c, d) => Before(c, d)'
    <3>1. \A c \in CallSet : ServiceOf[c.handler] \in Services
      BY DispatchAssumption DEF CallSet
    <3> QED
      BY <2>6, <3>1 DEF Before
  <2>9. /\ Item' = Item /\ Relabels' = Relabels
        /\ \A k \in DOMAIN Hearers : k \in DOMAIN Hearers' /\ Hearers'[k] = Hearers[k]
    BY <2>3, <2>6 DEF Item, Relabels, MustRelabel, Hearers
  <2>10. \A i \in DOMAIN cs : Behind(cs[i])'
    BY <1>2, <2>3, <2>9 DEF Behind
  <2>11. \A c \in owed \ ToSet(cs) : Ahead(c)'
    BY <1>2, <2>3, <2>9 DEF Ahead
  <2>12. (\A i \in DOMAIN calls : Behind(calls[i]))'
    BY <1>1, <2>3, <2>10 DEF Behind
  <2>13. \A i, j \in DOMAIN cs : i < j => Before(cs[i], cs[j])'
    BY <1>2, <2>8
  <2>14. (\A i, j \in DOMAIN calls : i < j => Before(calls[i], calls[j]))'
    <3>1. calls' = cs
      BY <1>1, <2>3
    <3>2. SUFFICES ASSUME NEW i \in DOMAIN cs, NEW j \in DOMAIN cs, i < j
                   PROVE  Before(cs[i], cs[j])'
      BY <3>1 DEF Before
    <3> QED
      BY <2>13, <3>2
  <2>15. (\A c \in owed \ ToSet(calls) : Ahead(c))'
    BY <1>1, <2>3, <2>11
  <2> QED
    BY <2>7, <2>12, <2>14, <2>15 DEF CallsInv
<1> QED
  BY <1>5, <1>6, <1>7, <1>8, <1>9, <1>10, <1>11, <1>13, <1>14, <1>15, <1>16, ReaderSteps
-----------------------------------------------------------------------------
(* What a step does to the session and to what was seen of it. *)

\* A client that was open when the drain began, and is not at its end, was closed.
LEMMA QuietKept == ASSUME DTypes, QuietInv, Next PROVE QuietInv'
<1> USE DEF session, absorbing, registered, heard, history, extra, work
<1>1. DOMAIN reader = DOMAIN Idle
  BY DEF DTypes, ReaderTypes
<1>2. ASSUME reader'.at = reader.at, reader'.result = reader.result, UNCHANGED open,
             reader'.wasOpen = reader.wasOpen, reader'.closedAt = reader.closedAt
      PROVE  QuietInv'
  BY <1>2 DEF QuietInv, QuietClose
<1>3. ASSUME NEW result, Return(result), result # "notOpen" PROVE QuietInv'
  BY <1>3 DEF Return, Idle, QuietInv, QuietClose
<1>4. CASE ReadLost \/ FrameDone \/ HandlerExits
  BY <1>3, <1>4 DEF ReadLost, FrameDone, HandlerExits
<1>5. CASE NotOpen
  BY <1>5 DEF NotOpen, Return, Idle, QuietInv, QuietClose
<1>6. CASE Drained
  <2>1. CASE reader.wasOpen /\ ~open
    BY <1>3, <1>6, <2>1 DEF Drained
  <2>2. CASE ~(reader.wasOpen /\ ~open)
    <3>1. /\ reader' = [reader EXCEPT !.at = "reading"] /\ reader.at = "draining"
          /\ UNCHANGED open
      BY <1>6, <2>2 DEF Drained
    <3> QED
      BY <1>1, <2>2, <3>1 DEF Idle, QuietInv, QuietClose
  <2> QED
    BY <2>1, <2>2
<1>7. CASE CallHandle \/ ReadAnswer
  <2>1. reader'.at = "draining" /\ reader'.result = "none"
    BY <1>1, <1>7 DEF CallHandle, ReadAnswer, Idle, QuietInv
  <2> QED
    BY <2>1 DEF QuietInv, QuietClose
<1>8. ASSUME NEW frame, Read(frame) PROVE QuietInv'
  <2>1. reader'.at = "frame" /\ reader'.result = "none"
    BY <1>1, <1>8 DEF Read, Idle, QuietInv
  <2> QED
    BY <2>1 DEF QuietInv, QuietClose
<1>9. CASE AbsorbItem \/ SkipItem \/ ReportRejection \/ DispatchAbsorbs \/ EndDispatch
  <2>1. reader' = NextItem /\ UNCHANGED open
    BY <1>9 DEF AbsorbItem, SkipItem, ReportRejection, DispatchAbsorbs, EndDispatch
  <2> QED
    BY <1>1, <1>2, <2>1 DEF NextItem, Idle
<1>10. CASE StartDispatch \/ RelabelFails \/ HandlerReturns \/ HandlerRaises
            \/ HandlerIsCoroutine
  <2>1. /\ UNCHANGED open
        /\ \/ reader' = [reader EXCEPT !.next = 1]
           \/ reader' = [reader EXCEPT !.next = @ + 1]
           \/ reader' = [reader EXCEPT !.next = @ + 1, !.spoiled = TRUE]
    BY <1>10 DEF StartDispatch, RelabelFails, HandlerReturns, HandlerRaises,
                 HandlerIsCoroutine
  <2> QED
    BY <1>1, <1>2, <2>1 DEF Idle
<1>11. ASSUME NEW a, TellExits(a) PROVE QuietInv'
  <2>1. CASE a = Reader
    BY <1>11, <2>1 DEF TellExits, Idle, QuietInv, QuietClose
  <2>2. CASE a # Reader
    BY <1>2, <1>11, <2>2 DEF TellExits
  <2> QED
    BY <2>1, <2>2
<1>12. CASE Close
  <2>1. /\ reader'.at = reader.at /\ reader'.result = reader.result
        /\ reader'.wasOpen = reader.wasOpen /\ reader'.closedAt = reader.at
    BY <1>1, <1>12 DEF Close, Idle
  <2> QED
    BY <2>1 DEF QuietInv, QuietClose
<1>13. CASE Login
  BY <1>13 DEF Login, QuietInv, QuietClose
<1>14. ASSUME NEW h, AddHandler(h) \/ AddErrorHandler(h) \/ TaskEnds(h) \/ TaskFails(h)
                     \/ DrainOne(h) \/ Tell(h) \/ Told(h)
       PROVE  QuietInv'
  BY <1>2, <1>14 DEF AddHandler, AddErrorHandler, TaskEnds, TaskFails, DrainOne, Tell, Told
<1>15. CASE AnyReads \/ AnyEnds
  BY <1>2, <1>15 DEF AnyReads, RequestReads, AnyEnds, RequestEnds
<1> QED
  BY <1>4, <1>5, <1>6, <1>7, <1>8, <1>9, <1>10, <1>11, <1>12, <1>13, <1>14, <1>15
     DEF Next, Frame, Dispatch, Drainers, AnyReads, AnyEnds

\* Until the first login no frame is read.
Unread == epoch = 0 => ~open /\ reader.at # "frame" /\ shapes = {}

\* A step keeps it so.
LEMMA UnreadKept == ASSUME DTypes, Unread, Next PROVE Unread'
<1> USE DEF session, absorbing, registered, heard, history, extra, work
<1>1. DOMAIN reader = DOMAIN Idle /\ epoch \in Nat
  BY DEF DTypes, ReaderTypes, NoteTypes
<1>2. CASE reader.at = "frame"
  <2>1. epoch' = epoch \/ epoch' = epoch + 1
    <3>1. CASE Close \/ Login
      BY <3>1 DEF Close, Login, Clear
    <3>2. ASSUME NEW a, Tell(a) \/ Told(a) \/ TellExits(a) \/ DrainOne(a)
          PROVE  epoch' = epoch
      BY <3>2 DEF Tell, Told, TellExits, DrainOne
    <3>3. ASSUME NEW h, AddHandler(h) \/ AddErrorHandler(h) \/ Read(h) \/ TaskEnds(h)
                        \/ TaskFails(h)
          PROVE  epoch' = epoch
      BY <3>3 DEF AddHandler, AddErrorHandler, Read, TaskEnds, TaskFails
    <3>4. CASE CallHandle \/ Drained \/ NotOpen \/ ReadLost \/ AnyEnds \/ ReadAnswer
               \/ AnyReads
      BY <3>4 DEF CallHandle, Drained, NotOpen, ReadLost, AnyEnds, RequestEnds, ReadAnswer,
                  AnyReads, RequestReads
    <3>5. CASE FrameDone \/ SkipItem \/ EndDispatch \/ AbsorbItem \/ DispatchAbsorbs
               \/ RelabelFails \/ ReportRejection \/ StartDispatch
      BY <3>5 DEF FrameDone, SkipItem, EndDispatch, AbsorbItem, DispatchAbsorbs,
                  RelabelFails, ReportRejection, StartDispatch
    <3>6. CASE HandlerReturns \/ HandlerRaises \/ HandlerExits \/ HandlerIsCoroutine
      BY <3>6 DEF HandlerReturns, HandlerRaises, HandlerExits, HandlerIsCoroutine
    <3> QED
      BY <3>1, <3>2, <3>3, <3>4, <3>5, <3>6
         DEF Next, Frame, Dispatch, Drainers, AnyReads, AnyEnds
  <2> QED
    BY <1>1, <1>2, <2>1 DEF Unread
<1>3. CASE reader.at # "frame"
  <2>1. CASE Close \/ Login
    BY <1>1, <2>1 DEF Close, Login, Clear, Unread
  <2>2. ASSUME NEW a, Tell(a) \/ Told(a) \/ DrainOne(a) PROVE Unread'
    BY <2>2 DEF Tell, Told, DrainOne, Unread
  <2>7. ASSUME NEW a, TellExits(a) PROVE Unread'
    BY <1>3, <2>7 DEF TellExits, Idle, Unread
  <2>3. ASSUME NEW h, AddHandler(h) \/ AddErrorHandler(h) \/ TaskEnds(h) \/ TaskFails(h)
        PROVE  Unread'
    BY <2>3 DEF AddHandler, AddErrorHandler, TaskEnds, TaskFails, Unread
  <2>8. ASSUME NEW frame, Read(frame) PROVE Unread'
    <3>1. open /\ epoch' = epoch
      BY <2>8 DEF Read
    <3> HIDE DEF session, absorbing, registered, heard, history, extra, work
    <3>2. epoch # 0
      BY <3>1 DEF Unread
    <3> QED
      BY <3>1, <3>2 DEF Unread
  <2>4. CASE CallHandle \/ Drained \/ NotOpen \/ ReadLost \/ ReadAnswer
    <3>1. \A result : Return(result) => reader'.at = "idle"
      BY DEF Return, Idle
    <3>2. CASE NotOpen \/ ReadLost
      BY <3>1, <3>2 DEF NotOpen, ReadLost, Unread
    <3>3. CASE Drained
      <4>1. ASSUME reader' = [reader EXCEPT !.at = "reading"] PROVE reader'.at = "reading"
        BY <1>1, <4>1 DEF Idle
      <4> QED
        BY <3>1, <3>3, <4>1 DEF Drained, Unread
    <3>4. CASE CallHandle
      <4>1. reader'.at = "draining"
        BY <1>1, <3>4 DEF CallHandle, Idle
      <4> QED
        BY <3>4, <4>1 DEF CallHandle, Unread
    <3>5. CASE ReadAnswer
      <4>1. open /\ UNCHANGED <<open, epoch>>
        BY <3>5 DEF ReadAnswer
      <4> QED
        BY <4>1 DEF Unread
    <3> QED
      BY <2>4, <3>2, <3>3, <3>4, <3>5
  <2>5. CASE AnyReads
    <3>1. open /\ UNCHANGED <<open, epoch>>
      BY <2>5 DEF AnyReads, RequestReads
    <3> QED
      BY <3>1 DEF Unread
  <2>9. CASE AnyEnds
    BY <2>9 DEF AnyEnds, RequestEnds, Unread
  <2>6. ~AtWork
    BY <1>3 DEF AtWork
  <2> QED
    BY <2>1, <2>2, <2>3, <2>4, <2>5, <2>6, <2>7, <2>8, <2>9
       DEF Next, Frame, Dispatch, Drainers, AnyReads, AnyEnds, FrameDone, AbsorbItem,
           SkipItem, ReportRejection, DispatchAbsorbs, StartDispatch, EndDispatch,
           RelabelFails, HandlerReturns, HandlerRaises, HandlerExits, HandlerIsCoroutine,
           Hears, Dispatching, HasItem
<1> QED
  BY <1>2, <1>3

\* What a queue with room had it keeps, with what is pushed and what is popped.
LEMMA SeenGrows ==
    ASSUME NEW q \in Seq(Notes), NEW r \in Notes
    PROVE  /\ Len(q) < MaxReports => ToSet(Push(q, r)) = ToSet(q) \cup {r}
           /\ q # <<>> => ToSet(q) \subseteq ToSet(Tail(q)) \cup {Head(q)}
<1>1. ASSUME Len(q) < MaxReports PROVE ToSet(Push(q, r)) = ToSet(q) \cup {r}
  <2>1. PICK p \in Seq(Notes) :
           /\ p = Append(q, r) /\ DOMAIN p = 1 .. (Len(q) + 1) /\ p[Len(q) + 1] = r
           /\ \A i \in 1 .. Len(q) : p[i] = q[i]
    <3>1. /\ Append(q, r) \in Seq(Notes)
          /\ DOMAIN Append(q, r) = 1 .. (Len(q) + 1) /\ Append(q, r)[Len(q) + 1] = r
          /\ \A i \in 1 .. Len(q) : Append(q, r)[i] = q[i]
      OBVIOUS
    <3> QED
      BY <3>1, Zenon
  <2>2. Push(q, r) = p
    <3>1. Len(q) # MaxReports
      <4>1. MaxReports \in Nat \ {0}
        BY DispatchAssumption
      <4>2. Len(q) \in Nat
        OBVIOUS
      <4> QED
        BY <1>1, <4>1, <4>2
    <3>2. Push(q, r) = Append(q, r)
      BY <3>1, Zenon DEF Push
    <3> QED
      BY <2>1, <3>2, Zenon
  <2>3. /\ \A i \in DOMAIN p : i \in 1 .. Len(q) \/ i = Len(q) + 1
        /\ Len(q) + 1 \in DOMAIN p /\ \A i \in DOMAIN q : i \in DOMAIN p /\ p[i] = q[i]
    BY <2>1
  <2> QED
    BY <2>1, <2>2, <2>3 DEF ToSet
<1>2. ASSUME q # <<>>, NEW i \in DOMAIN q
      PROVE  q[i] \in ToSet(Tail(q)) \cup {Head(q)}
  <2>1. /\ Tail(q) \in Seq(Notes) /\ Len(Tail(q)) = Len(q) - 1
        /\ \A k \in 1 .. (Len(q) - 1) : Tail(q)[k] = q[k + 1]
    BY <1>2
  <2>2. CASE i = 1
    BY <1>2, <2>2
  <2>3. CASE i # 1
    <3>1. i - 1 \in DOMAIN Tail(q) /\ Tail(q)[i - 1] = q[i]
      BY <2>1, <2>3
    <3> QED
      BY <3>1 DEF ToSet
  <2> QED
    BY <2>2, <2>3
<1> QED
  BY <1>1, <1>2 DEF ToSet

\* Nothing is forgotten of the session while its queue has room.
LEMMA NewsKept == ASSUME DTypes, Unread, HasRoom, NewsInv, Next PROVE NewsInv'
<1> USE DEF session, absorbing, registered, heard, history, extra, work
<1>1. PICK q \in Seq(Notes) : q = queue /\ Len(q) < MaxReports
  BY DEF DTypes, NoteTypes, HasRoom
<1>2. epoch \in Nat /\ kinds \in [Kinds -> Nat]
  BY DEF DTypes, NoteTypes
<1>3. ASSUME Seen \subseteq Seen', UNCHANGED <<kinds, shapes, rejections, epoch>>
      PROVE  NewsInv'
  BY <1>3 DEF NewsInv, NotSilenced, RejectionSurvives, Sighted
<1>4. ASSUME UNCHANGED <<kinds, shapes, rejections, epoch, queue, taken>> PROVE NewsInv'
  BY <1>3, <1>4 DEF Seen, Queued
<1>5. ASSUME NEW r \in Notes, r.epoch = epoch, queue' = Push(queue, r), UNCHANGED taken
      PROVE  Seen' = Seen \cup {r}
  BY <1>1, <1>5, SeenGrows DEF Seen, Queued
<1>6. ASSUME NEW kind \in Kinds, NEW names \in SUBSET Names, Absorb(kind, names),
             UNCHANGED <<rejections, epoch, taken>>
      PROVE  NewsInv'
  <2>1. PICK r \in Notes : /\ r = Report(kind, names) /\ r.epoch = epoch
                           /\ r.about = kind /\ r.names = names
    <3>1. /\ Report(kind, names) \in Notes /\ Report(kind, names).epoch = epoch
          /\ Report(kind, names).about = kind /\ Report(kind, names).names = names
      BY ReportType, AboutTypes DEF DTypes, Report
    <3> QED
      BY <3>1
  <2>2. PICK new \in SUBSET names :
           /\ shapes' = shapes \cup new
           /\ kinds' = [kinds EXCEPT ![kind] = @ + 1]
           /\ IF Loud(kind, new # {}) THEN queue' = Push(queue, r) ELSE UNCHANGED queue
    BY <1>6, <2>1 DEF Absorb
  <2>3. \A k \in Kinds : k # kind => kinds'[k] = kinds[k]
    BY <1>2, <2>2
  <2>4. CASE Loud(kind, new # {})
    <3>1. Seen' = Seen \cup {r}
      BY <1>5, <1>6, <2>1, <2>2, <2>4
    <3>2. NotSilenced'
      BY <1>6, <2>1, <2>3, <3>1 DEF NewsInv, NotSilenced
    <3>3. RejectionSurvives' /\ \A x \in rejections' : x.epoch <= epoch'
      BY <1>6, <3>1 DEF NewsInv, RejectionSurvives
    <3>4. epoch' <= 1 => Sighted'
      BY <1>6, <2>1, <2>2, <3>1 DEF NewsInv, Sighted
    <3> QED
      BY <3>2, <3>3, <3>4 DEF NewsInv
  <2>5. CASE ~Loud(kind, new # {})
    <3>1. kinds[kind] > 0 /\ new = {}
      BY <1>2, <2>5 DEF Loud
    <3>2. Seen' = Seen /\ shapes' = shapes
      BY <1>6, <2>2, <2>5, <3>1 DEF Seen, Queued
    <3>3. NotSilenced'
      BY <1>6, <2>3, <3>1, <3>2 DEF NewsInv, NotSilenced
    <3> QED
      BY <1>6, <3>2, <3>3 DEF NewsInv, RejectionSurvives, Sighted
  <2> QED
    BY <2>4, <2>5
<1>7. CASE AbsorbItem
  BY <1>6, <1>7, ItemType DEF AbsorbItem, DTypes
<1>8. CASE DispatchAbsorbs
  <2>1. PICK service : service = Item.element.service
    OBVIOUS
  <2>2. Item.element \in Elements
    BY <1>8, ItemType DEF DispatchAbsorbs, DTypes
  <2>3. {[what |-> "service", name |-> service]} \in SUBSET Names
    BY <2>1, <2>2 DEF Names, Elements
  <2>4. UNCHANGED <<rejections, epoch, taken>>
    BY <1>8 DEF DispatchAbsorbs
  <2>5. \/ Absorb(Kind("badService", "frame"), {})
        \/ Absorb(Kind("invalidService", "frame"), {})
        \/ Absorb(Kind("newService", "frame"), {[what |-> "service", name |-> service]})
    BY <1>8, <2>1 DEF DispatchAbsorbs
  <2> QED
    BY <1>6, <2>3, <2>4, <2>5, AboutTypes
<1>9. CASE RelabelFails
  <2>1. UNCHANGED <<rejections, epoch, taken>>
    BY <1>9 DEF RelabelFails
  <2>2. CASE reader.spoiled
    BY <1>4, <1>9, <2>1, <2>2 DEF RelabelFails
  <2>3. CASE ~reader.spoiled
    <3>1. Item.element.service \in Services
      BY <1>9 DEF RelabelFails, Dispatching, Hearers, DTypes, ReaderTypes
    <3> QED
      BY <1>6, <1>9, <2>1, <2>3, <3>1, AboutTypes DEF RelabelFails
  <2> QED
    BY <2>2, <2>3
<1>10. ASSUME NEW a, DrainOne(a) PROVE NewsInv'
  <2>1. q # <<>> /\ ToSet(q) \subseteq ToSet(Tail(q)) \cup {Head(q)}
    <3>1. q # <<>>
      BY <1>1, <1>10 DEF DrainOne
    <3>2. PICK r \in Notes : r = q[1]
      BY <3>1
    <3> QED
      BY <3>1, <3>2, SeenGrows
  <2>2. /\ queue' = Tail(q) /\ taken' = taken \cup {Head(q)}
        /\ UNCHANGED <<kinds, shapes, rejections, epoch>>
    BY <1>1, <1>10 DEF DrainOne
  <2> QED
    BY <1>1, <1>3, <2>1, <2>2 DEF Seen, Queued
<1>11. ASSUME QueueRejection, UNCHANGED <<kinds, shapes, epoch, taken>> PROVE NewsInv'
  <2>1. PICK r \in Notes : r = Report(Kind("rejection", "ADMIN"), {}) /\ r.epoch = epoch
    BY ReportType, AboutTypes DEF DTypes
  <2>2. queue' = Push(queue, r) /\ rejections' = rejections \cup {r}
    BY <1>11, <2>1 DEF QueueRejection
  <2>3. Seen' = Seen \cup {r}
    BY <1>5, <1>11, <2>1, <2>2
  <2> QED
    BY <1>2, <1>11, <2>1, <2>2, <2>3 DEF NewsInv, NotSilenced, RejectionSurvives, Sighted
<1>12. CASE ReadAnswer \/ AnyReads
  <2>1. FindBehind /\ UNCHANGED <<epoch, taken>>
    BY <1>12 DEF ReadAnswer, AnyReads, RequestReads
  <2>2. CASE QueueRejection
    BY <1>11, <2>1, <2>2 DEF QueueRejection
  <2>3. CASE AbsorbBehind
    BY <1>6, <2>1, <2>3, AboutTypes DEF AbsorbBehind
  <2> QED
    BY <2>1, <2>2, <2>3 DEF FindBehind
<1>13. CASE Close \/ Login
  <2>1. /\ epoch' = epoch + 1 /\ queue' = <<>> /\ kinds' = [k \in Kinds |-> 0]
        /\ UNCHANGED <<shapes, rejections, taken>>
    BY <1>13 DEF Close, Login, Clear
  <2>2. NotSilenced'
    BY <2>1 DEF NotSilenced
  <2>3. \A x \in rejections' : x.epoch <= epoch' /\ x.epoch # epoch'
    <3>1. \A x \in rejections : x.epoch \in Nat /\ x.epoch <= epoch
      BY NoteTypesOf DEF NewsInv, DTypes, NoteTypes
    <3> QED
      BY <1>2, <2>1, <3>1
  <2>4. epoch' <= 1 => shapes' = {}
    BY <1>2, <2>1 DEF Unread
  <2> QED
    BY <2>2, <2>3, <2>4 DEF NewsInv, RejectionSurvives, Sighted
<1>14. ASSUME NEW a, Tell(a) \/ Told(a) \/ TellExits(a) PROVE NewsInv'
  BY <1>4, <1>14 DEF Tell, Told, TellExits
<1>15. ASSUME NEW h, AddHandler(h) \/ AddErrorHandler(h) \/ Read(h) \/ TaskEnds(h)
                     \/ TaskFails(h)
       PROVE  NewsInv'
  BY <1>4, <1>15 DEF AddHandler, AddErrorHandler, Read, TaskEnds, TaskFails
<1>16. CASE CallHandle \/ Drained \/ NotOpen \/ ReadLost \/ AnyEnds
  BY <1>4, <1>16 DEF CallHandle, Drained, NotOpen, ReadLost, AnyEnds, RequestEnds
<1>17. CASE FrameDone \/ SkipItem \/ StartDispatch \/ EndDispatch \/ ReportRejection
            \/ HandlerReturns \/ HandlerRaises \/ HandlerExits \/ HandlerIsCoroutine
  BY <1>4, <1>17 DEF FrameDone, SkipItem, StartDispatch, EndDispatch, ReportRejection,
                     HandlerReturns, HandlerRaises, HandlerExits, HandlerIsCoroutine
<1> QED
  BY <1>7, <1>8, <1>9, <1>10, <1>12, <1>13, <1>14, <1>15, <1>16, <1>17
     DEF Next, Frame, Dispatch, Drainers, AnyReads, AnyEnds
-----------------------------------------------------------------------------
(* What holds of every run. *)

DispatchInv ==
    /\ DTypes /\ IdsInv /\ HeardInv /\ TellInv /\ held = tasks
    /\ QuietInv /\ CallsInv /\ Unread

\* Together the parts are kept by every step.
LEMMA DispatchInvariant == Spec => []DispatchInv
<1>1. Init => DispatchInv
  <2> SUFFICES ASSUME Init PROVE DispatchInv
    OBVIOUS
  <2>1. DTypes
    BY InitTyped
  <2>2. queue = <<>> /\ errors = <<>> /\ calls = <<>>
    BY DEF Init
  <2>3. \A a \in DOMAIN telling : ~Telling(a)
    BY DEF Init, Telling
  <2>4. IdsInv
    BY <2>2, <2>3 DEF IdsInv, InOrder
  <2>5. HeardInv
    BY <2>2, <2>3 DEF Init, HeardInv
  <2>6. TellInv /\ held = tasks
    BY <2>3 DEF Init, TellInv
  <2>7. QuietInv /\ Unread
    BY DEF Init, Idle, QuietInv, QuietClose, Unread
  <2>8. HandlersOnce
    BY DEF Init, HandlersOnce
  <2>9. CallsInv
    BY <2>2, <2>8 DEF Init, CallsInv
  <2> QED
    BY <2>1, <2>4, <2>5, <2>6, <2>7, <2>9 DEF DispatchInv
<1>2. DispatchInv /\ [Next]_vars => DispatchInv'
  <2> SUFFICES ASSUME DispatchInv, [Next]_vars PROVE DispatchInv'
    OBVIOUS
  <2>1. CASE Next
    <3>1. DTypes'
      BY <2>1, NextTyped DEF DispatchInv
    <3>2. IdsInv' /\ HeardInv' /\ TellInv' /\ held' = tasks'
      BY <2>1, IdsKept, HeardKept, TellKept, HeldKept DEF DispatchInv
    <3>3. QuietInv' /\ CallsInv' /\ Unread'
      BY <2>1, QuietKept, CallsKept, UnreadKept DEF DispatchInv
    <3> QED
      BY <3>1, <3>2, <3>3 DEF DispatchInv
  <2>2. CASE UNCHANGED vars
    <3> USE DEF vars, session, absorbing, registered, heard, history, extra, work
    <3>1. DTypes'
      BY <2>2, NextTyped DEF DispatchInv
    <3>2. IdsInv' /\ HeardInv' /\ TellInv' /\ held' = tasks'
      BY <2>2 DEF DispatchInv, IdsInv, HeardInv, TellInv, Telling, InOrder
    <3>3. QuietInv' /\ Unread'
      BY <2>2 DEF DispatchInv, QuietInv, QuietClose, Unread
    <3>4. CallsInv'
      BY <2>2 DEF DispatchInv, CallsInv, HandlersOnce, Behind, Before, Ahead, Item, Hearers,
                  Relabels, MustRelabel
    <3> QED
      BY <3>1, <3>2, <3>3, <3>4 DEF DispatchInv
  <2> QED
    BY <2>1, <2>2
<1> QED
  BY <1>1, <1>2, PTL DEF Spec

\* Each message that relabels reaches every handler of its service once, in the order
\* of arrival and of registration, for all handlers, frames and failures of the others
\* (_dispatch_to_handlers).
THEOREM Dispatched == Spec => []EveryHandlerHears
<1>1. DispatchInv => EveryHandlerHears
  BY DEF DispatchInv, CallsInv, EveryHandlerHears, Ahead
<1> QED
  BY <1>1, DispatchInvariant, PTL

\* The failure of a stream handler is told to every error handler that is registered
\* when its telling ends, and the client holds the tasks that can still fail
\* (_report_error, _handler_tasks).
THEOREM FailuresTold == Spec => []FailureTold
<1>1. DispatchInv => FailureTold
  <2> SUFFICES ASSUME DispatchInv PROVE FailureTold
    OBVIOUS
  <2>1. \A x \in ended : \A e \in x.owed : <<x.report, e>> \in told
    BY DEF DispatchInv, TellInv
  <2>2. \A r \in failed : \/ \E a \in DOMAIN telling : telling[a].report = r
                          \/ \E x \in ended : x.report = r
    BY DEF DispatchInv, TellInv
  <2>3. held = tasks
    BY DEF DispatchInv
  <2> QED
    BY <2>1, <2>2, <2>3, Zenon DEF FailureTold
<1> QED
  BY <1>1, DispatchInvariant, PTL

\* Whichever of handle_message and the requests drain the queue together, and however
\* many requests there are, no error handler hears one report twice, and one that
\* closes the client ends handle_message quietly (_drain_pending_reports).
THEOREM Drains == Spec => []DrainsOnce
<1>1. DispatchInv => DrainsOnce
  BY DEF DispatchInv, HeardInv, QuietInv, DrainsOnce, ToldOnce
<1> QED
  BY <1>1, DispatchInvariant, PTL

\* As long as the queue never fills, every kind of failure, every rejection behind an
\* answer and every name of the first session was reported (_absorb,
\* _report_new_shape).  A full queue drops its oldest report: it is what the bound of
\* the queue gives up.
THEOREM NewsOfRoom == Spec /\ []HasRoom => []NewsHeard
<1>1. Init => NewsInv
  BY DEF Init, NewsInv, NotSilenced, RejectionSurvives, Sighted
<1>2. DispatchInv /\ HasRoom /\ NewsInv /\ [Next]_vars => NewsInv'
  <2> SUFFICES ASSUME DispatchInv, HasRoom, NewsInv, [Next]_vars PROVE NewsInv'
    OBVIOUS
  <2>1. CASE Next
    BY <2>1, NewsKept DEF DispatchInv
  <2>2. CASE UNCHANGED vars
    BY <2>2 DEF vars, session, absorbing, heard, history, extra,
                NewsInv, NotSilenced, RejectionSurvives, Sighted, Seen, Queued
  <2> QED
    BY <2>1, <2>2
<1>3. NewsInv => NewsHeard
  BY DEF NewsInv, NewsHeard
<1> QED
  BY <1>1, <1>2, <1>3, DispatchInvariant, PTL DEF Spec
=============================================================================
