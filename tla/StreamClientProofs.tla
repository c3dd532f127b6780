------------------------- MODULE StreamClientProofs -------------------------
(***************************************************************************)
(* For every number of tasks, requests, sessions and frames: StreamClient  *)
(* keeps its types, never leaks or shares the read lock, keeps the pending *)
(* slot with the holder of the request lock, and tells a request only what *)
(* the venue answered to that very request.  For callers that do not       *)
(* overlap login(), logout() and close(): messages are handled in the      *)
(* order they arrived, none is lost, and no queued report outlives its     *)
(* session.  And again whatever the callers do: an answer to the request   *)
(* that waits is not set aside or taken for an orphan, if the venue puts   *)
(* the newest answer of a frame first; and the news that a request was     *)
(* rejected is in one place at a time, from the wire to its waiter or to   *)
(* the error handlers, and leaves it only by a documented limit; so it is  *)
(* told once, and not lost in between.                                     *)
(***************************************************************************)
EXTENDS StreamClient, FairLockProofs, FiniteSetTheorems

\* Which operation a suspended task can be in, what it then holds in hand, and
\* which session it then reads.
Local(t) ==
    /\ pc[t] \in {"reqlock", "sending", "await"} => op[t] # "handle"
    /\ pc[t] = "hlock" => op[t] = "handle"
    /\ pc[t] = "recv" => at[t] \in Sessions
    /\ pc[t] \in {"orphans", "orphanTold", "unparsable"} => hand[t] \in Frame

LocalInv ==
    /\ \A t \in Tasks : Local(t)
    /\ future.st = "bad" => future.by \in Frame

IInv == TypeOK /\ LocalInv /\ ReadLockDiscipline /\ SlotDiscipline
-----------------------------------------------------------------------------
\* A step of t leaves the other tasks where they are.
OthersKeep(t) ==
    \A u \in Tasks : u # t =>
        /\ pc'[u] = pc[u] /\ op'[u] = op[u] /\ req'[u] = req[u]
        /\ at'[u] = at[u] /\ hand'[u] = hand[u]

\* The ways a step of t can treat the read lock.
ReadKept(t) ==
    /\ readQ' = readQ
    /\ WantsRead(t)' <=> WantsRead(t)
    /\ pc'[t] = "recv" => Holds(readQ, t)
ReadJoined(t) ==
    /\ readQ' = Join(readQ, t) /\ ~WantsRead(t)
    /\ pc'[t] \in {"await", "hlock"}
ReadLeft(t) == readQ' = Leave(readQ, t) /\ WantsRead(t) /\ ~WantsRead(t)'
ReadRejoined(t) ==
    /\ readQ' = Join(Leave(readQ, t), t) /\ WantsRead(t)
    /\ pc'[t] \in {"await", "hlock"}

ReadEffect(t) == ReadKept(t) \/ ReadJoined(t) \/ ReadLeft(t) \/ ReadRejoined(t)

\* The ways a step of t can treat the request lock and the slot behind it.
SlotKept(t) ==
    /\ reqQ' = reqQ /\ pending' = pending
    /\ WantsSlot(t)' <=> WantsSlot(t)
    /\ HasSlot(t)' <=> HasSlot(t)
    /\ HasSlot(t) => req'[t] = req[t]
    /\ future' = future \/ (pending # 0 /\ future'.st # "none")
SlotJoined(t) ==
    /\ reqQ' = Join(reqQ, t) /\ ~WantsSlot(t) /\ pc'[t] = "reqlock"
    /\ UNCHANGED <<pending, future>>
SlotFilled(t) ==
    /\ pc[t] = "reqlock" /\ Holds(reqQ, t) /\ HasSlot(t)'
    /\ reqQ' = reqQ /\ pending' = req[t] /\ req'[t] = req[t]
    /\ future' = OpenFuture
SlotEmptied(t) ==
    /\ WantsSlot(t) /\ Holds(reqQ, t) /\ ~WantsSlot(t)'
    /\ reqQ' = Leave(reqQ, t) /\ pending' = 0 /\ future' = NoFuture
SlotQuit(t) ==
    /\ pc[t] = "reqlock" /\ ~WantsSlot(t)'
    /\ reqQ' = Leave(reqQ, t) /\ UNCHANGED <<pending, future>>

SlotEffect(t) ==
    SlotKept(t) \/ SlotJoined(t) \/ SlotFilled(t) \/ SlotEmptied(t) \/ SlotQuit(t)
-----------------------------------------------------------------------------
\* Whatever a step does to the read lock in one of these ways is harmless.
LEMMA ReadStep ==
    ASSUME NEW t \in Tasks, LockTypes, ReadLockDiscipline, OthersKeep(t),
           ReadEffect(t)
    PROVE  ReadLockDiscipline' /\ readQ' \in Seq(Tasks)
<1> DEFINE W == {u \in Tasks : WantsRead(u)}
           Wn == {u \in Tasks : WantsRead(u)'}
<1>0. readQ \in Seq(Tasks) /\ NoneTwice(readQ) /\ Queued(readQ) = W
  BY DEF LockTypes, ReadLockDiscipline
<1>1. \A u \in Tasks : u # t => (WantsRead(u)' <=> WantsRead(u))
  BY DEF OthersKeep, WantsRead
<1>2. \A u \in Tasks : u # t /\ pc'[u] = "recv" => Holds(readQ, u)
  BY DEF OthersKeep, ReadLockDiscipline
<1>3. CASE ReadKept(t)
  <2>1. Wn = W
    BY <1>1, <1>3 DEF ReadKept
  <2> QED
    BY <1>0, <1>2, <1>3, <2>1 DEF ReadKept, ReadLockDiscipline
<1>4. CASE ReadJoined(t)
  <2>1. Wn = W \cup {t} /\ t \notin W
    BY <1>1, <1>4 DEF ReadJoined, WantsRead
  <2>2. /\ readQ' \in Seq(Tasks)
        /\ Queued(readQ') = Wn
    BY <1>0, <1>4, <2>1, JoinQueued DEF ReadJoined
  <2>3. /\ NoneTwice(readQ')
        /\ \A u : Holds(readQ, u) => Holds(readQ', u)
    BY <1>0, <1>4, <2>1, JoinOrder DEF ReadJoined
  <2>4. \A u \in Tasks : pc'[u] = "recv" => Holds(readQ', u)
    BY <1>2, <1>4, <2>3 DEF ReadJoined
  <2> QED
    BY <2>2, <2>3, <2>4 DEF ReadLockDiscipline
<1>5. CASE ReadLeft(t)
  <2>1. Wn = W \ {t} /\ t \in Queued(readQ)
    BY <1>0, <1>1, <1>5 DEF ReadLeft
  <2>2. readQ' \in Seq(Tasks)
    BY <1>0, <1>5, <2>1, LeaveType DEF ReadLeft
  <2>3. /\ Queued(readQ') = Wn /\ NoneTwice(readQ')
        /\ \A u : u # t /\ Holds(readQ, u) => Holds(readQ', u)
    BY <1>0, <1>5, <2>1, LeaveQueued DEF ReadLeft
  <2>4. \A u \in Tasks : pc'[u] = "recv" => Holds(readQ', u)
    BY <1>2, <1>5, <2>3 DEF ReadLeft, WantsRead
  <2> QED
    BY <2>2, <2>3, <2>4 DEF ReadLockDiscipline
<1>6. CASE ReadRejoined(t)
  <2> DEFINE q == Leave(readQ, t)
  <2>1. Wn = W /\ t \in Queued(readQ)
    BY <1>0, <1>1, <1>6 DEF ReadRejoined, WantsRead
  <2>2. q \in Seq(Tasks)
    BY <1>0, <2>1, LeaveType
  <2>3. /\ Queued(q) = W \ {t} /\ NoneTwice(q)
        /\ \A u : u # t /\ Holds(readQ, u) => Holds(q, u)
    BY <1>0, <2>1, LeaveQueued
  <2> HIDE DEF q
  <2>4. Join(q, t) \in Seq(Tasks) /\ Queued(Join(q, t)) = W
    <3>1. Queued(Join(q, t)) = Queued(q) \cup {t} /\ Join(q, t) \in Seq(Tasks)
      BY <2>2, JoinQueued
    <3>2. t \in W
      BY <1>0, <2>1
    <3> QED
      BY <3>1, <3>2, <2>3
  <2>5. /\ NoneTwice(Join(q, t))
        /\ \A u : Holds(q, u) => Holds(Join(q, t), u)
    BY <2>2, <2>3, JoinOrder
  <2>6. readQ' = Join(q, t)
    BY <1>6 DEF ReadRejoined, q
  <2>7. \A u \in Tasks : pc'[u] = "recv" => Holds(readQ', u)
    BY <1>2, <1>6, <2>3, <2>5, <2>6 DEF ReadRejoined
  <2> QED
    BY <2>1, <2>4, <2>5, <2>6, <2>7 DEF ReadLockDiscipline
<1> QED
  BY <1>3, <1>4, <1>5, <1>6 DEF ReadEffect

\* And so it is with the request lock and the pending slot: the holder that
\* filled the slot is alone in having it, so emptying it takes it from no one.
LEMMA SlotStep ==
    ASSUME NEW t \in Tasks, LockTypes, SlotDiscipline, OthersKeep(t),
           SlotEffect(t)
    PROVE  SlotDiscipline' /\ reqQ' \in Seq(Tasks)
<1> DEFINE W == {u \in Tasks : WantsSlot(u)}
           Wn == {u \in Tasks : WantsSlot(u)'}
<1>0. reqQ \in Seq(Tasks) /\ NoneTwice(reqQ) /\ Queued(reqQ) = W
  BY DEF LockTypes, SlotDiscipline
<1>1. \A u \in Tasks : u # t =>
         /\ WantsSlot(u)' <=> WantsSlot(u)
         /\ HasSlot(u)' <=> HasSlot(u)
         /\ req'[u] = req[u]
  BY DEF OthersKeep, WantsSlot, HasSlot
<1>2. \A u \in Tasks : HasSlot(u) =>
         Holds(reqQ, u) /\ pending = req[u] /\ future.st # "none"
  BY DEF SlotDiscipline
<1>3. (\A u \in Tasks : ~HasSlot(u)) => pending = 0 /\ future = NoFuture
  BY DEF SlotDiscipline
<1>4. \A u, v : Holds(reqQ, u) /\ Holds(reqQ, v) => u = v
  BY DEF Holds
<1>5. CASE SlotKept(t)
  <2>1. Wn = W
    BY <1>1, <1>5 DEF SlotKept
  <2>2. \A u \in Tasks : HasSlot(u)' =>
           Holds(reqQ', u) /\ pending' = req'[u] /\ future'.st # "none"
    BY <1>1, <1>2, <1>5 DEF SlotKept
  <2>3. (\A u \in Tasks : ~HasSlot(u)') => pending' = 0 /\ future' = NoFuture
    BY <1>1, <1>3, <1>5 DEF SlotKept
  <2> QED
    BY <1>0, <1>5, <2>1, <2>2, <2>3 DEF SlotKept, SlotDiscipline, NoFuture
<1>6. CASE SlotJoined(t)
  <2>1. Wn = W \cup {t} /\ t \notin W /\ ~HasSlot(t) /\ ~HasSlot(t)'
    BY <1>1, <1>6 DEF SlotJoined, WantsSlot, HasSlot
  <2>2. reqQ' \in Seq(Tasks) /\ Queued(reqQ') = Wn
    BY <1>0, <1>6, <2>1, JoinQueued DEF SlotJoined
  <2>3. /\ NoneTwice(reqQ')
        /\ \A u : Holds(reqQ, u) => Holds(reqQ', u)
    BY <1>0, <1>6, <2>1, JoinOrder DEF SlotJoined
  <2>4. \A u \in Tasks : HasSlot(u)' =>
           Holds(reqQ', u) /\ pending' = req'[u] /\ future'.st # "none"
    BY <1>1, <1>2, <1>6, <2>1, <2>3 DEF SlotJoined
  <2>5. (\A u \in Tasks : ~HasSlot(u)') => pending' = 0 /\ future' = NoFuture
    BY <1>1, <1>3, <1>6, <2>1 DEF SlotJoined
  <2> QED
    BY <2>2, <2>3, <2>4, <2>5 DEF SlotDiscipline, NoFuture
<1>7. CASE SlotFilled(t)
  <2>1. WantsSlot(t) /\ WantsSlot(t)' /\ ~HasSlot(t)
    BY <1>7 DEF SlotFilled, WantsSlot, HasSlot
  <2>2. Wn = W
    BY <1>1, <2>1
  <2>3. \A u \in Tasks : HasSlot(u)' => u = t
    BY <1>1, <1>2, <1>4, <1>7 DEF SlotFilled
  <2>4. \A u \in Tasks : HasSlot(u)' =>
           Holds(reqQ', u) /\ pending' = req'[u] /\ future'.st # "none"
    BY <1>7, <2>3 DEF SlotFilled, OpenFuture
  <2> QED
    BY <1>0, <1>7, <2>2, <2>4 DEF SlotFilled, SlotDiscipline, NoFuture
<1>8. ASSUME reqQ' = Leave(reqQ, t), WantsSlot(t), ~WantsSlot(t)'
      PROVE  /\ reqQ' \in Seq(Tasks) /\ NoneTwice(reqQ') /\ Queued(reqQ') = Wn
             /\ \A u : u # t /\ Holds(reqQ, u) => Holds(reqQ', u)
  <2>1. Wn = W \ {t} /\ t \in Queued(reqQ)
    BY <1>0, <1>1, <1>8
  <2>2. reqQ' \in Seq(Tasks)
    BY <1>0, <1>8, <2>1, LeaveType
  <2>3. /\ Queued(reqQ') = W \ {t} /\ NoneTwice(reqQ')
        /\ \A u : u # t /\ Holds(reqQ, u) => Holds(reqQ', u)
    BY <1>0, <1>8, <2>1, LeaveQueued
  <2> QED
    BY <2>1, <2>2, <2>3
<1>9. CASE SlotEmptied(t)
  <2>1. \A u \in Tasks : ~HasSlot(u)'
    BY <1>1, <1>2, <1>4, <1>9 DEF SlotEmptied, HasSlot
  <2>2. pending' = 0 /\ future' = NoFuture
    BY <1>9 DEF SlotEmptied
  <2> QED
    BY <1>8, <1>9, <2>1, <2>2 DEF SlotEmptied, SlotDiscipline, NoFuture
<1>10. CASE SlotQuit(t)
  <2>1. WantsSlot(t) /\ ~HasSlot(t) /\ ~HasSlot(t)'
    BY <1>10 DEF SlotQuit, WantsSlot, HasSlot
  <2>2. \A u \in Tasks : HasSlot(u)' =>
           Holds(reqQ', u) /\ pending' = req'[u] /\ future'.st # "none"
    BY <1>1, <1>2, <1>8, <1>10, <2>1 DEF SlotQuit
  <2>3. (\A u \in Tasks : ~HasSlot(u)') => pending' = 0 /\ future' = NoFuture
    BY <1>1, <1>3, <1>10, <2>1 DEF SlotQuit
  <2> QED
    BY <1>8, <1>10, <2>1, <2>2, <2>3 DEF SlotQuit, SlotDiscipline, NoFuture
<1> QED
  BY <1>5, <1>6, <1>7, <1>9, <1>10 DEF SlotEffect
-----------------------------------------------------------------------------
OtherTypes ==
    /\ ConnTypes /\ SlotTypes /\ QueueTypes
    /\ TaskTypes /\ VenueTypes /\ HistoryTypes

BadKnown == future.st = "bad" => future.by \in Frame

\* What remains to be shown of a step of t.
LEMMA Assemble ==
    ASSUME NEW t \in Tasks, IInv, OthersKeep(t), ReadEffect(t), SlotEffect(t),
           OtherTypes', Local(t)', BadKnown'
    PROVE  IInv'
<1>1. ReadLockDiscipline' /\ readQ' \in Seq(Tasks)
  BY ReadStep DEF IInv, TypeOK
<1>2. SlotDiscipline' /\ reqQ' \in Seq(Tasks)
  BY SlotStep DEF IInv, TypeOK
<1>3. \A u \in Tasks : Local(u)'
  BY DEF OthersKeep, Local, IInv, LocalInv
<1> QED
  BY <1>1, <1>2, <1>3
     DEF IInv, TypeOK, OtherTypes, LockTypes, LocalInv, BadKnown

\* The pieces of a step.
LEMMA GotoKeeps ==
    ASSUME NEW t \in Tasks, NEW s \in States, TaskTypes, Goto(t, s)
    PROVE  TaskTypes' /\ OthersKeep(t) /\ pc'[t] = s /\ op'[t] = op[t]
           /\ req'[t] = req[t] /\ at'[t] = at[t] /\ hand'[t] = hand[t]
  BY DEF Goto, TaskTypes, taskVars, OthersKeep

\* Returning to the application clears a task's local variables, and nothing else.
LEMMA ReturnKeeps ==
    ASSUME NEW t \in Tasks, TaskTypes, Return(t)
    PROVE  TaskTypes' /\ OthersKeep(t) /\ pc'[t] = "idle"
<1>1. pc' \in [Tasks -> States] /\ pc'[t] = "idle"
  BY DEF Return, TaskTypes, States
<1>2. hand' \in [Tasks -> Frame \cup {NoFrame}]
  BY DEF Return, TaskTypes
<1>3. /\ op' \in [Tasks -> {"none", "handle", "subs", "login", "logout", "close"}]
      /\ req' \in [Tasks -> 0 .. MaxRequest] /\ at' \in [Tasks -> 0 .. MaxSession]
  BY BoundsAssumption DEF Return, TaskTypes
<1>4. OthersKeep(t)
  BY DEF Return, TaskTypes, OthersKeep
<1> QED
  BY <1>1, <1>2, <1>3, <1>4 DEF TaskTypes

\* The end of a request leaves the slot and the lock, and keeps the types.
LEMMA EndRequestKeeps ==
    ASSUME NEW t \in Tasks, NEW r \in Results, IInv, EndRequest(t, r),
           WantsSlot(t), Holds(reqQ, t), ~WantsSlot(t)', ~WantsRead(t)'
    PROVE  /\ SlotTypes' /\ BadKnown' /\ ReadEffect(t) /\ SlotEffect(t)
           /\ outcome' \in [Ids -> Results]
<1>0. NoFuture \in [st : FutureStates, by : Frame \cup {NoFrame}]
      /\ NoFuture.st = "none"
  BY DEF NoFuture, FutureStates
<1>1. SlotTypes' /\ BadKnown'
  BY <1>0, BoundsAssumption DEF EndRequest, IInv, TypeOK, SlotTypes, BadKnown
<1>2. ReadEffect(t)
  BY DEF EndRequest, ReadEffect, ReadKept, ReadLeft, WantsRead
<1>3. SlotEffect(t)
  BY DEF EndRequest, SlotEffect, SlotEmptied
<1>4. outcome' \in [Ids -> Results]
  BY DEF EndRequest, IInv, TypeOK, HistoryTypes
<1> QED
  BY <1>1, <1>2, <1>3, <1>4

\* The start of close() keeps the types.
LEMMA StartCloseKeeps ==
    ASSUME NEW t \in Tasks, TypeOK, StartClose(t)
    PROVE  /\ socket' = 0 /\ QueueTypes' /\ TaskTypes' /\ OthersKeep(t)
           /\ pc'[t] \in {"idle", "closing"}
<1>1. socket' = 0 /\ QueueTypes'
  BY DEF StartClose, ClearSession, QueueTypes
<1>2. CASE socket = 0
  BY <1>1, <1>2, ReturnKeeps DEF StartClose, TypeOK
<1>3. CASE socket # 0
  <2>1. pc' \in [Tasks -> States] /\ pc'[t] = "closing"
    BY <1>3 DEF StartClose, TypeOK, TaskTypes, States
  <2>2. /\ op' \in [Tasks -> {"none", "handle", "subs", "login", "logout", "close"}]
        /\ req' \in [Tasks -> 0 .. MaxRequest] /\ at' \in [Tasks -> 0 .. MaxSession]
    BY <1>3 DEF StartClose, TypeOK, TaskTypes, ConnTypes
  <2>3. hand' \in [Tasks -> Frame \cup {NoFrame}]
    BY <1>3 DEF StartClose, TypeOK, TaskTypes
  <2>4. OthersKeep(t)
    BY <1>3 DEF StartClose, TypeOK, TaskTypes, OthersKeep
  <2> QED
    BY <1>1, <2>1, <2>2, <2>3, <2>4 DEF TaskTypes
<1> QED
  BY <1>2, <1>3

\* What follows a request inside its caller keeps the types.
LEMMA AfterRequestKeeps ==
    ASSUME NEW t \in Tasks, TypeOK, AfterRequest(t)
    PROVE  /\ socket' \in 0 .. MaxSession /\ QueueTypes' /\ TaskTypes'
           /\ OthersKeep(t) /\ pc'[t] \in {"idle", "closing"}
<1>1. CASE StartClose(t)
  BY <1>1, StartCloseKeeps, BoundsAssumption
<1>2. CASE Return(t) /\ UNCHANGED <<socket, queueVars>>
  BY <1>2, ReturnKeeps DEF TypeOK, ConnTypes, QueueTypes, queueVars
<1> QED
  BY <1>1, <1>2 DEF AfterRequest

\* Queueing a report keeps a sequence of reports.
LEMMA EnqueueType ==
    ASSUME NEW q \in Seq(Report), NEW r \in Report
    PROVE  Enqueue(q, r) \in Seq(Report)
<1>1. CASE Len(q) < MaxReports
  BY <1>1 DEF Enqueue
<1>2. CASE ~(Len(q) < MaxReports)
  <2>1. q # <<>>
    BY <1>2, BoundsAssumption
  <2>2. Tail(q) \in Seq(Report)
    BY <2>1
  <2> QED
    BY <1>2, <2>2 DEF Enqueue
<1> QED
  BY <1>1, <1>2

\* A report made of a response is a report.
LEMMA AboutType ==
    ASSUME NEW f \in Frame, NEW i \in Nat,
           NEW what \in {"rejection", "unusable", "unparsable"}
    PROVE  About(what, i, f) \in Report
  BY DEF About, Frame, Report

\* An element of a frame is a response.
LEMMA ElementType ==
    ASSUME NEW f \in Frame, NEW i \in Nat \ {0}, i <= Len(f.els)
    PROVE  f.els[i] \in Element /\ f.els[i].id \in Nat /\ f.els[i].code \in Codes
<1>1. f.els \in Seq(Element)
  BY DEF Frame
<1>2. f.els[i] \in Element
  BY <1>1
<1> QED
  BY <1>2 DEF Element

\* Queueing those of a frame's responses that reject keeps a sequence of reports.
LEMMA QueueIfRejectedType ==
    ASSUME NEW q \in Seq(Report), NEW f \in Frame, NEW i \in Nat \ {0}
    PROVE  QueueIfRejected(q, f, i) \in Seq(Report)
<1>1. CASE IsRejection(f, i)
  <2>1. About("rejection", f.els[i].id, f) \in Report
    BY <1>1, AboutType, ElementType DEF IsRejection
  <2> QED
    BY <1>1, <2>1, EnqueueType DEF QueueIfRejected
<1>2. CASE ~IsRejection(f, i)
  BY <1>2 DEF QueueIfRejected
<1> QED
  BY <1>1, <1>2

\* What a full queue drops is named by request ids.
LEMMA EvictedType ==
    ASSUME NEW q \in Seq(Report), NEW r
    PROVE  Evicted(q, r) \in SUBSET Nat
<1>1. \A i \in 1 .. Len(q) : q[i] \in Report
  OBVIOUS
<1>2. \A i \in 1 .. Len(q) : q[i].id \in Nat
  BY <1>1 DEF Report
<1> QED
  BY <1>2 DEF Evicted

\* What routing a frame, or handing it back, leaves well typed.
RoutedTypes ==
    /\ reports \in Seq(Report) /\ absorbed \in Nat
    /\ consumed \in SUBSET Nat /\ claimed \in SUBSET Ids /\ lost \in SUBSET Nat

\* Routing a frame fills at most the pending future, and keeps the types.
LEMMA RouteKeeps ==
    ASSUME NEW f \in Frame, TypeOK, ForWaiter(f), Route(f)
    PROVE  RoutedTypes' /\ taken' = taken
<1> DEFINE q1 == IF future.st = "open" THEN reports
                 ELSE QueueIfRejected(reports, f, 1)
           q2 == QueueIfRejected(q1, f, 2)
<1>1. q1 \in Seq(Report)
  BY QueueIfRejectedType DEF TypeOK, QueueTypes
<1>2. q2 \in Seq(Report)
  <2> HIDE DEF q1
  <2> QED
    BY <1>1, QueueIfRejectedType
<1>3. Evicted(reports, q1) \in SUBSET Nat
  BY EvictedType DEF TypeOK, QueueTypes
<1>4. Evicted(q1, q2) \in SUBSET Nat
  <2> HIDE DEF q1, q2
  <2> QED
    BY <1>1, EvictedType
<1>5. reports' = q2 /\ lost' = lost \cup Evicted(reports, q1) \cup Evicted(q1, q2)
  BY DEF Route
<1>6. f.num \in Nat /\ pending \in Ids
  BY BoundsAssumption DEF Frame, ForWaiter, TypeOK, SlotTypes, Ids
<1>7. consumed' \in SUBSET Nat /\ claimed' \in SUBSET Ids
  BY <1>6 DEF Route, TypeOK, HistoryTypes
<1>8. absorbed' \in Nat /\ taken' = taken
  BY DEF Route, TypeOK, QueueTypes
<1> HIDE DEF q1, q2
<1> QED
  BY <1>2, <1>3, <1>4, <1>5, <1>7, <1>8 DEF RoutedTypes, TypeOK, HistoryTypes

\* Setting a frame aside keeps the types.
LEMMA HandBackKeeps ==
    ASSUME NEW f \in Frame, TypeOK, HandBack(f)
    PROVE  RoutedTypes'
<1>1. About("unusable", 0, f) \in Report
  BY AboutType
<1>2. Enqueue(reports, About("unusable", 0, f)) \in Seq(Report)
  BY <1>1, EnqueueType DEF TypeOK, QueueTypes
<1>3. reports' \in Seq(Report) /\ absorbed' \in Nat
  BY <1>2 DEF HandBack, TypeOK, QueueTypes
<1>4. Evicted(reports, reports') \in SUBSET Nat
  BY EvictedType DEF TypeOK, QueueTypes
<1> QED
  BY <1>3, <1>4 DEF HandBack, RoutedTypes, TypeOK, HistoryTypes

\* The verdict on an answer is the code it carries.
LEMMA ValidatedType ==
    ASSUME NEW f \in Frame, ForWaiter(f)
    PROVE  Validated(f) \in Codes
<1>1. Len(f.els) # 0 /\ f.els \in Seq(Element)
  BY DEF Frame, ForWaiter
<1>2. f.els[1].code \in Codes
  BY <1>1, ElementType
<1> QED
  BY <1>2 DEF Validated, Codes

\* Failing the pending request fills its future and nothing else.
LEMMA FailPendingKeeps ==
    ASSUME NEW why \in {"broken", "bad", "readerCancelled"},
           NEW f \in Frame \cup {NoFrame}, IInv, FailPending(why, f),
           why = "bad" => f \in Frame
    PROVE  /\ future' \in [st : FutureStates, by : Frame \cup {NoFrame}]
           /\ BadKnown'
           /\ future' = future \/ (pending # 0 /\ future'.st # "none")
<1>1. CASE pending # 0 /\ future.st = "open"
  BY <1>1 DEF FailPending, FutureStates, BadKnown
<1>2. CASE ~(pending # 0 /\ future.st = "open")
  BY <1>2 DEF FailPending, BadKnown, IInv, TypeOK, SlotTypes, LocalInv
<1> QED
  BY <1>1, <1>2

\* Telling the handlers keeps the types.
LEMMA TellKeeps ==
    ASSUME NEW r \in Report, NEW d \in BOOLEAN, TypeOK, Tell(r, d)
    PROVE  told' \in Seq([report : Report, now : 0 .. MaxSession, direct : BOOLEAN])
<1>1. [report |-> r, now |-> socket, direct |-> d]
         \in [report : Report, now : 0 .. MaxSession, direct : BOOLEAN]
  BY DEF TypeOK, ConnTypes
<1> QED
  BY <1>1 DEF Tell, TypeOK, HistoryTypes

\* A new request takes a number and queues for the request lock.
LEMMA MakeRequestKeeps ==
    ASSUME NEW t \in Tasks, NEW o \in {"subs", "login", "logout"}, IInv,
           MakeRequest(t, o), pc[t] \in {"idle", "connecting"},
           UNCHANGED <<pending, future, readQ, at, hand>>
    PROVE  /\ TaskTypes' /\ SlotTypes' /\ OthersKeep(t) /\ Local(t)' /\ BadKnown'
           /\ ReadEffect(t) /\ SlotEffect(t)
<1>0. TaskTypes /\ SlotTypes
  BY DEF IInv, TypeOK
<1>1. nextId \in 0 .. MaxRequest /\ nextId \in Nat
  BY DEF MakeRequest, Ids
<1>2. TaskTypes' /\ pc'[t] = "reqlock" /\ op'[t] = o
  BY <1>0, <1>1 DEF MakeRequest, TaskTypes, States
<1>3. OthersKeep(t)
  BY <1>0 DEF MakeRequest, TaskTypes, OthersKeep
<1>4. SlotTypes'
  BY <1>0, <1>1 DEF MakeRequest, SlotTypes
<1>5. Local(t)' /\ BadKnown'
  BY <1>2 DEF Local, BadKnown, IInv, LocalInv
<1>6. ReadEffect(t)
  BY <1>2 DEF ReadEffect, ReadKept, WantsRead
<1>7. SlotEffect(t)
  BY <1>2 DEF MakeRequest, SlotEffect, SlotJoined, WantsSlot
<1> QED
  BY <1>2, <1>3, <1>4, <1>5, <1>6, <1>7

-----------------------------------------------------------------------------
(* A request. *)

\* The application calls a request.
LEMMA CallRequestStep ==
    ASSUME NEW t \in Tasks, IInv, CallRequest(t) PROVE IInv'
<1>1. PICK o \in {"subs", "logout"} : MayCall(t, o) /\ MakeRequest(t, o)
  BY DEF CallRequest
<1>2. /\ TaskTypes' /\ SlotTypes' /\ OthersKeep(t) /\ Local(t)' /\ BadKnown'
      /\ ReadEffect(t) /\ SlotEffect(t)
  BY <1>1, MakeRequestKeeps DEF CallRequest, MayCall
<1>3. ConnTypes' /\ QueueTypes' /\ VenueTypes' /\ HistoryTypes'
  BY DEF CallRequest, IInv, TypeOK, ConnTypes, QueueTypes, VenueTypes,
         HistoryTypes, connVars, queueVars, venueVars, frameHist, toldHist
<1> QED
  BY <1>2, <1>3, Assemble DEF OtherTypes

\* A step that ends t's request and touches no other lock, slot or history.
LEMMA EndedStep ==
    ASSUME NEW t \in Tasks, NEW r \in Results, IInv, EndRequest(t, r),
           WantsSlot(t), Holds(reqQ, t),
           TaskTypes', OthersKeep(t),
           pc'[t] \in {"drain", "unparsable", "idle", "closing"},
           pc'[t] = "unparsable" => hand'[t] \in Frame,
           ConnTypes', QueueTypes', VenueTypes',
           UNCHANGED <<flagged, frameHist, toldHist, cancels>>
    PROVE  IInv'
<1>1. ~WantsSlot(t)' /\ ~WantsRead(t)'
  BY DEF WantsSlot, WantsRead
<1>2. /\ SlotTypes' /\ BadKnown' /\ ReadEffect(t) /\ SlotEffect(t)
      /\ outcome' \in [Ids -> Results]
  BY <1>1, EndRequestKeeps
<1>3. HistoryTypes'
  BY <1>2 DEF IInv, TypeOK, HistoryTypes, frameHist, toldHist
<1>4. Local(t)'
  BY DEF Local
<1> QED
  BY <1>2, <1>3, <1>4, Assemble DEF OtherTypes

\* What is true of a task suspended in a request or in recv().
LEMMA Suspended ==
    ASSUME NEW t \in Tasks, IInv
    PROVE  /\ HasSlot(t) => WantsSlot(t) /\ Holds(reqQ, t) /\ pending = req[t]
           /\ pc[t] \in {"sending", "await"} => HasSlot(t) /\ op[t] # "handle"
           /\ pc[t] = "recv" /\ op[t] # "handle" => HasSlot(t)
           /\ pc[t] = "recv" => Holds(readQ, t) /\ at[t] \in Sessions
           /\ HasSlot(t) => future.st # "none"
  BY DEF IInv, SlotDiscipline, ReadLockDiscipline, LocalInv, Local, HasSlot, WantsSlot

\* The holder of the request lock starts its send.
LEMMA StartSendStep ==
    ASSUME NEW t \in Tasks, IInv, StartSend(t) PROVE IInv'
<1>1. ConnTypes' /\ QueueTypes' /\ VenueTypes'
  BY DEF StartSend, IInv, TypeOK, ConnTypes, QueueTypes, VenueTypes,
         connVars, queueVars, venueVars
<1>2. CASE socket = 0
  <2>1. EndRequest(t, "broken") /\ Goto(t, "drain") /\ WantsSlot(t) /\ Holds(reqQ, t)
    BY <1>2 DEF StartSend, WantsSlot
  <2>2. TaskTypes' /\ OthersKeep(t) /\ pc'[t] = "drain"
    BY <2>1, GotoKeeps DEF IInv, TypeOK, States
  <2> QED
    BY <1>1, <2>1, <2>2, EndedStep DEF StartSend, Results
<1>3. CASE socket # 0
  <2>0. TaskTypes /\ SlotTypes /\ socket \in 0 .. MaxSession
    BY DEF IInv, TypeOK, ConnTypes
  <2>1. TaskTypes' /\ pc'[t] = "sending" /\ op'[t] = op[t]
    BY <1>3, <2>0 DEF StartSend, TaskTypes, States
  <2>2. OthersKeep(t)
    BY <1>3, <2>0 DEF StartSend, TaskTypes, OthersKeep
  <2>3. SlotTypes' /\ BadKnown'
    BY <1>3, <2>0 DEF StartSend, SlotTypes, TaskTypes, OpenFuture, BadKnown, FutureStates
  <2>4. Local(t)'
    BY <2>1 DEF Local, IInv, LocalInv, StartSend
  <2>5. ReadEffect(t)
    BY <1>3, <2>1 DEF StartSend, ReadEffect, ReadKept, WantsRead
  <2>6. SlotEffect(t)
    BY <1>3, <2>1 DEF StartSend, SlotEffect, SlotFilled, HasSlot, WantsSlot
  <2>7. HistoryTypes'
    BY <1>3 DEF StartSend, IInv, TypeOK, HistoryTypes, frameHist, toldHist
  <2> QED
    BY <1>1, <2>1, <2>2, <2>3, <2>4, <2>5, <2>6, <2>7, Assemble DEF OtherTypes
<1> QED
  BY <1>2, <1>3

\* The frame leaves.
LEMMA TransmitStep ==
    ASSUME NEW t \in Tasks, IInv, Transmit(t) PROVE IInv'
<1>1. OtherTypes'
  BY DEF Transmit, IInv, TypeOK, OtherTypes, ConnTypes, SlotTypes, QueueTypes,
         TaskTypes, VenueTypes, HistoryTypes, connVars, slotVars, queueVars,
         taskVars, venueVars, frameHist, toldHist
<1>2. OthersKeep(t) /\ Local(t)' /\ BadKnown'
  BY DEF Transmit, OthersKeep, Local, BadKnown, IInv, LocalInv, taskVars, slotVars
<1>3. ReadEffect(t)
  BY DEF Transmit, ReadEffect, ReadKept, WantsRead
<1>4. SlotEffect(t)
  BY DEF Transmit, SlotEffect, SlotKept, WantsSlot, HasSlot, taskVars, slotVars
<1> QED
  BY <1>1, <1>2, <1>3, <1>4, Assemble

\* What the end of an answered request leaves behind.
LEMMA AnsweredKeeps ==
    ASSUME NEW t \in Tasks, IInv, Answered(t), future.st # "open"
    PROVE  /\ TaskTypes' /\ OthersKeep(t)
           /\ pc'[t] \in {"drain", "unparsable", "idle", "closing"}
           /\ pc'[t] = "unparsable" => hand'[t] \in Frame
           /\ EndRequest(t, future.st) /\ future.st \in Results
           /\ socket' \in 0 .. MaxSession /\ QueueTypes'
<1>0. /\ TypeOK /\ TaskTypes /\ EndRequest(t, future.st)
      /\ future \in [st : FutureStates, by : Frame \cup {NoFrame}]
  BY DEF IInv, TypeOK, SlotTypes, Answered
<1>1. future.st \in Results
  BY <1>0 DEF FutureStates, Results
<1>2. CASE AfterRequest(t)
  BY <1>0, <1>1, <1>2, AfterRequestKeeps
<1>3. CASE ~AfterRequest(t)
  <2>0. /\ pc' = [pc EXCEPT ![t] =
                     IF future.st = "bad" THEN "unparsable" ELSE "drain"]
        /\ hand' = [hand EXCEPT ![t] = future.by]
        /\ UNCHANGED <<op, req, at, socket, queueVars>>
    BY <1>3 DEF Answered
  <2>1. TaskTypes'
    BY <1>0, <2>0 DEF TaskTypes, States
  <2>2. OthersKeep(t)
    BY <1>0, <2>0 DEF TaskTypes, OthersKeep
  <2>3. pc'[t] = (IF future.st = "bad" THEN "unparsable" ELSE "drain")
    BY <1>0, <2>0 DEF TaskTypes
  <2>4. hand'[t] = future.by
    BY <1>0, <2>0 DEF TaskTypes
  <2>5. socket' \in 0 .. MaxSession /\ QueueTypes'
    BY <1>0, <2>0 DEF TypeOK, ConnTypes, QueueTypes, queueVars
  <2> QED
    BY <1>0, <1>1, <2>1, <2>2, <2>3, <2>4, <2>5 DEF IInv, LocalInv
<1> QED
  BY <1>2, <1>3

\* The send returns.
LEMMA SendReturnsStep ==
    ASSUME NEW t \in Tasks, IInv, SendReturns(t) PROVE IInv'
<1>1. VenueTypes'
  BY DEF SendReturns, IInv, TypeOK, VenueTypes, venueVars
<1>2. CASE future.st # "open"
  <2>1. Answered(t) /\ WantsSlot(t) /\ Holds(reqQ, t)
    BY <1>2, Suspended DEF SendReturns
  <2>2. ConnTypes' /\ QueueTypes'
    BY <1>2, <2>1, AnsweredKeeps DEF SendReturns, IInv, TypeOK, ConnTypes
  <2> QED
    BY <1>1, <1>2, <2>1, <2>2, AnsweredKeeps, EndedStep DEF SendReturns
<1>3. CASE future.st = "open"
  <2>1. /\ TaskTypes' /\ OthersKeep(t) /\ pc'[t] = "await" /\ op'[t] = op[t]
        /\ req'[t] = req[t]
    BY <1>3, GotoKeeps DEF SendReturns, IInv, TypeOK, States
  <2>2. SlotTypes' /\ BadKnown' /\ HistoryTypes'
    BY <1>3 DEF SendReturns, IInv, TypeOK, SlotTypes, HistoryTypes, LocalInv,
                BadKnown, slotVars, frameHist, toldHist
  <2>6. ConnTypes' /\ QueueTypes'
    BY <1>3 DEF SendReturns, IInv, TypeOK, ConnTypes, QueueTypes, queueVars
  <2>3. Local(t)'
    BY <2>1, Suspended DEF Local, SendReturns
  <2>4. ReadEffect(t)
    BY <1>3, <2>1 DEF SendReturns, ReadEffect, ReadJoined, WantsRead
  <2>5. SlotEffect(t)
    BY <1>3, <2>1 DEF SendReturns, SlotEffect, SlotKept, WantsSlot, HasSlot, slotVars
  <2> QED
    BY <1>1, <2>1, <2>2, <2>3, <2>4, <2>5, <2>6, Assemble DEF OtherTypes
<1> QED
  BY <1>2, <1>3

\* The send raises.
LEMMA SendFailsStep ==
    ASSUME NEW t \in Tasks, IInv, SendFails(t) PROVE IInv'
<1>1. ConnTypes' /\ QueueTypes' /\ VenueTypes'
  BY DEF SendFails, IInv, TypeOK, ConnTypes, QueueTypes, VenueTypes,
         connVars, queueVars, venueVars
<1>2. TaskTypes' /\ OthersKeep(t) /\ pc'[t] = "drain"
  BY GotoKeeps DEF SendFails, IInv, TypeOK, States
<1> QED
  BY <1>1, <1>2, Suspended, EndedStep DEF SendFails, Results

\* The future of a waiting request is done.
LEMMA ResolvedStep ==
    ASSUME NEW t \in Tasks, IInv, Resolved(t) PROVE IInv'
<1>0. Answered(t) /\ future.st # "open" /\ WantsSlot(t) /\ Holds(reqQ, t)
  BY Suspended DEF Resolved
<1>1. ConnTypes' /\ QueueTypes' /\ VenueTypes'
  BY <1>0, AnsweredKeeps DEF Resolved, IInv, TypeOK, ConnTypes, VenueTypes, venueVars
<1> QED
  BY <1>0, <1>1, AnsweredKeeps, EndedStep DEF Resolved

\* The deadline of a waiting request passes.
LEMMA TimeoutStep ==
    ASSUME NEW t \in Tasks, IInv, Timeout(t) PROVE IInv'
<1>1. ConnTypes' /\ QueueTypes' /\ VenueTypes'
  BY DEF Timeout, IInv, TypeOK, ConnTypes, QueueTypes, VenueTypes,
         connVars, queueVars, venueVars
<1>2. TaskTypes' /\ OthersKeep(t) /\ pc'[t] = "drain"
  BY GotoKeeps DEF Timeout, IInv, TypeOK, States
<1>3. WantsSlot(t) /\ Holds(reqQ, t)
  BY Suspended DEF Timeout
<1> QED
  BY <1>1, <1>2, <1>3, EndedStep DEF Timeout, Results

\* A waiting request gets the read lock.
LEMMA BecomeReaderStep ==
    ASSUME NEW t \in Tasks, IInv, BecomeReader(t) PROVE IInv'
<1>1. ConnTypes' /\ QueueTypes' /\ VenueTypes'
  BY DEF BecomeReader, IInv, TypeOK, ConnTypes, QueueTypes, VenueTypes,
         connVars, queueVars, venueVars
<1>2. WantsSlot(t) /\ Holds(reqQ, t) /\ op[t] # "handle"
  BY Suspended DEF BecomeReader
<1>3. CASE socket = 0
  <2>1. TaskTypes' /\ OthersKeep(t) /\ pc'[t] = "drain"
    BY <1>3, GotoKeeps DEF BecomeReader, IInv, TypeOK, States
  <2> QED
    BY <1>1, <1>2, <1>3, <2>1, EndedStep DEF BecomeReader, Results
<1>4. CASE socket # 0
  <2>0. TaskTypes /\ socket \in Sessions
    BY <1>4, BoundsAssumption DEF IInv, TypeOK, ConnTypes, Sessions
  <2>1. TaskTypes' /\ pc'[t] = "recv" /\ op'[t] = op[t] /\ at'[t] \in Sessions
    BY <1>4, <2>0 DEF BecomeReader, TaskTypes, States, Sessions
  <2>2. OthersKeep(t)
    BY <1>4, <2>0 DEF BecomeReader, TaskTypes, OthersKeep
  <2>3. SlotTypes' /\ BadKnown' /\ HistoryTypes'
    BY <1>4 DEF BecomeReader, IInv, TypeOK, SlotTypes, HistoryTypes, LocalInv,
                BadKnown, slotVars, frameHist, toldHist
  <2>4. Local(t)'
    BY <2>1 DEF Local
  <2>5. ReadEffect(t)
    BY <1>4, <2>1 DEF BecomeReader, ReadEffect, ReadKept, WantsRead
  <2>6. SlotEffect(t)
    BY <1>2, <1>4, <2>1 DEF BecomeReader, SlotEffect, SlotKept, WantsSlot, HasSlot, slotVars
  <2> QED
    BY <1>1, <2>1, <2>2, <2>3, <2>4, <2>5, <2>6, Assemble DEF OtherTypes
<1> QED
  BY <1>3, <1>4

-----------------------------------------------------------------------------
(* Reading. *)

\* Taking a frame from the wire keeps the types.
LEMMA TakeFromWireKeeps ==
    ASSUME NEW t \in Tasks, ConnTypes, TakeFromWire(t), at[t] \in Sessions
    PROVE  ConnTypes' /\ NextFrame(t) \in Frame
<1>1. wire[at[t]] \in Seq(Frame) /\ wire[at[t]] # <<>>
  BY DEF ConnTypes, TakeFromWire
<1>2. Head(wire[at[t]]) \in Frame /\ Tail(wire[at[t]]) \in Seq(Frame)
  BY <1>1
<1> QED
  BY <1>2 DEF ConnTypes, TakeFromWire, NextFrame

\* A waiting request reads a frame.
LEMMA RequestReadsStep ==
    ASSUME NEW t \in Tasks, IInv, RequestReads(t) PROVE IInv'
<1> DEFINE f == NextFrame(t)
<1>0. TypeOK /\ TaskTypes /\ WantsSlot(t) /\ HasSlot(t) /\ WantsRead(t)
      /\ Holds(reqQ, t) /\ pc[t] = "recv" /\ op[t] # "handle"
  BY Suspended DEF IInv, TypeOK, RequestReads, WantsRead
<1>1. ConnTypes' /\ f \in Frame
  BY TakeFromWireKeeps, Suspended DEF RequestReads, IInv, TypeOK
<1>2. VenueTypes'
  BY DEF RequestReads, IInv, TypeOK, VenueTypes, venueVars
<1>3. CASE f.kind = "bad"
  <2>0. /\ EndRequest(t, "bad") /\ pc' = [pc EXCEPT ![t] = "unparsable"]
        /\ hand' = [hand EXCEPT ![t] = f] /\ consumed' = consumed \cup {f.num}
        /\ UNCHANGED <<queueVars, op, req, at, taken, claimed, lost>>
    BY <1>3 DEF RequestReads, ForWaiter
  <2>1. TaskTypes' /\ pc'[t] = "unparsable" /\ hand'[t] \in Frame
    BY <1>0, <1>1, <2>0 DEF TaskTypes, States
  <2>2. OthersKeep(t)
    BY <1>0, <2>0 DEF TaskTypes, OthersKeep
  <2>3. ~WantsSlot(t)' /\ ~WantsRead(t)'
    BY <2>1 DEF WantsSlot, WantsRead
  <2>4. /\ SlotTypes' /\ BadKnown' /\ ReadEffect(t) /\ SlotEffect(t)
        /\ outcome' \in [Ids -> Results]
    BY <1>0, <2>0, <2>3, EndRequestKeeps DEF Results
  <2>5. f.num \in Nat
    BY <1>1 DEF Frame
  <2>6. HistoryTypes' /\ QueueTypes'
    BY <2>0, <2>4, <2>5 DEF RequestReads, IInv, TypeOK, HistoryTypes, QueueTypes, queueVars
  <2>7. Local(t)'
    BY <2>1 DEF Local
  <2> QED
    BY <1>1, <1>2, <2>1, <2>2, <2>4, <2>6, <2>7, Assemble DEF OtherTypes
<1>4. CASE ForWaiter(f)
  <2>0. /\ Route(f) /\ EndRequest(t, Validated(f)) /\ Goto(t, "drain")
        /\ UNCHANGED overflow
    BY <1>4 DEF RequestReads, ForWaiter
  <2>1. TaskTypes' /\ OthersKeep(t) /\ pc'[t] = "drain"
    BY <1>0, <2>0, GotoKeeps DEF States
  <2>2. ~WantsSlot(t)' /\ ~WantsRead(t)'
    BY <2>1 DEF WantsSlot, WantsRead
  <2>3. Validated(f) \in Results
    BY <1>1, <1>4, ValidatedType DEF Results, Codes
  <2>4. /\ SlotTypes' /\ BadKnown' /\ ReadEffect(t) /\ SlotEffect(t)
        /\ outcome' \in [Ids -> Results]
    BY <1>0, <2>0, <2>2, <2>3, EndRequestKeeps
  <2>5. RoutedTypes' /\ taken' = taken
    BY <1>0, <1>1, <1>4, <2>0, RouteKeeps
  <2>6. HistoryTypes' /\ QueueTypes'
    BY <1>0, <2>0, <2>4, <2>5
       DEF RequestReads, TypeOK, HistoryTypes, QueueTypes, RoutedTypes
  <2>7. Local(t)'
    BY <2>1 DEF Local
  <2> QED
    BY <1>1, <1>2, <2>1, <2>4, <2>6, <2>7, Assemble DEF OtherTypes
<1>5. CASE f.kind # "bad" /\ ~ForWaiter(f)
  <2>0. /\ HandBack(f) /\ overflow' = Append(overflow, f)
        /\ readQ' = Join(Leave(readQ, t), t) /\ Goto(t, "await")
        /\ UNCHANGED <<slotVars, reqQ, outcome, taken>>
    BY <1>5 DEF RequestReads, SetAside
  <2>1. /\ TaskTypes' /\ OthersKeep(t) /\ pc'[t] = "await" /\ op'[t] = op[t]
        /\ req'[t] = req[t]
    BY <1>0, <2>0, GotoKeeps DEF States
  <2>2. ReadEffect(t)
    BY <1>0, <2>0, <2>1 DEF ReadEffect, ReadRejoined
  <2>3. SlotEffect(t)
    BY <1>0, <2>0, <2>1 DEF SlotEffect, SlotKept, WantsSlot, HasSlot, slotVars
  <2>4. RoutedTypes'
    BY <1>0, <1>1, <2>0, HandBackKeeps
  <2>5. overflow' \in Seq(Frame)
    BY <1>0, <1>1, <2>0 DEF TypeOK, QueueTypes
  <2>6. HistoryTypes' /\ QueueTypes'
    BY <1>0, <2>0, <2>4, <2>5
       DEF RequestReads, TypeOK, HistoryTypes, QueueTypes, RoutedTypes
  <2>7. Local(t)' /\ BadKnown' /\ SlotTypes'
    BY <1>0, <2>0, <2>1 DEF Local, BadKnown, IInv, LocalInv, TypeOK, SlotTypes, slotVars
  <2> QED
    BY <1>1, <1>2, <2>1, <2>2, <2>3, <2>4, <2>6, <2>7, Assemble DEF OtherTypes
<1> QED
  BY <1>3, <1>4, <1>5

\* The read raises.
LEMMA RecvFailsStep ==
    ASSUME NEW t \in Tasks, IInv, RecvFails(t) PROVE IInv'
<1>1. ConnTypes' /\ QueueTypes' /\ VenueTypes'
  BY DEF RecvFails, IInv, TypeOK, ConnTypes, QueueTypes, VenueTypes,
         connVars, queueVars, venueVars
<1>2. CASE op[t] # "handle"
  <2>1. EndRequest(t, "broken") /\ Goto(t, "drain") /\ WantsSlot(t) /\ Holds(reqQ, t)
    BY <1>2, Suspended DEF RecvFails
  <2>2. TaskTypes' /\ OthersKeep(t) /\ pc'[t] = "drain"
    BY <2>1, GotoKeeps DEF IInv, TypeOK, States
  <2> QED
    BY <1>1, <2>1, <2>2, EndedStep DEF RecvFails, Results
<1>3. CASE op[t] = "handle"
  <2>0. FailPending("broken", NoFrame) /\ readQ' = Leave(readQ, t) /\ Return(t)
        /\ UNCHANGED <<nextId, pending, reqQ, outcome>>
    BY <1>3 DEF RecvFails
  <2>1. TaskTypes' /\ OthersKeep(t) /\ pc'[t] = "idle"
    BY <2>0, ReturnKeeps DEF IInv, TypeOK
  <2>2. /\ future' \in [st : FutureStates, by : Frame \cup {NoFrame}] /\ BadKnown'
        /\ future' = future \/ (pending # 0 /\ future'.st # "none")
    BY <2>0, FailPendingKeeps
  <2>3. SlotTypes' /\ HistoryTypes'
    BY <2>0, <2>2 DEF RecvFails, IInv, TypeOK, SlotTypes, HistoryTypes,
                      frameHist, toldHist
  <2>4. ReadEffect(t)
    BY <2>0, <2>1 DEF RecvFails, ReadEffect, ReadLeft, WantsRead
  <2>5. SlotEffect(t)
    BY <1>3, <2>0, <2>1, <2>2 DEF RecvFails, SlotEffect, SlotKept, WantsSlot, HasSlot
  <2>6. Local(t)'
    BY <2>1 DEF Local
  <2> QED
    BY <1>1, <2>1, <2>2, <2>3, <2>4, <2>5, <2>6, Assemble DEF OtherTypes
<1> QED
  BY <1>2, <1>3
-----------------------------------------------------------------------------
(* handle_message. *)

\* The states in which a task has nothing to do with either lock.
FreeStates == {"idle", "drain", "drainTold", "orphans", "orphanTold",
               "unparsable", "unparsableTold", "replacing", "connecting",
               "closing"}

\* A step of t between two such states that touches no lock, slot or future.
LEMMA FreeStep ==
    ASSUME NEW t \in Tasks, IInv, OthersKeep(t),
           pc[t] \in FreeStates, pc'[t] \in FreeStates,
           pc'[t] \in {"orphans", "orphanTold", "unparsable"} => hand'[t] \in Frame,
           UNCHANGED <<slotVars, readQ, reqQ>>,
           ConnTypes', QueueTypes', TaskTypes', VenueTypes', HistoryTypes'
    PROVE  IInv'
<1>1. SlotTypes' /\ BadKnown'
  BY DEF IInv, TypeOK, SlotTypes, slotVars, BadKnown, LocalInv
<1>2. ReadEffect(t)
  BY DEF ReadEffect, ReadKept, WantsRead, FreeStates
<1>3. SlotEffect(t)
  BY DEF SlotEffect, SlotKept, WantsSlot, HasSlot, FreeStates, slotVars
<1>4. Local(t)'
  BY DEF Local, FreeStates
<1> QED
  BY <1>1, <1>2, <1>3, <1>4, Assemble DEF OtherTypes

\* The application calls handle_message.
LEMMA CallHandleStep ==
    ASSUME NEW t \in Tasks, IInv, CallHandle(t) PROVE IInv'
<1>0. TaskTypes /\ socket \in 0 .. MaxSession
  BY DEF IInv, TypeOK, ConnTypes
<1>1. TaskTypes' /\ pc'[t] = "drain"
  BY <1>0 DEF CallHandle, TaskTypes, States
<1>2. OthersKeep(t)
  BY <1>0 DEF CallHandle, TaskTypes, OthersKeep
<1>3. ConnTypes' /\ QueueTypes' /\ VenueTypes' /\ HistoryTypes'
  BY DEF CallHandle, IInv, TypeOK, ConnTypes, QueueTypes, VenueTypes,
         HistoryTypes, connVars, queueVars, venueVars, frameHist, toldHist
<1> QED
  BY <1>1, <1>2, <1>3, FreeStep DEF CallHandle, FreeStates

\* What _read_and_route does for handle_message, whichever queue f is from.
LEMMA HandleKeeps ==
    ASSUME NEW t \in Tasks, NEW f \in Frame, IInv, Handle(t, f),
           WantsRead(t), op[t] = "handle"
    PROVE  /\ TaskTypes' /\ SlotTypes' /\ OthersKeep(t) /\ Local(t)' /\ BadKnown'
           /\ ReadEffect(t) /\ SlotEffect(t) /\ RoutedTypes'
           /\ taken' \in Seq(Nat) /\ outcome' = outcome
<1>0. TypeOK /\ TaskTypes /\ SlotTypes /\ socket \in 0 .. MaxSession
      /\ taken \in Seq(Nat) /\ f.num \in Nat
  BY DEF IInv, TypeOK, ConnTypes, HistoryTypes, Frame
<1>1. ~WantsSlot(t) /\ ~HasSlot(t)
  BY DEF WantsRead, WantsSlot, HasSlot, IInv, LocalInv, Local
<1>2. CASE ForWaiter(f)
  <2>0. /\ Route(f) /\ pc' = [pc EXCEPT ![t] = "drain"]
        /\ future' = IF future.st = "open"
                     THEN [st |-> Validated(f), by |-> NoFrame] ELSE future
        /\ at' = [at EXCEPT ![t] = socket]
        /\ UNCHANGED <<op, req, hand>>
    BY <1>2 DEF Handle
  <2>1. TaskTypes' /\ pc'[t] = "drain"
    BY <1>0, <2>0 DEF TaskTypes, States
  <2>2. OthersKeep(t)
    BY <1>0, <2>0 DEF TaskTypes, OthersKeep
  <2>3. Validated(f) \in Codes /\ pending # 0
    BY <1>2, ValidatedType DEF ForWaiter
  <2>4. /\ future' \in [st : FutureStates, by : Frame \cup {NoFrame}] /\ BadKnown'
        /\ future' = future \/ (pending # 0 /\ future'.st # "none")
    BY <1>0, <2>0, <2>3
       DEF SlotTypes, FutureStates, Codes, BadKnown, IInv, LocalInv
  <2>5. SlotTypes' /\ outcome' = outcome
    BY <1>0, <2>4 DEF Handle, SlotTypes
  <2>6. ReadEffect(t)
    BY <2>1 DEF Handle, ReadEffect, ReadLeft, WantsRead
  <2>7. SlotEffect(t)
    BY <1>1, <2>1, <2>4 DEF Handle, SlotEffect, SlotKept, WantsSlot, HasSlot
  <2>8. RoutedTypes' /\ taken' \in Seq(Nat)
    BY <1>0, <1>2, <2>0, RouteKeeps
  <2>9. Local(t)'
    BY <2>1 DEF Local
  <2> QED
    BY <2>1, <2>2, <2>4, <2>5, <2>6, <2>7, <2>8, <2>9
<1>3. CASE ~ForWaiter(f)
  <2>0. /\ HandBack(f) /\ taken' = Append(taken, f.num)
        /\ \/ Return(t)
           \/ /\ pc' = [pc EXCEPT ![t] = "orphans"]
              /\ hand' = [hand EXCEPT ![t] = f]
              /\ UNCHANGED <<op, req, at>>
        /\ UNCHANGED <<future, nextId, pending, reqQ, outcome>>
    BY <1>3 DEF Handle
  <2>1. /\ TaskTypes' /\ OthersKeep(t) /\ pc'[t] \in {"idle", "orphans"}
        /\ pc'[t] = "orphans" => hand'[t] \in Frame
    <3>1. CASE Return(t)
      BY <1>0, <3>1, ReturnKeeps
    <3>2. CASE /\ pc' = [pc EXCEPT ![t] = "orphans"]
               /\ hand' = [hand EXCEPT ![t] = f]
               /\ UNCHANGED <<op, req, at>>
      <4>1. TaskTypes' /\ pc'[t] = "orphans" /\ hand'[t] = f
        BY <1>0, <3>2 DEF TaskTypes, States
      <4>2. OthersKeep(t)
        BY <1>0, <3>2 DEF TaskTypes, OthersKeep
      <4> QED
        BY <4>1, <4>2
    <3> QED
      BY <2>0, <3>1, <3>2
  <2>2. ReadEffect(t)
    BY <2>1 DEF Handle, ReadEffect, ReadLeft, WantsRead
  <2>3. SlotEffect(t)
    BY <1>1, <2>0, <2>1 DEF SlotEffect, SlotKept, WantsSlot, HasSlot
  <2>4. SlotTypes' /\ BadKnown'
    BY <1>0, <2>0 DEF SlotTypes, BadKnown, IInv, LocalInv
  <2>5. RoutedTypes' /\ taken' \in Seq(Nat)
    BY <1>0, <2>0, HandBackKeeps
  <2>6. Local(t)'
    BY <2>1 DEF Local
  <2> QED
    BY <2>0, <2>1, <2>2, <2>3, <2>4, <2>5, <2>6
<1> QED
  BY <1>2, <1>3

\* handle_message takes a frame set aside, or goes to recv().
LEMMA TakeNextStep ==
    ASSUME NEW t \in Tasks, IInv, TakeNext(t) PROVE IInv'
<1>0. TypeOK /\ TaskTypes /\ WantsRead(t) /\ op[t] = "handle" /\ ~WantsSlot(t)
      /\ pc[t] = "hlock" /\ Holds(readQ, t)
  BY DEF IInv, TypeOK, TakeNext, WantsRead, WantsSlot, LocalInv, Local
<1>1. ConnTypes' /\ VenueTypes'
  BY DEF TakeNext, IInv, TypeOK, ConnTypes, VenueTypes, connVars, venueVars
<1>2. CASE socket = 0
  <2>0. /\ FailPending("broken", NoFrame) /\ readQ' = Leave(readQ, t) /\ Return(t)
        /\ UNCHANGED <<nextId, pending, reqQ, queueVars, outcome, frameHist, lost>>
    BY <1>2 DEF TakeNext
  <2>1. TaskTypes' /\ OthersKeep(t) /\ pc'[t] = "idle"
    BY <1>0, <2>0, ReturnKeeps
  <2>2. /\ future' \in [st : FutureStates, by : Frame \cup {NoFrame}] /\ BadKnown'
        /\ future' = future \/ (pending # 0 /\ future'.st # "none")
    BY <2>0, FailPendingKeeps
  <2>3. SlotTypes' /\ HistoryTypes' /\ QueueTypes'
    BY <1>0, <2>0, <2>2 DEF TakeNext, TypeOK, SlotTypes, HistoryTypes,
                            QueueTypes, frameHist, queueVars
  <2>4. ReadEffect(t)
    BY <1>0, <2>0, <2>1 DEF ReadEffect, ReadLeft, WantsRead
  <2>5. SlotEffect(t)
    BY <1>0, <2>0, <2>1, <2>2 DEF SlotEffect, SlotKept, WantsSlot, HasSlot
  <2>6. Local(t)'
    BY <2>1 DEF Local
  <2> QED
    BY <1>1, <2>1, <2>2, <2>3, <2>4, <2>5, <2>6, Assemble DEF OtherTypes
<1>3. CASE socket # 0 /\ overflow # <<>>
  <2>0. Handle(t, Head(overflow)) /\ overflow' = Tail(overflow)
    BY <1>3 DEF TakeNext
  <2>1. Head(overflow) \in Frame /\ Tail(overflow) \in Seq(Frame)
    BY <1>0, <1>3 DEF TypeOK, QueueTypes
  <2>2. /\ TaskTypes' /\ SlotTypes' /\ OthersKeep(t) /\ Local(t)' /\ BadKnown'
        /\ ReadEffect(t) /\ SlotEffect(t) /\ RoutedTypes'
        /\ taken' \in Seq(Nat) /\ outcome' = outcome
    BY <1>0, <2>0, <2>1, HandleKeeps
  <2>3. QueueTypes' /\ HistoryTypes'
    BY <1>0, <2>0, <2>1, <2>2
       DEF TakeNext, TypeOK, QueueTypes, HistoryTypes, RoutedTypes
  <2> QED
    BY <1>1, <2>2, <2>3, Assemble DEF OtherTypes
<1>4. CASE socket # 0 /\ overflow = <<>>
  <2>0. /\ pc' = [pc EXCEPT ![t] = "recv"] /\ at' = [at EXCEPT ![t] = socket]
        /\ UNCHANGED <<slotVars, readQ, reqQ, queueVars, op, req, hand,
                       outcome, frameHist, lost>>
    BY <1>4 DEF TakeNext
  <2>1. socket \in Sessions /\ socket \in 0 .. MaxSession
    BY <1>0, <1>4, BoundsAssumption DEF TypeOK, ConnTypes, Sessions
  <2>2. TaskTypes' /\ pc'[t] = "recv" /\ op'[t] = "handle" /\ at'[t] \in Sessions
    BY <1>0, <2>0, <2>1 DEF TaskTypes, States
  <2>3. OthersKeep(t)
    BY <1>0, <2>0 DEF TaskTypes, OthersKeep
  <2>4. SlotTypes' /\ BadKnown' /\ HistoryTypes' /\ QueueTypes'
    BY <1>0, <2>0 DEF TakeNext, TypeOK, SlotTypes, HistoryTypes, QueueTypes,
                      IInv, LocalInv, BadKnown, slotVars, frameHist, queueVars
  <2>5. ReadEffect(t)
    BY <1>0, <2>0, <2>2 DEF ReadEffect, ReadKept, WantsRead
  <2>6. SlotEffect(t)
    BY <1>0, <2>0, <2>2 DEF SlotEffect, SlotKept, WantsSlot, HasSlot, slotVars
  <2>7. Local(t)'
    BY <2>2 DEF Local
  <2> QED
    BY <1>1, <2>2, <2>3, <2>4, <2>5, <2>6, <2>7, Assemble DEF OtherTypes
<1> QED
  BY <1>2, <1>3, <1>4 DEF TakeNext

\* handle_message reads a frame.
LEMMA HandleReadsStep ==
    ASSUME NEW t \in Tasks, IInv, HandleReads(t) PROVE IInv'
<1> DEFINE f == NextFrame(t)
<1>0. TypeOK /\ TaskTypes /\ WantsRead(t) /\ op[t] = "handle" /\ ~WantsSlot(t)
      /\ pc[t] = "recv"
  BY DEF IInv, TypeOK, HandleReads, WantsRead, WantsSlot
<1>1. ConnTypes' /\ f \in Frame
  BY <1>0, TakeFromWireKeeps, Suspended DEF HandleReads, TypeOK
<1>2. VenueTypes'
  BY DEF HandleReads, IInv, TypeOK, VenueTypes, venueVars
<1>3. CASE f.kind # "bad"
  <2>0. Handle(t, f) /\ UNCHANGED overflow
    BY <1>3 DEF HandleReads
  <2>1. /\ TaskTypes' /\ SlotTypes' /\ OthersKeep(t) /\ Local(t)' /\ BadKnown'
        /\ ReadEffect(t) /\ SlotEffect(t) /\ RoutedTypes'
        /\ taken' \in Seq(Nat) /\ outcome' = outcome
    BY <1>0, <1>1, <2>0, HandleKeeps
  <2>2. QueueTypes' /\ HistoryTypes'
    BY <1>0, <2>0, <2>1
       DEF HandleReads, TypeOK, QueueTypes, HistoryTypes, RoutedTypes
  <2> QED
    BY <1>1, <1>2, <2>1, <2>2, Assemble DEF OtherTypes
<1>4. CASE f.kind = "bad"
  <2>0. /\ FailPending("bad", f) /\ readQ' = Leave(readQ, t)
        /\ pc' = [pc EXCEPT ![t] = "unparsable"]
        /\ hand' = [hand EXCEPT ![t] = f] /\ consumed' = consumed \cup {f.num}
        /\ UNCHANGED <<nextId, pending, reqQ, queueVars, op, req, at,
                       outcome, taken, claimed, lost>>
    BY <1>4 DEF HandleReads
  <2>1. TaskTypes' /\ pc'[t] = "unparsable" /\ hand'[t] \in Frame
    BY <1>0, <1>1, <2>0 DEF TaskTypes, States
  <2>2. OthersKeep(t)
    BY <1>0, <2>0 DEF TaskTypes, OthersKeep
  <2>3. /\ future' \in [st : FutureStates, by : Frame \cup {NoFrame}] /\ BadKnown'
        /\ future' = future \/ (pending # 0 /\ future'.st # "none")
    BY <1>1, <2>0, FailPendingKeeps
  <2>4. f.num \in Nat
    BY <1>1 DEF Frame
  <2>5. SlotTypes' /\ HistoryTypes' /\ QueueTypes'
    BY <1>0, <2>0, <2>3, <2>4 DEF HandleReads, TypeOK, SlotTypes, HistoryTypes,
                                  QueueTypes, queueVars
  <2>6. ReadEffect(t)
    BY <1>0, <2>0, <2>1 DEF ReadEffect, ReadLeft, WantsRead
  <2>7. SlotEffect(t)
    BY <1>0, <2>0, <2>1, <2>3 DEF SlotEffect, SlotKept, WantsSlot, HasSlot
  <2>8. Local(t)'
    BY <2>1 DEF Local
  <2> QED
    BY <1>1, <1>2, <2>1, <2>2, <2>3, <2>5, <2>6, <2>7, <2>8, Assemble
       DEF OtherTypes
<1> QED
  BY <1>3, <1>4

\* handle_message reports one late rejection.
LEMMA ReportOrphanStep ==
    ASSUME NEW t \in Tasks, IInv, ReportOrphan(t) PROVE IInv'
<1> DEFINE f == hand[t]
<1>0. TypeOK /\ TaskTypes /\ f \in Frame /\ f.els \in Seq(Element)
  BY DEF IInv, TypeOK, ReportOrphan, LocalInv, Local, Frame
<1>1. ConnTypes' /\ QueueTypes' /\ VenueTypes'
  BY DEF ReportOrphan, IInv, TypeOK, ConnTypes, QueueTypes, VenueTypes,
         connVars, queueVars, venueVars
<1>2. CASE f.els = <<>>
  <2>1. TaskTypes' /\ OthersKeep(t) /\ pc'[t] = "idle"
    BY <1>0, <1>2, ReturnKeeps DEF ReportOrphan
  <2>2. HistoryTypes'
    BY <1>0, <1>2 DEF ReportOrphan, TypeOK, HistoryTypes, frameHist
  <2> QED
    BY <1>1, <2>1, <2>2, FreeStep DEF ReportOrphan, FreeStates
<1>3. CASE f.els # <<>>
  <2>0. /\ hand' = [hand EXCEPT ![t].els = Tail(@)]
        /\ \/ /\ Tell(About("rejection", f.els[1].id, f), TRUE)
              /\ pc' = [pc EXCEPT ![t] = "orphanTold"]
           \/ pc' = [pc EXCEPT ![t] = "orphans"] /\ UNCHANGED told
        /\ UNCHANGED <<op, req, at>>
    BY <1>3 DEF ReportOrphan
  <2>1. [f EXCEPT !.els = Tail(@)] \in Frame
    <3> HIDE DEF f
    <3>1. Tail(f.els) \in Seq(Element)
      BY <1>0, <1>3
    <3>2. \A e \in Seq(Element) : [f EXCEPT !.els = e] \in Frame
      BY <1>0 DEF Frame
    <3> QED
      BY <3>1, <3>2
  <2>2. hand' = [hand EXCEPT ![t] = [f EXCEPT !.els = Tail(@)]]
    BY <2>0
  <2>3. hand'[t] \in Frame /\ hand' \in [Tasks -> Frame \cup {NoFrame}]
    BY <1>0, <2>1, <2>2 DEF TaskTypes
  <2>4. TaskTypes' /\ pc'[t] \in {"orphans", "orphanTold"}
    BY <1>0, <2>0, <2>3 DEF TaskTypes, States
  <2>5. OthersKeep(t)
    BY <1>0, <2>0 DEF TaskTypes, OthersKeep
  <2>6. Len(f.els) # 0
    BY <1>0, <1>3
  <2>7. f.els[1].id \in Nat
    BY <1>0, <2>6, ElementType
  <2>8. About("rejection", f.els[1].id, f) \in Report
    BY <1>0, <2>7, AboutType
  <2>9. told' \in Seq([report : Report, now : 0 .. MaxSession, direct : BOOLEAN])
    BY <1>0, <2>0, <2>8, TellKeeps DEF TypeOK, HistoryTypes
  <2>10. HistoryTypes'
    BY <1>0, <2>9 DEF ReportOrphan, TypeOK, HistoryTypes, frameHist
  <2> QED
    BY <1>1, <2>3, <2>4, <2>5, <2>10, FreeStep DEF ReportOrphan, FreeStates
<1> QED
  BY <1>2, <1>3

\* The rejections left in a frame name requests by number.
LEMMA UnreportedType ==
    ASSUME NEW f \in Frame PROVE Unreported(f) \in SUBSET Nat
<1>1. Len(f.els) \in Nat
  BY DEF Frame
<1>2. \A i \in 1 .. Len(f.els) : f.els[i].id \in Nat
  BY <1>1, ElementType
<1> QED
  BY <1>2 DEF Unreported

\* An error handler told of an orphan raises.
LEMMA OrphanHandlerRaisesStep ==
    ASSUME NEW t \in Tasks, IInv, OrphanHandlerRaises(t) PROVE IInv'
<1>0. TypeOK /\ TaskTypes /\ hand[t] \in Frame
  BY DEF IInv, TypeOK, OrphanHandlerRaises, LocalInv, Local
<1>1. ConnTypes' /\ QueueTypes' /\ VenueTypes'
  BY <1>0 DEF OrphanHandlerRaises, TypeOK, ConnTypes, QueueTypes, VenueTypes,
              connVars, queueVars, venueVars
<1>2. TaskTypes' /\ OthersKeep(t) /\ pc'[t] = "idle"
  BY <1>0, ReturnKeeps DEF OrphanHandlerRaises
<1>3. HistoryTypes'
  BY <1>0, UnreportedType DEF OrphanHandlerRaises, TypeOK, HistoryTypes, frameHist
<1> QED
  BY <1>1, <1>2, <1>3, FreeStep DEF OrphanHandlerRaises, FreeStates
-----------------------------------------------------------------------------
(* Reports. *)

\* handle_message reports a frame it cannot parse.
LEMMA ReportUnparsableStep ==
    ASSUME NEW t \in Tasks, IInv, ReportUnparsable(t) PROVE IInv'
<1>0. TypeOK /\ TaskTypes /\ hand[t] \in Frame
  BY DEF IInv, TypeOK, ReportUnparsable, LocalInv, Local
<1>1. ConnTypes' /\ QueueTypes' /\ VenueTypes'
  BY DEF ReportUnparsable, IInv, TypeOK, ConnTypes, QueueTypes, VenueTypes,
         connVars, queueVars, venueVars
<1>2. TaskTypes' /\ OthersKeep(t) /\ pc'[t] \in {"idle", "drain", "unparsableTold"}
  BY <1>0, ReturnKeeps, GotoKeeps DEF ReportUnparsable, States
<1>3. HistoryTypes'
  <2>1. CASE FirstSight(hand[t])
    <3>1. About("unparsable", 0, hand[t]) \in Report
      BY <1>0, AboutType
    <3>2. told' \in Seq([report : Report, now : 0 .. MaxSession, direct : BOOLEAN])
      BY <1>0, <2>1, <3>1, TellKeeps DEF ReportUnparsable
    <3>3. hand[t].ses \in 0 .. MaxSession /\ hand[t].num \in Nat
      BY <1>0, BoundsAssumption DEF Frame, Sessions
    <3>4. flagged' \in SUBSET ((0 .. MaxSession) \X Nat)
      BY <1>0, <2>1, <3>3 DEF ReportUnparsable, TypeOK, HistoryTypes
    <3> QED
      BY <1>0, <3>2, <3>4 DEF ReportUnparsable, TypeOK, HistoryTypes, frameHist
  <2>2. CASE ~FirstSight(hand[t])
    BY <1>0, <2>2 DEF ReportUnparsable, TypeOK, HistoryTypes, frameHist
  <2> QED
    BY <2>1, <2>2
<1> QED
  BY <1>1, <1>2, <1>3, FreeStep DEF ReportUnparsable, FreeStates

\* That report was told.
LEMMA UnparsableToldStep ==
    ASSUME NEW t \in Tasks, IInv, UnparsableTold(t) PROVE IInv'
<1>1. ConnTypes' /\ QueueTypes' /\ VenueTypes' /\ HistoryTypes'
  BY DEF UnparsableTold, IInv, TypeOK, ConnTypes, QueueTypes, VenueTypes,
         HistoryTypes, connVars, queueVars, venueVars, frameHist, toldHist
<1>2. TaskTypes' /\ OthersKeep(t) /\ pc'[t] = "drain"
  BY GotoKeeps DEF UnparsableTold, IInv, TypeOK, States
<1> QED
  BY <1>1, <1>2, FreeStep DEF UnparsableTold, FreeStates

\* One queued report is told.
LEMMA DrainOneStep ==
    ASSUME NEW t \in Tasks, IInv, DrainOne(t) PROVE IInv'
<1>0. TypeOK /\ TaskTypes /\ reports \in Seq(Report) /\ reports # <<>>
  BY DEF IInv, TypeOK, QueueTypes, DrainOne
<1>1. Head(reports) \in Report /\ Tail(reports) \in Seq(Report)
  BY <1>0
<1>2. told' \in Seq([report : Report, now : 0 .. MaxSession, direct : BOOLEAN])
  BY <1>0, <1>1, TellKeeps DEF DrainOne
<1>3. HistoryTypes'
  BY <1>0, <1>2 DEF DrainOne, TypeOK, HistoryTypes, frameHist
<1>4. ConnTypes' /\ QueueTypes' /\ VenueTypes'
  BY <1>0, <1>1 DEF DrainOne, TypeOK, ConnTypes, QueueTypes, VenueTypes,
                    connVars, venueVars
<1>5. TaskTypes' /\ OthersKeep(t) /\ pc'[t] = "drainTold"
  BY <1>0, GotoKeeps DEF DrainOne, States
<1> QED
  BY <1>3, <1>4, <1>5, FreeStep DEF DrainOne, FreeStates

\* None is left.
LEMMA DrainedStep ==
    ASSUME NEW t \in Tasks, IInv, Drained(t) PROVE IInv'
<1>0. TypeOK /\ TaskTypes
  BY DEF IInv, TypeOK
<1>1. VenueTypes' /\ HistoryTypes'
  BY <1>0 DEF Drained, TypeOK, VenueTypes, HistoryTypes, venueVars, frameHist, toldHist
<1>2. CASE op[t] # "handle" /\ AfterRequest(t) /\ UNCHANGED readQ
  <2>1. /\ socket' \in 0 .. MaxSession /\ QueueTypes' /\ TaskTypes'
        /\ OthersKeep(t) /\ pc'[t] \in {"idle", "closing"}
    BY <1>0, <1>2, AfterRequestKeeps
  <2>2. ConnTypes'
    BY <1>0, <2>1 DEF Drained, TypeOK, ConnTypes
  <2> QED
    BY <1>1, <1>2, <2>1, <2>2, FreeStep DEF Drained, FreeStates
<1>3. CASE Return(t) /\ UNCHANGED <<readQ, socket, queueVars>>
  <2>1. TaskTypes' /\ OthersKeep(t) /\ pc'[t] = "idle"
    BY <1>0, <1>3, ReturnKeeps
  <2>2. ConnTypes' /\ QueueTypes'
    BY <1>0, <1>3 DEF Drained, TypeOK, ConnTypes, QueueTypes, queueVars
  <2> QED
    BY <1>1, <1>3, <2>1, <2>2, FreeStep DEF Drained, FreeStates
<1>4. CASE /\ op[t] = "handle" /\ readQ' = Join(readQ, t) /\ Goto(t, "hlock")
           /\ UNCHANGED <<socket, queueVars>>
  <2>1. TaskTypes' /\ OthersKeep(t) /\ pc'[t] = "hlock" /\ op'[t] = "handle"
    BY <1>0, <1>4, GotoKeeps DEF States
  <2>2. ConnTypes' /\ QueueTypes' /\ SlotTypes' /\ BadKnown'
    BY <1>0, <1>4 DEF Drained, TypeOK, ConnTypes, QueueTypes, queueVars, SlotTypes,
                      slotVars, BadKnown, IInv, LocalInv
  <2>3. ReadEffect(t)
    BY <1>4, <2>1 DEF Drained, ReadEffect, ReadJoined, WantsRead
  <2>4. SlotEffect(t)
    BY <1>4, <2>1 DEF Drained, SlotEffect, SlotKept, WantsSlot, HasSlot, slotVars
  <2>5. Local(t)'
    BY <2>1 DEF Local
  <2> QED
    BY <1>1, <2>1, <2>2, <2>3, <2>4, <2>5, Assemble DEF OtherTypes
<1> QED
  BY <1>2, <1>3, <1>4 DEF Drained

\* An error handler raises.
LEMMA HandlerRaisesStep ==
    ASSUME NEW t \in Tasks, IInv, HandlerRaises(t) PROVE IInv'
<1>0. TypeOK /\ TaskTypes
  BY DEF IInv, TypeOK
<1>1. VenueTypes' /\ HistoryTypes'
  BY <1>0 DEF HandlerRaises, TypeOK, VenueTypes, HistoryTypes, venueVars,
              frameHist, toldHist
<1>2. /\ socket' \in 0 .. MaxSession /\ QueueTypes' /\ TaskTypes'
      /\ OthersKeep(t) /\ pc'[t] \in {"idle", "closing"}
  BY <1>0, AfterRequestKeeps, ReturnKeeps
     DEF HandlerRaises, TypeOK, ConnTypes, QueueTypes, queueVars
<1>3. ConnTypes'
  BY <1>0, <1>2 DEF HandlerRaises, TypeOK, ConnTypes
<1> QED
  BY <1>1, <1>2, <1>3, FreeStep DEF HandlerRaises, FreeStates

-----------------------------------------------------------------------------
(* Connections. *)

\* The application calls login.
LEMMA CallLoginStep ==
    ASSUME NEW t \in Tasks, IInv, CallLogin(t) PROVE IInv'
<1>0. TypeOK /\ TaskTypes /\ socket \in 0 .. MaxSession
  BY DEF IInv, TypeOK, ConnTypes
<1>1. TaskTypes' /\ pc'[t] \in {"connecting", "replacing"}
  BY <1>0 DEF CallLogin, TaskTypes, States
<1>2. OthersKeep(t)
  BY <1>0 DEF CallLogin, TaskTypes, OthersKeep
<1>3. ConnTypes' /\ QueueTypes' /\ VenueTypes' /\ HistoryTypes'
  BY <1>0, BoundsAssumption
     DEF CallLogin, TypeOK, ConnTypes, QueueTypes, VenueTypes, HistoryTypes,
         queueVars, venueVars, frameHist, toldHist
<1> QED
  BY <1>1, <1>2, <1>3, FreeStep DEF CallLogin, MayCall, FreeStates

\* login has closed the previous socket.
LEMMA PreviousClosedStep ==
    ASSUME NEW t \in Tasks, IInv, PreviousClosed(t) PROVE IInv'
<1>0. TypeOK /\ TaskTypes
  BY DEF IInv, TypeOK
<1>1. TaskTypes' /\ OthersKeep(t) /\ pc'[t] = "connecting"
  BY <1>0, GotoKeeps DEF PreviousClosed, States
<1>2. ConnTypes' /\ QueueTypes' /\ VenueTypes' /\ HistoryTypes'
  BY <1>0 DEF PreviousClosed, TypeOK, ConnTypes, QueueTypes, VenueTypes,
              HistoryTypes, queueVars, venueVars, frameHist, toldHist
<1> QED
  BY <1>1, <1>2, FreeStep DEF PreviousClosed, FreeStates

\* login has its connection.
LEMMA ConnectedStep ==
    ASSUME NEW t \in Tasks, IInv, Connected(t) PROVE IInv'
<1>0. TypeOK
  BY DEF IInv
<1>1. /\ TaskTypes' /\ SlotTypes' /\ OthersKeep(t) /\ Local(t)' /\ BadKnown'
      /\ ReadEffect(t) /\ SlotEffect(t)
  BY MakeRequestKeeps DEF Connected
<1>2. ConnTypes'
  <2>1. PICK s \in Sessions : conn' = [conn EXCEPT ![s] = "open"] /\ socket' = s
    BY DEF Connected
  <2>2. s \in 0 .. MaxSession
    BY BoundsAssumption DEF Sessions
  <2> QED
    BY <1>0, <2>1, <2>2 DEF Connected, TypeOK, ConnTypes
<1>3. QueueTypes' /\ VenueTypes'
  BY <1>0 DEF Connected, ClearSession, TypeOK, QueueTypes, VenueTypes, venueVars
<1>4. HistoryTypes'
  BY <1>0 DEF Connected, TypeOK, HistoryTypes, toldHist
<1> QED
  BY <1>1, <1>2, <1>3, <1>4, Assemble DEF OtherTypes

\* The connection cannot be opened.
LEMMA ConnectFailsStep ==
    ASSUME NEW t \in Tasks, IInv, ConnectFails(t) PROVE IInv'
<1>0. TypeOK /\ TaskTypes
  BY DEF IInv, TypeOK
<1>1. TaskTypes' /\ OthersKeep(t) /\ pc'[t] = "idle"
  BY <1>0, ReturnKeeps DEF ConnectFails
<1>2. ConnTypes' /\ QueueTypes' /\ VenueTypes' /\ HistoryTypes'
  BY <1>0 DEF ConnectFails, TypeOK, ConnTypes, QueueTypes, VenueTypes,
              HistoryTypes, connVars, queueVars, venueVars, frameHist, toldHist
<1> QED
  BY <1>1, <1>2, FreeStep DEF ConnectFails, FreeStates

\* The application calls close or leaves the context.
LEMMA CallCloseStep ==
    ASSUME NEW t \in Tasks, IInv, CallClose(t) PROVE IInv'
<1>0. TypeOK
  BY DEF IInv
<1>1. /\ socket' = 0 /\ QueueTypes' /\ TaskTypes' /\ OthersKeep(t)
      /\ pc'[t] \in {"idle", "closing"}
  BY <1>0, StartCloseKeeps DEF CallClose
<1>2. ConnTypes' /\ VenueTypes' /\ HistoryTypes'
  BY <1>0, <1>1, BoundsAssumption
     DEF CallClose, TypeOK, ConnTypes, VenueTypes, HistoryTypes, venueVars,
         frameHist, toldHist
<1> QED
  BY <1>1, <1>2, FreeStep DEF CallClose, MayCall, FreeStates

\* The socket is closed.
LEMMA ClosedStep ==
    ASSUME NEW t \in Tasks, IInv, Closed(t) PROVE IInv'
<1>0. TypeOK /\ TaskTypes
  BY DEF IInv, TypeOK
<1>1. TaskTypes' /\ OthersKeep(t) /\ pc'[t] = "idle"
  BY <1>0, ReturnKeeps DEF Closed
<1>2. ConnTypes' /\ QueueTypes' /\ VenueTypes' /\ HistoryTypes'
  BY <1>0 DEF Closed, TypeOK, ConnTypes, QueueTypes, VenueTypes,
              HistoryTypes, queueVars, venueVars, frameHist, toldHist
<1> QED
  BY <1>1, <1>2, FreeStep DEF Closed, FreeStates
-----------------------------------------------------------------------------
(* Cancellation. *)

\* What every cancellation leaves alone.
CancelFrame ==
    /\ cancels' = cancels + 1
    /\ UNCHANGED <<wire, sent, flagged, venueVars, frameHist, told>>

\* A cancellation keeps the types of what no task holds.
LEMMA CancelTypes ==
    ASSUME TypeOK, CancelFrame, socket' \in 0 .. MaxSession,
           conn' \in [Sessions -> {"none", "open", "closed"}],
           outcome' \in [Ids -> Results], lost' \in SUBSET Nat
    PROVE  ConnTypes' /\ VenueTypes' /\ HistoryTypes'
<1>1. cancels' \in Nat
  BY DEF CancelFrame, TypeOK, HistoryTypes
<1> QED
  BY <1>1 DEF CancelFrame, TypeOK, ConnTypes, VenueTypes, HistoryTypes,
              venueVars, frameHist

\* A request is cancelled at one of its awaits.
LEMMA CancelRequestStep ==
    ASSUME NEW t \in Tasks, IInv, CancelRequest(t), CancelFrame PROVE IInv'
<1>0. TypeOK
  BY DEF IInv
<1>1. /\ socket' \in 0 .. MaxSession /\ QueueTypes' /\ TaskTypes'
      /\ OthersKeep(t) /\ pc'[t] \in {"idle", "closing"}
  BY <1>0, AfterRequestKeeps DEF CancelRequest
<1>2. ~WantsSlot(t)' /\ ~WantsRead(t)' /\ Local(t)'
  BY <1>1 DEF WantsSlot, WantsRead, Local
<1>3. CASE pc[t] = "reqlock"
  <2>0. /\ reqQ' = Leave(reqQ, t)
        /\ outcome' = [outcome EXCEPT ![req[t]] = "cancelled"]
        /\ UNCHANGED <<slotVars, readQ>>
    BY <1>3 DEF CancelRequest
  <2>1. outcome' \in [Ids -> Results]
    BY <1>0, <2>0 DEF TypeOK, HistoryTypes, Results
  <2>2. ConnTypes' /\ VenueTypes' /\ HistoryTypes'
    BY <1>0, <1>1, <2>1, CancelTypes DEF CancelRequest, TypeOK, ConnTypes, HistoryTypes
  <2>3. ReadEffect(t)
    BY <1>1, <1>2, <1>3, <2>0 DEF ReadEffect, ReadKept, WantsRead
  <2>4. SlotEffect(t)
    BY <1>2, <1>3, <2>0 DEF SlotEffect, SlotQuit, slotVars
  <2>5. SlotTypes' /\ BadKnown'
    BY <1>0, <2>0 DEF TypeOK, SlotTypes, slotVars, BadKnown, IInv, LocalInv
  <2> QED
    BY <1>1, <1>2, <2>2, <2>3, <2>4, <2>5, Assemble DEF OtherTypes
<1>4. CASE pc[t] # "reqlock"
  <2>0. EndRequest(t, "cancelled") /\ HasSlot(t) /\ WantsSlot(t) /\ Holds(reqQ, t)
    BY <1>4, Suspended DEF CancelRequest, HasSlot
  <2>1. /\ SlotTypes' /\ BadKnown' /\ ReadEffect(t) /\ SlotEffect(t)
        /\ outcome' \in [Ids -> Results]
    BY <1>2, <2>0, EndRequestKeeps DEF Results
  <2>2. ConnTypes' /\ VenueTypes' /\ HistoryTypes'
    BY <1>0, <1>1, <2>1, CancelTypes DEF CancelRequest, TypeOK, ConnTypes, HistoryTypes
  <2> QED
    BY <1>1, <1>2, <2>1, <2>2, Assemble DEF OtherTypes
<1> QED
  BY <1>3, <1>4

\* A task is cancelled while it tells reports.
LEMMA CancelDrainStep ==
    ASSUME NEW t \in Tasks, IInv, CancelDrain(t), CancelFrame PROVE IInv'
<1>0. TypeOK
  BY DEF IInv
<1>1. /\ socket' \in 0 .. MaxSession /\ QueueTypes' /\ TaskTypes'
      /\ OthersKeep(t) /\ pc'[t] \in {"idle", "closing"}
  BY <1>0, AfterRequestKeeps DEF CancelDrain
<1>2. outcome' \in [Ids -> Results]
  BY <1>0 DEF CancelDrain, TypeOK, HistoryTypes, Results
<1>3. ConnTypes' /\ VenueTypes' /\ HistoryTypes'
  BY <1>0, <1>1, <1>2, CancelTypes DEF CancelDrain, TypeOK, ConnTypes, HistoryTypes
<1> QED
  BY <1>1, <1>3, FreeStep DEF CancelDrain, FreeStates

\* handle_message is cancelled.
LEMMA CancelHandleStep ==
    ASSUME NEW t \in Tasks, IInv, CancelHandle(t), CancelFrame PROVE IInv'
<1>0. TypeOK /\ TaskTypes
  BY DEF IInv, TypeOK
<1>1. TaskTypes' /\ OthersKeep(t) /\ pc'[t] = "idle"
  BY <1>0, ReturnKeeps DEF CancelHandle
<1>2. QueueTypes' /\ ~WantsSlot(t)' /\ ~WantsRead(t)' /\ Local(t)' /\ ~HasSlot(t)'
  BY <1>0, <1>1 DEF CancelHandle, TypeOK, QueueTypes, queueVars, WantsSlot,
                    WantsRead, HasSlot, Local
<1>3. ~WantsSlot(t) /\ ~HasSlot(t)
  BY DEF CancelHandle, WantsSlot, HasSlot, IInv, LocalInv, Local
<1>4. lost' \in SUBSET Nat
  <2>2. CASE pc[t] = "orphanTold"
    <3>1. hand[t] \in Frame
      BY <2>2 DEF IInv, LocalInv, Local
    <3>2. lost \in SUBSET Nat /\ lost' = lost \cup Unreported(hand[t])
      BY <1>0, <2>2 DEF TypeOK, HistoryTypes, CancelHandle
    <3> QED
      BY <3>1, <3>2, UnreportedType
  <2>3. CASE pc[t] # "orphanTold"
    BY <1>0, <2>3 DEF CancelHandle, TypeOK, HistoryTypes
  <2> QED
    BY <2>2, <2>3
<1>5. ConnTypes' /\ VenueTypes' /\ HistoryTypes'
  BY <1>0, <1>4, CancelTypes DEF CancelHandle, TypeOK, ConnTypes, HistoryTypes
<1>6. /\ future' \in [st : FutureStates, by : Frame \cup {NoFrame}] /\ BadKnown'
      /\ future' = future \/ (pending # 0 /\ future'.st # "none")
  <2>1. CASE future' = future
    BY <1>0, <2>1 DEF TypeOK, SlotTypes, BadKnown, IInv, LocalInv
  <2>2. CASE FailPending("readerCancelled", NoFrame)
    BY <2>2, FailPendingKeeps
  <2> QED
    BY <2>1, <2>2 DEF CancelHandle
<1>7. SlotTypes'
  BY <1>0, <1>6 DEF CancelHandle, TypeOK, SlotTypes
<1>8. ReadEffect(t)
  BY <1>1, <1>2 DEF CancelHandle, ReadEffect, ReadKept, ReadLeft, WantsRead
<1>9. SlotEffect(t)
  BY <1>2, <1>3, <1>6 DEF CancelHandle, SlotEffect, SlotKept
<1> QED
  BY <1>1, <1>2, <1>5, <1>6, <1>7, <1>8, <1>9, Assemble DEF OtherTypes

\* login or close is cancelled.
LEMMA CancelConnectionStep ==
    ASSUME NEW t \in Tasks, IInv, CancelConnection(t), CancelFrame PROVE IInv'
<1>0. TypeOK /\ TaskTypes
  BY DEF IInv, TypeOK
<1>1. TaskTypes' /\ OthersKeep(t) /\ pc'[t] = "idle" /\ QueueTypes'
  BY <1>0, ReturnKeeps DEF CancelConnection, TypeOK, QueueTypes, queueVars
<1>2. ConnTypes' /\ VenueTypes' /\ HistoryTypes'
  BY <1>0, CancelTypes DEF CancelConnection, TypeOK, ConnTypes, HistoryTypes
<1> QED
  BY <1>1, <1>2, FreeStep DEF CancelConnection, FreeStates

\* Cancellation, wherever it strikes.
LEMMA CancelStep ==
    ASSUME NEW t \in Tasks, IInv, Cancel(t) PROVE IInv'
<1>1. CancelFrame
  BY DEF Cancel, CancelFrame
<1> QED
  BY <1>1, CancelRequestStep, CancelDrainStep, CancelHandleStep,
     CancelConnectionStep DEF Cancel
-----------------------------------------------------------------------------
(* The venue. *)

\* A step that changes only the connection and the venue keeps the invariant.
LEMMA TasksKept ==
    ASSUME IInv, UNCHANGED <<slotVars, readQ, reqQ, queueVars, flagged, pc,
                             taskVars, outcome, frameHist, toldHist, cancels>>,
           ConnTypes', VenueTypes'
    PROVE  IInv'
<1>1. SlotTypes' /\ LockTypes' /\ QueueTypes' /\ TaskTypes' /\ HistoryTypes'
  BY DEF IInv, TypeOK, SlotTypes, LockTypes, QueueTypes, TaskTypes, HistoryTypes,
         slotVars, queueVars, taskVars, frameHist, toldHist
<1>2. ReadLockDiscipline'
  BY DEF IInv, ReadLockDiscipline, WantsRead, NoneTwice, Queued, Holds
<1>3. SlotDiscipline'
  BY DEF IInv, SlotDiscipline, WantsSlot, HasSlot, NoneTwice, Queued, Holds,
         NoFuture, slotVars, taskVars
<1>4. LocalInv'
  BY DEF IInv, LocalInv, Local, slotVars, taskVars
<1> QED
  BY <1>1, <1>2, <1>3, <1>4 DEF IInv, TypeOK

\* A frame the venue sends keeps the types.
LEMMA SendKeeps ==
    ASSUME NEW s \in Sessions, NEW kind \in {"data", "resp", "bad"},
           NEW els \in Seq(Element), TypeOK, Send(s, kind, els)
    PROVE  ConnTypes'
<1>0. ConnTypes /\ sent[s] \in Nat
  BY DEF TypeOK, ConnTypes
<1> DEFINE f == [kind |-> kind, els |-> els, ses |-> s, num |-> sent[s] + 1]
<1>1. f \in Frame
  BY <1>0 DEF Frame
<1>2. wire' = [wire EXCEPT ![s] = Append(@, f)]
  BY DEF Send
<1> HIDE DEF f
<1>3. wire' \in [Sessions -> Seq(Frame)]
  BY <1>0, <1>1, <1>2 DEF ConnTypes
<1> QED
  BY <1>0, <1>3 DEF Send, ConnTypes

\* The steps of the venue keep the invariant.
LEMMA VenueStepKeeps ==
    ASSUME NEW s \in Sessions, IInv, VenueStep(s) PROVE IInv'
<1>0. TypeOK /\ Ids \subseteq Nat
  BY DEF IInv, Ids
<1>1. CASE VenueAnswers(s)
  <2>1. PICK i \in Ids, c \in Verdicts :
           /\ Send(s, "resp", <<[id |-> i, code |-> c]>>)
           /\ verdict' = [verdict EXCEPT ![i] = c]
    BY <1>1 DEF VenueAnswers
  <2>2. c \in Codes
    BY VenueAssumption
  <2>3. <<[id |-> i, code |-> c]>> \in Seq(Element)
    BY <1>0, <2>2 DEF Element
  <2>4. ConnTypes' /\ VenueTypes'
    BY <1>0, <2>1, <2>2, <2>3, SendKeeps DEF Send, TypeOK, VenueTypes
  <2> QED
    BY <2>1, <2>4, TasksKept DEF Send
<1>2. CASE VenueBatches(s)
  <2>1. PICK i \in Ids, j \in Ids, c \in Verdicts, d \in Verdicts :
           /\ Send(s, "resp", <<[id |-> i, code |-> c], [id |-> j, code |-> d]>>)
           /\ verdict' = [verdict EXCEPT ![i] = c, ![j] = d]
    BY <1>2 DEF VenueBatches
  <2>2. c \in Codes /\ d \in Codes
    BY VenueAssumption
  <2>3. <<[id |-> i, code |-> c], [id |-> j, code |-> d]>> \in Seq(Element)
    BY <1>0, <2>2 DEF Element
  <2>4. ConnTypes' /\ VenueTypes'
    BY <1>0, <2>1, <2>2, <2>3, SendKeeps DEF Send, TypeOK, VenueTypes
  <2> QED
    BY <2>1, <2>4, TasksKept DEF Send
<1>3. CASE VenueSends(s)
  <2>1. PICK u \in Unsolicited : Send(s, u.kind, u.els) /\ UNCHANGED verdict
    BY <1>3 DEF VenueSends
  <2>2. u.kind \in {"data", "resp", "bad"} /\ u.els \in Seq(Element)
    BY VenueAssumption
  <2>3. ConnTypes' /\ VenueTypes'
    BY <1>0, <2>1, <2>2, SendKeeps DEF Send, TypeOK, VenueTypes
  <2> QED
    BY <2>1, <2>3, TasksKept DEF Send
<1>4. CASE Disconnect(s)
  <2>1. ConnTypes' /\ VenueTypes'
    BY <1>0, <1>4 DEF Disconnect, TypeOK, ConnTypes, VenueTypes, venueVars
  <2> QED
    BY <1>4, <2>1, TasksKept DEF Disconnect
<1> QED
  BY <1>1, <1>2, <1>3, <1>4 DEF VenueStep
-----------------------------------------------------------------------------
\* The invariant holds at the start, ...
LEMMA InitIInv == Init => IInv
<1> SUFFICES ASSUME Init PROVE IInv
  OBVIOUS
<1>1. ConnTypes /\ QueueTypes /\ LockTypes /\ VenueTypes
  BY BoundsAssumption DEF Init, ConnTypes, QueueTypes, LockTypes, VenueTypes, Unlocked
<1>2. NoFuture \in [st : FutureStates, by : Frame \cup {NoFrame}] /\ NoFuture.st = "none"
  BY DEF NoFuture, FutureStates
<1>3. SlotTypes
  BY <1>2, BoundsAssumption DEF Init, SlotTypes
<1>4. TaskTypes
  BY BoundsAssumption DEF Init, TaskTypes, States
<1>5. HistoryTypes
  BY DEF Init, HistoryTypes, Results
<1>6. \A t \in Tasks : ~WantsRead(t) /\ ~WantsSlot(t) /\ ~HasSlot(t) /\ Local(t)
                       /\ pc[t] # "recv"
  BY DEF Init, WantsRead, WantsSlot, HasSlot, Local
<1>7. Queued(<<>>) = {} /\ NoneTwice(<<>>)
  BY DEF Queued, NoneTwice
<1>8. ReadLockDiscipline /\ SlotDiscipline
  BY <1>6, <1>7 DEF Init, ReadLockDiscipline, SlotDiscipline, Unlocked
<1> QED
  BY <1>1, <1>2, <1>3, <1>4, <1>5, <1>6, <1>8 DEF Init, IInv, TypeOK, LocalInv

\* ... and every step keeps it.
LEMMA StepIInv == IInv /\ [Next]_vars => IInv'
<1> SUFFICES ASSUME IInv, [Next]_vars PROVE IInv'
  OBVIOUS
<1>1. ASSUME NEW t \in Tasks, RequestStep(t) PROVE IInv'
  BY <1>1, StartSendStep, TransmitStep, SendReturnsStep, SendFailsStep,
     ResolvedStep, BecomeReaderStep, TimeoutStep, RequestReadsStep DEF RequestStep
<1>2. ASSUME NEW t \in Tasks, HandleStep(t) PROVE IInv'
  BY <1>2, TakeNextStep, HandleReadsStep, ReportOrphanStep,
     OrphanHandlerRaisesStep DEF HandleStep
<1>3. ASSUME NEW t \in Tasks, SharedStep(t) PROVE IInv'
  BY <1>3, RecvFailsStep, ReportUnparsableStep, UnparsableToldStep, DrainOneStep,
     DrainedStep, HandlerRaisesStep DEF SharedStep
<1>4. ASSUME NEW t \in Tasks, ConnectionStep(t) PROVE IInv'
  BY <1>4, PreviousClosedStep, ConnectedStep, ConnectFailsStep, ClosedStep
     DEF ConnectionStep
<1>5. ASSUME NEW t \in Tasks, CallStep(t) PROVE IInv'
  BY <1>5, CallRequestStep, CallHandleStep, CallLoginStep, CallCloseStep DEF CallStep
<1>6. CASE UNCHANGED vars
  BY <1>6, TasksKept DEF vars, connVars, slotVars, queueVars, taskVars, venueVars,
     frameHist, toldHist, IInv, TypeOK, ConnTypes, VenueTypes
<1> QED
  BY <1>1, <1>2, <1>3, <1>4, <1>5, <1>6, CancelStep, VenueStepKeeps DEF Next

\* The inductive invariant holds throughout every behaviour.
THEOREM Invariance == Spec => []IInv
<1> QED
  BY InitIInv, StepIInv, PTL DEF Spec

\* Every variable keeps its type, whatever the tasks, bounds and frames.
THEOREM TypeCorrect == Spec => []TypeOK
<1>1. IInv => TypeOK
  BY DEF IInv
<1> QED
  BY <1>1, Invariance, PTL

\* The read lock is never leaked and never shared, so at most one task is ever
\* inside recv() (_read_lock, "websockets raises if two coroutines call recv()
\* concurrently").
THEOREM ReadLockCorrect == Spec => []ReadLockDiscipline
<1>1. IInv => ReadLockDiscipline
  BY DEF IInv
<1> QED
  BY <1>1, Invariance, PTL

\* One request is outstanding at a time, and the pending slot is filled exactly
\* while the holder of the request lock waits for its answer
\* (_request_lock, _pending_request).
THEOREM SlotCorrect == Spec => []SlotDiscipline
<1>1. IInv => SlotDiscipline
  BY DEF IInv
<1> QED
  BY <1>1, Invariance, PTL

-----------------------------------------------------------------------------
(***************************************************************************)
(* The answers: a request is told only what the venue answered to that     *)
(* very request.                                                           *)
(***************************************************************************)

\* The venue also sends responses to requests nobody made.
Strangers == \E u \in Unsolicited : u.els # <<>>

\* What a request may be told, if it is told an answer.
Truthful(i, r) == r = verdict[i] \/ (r = "wrong" /\ Strangers)

\* The response a frame begins with answers a request that was made, as the
\* venue decided it, or names none.
Honest(f) ==
    f.els # <<>> =>
        IF f.els[1].id \in Ids
        THEN f.els[1].id < nextId /\ verdict[f.els[1].id] = f.els[1].code
        ELSE Strangers

AllHonest(q) == \A k \in 1 .. Len(q) : Honest(q[k])

NumbersKnown ==
    /\ \A t \in Tasks : req[t] < nextId
    /\ \A i \in Ids : asked[i] # 0 => i < nextId

FramesHonest == AllHonest(overflow) /\ \A s \in Sessions : AllHonest(wire[s])

FutureTruthful ==
    future.st \in Codes => pending \in Ids /\ Truthful(pending, future.st)

\* What IInv lacks to keep OwnAnswer.
Truth == NumbersKnown /\ FramesHonest /\ FutureTruthful /\ OwnAnswer

AInv == IInv /\ Truth
-----------------------------------------------------------------------------
\* What the venue decided stays decided.
Settled == \A i \in Ids : verdict[i] # "none" => verdict'[i] = verdict[i]

\* A verdict a task was told stays the verdict.
LEMMA TruthfulKept ==
    ASSUME NEW i \in Ids, NEW r \in Codes, Settled, Truthful(i, r)
    PROVE  Truthful(i, r)'
  BY DEF Settled, Truthful, Codes, Strangers

\* A frame that was honest stays so.
LEMMA HonestKept ==
    ASSUME NEW f \in Frame, Honest(f), Settled,
           nextId \in Nat, nextId' \in Nat, nextId <= nextId'
    PROVE  Honest(f)'
<1> SUFFICES ASSUME f.els # <<>>
             PROVE  IF f.els[1].id \in Ids
                    THEN f.els[1].id < nextId' /\ verdict'[f.els[1].id] = f.els[1].code
                    ELSE Strangers
  BY DEF Honest, Strangers
<1>1. f.els \in Seq(Element) /\ Len(f.els) # 0
  BY DEF Frame
<1>2. f.els[1].code \in Codes /\ f.els[1].id \in Nat
  BY <1>1, ElementType
<1>3. CASE f.els[1].id \in Ids
  <2>1. f.els[1].id < nextId /\ verdict[f.els[1].id] = f.els[1].code
    BY <1>3 DEF Honest
  <2>2. f.els[1].id < nextId'
    BY <1>2, <2>1
  <2>3. verdict'[f.els[1].id] = f.els[1].code
    BY <1>2, <1>3, <2>1 DEF Settled, Codes
  <2> QED
    BY <1>3, <2>2, <2>3
<1>4. CASE f.els[1].id \notin Ids
  BY <1>4 DEF Honest
<1> QED
  BY <1>3, <1>4

\* So is a queue of them, ...
LEMMA QueueKept ==
    ASSUME NEW q \in Seq(Frame), AllHonest(q), Settled,
           nextId \in Nat, nextId' \in Nat, nextId <= nextId'
    PROVE  AllHonest(q)'
<1> SUFFICES ASSUME NEW k \in 1 .. Len(q) PROVE Honest(q[k])'
  BY DEF AllHonest
<1>1. q[k] \in Frame /\ Honest(q[k])
  BY DEF AllHonest
<1> QED
  BY <1>1, HonestKept

\* ... what is left of one when its first is taken, ...
LEMMA QueueTail ==
    ASSUME NEW q \in Seq(Frame), q # <<>>, AllHonest(q)
    PROVE  AllHonest(Tail(q)) /\ Honest(Head(q))
<1>1. Len(q) \in Nat /\ Len(q) # 0
  OBVIOUS
<1>2. Head(q) = q[1] /\ Len(Tail(q)) = Len(q) - 1
  OBVIOUS
<1>3. \A k \in 1 .. Len(Tail(q)) : Tail(q)[k] = q[k + 1]
  OBVIOUS
<1>4. \A k \in 1 .. Len(Tail(q)) : k + 1 \in 1 .. Len(q)
  BY <1>1, <1>2
<1> QED
  BY <1>1, <1>2, <1>3, <1>4 DEF AllHonest

\* ... and one with another appended.
LEMMA QueueAppend ==
    ASSUME NEW q \in Seq(Frame), NEW f \in Frame, AllHonest(q), Honest(f)
    PROVE  AllHonest(Append(q, f))
<1>1. Len(Append(q, f)) = Len(q) + 1 /\ Append(q, f)[Len(q) + 1] = f
  OBVIOUS
<1>2. \A k \in 1 .. Len(q) : Append(q, f)[k] = q[k]
  OBVIOUS
<1>3. \A k \in 1 .. Len(q) + 1 : k \in 1 .. Len(q) \/ k = Len(q) + 1
  OBVIOUS
<1> QED
  BY <1>1, <1>2, <1>3 DEF AllHonest

\* (The same of a queue that is honest once the step is over.)
LEMMA QueueAppendThen ==
    ASSUME NEW q \in Seq(Frame), NEW f \in Frame, AllHonest(q)', Honest(f)',
           NEW p, p = q \/ p = Append(q, f)
    PROVE  AllHonest(p)'
<1> SUFFICES ASSUME NEW k \in 1 .. Len(p) PROVE Honest(p[k])'
  BY DEF AllHonest
<1>1. p[k] = f \/ (k \in 1 .. Len(q) /\ p[k] = q[k])
  OBVIOUS
<1> QED
  BY <1>1 DEF AllHonest, Honest
-----------------------------------------------------------------------------
\* The outcome of one request is set to r, as the venue decided if r says so.
Tells(t, r) ==
    /\ outcome' = [outcome EXCEPT ![req[t]] = r]
    /\ r \in Codes => req[t] \in Ids /\ Truthful(req[t], r)

\* Then no request was told what the venue did not answer to it.
LEMMA ToldTruth ==
    ASSUME OwnAnswer, Settled, TypeOK,
           outcome' = outcome \/ \E t \in Tasks, r \in Results : Tells(t, r)
    PROVE  OwnAnswer'
<1> SUFFICES ASSUME NEW i \in Ids, NEW c \in Codes, outcome'[i] = c
             PROVE  Truthful(i, c)'
  BY DEF OwnAnswer, Truthful, Strangers
<1>1. outcome \in [Ids -> Results]
  BY DEF TypeOK, HistoryTypes
<1>2. Truthful(i, c)
  <2>1. CASE outcome[i] = c
    BY <2>1 DEF OwnAnswer, Truthful, Strangers
  <2>2. CASE outcome[i] # c
    <3>1. PICK t \in Tasks, r \in Results : Tells(t, r)
      BY <2>2
    <3>2. i = req[t] /\ c = r
      BY <1>1, <2>2, <3>1 DEF Tells
    <3> QED
      BY <3>1, <3>2 DEF Tells
  <2> QED
    BY <2>1, <2>2
<1> QED
  BY <1>2, TruthfulKept

\* A step that reads no frame, allocates no number, and tells no answer.
Quiet ==
    /\ nextId' = nextId /\ \A t \in Tasks : req'[t] \in {req[t], 0}
    /\ UNCHANGED <<asked, verdict, wire>>
    /\ overflow' \in {overflow, <<>>}
    /\ UNCHANGED <<pending, future>> \/ future'.st \notin Codes
    /\ \/ outcome' = outcome
       \/ \E t \in Tasks, r \in Results \ Codes :
             outcome' = [outcome EXCEPT ![req[t]] = r]

\* Such a step leaves everything as true as it was.
LEMMA QuietStep == ASSUME AInv, Quiet PROVE Truth'
<1>0. /\ TypeOK /\ NumbersKnown /\ FramesHonest /\ FutureTruthful /\ OwnAnswer
      /\ nextId \in Nat \ {0}
  BY DEF AInv, IInv, TypeOK, SlotTypes, Truth
<1>1. Settled
  BY DEF Quiet, Settled
<1>2. NumbersKnown'
  BY <1>0 DEF Quiet, NumbersKnown
<1>3. FramesHonest'
  <2>1. \A f : Honest(f) => Honest(f)'
    BY DEF Quiet, Honest, Strangers
  <2> QED
    BY <1>0, <2>1 DEF Quiet, FramesHonest, AllHonest
<1>4. FutureTruthful'
  BY <1>0 DEF Quiet, FutureTruthful, Truthful, Strangers
<1>5. OwnAnswer'
  BY <1>0, <1>1, ToldTruth DEF Quiet, Tells
<1> QED
  BY <1>2, <1>3, <1>4, <1>5 DEF Truth

\* No request number changes when a task moves on or returns.
LEMMA GotoQuiet ==
    ASSUME NEW t \in Tasks, NEW s, Goto(t, s) PROVE req' = req
  BY DEF Goto, taskVars

\* Returning forgets the number of the request.
LEMMA ReturnQuiet ==
    ASSUME NEW t \in Tasks, TypeOK, Return(t)
    PROVE  \A u \in Tasks : req'[u] \in {req[u], 0}
  BY DEF Return, TypeOK, TaskTypes

\* Closing keeps or clears the frames set aside, and forgets the request.
LEMMA StartCloseQuiet ==
    ASSUME NEW t \in Tasks, TypeOK, StartClose(t)
    PROVE  /\ \A u \in Tasks : req'[u] \in {req[u], 0}
           /\ overflow' = <<>>
  BY ReturnQuiet DEF StartClose, ClearSession

\* So does whatever follows a request.
LEMMA AfterRequestQuiet ==
    ASSUME NEW t \in Tasks, TypeOK, AfterRequest(t)
    PROVE  /\ \A u \in Tasks : req'[u] \in {req[u], 0}
           /\ overflow' \in {overflow, <<>>}
  BY ReturnQuiet, StartCloseQuiet DEF AfterRequest, queueVars

\* The end of a request empties the slot.
LEMMA EndRequestQuiet ==
    ASSUME NEW t \in Tasks, NEW r, EndRequest(t, r)
    PROVE  /\ nextId' = nextId /\ future'.st \notin Codes
           /\ outcome' = [outcome EXCEPT ![req[t]] = r]
  BY DEF EndRequest, NoFuture, Codes

\* A failed read is not an answer.
LEMMA FailPendingQuiet ==
    ASSUME NEW why \in {"broken", "bad", "readerCancelled"}, NEW f,
           FailPending(why, f)
    PROVE  future' = future \/ future'.st \notin Codes
  BY DEF FailPending, Codes
-----------------------------------------------------------------------------
(* A request, up to its answer. *)

\* A request that starts its send is told nothing, unless there is no socket.
LEMMA StartSendTruth ==
    ASSUME NEW t \in Tasks, AInv, StartSend(t) PROVE Truth'
<1>1. CASE socket = 0
  BY <1>1, EndRequestQuiet, GotoQuiet, QuietStep
     DEF StartSend, Quiet, queueVars, venueVars, connVars, Results, Codes
<1>2. CASE socket # 0
  BY <1>2, QuietStep
     DEF StartSend, Quiet, queueVars, venueVars, connVars, OpenFuture, Codes
<1> QED
  BY <1>1, <1>2

\* The venue gets only requests that were made.
LEMMA TransmitTruth ==
    ASSUME NEW t \in Tasks, AInv, Transmit(t) PROVE Truth'
<1>0. /\ TypeOK /\ NumbersKnown /\ FramesHonest /\ FutureTruthful /\ OwnAnswer
      /\ nextId \in Nat \ {0} /\ asked \in [Ids -> 0 .. MaxSession]
  BY DEF AInv, IInv, TypeOK, SlotTypes, VenueTypes, Truth
<1>1. UNCHANGED <<nextId, req, verdict, wire, overflow, pending, future, outcome>>
  BY DEF Transmit, connVars, slotVars, queueVars, taskVars
<1>2. NumbersKnown'
  <2>1. req[t] < nextId
    BY <1>0 DEF NumbersKnown
  <2>2. \A i \in Ids : asked'[i] # 0 => i = req[t] \/ asked[i] # 0
    BY <1>0 DEF Transmit
  <2> QED
    BY <1>0, <1>1, <2>1, <2>2 DEF NumbersKnown
<1>3. \A f : Honest(f) => Honest(f)'
  BY <1>1 DEF Honest, Strangers
<1>4. FramesHonest'
  BY <1>0, <1>1, <1>3 DEF FramesHonest, AllHonest
<1>5. FutureTruthful' /\ OwnAnswer'
  BY <1>0, <1>1 DEF FutureTruthful, OwnAnswer, Truthful, Strangers
<1> QED
  BY <1>2, <1>4, <1>5 DEF Truth

\* A request that is answered is told what its future holds.
LEMMA AnsweredTruth ==
    ASSUME NEW t \in Tasks, AInv, Answered(t), HasSlot(t), future.st # "open",
           UNCHANGED <<venueVars, wire>>
    PROVE  Truth'
<1>0. /\ TypeOK /\ IInv /\ NumbersKnown /\ FramesHonest /\ FutureTruthful
      /\ OwnAnswer /\ nextId \in Nat \ {0}
  BY DEF AInv, IInv, TypeOK, SlotTypes, Truth
<1>1. pending = req[t] /\ future.st \in Results
  BY <1>0, Suspended, AnsweredKeeps
<1>2. /\ nextId' = nextId /\ future'.st \notin Codes
      /\ outcome' = [outcome EXCEPT ![req[t]] = future.st]
  BY EndRequestQuiet DEF Answered
<1>3. /\ \A u \in Tasks : req'[u] \in {req[u], 0}
      /\ overflow' \in {overflow, <<>>}
  BY <1>0, AfterRequestQuiet DEF Answered, queueVars
<1>4. Tells(t, future.st)
  BY <1>0, <1>1, <1>2 DEF Tells, FutureTruthful
<1>5. Settled
  BY DEF Settled, venueVars
<1>6. OwnAnswer'
  BY <1>0, <1>1, <1>4, <1>5, ToldTruth
<1>7. NumbersKnown'
  BY <1>0, <1>2, <1>3 DEF NumbersKnown, venueVars
<1>8. FramesHonest'
  <2>1. \A f : Honest(f) => Honest(f)'
    BY <1>2 DEF Honest, Strangers, venueVars
  <2> QED
    BY <1>0, <1>3, <2>1 DEF FramesHonest, AllHonest
<1> QED
  BY <1>2, <1>6, <1>7, <1>8 DEF Truth, FutureTruthful

\* The send returns.
LEMMA SendReturnsTruth ==
    ASSUME NEW t \in Tasks, AInv, SendReturns(t) PROVE Truth'
<1>1. CASE future.st = "open"
  BY <1>1, GotoQuiet, QuietStep
     DEF SendReturns, Quiet, slotVars, queueVars, venueVars
<1>2. CASE future.st # "open"
  <2>1. HasSlot(t)
    BY Suspended DEF SendReturns, AInv
  <2> QED
    BY <1>2, <2>1, AnsweredTruth DEF SendReturns
<1> QED
  BY <1>1, <1>2

\* The future is resolved.
LEMMA ResolvedTruth ==
    ASSUME NEW t \in Tasks, AInv, Resolved(t) PROVE Truth'
<1>1. HasSlot(t)
  BY Suspended DEF Resolved, AInv
<1> QED
  BY <1>1, AnsweredTruth DEF Resolved

\* A send that fails, a deadline, and becoming the reader tell no answer.
LEMMA UnansweredTruth ==
    ASSUME NEW t \in Tasks, AInv, SendFails(t) \/ Timeout(t) \/ BecomeReader(t)
    PROVE  Truth'
<1>1. CASE SendFails(t)
  BY <1>1, EndRequestQuiet, GotoQuiet, QuietStep
     DEF SendFails, Quiet, queueVars, venueVars, connVars, Results, Codes
<1>2. CASE Timeout(t)
  BY <1>2, EndRequestQuiet, GotoQuiet, QuietStep
     DEF Timeout, Quiet, queueVars, venueVars, connVars, Results, Codes
<1>3. CASE BecomeReader(t) /\ socket = 0
  BY <1>3, EndRequestQuiet, GotoQuiet, QuietStep
     DEF BecomeReader, Quiet, queueVars, venueVars, connVars, Results, Codes
<1>4. CASE BecomeReader(t) /\ socket # 0
  BY <1>4, QuietStep
     DEF BecomeReader, Quiet, queueVars, venueVars, connVars, slotVars
<1> QED
  BY <1>1, <1>2, <1>3, <1>4

\* A new request gets a number nobody has.
LEMMA MakeRequestTruth ==
    ASSUME NEW t \in Tasks, NEW o, AInv, MakeRequest(t, o),
           UNCHANGED <<venueVars, wire, pending, future, outcome>>,
           overflow' \in {overflow, <<>>}
    PROVE  Truth'
<1>0. /\ TypeOK /\ NumbersKnown /\ FramesHonest /\ FutureTruthful /\ OwnAnswer
      /\ nextId \in Nat \ {0} /\ req \in [Tasks -> 0 .. MaxRequest]
      /\ overflow \in Seq(Frame) /\ wire \in [Sessions -> Seq(Frame)]
  BY DEF AInv, IInv, TypeOK, SlotTypes, TaskTypes, QueueTypes, ConnTypes, Truth
<1>1. nextId' = nextId + 1 /\ nextId' \in Nat /\ nextId <= nextId'
  BY <1>0 DEF MakeRequest
<1>2. Settled
  BY DEF Settled, venueVars
<1>3. NumbersKnown'
  <2>1. \A u \in Tasks : req'[u] \in {req[u], nextId}
    BY <1>0 DEF MakeRequest
  <2>2. \A u \in Tasks : req[u] \in Nat /\ req[u] < nextId
    BY <1>0, BoundsAssumption DEF NumbersKnown
  <2>3. \A u \in Tasks : req'[u] < nextId'
    <3> SUFFICES ASSUME NEW u \in Tasks PROVE req'[u] < nextId'
      OBVIOUS
    <3>1. req'[u] = req[u] \/ req'[u] = nextId
      BY <2>1
    <3>2. req[u] \in Nat /\ req[u] < nextId
      BY <2>2
    <3> QED
      BY <1>0, <1>1, <3>1, <3>2
  <2>4. \A i \in Ids : asked'[i] # 0 => i < nextId'
    BY <1>0, <1>1 DEF NumbersKnown, venueVars, Ids
  <2> QED
    BY <2>3, <2>4 DEF NumbersKnown
<1>4. FramesHonest'
  <2>1. AllHonest(overflow)' /\ \A s \in Sessions : AllHonest(wire[s])'
    <3>1. \A s \in Sessions : AllHonest(wire[s]) /\ wire[s] \in Seq(Frame)
      BY <1>0 DEF FramesHonest
    <3>2. \A q \in Seq(Frame) : AllHonest(q) => AllHonest(q)'
      BY <1>0, <1>1, <1>2, QueueKept
    <3>3. AllHonest(<<>>)'
      BY DEF AllHonest
    <3> QED
      BY <1>0, <3>1, <3>2, <3>3 DEF FramesHonest
  <2> QED
    BY <2>1 DEF FramesHonest
<1>5. FutureTruthful' /\ OwnAnswer'
  BY <1>0 DEF FutureTruthful, OwnAnswer, Truthful, Strangers, venueVars
<1> QED
  BY <1>3, <1>4, <1>5 DEF Truth
-----------------------------------------------------------------------------
(* Reading. *)

\* What _read_and_route validates for the waiter is the venue's answer to it.
LEMMA ValidatedTruth ==
    ASSUME NEW f \in Frame, AInv, ForWaiter(f), Honest(f)
    PROVE  /\ pending \in Ids /\ Validated(f) \in Codes
           /\ Truthful(pending, Validated(f))
<1>1. pending \in Ids /\ nextId \in Nat
  BY BoundsAssumption DEF AInv, IInv, TypeOK, SlotTypes, ForWaiter, Ids
<1>2. Validated(f) \in Codes
  BY ValidatedType
<1>3. Truthful(pending, Validated(f))
  <2>1. CASE f.els[1].id = pending
    BY <1>1, <2>1 DEF ForWaiter, Honest, Validated, Truthful
  <2>2. CASE f.els[1].id # pending
    <3>1. f.els[1].id >= nextId
      BY <2>2 DEF ForWaiter
    <3>2. f.els[1].id \notin Ids
      <4> SUFFICES ASSUME f.els[1].id \in Ids PROVE FALSE
        OBVIOUS
      <4>1. f.els[1].id < nextId /\ f.els[1].id \in Nat
        BY DEF Honest, ForWaiter, Ids
      <4> QED
        BY <1>1, <3>1, <4>1
    <3>3. Strangers
      BY <3>2 DEF Honest, ForWaiter
    <3> QED
      BY <2>2, <3>3 DEF Validated, Truthful
  <2> QED
    BY <2>1, <2>2
<1> QED
  BY <1>1, <1>2, <1>3

\* A frame read from the wire is honest, and so are those behind it.
LEMMA WireTaken ==
    ASSUME NEW t \in Tasks, AInv, TakeFromWire(t), at[t] \in Sessions
    PROVE  /\ NextFrame(t) \in Frame /\ Honest(NextFrame(t))
           /\ \A s \in Sessions : AllHonest(wire'[s])
<1>1. wire \in [Sessions -> Seq(Frame)] /\ \A s \in Sessions : AllHonest(wire[s])
  BY DEF AInv, IInv, TypeOK, ConnTypes, Truth, FramesHonest
<1>2. wire[at[t]] # <<>> /\ wire' = [wire EXCEPT ![at[t]] = Tail(@)]
  BY DEF TakeFromWire
<1>3. AllHonest(Tail(wire[at[t]])) /\ Honest(Head(wire[at[t]]))
  BY <1>1, <1>2, QueueTail
<1>4. \A s \in Sessions : AllHonest(wire'[s])
  BY <1>1, <1>2, <1>3
<1>5. Head(wire[at[t]]) \in Frame
  BY <1>1, <1>2
<1> QED
  BY <1>3, <1>4, <1>5 DEF NextFrame

\* What remains to be shown of a step that reads a frame.
LEMMA ReadTruth ==
    ASSUME AInv, nextId' = nextId, \A u \in Tasks : req'[u] \in {req[u], 0},
           UNCHANGED venueVars,
           AllHonest(overflow'), \A s \in Sessions : AllHonest(wire'[s]),
           FutureTruthful',
           outcome' = outcome \/ \E t \in Tasks, r \in Results : Tells(t, r)
    PROVE  Truth'
<1>0. /\ TypeOK /\ NumbersKnown /\ OwnAnswer /\ nextId \in Nat \ {0}
  BY DEF AInv, IInv, TypeOK, SlotTypes, Truth
<1>1. Settled
  BY DEF Settled, venueVars
<1>2. OwnAnswer'
  BY <1>0, <1>1, ToldTruth
<1>3. NumbersKnown'
  BY <1>0 DEF NumbersKnown, venueVars
<1>4. \A f : Honest(f) => Honest(f)'
  BY DEF Honest, Strangers, venueVars
<1>5. FramesHonest'
  BY <1>4 DEF FramesHonest, AllHonest
<1> QED
  BY <1>2, <1>3, <1>5 DEF Truth

\* A request that reads a frame is told the answer in it, or sets it aside.
LEMMA RequestReadsTruth ==
    ASSUME NEW t \in Tasks, AInv, RequestReads(t) PROVE Truth'
<1> DEFINE f == NextFrame(t)
<1>0. /\ TypeOK /\ IInv /\ FramesHonest /\ FutureTruthful
      /\ overflow \in Seq(Frame)
  BY DEF AInv, IInv, TypeOK, QueueTypes, Truth
<1>1. HasSlot(t) /\ pending = req[t] /\ at[t] \in Sessions
  BY <1>0, Suspended DEF RequestReads
<1>2. f \in Frame /\ Honest(f) /\ \A s \in Sessions : AllHonest(wire'[s])
  BY <1>1, WireTaken DEF RequestReads
<1>3. UNCHANGED venueVars /\ AllHonest(overflow)
  BY <1>0 DEF RequestReads, FramesHonest
<1> HIDE DEF f
<1>4. CASE f.kind = "bad"
  <2>0. /\ EndRequest(t, "bad") /\ UNCHANGED <<overflow, req>>
    BY <1>4 DEF RequestReads, ForWaiter, queueVars, f
  <2>1. nextId' = nextId /\ FutureTruthful' /\ Tells(t, "bad")
    BY <2>0, EndRequestQuiet DEF FutureTruthful, Tells, Codes
  <2> QED
    BY <1>2, <1>3, <2>0, <2>1, ReadTruth DEF Results
<1>5. CASE ForWaiter(f)
  <2>0. EndRequest(t, Validated(f)) /\ Goto(t, "drain") /\ UNCHANGED overflow
    BY <1>5 DEF RequestReads, ForWaiter, f
  <2>1. nextId' = nextId /\ FutureTruthful' /\ req' = req
    BY <2>0, EndRequestQuiet, GotoQuiet DEF FutureTruthful
  <2>2. Tells(t, Validated(f)) /\ Validated(f) \in Results
    BY <1>1, <1>2, <1>5, <2>0, EndRequestQuiet, ValidatedTruth
       DEF Tells, Codes, Results
  <2> QED
    BY <1>2, <1>3, <2>0, <2>1, <2>2, ReadTruth
<1>6. CASE f.kind # "bad" /\ ~ForWaiter(f)
  <2>0. /\ overflow' = Append(overflow, f) /\ Goto(t, "await")
        /\ UNCHANGED <<slotVars, outcome>>
    BY <1>6 DEF RequestReads, SetAside, f
  <2>1. AllHonest(overflow')
    BY <1>0, <1>2, <1>3, <2>0, QueueAppend
  <2>2. FutureTruthful' /\ req' = req /\ nextId' = nextId
    BY <1>0, <1>3, <2>0, GotoQuiet
       DEF FutureTruthful, Truthful, Strangers, slotVars, venueVars
  <2> QED
    BY <1>2, <1>3, <2>0, <2>1, <2>2, ReadTruth
<1> QED
  BY <1>4, <1>5, <1>6

\* handle_message fills a future with the answer, or takes the frame.
LEMMA HandleTruth ==
    ASSUME NEW t \in Tasks, NEW f \in Frame, AInv, Handle(t, f), Honest(f),
           UNCHANGED venueVars,
           AllHonest(overflow'), \A s \in Sessions : AllHonest(wire'[s])
    PROVE  Truth'
<1>0. TypeOK /\ FutureTruthful /\ UNCHANGED <<nextId, pending, outcome>>
  BY DEF AInv, IInv, Truth, Handle
<1>1. CASE ForWaiter(f)
  <2>1. future' = (IF future.st = "open"
                   THEN [st |-> Validated(f), by |-> NoFrame] ELSE future)
        /\ req' = req
    BY <1>1 DEF Handle
  <2>2. FutureTruthful'
    BY <1>0, <1>1, <2>1, ValidatedTruth
       DEF FutureTruthful, Truthful, Strangers, venueVars
  <2> QED
    BY <1>0, <2>1, <2>2, ReadTruth
<1>2. CASE ~ForWaiter(f)
  <2>1. future' = future /\ \A u \in Tasks : req'[u] \in {req[u], 0}
    BY <1>0, <1>2, ReturnQuiet DEF Handle
  <2>2. FutureTruthful'
    BY <1>0, <2>1 DEF FutureTruthful, Truthful, Strangers, venueVars
  <2> QED
    BY <1>0, <2>1, <2>2, ReadTruth
<1> QED
  BY <1>1, <1>2

\* handle_message takes a frame set aside, or goes to recv().
LEMMA TakeNextTruth ==
    ASSUME NEW t \in Tasks, AInv, TakeNext(t) PROVE Truth'
<1>0. TypeOK /\ FramesHonest /\ overflow \in Seq(Frame)
  BY DEF AInv, IInv, TypeOK, QueueTypes, Truth
<1>1. CASE socket = 0
  BY <1>0, <1>1, FailPendingQuiet, ReturnQuiet, QuietStep
     DEF TakeNext, Quiet, queueVars, venueVars, connVars
<1>2. CASE socket # 0 /\ overflow # <<>>
  <2>1. /\ Handle(t, Head(overflow)) /\ overflow' = Tail(overflow)
        /\ wire' = wire /\ UNCHANGED venueVars
    BY <1>2 DEF TakeNext, connVars
  <2>2. /\ Head(overflow) \in Frame /\ Honest(Head(overflow))
        /\ AllHonest(overflow')
    BY <1>0, <1>2, <2>1, QueueTail DEF FramesHonest
  <2>3. \A s \in Sessions : AllHonest(wire'[s])
    BY <1>0, <2>1 DEF FramesHonest
  <2> QED
    BY <2>1, <2>2, <2>3, HandleTruth
<1>3. CASE socket # 0 /\ overflow = <<>>
  BY <1>3, QuietStep
     DEF TakeNext, Quiet, queueVars, venueVars, connVars, slotVars
<1> QED
  BY <1>1, <1>2, <1>3

\* handle_message reads a frame.
LEMMA HandleReadsTruth ==
    ASSUME NEW t \in Tasks, AInv, HandleReads(t) PROVE Truth'
<1> DEFINE f == NextFrame(t)
<1>0. TypeOK /\ IInv /\ FramesHonest /\ FutureTruthful
  BY DEF AInv, IInv, Truth
<1>1. f \in Frame /\ Honest(f) /\ \A s \in Sessions : AllHonest(wire'[s])
  BY <1>0, Suspended, WireTaken DEF HandleReads
<1>2. UNCHANGED venueVars
  BY DEF HandleReads
<1> HIDE DEF f
<1>3. CASE f.kind # "bad"
  <2>1. Handle(t, f) /\ overflow' = overflow
    BY <1>3 DEF HandleReads, f
  <2>2. AllHonest(overflow')
    BY <1>0, <2>1 DEF FramesHonest
  <2> QED
    BY <1>1, <1>2, <2>1, <2>2, HandleTruth
<1>4. CASE f.kind = "bad"
  <2>1. /\ FailPending("bad", f)
        /\ UNCHANGED <<nextId, pending, overflow, req, outcome>>
    BY <1>4 DEF HandleReads, queueVars, f
  <2>2. FutureTruthful'
    BY <1>0, <1>2, <2>1, FailPendingQuiet
       DEF FutureTruthful, Truthful, Strangers, venueVars
  <2>3. AllHonest(overflow')
    BY <1>0, <2>1 DEF FramesHonest
  <2> QED
    BY <1>1, <1>2, <2>1, <2>2, <2>3, ReadTruth
<1> QED
  BY <1>3, <1>4
-----------------------------------------------------------------------------
(* Steps that have nothing to do with answers. *)

\* The calls that make no request.
LEMMA CallTruth ==
    ASSUME NEW t \in Tasks, AInv, CallHandle(t) \/ CallLogin(t) \/ CallClose(t)
    PROVE  Truth'
<1>0. TypeOK
  BY DEF AInv, IInv
<1>1. CASE CallHandle(t)
  BY <1>1, QuietStep DEF CallHandle, Quiet, connVars, slotVars, queueVars, venueVars
<1>2. CASE CallLogin(t)
  BY <1>2, QuietStep DEF CallLogin, Quiet, slotVars, queueVars, venueVars
<1>3. CASE CallClose(t)
  BY <1>0, <1>3, StartCloseQuiet, QuietStep
     DEF CallClose, Quiet, slotVars, venueVars
<1> QED
  BY <1>1, <1>2, <1>3

\* A read that raises.
LEMMA RecvFailsTruth ==
    ASSUME NEW t \in Tasks, AInv, RecvFails(t) PROVE Truth'
<1>0. TypeOK
  BY DEF AInv, IInv
<1>1. CASE op[t] # "handle"
  BY <1>1, EndRequestQuiet, GotoQuiet, QuietStep
     DEF RecvFails, Quiet, queueVars, venueVars, connVars, Results, Codes
<1>2. CASE op[t] = "handle"
  BY <1>0, <1>2, FailPendingQuiet, ReturnQuiet, QuietStep
     DEF RecvFails, Quiet, queueVars, venueVars, connVars
<1> QED
  BY <1>1, <1>2

\* Telling the handlers.
LEMMA ReportTruth ==
    ASSUME NEW t \in Tasks, AInv,
           \/ ReportOrphan(t) \/ ReportUnparsable(t) \/ UnparsableTold(t)
           \/ DrainOne(t) \/ Drained(t) \/ HandlerRaises(t)
           \/ OrphanHandlerRaises(t)
    PROVE  Truth'
<1>0. TypeOK
  BY DEF AInv, IInv
<1>1. CASE ReportOrphan(t)
  BY <1>0, <1>1, ReturnQuiet, QuietStep
     DEF ReportOrphan, Quiet, connVars, slotVars, queueVars, venueVars
<1>2. CASE ReportUnparsable(t)
  BY <1>0, <1>2, ReturnQuiet, GotoQuiet, QuietStep
     DEF ReportUnparsable, Quiet, connVars, slotVars, queueVars, venueVars
<1>3. CASE UnparsableTold(t)
  BY <1>3, GotoQuiet, QuietStep
     DEF UnparsableTold, Quiet, connVars, slotVars, queueVars, venueVars
<1>4. CASE DrainOne(t)
  BY <1>4, GotoQuiet, QuietStep DEF DrainOne, Quiet, connVars, slotVars, venueVars
<1>5. CASE Drained(t)
  <2>1. \A u \in Tasks : req'[u] \in {req[u], 0}
    BY <1>0, <1>5, AfterRequestQuiet, ReturnQuiet, GotoQuiet DEF Drained
  <2>2. overflow' \in {overflow, <<>>}
    BY <1>0, <1>5, AfterRequestQuiet DEF Drained, queueVars
  <2> QED
    BY <1>5, <2>1, <2>2, QuietStep DEF Drained, Quiet, slotVars, venueVars
<1>6. CASE HandlerRaises(t)
  <2>1. \A u \in Tasks : req'[u] \in {req[u], 0}
    BY <1>0, <1>6, AfterRequestQuiet, ReturnQuiet DEF HandlerRaises
  <2>2. overflow' \in {overflow, <<>>}
    BY <1>0, <1>6, AfterRequestQuiet DEF HandlerRaises, queueVars
  <2> QED
    BY <1>6, <2>1, <2>2, QuietStep DEF HandlerRaises, Quiet, slotVars, venueVars
<1>7. CASE OrphanHandlerRaises(t)
  BY <1>0, <1>7, ReturnQuiet, QuietStep
     DEF OrphanHandlerRaises, Quiet, connVars, slotVars, queueVars, venueVars
<1> QED
  BY <1>1, <1>2, <1>3, <1>4, <1>5, <1>6, <1>7

\* Connecting; a LOGIN request is a request like the others.
LEMMA ConnectionTruth ==
    ASSUME NEW t \in Tasks, AInv, ConnectionStep(t) PROVE Truth'
<1>0. TypeOK
  BY DEF AInv, IInv
<1>1. CASE PreviousClosed(t)
  BY <1>1, GotoQuiet, QuietStep
     DEF PreviousClosed, Quiet, slotVars, queueVars, venueVars
<1>2. CASE Connected(t)
  BY <1>2, MakeRequestTruth DEF Connected, ClearSession
<1>3. CASE ConnectFails(t)
  BY <1>0, <1>3, ReturnQuiet, QuietStep
     DEF ConnectFails, Quiet, connVars, slotVars, queueVars, venueVars
<1>4. CASE Closed(t)
  BY <1>0, <1>4, ReturnQuiet, QuietStep
     DEF Closed, Quiet, slotVars, queueVars, venueVars
<1> QED
  BY <1>1, <1>2, <1>3, <1>4 DEF ConnectionStep

\* A task that is cancelled is told that, and no answer.
LEMMA CancelTruth ==
    ASSUME NEW t \in Tasks, AInv, Cancel(t) PROVE Truth'
<1>0. TypeOK /\ UNCHANGED <<wire, venueVars>>
  BY DEF AInv, IInv, Cancel
<1>1. CASE CancelRequest(t)
  <2>1. /\ \A u \in Tasks : req'[u] \in {req[u], 0}
        /\ overflow' \in {overflow, <<>>}
    BY <1>0, <1>1, AfterRequestQuiet DEF CancelRequest
  <2>2. /\ nextId' = nextId
        /\ UNCHANGED <<pending, future>> \/ future'.st \notin Codes
        /\ outcome' = [outcome EXCEPT ![req[t]] = "cancelled"]
    BY <1>1, EndRequestQuiet DEF CancelRequest, slotVars
  <2> QED
    BY <1>0, <2>1, <2>2, QuietStep DEF Quiet, venueVars, Results, Codes
<1>2. CASE CancelDrain(t)
  <2>1. /\ \A u \in Tasks : req'[u] \in {req[u], 0}
        /\ overflow' \in {overflow, <<>>}
    BY <1>0, <1>2, AfterRequestQuiet DEF CancelDrain
  <2> QED
    BY <1>0, <1>2, <2>1, QuietStep
       DEF CancelDrain, Quiet, slotVars, venueVars, Results, Codes
<1>3. CASE CancelHandle(t)
  <2>1. \A u \in Tasks : req'[u] \in {req[u], 0}
    BY <1>0, <1>3, ReturnQuiet DEF CancelHandle
  <2>2. future' = future \/ future'.st \notin Codes
    BY <1>3, FailPendingQuiet DEF CancelHandle
  <2> QED
    BY <1>0, <1>3, <2>1, <2>2, QuietStep
       DEF CancelHandle, Quiet, queueVars, venueVars
<1>4. CASE CancelConnection(t)
  BY <1>0, <1>4, ReturnQuiet, QuietStep
     DEF CancelConnection, Quiet, slotVars, queueVars, venueVars
<1> QED
  BY <1>1, <1>2, <1>3, <1>4 DEF Cancel
-----------------------------------------------------------------------------
(* The venue. *)

\* The venue answers what was asked and not answered yet, or sends something
\* that names no request.
LEMMA SendTruth ==
    ASSUME NEW s \in Sessions, NEW kind \in {"data", "resp", "bad"},
           NEW els \in Seq(Element), AInv, Send(s, kind, els), Settled,
           els # <<>> => IF els[1].id \in Ids
                         THEN els[1].id < nextId /\ verdict'[els[1].id] = els[1].code
                         ELSE Strangers
    PROVE  Truth'
<1>0. /\ TypeOK /\ NumbersKnown /\ FramesHonest /\ FutureTruthful /\ OwnAnswer
      /\ nextId \in Nat \ {0} /\ overflow \in Seq(Frame)
      /\ wire \in [Sessions -> Seq(Frame)] /\ sent[s] \in Nat
  BY DEF AInv, IInv, TypeOK, SlotTypes, QueueTypes, ConnTypes, Truth
<1>f. PICK f : f = [kind |-> kind, els |-> els, ses |-> s, num |-> sent[s] + 1]
  OBVIOUS
<1>1. /\ UNCHANGED <<nextId, pending, future, req, asked, overflow, outcome>>
      /\ wire' = [wire EXCEPT ![s] = Append(@, f)]
  BY <1>f DEF Send, slotVars, queueVars, taskVars
<1>2. f \in Frame /\ Honest(f)'
  BY <1>0, <1>1, <1>f DEF Frame, Honest, Strangers
<1>3. FramesHonest'
  <2>1. \A q \in Seq(Frame) : AllHonest(q) => AllHonest(q)'
    BY <1>0, <1>1, QueueKept
  <2>2. AllHonest(overflow)'
    BY <1>0, <1>1, <2>1 DEF FramesHonest
  <2>3. ASSUME NEW r \in Sessions, NEW q \in Seq(Frame), q = wire[r],
               NEW p, p = wire'[r]
        PROVE  AllHonest(p)'
    <3>1. AllHonest(q) /\ AllHonest(q)'
      BY <1>0, <2>1, <2>3 DEF FramesHonest
    <3>2. p = q \/ p = Append(q, f)
      BY <1>0, <1>1, <2>3
    <3> QED
      BY <1>2, <3>1, <3>2, QueueAppendThen
  <2>4. ASSUME NEW r \in Sessions, NEW k \in 1 .. Len(wire'[r])
        PROVE  Honest(wire[r][k])'
    <3>1. PICK p, q : q = wire[r] /\ p = wire'[r]
      OBVIOUS
    <3>2. AllHonest(p)' /\ k \in 1 .. Len(p)
      BY <1>0, <2>3, <2>4, <3>1
    <3>3. Honest(p[k])'
      BY <3>2 DEF AllHonest
    <3> QED
      BY <3>1, <3>3 DEF Honest
  <2> QED
    BY <2>2, <2>4 DEF FramesHonest, AllHonest
<1>4. FutureTruthful'
  BY <1>0, <1>1, TruthfulKept DEF FutureTruthful
<1>5. OwnAnswer'
  BY <1>0, <1>1, ToldTruth
<1>6. NumbersKnown'
  BY <1>0, <1>1 DEF NumbersKnown
<1> QED
  BY <1>3, <1>4, <1>5, <1>6 DEF Truth

\* Every step of the venue is one of these, or closes a connection.
LEMMA VenueTruth ==
    ASSUME NEW s \in Sessions, AInv, VenueStep(s) PROVE Truth'
<1>0. /\ NumbersKnown /\ verdict \in [Ids -> Codes \cup {"none"}] /\ Ids \subseteq Nat
      /\ 0 \notin Sessions
  BY DEF AInv, IInv, TypeOK, VenueTypes, Truth, Ids, Sessions
<1>1. CASE VenueAnswers(s)
  <2>1. PICK i \in Ids, c \in Verdicts :
           /\ Unanswered(s, i)
           /\ Send(s, "resp", <<[id |-> i, code |-> c]>>)
           /\ verdict' = [verdict EXCEPT ![i] = c]
    BY <1>1 DEF VenueAnswers
  <2>2. c \in Codes /\ <<[id |-> i, code |-> c]>> \in Seq(Element)
    BY <1>0, VenueAssumption DEF Element
  <2>3. Settled /\ verdict'[i] = c /\ i < nextId
    BY <1>0, <2>1 DEF Settled, Unanswered, NumbersKnown
  <2> QED
    BY <2>1, <2>2, <2>3, SendTruth
<1>2. CASE VenueBatches(s)
  <2>1. PICK i \in Ids, j \in Ids, c \in Verdicts, d \in Verdicts :
           /\ i # j /\ Unanswered(s, i) /\ Unanswered(s, j)
           /\ Send(s, "resp", <<[id |-> i, code |-> c], [id |-> j, code |-> d]>>)
           /\ verdict' = [verdict EXCEPT ![i] = c, ![j] = d]
    BY <1>2 DEF VenueBatches
  <2>2. /\ c \in Codes /\ d \in Codes
        /\ <<[id |-> i, code |-> c], [id |-> j, code |-> d]>> \in Seq(Element)
    BY <1>0, VenueAssumption DEF Element
  <2>3. Settled /\ verdict'[i] = c /\ i < nextId
    BY <1>0, <2>1 DEF Settled, Unanswered, NumbersKnown
  <2> QED
    BY <2>1, <2>2, <2>3, SendTruth
<1>3. CASE VenueSends(s)
  <2>1. PICK u \in Unsolicited : Send(s, u.kind, u.els) /\ UNCHANGED verdict
    BY <1>3 DEF VenueSends
  <2>2. u.kind \in {"data", "resp", "bad"} /\ u.els \in Seq(Element)
    BY VenueAssumption
  <2>3. u.els # <<>> => u.els[1].id \notin Ids /\ Strangers
    <3> SUFFICES ASSUME u.els # <<>> PROVE u.els[1].id \notin Ids
      BY DEF Strangers
    <3>1. 1 \in 1 .. Len(u.els)
      BY <2>2
    <3> QED
      BY <3>1, VenueAssumption
  <2>4. Settled
    BY <2>1 DEF Settled
  <2> QED
    BY <2>1, <2>2, <2>3, <2>4, SendTruth
<1>4. CASE Disconnect(s)
  BY <1>4, QuietStep
     DEF Disconnect, Quiet, slotVars, queueVars, taskVars, venueVars
<1> QED
  BY <1>1, <1>2, <1>3, <1>4 DEF VenueStep
-----------------------------------------------------------------------------
\* Nothing is asked, answered or told at the start.
LEMMA InitTruth == Init => Truth
<1> SUFFICES ASSUME Init PROVE Truth
  OBVIOUS
<1>1. NumbersKnown
  BY DEF Init, NumbersKnown
<1>2. FramesHonest
  BY DEF Init, FramesHonest, AllHonest
<1>3. FutureTruthful /\ OwnAnswer
  BY DEF Init, FutureTruthful, OwnAnswer, NoFuture, Codes
<1> QED
  BY <1>1, <1>2, <1>3 DEF Truth

\* Every step keeps what the requests were told true.
LEMMA StepTruth == AInv /\ [Next]_vars => Truth'
<1> SUFFICES ASSUME AInv, [Next]_vars PROVE Truth'
  OBVIOUS
<1>1. ASSUME NEW t \in Tasks, CallStep(t) PROVE Truth'
  <2>1. CASE CallRequest(t)
    BY <2>1, MakeRequestTruth DEF CallRequest, connVars, queueVars
  <2> QED
    BY <1>1, <2>1, CallTruth DEF CallStep
<1>2. ASSUME NEW t \in Tasks, RequestStep(t) PROVE Truth'
  BY <1>2, StartSendTruth, TransmitTruth, SendReturnsTruth, ResolvedTruth,
     UnansweredTruth, RequestReadsTruth DEF RequestStep
<1>3. ASSUME NEW t \in Tasks, HandleStep(t) PROVE Truth'
  BY <1>3, TakeNextTruth, HandleReadsTruth, ReportTruth DEF HandleStep
<1>4. ASSUME NEW t \in Tasks, SharedStep(t) PROVE Truth'
  BY <1>4, RecvFailsTruth, ReportTruth DEF SharedStep
<1>5. CASE UNCHANGED vars
  BY <1>5, QuietStep
     DEF vars, Quiet, connVars, slotVars, queueVars, taskVars, venueVars
<1> QED
  BY <1>1, <1>2, <1>3, <1>4, <1>5, ConnectionTruth, CancelTruth, VenueTruth
     DEF Next

\* A request succeeds or is rejected only on the venue's own answer to it,
\* whatever was abandoned before it, however late the answers come, and in
\* whatever frames (_read_and_route, "One timeout would wedge every subsequent
\* request").
THEOREM OwnAnswerCorrect == Spec => []OwnAnswer
<1>1. Init => AInv
  BY InitIInv, InitTruth DEF AInv
<1>2. AInv /\ [Next]_vars => AInv'
  BY StepIInv, StepTruth DEF AInv
<1>3. AInv => OwnAnswer
  BY DEF AInv, Truth
<1> QED
  BY <1>1, <1>2, <1>3, PTL DEF Spec
-----------------------------------------------------------------------------
(* Callers that do not overlap login(), logout() and close().              *)

\* The frames of a session by number, when n of them were read: those that
\* handle_message was given, tk, go before those set aside, ov; the others
\* were consumed, co.
Ordered(tk, ov, co, n) ==
    /\ \A i, j \in 1 .. Len(tk) : i < j => tk[i] < tk[j]
    /\ \A i, j \in 1 .. Len(ov) : i < j => ov[i].num < ov[j].num
    /\ \A i \in 1 .. Len(tk), j \in 1 .. Len(ov) : tk[i] < ov[j].num
    /\ \A i \in 1 .. Len(tk) : tk[i] \in 1 .. n /\ tk[i] \notin co
    /\ \A j \in 1 .. Len(ov) : ov[j].num \in 1 .. n /\ ov[j].num \notin co
    /\ co \subseteq 1 .. n
    /\ \A m \in 1 .. n :
          \/ m \in co
          \/ \E i \in 1 .. Len(tk) : tk[i] = m
          \/ \E j \in 1 .. Len(ov) : ov[j].num = m

\* The next frame is set aside, ...
LEMMA OrderedAside ==
    ASSUME NEW tk \in Seq(Nat), NEW ov \in Seq(Frame), NEW co, NEW n \in Nat,
           NEW f \in Frame, f.num = n + 1, Ordered(tk, ov, co, n)
    PROVE  Ordered(tk, Append(ov, f), co, n + 1)
<1> DEFINE on == Append(ov, f)
<1>1. Len(on) = Len(ov) + 1 /\ on[Len(ov) + 1] = f
  OBVIOUS
<1>2. \A j \in 1 .. Len(ov) : on[j] = ov[j]
  OBVIOUS
<1>3. Len(ov) \in Nat /\ Len(tk) \in Nat
  OBVIOUS
<1> HIDE DEF on
<1>4. \A j \in 1 .. Len(on) : j \in 1 .. Len(ov) \/ j = Len(ov) + 1
  BY <1>1, <1>3
<1>5. \A j \in 1 .. Len(on) : on[j].num \in 1 .. n + 1 /\ on[j].num \notin co
  <2>1. \A j \in 1 .. Len(ov) : on[j].num \in 1 .. n /\ on[j].num \notin co
    BY <1>2 DEF Ordered
  <2>2. n + 1 \notin co /\ on[Len(ov) + 1].num = n + 1
    BY <1>1 DEF Ordered
  <2> QED
    BY <1>4, <2>1, <2>2
<1>6. \A i, j \in 1 .. Len(on) : i < j => on[i].num < on[j].num
  <2> SUFFICES ASSUME NEW i \in 1 .. Len(on), NEW j \in 1 .. Len(on), i < j
               PROVE  on[i].num < on[j].num
    OBVIOUS
  <2>1. i \in 1 .. Len(ov)
    BY <1>1, <1>3, <1>4
  <2>2. on[i] = ov[i] /\ ov[i].num \in 1 .. n
    BY <1>2, <2>1 DEF Ordered
  <2>3. CASE j = Len(ov) + 1
    BY <1>1, <2>2, <2>3
  <2>4. CASE j \in 1 .. Len(ov)
    BY <1>2, <2>1, <2>4 DEF Ordered
  <2> QED
    BY <1>4, <2>3, <2>4
<1>7. \A i \in 1 .. Len(tk), j \in 1 .. Len(on) : tk[i] < on[j].num
  <2> SUFFICES ASSUME NEW i \in 1 .. Len(tk), NEW j \in 1 .. Len(on)
               PROVE  tk[i] < on[j].num
    OBVIOUS
  <2>1. tk[i] \in 1 .. n
    BY DEF Ordered
  <2> QED
    BY <1>1, <1>2, <1>4, <2>1 DEF Ordered
<1>8. \A m \in 1 .. n + 1 :
          \/ m \in co
          \/ \E i \in 1 .. Len(tk) : tk[i] = m
          \/ \E j \in 1 .. Len(on) : on[j].num = m
  <2> SUFFICES ASSUME NEW m \in 1 .. n + 1, m \notin co,
                      ~ \E i \in 1 .. Len(tk) : tk[i] = m
               PROVE  \E j \in 1 .. Len(on) : on[j].num = m
    OBVIOUS
  <2>1. CASE m = n + 1
    BY <1>1, <1>3, <2>1
  <2>2. CASE m \in 1 .. n
    <3>1. PICK j \in 1 .. Len(ov) : ov[j].num = m
      BY <2>2 DEF Ordered
    <3> QED
      BY <1>1, <1>2, <1>3, <3>1
  <2> QED
    BY <2>1, <2>2
<1>9. co \subseteq 1 .. n + 1 /\ \A i \in 1 .. Len(tk) : tk[i] \in 1 .. n + 1
  BY DEF Ordered
<1> QED
  BY <1>5, <1>6, <1>7, <1>8, <1>9 DEF Ordered, on

\* ... or given to handle_message, which reads only when none is set aside, ...
LEMMA OrderedHandled ==
    ASSUME NEW tk \in Seq(Nat), NEW co, NEW n \in Nat, Ordered(tk, <<>>, co, n)
    PROVE  Ordered(Append(tk, n + 1), <<>>, co, n + 1)
<1> DEFINE tn == Append(tk, n + 1)
<1>1. Len(tn) = Len(tk) + 1 /\ tn[Len(tk) + 1] = n + 1 /\ Len(tk) \in Nat
  OBVIOUS
<1>2. \A i \in 1 .. Len(tk) : tn[i] = tk[i]
  OBVIOUS
<1>3. \A i \in 1 .. Len(tn) : i \in 1 .. Len(tk) \/ i = Len(tk) + 1
  BY <1>1
<1> HIDE DEF tn
<1>4. \A i \in 1 .. Len(tk) : tk[i] \in 1 .. n /\ tk[i] \notin co
  BY DEF Ordered
<1>5. \A i \in 1 .. Len(tn) : tn[i] \in 1 .. n + 1 /\ tn[i] \notin co
  BY <1>1, <1>2, <1>3, <1>4 DEF Ordered
<1>6. \A i, j \in 1 .. Len(tn) : i < j => tn[i] < tn[j]
  <2> SUFFICES ASSUME NEW i \in 1 .. Len(tn), NEW j \in 1 .. Len(tn), i < j
               PROVE  tn[i] < tn[j]
    OBVIOUS
  <2>1. i \in 1 .. Len(tk)
    BY <1>1, <1>3
  <2>2. CASE j = Len(tk) + 1
    BY <1>1, <1>2, <1>4, <2>1, <2>2
  <2>3. CASE j \in 1 .. Len(tk)
    BY <1>2, <2>1, <2>3 DEF Ordered
  <2> QED
    BY <1>3, <2>2, <2>3
<1>7. \A m \in 1 .. n + 1 : m \in co \/ \E i \in 1 .. Len(tn) : tn[i] = m
  <2> SUFFICES ASSUME NEW m \in 1 .. n + 1, m \notin co
               PROVE  \E i \in 1 .. Len(tn) : tn[i] = m
    OBVIOUS
  <2>1. CASE m = n + 1
    BY <1>1, <2>1
  <2>2. CASE m \in 1 .. n
    <3>1. PICK i \in 1 .. Len(tk) : tk[i] = m
      BY <2>2 DEF Ordered
    <3> QED
      BY <1>1, <1>2, <3>1
  <2> QED
    BY <2>1, <2>2
<1>8. co \subseteq 1 .. n + 1 /\ 1 .. Len(<<>>) = {}
  BY DEF Ordered
<1>9. Ordered(tn, <<>>, co, n + 1)
  BY <1>5, <1>6, <1>7, <1>8 DEF Ordered
<1> QED
  BY <1>9 DEF tn

\* ... or consumed.
LEMMA OrderedConsumed ==
    ASSUME NEW tk \in Seq(Nat), NEW ov \in Seq(Frame), NEW co, NEW n \in Nat,
           Ordered(tk, ov, co, n)
    PROVE  Ordered(tk, ov, co \cup {n + 1}, n + 1)
<1> DEFINE cn == co \cup {n + 1}
<1>1. \A m \in 1 .. n : m \in 1 .. n + 1 /\ m # n + 1
  OBVIOUS
<1>2. \A m \in 1 .. n + 1 : m \in 1 .. n \/ m = n + 1
  OBVIOUS
<1>3. cn \subseteq 1 .. n + 1
  BY <1>1 DEF Ordered
<1>4. \A i \in 1 .. Len(tk) : tk[i] \in 1 .. n + 1 /\ tk[i] \notin cn
  BY <1>1 DEF Ordered
<1>5. \A j \in 1 .. Len(ov) : ov[j].num \in 1 .. n + 1 /\ ov[j].num \notin cn
  BY <1>1 DEF Ordered
<1>6. \A m \in 1 .. n + 1 :
          \/ m \in cn
          \/ \E i \in 1 .. Len(tk) : tk[i] = m
          \/ \E j \in 1 .. Len(ov) : ov[j].num = m
  BY <1>2 DEF Ordered
<1> HIDE DEF cn
<1>7. Ordered(tk, ov, cn, n + 1)
  BY <1>3, <1>4, <1>5, <1>6 DEF Ordered
<1> QED
  BY <1>7 DEF cn

\* What the first frame set aside leaves.
LEMMA AsideTail ==
    ASSUME NEW ov \in Seq(Frame), ov # <<>>
    PROVE  /\ Len(ov) \in Nat \ {0} /\ Head(ov) = ov[1] /\ Head(ov) \in Frame
           /\ Tail(ov) \in Seq(Frame) /\ Len(Tail(ov)) = Len(ov) - 1
           /\ \A j \in 1 .. Len(Tail(ov)) : Tail(ov)[j] = ov[j + 1]
           /\ \A j \in 1 .. Len(Tail(ov)) : j + 1 \in 1 .. Len(ov)
           /\ \A j \in 1 .. Len(ov) :
                 j = 1 \/ (j - 1 \in 1 .. Len(Tail(ov)) /\ ov[j] = Tail(ov)[j - 1])
<1>1. Len(ov) \in Nat \ {0} /\ Head(ov) = ov[1] /\ Head(ov) \in Frame
  OBVIOUS
<1>2. Tail(ov) \in Seq(Frame) /\ Len(Tail(ov)) = Len(ov) - 1
  OBVIOUS
<1>3. \A j \in 1 .. Len(Tail(ov)) : Tail(ov)[j] = ov[j + 1]
  OBVIOUS
<1> QED
  BY <1>1, <1>2, <1>3

\* The first frame set aside is given to handle_message, ...
LEMMA OrderedTaken ==
    ASSUME NEW tk \in Seq(Nat), NEW ov \in Seq(Frame), NEW co, NEW n \in Nat,
           ov # <<>>, Ordered(tk, ov, co, n)
    PROVE  Ordered(Append(tk, Head(ov).num), Tail(ov), co, n)
<1> DEFINE tn == Append(tk, Head(ov).num)
           on == Tail(ov)
<1>1. Len(tn) = Len(tk) + 1 /\ tn[Len(tk) + 1] = Head(ov).num /\ Len(tk) \in Nat
  OBVIOUS
<1>2. \A i \in 1 .. Len(tk) : tn[i] = tk[i]
  OBVIOUS
<1>3. \A i \in 1 .. Len(tn) : i \in 1 .. Len(tk) \/ i = Len(tk) + 1
  BY <1>1
<1>4. /\ Len(ov) \in Nat \ {0} /\ Head(ov) = ov[1] /\ Len(on) = Len(ov) - 1
      /\ \A j \in 1 .. Len(on) : on[j] = ov[j + 1] /\ j + 1 \in 1 .. Len(ov)
      /\ \A j \in 1 .. Len(ov) : j = 1 \/ (j - 1 \in 1 .. Len(on) /\ ov[j] = on[j - 1])
  BY AsideTail
<1> HIDE DEF tn, on
<1>5. 1 \in 1 .. Len(ov)
  BY <1>4
<1>6. tn[Len(tk) + 1] = ov[1].num
  BY <1>1, <1>4
<1>7. \A i \in 1 .. Len(tn) : tn[i] \in 1 .. n /\ tn[i] \notin co
  BY <1>2, <1>3, <1>5, <1>6 DEF Ordered
<1>8. \A j \in 1 .. Len(on) : on[j].num \in 1 .. n /\ on[j].num \notin co
  BY <1>4 DEF Ordered
<1>9. \A i, j \in 1 .. Len(tn) : i < j => tn[i] < tn[j]
  <2> SUFFICES ASSUME NEW i \in 1 .. Len(tn), NEW j \in 1 .. Len(tn), i < j
               PROVE  tn[i] < tn[j]
    OBVIOUS
  <2>1. i \in 1 .. Len(tk)
    BY <1>1, <1>3
  <2>2. CASE j = Len(tk) + 1
    BY <1>2, <1>5, <1>6, <2>1, <2>2 DEF Ordered
  <2>3. CASE j \in 1 .. Len(tk)
    BY <1>2, <2>1, <2>3 DEF Ordered
  <2> QED
    BY <1>3, <2>2, <2>3
<1>10. \A i, j \in 1 .. Len(on) : i < j => on[i].num < on[j].num
  BY <1>4 DEF Ordered
<1>11. \A i \in 1 .. Len(tn), j \in 1 .. Len(on) : tn[i] < on[j].num
  <2> SUFFICES ASSUME NEW i \in 1 .. Len(tn), NEW j \in 1 .. Len(on)
               PROVE  tn[i] < on[j].num
    OBVIOUS
  <2>1. on[j] = ov[j + 1] /\ j + 1 \in 1 .. Len(ov) /\ 1 < j + 1
    BY <1>4
  <2>2. CASE i \in 1 .. Len(tk)
    BY <1>2, <2>1, <2>2 DEF Ordered
  <2>3. CASE i = Len(tk) + 1
    BY <1>5, <1>6, <2>1, <2>3 DEF Ordered
  <2> QED
    BY <1>3, <2>2, <2>3
<1>12. \A m \in 1 .. n :
          \/ m \in co
          \/ \E i \in 1 .. Len(tn) : tn[i] = m
          \/ \E j \in 1 .. Len(on) : on[j].num = m
  <2> SUFFICES ASSUME NEW m \in 1 .. n, m \notin co
               PROVE  \/ \E i \in 1 .. Len(tn) : tn[i] = m
                      \/ \E j \in 1 .. Len(on) : on[j].num = m
    OBVIOUS
  <2>1. CASE \E i \in 1 .. Len(tk) : tk[i] = m
    BY <1>1, <1>2, <2>1
  <2>2. CASE \E j \in 1 .. Len(ov) : ov[j].num = m
    <3>1. PICK j \in 1 .. Len(ov) : ov[j].num = m
      BY <2>2
    <3>2. CASE j = 1
      BY <1>1, <1>6, <3>1, <3>2
    <3>3. CASE j # 1
      BY <1>4, <3>1, <3>3
    <3> QED
      BY <3>2, <3>3
  <2> QED
    BY <2>1, <2>2 DEF Ordered
<1>13. co \subseteq 1 .. n
  BY DEF Ordered
<1> QED
  BY <1>7, <1>8, <1>9, <1>10, <1>11, <1>12, <1>13 DEF Ordered, tn, on

\* ... or turns out to be an answer.
LEMMA OrderedRouted ==
    ASSUME NEW tk \in Seq(Nat), NEW ov \in Seq(Frame), NEW co, NEW n \in Nat,
           ov # <<>>, Ordered(tk, ov, co, n)
    PROVE  Ordered(tk, Tail(ov), co \cup {Head(ov).num}, n)
<1> DEFINE on == Tail(ov)
           cn == co \cup {Head(ov).num}
<1>1. /\ Len(ov) \in Nat \ {0} /\ Head(ov) = ov[1] /\ Len(on) = Len(ov) - 1
      /\ \A j \in 1 .. Len(on) : on[j] = ov[j + 1] /\ j + 1 \in 1 .. Len(ov)
      /\ \A j \in 1 .. Len(ov) : j = 1 \/ (j - 1 \in 1 .. Len(on) /\ ov[j] = on[j - 1])
  BY AsideTail
<1>2. cn = co \cup {ov[1].num} /\ 1 \in 1 .. Len(ov)
  BY <1>1
<1> HIDE DEF on, cn
<1>3. \A i \in 1 .. Len(tk) : tk[i] \in 1 .. n /\ tk[i] \notin cn
  <2> SUFFICES ASSUME NEW i \in 1 .. Len(tk)
               PROVE  tk[i] \in 1 .. n /\ tk[i] \notin cn
    OBVIOUS
  <2>1. tk[i] \in 1 .. n /\ tk[i] \notin co /\ tk[i] < ov[1].num
    BY <1>2 DEF Ordered
  <2> QED
    BY <1>2, <2>1
<1>4. \A j \in 1 .. Len(on) : on[j].num \in 1 .. n /\ on[j].num \notin cn
  <2> SUFFICES ASSUME NEW j \in 1 .. Len(on)
               PROVE  on[j].num \in 1 .. n /\ on[j].num \notin cn
    OBVIOUS
  <2>1. on[j] = ov[j + 1] /\ j + 1 \in 1 .. Len(ov) /\ 1 < j + 1
    BY <1>1
  <2>2. /\ ov[j + 1].num \in 1 .. n /\ ov[j + 1].num \notin co
        /\ ov[1].num < ov[j + 1].num /\ ov[1].num \in 1 .. n
    BY <1>2, <2>1 DEF Ordered
  <2> QED
    BY <1>2, <2>1, <2>2
<1>5. \A i, j \in 1 .. Len(on) : i < j => on[i].num < on[j].num
  BY <1>1 DEF Ordered
<1>6. \A i \in 1 .. Len(tk), j \in 1 .. Len(on) : tk[i] < on[j].num
  BY <1>1 DEF Ordered
<1>7. \A m \in 1 .. n :
          \/ m \in cn
          \/ \E i \in 1 .. Len(tk) : tk[i] = m
          \/ \E j \in 1 .. Len(on) : on[j].num = m
  <2> SUFFICES ASSUME NEW m \in 1 .. n, m \notin cn,
                      ~ \E i \in 1 .. Len(tk) : tk[i] = m
               PROVE  \E j \in 1 .. Len(on) : on[j].num = m
    OBVIOUS
  <2>1. PICK j \in 1 .. Len(ov) : ov[j].num = m
    BY <1>2 DEF Ordered
  <2>2. j # 1
    BY <1>2, <2>1
  <2> QED
    BY <1>1, <2>1, <2>2
<1>8. cn \subseteq 1 .. n
  BY <1>2 DEF Ordered
<1>9. \A i, j \in 1 .. Len(tk) : i < j => tk[i] < tk[j]
  BY DEF Ordered
<1> QED
  BY <1>3, <1>4, <1>5, <1>6, <1>7, <1>8, <1>9 DEF Ordered, on, cn

\* In such an order what handle_message was given and is still to be given
\* counts up, is apart from what was consumed, and is all there is.
LEMMA OrderedSeen ==
    ASSUME NEW tk \in Seq(Nat), NEW ov \in Seq(Frame), NEW co, NEW n \in Nat,
           Ordered(tk, ov, co, n)
    PROVE  LET seen == tk \o Numbers(ov)
           IN  /\ \A i, j \in 1 .. Len(seen) : i < j => seen[i] < seen[j]
               /\ \A i \in 1 .. Len(seen) : seen[i] \notin co
               /\ Queued(seen) \cup co = 1 .. n
<1> SUFFICES ASSUME NEW seen, seen = tk \o Numbers(ov)
             PROVE  /\ \A i, j \in 1 .. Len(seen) : i < j => seen[i] < seen[j]
                    /\ \A i \in 1 .. Len(seen) : seen[i] \notin co
                    /\ Queued(seen) \cup co = 1 .. n
  OBVIOUS
<1> DEFINE nums == Numbers(ov)
<1>0. \A f \in Frame : f.num \in Nat
  BY DEF Frame
<1>1. /\ Len(tk) \in Nat /\ Len(ov) \in Nat
      /\ \A j \in 1 .. Len(ov) : ov[j] \in Frame /\ ov[j].num \in Nat
  BY <1>0
<1>2. /\ nums \in Seq(Nat) /\ Len(nums) = Len(ov)
      /\ \A j \in 1 .. Len(ov) : nums[j] = ov[j].num
  BY <1>1 DEF Numbers
<1> HIDE DEF nums
<1>3. /\ Len(seen) = Len(tk) + Len(ov)
      /\ \A i \in 1 .. Len(tk) : i \in 1 .. Len(seen) /\ seen[i] = tk[i]
      /\ \A i \in 1 .. Len(seen) : i \notin 1 .. Len(tk) =>
            i - Len(tk) \in 1 .. Len(ov) /\ seen[i] = ov[i - Len(tk)].num
  <2>1. seen = tk \o nums
    BY DEF nums
  <2>0. nums \in Seq(Nat)
    BY <1>2
  <2>2. Len(seen) = Len(tk) + Len(nums)
    BY <2>0, <2>1
  <2>5. ASSUME NEW i \in 1 .. Len(tk) + Len(nums)
        PROVE  seen[i] = IF i <= Len(tk) THEN tk[i] ELSE nums[i - Len(tk)]
    BY <2>0, <2>1
  <2>3. ASSUME NEW i \in 1 .. Len(seen), i \notin 1 .. Len(tk)
        PROVE  ~(i <= Len(tk)) /\ i - Len(tk) \in 1 .. Len(ov)
    BY <1>1, <1>2, <2>2, <2>3
  <2>4. \A i \in 1 .. Len(tk) : i \in 1 .. Len(seen) /\ i <= Len(tk)
    BY <1>1, <1>2, <2>2
  <2> QED
    BY <1>2, <2>2, <2>3, <2>4, <2>5
<1>4. \A j \in 1 .. Len(ov) : Len(tk) + j \in 1 .. Len(seen) /\ seen[Len(tk) + j] = ov[j].num
  <2> SUFFICES ASSUME NEW j \in 1 .. Len(ov)
               PROVE  Len(tk) + j \in 1 .. Len(seen) /\ seen[Len(tk) + j] = ov[j].num
    OBVIOUS
  <2>1. /\ Len(tk) + j \in 1 .. Len(seen) /\ Len(tk) + j \notin 1 .. Len(tk)
        /\ (Len(tk) + j) - Len(tk) = j
    BY <1>1, <1>3
  <2> QED
    BY <1>3, <2>1
<1>5. \A i \in 1 .. Len(seen) : seen[i] \in 1 .. n /\ seen[i] \notin co
  BY <1>3 DEF Ordered
<1>6. \A i, j \in 1 .. Len(seen) : i < j => seen[i] < seen[j]
  <2> SUFFICES ASSUME NEW i \in 1 .. Len(seen), NEW j \in 1 .. Len(seen), i < j
               PROVE  seen[i] < seen[j]
    OBVIOUS
  <2>1. CASE i \in 1 .. Len(tk) /\ j \in 1 .. Len(tk)
    BY <1>3, <2>1 DEF Ordered
  <2>2. CASE i \in 1 .. Len(tk) /\ j \notin 1 .. Len(tk)
    BY <1>3, <2>2 DEF Ordered
  <2>3. CASE i \notin 1 .. Len(tk) /\ j \notin 1 .. Len(tk)
    <3>1. i - Len(tk) < j - Len(tk)
      BY <1>1
    <3> QED
      BY <1>3, <2>3, <3>1 DEF Ordered
  <2>4. CASE i \notin 1 .. Len(tk) /\ j \in 1 .. Len(tk)
    BY <1>1, <2>4
  <2> QED
    BY <2>1, <2>2, <2>3, <2>4
<1>7. \A m \in 1 .. n : m \in co \/ m \in Queued(seen)
  <2> SUFFICES ASSUME NEW m \in 1 .. n, m \notin co
               PROVE  \E i \in 1 .. Len(seen) : seen[i] = m
    BY DEF Queued
  <2>1. CASE \E i \in 1 .. Len(tk) : tk[i] = m
    BY <1>1, <1>3, <2>1
  <2>2. CASE \E j \in 1 .. Len(ov) : ov[j].num = m
    BY <1>4, <2>2
  <2> QED
    BY <2>1, <2>2 DEF Ordered
<1>8. Queued(seen) \subseteq 1 .. n /\ co \subseteq 1 .. n
  BY <1>5 DEF Queued, Ordered
<1> QED
  BY <1>5, <1>6, <1>7, <1>8
-----------------------------------------------------------------------------
(* Where the tasks are, and which connections are open. *)

\* t is in login(), logout() or close(), and is closing a connection.
Opens(t) == op[t] \in {"login", "logout", "close"}
Closing(t) == pc[t] \in {"replacing", "closing"}

\* Only one task opens and closes connections; while it does there is no
\* socket; and only the current connection, or the one it closes, is open.
Place ==
    /\ \A t, u \in Tasks : Opens(t) /\ Opens(u) => t = u
    /\ \A t \in Tasks : Closing(t) \/ pc[t] = "connecting" => Opens(t) /\ socket = 0
    /\ \A t \in Tasks : Closing(t) => at[t] \in Sessions
    /\ \A s \in Sessions : conn[s] = "open" =>
          s = socket \/ \E t \in Tasks : Closing(t) /\ at[t] = s
    /\ socket # 0 => conn[socket] # "none"
    /\ \A t \in Tasks : pc[t] = "recv" =>
          conn[at[t]] # "none" /\ (socket # 0 => at[t] = socket)

\* Frames are numbered as they are sent, and belong to their session.
WireInv ==
    /\ \A s \in Sessions : conn[s] = "none" => sent[s] = 0 /\ wire[s] = <<>>
    /\ \A s \in Sessions :
          /\ Len(wire[s]) <= sent[s]
          /\ \A k \in 1 .. Len(wire[s]) :
                wire[s][k].ses = s /\ wire[s][k].num = sent[s] - Len(wire[s]) + k

AllOf(q, s) == \A k \in 1 .. Len(q) : q[k].ses = s

\* While there is a socket, all that is queued is from its session, in order.
QueueInv ==
    /\ socket # 0 => AllOf(overflow, socket) /\ AllOf(reports, socket)
    /\ socket # 0 =>
          Ordered(taken, overflow, consumed, sent[socket] - Len(wire[socket]))
    /\ \A t \in Tasks : pc[t] = "recv" /\ op[t] = "handle" => overflow = <<>>
    /\ QueuedReportsFresh

SInv == IInv /\ Place /\ WireInv /\ QueueInv

\* Nobody is in login(), logout() or close().
Nobody == \A u \in Tasks : ~Opens(u)

\* A step of t that opens and closes no connection.
LEMMA PlaceCalm ==
    ASSUME NEW t \in Tasks, SInv, OthersKeep(t), UNCHANGED <<socket, conn>>,
           Opens(t)' => Opens(t) \/ Nobody,
           ~Closing(t), ~Closing(t)', pc'[t] # "connecting",
           pc'[t] = "recv" => at'[t] = socket /\ socket # 0
    PROVE  Place'
<1>1. Place
  BY DEF SInv
<1>2. \A u \in Tasks : u # t =>
         /\ Opens(u)' <=> Opens(u)
         /\ Closing(u)' <=> Closing(u)
         /\ pc'[u] = pc[u] /\ at'[u] = at[u]
  BY DEF OthersKeep, Opens, Closing
<1>3. \A u, v \in Tasks : Opens(u)' /\ Opens(v)' => u = v
  BY <1>1, <1>2 DEF Place, Nobody
<1>4. \A s \in Sessions : conn'[s] = "open" =>
          s = socket' \/ \E u \in Tasks : Closing(u)' /\ at'[u] = s
  BY <1>1, <1>2 DEF Place
<1>5. \A u \in Tasks : Closing(u)' \/ pc'[u] = "connecting" =>
          Opens(u)' /\ socket' = 0
  BY <1>1, <1>2 DEF Place
<1>6. \A u \in Tasks : pc'[u] = "recv" =>
          conn'[at'[u]] # "none" /\ (socket' # 0 => at'[u] = socket')
  BY <1>1, <1>2 DEF Place
<1>7. \A u \in Tasks : Closing(u)' => at'[u] \in Sessions
  BY <1>1, <1>2 DEF Place
<1> QED
  BY <1>1, <1>3, <1>4, <1>5, <1>6, <1>7 DEF Place

\* The start of close(), by the one task that may.
LEMMA PlaceClose ==
    ASSUME NEW t \in Tasks, SInv, StartClose(t), conn' = conn, ~Closing(t),
           Opens(t) \/ Nobody
    PROVE  Place'
<1>0. /\ Place /\ TypeOK /\ socket' = 0 /\ OthersKeep(t)
      /\ pc'[t] \in {"idle", "closing"}
  BY StartCloseKeeps DEF SInv, IInv
<1>1. socket \in 0 .. MaxSession /\ pc \in [Tasks -> States]
      /\ op \in [Tasks -> {"none", "handle", "subs", "login", "logout", "close"}]
      /\ at \in [Tasks -> 0 .. MaxSession]
  BY <1>0 DEF TypeOK, ConnTypes, TaskTypes
<1>2. \A u \in Tasks : u # t =>
         /\ Opens(u)' <=> Opens(u)
         /\ Closing(u)' <=> Closing(u)
         /\ pc'[u] = pc[u] /\ at'[u] = at[u]
  BY <1>0 DEF OthersKeep, Opens, Closing
<1>3. \A u, v \in Tasks : Opens(u)' /\ Opens(v)' => u = v
  BY <1>0, <1>2 DEF Place, Nobody
<1>4. pc'[t] = "closing" => Opens(t)' /\ at'[t] \in Sessions
  <2> SUFFICES ASSUME pc'[t] = "closing" PROVE Opens(t)' /\ at'[t] \in Sessions
    OBVIOUS
  <2>1. socket # 0
    BY <1>0, ReturnKeeps DEF StartClose, TypeOK
  <2> QED
    BY <1>1, <2>1, BoundsAssumption DEF StartClose, Opens, Sessions
<1>5. \A u \in Tasks : Closing(u)' \/ pc'[u] = "connecting" =>
          Opens(u)' /\ socket' = 0
  BY <1>0, <1>2, <1>4 DEF Place, Closing
<1>6. \A u \in Tasks : Closing(u)' => at'[u] \in Sessions
  BY <1>0, <1>2, <1>4 DEF Place, Closing
<1>7. \A s \in Sessions : conn'[s] = "open" =>
          s = socket' \/ \E u \in Tasks : Closing(u)' /\ at'[u] = s
  <2> SUFFICES ASSUME NEW s \in Sessions, conn[s] = "open"
               PROVE  \E u \in Tasks : Closing(u)' /\ at'[u] = s
    OBVIOUS
  <2>1. CASE s = socket
    <3>1. socket # 0
      BY <2>1 DEF Sessions
    <3> QED
      BY <1>1, <2>1, <3>1 DEF StartClose, Closing
  <2>2. CASE s # socket
    BY <1>0, <1>2, <2>2 DEF Place
  <2> QED
    BY <2>1, <2>2
<1>8. \A u \in Tasks : pc'[u] = "recv" =>
          conn'[at'[u]] # "none" /\ (socket' # 0 => at'[u] = socket')
  BY <1>0, <1>2 DEF Place
<1> QED
  BY <1>0, <1>3, <1>5, <1>6, <1>7, <1>8 DEF Place

\* What follows a request.
LEMMA PlaceAfter ==
    ASSUME NEW t \in Tasks, SInv, AfterRequest(t), conn' = conn, ~Closing(t),
           pc[t] # "connecting"
    PROVE  Place'
<1>0. TypeOK
  BY DEF SInv, IInv
<1>1. CASE op[t] = "logout" /\ StartClose(t)
  BY <1>1, PlaceClose DEF Opens
<1>2. CASE Return(t) /\ UNCHANGED <<socket, queueVars>>
  <2>1. pc'[t] = "idle" /\ OthersKeep(t) /\ ~Opens(t)'
    BY <1>0, <1>2, ReturnKeeps DEF Return, Opens, TypeOK, TaskTypes
  <2> QED
    BY <1>2, <2>1, PlaceCalm DEF Closing
<1> QED
  BY <1>1, <1>2 DEF AfterRequest

-----------------------------------------------------------------------------
(* What is queued. *)

\* Nothing is sent or read, and no session begins.
LEMMA WireSame ==
    ASSUME WireInv, UNCHANGED <<wire, sent>>,
           \A s \in Sessions : conn'[s] = "none" => conn[s] = "none"
    PROVE  WireInv'
  BY DEF WireInv

\* Nothing is told.
LEMMA FreshSame ==
    ASSUME QueuedReportsFresh, told' = told PROVE QueuedReportsFresh'
  BY DEF QueuedReportsFresh

\* What is told was not queued, or is from the session there is.
LEMMA FreshTold ==
    ASSUME TypeOK, QueuedReportsFresh, NEW r, NEW d \in BOOLEAN, Tell(r, d),
           d = TRUE \/ socket = 0 \/ r.ses = socket
    PROVE  QueuedReportsFresh'
<1> DEFINE e == [report |-> r, now |-> socket, direct |-> d]
<1>1. told' = Append(told, e) /\ told \in Seq([report : Report,
                                now : 0 .. MaxSession, direct : BOOLEAN])
  BY DEF Tell, TypeOK, HistoryTypes
<1>2. e.direct = d /\ e.now = socket /\ e.report = r
  OBVIOUS
<1> HIDE DEF e
<1>3. /\ Len(told') = Len(told) + 1 /\ told'[Len(told) + 1] = e /\ Len(told) \in Nat
      /\ \A k \in 1 .. Len(told) : told'[k] = told[k]
  BY <1>1
<1>4. \A k \in 1 .. Len(told') : k \in 1 .. Len(told) \/ k = Len(told) + 1
  BY <1>3
<1>5. \A k \in 1 .. Len(told) :
         ~told'[k].direct => told'[k].now \in {0, told'[k].report.ses}
  BY <1>3 DEF QueuedReportsFresh
<1>6. ~e.direct => e.now \in {0, e.report.ses}
  BY <1>2
<1> QED
  BY <1>3, <1>4, <1>5, <1>6 DEF QueuedReportsFresh

\* Nothing is read: the queues stay, lose their oldest report, or go with the
\* socket.
LEMMA ColdQueues ==
    ASSUME NEW t \in Tasks, TypeOK, QueueInv, OthersKeep(t),
           UNCHANGED <<wire, sent, taken, consumed>>,
           \/ socket' = 0 /\ overflow' \in {overflow, <<>>}
           \/ /\ socket' = socket /\ overflow' = overflow
              /\ reports' = reports \/ (reports # <<>> /\ reports' = Tail(reports)),
           pc'[t] = "recv" /\ op'[t] = "handle" => overflow' = <<>>,
           QueuedReportsFresh'
    PROVE  QueueInv'
<1>1. \A u \in Tasks : pc'[u] = "recv" /\ op'[u] = "handle" => overflow' = <<>>
  BY DEF OthersKeep, QueueInv
<1>2. socket' # 0 => /\ AllOf(overflow', socket')
                     /\ Ordered(taken', overflow', consumed',
                                sent'[socket'] - Len(wire'[socket']))
  BY DEF QueueInv
<1>3. socket' # 0 => AllOf(reports', socket')
  <2> SUFFICES ASSUME socket' # 0 PROVE AllOf(reports', socket')
    OBVIOUS
  <2>1. socket' = socket /\ AllOf(reports, socket) /\ reports \in Seq(Report)
    BY DEF QueueInv, TypeOK, QueueTypes
  <2>2. ASSUME reports # <<>>, reports' = Tail(reports)
        PROVE  AllOf(reports', socket)
    <3>1. /\ Len(reports') = Len(reports) - 1 /\ Len(reports) \in Nat
          /\ \A k \in 1 .. Len(reports') : reports'[k] = reports[k + 1]
      BY <2>1, <2>2
    <3> QED
      BY <2>1, <3>1 DEF AllOf
  <2> QED
    BY <2>1, <2>2
<1> QED
  BY <1>1, <1>2, <1>3 DEF QueueInv, AllOf, Ordered

\* A step of t that opens and closes no connection and reads nothing.
LEMMA CalmStep ==
    ASSUME NEW t \in Tasks, SInv, OthersKeep(t),
           UNCHANGED <<connVars, overflow, taken, consumed>>,
           reports' = reports \/ (reports # <<>> /\ reports' = Tail(reports)),
           Opens(t)' => Opens(t) \/ Nobody,
           ~Closing(t), pc'[t] \notin {"replacing", "closing", "connecting"},
           pc'[t] = "recv" => at'[t] = socket /\ socket # 0,
           pc'[t] = "recv" /\ op'[t] = "handle" => overflow = <<>>,
           QueuedReportsFresh'
    PROVE  Place' /\ WireInv' /\ QueueInv'
<1>1. Place'
  BY PlaceCalm DEF Closing, connVars
<1>2. WireInv'
  BY WireSame DEF SInv, connVars
<1>3. QueueInv'
  BY ColdQueues DEF SInv, IInv, connVars
<1> QED
  BY <1>1, <1>2, <1>3

\* A request is over, or close() begins.
LEMMA AfterStep ==
    ASSUME NEW t \in Tasks, SInv, conn' = conn, ~Closing(t),
           UNCHANGED <<wire, sent, taken, consumed, told>>,
           \/ AfterRequest(t) /\ pc[t] # "connecting"
           \/ StartClose(t) /\ (Opens(t) \/ Nobody)
    PROVE  Place' /\ WireInv' /\ QueueInv'
<1>1. Place'
  BY PlaceAfter, PlaceClose
<1>2. WireInv'
  BY WireSame DEF SInv
<1>3. TypeOK /\ QueueInv /\ QueuedReportsFresh'
  BY FreshSame DEF SInv, IInv, QueueInv
<1>4. CASE StartClose(t)
  <2>1. socket' = 0 /\ OthersKeep(t) /\ pc'[t] \in {"idle", "closing"}
    BY <1>3, <1>4, StartCloseKeeps
  <2>2. overflow' = <<>>
    BY <1>4 DEF StartClose, ClearSession
  <2> QED
    BY <1>1, <1>2, <1>3, <2>1, <2>2, ColdQueues
<1>5. CASE Return(t) /\ UNCHANGED <<socket, queueVars>>
  <2>1. OthersKeep(t) /\ pc'[t] = "idle" /\ UNCHANGED <<overflow, reports>>
    BY <1>3, <1>5, ReturnKeeps DEF TypeOK, queueVars
  <2> QED
    BY <1>1, <1>2, <1>3, <1>5, <2>1, ColdQueues
<1> QED
  BY <1>4, <1>5 DEF AfterRequest
-----------------------------------------------------------------------------
(* Reading. *)

\* Only the holder of the read lock is in recv(), so when it leaves nobody is.
LEMMA NobodyReads ==
    ASSUME NEW t \in Tasks, IInv, Holds(readQ, t), OthersKeep(t),
           pc'[t] # "recv"
    PROVE  \A u \in Tasks : pc'[u] # "recv"
<1>1. \A u \in Tasks : pc[u] = "recv" => Holds(readQ, u)
  BY DEF IInv, ReadLockDiscipline
<1>2. \A u \in Tasks : Holds(readQ, u) => u = t
  BY DEF Holds
<1> QED
  BY <1>1, <1>2 DEF OthersKeep

\* What remains to be shown of the queues when a frame was read.
LEMMA ReadQueues ==
    ASSUME NEW t \in Tasks, SInv, Holds(readQ, t), OthersKeep(t),
           pc'[t] # "recv", socket' = socket, told' = told,
           socket # 0 =>
              /\ AllOf(overflow', socket) /\ AllOf(reports', socket)
              /\ Ordered(taken', overflow', consumed',
                         sent'[socket] - Len(wire'[socket]))
    PROVE  QueueInv'
<1>1. \A u \in Tasks : pc'[u] # "recv"
  BY NobodyReads DEF SInv
<1>2. QueuedReportsFresh'
  BY FreshSame DEF SInv, QueueInv
<1> QED
  BY <1>1, <1>2 DEF QueueInv, AllOf, Ordered

\* The frame that is read is of the reader's session, and the next in number.
LEMMA FrameTaken ==
    ASSUME NEW t \in Tasks, SInv, TakeFromWire(t), pc[t] = "recv",
           NEW f, f = NextFrame(t),
           NEW n, n = sent[socket] - Len(wire[socket])
    PROVE  /\ f \in Frame /\ f.ses = at[t] /\ WireInv'
           /\ socket # 0 => /\ socket = at[t] /\ socket \in Sessions
                            /\ n \in Nat /\ f.num = n + 1
                            /\ sent'[socket] - Len(wire'[socket]) = n + 1
<1> DEFINE w == wire[at[t]]
<1>0. /\ IInv /\ Place /\ WireInv
      /\ wire \in [Sessions -> Seq(Frame)] /\ sent \in [Sessions -> Nat]
      /\ conn \in [Sessions -> {"none", "open", "closed"}]
  BY DEF SInv, IInv, TypeOK, ConnTypes
<1>1. at[t] \in Sessions
  BY <1>0, Suspended
<1>2. /\ w \in Seq(Frame) /\ w # <<>> /\ UNCHANGED <<sent, conn, socket>>
      /\ wire' = [wire EXCEPT ![at[t]] = Tail(w)]
  BY <1>0, <1>1 DEF TakeFromWire
<1>3. f = Head(w)
  BY DEF NextFrame
<1>4. /\ Len(w) <= sent[at[t]] /\ sent[at[t]] \in Nat
      /\ \A k \in 1 .. Len(w) :
            w[k].ses = at[t] /\ w[k].num = sent[at[t]] - Len(w) + k
  BY <1>0, <1>1 DEF WireInv
<1>5. /\ wire'[at[t]] = Tail(w)
      /\ \A s \in Sessions : s # at[t] => wire'[s] = wire[s]
  BY <1>0, <1>1, <1>2
<1> HIDE DEF w
<1>6. /\ Len(w) \in Nat \ {0} /\ Head(w) = w[1] /\ f \in Frame
      /\ Len(Tail(w)) = Len(w) - 1
      /\ \A k \in 1 .. Len(Tail(w)) : Tail(w)[k] = w[k + 1] /\ k + 1 \in 1 .. Len(w)
  BY <1>2, <1>3, AsideTail
<1>7. f.ses = at[t] /\ f.num = sent[at[t]] - Len(w) + 1
  BY <1>3, <1>4, <1>6
<1>8. ASSUME NEW s \in Sessions
      PROVE  /\ conn'[s] = "none" => sent'[s] = 0 /\ wire'[s] = <<>>
             /\ Len(wire'[s]) <= sent'[s]
             /\ \A k \in 1 .. Len(wire'[s]) :
                   /\ wire'[s][k].ses = s
                   /\ wire'[s][k].num = sent'[s] - Len(wire'[s]) + k
  <2>1. CASE s # at[t]
    BY <1>0, <1>2, <1>5, <2>1 DEF WireInv
  <2>2. CASE s = at[t]
    <3>1. conn'[s] # "none"
      BY <1>0, <1>2, <2>2 DEF Place
    <3>2. Len(wire'[s]) <= sent'[s]
      BY <1>2, <1>4, <1>5, <1>6, <2>2
    <3>3. ASSUME NEW k \in 1 .. Len(Tail(w))
          PROVE  /\ Tail(w)[k].ses = s
                 /\ Tail(w)[k].num = sent[s] - Len(Tail(w)) + k
      <4>1. Tail(w)[k] = w[k + 1] /\ k + 1 \in 1 .. Len(w) /\ k \in Nat
        BY <1>6
      <4>2. w[k + 1].ses = s /\ w[k + 1].num = sent[s] - Len(w) + (k + 1)
        BY <1>4, <2>2, <4>1
      <4>3. sent[s] - Len(Tail(w)) + k = sent[s] - Len(w) + (k + 1)
        BY <1>4, <1>6, <2>2, <4>1
      <4> QED
        BY <4>1, <4>2, <4>3
    <3> QED
      BY <1>2, <1>5, <2>2, <3>1, <3>2, <3>3
  <2> QED
    BY <2>1, <2>2
<1>9. WireInv'
  BY <1>8 DEF WireInv
<1>10. ASSUME socket # 0
       PROVE  /\ socket = at[t] /\ n \in Nat /\ f.num = n + 1
              /\ sent'[socket] - Len(wire'[socket]) = n + 1
  <2>1. socket = at[t]
    BY <1>0, <1>10 DEF Place
  <2>2. n = sent[at[t]] - Len(w)
    BY <2>1 DEF w
  <2>3. sent'[socket] - Len(wire'[socket]) = sent[at[t]] - (Len(w) - 1)
    BY <1>2, <1>5, <1>6, <2>1
  <2> QED
    BY <1>4, <1>6, <1>7, <2>1, <2>2, <2>3
<1> QED
  BY <1>1, <1>6, <1>7, <1>9, <1>10

\* Reports of one session stay so when another of that session is queued ...
LEMMA EnqueueOf ==
    ASSUME NEW q \in Seq(Report), NEW r \in Report, NEW s, AllOf(q, s), r.ses = s
    PROVE  AllOf(Enqueue(q, r), s)
<1>1. \A p \in Seq(Report) : AllOf(p, s) => AllOf(Append(p, r), s)
  <2> SUFFICES ASSUME NEW p \in Seq(Report), AllOf(p, s),
                      NEW k \in 1 .. Len(Append(p, r))
               PROVE  Append(p, r)[k].ses = s
    BY DEF AllOf
  <2>1. k \in 1 .. Len(p) \/ k = Len(p) + 1
    OBVIOUS
  <2>2. CASE k \in 1 .. Len(p)
    <3>1. Append(p, r)[k] = p[k]
      BY <2>2
    <3> QED
      BY <2>2, <3>1 DEF AllOf
  <2>3. CASE k = Len(p) + 1
    <3>1. Append(p, r)[k] = r
      BY <2>3
    <3> QED
      BY <3>1
  <2> QED
    BY <2>1, <2>2, <2>3
<1>2. q # <<>> => Tail(q) \in Seq(Report) /\ AllOf(Tail(q), s)
  <2> SUFFICES ASSUME q # <<>> PROVE Tail(q) \in Seq(Report) /\ AllOf(Tail(q), s)
    OBVIOUS
  <2>1. /\ Len(Tail(q)) = Len(q) - 1 /\ Len(q) \in Nat /\ Tail(q) \in Seq(Report)
        /\ \A k \in 1 .. Len(Tail(q)) : Tail(q)[k] = q[k + 1]
    OBVIOUS
  <2> QED
    BY <2>1 DEF AllOf
<1>3. CASE Len(q) < MaxReports
  BY <1>1, <1>3 DEF Enqueue
<1>4. CASE ~(Len(q) < MaxReports)
  <2>1. q # <<>>
    BY <1>4, BoundsAssumption
  <2> QED
    BY <1>1, <1>2, <1>4, <2>1 DEF Enqueue
<1> QED
  BY <1>3, <1>4

\* ... as a rejection in a frame of it, ...
LEMMA QueueIfRejectedOf ==
    ASSUME NEW q \in Seq(Report), NEW f \in Frame, NEW i \in Nat \ {0}, NEW s,
           AllOf(q, s), f.ses = s
    PROVE  AllOf(QueueIfRejected(q, f, i), s)
<1>1. CASE IsRejection(f, i)
  <2>1. About("rejection", f.els[i].id, f) \in Report
    BY <1>1, AboutType, ElementType DEF IsRejection
  <2>2. About("rejection", f.els[i].id, f).ses = s
    BY DEF About
  <2> QED
    BY <1>1, <2>1, <2>2, EnqueueOf DEF QueueIfRejected
<1>2. CASE ~IsRejection(f, i)
  BY <1>2 DEF QueueIfRejected
<1> QED
  BY <1>1, <1>2

\* ... when the frame is routed ...
LEMMA RouteOf ==
    ASSUME NEW f \in Frame, TypeOK, Route(f), NEW s, AllOf(reports, s), f.ses = s
    PROVE  AllOf(reports', s)
<1> DEFINE q1 == IF future.st = "open" THEN reports
                 ELSE QueueIfRejected(reports, f, 1)
<1>0. reports \in Seq(Report) /\ 1 \in Nat \ {0}
  BY DEF TypeOK, QueueTypes
<1>1. q1 \in Seq(Report) /\ AllOf(q1, s)
  <2>1. CASE future.st = "open"
    BY <1>0, <2>1
  <2>2. CASE future.st # "open"
    <3>1. q1 = QueueIfRejected(reports, f, 1)
      BY <2>2
    <3>2. QueueIfRejected(reports, f, 1) \in Seq(Report)
      BY <1>0, QueueIfRejectedType
    <3>3. AllOf(QueueIfRejected(reports, f, 1), s)
      BY <1>0, QueueIfRejectedOf
    <3> QED
      BY <3>1, <3>2, <3>3
  <2> QED
    BY <2>1, <2>2
<1>2. reports' = QueueIfRejected(q1, f, 2)
  BY DEF Route
<1> HIDE DEF q1
<1>3. AllOf(QueueIfRejected(q1, f, 2), s)
  BY <1>1, QueueIfRejectedOf
<1> QED
  BY <1>2, <1>3

\* ... or handed back.
LEMMA HandBackOf ==
    ASSUME NEW f \in Frame, TypeOK, HandBack(f), NEW s, AllOf(reports, s), f.ses = s
    PROVE  AllOf(reports', s)
<1>1. About("unusable", 0, f) \in Report /\ About("unusable", 0, f).ses = s
  BY AboutType DEF About
<1>2. AllOf(Enqueue(reports, About("unusable", 0, f)), s)
  BY <1>1, EnqueueOf DEF TypeOK, QueueTypes
<1> QED
  BY <1>2 DEF HandBack
-----------------------------------------------------------------------------
(* A request. *)

\* t stays in its operation, or leaves it, outside login(), logout() and close().
LEMMA GotoCalm ==
    ASSUME NEW t \in Tasks, NEW s \in States, SInv, Goto(t, s)
    PROVE  /\ OthersKeep(t) /\ pc'[t] = s /\ op'[t] = op[t] /\ at'[t] = at[t]
           /\ Opens(t)' => Opens(t) \/ Nobody
  BY GotoKeeps DEF SInv, IInv, TypeOK, Opens

\* Returning, too, is calm.
LEMMA ReturnCalm ==
    ASSUME NEW t \in Tasks, SInv, Return(t)
    PROVE  OthersKeep(t) /\ pc'[t] = "idle" /\ ~Opens(t)'
  BY ReturnKeeps DEF SInv, IInv, TypeOK, TaskTypes, Return, Opens

\* The application calls a request.
LEMMA CallRequestCalm ==
    ASSUME Serial, NEW t \in Tasks, SInv, CallRequest(t)
    PROVE  Place' /\ WireInv' /\ QueueInv'
<1>1. PICK o \in {"subs", "logout"} : MayCall(t, o) /\ MakeRequest(t, o)
  BY DEF CallRequest
<1>2. pc[t] = "idle" /\ (o # "subs" => Nobody)
  BY <1>1 DEF MayCall, Nobody, Opens
<1>3. TypeOK /\ TaskTypes /\ QueuedReportsFresh'
  BY FreshSame DEF SInv, IInv, TypeOK, QueueInv, CallRequest, toldHist
<1>4. OthersKeep(t)
  BY <1>1, <1>3 DEF MakeRequest, CallRequest, TaskTypes, OthersKeep
<1>5. pc'[t] = "reqlock" /\ op'[t] = o
  BY <1>1, <1>3 DEF MakeRequest, TaskTypes
<1>6. Opens(t)' => Opens(t) \/ Nobody
  BY <1>2, <1>5 DEF Opens
<1> QED
  BY <1>2, <1>3, <1>4, <1>5, <1>6, CalmStep
     DEF CallRequest, connVars, queueVars, frameHist, Closing

\* A request that sends, or fails to.
LEMMA SendCalm ==
    ASSUME NEW t \in Tasks, SInv, StartSend(t) \/ Transmit(t) \/ SendFails(t)
    PROVE  Place' /\ WireInv' /\ QueueInv'
<1>0. /\ TypeOK /\ TaskTypes /\ QueuedReportsFresh'
      /\ UNCHANGED <<connVars, overflow, reports, taken, consumed>> /\ ~Closing(t)
  BY FreshSame DEF SInv, IInv, TypeOK, QueueInv, StartSend, Transmit, SendFails,
                   toldHist, connVars, queueVars, frameHist, Closing
<1>1. CASE Goto(t, "drain")
  BY <1>0, <1>1, GotoCalm, CalmStep DEF States
<1>2. CASE StartSend(t) /\ socket # 0
  <2>1. pc'[t] = "sending" /\ op'[t] = op[t] /\ OthersKeep(t)
    BY <1>0, <1>2 DEF StartSend, TaskTypes, OthersKeep
  <2> QED
    BY <1>0, <2>1, CalmStep DEF Opens
<1>3. CASE Transmit(t)
  <2>1. UNCHANGED <<pc, op, at>> /\ OthersKeep(t) /\ pc[t] = "sending"
    BY <1>3 DEF Transmit, OthersKeep, taskVars
  <2> QED
    BY <1>0, <2>1, CalmStep DEF Opens
<1> QED
  BY <1>1, <1>2, <1>3 DEF StartSend, SendFails

\* The future of a request is resolved.
LEMMA AnsweredCalm ==
    ASSUME NEW t \in Tasks, SInv, Answered(t), pc[t] \in {"sending", "await"},
           future.st # "open", UNCHANGED <<conn, wire, sent, frameHist, toldHist>>
    PROVE  Place' /\ WireInv' /\ QueueInv'
<1>0. /\ TypeOK /\ TaskTypes /\ QueuedReportsFresh' /\ OthersKeep(t)
      /\ UNCHANGED <<wire, sent, taken, consumed, told>> /\ ~Closing(t)
  BY FreshSame, AnsweredKeeps
     DEF SInv, IInv, TypeOK, QueueInv, frameHist, toldHist, Closing
<1>1. CASE AfterRequest(t)
  BY <1>0, <1>1, AfterStep
<1>2. CASE ~AfterRequest(t)
  <2>1. /\ pc'[t] \in {"drain", "unparsable"} /\ op'[t] = op[t]
        /\ UNCHANGED <<connVars, overflow, reports>>
    BY <1>0, <1>2 DEF Answered, TaskTypes, connVars, queueVars
  <2> QED
    BY <1>0, <2>1, CalmStep DEF Opens
<1> QED
  BY <1>1, <1>2

\* A request that waits for its answer: it has it, becomes the reader, or gives up.
LEMMA WaitCalm ==
    ASSUME NEW t \in Tasks, SInv,
           SendReturns(t) \/ Resolved(t) \/ BecomeReader(t) \/ Timeout(t)
    PROVE  Place' /\ WireInv' /\ QueueInv'
<1>0. /\ TypeOK /\ TaskTypes /\ QueuedReportsFresh' /\ ~Closing(t) /\ IInv
      /\ UNCHANGED <<conn, wire, sent, taken, consumed, told>>
  BY FreshSame DEF SInv, IInv, TypeOK, QueueInv, SendReturns, Resolved,
                   BecomeReader, Timeout, toldHist, frameHist, connVars, Closing
<1>1. CASE (SendReturns(t) /\ future.st # "open") \/ Resolved(t)
  BY <1>1, AnsweredCalm DEF SendReturns, Resolved
<1>2. CASE SendReturns(t) /\ future.st = "open"
  <2>1. Goto(t, "await") /\ UNCHANGED <<connVars, overflow, reports>>
    BY <1>0, <1>2 DEF SendReturns, connVars, queueVars
  <2> QED
    BY <1>0, <2>1, GotoCalm, CalmStep DEF States
<1>3. CASE Goto(t, "drain") /\ (BecomeReader(t) \/ Timeout(t))
  <2>1. UNCHANGED <<connVars, overflow, reports>>
    BY <1>3 DEF BecomeReader, Timeout, queueVars
  <2> QED
    BY <1>0, <1>3, <2>1, GotoCalm, CalmStep DEF States
<1>4. CASE BecomeReader(t) /\ socket # 0
  <2>1. /\ pc'[t] = "recv" /\ op'[t] = op[t] /\ at'[t] = socket /\ OthersKeep(t)
        /\ UNCHANGED <<connVars, overflow, reports>>
    BY <1>0, <1>4 DEF BecomeReader, TaskTypes, OthersKeep, queueVars
  <2>2. op[t] # "handle"
    BY <1>0, <1>4, Suspended DEF BecomeReader
  <2> QED
    BY <1>0, <1>4, <2>1, <2>2, CalmStep DEF Opens
<1> QED
  BY <1>1, <1>2, <1>3, <1>4 DEF BecomeReader, Timeout

\* A request that is the reader.
LEMMA RequestReadsCalm ==
    ASSUME NEW t \in Tasks, SInv, RequestReads(t)
    PROVE  Place' /\ WireInv' /\ QueueInv'
<1>f. PICK f : f = NextFrame(t)
  OBVIOUS
<1>n. PICK n : n = sent[socket] - Len(wire[socket])
  OBVIOUS
<1>0. /\ IInv /\ TypeOK /\ TaskTypes /\ ~Closing(t) /\ QueueInv
      /\ pc[t] = "recv" /\ op[t] # "handle" /\ Holds(readQ, t)
      /\ taken \in Seq(Nat) /\ overflow \in Seq(Frame)
      /\ UNCHANGED <<socket, conn, told>> /\ TakeFromWire(t)
  BY Suspended DEF SInv, IInv, TypeOK, RequestReads, Closing, TakeFromWire,
                   HistoryTypes, QueueTypes
<1>1. /\ f \in Frame /\ f.ses = at[t] /\ WireInv'
      /\ socket # 0 => /\ socket = at[t] /\ socket \in Sessions
                       /\ n \in Nat /\ f.num = n + 1
                       /\ sent'[socket] - Len(wire'[socket]) = n + 1
  BY <1>0, <1>f, <1>n, FrameTaken
<1>2. socket # 0 => /\ AllOf(overflow, socket) /\ AllOf(reports, socket)
                    /\ Ordered(taken, overflow, consumed, n)
  BY <1>0, <1>n DEF QueueInv
<1>3. ASSUME OthersKeep(t), pc'[t] \in {"drain", "unparsable", "await"},
             op'[t] = op[t]
      PROVE  Place'
  BY <1>0, <1>3, PlaceCalm DEF Closing, Opens
<1>4. CASE f.kind = "bad"
  <2>1. /\ pc'[t] = "unparsable" /\ op'[t] = op[t] /\ OthersKeep(t)
        /\ consumed' = consumed \cup {f.num}
        /\ UNCHANGED <<overflow, reports, taken>>
    BY <1>0, <1>f, <1>4
       DEF RequestReads, ForWaiter, TaskTypes, OthersKeep, queueVars
  <2>2. socket # 0 => Ordered(taken, overflow, consumed \cup {n + 1}, n + 1)
    BY <1>0, <1>1, <1>2, OrderedConsumed
  <2>3. QueueInv'
    BY <1>0, <1>1, <1>2, <2>1, <2>2, ReadQueues
  <2> QED
    BY <1>1, <1>3, <2>1, <2>3
<1>5. CASE ForWaiter(f)
  <2>1. /\ Route(f) /\ Goto(t, "drain") /\ overflow' = overflow
    BY <1>f, <1>5 DEF RequestReads, ForWaiter
  <2>2. /\ OthersKeep(t) /\ pc'[t] = "drain" /\ op'[t] = op[t]
        /\ taken' = taken /\ consumed' = consumed \cup {f.num}
    BY <2>1, GotoCalm DEF States, Route
  <2>3. socket # 0 => Ordered(taken, overflow, consumed \cup {n + 1}, n + 1)
    BY <1>0, <1>1, <1>2, OrderedConsumed
  <2>4. socket # 0 => AllOf(reports', socket)
    BY <1>0, <1>1, <1>2, <2>1, RouteOf
  <2>5. QueueInv'
    BY <1>0, <1>1, <1>2, <2>1, <2>2, <2>3, <2>4, ReadQueues
  <2> QED
    BY <1>1, <1>3, <2>2, <2>5
<1>6. CASE f.kind # "bad" /\ ~ForWaiter(f)
  <2>1. /\ HandBack(f) /\ Goto(t, "await") /\ overflow' = Append(overflow, f)
        /\ taken' = taken
    BY <1>f, <1>6 DEF RequestReads, SetAside
  <2>2. /\ OthersKeep(t) /\ pc'[t] = "await" /\ op'[t] = op[t]
        /\ consumed' = consumed
    BY <2>1, GotoCalm DEF States, HandBack
  <2>3. socket # 0 => Ordered(taken, Append(overflow, f), consumed, n + 1)
    BY <1>0, <1>1, <1>2, OrderedAside
  <2>4. socket # 0 => AllOf(reports', socket)
    BY <1>0, <1>1, <1>2, <2>1, HandBackOf
  <2>5. socket # 0 => AllOf(overflow', socket)
    <3> SUFFICES ASSUME socket # 0, NEW k \in 1 .. Len(overflow')
                 PROVE  overflow'[k].ses = socket
      BY DEF AllOf
    <3>1. k \in 1 .. Len(overflow) \/ k = Len(overflow) + 1
      BY <1>0, <1>1, <2>1
    <3>2. CASE k \in 1 .. Len(overflow)
      <4>1. overflow'[k] = overflow[k]
        BY <1>0, <2>1, <3>2
      <4> QED
        BY <1>2, <3>2, <4>1 DEF AllOf
    <3>3. CASE k = Len(overflow) + 1
      <4>1. overflow'[k] = f
        BY <1>0, <2>1, <3>3
      <4> QED
        BY <1>1, <4>1
    <3> QED
      BY <3>1, <3>2, <3>3
  <2>6. QueueInv'
    BY <1>0, <1>1, <2>1, <2>2, <2>3, <2>4, <2>5, ReadQueues
  <2> QED
    BY <1>1, <1>3, <2>2, <2>6
<1> QED
  BY <1>4, <1>5, <1>6
-----------------------------------------------------------------------------
(* handle_message. *)

\* The read raises.
LEMMA RecvFailsCalm ==
    ASSUME NEW t \in Tasks, SInv, RecvFails(t)
    PROVE  Place' /\ WireInv' /\ QueueInv'
<1>0. /\ QueuedReportsFresh' /\ ~Closing(t)
      /\ UNCHANGED <<connVars, overflow, reports, taken, consumed>>
  BY FreshSame DEF SInv, QueueInv, RecvFails, toldHist, frameHist, queueVars, Closing
<1>1. CASE Goto(t, "drain")
  BY <1>0, <1>1, GotoCalm, CalmStep DEF States
<1>2. CASE Return(t)
  BY <1>0, <1>2, ReturnCalm, CalmStep
<1> QED
  BY <1>1, <1>2 DEF RecvFails

\* The application calls handle_message.
LEMMA CallHandleCalm ==
    ASSUME NEW t \in Tasks, SInv, CallHandle(t)
    PROVE  Place' /\ WireInv' /\ QueueInv'
<1>0. /\ QueuedReportsFresh' /\ ~Closing(t) /\ TaskTypes
      /\ UNCHANGED <<connVars, overflow, reports, taken, consumed>>
  BY FreshSame DEF SInv, IInv, TypeOK, QueueInv, CallHandle, toldHist, frameHist,
                   queueVars, Closing
<1>1. pc'[t] = "drain" /\ op'[t] = "handle" /\ OthersKeep(t)
  BY <1>0 DEF CallHandle, TaskTypes, OthersKeep
<1> QED
  BY <1>0, <1>1, CalmStep DEF Opens

\* What _read_and_route does for handle_message.
LEMMA HandleCalm ==
    ASSUME NEW t \in Tasks, NEW f \in Frame, SInv, Handle(t, f),
           op[t] = "handle", pc[t] \in {"hlock", "recv"},
           UNCHANGED <<socket, conn>>, socket # 0 => f.ses = socket
    PROVE  /\ Place' /\ OthersKeep(t) /\ pc'[t] # "recv"
           /\ socket # 0 => AllOf(reports', socket)
           /\ \/ taken' = taken /\ consumed' = consumed \cup {f.num}
              \/ taken' = Append(taken, f.num) /\ consumed' = consumed
<1>0. TypeOK /\ IInv /\ QueueInv /\ TaskTypes /\ ~Closing(t) /\ WantsRead(t)
  BY DEF SInv, IInv, TypeOK, Closing, WantsRead
<1>1. OthersKeep(t)
  BY <1>0, HandleKeeps
<1>2. pc'[t] \in {"drain", "idle", "orphans"} /\ ~Opens(t)'
  BY <1>0, ReturnCalm DEF Handle, TaskTypes, Opens
<1>3. Place'
  BY <1>0, <1>1, <1>2, PlaceCalm DEF Closing
<1>4. socket # 0 => AllOf(reports, socket)
  BY <1>0 DEF QueueInv
<1>5. CASE ForWaiter(f) /\ Route(f)
  <2>1. socket # 0 => AllOf(reports', socket)
    BY <1>0, <1>4, <1>5, RouteOf
  <2> QED
    BY <1>1, <1>2, <1>3, <1>5, <2>1 DEF Route
<1>6. CASE HandBack(f) /\ taken' = Append(taken, f.num)
  <2>1. socket # 0 => AllOf(reports', socket)
    BY <1>0, <1>4, <1>6, HandBackOf
  <2> QED
    BY <1>1, <1>2, <1>3, <1>6, <2>1 DEF HandBack
<1> QED
  BY <1>5, <1>6 DEF Handle

\* handle_message takes a frame set aside, or goes to recv().
LEMMA TakeNextCalm ==
    ASSUME NEW t \in Tasks, SInv, TakeNext(t)
    PROVE  Place' /\ WireInv' /\ QueueInv'
<1>n. PICK n : n = sent[socket] - Len(wire[socket])
  OBVIOUS
<1>0. /\ TypeOK /\ IInv /\ QueueInv /\ TaskTypes /\ op[t] = "handle"
      /\ pc[t] = "hlock" /\ Holds(readQ, t) /\ ~Closing(t) /\ QueuedReportsFresh'
      /\ UNCHANGED <<connVars, told>>
      /\ overflow \in Seq(Frame) /\ taken \in Seq(Nat)
  BY FreshSame DEF SInv, IInv, TypeOK, QueueInv, TakeNext, LocalInv, Local,
                   Closing, QueueTypes, HistoryTypes
<1>1. CASE Return(t) /\ UNCHANGED <<queueVars, frameHist>>
  BY <1>0, <1>1, ReturnCalm, CalmStep DEF queueVars, frameHist
<1>2. CASE socket # 0 /\ overflow # <<>>
  <2>f. PICK f : f = Head(overflow)
    OBVIOUS
  <2>1. Handle(t, f) /\ overflow' = Tail(overflow)
    BY <1>2, <2>f DEF TakeNext
  <2>2. /\ AllOf(overflow, socket) /\ AllOf(reports, socket)
        /\ Ordered(taken, overflow, consumed, n)
    BY <1>0, <1>2, <1>n DEF QueueInv
  <2>3. /\ Len(overflow) \in Nat \ {0} /\ f = overflow[1] /\ f \in Frame
        /\ \A j \in 1 .. Len(Tail(overflow)) :
              Tail(overflow)[j] = overflow[j + 1] /\ j + 1 \in 1 .. Len(overflow)
    BY <1>0, <1>2, <2>f, AsideTail
  <2>4. f.ses = socket /\ AllOf(overflow', socket)
    BY <2>1, <2>2, <2>3 DEF AllOf
  <2>5. n \in Nat
    <3>1. /\ socket \in Sessions /\ Len(wire[socket]) \in Nat
          /\ sent[socket] \in Nat /\ Len(wire[socket]) <= sent[socket]
      BY <1>0, <1>2 DEF SInv, WireInv, TypeOK, ConnTypes, Sessions
    <3> QED
      BY <1>n, <3>1
  <2>6. /\ Place' /\ OthersKeep(t) /\ pc'[t] # "recv"
        /\ AllOf(reports', socket)
        /\ \/ taken' = taken /\ consumed' = consumed \cup {f.num}
           \/ taken' = Append(taken, f.num) /\ consumed' = consumed
    BY <1>0, <1>2, <2>1, <2>3, <2>4, HandleCalm DEF connVars
  <2>7. Ordered(taken', overflow', consumed', n)
    BY <1>0, <1>2, <2>f, <2>1, <2>2, <2>5, <2>6, OrderedTaken, OrderedRouted
  <2>8. sent'[socket] - Len(wire'[socket]) = n
    BY <1>0, <1>n DEF connVars
  <2>9. QueueInv'
    BY <1>0, <2>4, <2>6, <2>7, <2>8, ReadQueues DEF connVars
  <2> QED
    BY <1>0, <2>6, <2>9, WireSame DEF SInv, connVars
<1>3. CASE socket # 0 /\ overflow = <<>>
  <2>1. /\ pc'[t] = "recv" /\ op'[t] = op[t] /\ at'[t] = socket /\ OthersKeep(t)
        /\ UNCHANGED <<overflow, reports, taken, consumed>>
    BY <1>0, <1>3 DEF TakeNext, TaskTypes, OthersKeep, queueVars, frameHist
  <2> QED
    BY <1>0, <1>3, <2>1, CalmStep DEF Opens
<1> QED
  BY <1>1, <1>2, <1>3 DEF TakeNext

\* handle_message reads a frame.
LEMMA HandleReadsCalm ==
    ASSUME NEW t \in Tasks, SInv, HandleReads(t)
    PROVE  Place' /\ WireInv' /\ QueueInv'
<1>f. PICK f : f = NextFrame(t)
  OBVIOUS
<1>n. PICK n : n = sent[socket] - Len(wire[socket])
  OBVIOUS
<1>0. /\ IInv /\ TypeOK /\ TaskTypes /\ ~Closing(t) /\ QueueInv
      /\ pc[t] = "recv" /\ op[t] = "handle" /\ Holds(readQ, t)
      /\ taken \in Seq(Nat) /\ overflow = <<>> /\ overflow \in Seq(Frame)
      /\ UNCHANGED <<socket, conn, told>> /\ TakeFromWire(t)
  BY Suspended DEF SInv, IInv, TypeOK, HandleReads, Closing, TakeFromWire,
                   HistoryTypes, QueueInv, QueueTypes
<1>1. /\ f \in Frame /\ f.ses = at[t] /\ WireInv'
      /\ socket # 0 => /\ socket = at[t] /\ socket \in Sessions
                       /\ n \in Nat /\ f.num = n + 1
                       /\ sent'[socket] - Len(wire'[socket]) = n + 1
  BY <1>0, <1>f, <1>n, FrameTaken
<1>2. socket # 0 => /\ AllOf(overflow, socket) /\ AllOf(reports, socket)
                    /\ Ordered(taken, overflow, consumed, n)
  BY <1>0, <1>n DEF QueueInv
<1>3. socket # 0 => /\ Ordered(taken, overflow, consumed \cup {n + 1}, n + 1)
                    /\ Ordered(Append(taken, n + 1), overflow, consumed, n + 1)
  BY <1>0, <1>1, <1>2, OrderedConsumed, OrderedHandled
<1>4. CASE f.kind # "bad"
  <2>1. Handle(t, f) /\ overflow' = overflow
    BY <1>f, <1>4 DEF HandleReads
  <2>2. /\ Place' /\ OthersKeep(t) /\ pc'[t] # "recv"
        /\ socket # 0 => AllOf(reports', socket)
        /\ \/ taken' = taken /\ consumed' = consumed \cup {f.num}
           \/ taken' = Append(taken, f.num) /\ consumed' = consumed
    BY <1>0, <1>1, <2>1, HandleCalm
  <2>3. QueueInv'
    BY <1>0, <1>1, <1>2, <1>3, <2>1, <2>2, ReadQueues
  <2> QED
    BY <1>1, <2>2, <2>3
<1>5. CASE f.kind = "bad"
  <2>1. /\ pc'[t] = "unparsable" /\ op'[t] = op[t] /\ OthersKeep(t)
        /\ consumed' = consumed \cup {f.num}
        /\ UNCHANGED <<overflow, reports, taken>>
    BY <1>0, <1>f, <1>5 DEF HandleReads, TaskTypes, OthersKeep, queueVars
  <2>2. QueueInv'
    BY <1>0, <1>1, <1>2, <1>3, <2>1, ReadQueues
  <2>3. Place'
    BY <1>0, <2>1, PlaceCalm DEF Closing, Opens
  <2> QED
    BY <1>1, <2>2, <2>3
<1> QED
  BY <1>4, <1>5
-----------------------------------------------------------------------------
(* Reports. *)

\* What is reported at once was never queued.
LEMMA DirectCalm ==
    ASSUME NEW t \in Tasks, SInv,
           \/ ReportOrphan(t) \/ OrphanHandlerRaises(t)
           \/ ReportUnparsable(t) \/ UnparsableTold(t)
    PROVE  Place' /\ WireInv' /\ QueueInv'
<1>0. /\ TypeOK /\ TaskTypes /\ ~Closing(t) /\ QueuedReportsFresh
      /\ UNCHANGED <<connVars, overflow, reports, taken, consumed>>
  BY DEF SInv, IInv, TypeOK, QueueInv, ReportOrphan, OrphanHandlerRaises,
         ReportUnparsable, UnparsableTold, frameHist, queueVars, Closing
<1>1. told' = told \/ \E r : Tell(r, TRUE)
  BY DEF ReportOrphan, OrphanHandlerRaises, ReportUnparsable, UnparsableTold,
         toldHist
<1>2. QueuedReportsFresh'
  BY <1>0, <1>1, FreshSame, FreshTold
<1>3. /\ OthersKeep(t) /\ (Opens(t)' => Opens(t))
      /\ pc'[t] \in {"idle", "orphans", "orphanTold", "unparsableTold", "drain"}
  <2>1. CASE Return(t)
    BY <2>1, ReturnCalm
  <2>2. CASE ReportOrphan(t) /\ ~Return(t)
    <3>1. /\ pc' = [pc EXCEPT ![t] = "orphanTold"] \/ pc' = [pc EXCEPT ![t] = "orphans"]
          /\ hand' = [hand EXCEPT ![t].els = Tail(@)]
          /\ UNCHANGED <<op, req, at>>
      BY <2>2 DEF ReportOrphan
    <3> QED
      BY <1>0, <3>1 DEF OthersKeep, TaskTypes, Opens
  <2>3. CASE \E s \in {"unparsableTold", "drain"} : Goto(t, s)
    BY <2>3, GotoKeeps, <1>0 DEF States, Opens
  <2> QED
    BY <2>1, <2>2, <2>3 DEF ReportUnparsable, UnparsableTold, OrphanHandlerRaises
<1> QED
  BY <1>0, <1>2, <1>3, CalmStep

\* The oldest queued report is told.
LEMMA DrainOneCalm ==
    ASSUME NEW t \in Tasks, SInv, DrainOne(t)
    PROVE  Place' /\ WireInv' /\ QueueInv'
<1>0. /\ TypeOK /\ QueueInv /\ QueuedReportsFresh /\ ~Closing(t)
      /\ reports # <<>> /\ reports \in Seq(Report)
      /\ UNCHANGED <<connVars, overflow, taken, consumed>>
      /\ reports' = Tail(reports) /\ Tell(Head(reports), FALSE) /\ Goto(t, "drainTold")
  BY DEF SInv, IInv, TypeOK, QueueTypes, QueueInv, DrainOne, frameHist, Closing
<1>1. socket # 0 => Head(reports).ses = socket
  <2>1. Len(reports) \in Nat \ {0} /\ Head(reports) = reports[1]
    BY <1>0
  <2> QED
    BY <1>0, <2>1 DEF QueueInv, AllOf
<1>2. QueuedReportsFresh'
  BY <1>0, <1>1, FreshTold
<1> QED
  BY <1>0, <1>2, GotoCalm, CalmStep DEF States

\* Nothing is left to report, or a handler raised.
LEMMA DrainedCalm ==
    ASSUME NEW t \in Tasks, SInv, Drained(t) \/ HandlerRaises(t)
    PROVE  Place' /\ WireInv' /\ QueueInv'
<1>0. /\ TypeOK /\ QueuedReportsFresh' /\ ~Closing(t) /\ pc[t] # "connecting"
      /\ UNCHANGED <<conn, wire, sent, taken, consumed, told>>
  BY FreshSame DEF SInv, IInv, QueueInv, Drained, HandlerRaises, frameHist,
                   toldHist, Closing
<1>1. CASE AfterRequest(t)
  BY <1>0, <1>1, AfterStep
<1>2. CASE Return(t) /\ UNCHANGED <<socket, queueVars>>
  BY <1>0, <1>2, ReturnCalm, CalmStep DEF queueVars, connVars
<1>3. CASE Goto(t, "hlock") /\ UNCHANGED <<socket, queueVars>>
  BY <1>0, <1>3, GotoCalm, CalmStep DEF queueVars, connVars, States
<1> QED
  BY <1>1, <1>2, <1>3 DEF Drained, HandlerRaises
-----------------------------------------------------------------------------
(* Connections. *)

\* login() lets go of the connection there was.
LEMMA CallLoginCalm ==
    ASSUME Serial, NEW t \in Tasks, SInv, CallLogin(t)
    PROVE  Place' /\ WireInv' /\ QueueInv'
<1>0. /\ TypeOK /\ TaskTypes /\ Place /\ QueueInv /\ QueuedReportsFresh'
      /\ UNCHANGED <<conn, wire, sent, overflow, reports, taken, consumed>>
      /\ socket' = 0 /\ socket \in 0 .. MaxSession /\ Nobody /\ pc[t] = "idle"
  BY FreshSame DEF SInv, IInv, TypeOK, ConnTypes, QueueInv, CallLogin, MayCall,
                   Nobody, Opens, queueVars, frameHist, toldHist
<1>1. /\ op'[t] = "login" /\ at'[t] = socket /\ OthersKeep(t)
      /\ pc'[t] = IF socket = 0 THEN "connecting" ELSE "replacing"
  BY <1>0 DEF CallLogin, TaskTypes, OthersKeep
<1>2. \A u \in Tasks : u # t =>
         /\ ~Opens(u)' /\ ~Closing(u)' /\ pc'[u] = pc[u] /\ at'[u] = at[u]
         /\ pc[u] # "connecting"
  BY <1>0, <1>1 DEF OthersKeep, Opens, Nobody, Closing, Place
<1>3. \A s \in Sessions : conn[s] = "open" => s = socket
  BY <1>0 DEF Nobody, Place
<1>4. Closing(t)' => at'[t] \in Sessions /\ at'[t] = socket
  BY <1>0, <1>1 DEF Closing, Sessions
<1>5. \A s \in Sessions : conn'[s] = "open" => Closing(t)' /\ at'[t] = s
  BY <1>0, <1>1, <1>3, BoundsAssumption DEF Closing, Sessions
<1>6. Place'
  <2>1. \A u, v \in Tasks : Opens(u)' /\ Opens(v)' => u = v
    BY <1>2
  <2>2. \A u \in Tasks : Closing(u)' \/ pc'[u] = "connecting" => Opens(u)' /\ socket' = 0
    BY <1>0, <1>1, <1>2 DEF Opens
  <2>3. \A u \in Tasks : Closing(u)' => at'[u] \in Sessions
    BY <1>2, <1>4
  <2>4. \A u \in Tasks : pc'[u] = "recv" => conn'[at'[u]] # "none"
    BY <1>0, <1>1, <1>2 DEF Place
  <2> QED
    BY <1>0, <1>5, <2>1, <2>2, <2>3, <2>4 DEF Place
<1>7. WireInv'
  BY <1>0, WireSame DEF SInv
<1>8. QueueInv'
  BY <1>0, <1>1, ColdQueues
<1> QED
  BY <1>6, <1>7, <1>8

\* The connection t closes is closed.
LEMMA ClosedCalm ==
    ASSUME NEW t \in Tasks, SInv, Closing(t),
           conn' = [conn EXCEPT ![at[t]] = "closed"],
           UNCHANGED <<socket, wire, sent, overflow, reports, taken, consumed, told>>,
           OthersKeep(t), pc'[t] = "idle" \/ (pc'[t] = "connecting" /\ Opens(t)'),
           Opens(t)' => Opens(t)
    PROVE  Place' /\ WireInv' /\ QueueInv'
<1>0. /\ TypeOK /\ Place /\ QueueInv /\ QueuedReportsFresh'
      /\ socket = 0 /\ at[t] \in Sessions /\ Opens(t)
      /\ conn \in [Sessions -> {"none", "open", "closed"}]
  BY FreshSame DEF SInv, IInv, TypeOK, ConnTypes, QueueInv, Place
<1>1. \A u \in Tasks : u # t =>
         /\ Opens(u)' <=> Opens(u)
         /\ Closing(u)' <=> Closing(u)
         /\ pc'[u] = pc[u] /\ at'[u] = at[u]
  BY DEF OthersKeep, Opens, Closing
<1>2. /\ conn'[at[t]] = "closed"
      /\ \A s \in Sessions : s # at[t] => conn'[s] = conn[s]
      /\ \A s \in Sessions : conn'[s] = "none" => conn[s] = "none"
  BY <1>0
<1>3. ~Closing(t)'
  BY DEF Closing
<1>4. \A u \in Tasks : u # t => ~Closing(u) /\ pc[u] # "connecting"
  BY <1>0 DEF Place
<1>5. \A s \in Sessions : conn'[s] = "open" => FALSE
  <2> SUFFICES ASSUME NEW s \in Sessions, conn'[s] = "open" PROVE FALSE
    OBVIOUS
  <2>1. s # at[t] /\ conn[s] = "open" /\ s # 0
    BY <1>2 DEF Sessions
  <2> QED
    BY <1>0, <1>4, <2>1 DEF Place
<1>6. \A u, v \in Tasks : Opens(u)' /\ Opens(v)' => u = v
  BY <1>0, <1>1 DEF Place
<1>7. \A u \in Tasks : pc'[u] = "recv" => conn'[at'[u]] # "none"
  <2> SUFFICES ASSUME NEW u \in Tasks, pc'[u] = "recv"
               PROVE  conn'[at'[u]] # "none"
    OBVIOUS
  <2>1. u # t /\ pc[u] = "recv" /\ at'[u] = at[u]
    BY <1>1
  <2>2. conn[at[u]] # "none" /\ at[u] \in Sessions
    BY <1>0, <2>1, Suspended DEF Place, SInv
  <2> QED
    BY <1>2, <2>1, <2>2
<1>8. Place'
  BY <1>0, <1>1, <1>3, <1>4, <1>5, <1>6, <1>7 DEF Place
<1>9. WireInv'
  BY <1>2, WireSame DEF SInv
<1>10. QueueInv'
  BY <1>0, ColdQueues
<1> QED
  BY <1>8, <1>9, <1>10

\* The new connection is there: nobody is in recv(), and nothing is queued.
LEMMA ConnectedCalm ==
    ASSUME NEW t \in Tasks, SInv, Connected(t)
    PROVE  Place' /\ WireInv' /\ QueueInv'
<1>0. /\ TypeOK /\ IInv /\ TaskTypes /\ Place /\ WireInv /\ QueueInv
      /\ QueuedReportsFresh' /\ pc[t] = "connecting" /\ socket = 0 /\ Opens(t)
      /\ conn \in [Sessions -> {"none", "open", "closed"}]
      /\ UNCHANGED <<wire, sent, at>>
      /\ overflow' = <<>> /\ reports' = <<>> /\ taken' = <<>> /\ consumed' = {}
  BY FreshSame DEF SInv, IInv, TypeOK, ConnTypes, QueueInv, Place, Connected,
                   ClearSession, toldHist
<1>1. PICK s \in Sessions : /\ conn[s] = "none"
                            /\ conn' = [conn EXCEPT ![s] = "open"]
                            /\ socket' = s
  BY DEF Connected
<1>2. \A u \in Tasks : ~Closing(u)
  BY <1>0 DEF Place, Closing
<1>3. \A r \in Sessions : conn[r] # "open"
  BY <1>0, <1>2 DEF Place, Sessions
<1>4. \A u \in Tasks : pc[u] # "recv"
  <2> SUFFICES ASSUME NEW u \in Tasks, pc[u] = "recv" PROVE FALSE
    OBVIOUS
  <2>1. at[u] \in Sessions /\ conn[at[u]] # "none"
    BY <1>0, Suspended DEF Place
  <2>2. conn[at[u]] = "closed"
    BY <1>0, <1>3, <2>1
  <2> QED
    BY <2>2 DEF Connected, Runnable
<1>5. pc'[t] = "reqlock" /\ op'[t] = "login" /\ OthersKeep(t)
  BY <1>0 DEF Connected, MakeRequest, TaskTypes, OthersKeep
<1>6. \A u \in Tasks : /\ ~Closing(u)' /\ pc'[u] \notin {"recv", "connecting"}
                       /\ Opens(u)' => Opens(u)
  <2>1. \A u \in Tasks : pc[u] = "connecting" => u = t
    BY <1>0 DEF Place
  <2> QED
    BY <1>0, <1>2, <1>4, <1>5, <2>1 DEF OthersKeep, Closing, Opens
<1>7. \A r \in Sessions : conn'[r] = "open" => r = s
  BY <1>0, <1>1, <1>3
<1>8. socket' # 0 /\ conn'[s] = "open"
  BY <1>0, <1>1 DEF Sessions
<1>9. Place'
  BY <1>0, <1>1, <1>6, <1>7, <1>8 DEF Place
<1>10. WireInv'
  BY <1>0, <1>1, WireSame
<1>11. sent'[s] - Len(wire'[s]) = 0
  BY <1>0, <1>1 DEF WireInv
<1>12. Ordered(<<>>, <<>>, {}, 0)
  BY DEF Ordered
<1>13. AllOf(<<>>, s)
  BY DEF AllOf
<1>14. QueueInv'
  BY <1>0, <1>1, <1>6, <1>11, <1>12, <1>13 DEF QueueInv, AllOf, Ordered
<1> QED
  BY <1>9, <1>10, <1>14

\* The steps of login() and close() between their calls and their requests.
LEMMA ConnectionCalm ==
    ASSUME NEW t \in Tasks, SInv, ConnectionStep(t)
    PROVE  Place' /\ WireInv' /\ QueueInv'
<1>0. TaskTypes /\ QueueInv /\ QueuedReportsFresh /\ TypeOK
  BY DEF SInv, IInv, TypeOK, QueueInv
<1>1. CASE PreviousClosed(t)
  <2>1. Opens(t) /\ Closing(t)
    BY <1>1 DEF PreviousClosed, Closing, SInv, Place
  <2> QED
    BY <1>1, <2>1, GotoCalm, GotoKeeps, <1>0, ClosedCalm
       DEF PreviousClosed, States, queueVars, frameHist, toldHist, Opens
<1>2. CASE Closed(t)
  <2>1. Closing(t)
    BY <1>2 DEF Closed, Closing
  <2> QED
    BY <1>2, <2>1, ReturnCalm, ClosedCalm
       DEF Closed, queueVars, frameHist, toldHist
<1>3. CASE ConnectFails(t)
  <2>1. ~Closing(t) /\ QueuedReportsFresh'
    BY <1>0, <1>3, FreshSame DEF ConnectFails, Closing, toldHist
  <2> QED
    BY <1>3, <2>1, ReturnCalm, CalmStep
       DEF ConnectFails, queueVars, frameHist
<1> QED
  BY <1>1, <1>2, <1>3, ConnectedCalm DEF ConnectionStep

\* close().
LEMMA CallCloseCalm ==
    ASSUME Serial, NEW t \in Tasks, SInv, CallClose(t)
    PROVE  Place' /\ WireInv' /\ QueueInv'
<1>1. Nobody /\ ~Closing(t)
  BY DEF CallClose, MayCall, Nobody, Opens, Closing
<1> QED
  BY <1>1, AfterStep DEF CallClose, frameHist, toldHist

\* A cancelled task reads nothing.
LEMMA CancelCalm ==
    ASSUME NEW t \in Tasks, SInv, Cancel(t)
    PROVE  Place' /\ WireInv' /\ QueueInv'
<1>0. /\ TypeOK /\ QueuedReportsFresh'
      /\ UNCHANGED <<wire, sent, taken, consumed, told>>
  BY FreshSame DEF SInv, IInv, QueueInv, Cancel, frameHist
<1>1. CASE CancelRequest(t)
  BY <1>0, <1>1, AfterStep DEF CancelRequest, WantsSlot, Closing
<1>2. CASE CancelDrain(t)
  BY <1>0, <1>2, AfterStep DEF CancelDrain, Closing
<1>3. CASE CancelHandle(t)
  BY <1>0, <1>3, ReturnCalm, CalmStep
     DEF CancelHandle, queueVars, connVars, Closing
<1>4. CASE CancelConnection(t)
  <2>1. CASE conn' = conn /\ pc[t] = "connecting"
    BY <1>0, <1>4, <2>1, ReturnCalm, CalmStep
       DEF CancelConnection, queueVars, connVars, Closing
  <2>2. CASE conn' = [conn EXCEPT ![at[t]] = "closed"] /\ Closing(t)
    BY <1>0, <1>4, <2>2, ReturnCalm, ClosedCalm DEF CancelConnection, queueVars
  <2> QED
    BY <1>4, <2>1, <2>2 DEF CancelConnection, Closing
<1> QED
  BY <1>1, <1>2, <1>3, <1>4 DEF Cancel
-----------------------------------------------------------------------------
(* The venue. *)

\* No task moves, and no connection opens.
LEMMA PlaceStill ==
    ASSUME SInv, UNCHANGED <<pc, op, at, socket>>,
           \A s \in Sessions : conn'[s] \in {conn[s], "closed"},
           \A s \in Sessions : conn'[s] = "none" <=> conn[s] = "none"
    PROVE  Place'
<1>1. /\ Place /\ IInv /\ socket \in 0 .. MaxSession
      /\ (socket # 0 => socket \in Sessions)
  BY DEF SInv, IInv, TypeOK, ConnTypes, Sessions
<1>2. \A u \in Tasks : /\ Opens(u)' <=> Opens(u)
                       /\ Closing(u)' <=> Closing(u)
  BY DEF Opens, Closing
<1>3. \A u \in Tasks : pc[u] = "recv" => at[u] \in Sessions
  BY <1>1, Suspended
<1> QED
  BY <1>1, <1>2, <1>3 DEF Place

\* A frame is sent.
LEMMA SendStep ==
    ASSUME NEW s \in Sessions, NEW kind \in {"data", "resp", "bad"},
           NEW els \in Seq(Element), SInv, Send(s, kind, els)
    PROVE  Place' /\ WireInv' /\ QueueInv'
<1>f. PICK f : f = [kind |-> kind, els |-> els, ses |-> s, num |-> sent[s] + 1]
  OBVIOUS
<1>0. /\ TypeOK /\ WireInv /\ QueueInv /\ QueuedReportsFresh' /\ conn[s] = "open"
      /\ wire \in [Sessions -> Seq(Frame)] /\ sent \in [Sessions -> Nat]
      /\ UNCHANGED <<socket, conn, pc, op, at, overflow, reports, taken, consumed>>
      /\ sent' = [sent EXCEPT ![s] = @ + 1]
      /\ wire' = [wire EXCEPT ![s] = Append(@, f)]
  BY <1>f, FreshSame DEF SInv, IInv, TypeOK, ConnTypes, QueueInv, Send, queueVars,
                   taskVars, frameHist, toldHist
<1>1. Place'
  BY <1>0, PlaceStill
<1>2. f \in Frame /\ f.ses = s /\ f.num = sent[s] + 1
  BY <1>0, <1>f DEF Frame
<1>3. ASSUME NEW r \in Sessions, r # s
      PROVE  wire'[r] = wire[r] /\ sent'[r] = sent[r]
  BY <1>0, <1>3
<1>w. PICK w : w = wire[s]
  OBVIOUS
<1>4. /\ w \in Seq(Frame) /\ wire'[s] = Append(w, f) /\ sent'[s] = sent[s] + 1
      /\ sent[s] \in Nat
  BY <1>0, <1>w
<1>5. /\ Len(wire'[s]) = Len(w) + 1 /\ Len(w) \in Nat
      /\ wire'[s][Len(w) + 1] = f
      /\ \A k \in 1 .. Len(w) : wire'[s][k] = w[k]
  BY <1>2, <1>4
<1>6. /\ Len(w) <= sent[s]
      /\ \A k \in 1 .. Len(w) : w[k].ses = s /\ w[k].num = sent[s] - Len(w) + k
  BY <1>0, <1>w DEF WireInv
<1>7. ASSUME NEW k \in 1 .. Len(wire'[s])
      PROVE  /\ wire'[s][k].ses = s
             /\ wire'[s][k].num = sent'[s] - Len(wire'[s]) + k
  <2>1. k \in 1 .. Len(w) \/ k = Len(w) + 1
    BY <1>5
  <2>2. sent'[s] - Len(wire'[s]) + k = sent[s] - Len(w) + k
    BY <1>4, <1>5
  <2>3. CASE k \in 1 .. Len(w)
    BY <1>5, <1>6, <2>2, <2>3
  <2>4. CASE k = Len(w) + 1
    BY <1>2, <1>4, <1>5, <2>4
  <2> QED
    BY <2>1, <2>3, <2>4
<1>8. WireInv'
  <2>1. ASSUME NEW r \in Sessions
        PROVE  /\ conn'[r] = "none" => sent'[r] = 0 /\ wire'[r] = <<>>
               /\ Len(wire'[r]) <= sent'[r]
               /\ \A k \in 1 .. Len(wire'[r]) :
                     /\ wire'[r][k].ses = r
                     /\ wire'[r][k].num = sent'[r] - Len(wire'[r]) + k
    <3>1. CASE r = s
      BY <1>0, <1>4, <1>5, <1>6, <1>7, <3>1
    <3>2. CASE r # s
      BY <1>0, <1>3, <3>2 DEF WireInv
    <3> QED
      BY <3>1, <3>2
  <2> QED
    BY <2>1 DEF WireInv
<1>9. socket # 0 => sent'[socket] - Len(wire'[socket]) = sent[socket] - Len(wire[socket])
  <2>1. socket # 0 => socket \in Sessions
    BY <1>0 DEF TypeOK, ConnTypes, Sessions
  <2>2. CASE socket = s
    <3>1. sent'[s] - Len(wire'[s]) = sent[s] - Len(w)
      BY <1>4, <1>5
    <3> QED
      BY <1>w, <2>2, <3>1
  <2>3. CASE socket # s
    BY <1>3, <2>1, <2>3
  <2> QED
    BY <2>2, <2>3
<1>10. QueueInv'
  BY <1>0, <1>9 DEF QueueInv, AllOf, Ordered
<1> QED
  BY <1>1, <1>8, <1>10

\* The venue sends a frame, or the connection is lost.
LEMMA VenueCalm ==
    ASSUME NEW s \in Sessions, SInv, VenueStep(s)
    PROVE  Place' /\ WireInv' /\ QueueInv'
<1>0. Ids \subseteq Nat
  BY DEF Ids
<1>1. CASE VenueAnswers(s)
  <2>1. PICK i \in Ids, c \in Verdicts : Send(s, "resp", <<[id |-> i, code |-> c]>>)
    BY <1>1 DEF VenueAnswers
  <2>2. <<[id |-> i, code |-> c]>> \in Seq(Element)
    BY <1>0, VenueAssumption DEF Element
  <2> QED
    BY <2>1, <2>2, SendStep
<1>2. CASE VenueBatches(s)
  <2>1. PICK i \in Ids, j \in Ids, c \in Verdicts, d \in Verdicts :
           Send(s, "resp", <<[id |-> i, code |-> c], [id |-> j, code |-> d]>>)
    BY <1>2 DEF VenueBatches
  <2>2. <<[id |-> i, code |-> c], [id |-> j, code |-> d]>> \in Seq(Element)
    BY <1>0, VenueAssumption DEF Element
  <2> QED
    BY <2>1, <2>2, SendStep
<1>3. CASE VenueSends(s)
  <2>1. PICK u \in Unsolicited : Send(s, u.kind, u.els)
    BY <1>3 DEF VenueSends
  <2>2. u.kind \in {"data", "resp", "bad"} /\ u.els \in Seq(Element)
    BY VenueAssumption
  <2> QED
    BY <2>1, <2>2, SendStep
<1>4. CASE Disconnect(s)
  <2>1. /\ conn[s] = "open" /\ conn' = [conn EXCEPT ![s] = "closed"]
        /\ conn \in [Sessions -> {"none", "open", "closed"}]
        /\ UNCHANGED <<socket, wire, sent, pc, op, at, overflow, reports, taken,
                       consumed, told>>
    BY <1>4 DEF Disconnect, SInv, IInv, TypeOK, ConnTypes, queueVars, taskVars,
                frameHist, toldHist
  <2>2. \A r \in Sessions : /\ conn'[r] \in {conn[r], "closed"}
                            /\ conn'[r] = "none" <=> conn[r] = "none"
    BY <2>1
  <2>3. Place'
    BY <2>1, <2>2, PlaceStill
  <2>4. WireInv'
    BY <2>1, <2>2, WireSame DEF SInv
  <2>5. QueueInv'
    BY <2>1 DEF SInv, QueueInv, AllOf, Ordered, QueuedReportsFresh
  <2> QED
    BY <2>3, <2>4, <2>5
<1> QED
  BY <1>1, <1>2, <1>3, <1>4 DEF VenueStep
-----------------------------------------------------------------------------
\* At the start nothing is open, sent or queued.
LEMMA InitSInv == Init => SInv
<1> SUFFICES ASSUME Init PROVE SInv
  OBVIOUS
<1>1. Place
  BY DEF Init, Place, Opens, Closing
<1>2. WireInv
  BY DEF Init, WireInv
<1>3. QueueInv
  BY DEF Init, QueueInv, QueuedReportsFresh
<1> QED
  BY <1>1, <1>2, <1>3, InitIInv DEF SInv

\* Every step of callers that do not overlap keeps it so.
LEMMA StepSInv == Serial /\ SInv /\ [Next]_vars => SInv'
<1> SUFFICES ASSUME Serial, SInv, [Next]_vars PROVE SInv'
  OBVIOUS
<1>1. IInv'
  BY StepIInv DEF SInv
<1>2. ASSUME NEW t \in Tasks, CallStep(t) PROVE Place' /\ WireInv' /\ QueueInv'
  BY <1>2, CallRequestCalm, CallHandleCalm, CallLoginCalm, CallCloseCalm DEF CallStep
<1>3. ASSUME NEW t \in Tasks, RequestStep(t) PROVE Place' /\ WireInv' /\ QueueInv'
  BY <1>3, SendCalm, WaitCalm, RequestReadsCalm DEF RequestStep
<1>4. ASSUME NEW t \in Tasks, HandleStep(t) PROVE Place' /\ WireInv' /\ QueueInv'
  BY <1>4, TakeNextCalm, HandleReadsCalm, DirectCalm DEF HandleStep
<1>5. ASSUME NEW t \in Tasks, SharedStep(t) PROVE Place' /\ WireInv' /\ QueueInv'
  BY <1>5, RecvFailsCalm, DirectCalm, DrainOneCalm, DrainedCalm DEF SharedStep
<1>6. CASE UNCHANGED vars
  <2>1. UNCHANGED <<socket, conn, wire, sent, pc, op, at, overflow, reports,
                    taken, consumed, told>>
    BY <1>6 DEF vars, connVars, queueVars, taskVars, frameHist, toldHist
  <2>2. Place'
    BY <2>1, PlaceStill
  <2>3. WireInv' /\ QueueInv'
    BY <2>1, WireSame DEF SInv, QueueInv, AllOf, Ordered, QueuedReportsFresh
  <2> QED
    BY <2>2, <2>3, <1>1 DEF SInv
<1>7. CASE Next
  <2>1. Place' /\ WireInv' /\ QueueInv'
    BY <1>2, <1>3, <1>4, <1>5, <1>7, ConnectionCalm, CancelCalm, VenueCalm DEF Next
  <2> QED
    BY <1>1, <2>1 DEF SInv
<1> QED
  BY <1>6, <1>7

\* What is numbered and ordered so arrived in that order, and none is missing.
LEMMA OrderFollows == SInv => ArrivalOrder
<1> SUFFICES ASSUME SInv, socket # 0 PROVE ArrivalOrder
  BY DEF ArrivalOrder
<1>1. PICK n : n = sent[socket] - Len(wire[socket])
  OBVIOUS
<1>2. /\ taken \in Seq(Nat) /\ overflow \in Seq(Frame) /\ socket \in Sessions
      /\ sent[socket] \in Nat /\ wire[socket] \in Seq(Frame)
  BY DEF SInv, IInv, TypeOK, ConnTypes, QueueTypes, HistoryTypes, Sessions
<1>3. n \in Nat
  <2>1. Len(wire[socket]) <= sent[socket] /\ Len(wire[socket]) \in Nat
    BY <1>2 DEF SInv, WireInv
  <2> QED
    BY <1>1, <1>2, <2>1
<1>4. Ordered(taken, overflow, consumed, n)
  BY <1>1 DEF SInv, QueueInv
<1>5. LET seen == taken \o Numbers(overflow)
      IN  /\ \A i, j \in 1 .. Len(seen) : i < j => seen[i] < seen[j]
          /\ \A i \in 1 .. Len(seen) : seen[i] \notin consumed
          /\ Queued(seen) \cup consumed = 1 .. n
  BY <1>2, <1>3, <1>4, OrderedSeen
<1> QED
  BY <1>1, <1>5 DEF ArrivalOrder

\* The invariant of callers that do not overlap login(), logout() and close().
THEOREM SessionInvariance == Serial => (Spec => []SInv)
<1> SUFFICES ASSUME Serial PROVE Spec => []SInv
  OBVIOUS
<1>1. SInv /\ [Next]_vars => SInv'
  BY StepSInv
<1> QED
  BY InitSInv, <1>1, PTL DEF Spec

\* Arrival order: for callers that do not overlap login(), logout() and
\* close(), what handle_message is given and what is set aside for it is in
\* the order of its arrival, and every frame read on the connection is handled,
\* set aside or consumed (_await_response, _receive).
THEOREM ArrivalOrderCorrect == Serial => (Spec => []ArrivalOrder)
<1> SUFFICES ASSUME Serial PROVE Spec => []ArrivalOrder
  OBVIOUS
<1> QED
  BY SessionInvariance, OrderFollows, PTL

\* And no queued report is told on another connection than the one it is about
\* (close(), and login() once the new socket is in place).
THEOREM QueuedReportsCorrect == Serial => (Spec => []QueuedReportsFresh)
<1> SUFFICES ASSUME Serial PROVE Spec => []QueuedReportsFresh
  OBVIOUS
<1>1. SInv => QueuedReportsFresh
  BY DEF SInv, QueueInv
<1> QED
  BY SessionInvariance, <1>1, PTL
-----------------------------------------------------------------------------
(* Reports: where the news that a request was rejected is.                 *)

\* t reports the rejections of a frame that nobody waits for.
Orphan(t) == pc[t] \in {"orphans", "orphanTold"}

\* The response n of f is about a request that the client can make.
Names(f, n) == n \in 1 .. Len(f.els) /\ f.els[n].id \in Ids

\* A frame as the venue makes it: at most two such responses, in one order,
\* each as it was decided.
FromVenue(f) ==
    /\ \A n \in 1 .. Len(f.els) : Names(f, n) =>
          f.kind = "resp" /\ n <= 2 /\ verdict[f.els[n].id] = f.els[n].code
    /\ \A m, n \in 1 .. Len(f.els) : m < n /\ Names(f, n) =>
          /\ Names(f, m) /\ f.els[m].id # f.els[n].id
          /\ LiveFirst => f.els[n].id < f.els[m].id

AllFromVenue(q) == \A f \in Queued(q) : FromVenue(f)

FramesFromVenue ==
    /\ \A s \in Sessions : AllFromVenue(wire[s])
    /\ AllFromVenue(overflow)
    /\ \A t \in Tasks : Orphan(t) => FromVenue(hand[t])

\* The venue answers what it was asked.
AnswersAsked == \A i \in Ids : verdict[i] # "none" => asked[i] # 0

Sorted(q, f) == \A a, b \in 1 .. Len(q) : a < b => f[q[a]] < f[q[b]]

\* Requests are sent in the order in which they were made.
Turns ==
    /\ Sorted(reqQ, req)
    /\ \A t \in Tasks : WantsSlot(t) =>
          /\ req[t] # 0
          /\ \A i \in Ids : asked[i] # 0 => i < req[t] \/ (i = req[t] /\ HasSlot(t))

\* NotOvertaken, also while handlers hear of an orphan.
Apart ==
    LiveFirst /\ future.st = "open" =>
        /\ \A f \in Queued(overflow) : ~InFrame(f, pending)
        /\ \A t \in Tasks : Orphan(t) => ~InFrame(hand[t], pending)

VenueInv == FramesFromVenue /\ AnswersAsked /\ Turns /\ Apart

VInv == AInv /\ VenueInv
-----------------------------------------------------------------------------
(* Sequences. *)

\* What is behind the head of a queue was in it.
LEMMA QueuedTail ==
    ASSUME NEW S, NEW q \in Seq(S), q # <<>>
    PROVE  /\ Head(q) \in Queued(q) /\ Head(q) \in S
           /\ Tail(q) \in Seq(S) /\ Queued(Tail(q)) \subseteq Queued(q)
<1>1. Len(q) \in Nat \ {0} /\ Head(q) = q[1]
  OBVIOUS
<1>2. /\ Tail(q) \in Seq(S) /\ Len(Tail(q)) = Len(q) - 1
      /\ \A i \in 1 .. Len(Tail(q)) : Tail(q)[i] = q[i + 1]
  OBVIOUS
<1>3. \A i \in 1 .. Len(Tail(q)) : i + 1 \in 1 .. Len(q)
  BY <1>1, <1>2
<1>4. 1 \in 1 .. Len(q) /\ \A i \in 1 .. Len(q) : q[i] \in S
  BY <1>1
<1> QED
  BY <1>1, <1>2, <1>3, <1>4 DEF Queued

\* What is in a queue with one more at its end.
LEMMA QueuedAppend ==
    ASSUME NEW S, NEW q \in Seq(S), NEW x \in S
    PROVE  Append(q, x) \in Seq(S) /\ Queued(Append(q, x)) = Queued(q) \cup {x}
  BY JoinQueued DEF Join

\* Leaving a queue keeps the others in order.
LEMMA LeaveSorted ==
    ASSUME NEW S, NEW q \in Seq(S), NEW t, t \in Queued(q), NEW f, Sorted(q, f)
    PROVE  Sorted(Leave(q, t), f)
<1>1. PICK gap \in 1 .. Len(q) :
         Leave(q, t) = [i \in 1 .. Len(q) - 1 |-> IF i < gap THEN q[i] ELSE q[i + 1]]
  BY LeaveShape
<1> DEFINE p == Leave(q, t)
<1>2. Len(q) \in Nat /\ Len(p) = Len(q) - 1
  BY LeaveType
<1>3. ASSUME NEW a \in 1 .. Len(p)
      PROVE  /\ p[a] = IF a < gap THEN q[a] ELSE q[a + 1]
             /\ a \in 1 .. Len(q) /\ a + 1 \in 1 .. Len(q)
  BY <1>1, <1>2
<1> HIDE DEF p
<1>4. ASSUME NEW a \in 1 .. Len(p), NEW b \in 1 .. Len(p), a < b
      PROVE  f[p[a]] < f[p[b]]
  <2>1. \A m, n \in 1 .. Len(q) : m < n => f[q[m]] < f[q[n]]
    BY DEF Sorted
  <2>2. CASE b < gap
    <3>1. p[a] = q[a] /\ p[b] = q[b]
      BY <1>2, <1>3, <1>4, <2>2
    <3> QED
      BY <1>3, <1>4, <2>1, <3>1
  <2>3. CASE ~(b < gap) /\ a < gap
    <3>1. p[a] = q[a] /\ p[b] = q[b + 1] /\ a < b + 1
      BY <1>2, <1>3, <1>4, <2>3
    <3> QED
      BY <1>3, <2>1, <3>1
  <2>4. CASE ~(a < gap)
    <3>1. ~(b < gap) /\ a + 1 < b + 1
      BY <1>2, <1>4, <2>4
    <3>2. p[a] = q[a + 1] /\ p[b] = q[b + 1]
      BY <1>3, <2>4, <3>1
    <3> QED
      BY <1>3, <2>1, <3>1, <3>2
  <2> QED
    BY <2>2, <2>3, <2>4
<1>5. Sorted(p, f)
  BY <1>4 DEF Sorted
<1> QED
  BY <1>5 DEF p

\* So does joining with the largest number.
LEMMA JoinSorted ==
    ASSUME NEW S, NEW q \in Seq(S), NEW t \in S, NEW f, Sorted(q, f),
           \A u \in Queued(q) : f[u] < f[t]
    PROVE  Sorted(Join(q, t), f)
<1> DEFINE p == Join(q, t)
<1>1. Len(q) \in Nat /\ Len(p) = Len(q) + 1 /\ p[Len(q) + 1] = t
  BY DEF Join
<1>2. \A i \in 1 .. Len(q) : p[i] = q[i]
  BY DEF Join
<1> HIDE DEF p
<1>3. ASSUME NEW a \in 1 .. Len(p), NEW b \in 1 .. Len(p), a < b
      PROVE  f[p[a]] < f[p[b]]
  <2>1. a \in 1 .. Len(q) /\ p[a] = q[a]
    BY <1>1, <1>2, <1>3
  <2>2. CASE b = Len(q) + 1
    BY <1>1, <2>1, <2>2 DEF Queued
  <2>3. CASE b \in 1 .. Len(q)
    BY <1>2, <1>3, <2>1, <2>3 DEF Sorted
  <2> QED
    BY <1>1, <2>2, <2>3
<1> QED
  BY <1>3 DEF Sorted, p

\* Only the numbers of those who are queued count.
LEMMA SortedSame ==
    ASSUME NEW q, NEW f, NEW g, Sorted(q, f), \A u \in Queued(q) : g[u] = f[u]
    PROVE  Sorted(q, g)
  BY DEF Sorted, Queued
-----------------------------------------------------------------------------
(* Turns. *)

\* Whoever still waits for the slot has the same number, and keeps the slot.
Waits(t) ==
    WantsSlot(t)' =>
        WantsSlot(t) /\ req'[t] = req[t] /\ (HasSlot(t) => HasSlot(t)')

SlotPlain(t) ==
    /\ OthersKeep(t) /\ Waits(t)
    /\ reqQ' = reqQ \/ (t \in Queued(reqQ) /\ reqQ' = Leave(reqQ, t))

\* The order of the queue is kept.
LEMMA OrderKept ==
    ASSUME NEW t \in Tasks, IInv, IInv', Turns, SlotPlain(t)
    PROVE  Sorted(reqQ', req') /\ \A u \in Tasks : Waits(u)
<1>0. /\ reqQ \in Seq(Tasks) /\ Sorted(reqQ, req)
      /\ Queued(reqQ) = {u \in Tasks : WantsSlot(u)}
      /\ {reqQ'[i] : i \in 1 .. Len(reqQ')} = {u \in Tasks : WantsSlot(u)'}
  BY DEF IInv, TypeOK, LockTypes, SlotDiscipline, Turns, Queued
<1>1. \A u \in Tasks : Waits(u)
  BY DEF SlotPlain, OthersKeep, Waits, WantsSlot, HasSlot
<1>2. Sorted(reqQ', req)
  BY <1>0, LeaveSorted DEF SlotPlain
<1>3. \A u \in Queued(reqQ') : req'[u] = req[u]
  BY <1>0, <1>1 DEF Waits, Queued
<1> QED
  BY <1>1, <1>2, <1>3, SortedSame

\* And with it the turns, if nothing is sent.
LEMMA TurnsKept ==
    ASSUME NEW t \in Tasks, IInv, IInv', Turns, SlotPlain(t), asked' = asked
    PROVE  Turns'
<1>1. Sorted(reqQ', req') /\ \A u \in Tasks : Waits(u)
  BY OrderKept
<1> QED
  BY <1>1 DEF Turns, Waits, Sorted

\* A new request comes last.
LEMMA MakeRequestTurns ==
    ASSUME NEW t \in Tasks, NEW o, VInv, IInv', MakeRequest(t, o), OthersKeep(t),
           ~WantsSlot(t), asked' = asked
    PROVE  Turns'
<1>0. /\ reqQ \in Seq(Tasks) /\ Turns /\ NumbersKnown /\ nextId \in Nat \ {0}
      /\ Queued(reqQ) = {u \in Tasks : WantsSlot(u)}
      /\ req \in [Tasks -> 0 .. MaxRequest] /\ Ids \subseteq Nat
      /\ pc \in [Tasks -> States] /\ nextId \in Ids
  BY DEF VInv, AInv, IInv, TypeOK, LockTypes, SlotTypes, TaskTypes, SlotDiscipline,
         VenueInv, Truth, MakeRequest, Ids
<1>1. /\ reqQ' = Join(reqQ, t) /\ req'[t] = nextId /\ pc'[t] = "reqlock"
      /\ \A u \in Tasks : u # t => req'[u] = req[u] /\ pc'[u] = pc[u] /\ op'[u] = op[u]
  BY <1>0 DEF MakeRequest, OthersKeep
<1>2. \A u \in Queued(reqQ) : u \in Tasks /\ u # t /\ req'[u] = req[u] /\ req'[u] < req'[t]
  BY <1>0, <1>1 DEF NumbersKnown
<1>3. Sorted(reqQ, req')
  BY <1>0, <1>2, SortedSame DEF Turns
<1>4. Sorted(reqQ', req')
  BY <1>0, <1>1, <1>2, <1>3, JoinSorted
<1>5. ASSUME NEW u \in Tasks, WantsSlot(u)'
      PROVE  /\ req'[u] # 0
             /\ \A i \in Ids : asked'[i] # 0 =>
                   i < req'[u] \/ (i = req'[u] /\ HasSlot(u)')
  <2>1. CASE u = t
    BY <1>0, <1>1, <2>1 DEF NumbersKnown
  <2>2. CASE u # t
    BY <1>0, <1>1, <1>5, <2>2 DEF Turns, WantsSlot, HasSlot
  <2> QED
    BY <2>1, <2>2
<1> QED
  BY <1>4, <1>5 DEF Turns, Sorted
-----------------------------------------------------------------------------
(* Frames. *)

\* A frame of the venue stays one when the venue answers more.
LEMMA FromVenueKept ==
    ASSUME NEW f, FromVenue(f), Settled, f.els \in Seq(Element)
    PROVE  FromVenue(f)'
<1>1. ASSUME NEW n \in 1 .. Len(f.els), Names(f, n)
      PROVE  verdict'[f.els[n].id] = f.els[n].code
  <2>1. f.els[n] \in Element /\ f.els[n].id \in Ids
    BY <1>1 DEF Names
  <2>2. f.els[n].code \in Codes /\ verdict[f.els[n].id] = f.els[n].code
    BY <1>1, <2>1 DEF Element, FromVenue
  <2> QED
    BY <2>1, <2>2 DEF Settled, Codes
<1> QED
  BY <1>1 DEF FromVenue, Names

\* So does what is left of it without its first response.
LEMMA FromVenueTail ==
    ASSUME NEW f \in Frame, FromVenue(f), f.els # <<>>,
           NEW g, g = [f EXCEPT !.els = Tail(f.els)]
    PROVE  FromVenue(g) /\ \A i : InFrame(g, i) => InFrame(f, i)
<1>1. f.els \in Seq(Element) /\ g.els = Tail(f.els) /\ g.kind = f.kind
  BY DEF Frame
<1>2. /\ Len(f.els) \in Nat \ {0} /\ Len(g.els) = Len(f.els) - 1
      /\ \A n \in 1 .. Len(g.els) : g.els[n] = f.els[n + 1] /\ n + 1 \in 1 .. Len(f.els)
  BY <1>1
<1>3. \A n \in 1 .. Len(g.els) : Names(g, n) => Names(f, n + 1)
  BY <1>2 DEF Names
<1>4. ASSUME NEW n \in 1 .. Len(g.els), Names(g, n)
      PROVE  g.kind = "resp" /\ n <= 2 /\ verdict[g.els[n].id] = g.els[n].code
  BY <1>1, <1>2, <1>3, <1>4 DEF FromVenue
<1>5. ASSUME NEW m \in 1 .. Len(g.els), NEW n \in 1 .. Len(g.els), m < n, Names(g, n)
      PROVE  /\ Names(g, m) /\ g.els[m].id # g.els[n].id
             /\ LiveFirst => g.els[n].id < g.els[m].id
  <2>1. m + 1 < n + 1 /\ m + 1 \in 1 .. Len(f.els) /\ n + 1 \in 1 .. Len(f.els)
    BY <1>2, <1>5
  <2>2. /\ Names(f, m + 1) /\ f.els[m + 1].id # f.els[n + 1].id
        /\ LiveFirst => f.els[n + 1].id < f.els[m + 1].id
    BY <1>3, <1>5, <2>1 DEF FromVenue
  <2> QED
    BY <1>2, <2>2 DEF Names
<1>6. FromVenue(g)
  BY <1>4, <1>5 DEF FromVenue
<1>7. \A i : InFrame(g, i) => InFrame(f, i)
  BY <1>2 DEF InFrame
<1> QED
  BY <1>6, <1>7

\* A waiting request has the slot, and nothing later was sent.
LEMMA PendingLast ==
    ASSUME VInv, future.st = "open"
    PROVE  pending \in Ids /\ \A i \in Ids : asked[i] # 0 => i <= pending
<1>0. /\ IInv /\ Turns /\ SlotDiscipline /\ req \in [Tasks -> 0 .. MaxRequest]
      /\ Ids \subseteq Nat
  BY DEF VInv, AInv, IInv, VenueInv, TypeOK, TaskTypes, Ids
<1>1. PICK t \in Tasks : HasSlot(t)
  BY <1>0 DEF SlotDiscipline, NoFuture
<1>2. WantsSlot(t) /\ pending = req[t]
  BY <1>0, <1>1, Suspended
<1>3. req[t] \in Ids
  BY <1>0, <1>2, BoundsAssumption DEF Turns, Ids
<1>4. \A i \in Ids : asked[i] # 0 => i < req[t] \/ i = req[t]
  BY <1>0, <1>2 DEF Turns
<1> QED
  BY <1>0, <1>2, <1>3, <1>4

\* A frame that is not the waiting request's does not have its answer behind
\* another: the other would be the answer to a later request.
LEMMA PassedApart ==
    ASSUME VInv, NEW f \in Frame, FromVenue(f), ~ForWaiter(f),
           LiveFirst, future.st = "open"
    PROVE  ~InFrame(f, pending)
<1> SUFFICES ASSUME NEW n \in 1 .. Len(f.els), f.els[n].id = pending PROVE FALSE
  BY DEF InFrame
<1>0. /\ pending \in Ids /\ \A i \in Ids : asked[i] # 0 => i <= pending
      /\ Ids \subseteq Nat /\ 0 \notin Ids /\ nextId \in Nat /\ AnswersAsked
  BY PendingLast DEF Ids, VInv, AInv, IInv, TypeOK, SlotTypes, VenueInv
<1>1. f.els \in Seq(Element) /\ Names(f, n) /\ f.kind = "resp"
  BY <1>0 DEF Names, FromVenue, Frame
<1>2. Len(f.els) \in Nat /\ 1 \in 1 .. Len(f.els) /\ f.els # <<>>
  BY <1>1
<1>3. f.els[1].id # pending
  BY <1>0, <1>1, <1>2 DEF ForWaiter
<1>4. 1 < n
  BY <1>2, <1>3
<1>5. Names(f, 1) /\ pending < f.els[1].id
  BY <1>1, <1>2, <1>4 DEF FromVenue
<1>6. f.els[1].id \in Ids /\ verdict[f.els[1].id] = f.els[1].code
  BY <1>2, <1>5 DEF FromVenue, Names
<1>7. f.els[1].code \in Codes
  <2>1. f.els[1] \in Element
    BY <1>1, <1>2
  <2> QED
    BY <2>1 DEF Element
<1>8. asked[f.els[1].id] # 0
  BY <1>0, <1>6, <1>7 DEF AnswersAsked, Codes
<1>9. f.els[1].id \in Nat /\ pending \in Nat /\ f.els[1].id <= pending
  BY <1>0, <1>6, <1>8
<1> QED
  BY <1>5, <1>9

\* A step of t that takes frames away, and gives at most f to the frames set
\* aside or to t.
LEMMA Moved ==
    ASSUME NEW t \in Tasks, VInv, OthersKeep(t), UNCHANGED <<asked, verdict>>,
           \A s \in Sessions : Queued(wire'[s]) \subseteq Queued(wire[s]),
           NEW f, FromVenue(f),
           Queued(overflow') \subseteq Queued(overflow) \cup {f},
           Orphan(t)' => hand'[t] = f,
           future'.st = "open" =>
               /\ future.st = "open" /\ pending' = pending
               /\ LiveFirst => ~InFrame(f, pending)
    PROVE  FramesFromVenue' /\ AnswersAsked' /\ Apart'
<1>0. FramesFromVenue /\ AnswersAsked /\ Apart
  BY DEF VInv, VenueInv
<1>1. \A g : FromVenue(g) => FromVenue(g)'
  BY DEF FromVenue, Names
<1>2. \A u \in Tasks : Orphan(u)' => hand'[u] = f \/ (Orphan(u) /\ hand'[u] = hand[u])
  BY DEF OthersKeep, Orphan
<1>3. FramesFromVenue'
  <2>1. ASSUME NEW s \in Sessions PROVE AllFromVenue(wire[s])'
    <3>1. \A g \in Queued(wire'[s]) : FromVenue(g)'
      BY <1>0, <1>1 DEF FramesFromVenue, AllFromVenue
    <3> QED
      BY <3>1 DEF AllFromVenue, Queued, FromVenue, Names
  <2>2. AllFromVenue(overflow)'
    <3>1. \A g \in Queued(overflow') : FromVenue(g)'
      BY <1>0, <1>1 DEF FramesFromVenue, AllFromVenue
    <3> QED
      BY <3>1 DEF AllFromVenue, Queued, FromVenue, Names
  <2>3. ASSUME NEW u \in Tasks, Orphan(u)' PROVE FromVenue(hand[u])'
    <3>1. FromVenue(hand'[u])
      BY <1>0, <1>2, <2>3 DEF FramesFromVenue
    <3> QED
      BY <3>1 DEF FromVenue, Names
  <2> QED
    BY <2>1, <2>2, <2>3 DEF FramesFromVenue
<1>4. Apart'
  <2> SUFFICES ASSUME LiveFirst, future'.st = "open"
               PROVE  /\ \A g \in Queued(overflow') : ~InFrame(g, pending')
                      /\ \A u \in Tasks : Orphan(u)' => ~InFrame(hand'[u], pending')
    BY DEF Apart, Queued, InFrame
  <2>1. \A g \in Queued(overflow') : ~InFrame(g, pending)
    BY <1>0 DEF Apart
  <2>2. \A u \in Tasks : Orphan(u)' => ~InFrame(hand'[u], pending)
    BY <1>0, <1>2 DEF Apart
  <2> QED
    BY <2>1, <2>2
<1>5. AnswersAsked'
  BY <1>0 DEF AnswersAsked
<1> QED
  BY <1>3, <1>4, <1>5

\* A step of t that reads no frame.
FramesPlain(t) ==
    /\ UNCHANGED <<asked, verdict, wire>> /\ overflow' \in {overflow, <<>>}
    /\ Orphan(t)' => Orphan(t) /\ hand'[t] = hand[t]

FutureKept == future'.st = "open" => future.st = "open" /\ pending' = pending

\* Such a step leaves the frames where they are, or drops them.
LEMMA PlainStep ==
    ASSUME NEW t \in Tasks, VInv, IInv', SlotPlain(t), FramesPlain(t), FutureKept
    PROVE  VenueInv'
<1>0. FramesFromVenue /\ Turns /\ Apart /\ IInv
  BY DEF VInv, AInv, VenueInv
<1>1. Turns'
  BY <1>0, TurnsKept DEF FramesPlain
<1>2. PICK f : f = IF Orphan(t)' THEN hand[t] ELSE NoFrame
  OBVIOUS
<1>3. FromVenue(f) /\ (Orphan(t)' => hand'[t] = f)
  <2>1. FromVenue(NoFrame)
    BY DEF FromVenue, NoFrame
  <2>2. Orphan(t)' => FromVenue(hand[t])
    BY <1>0 DEF FramesFromVenue, FramesPlain
  <2> QED
    BY <1>2, <2>1, <2>2 DEF FramesPlain
<1>4. LiveFirst /\ future.st = "open" => ~InFrame(f, pending)
  BY <1>0, <1>2 DEF Apart, FramesPlain, InFrame, NoFrame
<1>5. Queued(overflow') \subseteq Queued(overflow)
  BY DEF FramesPlain, Queued
<1>6. OthersKeep(t) /\ UNCHANGED <<asked, verdict, wire>>
  BY DEF SlotPlain, FramesPlain
<1>7. FramesFromVenue' /\ AnswersAsked' /\ Apart'
  BY <1>3, <1>4, <1>5, <1>6, Moved DEF FutureKept
<1> QED
  BY <1>1, <1>7 DEF VenueInv

\* The end of a request.
LEMMA EndedPlain ==
    ASSUME NEW t \in Tasks, NEW r, VInv, IInv', EndRequest(t, r), WantsSlot(t),
           OthersKeep(t), pc'[t] \in {"drain", "unparsable", "idle", "closing"},
           UNCHANGED <<asked, verdict, wire>>, overflow' \in {overflow, <<>>}
    PROVE  VenueInv'
<1>1. t \in Queued(reqQ)
  BY DEF VInv, AInv, IInv, SlotDiscipline
<1>2. SlotPlain(t)
  BY <1>1 DEF SlotPlain, Waits, WantsSlot, EndRequest
<1>3. FramesPlain(t) /\ FutureKept
  BY DEF FramesPlain, FutureKept, Orphan, EndRequest, NoFuture
<1> QED
  BY <1>2, <1>3, PlainStep

\* A task that neither waits for the slot nor has an orphan does not disturb.
LEMMA FreePlain ==
    ASSUME NEW t \in Tasks, VInv, IInv', OthersKeep(t), reqQ' = reqQ,
           pc'[t] \notin {"reqlock", "sending", "await", "orphans", "orphanTold"},
           pc'[t] = "recv" => op'[t] = "handle",
           UNCHANGED <<asked, verdict, wire>>, overflow' \in {overflow, <<>>},
           FutureKept
    PROVE  VenueInv'
<1>1. SlotPlain(t)
  BY DEF SlotPlain, Waits, WantsSlot
<1>2. FramesPlain(t)
  BY DEF FramesPlain, Orphan
<1> QED
  BY <1>1, <1>2, PlainStep
-----------------------------------------------------------------------------
(* Calls, and steps that have nothing to do with frames. *)

\* A request is called.
LEMMA CallRequestVenue ==
    ASSUME NEW t \in Tasks, VInv, IInv', CallRequest(t) PROVE VenueInv'
<1>0. TaskTypes
  BY DEF VInv, AInv, IInv, TypeOK
<1>1. PICK o \in {"subs", "logout"} : pc[t] = "idle" /\ MakeRequest(t, o)
  BY DEF CallRequest, MayCall
<1>2. OthersKeep(t) /\ ~WantsSlot(t) /\ pc'[t] = "reqlock"
  BY <1>0, <1>1 DEF CallRequest, MakeRequest, OthersKeep, TaskTypes, WantsSlot
<1>3. Turns'
  BY <1>1, <1>2, MakeRequestTurns DEF CallRequest, venueVars
<1>4. FromVenue(NoFrame) /\ ~InFrame(NoFrame, pending)
  BY DEF FromVenue, NoFrame, InFrame
<1>5. FramesFromVenue' /\ AnswersAsked' /\ Apart'
  BY <1>2, <1>4, Moved
     DEF CallRequest, Orphan, connVars, queueVars, venueVars
<1> QED
  BY <1>3, <1>5 DEF VenueInv

\* handle_message, login() or close() is called.
LEMMA CallVenue ==
    ASSUME NEW t \in Tasks, VInv, IInv', CallHandle(t) \/ CallLogin(t) \/ CallClose(t)
    PROVE  VenueInv'
<1>0. TaskTypes /\ TypeOK
  BY DEF VInv, AInv, IInv, TypeOK
<1>1. CASE CallHandle(t)
  BY <1>0, <1>1, FreePlain
     DEF CallHandle, OthersKeep, TaskTypes, connVars, slotVars, queueVars,
         venueVars, FutureKept
<1>2. CASE CallLogin(t)
  BY <1>0, <1>2, FreePlain
     DEF CallLogin, OthersKeep, TaskTypes, slotVars, queueVars, venueVars, FutureKept
<1>3. CASE CallClose(t)
  <2>1. OthersKeep(t) /\ pc'[t] \in {"idle", "closing"} /\ overflow' = <<>>
    BY <1>0, <1>3, StartCloseKeeps DEF CallClose, StartClose, ClearSession
  <2> QED
    BY <1>3, <2>1, FreePlain DEF CallClose, slotVars, venueVars, FutureKept
<1> QED
  BY <1>1, <1>2, <1>3

\* What a task does after its request, or after its drain.
LEMMA AfterPlain ==
    ASSUME NEW t \in Tasks, TypeOK, AfterRequest(t)
    PROVE  /\ OthersKeep(t) /\ pc'[t] \in {"idle", "closing"}
           /\ overflow' \in {overflow, <<>>}
  BY AfterRequestKeeps
     DEF AfterRequest, StartClose, ClearSession, queueVars

\* Telling the handlers, except of an orphan.
LEMMA ReportVenue ==
    ASSUME NEW t \in Tasks, VInv, IInv',
           \/ ReportUnparsable(t) \/ UnparsableTold(t)
           \/ DrainOne(t) \/ Drained(t) \/ HandlerRaises(t)
    PROVE  VenueInv'
<1>0. TaskTypes /\ TypeOK
  BY DEF VInv, AInv, IInv, TypeOK
<1>1. CASE ReportUnparsable(t)
  <2>1. OthersKeep(t) /\ pc'[t] \in {"idle", "unparsableTold", "drain"}
    BY <1>0, <1>1, GotoKeeps, ReturnKeeps DEF ReportUnparsable, States
  <2> QED
    BY <1>1, <2>1, FreePlain
       DEF ReportUnparsable, connVars, slotVars, queueVars, venueVars, FutureKept
<1>2. CASE UnparsableTold(t)
  <2>1. OthersKeep(t) /\ pc'[t] = "drain"
    BY <1>0, <1>2, GotoKeeps DEF UnparsableTold, States
  <2> QED
    BY <1>2, <2>1, FreePlain
       DEF UnparsableTold, connVars, slotVars, queueVars, venueVars, FutureKept
<1>3. CASE DrainOne(t)
  <2>1. OthersKeep(t) /\ pc'[t] = "drainTold"
    BY <1>0, <1>3, GotoKeeps DEF DrainOne, States
  <2> QED
    BY <1>3, <2>1, FreePlain DEF DrainOne, connVars, slotVars, venueVars, FutureKept
<1>4. CASE Drained(t)
  <2>1. OthersKeep(t) /\ pc'[t] \in {"idle", "closing", "hlock"}
    BY <1>0, <1>4, AfterPlain, GotoKeeps, ReturnKeeps DEF Drained, States
  <2>2. overflow' \in {overflow, <<>>}
    BY <1>0, <1>4, AfterPlain DEF Drained, queueVars
  <2> QED
    BY <1>4, <2>1, <2>2, FreePlain DEF Drained, slotVars, venueVars, FutureKept
<1>5. CASE HandlerRaises(t)
  <2>1. OthersKeep(t) /\ pc'[t] \in {"idle", "closing"}
    BY <1>0, <1>5, AfterPlain, ReturnKeeps DEF HandlerRaises
  <2>2. overflow' \in {overflow, <<>>}
    BY <1>0, <1>5, AfterPlain DEF HandlerRaises, queueVars
  <2> QED
    BY <1>5, <2>1, <2>2, FreePlain DEF HandlerRaises, slotVars, venueVars, FutureKept
<1> QED
  BY <1>1, <1>2, <1>3, <1>4, <1>5

\* Connecting; a LOGIN request is a request like the others.
LEMMA ConnectionVenue ==
    ASSUME NEW t \in Tasks, VInv, IInv', ConnectionStep(t) PROVE VenueInv'
<1>0. TaskTypes /\ TypeOK
  BY DEF VInv, AInv, IInv, TypeOK
<1>1. CASE PreviousClosed(t)
  <2>1. OthersKeep(t) /\ pc'[t] = "connecting"
    BY <1>0, <1>1, GotoKeeps DEF PreviousClosed, States
  <2> QED
    BY <1>1, <2>1, FreePlain
       DEF PreviousClosed, slotVars, queueVars, venueVars, FutureKept
<1>2. CASE Connected(t)
  <2>1. OthersKeep(t) /\ ~WantsSlot(t) /\ pc'[t] = "reqlock"
    BY <1>0, <1>2 DEF Connected, MakeRequest, OthersKeep, TaskTypes, WantsSlot
  <2>2. Turns'
    BY <1>2, <2>1, MakeRequestTurns DEF Connected, venueVars
  <2>3. FromVenue(NoFrame) /\ ~InFrame(NoFrame, pending)
    BY DEF FromVenue, NoFrame, InFrame
  <2>4. Queued(overflow') \subseteq Queued(overflow)
    BY <1>2 DEF Connected, ClearSession, Queued
  <2>5. FramesFromVenue' /\ AnswersAsked' /\ Apart'
    BY <1>2, <2>1, <2>3, <2>4, Moved DEF Connected, Orphan, venueVars
  <2> QED
    BY <2>2, <2>5 DEF VenueInv
<1>3. CASE ConnectFails(t)
  <2>1. OthersKeep(t) /\ pc'[t] = "idle"
    BY <1>0, <1>3, ReturnKeeps DEF ConnectFails
  <2> QED
    BY <1>3, <2>1, FreePlain
       DEF ConnectFails, connVars, slotVars, queueVars, venueVars, FutureKept
<1>4. CASE Closed(t)
  <2>1. OthersKeep(t) /\ pc'[t] = "idle"
    BY <1>0, <1>4, ReturnKeeps DEF Closed
  <2> QED
    BY <1>4, <2>1, FreePlain DEF Closed, slotVars, queueVars, venueVars, FutureKept
<1> QED
  BY <1>1, <1>2, <1>3, <1>4 DEF ConnectionStep

\* A cancelled task.
LEMMA CancelVenue ==
    ASSUME NEW t \in Tasks, VInv, IInv', Cancel(t) PROVE VenueInv'
<1>0. TaskTypes /\ TypeOK /\ UNCHANGED <<wire, asked, verdict>>
  BY DEF VInv, AInv, IInv, TypeOK, Cancel, venueVars
<1>1. CASE CancelRequest(t)
  <2>1. /\ OthersKeep(t) /\ pc'[t] \in {"idle", "closing"}
        /\ overflow' \in {overflow, <<>>}
    BY <1>0, <1>1, AfterPlain DEF CancelRequest
  <2>2. CASE pc[t] = "reqlock"
    <3>1. t \in Queued(reqQ) /\ reqQ' = Leave(reqQ, t)
      BY <1>1, <2>2 DEF CancelRequest, VInv, AInv, IInv, SlotDiscipline
    <3>2. SlotPlain(t) /\ FramesPlain(t) /\ FutureKept
      BY <1>0, <1>1, <2>1, <2>2, <3>1
         DEF CancelRequest, SlotPlain, Waits, WantsSlot, FramesPlain, Orphan,
             FutureKept, slotVars
    <3> QED
      BY <3>2, PlainStep
  <2>3. CASE pc[t] # "reqlock"
    BY <1>0, <1>1, <2>1, <2>3, EndedPlain DEF CancelRequest
  <2> QED
    BY <2>2, <2>3
<1>2. CASE CancelDrain(t)
  <2>1. /\ OthersKeep(t) /\ pc'[t] \in {"idle", "closing"}
        /\ overflow' \in {overflow, <<>>}
    BY <1>0, <1>2, AfterPlain DEF CancelDrain
  <2> QED
    BY <1>0, <1>2, <2>1, FreePlain DEF CancelDrain, slotVars, FutureKept
<1>3. CASE CancelHandle(t)
  <2>1. OthersKeep(t) /\ pc'[t] = "idle"
    BY <1>0, <1>3, ReturnKeeps DEF CancelHandle
  <2>2. FutureKept
    BY <1>3 DEF CancelHandle, FailPending, FutureKept
  <2> QED
    BY <1>0, <1>3, <2>1, <2>2, FreePlain DEF CancelHandle, queueVars
<1>4. CASE CancelConnection(t)
  <2>1. OthersKeep(t) /\ pc'[t] = "idle"
    BY <1>0, <1>4, ReturnKeeps DEF CancelConnection
  <2> QED
    BY <1>0, <1>4, <2>1, FreePlain
       DEF CancelConnection, slotVars, queueVars, FutureKept
<1> QED
  BY <1>1, <1>2, <1>3, <1>4 DEF Cancel
-----------------------------------------------------------------------------
(* A request, up to its answer. *)

\* A request whose turn it is has not been sent, so it has no answer yet.
LEMMA StartSendVenue ==
    ASSUME NEW t \in Tasks, VInv, IInv', StartSend(t) PROVE VenueInv'
<1>0. TaskTypes /\ Turns /\ FramesFromVenue /\ AnswersAsked /\ IInv
      /\ pc[t] = "reqlock" /\ req[t] \in 0 .. MaxRequest /\ Ids \subseteq Nat
  BY DEF VInv, AInv, IInv, TypeOK, TaskTypes, VenueInv, StartSend, Ids
<1>1. CASE socket = 0
  <2>1. OthersKeep(t) /\ pc'[t] = "drain"
    BY <1>0, <1>1, GotoKeeps DEF StartSend, States
  <2> QED
    BY <1>0, <1>1, <2>1, EndedPlain
       DEF StartSend, WantsSlot, connVars, queueVars, venueVars
<1>2. CASE socket # 0
  <2>1. /\ OthersKeep(t) /\ pc'[t] = "sending" /\ req'[t] = req[t] /\ reqQ' = reqQ
        /\ pending' = req[t] /\ UNCHANGED <<asked, verdict, wire, overflow>>
    BY <1>0, <1>2 DEF StartSend, OthersKeep, TaskTypes, connVars, queueVars, venueVars
  <2>2. SlotPlain(t)
    BY <1>0, <2>1 DEF SlotPlain, Waits, WantsSlot, HasSlot
  <2>3. Turns'
    BY <1>0, <2>1, <2>2, TurnsKept
  <2>4. WantsSlot(t) /\ ~HasSlot(t)
    BY <1>0 DEF WantsSlot, HasSlot
  <2>5. req[t] \in Ids /\ asked[req[t]] = 0
    BY <1>0, <2>4, BoundsAssumption DEF Turns, Ids
  <2>6. verdict[req[t]] = "none"
    BY <1>0, <2>5 DEF AnswersAsked
  <2>7. ASSUME NEW f, FromVenue(f), f.els \in Seq(Element) PROVE ~InFrame(f, req[t])
    <3> SUFFICES ASSUME NEW n \in 1 .. Len(f.els), f.els[n].id = req[t] PROVE FALSE
      BY DEF InFrame
    <3>1. f.els[n].code = "none"
      BY <2>5, <2>6, <2>7 DEF FromVenue, Names
    <3>2. f.els[n] \in Element
      BY <2>7
    <3> QED
      BY <3>1, <3>2 DEF Element, Codes
  <2>8. /\ \A f \in Queued(overflow) : FromVenue(f) /\ f.els \in Seq(Element)
        /\ \A u \in Tasks : Orphan(u) => FromVenue(hand[u]) /\ hand[u].els \in Seq(Element)
    <3>1. overflow \in Seq(Frame) /\ \A f \in Frame : f.els \in Seq(Element)
      BY <1>0 DEF IInv, TypeOK, QueueTypes, Frame
    <3>2. \A u \in Tasks : Orphan(u) => hand[u] \in Frame
      BY <1>0 DEF IInv, LocalInv, Local, Orphan
    <3> QED
      BY <1>0, <3>1, <3>2 DEF FramesFromVenue, AllFromVenue, Queued
  <2>9. Apart'
    <3>1. \A u \in Tasks : Orphan(u)' => Orphan(u) /\ hand'[u] = hand[u]
      BY <2>1 DEF OthersKeep, Orphan
    <3>2. \A f \in Queued(overflow) : ~InFrame(f, req[t])
      BY <2>7, <2>8
    <3>3. \A u \in Tasks : Orphan(u)' => ~InFrame(hand'[u], req[t])
      BY <2>7, <2>8, <3>1
    <3> QED
      BY <2>1, <3>2, <3>3 DEF Apart, Queued, InFrame
  <2>10. FramesFromVenue' /\ AnswersAsked'
    <3>1. \A u \in Tasks : Orphan(u)' => Orphan(u) /\ hand'[u] = hand[u]
      BY <2>1 DEF OthersKeep, Orphan
    <3>2. \A f : FromVenue(f) => FromVenue(f)'
      BY <2>1 DEF FromVenue, Names
    <3>3. ASSUME NEW u \in Tasks, Orphan(u)' PROVE FromVenue(hand[u])'
      <4>1. FromVenue(hand'[u])
        BY <1>0, <3>1, <3>3 DEF FramesFromVenue
      <4> QED
        BY <2>1, <4>1 DEF FromVenue, Names
    <3> QED
      BY <1>0, <2>1, <3>2, <3>3 DEF FramesFromVenue, AllFromVenue, Queued, AnswersAsked
  <2> QED
    BY <2>3, <2>9, <2>10 DEF VenueInv
<1> QED
  BY <1>1, <1>2

\* The request that is sent was made before those that wait behind it.
LEMMA TransmitVenue ==
    ASSUME NEW t \in Tasks, VInv, IInv', Transmit(t) PROVE VenueInv'
<1>0. /\ IInv /\ Turns /\ FramesFromVenue /\ AnswersAsked /\ Apart
      /\ asked \in [Ids -> 0 .. MaxSession] /\ reqQ \in Seq(Tasks)
      /\ req \in [Tasks -> 0 .. MaxRequest]
      /\ Queued(reqQ) = {u \in Tasks : WantsSlot(u)}
  BY DEF VInv, AInv, IInv, TypeOK, VenueTypes, LockTypes, TaskTypes,
         SlotDiscipline, VenueInv
<1>1. /\ HasSlot(t) /\ WantsSlot(t) /\ Holds(reqQ, t) /\ asked[req[t]] = 0
      /\ UNCHANGED <<wire, overflow, pending, future, reqQ, pc, req, op, hand, verdict>>
      /\ asked' = [asked EXCEPT ![req[t]] = at[t]]
  <2>1. pc[t] = "sending"
    BY DEF Transmit
  <2>2. HasSlot(t) /\ WantsSlot(t) /\ Holds(reqQ, t)
    BY <1>0, <2>1, Suspended
  <2> QED
    BY <2>2 DEF Transmit, connVars, slotVars, queueVars, taskVars
<1>2. ASSUME NEW u \in Tasks, WantsSlot(u), u # t PROVE req[t] < req[u]
  <2>1. u \in Queued(reqQ) /\ Len(reqQ) \in Nat
    BY <1>0, <1>2
  <2>2. PICK k \in 1 .. Len(reqQ) : reqQ[k] = u
    BY <2>1 DEF Queued
  <2>3. reqQ[1] = t /\ 1 \in 1 .. Len(reqQ) /\ 1 < k
    BY <1>1, <1>2, <2>1, <2>2 DEF Holds
  <2> QED
    BY <1>0, <2>2, <2>3 DEF Turns, Sorted
<1>3. Turns'
  <2>1. ASSUME NEW u \in Tasks, WantsSlot(u), NEW i \in Ids, asked'[i] # 0
        PROVE  i < req[u] \/ (i = req[u] /\ HasSlot(u))
    <3>1. CASE i = req[t]
      BY <1>1, <1>2, <2>1, <3>1
    <3>2. CASE i # req[t]
      BY <1>0, <1>1, <2>1, <3>2 DEF Turns
    <3> QED
      BY <3>1, <3>2
  <2> QED
    BY <1>0, <1>1, <2>1 DEF Turns, Sorted, WantsSlot, HasSlot
<1>4. AnswersAsked'
  BY <1>0, <1>1 DEF AnswersAsked
<1>5. FramesFromVenue' /\ Apart'
  BY <1>0, <1>1
     DEF FramesFromVenue, AllFromVenue, FromVenue, Names, Apart, Queued, Orphan, InFrame
<1> QED
  BY <1>3, <1>4, <1>5 DEF VenueInv

\* The request gets its answer.
LEMMA AnsweredVenue ==
    ASSUME NEW t \in Tasks, VInv, IInv', Answered(t), HasSlot(t), future.st # "open",
           UNCHANGED <<venueVars, wire>>
    PROVE  VenueInv'
<1>0. IInv /\ TypeOK
  BY DEF VInv, AInv, IInv
<1>1. /\ OthersKeep(t) /\ pc'[t] \in {"drain", "unparsable", "idle", "closing"}
      /\ EndRequest(t, future.st)
  BY <1>0, AnsweredKeeps
<1>2. overflow' \in {overflow, <<>>}
  BY <1>0, AfterPlain DEF Answered, queueVars
<1> QED
  BY <1>1, <1>2, EndedPlain DEF venueVars, HasSlot

\* The other steps of a request that read no frame.
LEMMA WaitVenue ==
    ASSUME NEW t \in Tasks, VInv, IInv',
           \/ SendReturns(t) \/ Resolved(t) \/ SendFails(t) \/ Timeout(t)
           \/ BecomeReader(t)
    PROVE  VenueInv'
<1>0. TaskTypes /\ IInv
  BY DEF VInv, AInv, IInv, TypeOK
<1>1. CASE SendReturns(t) /\ future.st = "open"
  <2>1. /\ OthersKeep(t) /\ pc'[t] = "await" /\ req'[t] = req[t] /\ reqQ' = reqQ
        /\ pc[t] = "sending"
    BY <1>0, <1>1, GotoKeeps DEF SendReturns, States
  <2>2. SlotPlain(t) /\ FramesPlain(t) /\ FutureKept
    BY <1>1, <2>1
       DEF SendReturns, SlotPlain, Waits, WantsSlot, HasSlot, FramesPlain, Orphan,
           FutureKept, slotVars, queueVars, venueVars
  <2> QED
    BY <2>2, PlainStep
<1>2. CASE (SendReturns(t) \/ Resolved(t)) /\ future.st # "open"
  <2>1. HasSlot(t)
    BY <1>0, <1>2, Suspended DEF SendReturns, Resolved
  <2> QED
    BY <1>2, <2>1, AnsweredVenue DEF SendReturns, Resolved
<1>3. CASE SendFails(t) \/ Timeout(t) \/ (BecomeReader(t) /\ socket = 0)
  <2>1. PICK r : EndRequest(t, r) /\ Goto(t, "drain")
    BY <1>3 DEF SendFails, Timeout, BecomeReader
  <2>2. OthersKeep(t) /\ pc'[t] = "drain"
    BY <1>0, <2>1, GotoKeeps DEF States
  <2>3. WantsSlot(t)
    BY <1>3 DEF SendFails, Timeout, BecomeReader, WantsSlot
  <2>4. UNCHANGED <<asked, verdict, wire, overflow>>
    BY <1>3 DEF SendFails, Timeout, BecomeReader, venueVars, connVars, queueVars
  <2> QED
    BY <2>1, <2>2, <2>3, <2>4, EndedPlain
<1>4. CASE BecomeReader(t) /\ socket # 0
  <2>1. /\ OthersKeep(t) /\ pc'[t] = "recv" /\ req'[t] = req[t] /\ reqQ' = reqQ
        /\ op'[t] = op[t] /\ op[t] # "handle" /\ pc[t] = "await"
    BY <1>0, <1>4, Suspended DEF BecomeReader, OthersKeep, TaskTypes
  <2>2. SlotPlain(t) /\ FramesPlain(t) /\ FutureKept
    BY <1>4, <2>1
       DEF BecomeReader, SlotPlain, Waits, WantsSlot, HasSlot, FramesPlain, Orphan,
           FutureKept, slotVars, queueVars, venueVars, connVars
  <2> QED
    BY <2>2, PlainStep
<1> QED
  BY <1>1, <1>2, <1>3, <1>4 DEF Resolved
-----------------------------------------------------------------------------
(* Reading frames. *)

\* A frame read from a wire is the venue's, and so are those behind it.
LEMMA WireVenue ==
    ASSUME NEW t \in Tasks, VInv, TakeFromWire(t), at[t] \in Sessions
    PROVE  /\ NextFrame(t) \in Frame /\ FromVenue(NextFrame(t))
           /\ \A s \in Sessions : Queued(wire'[s]) \subseteq Queued(wire[s])
<1>1. /\ wire \in [Sessions -> Seq(Frame)] /\ \A s \in Sessions : AllFromVenue(wire[s])
      /\ wire[at[t]] # <<>> /\ wire' = [wire EXCEPT ![at[t]] = Tail(@)]
  BY DEF VInv, AInv, IInv, TypeOK, ConnTypes, VenueInv, FramesFromVenue, TakeFromWire
<1>2. /\ Head(wire[at[t]]) \in Queued(wire[at[t]]) /\ Head(wire[at[t]]) \in Frame
      /\ Queued(Tail(wire[at[t]])) \subseteq Queued(wire[at[t]])
  BY <1>1, QueuedTail
<1>3. \A s \in Sessions : Queued(wire'[s]) \subseteq Queued(wire[s])
  BY <1>1, <1>2
<1> QED
  BY <1>1, <1>2, <1>3 DEF NextFrame, AllFromVenue

\* What remains to be shown of a step that reads frame f.
LEMMA ReadVenue ==
    ASSUME NEW t \in Tasks, VInv, IInv', SlotPlain(t), UNCHANGED <<asked, verdict>>,
           NEW f \in Frame, FromVenue(f),
           \A s \in Sessions : Queued(wire'[s]) \subseteq Queued(wire[s]),
           \/ Queued(overflow') \subseteq Queued(overflow) /\ ~Orphan(t)'
           \/ /\ Queued(overflow') \subseteq Queued(overflow) \cup {f}
              /\ Orphan(t)' => hand'[t] = f
              /\ ~ForWaiter(f),
           FutureKept
    PROVE  VenueInv'
<1>1. Turns'
  BY TurnsKept DEF VInv, AInv, VenueInv
<1>2. CASE Queued(overflow') \subseteq Queued(overflow) /\ ~Orphan(t)'
  <2>1. FromVenue(NoFrame) /\ ~InFrame(NoFrame, pending)
    BY DEF FromVenue, NoFrame, InFrame
  <2> QED
    BY <1>1, <1>2, <2>1, Moved DEF SlotPlain, FutureKept, VenueInv
<1>3. CASE /\ Queued(overflow') \subseteq Queued(overflow) \cup {f}
           /\ Orphan(t)' => hand'[t] = f
           /\ ~ForWaiter(f)
  <2>1. LiveFirst /\ future.st = "open" => ~InFrame(f, pending)
    BY <1>3, PassedApart
  <2> QED
    BY <1>1, <1>3, <2>1, Moved DEF SlotPlain, FutureKept, VenueInv
<1> QED
  BY <1>2, <1>3

\* A request that reads a frame gets its answer, or sets the frame aside.
LEMMA RequestReadsVenue ==
    ASSUME NEW t \in Tasks, VInv, IInv', RequestReads(t) PROVE VenueInv'
<1>f. PICK f : f = NextFrame(t)
  OBVIOUS
<1>0. /\ IInv /\ TaskTypes /\ HasSlot(t) /\ WantsSlot(t) /\ at[t] \in Sessions
      /\ op[t] # "handle" /\ overflow \in Seq(Frame)
      /\ reqQ \in Seq(Tasks) /\ t \in Queued(reqQ)
  BY Suspended DEF VInv, AInv, IInv, TypeOK, RequestReads, LockTypes, QueueTypes,
                   SlotDiscipline
<1>1. /\ f \in Frame /\ FromVenue(f)
      /\ \A s \in Sessions : Queued(wire'[s]) \subseteq Queued(wire[s])
  BY <1>0, <1>f, WireVenue DEF RequestReads
<1>2. UNCHANGED <<asked, verdict>>
  BY DEF RequestReads, venueVars
<1>3. CASE f.kind = "bad" \/ ForWaiter(f)
  <2>1. PICK r : EndRequest(t, r)
    BY <1>3, <1>f DEF RequestReads
  <2>2. /\ OthersKeep(t) /\ pc'[t] \in {"unparsable", "drain"}
        /\ overflow' = overflow
    BY <1>0, <1>3, <1>f, GotoKeeps
       DEF RequestReads, States, OthersKeep, TaskTypes, queueVars, ForWaiter
  <2>3. SlotPlain(t) /\ FutureKept /\ ~Orphan(t)'
    BY <1>0, <2>1, <2>2
       DEF SlotPlain, Waits, WantsSlot, EndRequest, FutureKept, NoFuture, Orphan
  <2> QED
    BY <1>1, <1>2, <2>2, <2>3, ReadVenue
<1>4. CASE f.kind # "bad" /\ ~ForWaiter(f)
  <2>0. /\ overflow' = Append(overflow, f) /\ Goto(t, "await")
        /\ UNCHANGED <<pending, future, reqQ>>
    BY <1>4, <1>f DEF RequestReads, SetAside, slotVars
  <2>1. /\ OthersKeep(t) /\ pc'[t] = "await" /\ req'[t] = req[t] /\ op'[t] = op[t]
    BY <1>0, <2>0, GotoKeeps DEF States
  <2>2. SlotPlain(t) /\ FutureKept /\ ~Orphan(t)'
    BY <1>0, <2>0, <2>1 DEF SlotPlain, Waits, WantsSlot, HasSlot, FutureKept, Orphan
  <2>3. Queued(overflow') \subseteq Queued(overflow) \cup {f}
    BY <1>0, <1>1, <2>0, QueuedAppend
  <2> QED
    BY <1>1, <1>2, <1>4, <2>2, <2>3, ReadVenue
<1> QED
  BY <1>3, <1>4

\* handle_message routes a frame, or takes it.
LEMMA HandleVenue ==
    ASSUME NEW t \in Tasks, NEW f \in Frame, VInv, IInv', Handle(t, f),
           FromVenue(f), UNCHANGED venueVars, ~WantsSlot(t), op[t] = "handle",
           Queued(overflow') \subseteq Queued(overflow),
           \A s \in Sessions : Queued(wire'[s]) \subseteq Queued(wire[s])
    PROVE  VenueInv'
<1>0. TaskTypes
  BY DEF VInv, AInv, IInv, TypeOK
<1>1. /\ OthersKeep(t) /\ pc'[t] \in {"idle", "orphans", "drain"} /\ reqQ' = reqQ
      /\ UNCHANGED <<asked, verdict>>
  BY <1>0, ReturnKeeps DEF Handle, OthersKeep, TaskTypes, venueVars
<1>2. SlotPlain(t)
  BY <1>1 DEF SlotPlain, Waits, WantsSlot
<1>3. CASE ForWaiter(f)
  <2>1. ~Orphan(t)' /\ FutureKept
    BY <1>0, <1>3, ValidatedType
       DEF Handle, Orphan, TaskTypes, FutureKept, Codes
  <2> QED
    BY <1>1, <1>2, <2>1, ReadVenue
<1>4. CASE ~ForWaiter(f)
  <2>1. FutureKept /\ (Orphan(t)' => hand'[t] = f)
    BY <1>0, <1>4, ReturnKeeps DEF Handle, Orphan, TaskTypes, FutureKept
  <2> QED
    BY <1>1, <1>2, <1>4, <2>1, ReadVenue
<1> QED
  BY <1>3, <1>4

\* handle_message takes a frame set aside, or goes to recv().
LEMMA TakeNextVenue ==
    ASSUME NEW t \in Tasks, VInv, IInv', TakeNext(t) PROVE VenueInv'
<1>0. /\ TaskTypes /\ overflow \in Seq(Frame) /\ FramesFromVenue
      /\ pc[t] = "hlock" /\ op[t] = "handle" /\ ~WantsSlot(t)
  BY DEF VInv, AInv, IInv, TypeOK, QueueTypes, VenueInv, TakeNext, LocalInv, Local,
         WantsSlot
<1>1. CASE socket = 0
  <2>1. OthersKeep(t) /\ pc'[t] = "idle" /\ FutureKept
    BY <1>0, <1>1, ReturnKeeps DEF TakeNext, FailPending, FutureKept
  <2> QED
    BY <1>1, <2>1, FreePlain DEF TakeNext, connVars, venueVars, queueVars
<1>2. CASE socket # 0 /\ overflow # <<>>
  <2>1. /\ Handle(t, Head(overflow)) /\ overflow' = Tail(overflow)
        /\ wire' = wire /\ UNCHANGED venueVars
    BY <1>2 DEF TakeNext, connVars
  <2>2. /\ Head(overflow) \in Frame /\ Head(overflow) \in Queued(overflow)
        /\ Queued(overflow') \subseteq Queued(overflow)
    BY <1>0, <1>2, <2>1, QueuedTail
  <2>3. FromVenue(Head(overflow))
    BY <1>0, <2>2 DEF FramesFromVenue, AllFromVenue
  <2> QED
    BY <1>0, <2>1, <2>2, <2>3, HandleVenue
<1>3. CASE socket # 0 /\ overflow = <<>>
  <2>1. OthersKeep(t) /\ pc'[t] = "recv" /\ op'[t] = "handle"
    BY <1>0, <1>3 DEF TakeNext, OthersKeep, TaskTypes
  <2> QED
    BY <1>3, <2>1, FreePlain
       DEF TakeNext, connVars, venueVars, queueVars, slotVars, FutureKept
<1> QED
  BY <1>1, <1>2, <1>3

\* handle_message reads a frame.
LEMMA HandleReadsVenue ==
    ASSUME NEW t \in Tasks, VInv, IInv', HandleReads(t) PROVE VenueInv'
<1>f. PICK f : f = NextFrame(t)
  OBVIOUS
<1>0. /\ TaskTypes /\ at[t] \in Sessions /\ op[t] = "handle" /\ ~WantsSlot(t)
  BY Suspended DEF VInv, AInv, IInv, TypeOK, HandleReads, WantsSlot
<1>1. /\ f \in Frame /\ FromVenue(f)
      /\ \A s \in Sessions : Queued(wire'[s]) \subseteq Queued(wire[s])
  BY <1>0, <1>f, WireVenue DEF HandleReads
<1>2. UNCHANGED venueVars
  BY DEF HandleReads
<1>3. CASE f.kind # "bad"
  <2>1. Handle(t, f) /\ overflow' = overflow
    BY <1>3, <1>f DEF HandleReads
  <2> QED
    BY <1>0, <1>1, <1>2, <2>1, HandleVenue
<1>4. CASE f.kind = "bad"
  <2>1. /\ FailPending("bad", f) /\ overflow' = overflow /\ OthersKeep(t)
        /\ pc'[t] = "unparsable" /\ UNCHANGED <<reqQ, pending>>
    BY <1>0, <1>4, <1>f DEF HandleReads, queueVars, OthersKeep, TaskTypes
  <2>2. SlotPlain(t) /\ FutureKept /\ ~Orphan(t)'
    BY <2>1 DEF SlotPlain, Waits, WantsSlot, FutureKept, FailPending, Orphan
  <2> QED
    BY <1>1, <1>2, <2>1, <2>2, ReadVenue DEF venueVars
<1> QED
  BY <1>3, <1>4

\* A read that raises.
LEMMA RecvFailsVenue ==
    ASSUME NEW t \in Tasks, VInv, IInv', RecvFails(t) PROVE VenueInv'
<1>0. TaskTypes
  BY DEF VInv, AInv, IInv, TypeOK
<1>1. CASE op[t] # "handle"
  <2>1. OthersKeep(t) /\ pc'[t] = "drain" /\ WantsSlot(t)
    BY <1>0, <1>1, GotoKeeps DEF RecvFails, States, WantsSlot
  <2> QED
    BY <1>1, <2>1, EndedPlain DEF RecvFails, connVars, queueVars, venueVars
<1>2. CASE op[t] = "handle"
  <2>1. OthersKeep(t) /\ pc'[t] = "idle" /\ FutureKept
    BY <1>0, <1>2, ReturnKeeps DEF RecvFails, FailPending, FutureKept
  <2> QED
    BY <1>2, <2>1, FreePlain DEF RecvFails, connVars, queueVars, venueVars
<1> QED
  BY <1>1, <1>2

\* A handler told of an orphan raises.
LEMMA OrphanRaisesVenue ==
    ASSUME NEW t \in Tasks, VInv, IInv', OrphanHandlerRaises(t) PROVE VenueInv'
<1>0. TaskTypes
  BY DEF VInv, AInv, IInv, TypeOK
<1>1. OthersKeep(t) /\ pc'[t] = "idle"
  BY <1>0, ReturnKeeps DEF OrphanHandlerRaises
<1> QED
  BY <1>1, FreePlain
     DEF OrphanHandlerRaises, venueVars, connVars, queueVars, slotVars, FutureKept

\* The next response of an orphan.
LEMMA ReportOrphanVenue ==
    ASSUME NEW t \in Tasks, VInv, IInv', ReportOrphan(t) PROVE VenueInv'
<1>0. /\ TaskTypes /\ hand[t] \in Frame /\ Orphan(t) /\ FromVenue(hand[t]) /\ Turns
      /\ IInv /\ Apart
  BY DEF VInv, AInv, IInv, TypeOK, ReportOrphan, LocalInv, Local, Orphan, VenueInv,
         FramesFromVenue
<1>1. UNCHANGED <<asked, verdict, wire, overflow, reqQ, pending, future>>
  BY DEF ReportOrphan, venueVars, connVars, queueVars, slotVars
<1>2. CASE hand[t].els = <<>>
  <2>1. OthersKeep(t) /\ pc'[t] = "idle"
    BY <1>0, <1>2, ReturnKeeps DEF ReportOrphan
  <2> QED
    BY <1>1, <2>1, FreePlain DEF FutureKept
<1>3. CASE hand[t].els # <<>>
  <2>1. PICK g : g = [hand[t] EXCEPT !.els = Tail(hand[t].els)]
    OBVIOUS
  <2>2. /\ OthersKeep(t) /\ pc'[t] \in {"orphans", "orphanTold"} /\ hand'[t] = g
    BY <1>0, <1>3, <2>1 DEF ReportOrphan, OthersKeep, TaskTypes
  <2>3. FromVenue(g) /\ (LiveFirst /\ future.st = "open" => ~InFrame(g, pending))
    BY <1>0, <1>3, <2>1, FromVenueTail DEF Apart
  <2>4. SlotPlain(t)
    BY <1>1, <2>2 DEF SlotPlain, Waits, WantsSlot
  <2>5. Turns'
    BY <1>0, <1>1, <2>4, TurnsKept
  <2>6. FramesFromVenue' /\ AnswersAsked' /\ Apart'
    BY <1>1, <2>2, <2>3, Moved
  <2> QED
    BY <2>5, <2>6 DEF VenueInv
<1> QED
  BY <1>2, <1>3
-----------------------------------------------------------------------------
(* The venue. *)

\* The venue sends a frame.
LEMMA SendVenue ==
    ASSUME NEW s \in Sessions, NEW kind \in {"data", "resp", "bad"},
           NEW els \in Seq(Element), VInv, Send(s, kind, els), Settled, AnswersAsked',
           NEW f, f = [kind |-> kind, els |-> els, ses |-> s, num |-> sent[s] + 1],
           FromVenue(f)'
    PROVE  VenueInv'
<1>0. /\ IInv /\ FramesFromVenue /\ Turns /\ Apart /\ sent[s] \in Nat
      /\ wire \in [Sessions -> Seq(Frame)] /\ overflow \in Seq(Frame)
      /\ \A g \in Frame : g.els \in Seq(Element)
      /\ \A u \in Tasks : Orphan(u) => hand[u] \in Frame
  BY DEF VInv, AInv, IInv, TypeOK, ConnTypes, QueueTypes, LocalInv, Local, VenueInv,
         Orphan, Frame
<1>1. /\ UNCHANGED <<pending, future, req, reqQ, pc, op, hand, asked, overflow>>
      /\ wire' = [wire EXCEPT ![s] = Append(@, f)]
  BY DEF Send, slotVars, queueVars, taskVars
<1>2. f \in Frame
  BY <1>0 DEF Frame
<1>3. \A g \in Frame : FromVenue(g) => FromVenue(g)'
  BY <1>0, FromVenueKept
<1>4. ASSUME NEW r \in Sessions PROVE AllFromVenue(wire[r])'
  <2>1. \A g \in Queued(wire[r]) : g \in Frame /\ FromVenue(g)'
    BY <1>0, <1>3 DEF FramesFromVenue, AllFromVenue, Queued
  <2>2. Queued(wire'[r]) \subseteq Queued(wire[r]) \cup {f}
    BY <1>0, <1>1, <1>2, QueuedAppend
  <2>3. \A g \in Queued(wire'[r]) : FromVenue(g)'
    BY <2>1, <2>2
  <2> QED
    BY <2>3 DEF AllFromVenue, Queued, FromVenue, Names
<1>5. AllFromVenue(overflow)'
  <2>1. \A g \in Queued(overflow) : g \in Frame
    BY <1>0 DEF Queued
  <2>2. \A g \in Queued(overflow) : FromVenue(g)
    BY <1>0 DEF FramesFromVenue, AllFromVenue
  <2>3. \A g \in Queued(overflow) : FromVenue(g)'
    BY <1>3, <2>1, <2>2
  <2> QED
    BY <1>1, <2>3 DEF AllFromVenue, Queued, FromVenue, Names
<1>6. ASSUME NEW u \in Tasks, Orphan(u)' PROVE FromVenue(hand[u])'
  <2>1. Orphan(u) /\ hand'[u] = hand[u]
    BY <1>1, <1>6 DEF Orphan
  <2>2. FromVenue(hand[u])'
    <3>1. PICK g : g = hand[u]
      OBVIOUS
    <3>2. FromVenue(g)'
      BY <1>0, <1>3, <2>1, <3>1 DEF FramesFromVenue
    <3> QED
      BY <2>1, <3>1, <3>2 DEF FromVenue, Names
  <2> QED
    BY <2>2
<1>7. FramesFromVenue'
  BY <1>4, <1>5, <1>6 DEF FramesFromVenue
<1>8. Turns' /\ Apart'
  BY <1>0, <1>1 DEF Turns, Sorted, WantsSlot, HasSlot, Apart, Queued, Orphan, InFrame
<1> QED
  BY <1>7, <1>8 DEF VenueInv

\* A step that touches neither frames nor turns.
LEMMA VenueStill ==
    ASSUME VInv, UNCHANGED <<wire, pending, future, req, reqQ, pc, op, hand, asked,
                             verdict, overflow>>
    PROVE  VenueInv'
<1>0. FramesFromVenue /\ AnswersAsked /\ Turns /\ Apart
  BY DEF VInv, VenueInv
<1>1. FramesFromVenue'
  BY <1>0 DEF FramesFromVenue, AllFromVenue, FromVenue, Names, Queued, Orphan
<1>2. AnswersAsked' /\ Turns' /\ Apart'
  BY <1>0 DEF AnswersAsked, Turns, Sorted, WantsSlot, HasSlot, Apart, Queued, Orphan,
              InFrame
<1> QED
  BY <1>1, <1>2 DEF VenueInv

\* What it may send: an answer to one request, to two, or to none.
LEMMA VenueVenue ==
    ASSUME NEW s \in Sessions, VInv, VenueStep(s) PROVE VenueInv'
<1>0. /\ AnswersAsked /\ verdict \in [Ids -> Codes \cup {"none"}] /\ Ids \subseteq Nat
      /\ 0 \notin Sessions
  BY DEF VInv, AInv, IInv, TypeOK, VenueTypes, VenueInv, Ids, Sessions
<1>1. CASE VenueAnswers(s)
  <2>1. PICK i \in Ids, c \in Verdicts :
           /\ Unanswered(s, i)
           /\ Send(s, "resp", <<[id |-> i, code |-> c]>>)
           /\ verdict' = [verdict EXCEPT ![i] = c]
    BY <1>1 DEF VenueAnswers
  <2>2. c \in Codes /\ <<[id |-> i, code |-> c]>> \in Seq(Element)
    BY <1>0, VenueAssumption DEF Element
  <2>3. Settled /\ verdict'[i] = c
    BY <1>0, <2>1 DEF Settled, Unanswered
  <2>4. AnswersAsked'
    BY <1>0, <2>1 DEF AnswersAsked, Unanswered, Send
  <2>5. PICK f : f = [kind |-> "resp", els |-> <<[id |-> i, code |-> c]>>,
                      ses |-> s, num |-> sent[s] + 1]
    OBVIOUS
  <2>6. /\ f.kind = "resp" /\ f.els = <<[id |-> i, code |-> c]>> /\ Len(f.els) = 1
        /\ f.els[1].id = i /\ f.els[1].code = c
    BY <2>5
  <2>7. FromVenue(f)'
    BY <2>3, <2>6 DEF FromVenue, Names
  <2> QED
    BY <2>1, <2>2, <2>3, <2>4, <2>5, <2>7, SendVenue
<1>2. CASE VenueBatches(s)
  <2>1. PICK i \in Ids, j \in Ids, c \in Verdicts, d \in Verdicts :
           /\ i # j /\ (LiveFirst => i > j)
           /\ Unanswered(s, i) /\ Unanswered(s, j)
           /\ Send(s, "resp", <<[id |-> i, code |-> c], [id |-> j, code |-> d]>>)
           /\ verdict' = [verdict EXCEPT ![i] = c, ![j] = d]
    BY <1>2 DEF VenueBatches
  <2>2. /\ c \in Codes /\ d \in Codes
        /\ <<[id |-> i, code |-> c], [id |-> j, code |-> d]>> \in Seq(Element)
    BY <1>0, VenueAssumption DEF Element
  <2>3. Settled /\ verdict'[i] = c /\ verdict'[j] = d
    BY <1>0, <2>1 DEF Settled, Unanswered
  <2>4. AnswersAsked'
    BY <1>0, <2>1 DEF AnswersAsked, Unanswered, Send
  <2>5. PICK f : f = [kind |-> "resp",
                      els |-> <<[id |-> i, code |-> c], [id |-> j, code |-> d]>>,
                      ses |-> s, num |-> sent[s] + 1]
    OBVIOUS
  <2>6. /\ f.kind = "resp" /\ Len(f.els) = 2
        /\ f.els[1].id = i /\ f.els[1].code = c
        /\ f.els[2].id = j /\ f.els[2].code = d
    BY <2>5
  <2>7. FromVenue(f)'
    <3>1. \A n \in 1 .. Len(f.els) : n = 1 \/ n = 2
      BY <2>6
    <3>2. i \in Nat /\ j \in Nat /\ (LiveFirst => j < i)
      BY <1>0, <2>1
    <3>3. \A n \in 1 .. Len(f.els) :
             f.kind = "resp" /\ n <= 2 /\ verdict'[f.els[n].id] = f.els[n].code
      BY <2>3, <2>6, <3>1
    <3>4. \A m, n \in 1 .. Len(f.els) : m < n =>
             /\ Names(f, m) /\ f.els[m].id # f.els[n].id
             /\ LiveFirst => f.els[n].id < f.els[m].id
      <4> SUFFICES ASSUME NEW m \in 1 .. Len(f.els), NEW n \in 1 .. Len(f.els), m < n
                   PROVE  /\ Names(f, m) /\ f.els[m].id # f.els[n].id
                          /\ LiveFirst => f.els[n].id < f.els[m].id
        OBVIOUS
      <4>1. m = 1 /\ n = 2
        BY <2>6, <3>1
      <4> QED
        BY <2>1, <2>6, <3>2, <4>1 DEF Names
    <3> QED
      BY <3>3, <3>4 DEF FromVenue, Names
  <2> QED
    BY <2>1, <2>2, <2>3, <2>4, <2>5, <2>7, SendVenue
<1>3. CASE VenueSends(s)
  <2>1. PICK u \in Unsolicited : Send(s, u.kind, u.els) /\ UNCHANGED verdict
    BY <1>3 DEF VenueSends
  <2>2. u.kind \in {"data", "resp", "bad"} /\ u.els \in Seq(Element)
    BY VenueAssumption
  <2>3. Settled /\ AnswersAsked'
    BY <1>0, <2>1 DEF Settled, AnswersAsked, Send
  <2>4. PICK f : f = [kind |-> u.kind, els |-> u.els, ses |-> s, num |-> sent[s] + 1]
    OBVIOUS
  <2>5. \A n : ~Names(f, n)
    BY <2>4, VenueAssumption DEF Names
  <2>6. FromVenue(f)'
    BY <2>5 DEF FromVenue, Names
  <2> QED
    BY <2>1, <2>2, <2>3, <2>4, <2>6, SendVenue
<1>4. CASE Disconnect(s)
  <2>1. UNCHANGED <<wire, pending, future, req, reqQ, pc, op, hand, asked, verdict,
                    overflow>>
    BY <1>4 DEF Disconnect, slotVars, queueVars, taskVars, venueVars
  <2> QED
    BY <2>1, VenueStill
<1> QED
  BY <1>1, <1>2, <1>3, <1>4 DEF VenueStep
-----------------------------------------------------------------------------
\* Nothing is queued or sent at the start.
LEMMA InitVenue == Init => VenueInv
<1> SUFFICES ASSUME Init PROVE VenueInv
  OBVIOUS
<1>1. FramesFromVenue
  BY DEF Init, FramesFromVenue, AllFromVenue, Queued, Orphan
<1>2. AnswersAsked
  BY DEF Init, AnswersAsked
<1>3. Turns
  BY DEF Init, Turns, Sorted, Unlocked, WantsSlot
<1>4. Apart
  BY DEF Init, Apart, NoFuture
<1> QED
  BY <1>1, <1>2, <1>3, <1>4 DEF VenueInv

\* Every step keeps the order of the requests, and the frames apart.
LEMMA StepVenue == VInv /\ IInv' /\ [Next]_vars => VenueInv'
<1> SUFFICES ASSUME VInv, IInv', [Next]_vars PROVE VenueInv'
  OBVIOUS
<1>1. ASSUME NEW t \in Tasks, CallStep(t) PROVE VenueInv'
  BY <1>1, CallRequestVenue, CallVenue DEF CallStep
<1>2. ASSUME NEW t \in Tasks, RequestStep(t) PROVE VenueInv'
  BY <1>2, StartSendVenue, TransmitVenue, WaitVenue, RequestReadsVenue DEF RequestStep
<1>3. ASSUME NEW t \in Tasks, HandleStep(t) PROVE VenueInv'
  BY <1>3, TakeNextVenue, HandleReadsVenue, ReportOrphanVenue, OrphanRaisesVenue
     DEF HandleStep
<1>4. ASSUME NEW t \in Tasks, SharedStep(t) PROVE VenueInv'
  BY <1>4, RecvFailsVenue, ReportVenue DEF SharedStep
<1>5. CASE UNCHANGED vars
  BY <1>5, VenueStill DEF vars, connVars, slotVars, queueVars, taskVars, venueVars
<1> QED
  BY <1>1, <1>2, <1>3, <1>4, <1>5, ConnectionVenue, CancelVenue, VenueVenue DEF Next

\* What the venue sends comes back in the order of the requests, so an answer
\* to the request that waits is not set aside or taken for an orphan - as long
\* as the newest answer of a frame is its first (_log_extra_responses: "a
\* second response in the same frame cannot be an answer to anything this
\* client is currently waiting on").
THEOREM NotOvertakenCorrect == LiveFirst => (Spec => []NotOvertaken)
<1> SUFFICES ASSUME LiveFirst PROVE Spec => []NotOvertaken
  OBVIOUS
<1>1. Init => VInv
  BY InitIInv, InitTruth, InitVenue DEF VInv, AInv
<1>2. VInv /\ [Next]_vars => VInv'
  BY StepIInv, StepTruth, StepVenue DEF VInv, AInv
<1>3. VInv => NotOvertaken
  BY DEF VInv, VenueInv, Apart, NotOvertaken, Queued, Orphan
<1> QED
  BY <1>1, <1>2, <1>3, PTL DEF Spec
-----------------------------------------------------------------------------
(***************************************************************************)
(* The news of a rejection, and where it can be.                           *)
(***************************************************************************)

Has(q, P) == \E k \in 1 .. Len(q) : q[k] \in P
One(q, P) == \A j, k \in 1 .. Len(q) : q[j] \in P /\ q[k] \in P => j = k

Carrying(i) == {f \in Frame : InFrame(f, i)}
News(i) == {r \in Report : r.what = "rejection" /\ r.id = i}
Notice == [report : Report, now : 0 .. MaxSession, direct : BOOLEAN]
Notices(i) == {n \in Notice : n.report \in News(i)}

\* The places where news of request i can be, in the order it passes them.
OnWires(i) == \E s \in Sessions : Has(wire[s], Carrying(i))
IsAside(i) == Has(overflow, Carrying(i))
InHand(t, i) == Orphan(t) /\ InFrame(hand[t], i)
InHands(i) == \E t \in Tasks : InHand(t, i)
InReports(i) == Has(reports, News(i))
IsClaimed(i) == i \in claimed
IsTold(i) == Has(told, Notices(i))

\* Each place has the news once, ...
Single(i) ==
    /\ \A s \in Sessions : One(wire[s], Carrying(i))
    /\ \A r, s \in Sessions :
          Has(wire[r], Carrying(i)) /\ Has(wire[s], Carrying(i)) => r = s
    /\ \A t, u \in Tasks : InHand(t, i) /\ InHand(u, i) => t = u
    /\ One(overflow, Carrying(i)) /\ One(reports, News(i)) /\ One(told, Notices(i))

\* ... at most one place has it, ...
OneHome(i) ==
    /\ verdict[i] = "none" => ~OnWires(i) /\ ~IsAside(i) /\ ~InHands(i)
                                /\ ~InReports(i) /\ ~IsClaimed(i) /\ ~IsTold(i)
    /\ OnWires(i) => ~IsAside(i) /\ ~InHands(i) /\ ~InReports(i) /\ ~IsClaimed(i)
                       /\ ~IsTold(i)
    /\ IsAside(i) => ~InHands(i) /\ ~InReports(i) /\ ~IsClaimed(i) /\ ~IsTold(i)
    /\ InHands(i) => ~InReports(i) /\ ~IsClaimed(i) /\ ~IsTold(i)
    /\ InReports(i) => ~IsClaimed(i) /\ ~IsTold(i)
    /\ IsClaimed(i) => ~IsTold(i)

\* ... and one has it, once the venue rejected a request of this session.
Heard(i) ==
    socket # 0 /\ asked[i] = socket /\ verdict[i] = "reject" =>
        \/ Has(wire[socket], Carrying(i))
        \/ IsAside(i) \/ InHands(i) \/ InReports(i) \/ IsClaimed(i) \/ IsTold(i)
        \/ i \in lost

\* A request goes out on a connection that was opened.
Reached == \A i \in Ids : asked[i] # 0 => conn[asked[i]] # "none"

Unparsables == {r \in Report : r.what = "unparsable"}

\* What is told of a frame that does not parse is told at its first sight.
FirstTold ==
    /\ ~Has(reports, Unparsables)
    /\ \A k \in 1 .. Len(told) : told[k].report.what = "unparsable" =>
          <<told[k].report.ses, told[k].report.num>> \in flagged
    /\ \A j, k \in 1 .. Len(told) :
          told[j].report = told[k].report /\ told[j].report.what = "unparsable"
              => j = k

NewsInv == (\A i \in Ids : Single(i) /\ OneHome(i) /\ Heard(i)) /\ Reached /\ FirstTold

RInv == VInv /\ NewsInv
-----------------------------------------------------------------------------
(* Sequences. *)

\* What is left of a queue has what its head was not.
LEMMA TailHas ==
    ASSUME NEW S, NEW q \in Seq(S), q # <<>>, NEW P
    PROVE  /\ Has(Tail(q), P) => Has(q, P)
           /\ Head(q) \in P => Has(q, P)
           /\ Has(q, P) => Has(Tail(q), P) \/ Head(q) \in P
           /\ One(q, P) => One(Tail(q), P) /\ (Head(q) \in P => ~Has(Tail(q), P))
<1> DEFINE p == Tail(q)
<1>1. Len(q) \in Nat \ {0} /\ Head(q) = q[1] /\ Len(p) = Len(q) - 1
  OBVIOUS
<1>2. \A k \in 1 .. Len(p) : p[k] = q[k + 1]
  OBVIOUS
<1> HIDE DEF p
<1>3. \A k \in 1 .. Len(p) : k + 1 \in 1 .. Len(q) /\ k + 1 # 1
  BY <1>1
<1>4. \A k \in 1 .. Len(q) : k = 1 \/ (k - 1 \in 1 .. Len(p) /\ p[k - 1] = q[k])
  BY <1>1, <1>2
<1>5. 1 \in 1 .. Len(q)
  BY <1>1
<1>6. Has(p, P) => Has(q, P)
  BY <1>2, <1>3 DEF Has
<1>7. Head(q) \in P => Has(q, P)
  BY <1>1, <1>5 DEF Has
<1>8. Has(q, P) => Has(p, P) \/ Head(q) \in P
  BY <1>1, <1>4 DEF Has
<1>9. ASSUME One(q, P) PROVE One(p, P) /\ (Head(q) \in P => ~Has(p, P))
  <2>1. ASSUME NEW j \in 1 .. Len(p), NEW k \in 1 .. Len(p), p[j] \in P, p[k] \in P
        PROVE  j = k
    <3>1. q[j + 1] \in P /\ q[k + 1] \in P
      BY <1>2, <2>1
    <3>2. j + 1 = k + 1
      BY <1>3, <1>9, <3>1 DEF One
    <3> QED
      BY <3>2
  <2>2. ASSUME Head(q) \in P, NEW k \in 1 .. Len(p), p[k] \in P PROVE FALSE
    <3>1. q[1] \in P /\ q[k + 1] \in P
      BY <1>1, <1>2, <2>2
    <3> QED
      BY <1>3, <1>5, <1>9, <3>1 DEF One
  <2> QED
    BY <2>1, <2>2 DEF One, Has
<1> QED
  BY <1>6, <1>7, <1>8, <1>9 DEF p

\* One more at its end.
LEMMA AppendHas ==
    ASSUME NEW S, NEW q \in Seq(S), NEW x \in S, NEW P
    PROVE  /\ Has(Append(q, x), P) <=> Has(q, P) \/ x \in P
           /\ One(q, P) /\ (x \in P => ~Has(q, P)) => One(Append(q, x), P)
<1> DEFINE p == Append(q, x)
<1>1. Len(q) \in Nat /\ Len(p) = Len(q) + 1 /\ p[Len(q) + 1] = x
  OBVIOUS
<1>2. \A k \in 1 .. Len(q) : p[k] = q[k]
  OBVIOUS
<1> HIDE DEF p
<1>3. \A k \in 1 .. Len(p) : k \in 1 .. Len(q) \/ k = Len(q) + 1
  BY <1>1
<1>4. Len(q) + 1 \in 1 .. Len(p) /\ \A k \in 1 .. Len(q) : k \in 1 .. Len(p)
  BY <1>1
<1>5. Has(p, P) <=> Has(q, P) \/ x \in P
  BY <1>1, <1>2, <1>3, <1>4 DEF Has
<1>6. ASSUME One(q, P), x \in P => ~Has(q, P) PROVE One(p, P)
  BY <1>1, <1>2, <1>3, <1>6 DEF One, Has
<1> QED
  BY <1>5, <1>6 DEF p

\* An empty queue has nothing.
LEMMA EmptyHas == ASSUME NEW P PROVE ~Has(<<>>, P) /\ One(<<>>, P)
  BY DEF Has, One

\* The bounded queue of reports.
LEMMA EnqueueHas ==
    ASSUME NEW q \in Seq(Report), NEW r \in Report, NEW P
    PROVE  /\ Has(Enqueue(q, r), P) => Has(q, P) \/ r \in P
           /\ r \in P => Has(Enqueue(q, r), P)
           /\ One(q, P) /\ (r \in P => ~Has(q, P)) => One(Enqueue(q, r), P)
           /\ Enqueue(q, r) \in Seq(Report)
<1>1. CASE Len(q) < MaxReports
  BY <1>1, AppendHas DEF Enqueue
<1>2. CASE ~(Len(q) < MaxReports)
  <2>1. q # <<>> /\ Tail(q) \in Seq(Report)
    BY <1>2, BoundsAssumption
  <2>2. PICK p \in Seq(Report) : p = Tail(q)
    BY <2>1
  <2>3. /\ Has(p, P) => Has(q, P)
        /\ One(q, P) => One(p, P)
    BY <2>1, <2>2, TailHas
  <2>4. Append(p, r) \in Seq(Report)
    OBVIOUS
  <2>5. /\ Has(Append(p, r), P) <=> Has(p, P) \/ r \in P
        /\ One(p, P) /\ (r \in P => ~Has(p, P)) => One(Append(p, r), P)
    BY AppendHas
  <2>6. Enqueue(q, r) = Append(p, r)
    BY <1>2, <2>2 DEF Enqueue
  <2> QED
    BY <2>3, <2>4, <2>5, <2>6
<1> QED
  BY <1>1, <1>2

\* What left a queue of reports is counted as evicted.
LEMMA EvictedHas ==
    ASSUME NEW q, NEW p, NEW i, Has(q, News(i))
    PROVE  Has(p, News(i)) \/ i \in Evicted(q, p)
<1>1. PICK j \in 1 .. Len(q) : q[j].what = "rejection" /\ q[j].id = i /\ q[j] \in News(i)
  BY DEF Has, News
<1>2. CASE \E k \in 1 .. Len(p) : p[k] = q[j]
  BY <1>1, <1>2 DEF Has
<1>3. CASE \A k \in 1 .. Len(p) : p[k] # q[j]
  BY <1>1, <1>3 DEF Evicted
<1> QED
  BY <1>2, <1>3
-----------------------------------------------------------------------------
(* The places of one request's news. *)

\* A step of t takes news from the wires, or none, and puts it nowhere twice.
Tidy(t, i) ==
    /\ OthersKeep(t) /\ verdict' = verdict
    /\ \A s \in Sessions :
          /\ Has(wire'[s], Carrying(i)) => Has(wire[s], Carrying(i))
          /\ One(wire'[s], Carrying(i))
    /\ One(overflow', Carrying(i)) /\ One(reports', News(i)) /\ One(told', Notices(i))

\* Then each place has it once.
LEMMA SingleKept ==
    ASSUME NEW i \in Ids, NEW t \in Tasks, Single(i), Tidy(t, i),
           InHand(t, i)' => InHand(t, i) \/ ~InHands(i)
    PROVE  Single(i)' /\ (OnWires(i)' => OnWires(i))
<1>1. \A u \in Tasks : u # t => (InHand(u, i)' <=> InHand(u, i))
  BY DEF Tidy, OthersKeep, InHand, Orphan, InFrame
<1>2. \A u, v \in Tasks : InHand(u, i)' /\ InHand(v, i)' => u = v
  BY <1>1 DEF Single, InHands
<1>3. /\ \A s \in Sessions : One(wire'[s], Carrying(i))
      /\ \A r, s \in Sessions :
            Has(wire'[r], Carrying(i)) /\ Has(wire'[s], Carrying(i)) => r = s
  BY DEF Tidy, Single
<1>4. One(overflow', Carrying(i)) /\ One(reports', News(i)) /\ One(told', Notices(i))
  BY DEF Tidy
<1>5. Single(i)'
  BY <1>2, <1>3, <1>4 DEF Single, One, Has
<1>6. OnWires(i)' => OnWires(i)
  BY DEF Tidy, OnWires, Has
<1> QED
  BY <1>5, <1>6

\* The hands of the others stay as they are.
LEMMA HandsKept ==
    ASSUME NEW i \in Ids, NEW t \in Tasks, OthersKeep(t)
    PROVE  /\ \A u \in Tasks : u # t => (InHand(u, i)' <=> InHand(u, i))
           /\ InHands(i)' => InHands(i) \/ InHand(t, i)'
           /\ InHands(i) => InHands(i)' \/ InHand(t, i)
<1>1. \A u \in Tasks : u # t => (InHand(u, i)' <=> InHand(u, i))
  BY DEF OthersKeep, InHand, Orphan, InFrame
<1>2. InHands(i)' <=> \E u \in Tasks : InHand(u, i)'
  BY DEF InHands
<1> QED
  BY <1>1, <1>2 DEF InHands

\* News that is put nowhere stays alone.
LEMMA Stays ==
    ASSUME NEW i \in Ids, NEW t \in Tasks, Single(i), OneHome(i), Tidy(t, i),
           InHand(t, i)' => InHand(t, i),
           IsAside(i)' => IsAside(i), InReports(i)' => InReports(i),
           IsClaimed(i)' => IsClaimed(i), IsTold(i)' => IsTold(i)
    PROVE  Single(i)' /\ OneHome(i)'
<1>1. Single(i)' /\ (OnWires(i)' => OnWires(i))
  BY SingleKept
<1>2. InHands(i)' => InHands(i)
  BY HandsKept DEF Tidy, InHands
<1>3. verdict'[i] = verdict[i]
  BY DEF Tidy
<1>4. OneHome(i)'
  BY <1>1, <1>2, <1>3 DEF OneHome
<1> QED
  BY <1>1, <1>4

\* At most one of four.
Only(a, b, c, d) ==
    /\ a => ~b /\ ~c /\ ~d
    /\ b => ~c /\ ~d
    /\ c => ~d

\* News taken from a wire or from what is set aside, and put in one place,
\* stays alone.
LEMMA Moves ==
    ASSUME NEW i \in Ids, NEW t \in Tasks, Single(i), OneHome(i), Tidy(t, i),
           OnWires(i) \/ IsAside(i), ~OnWires(i)', IsTold(i)' => IsTold(i),
           Only(IsAside(i)', InHand(t, i)', InReports(i)', IsClaimed(i)')
    PROVE  Single(i)' /\ OneHome(i)'
<1>1. ~InHands(i) /\ ~IsTold(i) /\ verdict[i] # "none"
  BY DEF OneHome
<1>2. Single(i)'
  BY <1>1, SingleKept
<1>3. InHands(i)' => InHand(t, i)'
  BY <1>1, HandsKept DEF Tidy
<1>4. verdict'[i] # "none"
  BY <1>1 DEF Tidy
<1>5. OneHome(i)'
  BY <1>1, <1>3, <1>4 DEF OneHome, Only
<1> QED
  BY <1>2, <1>5
-----------------------------------------------------------------------------
(* Reports of one request's rejection. *)

\* The response n of f is about request i.
Says(f, n, i) == n <= Len(f.els) /\ f.els[n].id = i

\* A frame of the venue is about a request in its first or second response.
LEMMA InFrameWhere ==
    ASSUME NEW f \in Frame, FromVenue(f), NEW i \in Ids
    PROVE  /\ InFrame(f, i) <=> Says(f, 1, i) \/ Says(f, 2, i)
           /\ ~(Says(f, 1, i) /\ Says(f, 2, i))
           /\ \A n \in {1, 2} : Says(f, n, i) => f.els[n].code = verdict[i]
<1>1. Len(f.els) \in Nat
  BY DEF Frame
<1>2. \A n \in {1, 2} : n <= Len(f.els) => n \in 1 .. Len(f.els)
  BY <1>1
<1>3. \A n \in 1 .. Len(f.els) : f.els[n].id = i => n <= 2 /\ f.els[n].code = verdict[i]
  BY DEF FromVenue, Names
<1>4. \A n \in 1 .. Len(f.els) : n <= 2 => n \in {1, 2} /\ n <= Len(f.els)
  BY <1>1
<1>5. InFrame(f, i) <=> Says(f, 1, i) \/ Says(f, 2, i)
  BY <1>2, <1>3, <1>4 DEF InFrame, Says
<1>6. ~(Says(f, 1, i) /\ Says(f, 2, i))
  <2> SUFFICES ASSUME Says(f, 1, i), Says(f, 2, i) PROVE FALSE
    OBVIOUS
  <2>1. 1 \in 1 .. Len(f.els) /\ 2 \in 1 .. Len(f.els) /\ 1 < 2 /\ Names(f, 2)
    BY <1>2 DEF Says, Names
  <2>2. f.els[1].id # f.els[2].id
    BY <2>1 DEF FromVenue
  <2> QED
    BY <2>2 DEF Says
<1>7. \A n \in {1, 2} : Says(f, n, i) => f.els[n].code = verdict[i]
  BY <1>2, <1>3 DEF Says
<1> QED
  BY <1>5, <1>6, <1>7

\* Queueing a response if it rejects.
LEMMA QueueIfRejectedHas ==
    ASSUME NEW q \in Seq(Report), NEW f \in Frame, FromVenue(f), NEW n \in {1, 2},
           NEW i \in Ids, NEW p, p = QueueIfRejected(q, f, n)
    PROVE  /\ p \in Seq(Report)
           /\ Has(p, News(i)) => Has(q, News(i)) \/ Says(f, n, i)
           /\ One(q, News(i)) /\ (Says(f, n, i) => ~Has(q, News(i))) => One(p, News(i))
           /\ Says(f, n, i) /\ verdict[i] = "reject" => Has(p, News(i))
<1>1. CASE IsRejection(f, n)
  <2>1. PICK r : r = About("rejection", f.els[n].id, f)
    OBVIOUS
  <2>2. r \in Report
    BY <1>1, <2>1, AboutType, ElementType DEF IsRejection
  <2>3. r \in News(i) <=> Says(f, n, i)
    BY <1>1, <2>1, <2>2 DEF About, News, Says, IsRejection
  <2>4. p = Enqueue(q, r)
    BY <1>1, <2>1 DEF QueueIfRejected
  <2> QED
    BY <2>2, <2>3, <2>4, EnqueueHas
<1>2. CASE ~IsRejection(f, n)
  <2>1. p = q
    BY <1>2 DEF QueueIfRejected
  <2>2. Says(f, n, i) => verdict[i] # "reject"
    BY <1>2, InFrameWhere DEF IsRejection, Says
  <2> QED
    BY <2>1, <2>2
<1> QED
  BY <1>1, <1>2

\* What a step does to the reports and the claims of request i, if f is read.
Reads(f, i) ==
    /\ One(reports', News(i))
    /\ ~InFrame(f, i) => (InReports(i)' => InReports(i)) /\ (IsClaimed(i)' => IsClaimed(i))
    /\ IsClaimed(i) => IsClaimed(i)'
    /\ InReports(i) => InReports(i)' \/ i \in lost'
    /\ lost \subseteq lost'

\* A routed frame: its first response is its waiter's or is queued, its second
\* is queued.
LEMMA RouteNews ==
    ASSUME NEW f \in Frame, FromVenue(f), ForWaiter(f), Route(f), VInv, NEW i \in Ids,
           One(reports, News(i)), InFrame(f, i) => ~InReports(i) /\ ~IsClaimed(i)
    PROVE  /\ Reads(f, i)
           /\ InFrame(f, i) => ~(InReports(i)' /\ IsClaimed(i)')
           /\ InFrame(f, i) /\ verdict[i] = "reject" =>
                 InReports(i)' \/ IsClaimed(i)' \/ i \in lost'
<1>0. /\ reports \in Seq(Report) /\ AnswersAsked /\ NumbersKnown /\ nextId \in Nat
      /\ Ids \subseteq Nat
  BY DEF VInv, AInv, IInv, TypeOK, QueueTypes, SlotTypes, VenueInv, Truth, Ids
<1>1. PICK open : open = (future.st = "open")
  OBVIOUS
<1>2. PICK q1 : q1 = IF open THEN reports ELSE QueueIfRejected(reports, f, 1)
  OBVIOUS
<1>3. PICK q2 : q2 = QueueIfRejected(q1, f, 2)
  OBVIOUS
<1>4. /\ claimed' = IF open /\ f.els[1].id = pending THEN claimed \cup {pending} ELSE claimed
      /\ reports' = q2
      /\ lost' = lost \cup Evicted(reports, q1) \cup Evicted(q1, q2)
  BY <1>1, <1>2, <1>3 DEF Route
<1>5. /\ InFrame(f, i) <=> Says(f, 1, i) \/ Says(f, 2, i)
      /\ ~(Says(f, 1, i) /\ Says(f, 2, i))
  BY InFrameWhere
<1>6. /\ q1 \in Seq(Report) /\ One(q1, News(i))
      /\ Has(q1, News(i)) => InReports(i) \/ (Says(f, 1, i) /\ ~open)
      /\ InReports(i) => Has(q1, News(i)) \/ i \in Evicted(reports, q1)
      /\ Says(f, 1, i) /\ ~open /\ verdict[i] = "reject" => Has(q1, News(i))
  <2>1. CASE open
    BY <1>0, <1>2, <2>1 DEF InReports
  <2>2. CASE ~open
    <3>1. q1 = QueueIfRejected(reports, f, 1)
      BY <1>2, <2>2
    <3>2. /\ q1 \in Seq(Report)
          /\ Has(q1, News(i)) => Has(reports, News(i)) \/ Says(f, 1, i)
          /\ One(reports, News(i)) /\ (Says(f, 1, i) => ~Has(reports, News(i)))
                => One(q1, News(i))
          /\ Says(f, 1, i) /\ verdict[i] = "reject" => Has(q1, News(i))
      BY <1>0, <3>1, QueueIfRejectedHas
    <3>3. Has(reports, News(i)) => Has(q1, News(i)) \/ i \in Evicted(reports, q1)
      BY EvictedHas
    <3> QED
      BY <1>5, <2>2, <3>2, <3>3 DEF InReports
  <2> QED
    BY <2>1, <2>2
<1>7. /\ Has(q2, News(i)) => Has(q1, News(i)) \/ Says(f, 2, i)
      /\ One(q1, News(i)) /\ (Says(f, 2, i) => ~Has(q1, News(i))) => One(q2, News(i))
      /\ Says(f, 2, i) /\ verdict[i] = "reject" => Has(q2, News(i))
      /\ Has(q1, News(i)) => Has(q2, News(i)) \/ i \in Evicted(q1, q2)
  BY <1>3, <1>6, QueueIfRejectedHas, EvictedHas
<1>8. IsClaimed(i)' <=> IsClaimed(i) \/ (open /\ f.els[1].id = pending /\ i = pending)
  BY <1>4 DEF IsClaimed
<1>9. f.els # <<>> /\ Len(f.els) \in Nat /\ (f.els[1].id = pending \/ f.els[1].id >= nextId)
  BY DEF ForWaiter, Frame
<1>10. (f.els[1].id = pending /\ i = pending) => Says(f, 1, i)
  <2>1. 1 <= Len(f.els)
    BY <1>9 DEF Frame
  <2> QED
    BY <2>1 DEF Says
<1>11. Says(f, 1, i) => f.els[1].id = pending /\ i = pending
  <2> SUFFICES ASSUME Says(f, 1, i), f.els[1].id >= nextId PROVE FALSE
    BY <1>9 DEF Says
  <2>1. f.els[1].code = verdict[i] /\ f.els[1].id = i /\ 1 <= Len(f.els)
    BY InFrameWhere DEF Says
  <2>2. f.els[1].code \in Codes
    BY <2>1, ElementType
  <2>3. asked[i] # 0
    BY <1>0, <2>1, <2>2 DEF AnswersAsked, Codes
  <2>4. i < nextId /\ i \in Nat
    BY <1>0, <2>3 DEF NumbersKnown
  <2> QED
    BY <1>0, <2>1, <2>4
<1>12. (InReports(i)' <=> Has(q2, News(i))) /\ One(q2, News(i)) = One(reports', News(i))
  BY <1>4 DEF InReports, Has
<1>13. lost \subseteq lost' /\ (i \in Evicted(reports, q1) \/ i \in Evicted(q1, q2) => i \in lost')
  BY <1>4
<1> QED
  BY <1>5, <1>6, <1>7, <1>8, <1>10, <1>11, <1>12, <1>13 DEF Reads

\* A frame handed back adds no news.
LEMMA HandBackNews ==
    ASSUME NEW f \in Frame, HandBack(f), VInv, NEW i \in Ids, One(reports, News(i))
    PROVE  /\ Reads(f, i) /\ (InReports(i)' => InReports(i)) /\ claimed' = claimed
<1>0. reports \in Seq(Report) /\ Ids \subseteq Nat /\ 0 \notin Ids
  BY DEF VInv, AInv, IInv, TypeOK, QueueTypes, Ids
<1>1. PICK r : r = About("unusable", 0, f)
  OBVIOUS
<1>2. r \in Report /\ r \notin News(i)
  BY <1>1, AboutType DEF About, News
<1>3. reports' \in {reports, Enqueue(reports, r)}
  BY <1>1 DEF HandBack
<1>4. /\ Has(Enqueue(reports, r), News(i)) => Has(reports, News(i))
      /\ One(Enqueue(reports, r), News(i))
  BY <1>0, <1>2, EnqueueHas
<1>5. PICK p : p = reports'
  OBVIOUS
<1>6. One(p, News(i)) /\ (Has(p, News(i)) => Has(reports, News(i)))
  BY <1>3, <1>4, <1>5
<1>7. lost' = lost \cup Evicted(reports, p) /\ claimed' = claimed
  BY <1>5 DEF HandBack
<1>8. Has(reports, News(i)) => Has(p, News(i)) \/ i \in Evicted(reports, p)
  BY EvictedHas
<1>9. (InReports(i)' <=> Has(p, News(i))) /\ One(p, News(i)) = One(reports', News(i))
  BY <1>5 DEF InReports, Has
<1> QED
  BY <1>6, <1>7, <1>8, <1>9 DEF Reads, InReports, IsClaimed
-----------------------------------------------------------------------------
(* A frame that is read. *)

\* f was on a wire or set aside and is no longer, of what was set aside rest
\* is left, and all other news is where it was.
Drawn(f, rest) ==
    /\ f \in Frame /\ FromVenue(f) /\ rest \in Seq(Frame)
    /\ \A i \in Ids :
          /\ InFrame(f, i) => OnWires(i) \/ IsAside(i)
          /\ InFrame(f, i) => ~Has(rest, Carrying(i))
          /\ InFrame(f, i) => \A s \in Sessions : ~Has(wire'[s], Carrying(i))
          /\ \A s \in Sessions :
                /\ Has(wire'[s], Carrying(i)) => Has(wire[s], Carrying(i))
                /\ One(wire'[s], Carrying(i))
                /\ Has(wire[s], Carrying(i)) => Has(wire'[s], Carrying(i)) \/ InFrame(f, i)
          /\ One(rest, Carrying(i))
          /\ Has(rest, Carrying(i)) => IsAside(i)
          /\ IsAside(i) => Has(rest, Carrying(i)) \/ InFrame(f, i)

\* A frame that is the next on the wire.
LEMMA FromWire ==
    ASSUME NEW t \in Tasks, RInv, TakeFromWire(t), at[t] \in Sessions,
           NEW f, f = NextFrame(t)
    PROVE  Drawn(f, overflow)
<1>0. /\ wire \in [Sessions -> Seq(Frame)] /\ overflow \in Seq(Frame)
      /\ \A i \in Ids : Single(i) /\ OneHome(i)
  BY DEF RInv, VInv, AInv, IInv, TypeOK, ConnTypes, QueueTypes, NewsInv
<1>1. f \in Frame /\ FromVenue(f)
  BY WireVenue DEF RInv
<1>2. PICK w \in Seq(Frame) : w = wire[at[t]]
  BY <1>0
<1>3. w # <<>> /\ f = Head(w) /\ wire' = [wire EXCEPT ![at[t]] = Tail(w)]
  BY <1>2 DEF TakeFromWire, NextFrame
<1>4. PICK v : v = Tail(w)
  OBVIOUS
<1>5. wire'[at[t]] = v /\ \A s \in Sessions : s # at[t] => wire'[s] = wire[s]
  BY <1>0, <1>3, <1>4
<1>6. ASSUME NEW i \in Ids
      PROVE  /\ InFrame(f, i) => OnWires(i) \/ IsAside(i)
             /\ InFrame(f, i) => ~Has(overflow, Carrying(i))
             /\ InFrame(f, i) => \A s \in Sessions : ~Has(wire'[s], Carrying(i))
             /\ \A s \in Sessions :
                   /\ Has(wire'[s], Carrying(i)) => Has(wire[s], Carrying(i))
                   /\ One(wire'[s], Carrying(i))
                   /\ Has(wire[s], Carrying(i)) =>
                         Has(wire'[s], Carrying(i)) \/ InFrame(f, i)
             /\ One(overflow, Carrying(i))
  <2>1. /\ Has(v, Carrying(i)) => Has(w, Carrying(i))
        /\ f \in Carrying(i) => Has(w, Carrying(i))
        /\ Has(w, Carrying(i)) => Has(v, Carrying(i)) \/ f \in Carrying(i)
        /\ One(w, Carrying(i)) =>
              One(v, Carrying(i)) /\ (f \in Carrying(i) => ~Has(v, Carrying(i)))
    BY <1>3, <1>4, TailHas
  <2>2. InFrame(f, i) <=> f \in Carrying(i)
    BY <1>1 DEF Carrying
  <2>3. /\ \A s \in Sessions : One(wire[s], Carrying(i))
        /\ \A r, s \in Sessions :
              Has(wire[r], Carrying(i)) /\ Has(wire[s], Carrying(i)) => r = s
        /\ One(overflow, Carrying(i))
    BY <1>0 DEF Single
  <2>4. InFrame(f, i) => OnWires(i) /\ ~IsAside(i)
    BY <1>0, <1>2, <2>1, <2>2 DEF OnWires, OneHome
  <2>5. ASSUME NEW s \in Sessions
        PROVE  /\ InFrame(f, i) => ~Has(wire'[s], Carrying(i))
               /\ Has(wire'[s], Carrying(i)) => Has(wire[s], Carrying(i))
               /\ One(wire'[s], Carrying(i))
               /\ Has(wire[s], Carrying(i)) => Has(wire'[s], Carrying(i)) \/ InFrame(f, i)
    <3>1. CASE s = at[t]
      BY <1>2, <1>5, <2>1, <2>2, <2>3, <3>1
    <3>2. CASE s # at[t]
      BY <1>2, <1>5, <2>1, <2>2, <2>3, <3>2
    <3> QED
      BY <3>1, <3>2
  <2> QED
    BY <2>3, <2>4, <2>5 DEF IsAside
<1> QED
  BY <1>0, <1>1, <1>6 DEF Drawn, IsAside

\* A frame that was set aside first.
LEMMA FromAside ==
    ASSUME RInv, overflow # <<>>, wire' = wire, NEW f, f = Head(overflow)
    PROVE  Drawn(f, Tail(overflow))
<1>0. /\ wire \in [Sessions -> Seq(Frame)] /\ overflow \in Seq(Frame)
      /\ \A i \in Ids : Single(i) /\ OneHome(i)
      /\ FramesFromVenue
  BY DEF RInv, VInv, AInv, IInv, TypeOK, ConnTypes, QueueTypes, NewsInv, VenueInv
<1>1. f \in Frame /\ FromVenue(f) /\ Tail(overflow) \in Seq(Frame)
  BY <1>0, QueuedTail DEF FramesFromVenue, AllFromVenue
<1>2. PICK v : v = Tail(overflow)
  OBVIOUS
<1>3. ASSUME NEW i \in Ids
      PROVE  /\ InFrame(f, i) => IsAside(i) /\ ~OnWires(i) /\ ~Has(v, Carrying(i))
             /\ \A s \in Sessions : One(wire[s], Carrying(i))
             /\ One(v, Carrying(i))
             /\ Has(v, Carrying(i)) => IsAside(i)
             /\ IsAside(i) => Has(v, Carrying(i)) \/ InFrame(f, i)
  <2>1. /\ Has(v, Carrying(i)) => IsAside(i)
        /\ f \in Carrying(i) => IsAside(i)
        /\ IsAside(i) => Has(v, Carrying(i)) \/ f \in Carrying(i)
        /\ One(overflow, Carrying(i)) =>
              One(v, Carrying(i)) /\ (f \in Carrying(i) => ~Has(v, Carrying(i)))
    BY <1>0, <1>2, TailHas DEF IsAside
  <2>2. InFrame(f, i) <=> f \in Carrying(i)
    BY <1>1 DEF Carrying
  <2> QED
    BY <1>0, <2>1, <2>2 DEF Single, OneHome
<1>4. \A i \in Ids : ~OnWires(i) <=> \A s \in Sessions : ~Has(wire'[s], Carrying(i))
  BY DEF OnWires
<1> QED
  BY <1>1, <1>2, <1>3, <1>4 DEF Drawn
\* A frame that is read lands in at most one place, and nothing else moves.
LEMMA Lands ==
    ASSUME NEW t \in Tasks, RInv, OthersKeep(t), ~Orphan(t), NEW f, NEW rest,
           Drawn(f, rest), UNCHANGED <<verdict, asked, told, socket>>,
           NEW aside \in BOOLEAN,
           overflow' = IF aside THEN Append(rest, f) ELSE rest,
           NEW i \in Ids, Reads(f, i),
           ~InFrame(f, i) => ~InHand(t, i)',
           InFrame(f, i) => Only(aside, InHand(t, i)', InReports(i)', IsClaimed(i)'),
           InFrame(f, i) /\ verdict[i] = "reject" =>
               aside \/ InHand(t, i)' \/ InReports(i)' \/ IsClaimed(i)' \/ i \in lost'
    PROVE  Single(i)' /\ OneHome(i)' /\ Heard(i)'
<1>0. /\ Single(i) /\ OneHome(i) /\ Heard(i) /\ socket \in 0 .. MaxSession
      /\ f \in Frame /\ rest \in Seq(Frame) /\ (f \in Carrying(i) <=> InFrame(f, i))
  BY DEF RInv, VInv, AInv, IInv, TypeOK, ConnTypes, NewsInv, Drawn, Carrying
<1>1. /\ Has(overflow', Carrying(i)) <=> Has(rest, Carrying(i)) \/ (aside /\ InFrame(f, i))
      /\ One(overflow', Carrying(i))
  <2>1. PICK o : o = Append(rest, f)
    OBVIOUS
  <2>2. /\ Has(o, Carrying(i)) <=> Has(rest, Carrying(i)) \/ f \in Carrying(i)
        /\ One(rest, Carrying(i)) /\ (f \in Carrying(i) => ~Has(rest, Carrying(i)))
              => One(o, Carrying(i))
    BY <1>0, <2>1, AppendHas
  <2>3. One(rest, Carrying(i)) /\ (InFrame(f, i) => ~Has(rest, Carrying(i)))
    BY DEF Drawn
  <2>4. CASE aside
    BY <1>0, <2>1, <2>2, <2>3, <2>4
  <2>5. CASE ~aside
    BY <2>3, <2>5
  <2> QED
    BY <2>4, <2>5
<1>2. Tidy(t, i)
  BY <1>0, <1>1 DEF Tidy, Drawn, Reads, Single, One
<1>3. /\ IsTold(i)' <=> IsTold(i)
      /\ IsAside(i)' <=> Has(rest, Carrying(i)) \/ (aside /\ InFrame(f, i))
      /\ ~InHand(t, i)
  BY <1>1 DEF IsTold, IsAside, Has, InHand
<1>4. Single(i)' /\ OneHome(i)'
  <2>1. CASE InFrame(f, i)
    <3>1. ~Has(rest, Carrying(i)) /\ (OnWires(i) \/ IsAside(i))
      BY <2>1 DEF Drawn
    <3>2. ~OnWires(i)'
      BY <2>1 DEF Drawn, OnWires, Has
    <3>3. Only(IsAside(i)', InHand(t, i)', InReports(i)', IsClaimed(i)')
      BY <1>3, <2>1, <3>1 DEF Only
    <3> QED
      BY <1>0, <1>2, <1>3, <3>1, <3>2, <3>3, Moves
  <2>2. CASE ~InFrame(f, i)
    <3>1. IsAside(i)' => IsAside(i)
      BY <1>3, <2>2 DEF Drawn
    <3> QED
      BY <1>0, <1>2, <1>3, <2>2, <3>1, Stays DEF Reads
  <2> QED
    BY <2>1, <2>2
<1>5. Heard(i)'
  <2> SUFFICES ASSUME socket # 0, asked[i] = socket, verdict[i] = "reject"
               PROVE  \/ Has(wire'[socket], Carrying(i))
                      \/ IsAside(i)' \/ InHands(i)' \/ InReports(i)' \/ IsClaimed(i)'
                      \/ IsTold(i)' \/ i \in lost'
    BY DEF Heard, Has
  <2>1. socket \in Sessions
    BY <1>0 DEF Sessions
  <2>2. InHand(t, i)' => InHands(i)'
    BY DEF InHands
  <2>3. InHands(i) => InHands(i)'
    BY <1>3, HandsKept
  <2>4. CASE InFrame(f, i)
    BY <1>3, <2>2, <2>4
  <2>5. CASE ~InFrame(f, i)
    <3>1. Has(wire[socket], Carrying(i)) => Has(wire'[socket], Carrying(i))
      BY <2>1, <2>5 DEF Drawn
    <3>2. IsAside(i) => IsAside(i)'
      BY <1>3, <2>5 DEF Drawn
    <3> QED
      BY <1>0, <1>3, <2>3, <3>1, <3>2 DEF Heard, Reads
  <2> QED
    BY <2>4, <2>5
<1> QED
  BY <1>4, <1>5

\* What happens to a frame: it is set aside, routed, or in hand to be reported;
\* or it has no news and is dropped.
Landing(t, f, rest) ==
    \/ overflow' = Append(rest, f) /\ HandBack(f) /\ ~Orphan(t)'
    \/ overflow' = rest /\ ForWaiter(f) /\ Route(f) /\ ~Orphan(t)'
    \/ overflow' = rest /\ HandBack(f) /\ Orphan(t)' /\ hand'[t] = f
    \/ /\ overflow' = rest /\ f.kind # "resp" /\ ~Orphan(t)'
       /\ HandBack(f) \/ UNCHANGED <<reports, claimed, lost>>

\* Whichever it is, the news of every request is where it should be.
LEMMA LandingNews ==
    ASSUME NEW t \in Tasks, RInv, OthersKeep(t), ~Orphan(t), NEW f, NEW rest,
           Drawn(f, rest), UNCHANGED <<verdict, asked, told, socket>>,
           Landing(t, f, rest), NEW i \in Ids
    PROVE  Single(i)' /\ OneHome(i)' /\ Heard(i)'
<1>0. /\ VInv /\ One(reports, News(i)) /\ f \in Frame /\ FromVenue(f) /\ OneHome(i)
      /\ InFrame(f, i) => OnWires(i) \/ IsAside(i)
  BY DEF RInv, NewsInv, Single, Drawn
<1>1. InFrame(f, i) => ~InReports(i) /\ ~IsClaimed(i)
  BY <1>0 DEF OneHome
<1>2. /\ ~Orphan(t)' => ~InHand(t, i)'
      /\ Orphan(t)' /\ hand'[t] = f => (InHand(t, i)' <=> InFrame(f, i))
  BY DEF InHand, InFrame
<1>3. HandBack(f) =>
         /\ Reads(f, i) /\ (InReports(i)' => InReports(i))
         /\ IsClaimed(i)' <=> IsClaimed(i)
  BY <1>0, HandBackNews DEF IsClaimed
<1>4. CASE overflow' = Append(rest, f) /\ HandBack(f) /\ ~Orphan(t)'
  <2>1. InFrame(f, i) => Only(TRUE, InHand(t, i)', InReports(i)', IsClaimed(i)')
    BY <1>1, <1>2, <1>3, <1>4 DEF Only
  <2> QED
    BY <1>2, <1>3, <1>4, <2>1, Lands
<1>5. CASE overflow' = rest /\ ForWaiter(f) /\ Route(f) /\ ~Orphan(t)'
  <2>1. /\ Reads(f, i)
        /\ InFrame(f, i) => ~(InReports(i)' /\ IsClaimed(i)')
        /\ InFrame(f, i) /\ verdict[i] = "reject" =>
              InReports(i)' \/ IsClaimed(i)' \/ i \in lost'
    BY <1>0, <1>1, <1>5, RouteNews
  <2>2. InFrame(f, i) => Only(FALSE, InHand(t, i)', InReports(i)', IsClaimed(i)')
    BY <1>2, <1>5, <2>1 DEF Only
  <2> QED
    BY <1>2, <1>5, <2>1, <2>2, Lands
<1>6. CASE overflow' = rest /\ HandBack(f) /\ Orphan(t)' /\ hand'[t] = f
  <2>1. InFrame(f, i) => Only(FALSE, InHand(t, i)', InReports(i)', IsClaimed(i)')
    BY <1>1, <1>2, <1>3, <1>6 DEF Only
  <2> QED
    BY <1>2, <1>3, <1>6, <2>1, Lands
<1>7. CASE /\ overflow' = rest /\ f.kind # "resp" /\ ~Orphan(t)'
           /\ HandBack(f) \/ UNCHANGED <<reports, claimed, lost>>
  <2>1. ~InFrame(f, i)
    BY <1>0, <1>7 DEF FromVenue, Names, InFrame
  <2>2. Reads(f, i)
    BY <1>0, <1>3, <1>7, <2>1 DEF Reads, InReports, IsClaimed, Has, One
  <2> QED
    BY <1>2, <1>7, <2>1, <2>2, Lands
<1> QED
  BY <1>4, <1>5, <1>6, <1>7 DEF Landing
-----------------------------------------------------------------------------
(* Frames that do not parse. *)

\* Queueing a rejection queues nothing else.
LEMMA QueueIfRejectedParsed ==
    ASSUME NEW q \in Seq(Report), NEW f \in Frame, NEW n \in {1, 2},
           ~Has(q, Unparsables), NEW p, p = QueueIfRejected(q, f, n)
    PROVE  p \in Seq(Report) /\ ~Has(p, Unparsables)
<1>1. CASE IsRejection(f, n)
  <2>1. PICK r : r = About("rejection", f.els[n].id, f)
    OBVIOUS
  <2>2. r \in Report /\ r \notin Unparsables
    <3>1. f.els[n].id \in Nat
      BY <1>1, ElementType DEF IsRejection
    <3>2. r \in Report
      BY <2>1, <3>1, AboutType
    <3>3. r.what = "rejection"
      BY <2>1 DEF About
    <3> QED
      BY <3>2, <3>3 DEF Unparsables
  <2>3. p = Enqueue(q, r)
    BY <1>1, <2>1 DEF QueueIfRejected
  <2> QED
    BY <2>2, <2>3, EnqueueHas
<1>2. CASE ~IsRejection(f, n)
  BY <1>2 DEF QueueIfRejected
<1> QED
  BY <1>1, <1>2

\* Neither does reading a frame.
LEMMA LandingParsed ==
    ASSUME NEW t \in Tasks, RInv, NEW f, NEW rest, Drawn(f, rest), Landing(t, f, rest)
    PROVE  ~Has(reports', Unparsables)
<1>0. reports \in Seq(Report) /\ ~Has(reports, Unparsables) /\ f \in Frame
  BY DEF RInv, VInv, AInv, IInv, TypeOK, QueueTypes, NewsInv, FirstTold, Drawn
<1>1. CASE HandBack(f)
  <2>1. PICK r : r = About("unusable", 0, f)
    OBVIOUS
  <2>2. r \in Report /\ r \notin Unparsables
    BY <1>0, <2>1, AboutType DEF About, Unparsables
  <2>3. reports' \in {reports, Enqueue(reports, r)}
    BY <1>1, <2>1 DEF HandBack
  <2>4. ~Has(Enqueue(reports, r), Unparsables)
    BY <1>0, <2>2, EnqueueHas
  <2> QED
    BY <1>0, <2>3, <2>4
<1>2. CASE Route(f)
  <2>1. PICK q1 : q1 = IF future.st = "open" THEN reports ELSE QueueIfRejected(reports, f, 1)
    OBVIOUS
  <2>2. q1 \in Seq(Report) /\ ~Has(q1, Unparsables)
    <3>1. CASE future.st = "open"
      BY <1>0, <2>1, <3>1
    <3>2. CASE future.st # "open"
      <4>1. q1 = QueueIfRejected(reports, f, 1)
        BY <2>1, <3>2
      <4> QED
        BY <1>0, <4>1, QueueIfRejectedParsed
    <3> QED
      BY <3>1, <3>2
  <2>3. PICK q2 : q2 = QueueIfRejected(q1, f, 2)
    OBVIOUS
  <2>4. ~Has(q2, Unparsables)
    BY <1>0, <2>2, <2>3, QueueIfRejectedParsed
  <2>5. reports' = q2
    BY <1>2, <2>1, <2>3 DEF Route
  <2> QED
    BY <2>4, <2>5
<1>3. CASE reports' = reports
  BY <1>0, <1>3
<1> QED
  BY <1>1, <1>2, <1>3 DEF Landing

\* A step that tells nothing.
LEMMA FirstKept ==
    ASSUME RInv, ~Has(reports', Unparsables), told' = told, flagged' = flagged
    PROVE  FirstTold'
<1>1. FirstTold
  BY DEF RInv, NewsInv
<1>2. ~Has(reports, Unparsables)'
  BY DEF Has, Unparsables
<1> QED
  BY <1>1, <1>2 DEF FirstTold

\* A step that tells of something else, or of a frame at its first sight.
LEMMA FirstTells ==
    ASSUME RInv, NEW r \in Report, NEW d \in BOOLEAN, Tell(r, d),
           ~Has(reports', Unparsables), flagged \subseteq flagged',
           r.what = "unparsable" =>
               <<r.ses, r.num>> \notin flagged /\ <<r.ses, r.num>> \in flagged'
    PROVE  FirstTold'
<1>0. FirstTold /\ told \in Seq(Notice)
  BY DEF RInv, VInv, AInv, IInv, TypeOK, HistoryTypes, NewsInv, Notice
<1>1. PICK n : n = [report |-> r, now |-> socket, direct |-> d]
  OBVIOUS
<1>2. n.report = r /\ told' = Append(told, n)
  BY <1>1 DEF Tell
<1>3. PICK p : p = told'
  OBVIOUS
<1>4. /\ Len(told) \in Nat /\ Len(p) = Len(told) + 1 /\ p[Len(told) + 1] = n
      /\ \A k \in 1 .. Len(told) : p[k] = told[k]
  BY <1>0, <1>2, <1>3
<1>5. \A k \in 1 .. Len(p) : k \in 1 .. Len(told) \/ (k = Len(told) + 1 /\ p[k] = n)
  BY <1>4
<1>6. ASSUME NEW k \in 1 .. Len(p), p[k].report.what = "unparsable"
      PROVE  <<p[k].report.ses, p[k].report.num>> \in flagged'
  BY <1>0, <1>2, <1>4, <1>5, <1>6 DEF FirstTold
<1>7. ASSUME NEW j \in 1 .. Len(p), NEW k \in 1 .. Len(p),
             p[j].report = p[k].report, p[j].report.what = "unparsable"
      PROVE  j = k
  <2>1. ASSUME NEW m \in 1 .. Len(told), told[m].report = r, r.what = "unparsable"
        PROVE  FALSE
    BY <1>0, <2>1 DEF FirstTold
  <2>2. CASE j \in 1 .. Len(told) /\ k \in 1 .. Len(told)
    BY <1>0, <1>4, <1>7, <2>2 DEF FirstTold
  <2>3. CASE j \in 1 .. Len(told) /\ k = Len(told) + 1
    BY <1>2, <1>4, <1>7, <2>1, <2>3
  <2>4. CASE j = Len(told) + 1 /\ k \in 1 .. Len(told)
    BY <1>2, <1>4, <1>7, <2>1, <2>4
  <2> QED
    BY <1>5, <2>2, <2>3, <2>4
<1>8. ~Has(reports, Unparsables)'
  BY DEF Has, Unparsables
<1> QED
  BY <1>3, <1>6, <1>7, <1>8 DEF FirstTold
-----------------------------------------------------------------------------
(* Steps that move no news. *)

\* The session stays, or ends, or a new one begins; its queues go with it.
SameSession == UNCHANGED <<socket, overflow, reports>>
NewSession ==
    /\ socket' = 0 \/ (socket' \in Sessions /\ conn[socket'] = "none")
    /\ overflow' \in {overflow, <<>>} /\ reports' \in {reports, <<>>}

\* t puts down no orphan before it is reported, or the loss is counted.
HandKept(t) ==
    \/ (Orphan(t)' <=> Orphan(t)) /\ (Orphan(t) => hand'[t] = hand[t])
    \/ /\ ~Orphan(t)'
       /\ \A i \in Ids : InHand(t, i) /\ verdict[i] = "reject" => i \in lost'

\* A step of t that moves no news keeps it.
LEMMA PlainNews ==
    ASSUME NEW t \in Tasks, RInv, OthersKeep(t), HandKept(t),
           UNCHANGED <<wire, told, flagged, claimed, verdict, asked>>,
           lost \subseteq lost',
           \A s \in Sessions : conn[s] # "none" => conn'[s] # "none",
           SameSession \/ NewSession
    PROVE  NewsInv'
<1>0. /\ socket \in 0 .. MaxSession /\ Reached /\ FirstTold
      /\ \A i \in Ids : asked[i] \in 0 .. MaxSession
  BY DEF RInv, VInv, AInv, IInv, TypeOK, ConnTypes, NewsInv, VenueTypes
<1>1. \A i \in Ids : ~Has(<<>>, Carrying(i)) /\ One(<<>>, Carrying(i))
                        /\ ~Has(<<>>, News(i)) /\ One(<<>>, News(i))
  BY EmptyHas
<1>2. ~Has(<<>>, Unparsables)
  BY EmptyHas
<1>3. ASSUME NEW i \in Ids PROVE Single(i)' /\ OneHome(i)' /\ Heard(i)'
  <2>1. Single(i) /\ OneHome(i) /\ Heard(i)
    BY DEF RInv, NewsInv
  <2>2. /\ Has(overflow', Carrying(i)) => Has(overflow, Carrying(i))
        /\ One(overflow', Carrying(i))
        /\ Has(reports', News(i)) => Has(reports, News(i))
        /\ One(reports', News(i))
    BY <1>1, <2>1 DEF SameSession, NewSession, Single
  <2>3. /\ IsAside(i)' => IsAside(i)
        /\ InReports(i)' => InReports(i)
        /\ IsClaimed(i)' <=> IsClaimed(i)
        /\ IsTold(i)' <=> IsTold(i)
    BY <2>2 DEF IsAside, InReports, IsClaimed, IsTold, Has
  <2>4. Tidy(t, i)
    BY <2>1, <2>2 DEF Tidy, Single
  <2>5. InHand(t, i)' => InHand(t, i)
    BY DEF HandKept, InHand, InFrame
  <2>6. Single(i)' /\ OneHome(i)'
    BY <2>1, <2>3, <2>4, <2>5, Stays
  <2>7. Heard(i)'
    <3>1. CASE SameSession
      <4> SUFFICES ASSUME socket # 0, asked[i] = socket, verdict[i] = "reject"
                   PROVE  \/ Has(wire[socket], Carrying(i))
                          \/ IsAside(i)' \/ InHands(i)' \/ InReports(i)' \/ IsClaimed(i)'
                          \/ IsTold(i)' \/ i \in lost'
        BY <3>1 DEF Heard, Has, SameSession
      <4>1. (IsAside(i)' <=> IsAside(i)) /\ (InReports(i)' <=> InReports(i))
        BY <3>1 DEF IsAside, InReports, Has, SameSession
      <4>2. InHands(i) => InHands(i)' \/ i \in lost'
        <5>1. InHand(t, i) => InHand(t, i)' \/ i \in lost'
          BY DEF HandKept, InHand, InFrame
        <5>2. InHand(t, i)' => InHands(i)'
          BY DEF InHands
        <5> QED
          BY <5>1, <5>2, HandsKept
      <4> QED
        BY <2>1, <2>3, <4>1, <4>2 DEF Heard
    <3>2. CASE NewSession
      <4>1. socket' # 0 => asked'[i] # socket'
        BY <1>0, <3>2 DEF NewSession, Reached, Sessions
      <4> QED
        BY <4>1 DEF Heard
    <3> QED
      BY <3>1, <3>2
  <2> QED
    BY <2>6, <2>7
<1>4. Reached'
  BY <1>0 DEF Reached, Sessions
<1>5. ~Has(reports', Unparsables)
  BY <1>0, <1>2 DEF SameSession, NewSession, FirstTold
<1>6. FirstTold'
  BY <1>5, FirstKept
<1> QED
  BY <1>3, <1>4, <1>6 DEF NewsInv

\* The common case: t has no orphan, before and after.
LEMMA FreeNews ==
    ASSUME NEW t \in Tasks, RInv, OthersKeep(t),
           pc[t] \notin {"orphans", "orphanTold"}, pc'[t] \notin {"orphans", "orphanTold"},
           UNCHANGED <<wire, told, flagged, claimed, verdict, asked>>,
           lost \subseteq lost',
           \A s \in Sessions : conn[s] # "none" => conn'[s] # "none",
           SameSession \/ NewSession
    PROVE  NewsInv'
<1>1. HandKept(t)
  BY DEF HandKept, Orphan
<1> QED
  BY <1>1, PlainNews

\* What follows a request stays in its session or ends it.
LEMMA AfterSession ==
    ASSUME NEW t \in Tasks, AfterRequest(t)
    PROVE  SameSession \/ NewSession
  BY DEF AfterRequest, StartClose, ClearSession, SameSession, NewSession, queueVars
-----------------------------------------------------------------------------
(* Calls and connections. *)

\* A call reads and tells nothing.
LEMMA CallNews ==
    ASSUME NEW t \in Tasks, RInv, CallStep(t) PROVE NewsInv'
<1>0. TaskTypes /\ TypeOK
  BY DEF RInv, VInv, AInv, IInv, TypeOK
<1>1. CASE CallRequest(t)
  <2>1. OthersKeep(t) /\ pc[t] = "idle" /\ pc'[t] = "reqlock"
    BY <1>0, <1>1 DEF CallRequest, MayCall, MakeRequest, OthersKeep, TaskTypes
  <2> QED
    BY <1>1, <2>1, FreeNews
       DEF CallRequest, connVars, queueVars, venueVars, frameHist, toldHist, SameSession
<1>2. CASE CallHandle(t)
  <2>1. OthersKeep(t) /\ pc[t] = "idle" /\ pc'[t] = "drain"
    BY <1>0, <1>2 DEF CallHandle, OthersKeep, TaskTypes
  <2> QED
    BY <1>2, <2>1, FreeNews
       DEF CallHandle, connVars, queueVars, venueVars, frameHist, toldHist, SameSession
<1>3. CASE CallLogin(t)
  <2>1. OthersKeep(t) /\ pc[t] = "idle" /\ pc'[t] \in {"connecting", "replacing"}
    BY <1>0, <1>3 DEF CallLogin, MayCall, OthersKeep, TaskTypes
  <2> QED
    BY <1>3, <2>1, FreeNews
       DEF CallLogin, queueVars, venueVars, frameHist, toldHist, NewSession
<1>4. CASE CallClose(t)
  <2>1. OthersKeep(t) /\ pc[t] = "idle" /\ pc'[t] \in {"idle", "closing"}
    BY <1>0, <1>4, StartCloseKeeps DEF CallClose, MayCall
  <2> QED
    BY <1>4, <2>1, FreeNews
       DEF CallClose, StartClose, ClearSession, venueVars, frameHist, toldHist, NewSession
<1> QED
  BY <1>1, <1>2, <1>3, <1>4 DEF CallStep

\* A connection opens or closes; a new one was never asked anything.
LEMMA ConnectionNews ==
    ASSUME NEW t \in Tasks, RInv, ConnectionStep(t) PROVE NewsInv'
<1>0. TaskTypes /\ conn \in [Sessions -> {"none", "open", "closed"}]
  BY DEF RInv, VInv, AInv, IInv, TypeOK, ConnTypes
<1>1. CASE PreviousClosed(t)
  <2>1. OthersKeep(t) /\ pc[t] = "replacing" /\ pc'[t] = "connecting"
    BY <1>0, <1>1, GotoKeeps DEF PreviousClosed, States
  <2>2. \A s \in Sessions : conn[s] # "none" => conn'[s] # "none"
    BY <1>0, <1>1 DEF PreviousClosed
  <2> QED
    BY <1>1, <2>1, <2>2, FreeNews
       DEF PreviousClosed, queueVars, venueVars, frameHist, toldHist, SameSession
<1>2. CASE Connected(t)
  <2>1. OthersKeep(t) /\ pc[t] = "connecting" /\ pc'[t] = "reqlock"
    BY <1>0, <1>2 DEF Connected, MakeRequest, OthersKeep, TaskTypes
  <2>2. PICK s \in Sessions :
           conn[s] = "none" /\ conn' = [conn EXCEPT ![s] = "open"] /\ socket' = s
    BY <1>2 DEF Connected
  <2>3. \A r \in Sessions : conn[r] # "none" => conn'[r] # "none"
    BY <1>0, <2>2
  <2>4. NewSession
    BY <1>2, <2>2 DEF Connected, ClearSession, NewSession
  <2> QED
    BY <1>2, <2>1, <2>3, <2>4, FreeNews DEF Connected, venueVars, toldHist
<1>3. CASE ConnectFails(t)
  <2>1. OthersKeep(t) /\ pc[t] = "connecting" /\ pc'[t] = "idle"
    BY <1>0, <1>3, ReturnKeeps DEF ConnectFails
  <2> QED
    BY <1>3, <2>1, FreeNews
       DEF ConnectFails, connVars, queueVars, venueVars, frameHist, toldHist, SameSession
<1>4. CASE Closed(t)
  <2>1. OthersKeep(t) /\ pc[t] = "closing" /\ pc'[t] = "idle"
    BY <1>0, <1>4, ReturnKeeps DEF Closed
  <2>2. \A s \in Sessions : conn[s] # "none" => conn'[s] # "none"
    BY <1>0, <1>4 DEF Closed
  <2> QED
    BY <1>4, <2>1, <2>2, FreeNews
       DEF Closed, queueVars, venueVars, frameHist, toldHist, SameSession
<1> QED
  BY <1>1, <1>2, <1>3, <1>4 DEF ConnectionStep

\* An orphan is put down, and what is left of it counted as lost.
LEMMA LeaveOrphan ==
    ASSUME NEW t \in Tasks, RInv, Return(t), pc[t] = "orphanTold",
           lost' = lost \cup Unreported(hand[t]),
           UNCHANGED <<conn, wire, told, flagged, claimed, verdict, asked>>,
           SameSession
    PROVE  NewsInv'
<1>1. OthersKeep(t) /\ pc'[t] = "idle"
  BY ReturnKeeps DEF RInv, VInv, AInv, IInv, TypeOK
<1>2. hand[t] \in Frame /\ FromVenue(hand[t])
  BY DEF RInv, VInv, AInv, IInv, LocalInv, Local, VenueInv, FramesFromVenue, Orphan
<1>3. ASSUME NEW i \in Ids, InHand(t, i), verdict[i] = "reject" PROVE i \in lost'
  <2>1. PICK n \in 1 .. Len(hand[t].els) : hand[t].els[n].id = i
    BY <1>3 DEF InHand, InFrame
  <2>2. hand[t].els[n].code = "reject"
    BY <1>2, <1>3, <2>1 DEF FromVenue, Names
  <2>3. Len(hand[t].els) \in Nat
    BY <1>2 DEF Frame
  <2>4. IsRejection(hand[t], n)
    BY <2>1, <2>2, <2>3 DEF IsRejection
  <2> QED
    BY <2>1, <2>4 DEF Unreported
<1>4. HandKept(t)
  BY <1>1, <1>3 DEF HandKept, Orphan
<1> QED
  BY <1>1, <1>4, PlainNews

\* A cancelled task: what is left of an orphan is counted as lost.
LEMMA CancelNews ==
    ASSUME NEW t \in Tasks, RInv, Cancel(t) PROVE NewsInv'
<1>0. /\ TaskTypes /\ TypeOK /\ conn \in [Sessions -> {"none", "open", "closed"}]
      /\ UNCHANGED <<wire, told, flagged, claimed, verdict, asked>>
  BY DEF RInv, VInv, AInv, IInv, TypeOK, ConnTypes, Cancel, venueVars, frameHist
<1>1. CASE CancelRequest(t)
  <2>1. /\ OthersKeep(t) /\ pc'[t] \in {"idle", "closing"}
        /\ SameSession \/ NewSession
    BY <1>0, <1>1, AfterPlain, AfterSession DEF CancelRequest
  <2>2. pc[t] \notin {"orphans", "orphanTold"}
    BY <1>1 DEF CancelRequest, WantsSlot
  <2> QED
    BY <1>0, <1>1, <2>1, <2>2, FreeNews DEF CancelRequest
<1>2. CASE CancelDrain(t)
  <2>1. /\ OthersKeep(t) /\ pc'[t] \in {"idle", "closing"}
        /\ SameSession \/ NewSession
    BY <1>0, <1>2, AfterPlain, AfterSession DEF CancelDrain
  <2>2. pc[t] \notin {"orphans", "orphanTold"}
    BY <1>2 DEF CancelDrain
  <2> QED
    BY <1>0, <1>2, <2>1, <2>2, FreeNews DEF CancelDrain
<1>3. CASE CancelHandle(t)
  <2>1. OthersKeep(t) /\ pc'[t] = "idle"
    BY <1>0, <1>3, ReturnKeeps DEF CancelHandle
  <2>2. UNCHANGED conn /\ SameSession
    BY <1>3 DEF CancelHandle, queueVars, SameSession
  <2>3. CASE pc[t] = "orphanTold"
    BY <1>0, <1>3, <2>2, <2>3, LeaveOrphan DEF CancelHandle
  <2>4. CASE pc[t] # "orphanTold"
    <3>1. pc[t] \notin {"orphans", "orphanTold"} /\ lost' = lost
      BY <1>3, <2>4 DEF CancelHandle
    <3> QED
      BY <1>0, <2>1, <2>2, <3>1, FreeNews
  <2> QED
    BY <2>3, <2>4
<1>4. CASE CancelConnection(t)
  <2>1. OthersKeep(t) /\ pc'[t] = "idle" /\ SameSession /\ lost' = lost
    BY <1>0, <1>4, ReturnKeeps DEF CancelConnection, queueVars, SameSession
  <2>2. pc[t] \notin {"orphans", "orphanTold"}
    BY <1>4 DEF CancelConnection
  <2>3. \A s \in Sessions : conn[s] # "none" => conn'[s] # "none"
    BY <1>0, <1>4 DEF CancelConnection
  <2> QED
    BY <1>0, <2>1, <2>2, <2>3, FreeNews
<1> QED
  BY <1>1, <1>2, <1>3, <1>4 DEF Cancel
-----------------------------------------------------------------------------
(* A request, up to its answer. *)

\* The request gets its answer, or its reader's cancellation.
LEMMA AnsweredNews ==
    ASSUME NEW t \in Tasks, RInv, Answered(t), future.st # "open", HasSlot(t),
           UNCHANGED <<conn, wire, sent, flagged, venueVars, frameHist, toldHist>>
    PROVE  NewsInv'
<1>0. IInv
  BY DEF RInv, VInv, AInv
<1>1. OthersKeep(t) /\ pc'[t] \in {"drain", "unparsable", "idle", "closing"}
  BY <1>0, AnsweredKeeps
<1>2. SameSession \/ NewSession
  BY AfterSession DEF Answered, SameSession, queueVars
<1>3. pc[t] \notin {"orphans", "orphanTold"}
  BY DEF HasSlot, WantsSlot
<1> QED
  BY <1>1, <1>2, <1>3, FreeNews DEF venueVars, frameHist, toldHist

\* The steps of a request that read no frame.
LEMMA WaitNews ==
    ASSUME NEW t \in Tasks, RInv,
           \/ StartSend(t) \/ SendReturns(t) \/ Resolved(t) \/ SendFails(t) \/ Timeout(t)
           \/ BecomeReader(t)
    PROVE  NewsInv'
<1>0. IInv /\ TaskTypes
  BY DEF RInv, VInv, AInv, IInv, TypeOK
<1>1. CASE (SendReturns(t) \/ Resolved(t)) /\ future.st # "open"
  <2>1. HasSlot(t)
    BY <1>0, <1>1, Suspended DEF SendReturns, Resolved
  <2> QED
    BY <1>1, <2>1, AnsweredNews DEF SendReturns, Resolved
<1>2. CASE SendReturns(t) /\ future.st = "open"
  <2>1. OthersKeep(t) /\ pc[t] = "sending" /\ pc'[t] = "await"
    BY <1>0, <1>2, GotoKeeps DEF SendReturns, States
  <2> QED
    BY <1>2, <2>1, FreeNews
       DEF SendReturns, queueVars, venueVars, frameHist, toldHist, SameSession
<1>3. CASE SendFails(t) \/ Timeout(t) \/ ((BecomeReader(t) \/ StartSend(t)) /\ socket = 0)
  <2>1. Goto(t, "drain") /\ pc[t] \in {"sending", "await", "recv", "reqlock"}
    BY <1>3 DEF SendFails, Timeout, BecomeReader, StartSend
  <2>2. OthersKeep(t) /\ pc'[t] = "drain"
    BY <1>0, <2>1, GotoKeeps DEF States
  <2>3. UNCHANGED <<connVars, queueVars, flagged, venueVars, frameHist, toldHist>>
    BY <1>3 DEF SendFails, Timeout, BecomeReader, StartSend
  <2> QED
    BY <2>1, <2>2, <2>3, FreeNews
       DEF connVars, queueVars, venueVars, frameHist, toldHist, SameSession
<1>4. CASE (BecomeReader(t) \/ StartSend(t)) /\ socket # 0
  <2>1. /\ OthersKeep(t) /\ pc[t] \in {"await", "reqlock"}
        /\ pc'[t] \in {"recv", "sending"}
    BY <1>0, <1>4 DEF BecomeReader, StartSend, OthersKeep, TaskTypes
  <2>2. UNCHANGED <<connVars, queueVars, flagged, venueVars, frameHist, toldHist>>
    BY <1>4 DEF BecomeReader, StartSend
  <2> QED
    BY <2>1, <2>2, FreeNews
       DEF connVars, queueVars, venueVars, frameHist, toldHist, SameSession
<1> QED
  BY <1>1, <1>2, <1>3, <1>4 DEF Resolved

\* A request is sent on an open connection; there is no verdict about it.
LEMMA TransmitNews ==
    ASSUME NEW t \in Tasks, RInv, Transmit(t) PROVE NewsInv'
<1>0. /\ asked \in [Ids -> 0 .. MaxSession] /\ AnswersAsked /\ Reached /\ FirstTold
      /\ \A i \in Ids : Single(i) /\ OneHome(i) /\ Heard(i)
  BY DEF RInv, VInv, AInv, IInv, TypeOK, VenueTypes, VenueInv, NewsInv
<1>1. /\ conn[at[t]] = "open" /\ asked[req[t]] = 0
      /\ asked' = [asked EXCEPT ![req[t]] = at[t]]
      /\ UNCHANGED <<socket, conn, wire, overflow, reports, flagged, pc, hand, verdict,
                     claimed, told, lost>>
  BY DEF Transmit, connVars, queueVars, taskVars, frameHist, toldHist
<1>2. ASSUME NEW i \in Ids PROVE Single(i)' /\ OneHome(i)' /\ Heard(i)'
  <2>1. /\ (OnWires(i)' <=> OnWires(i)) /\ (IsAside(i)' <=> IsAside(i))
        /\ (InHands(i)' <=> InHands(i)) /\ (InReports(i)' <=> InReports(i))
        /\ (IsClaimed(i)' <=> IsClaimed(i)) /\ (IsTold(i)' <=> IsTold(i))
        /\ \A u \in Tasks : InHand(u, i)' <=> InHand(u, i)
    BY <1>1 DEF OnWires, IsAside, InHands, InHand, Orphan, InFrame, InReports,
                IsClaimed, IsTold, Has
  <2>2. Single(i)' /\ OneHome(i)'
    BY <1>0, <1>1, <2>1 DEF Single, OneHome, Has, One
  <2>3. asked'[i] = asked[i] \/ verdict'[i] = "none"
    BY <1>0, <1>1 DEF AnswersAsked
  <2>4. Heard(i)'
    BY <1>0, <1>1, <2>1, <2>3 DEF Heard, Has
  <2> QED
    BY <2>2, <2>4
<1>3. Reached'
  BY <1>0, <1>1 DEF Reached
<1>4. FirstTold'
  BY <1>0, <1>1, FirstKept DEF FirstTold
<1> QED
  BY <1>2, <1>3, <1>4 DEF NewsInv
-----------------------------------------------------------------------------
(* Reading frames. *)

\* What remains to be shown of a step that reads a frame.
LEMMA ReadNews ==
    ASSUME NEW t \in Tasks, RInv, OthersKeep(t), ~Orphan(t), NEW f, NEW rest,
           Drawn(f, rest), Landing(t, f, rest),
           UNCHANGED <<verdict, asked, told, flagged, socket, conn>>
    PROVE  NewsInv'
<1>1. \A i \in Ids : Single(i)' /\ OneHome(i)' /\ Heard(i)'
  BY LandingNews
<1>2. FirstTold'
  BY LandingParsed, FirstKept
<1>3. Reached'
  BY DEF RInv, NewsInv, Reached
<1> QED
  BY <1>1, <1>2, <1>3 DEF NewsInv

\* A request that is the reader.
LEMMA RequestReadsNews ==
    ASSUME NEW t \in Tasks, RInv, RequestReads(t) PROVE NewsInv'
<1>f. PICK f : f = NextFrame(t)
  OBVIOUS
<1>0. /\ IInv /\ TaskTypes /\ at[t] \in Sessions /\ pc[t] = "recv"
  BY Suspended DEF RInv, VInv, AInv, IInv, TypeOK, RequestReads
<1>1. Drawn(f, overflow)
  BY <1>0, <1>f, FromWire DEF RequestReads
<1>2. UNCHANGED <<verdict, asked, told, flagged, socket, conn>> /\ ~Orphan(t)
  BY <1>0 DEF RequestReads, venueVars, TakeFromWire, Orphan
<1>3. CASE f.kind = "bad"
  <2>1. /\ OthersKeep(t) /\ pc'[t] = "unparsable"
        /\ UNCHANGED <<overflow, reports, claimed, lost>>
    BY <1>0, <1>3, <1>f DEF RequestReads, OthersKeep, TaskTypes, queueVars, ForWaiter
  <2>2. Landing(t, f, overflow)
    BY <1>3, <2>1 DEF Landing, Orphan
  <2> QED
    BY <1>1, <1>2, <2>1, <2>2, ReadNews
<1>4. CASE ForWaiter(f)
  <2>1. /\ OthersKeep(t) /\ pc'[t] = "drain" /\ overflow' = overflow /\ Route(f)
    BY <1>0, <1>4, <1>f, GotoKeeps DEF RequestReads, States, ForWaiter
  <2>2. Landing(t, f, overflow)
    BY <1>4, <2>1 DEF Landing, Orphan
  <2> QED
    BY <1>1, <1>2, <2>1, <2>2, ReadNews
<1>5. CASE f.kind # "bad" /\ ~ForWaiter(f)
  <2>1. Goto(t, "await") /\ HandBack(f) /\ overflow' = Append(overflow, f)
    BY <1>5, <1>f DEF RequestReads, SetAside
  <2>2. OthersKeep(t) /\ pc'[t] = "await"
    BY <1>0, <2>1, GotoKeeps DEF States
  <2>3. Landing(t, f, overflow)
    BY <2>1, <2>2 DEF Landing, Orphan
  <2> QED
    BY <1>1, <1>2, <2>2, <2>3, ReadNews
<1> QED
  BY <1>3, <1>4, <1>5

\* handle_message routes a frame, returns it, or has an orphan in hand.
LEMMA HandleNews ==
    ASSUME NEW t \in Tasks, RInv, NEW f, NEW rest, Drawn(f, rest), Handle(t, f),
           overflow' = rest, ~Orphan(t), UNCHANGED <<verdict, asked, told, flagged, socket, conn>>
    PROVE  NewsInv'
<1>0. TaskTypes
  BY DEF RInv, VInv, AInv, IInv, TypeOK
<1>1. OthersKeep(t)
  BY <1>0, ReturnKeeps DEF Handle, OthersKeep, TaskTypes
<1>2. CASE ForWaiter(f)
  <2>1. Route(f) /\ pc'[t] = "drain"
    BY <1>0, <1>2 DEF Handle, TaskTypes
  <2>2. Landing(t, f, rest)
    BY <1>2, <2>1 DEF Landing, Orphan
  <2> QED
    BY <1>1, <2>2, ReadNews
<1>3. CASE ~ForWaiter(f) /\ f.kind = "data" /\ Return(t)
  <2>1. HandBack(f) /\ pc'[t] = "idle"
    BY <1>0, <1>3, ReturnKeeps DEF Handle
  <2>2. Landing(t, f, rest)
    BY <1>3, <2>1 DEF Landing, Orphan
  <2> QED
    BY <1>1, <2>2, ReadNews
<1>4. CASE ~ForWaiter(f) /\ ~(f.kind = "data" /\ Return(t))
  <2>1. HandBack(f) /\ pc'[t] = "orphans" /\ hand'[t] = f
    BY <1>0, <1>4 DEF Handle, TaskTypes
  <2>2. Landing(t, f, rest)
    BY <2>1 DEF Landing, Orphan
  <2> QED
    BY <1>1, <2>2, ReadNews
<1> QED
  BY <1>2, <1>3, <1>4
\* handle_message takes a frame set aside, or goes to recv().
LEMMA TakeNextNews ==
    ASSUME NEW t \in Tasks, RInv, TakeNext(t) PROVE NewsInv'
<1>0. /\ TaskTypes /\ pc[t] = "hlock" /\ ~Orphan(t)
      /\ UNCHANGED <<socket, conn, wire, flagged, told, asked, verdict>>
  BY DEF RInv, VInv, AInv, IInv, TypeOK, TakeNext, connVars, venueVars, Orphan
<1>1. CASE socket = 0
  <2>1. OthersKeep(t) /\ pc'[t] = "idle"
    BY <1>0, <1>1, ReturnKeeps DEF TakeNext
  <2> QED
    BY <1>0, <1>1, <2>1, FreeNews DEF TakeNext, queueVars, frameHist, SameSession
<1>2. CASE socket # 0 /\ overflow # <<>>
  <2>1. PICK f : f = Head(overflow)
    OBVIOUS
  <2>2. Handle(t, f) /\ overflow' = Tail(overflow)
    BY <1>2, <2>1 DEF TakeNext
  <2>3. Drawn(f, Tail(overflow))
    BY <1>0, <1>2, <2>1, FromAside
  <2> QED
    BY <1>0, <2>2, <2>3, HandleNews
<1>3. CASE socket # 0 /\ overflow = <<>>
  <2>1. OthersKeep(t) /\ pc'[t] = "recv"
    BY <1>0, <1>3 DEF TakeNext, OthersKeep, TaskTypes
  <2> QED
    BY <1>0, <1>3, <2>1, FreeNews DEF TakeNext, queueVars, frameHist, SameSession
<1> QED
  BY <1>1, <1>2, <1>3

\* handle_message reads a frame.
LEMMA HandleReadsNews ==
    ASSUME NEW t \in Tasks, RInv, HandleReads(t) PROVE NewsInv'
<1>f. PICK f : f = NextFrame(t)
  OBVIOUS
<1>0. /\ IInv /\ TaskTypes /\ at[t] \in Sessions /\ pc[t] = "recv"
  BY Suspended DEF RInv, VInv, AInv, IInv, TypeOK, HandleReads
<1>1. Drawn(f, overflow)
  BY <1>0, <1>f, FromWire DEF HandleReads
<1>2. UNCHANGED <<verdict, asked, told, flagged, socket, conn>> /\ ~Orphan(t)
  BY <1>0 DEF HandleReads, venueVars, TakeFromWire, Orphan
<1>3. CASE f.kind # "bad"
  <2>1. Handle(t, f) /\ overflow' = overflow
    BY <1>3, <1>f DEF HandleReads
  <2> QED
    BY <1>1, <1>2, <2>1, HandleNews
<1>4. CASE f.kind = "bad"
  <2>1. /\ OthersKeep(t) /\ pc'[t] = "unparsable"
        /\ UNCHANGED <<overflow, reports, claimed, lost>>
    BY <1>0, <1>4, <1>f DEF HandleReads, OthersKeep, TaskTypes, queueVars
  <2>2. Landing(t, f, overflow)
    BY <1>4, <2>1 DEF Landing, Orphan
  <2> QED
    BY <1>1, <1>2, <2>1, <2>2, ReadNews
<1> QED
  BY <1>3, <1>4

\* A read that raises.
LEMMA RecvFailsNews ==
    ASSUME NEW t \in Tasks, RInv, RecvFails(t) PROVE NewsInv'
<1>0. TaskTypes /\ pc[t] = "recv"
  BY DEF RInv, VInv, AInv, IInv, TypeOK, RecvFails
<1>1. OthersKeep(t) /\ pc'[t] \in {"drain", "idle"}
  BY <1>0, GotoKeeps, ReturnKeeps DEF RecvFails, States
<1> QED
  BY <1>0, <1>1, FreeNews
     DEF RecvFails, connVars, queueVars, venueVars, frameHist, toldHist, SameSession
-----------------------------------------------------------------------------
(* Reporting. *)

\* What is told is one notice more.
LEMMA TellHas ==
    ASSUME RInv, NEW r \in Report, NEW d \in BOOLEAN, Tell(r, d), NEW i \in Ids
    PROVE  /\ IsTold(i)' <=> IsTold(i) \/ r \in News(i)
           /\ (r \in News(i) => ~IsTold(i)) => One(told', Notices(i))
<1>0. told \in Seq(Notice) /\ socket \in 0 .. MaxSession /\ One(told, Notices(i))
  BY DEF RInv, VInv, AInv, IInv, TypeOK, HistoryTypes, ConnTypes, NewsInv, Single, Notice
<1>1. PICK n : n = [report |-> r, now |-> socket, direct |-> d]
  OBVIOUS
<1>2. n \in Notice /\ (n \in Notices(i) <=> r \in News(i))
  BY <1>0, <1>1 DEF Notice, Notices
<1>3. PICK p : p = Append(told, n)
  OBVIOUS
<1>4. /\ Has(p, Notices(i)) <=> Has(told, Notices(i)) \/ n \in Notices(i)
      /\ One(told, Notices(i)) /\ (n \in Notices(i) => ~Has(told, Notices(i)))
            => One(p, Notices(i))
  BY <1>0, <1>2, <1>3, AppendHas
<1>5. told' = p
  BY <1>1, <1>3 DEF Tell
<1> QED
  BY <1>0, <1>2, <1>4, <1>5 DEF IsTold, Has, One

\* News that is told was in a hand or in the queue, and is there no longer.
LEMMA Spoken ==
    ASSUME NEW i \in Ids, NEW t \in Tasks, Single(i), OneHome(i), Tidy(t, i),
           UNCHANGED <<wire, overflow, claimed>>, InHand(t, i)' => InHand(t, i),
           \/ InHands(i) /\ ~InHands(i)' /\ (InReports(i)' => InReports(i))
           \/ InReports(i) /\ ~InReports(i)' /\ (InHands(i)' => InHands(i))
    PROVE  Single(i)' /\ OneHome(i)'
<1>1. Single(i)' /\ (OnWires(i)' => OnWires(i))
  BY SingleKept
<1>2. (IsAside(i)' <=> IsAside(i)) /\ (IsClaimed(i)' <=> IsClaimed(i))
  BY DEF IsAside, IsClaimed, Has
<1>3. verdict'[i] = verdict[i]
  BY DEF Tidy
<1>4. OneHome(i)'
  BY <1>1, <1>2, <1>3 DEF OneHome
<1> QED
  BY <1>1, <1>4

\* A handler told of an orphan raises, and the rest of it is lost.
LEMMA OrphanRaisesNews ==
    ASSUME NEW t \in Tasks, RInv, OrphanHandlerRaises(t) PROVE NewsInv'
  BY LeaveOrphan
     DEF OrphanHandlerRaises, connVars, queueVars, venueVars, frameHist, SameSession

\* The next response of an orphan is told if it rejects.
LEMMA ReportOrphanNews ==
    ASSUME NEW t \in Tasks, RInv, ReportOrphan(t) PROVE NewsInv'
<1>0. /\ TaskTypes /\ hand[t] \in Frame /\ Orphan(t) /\ FromVenue(hand[t])
      /\ reports \in Seq(Report) /\ ~Has(reports, Unparsables) /\ Reached
      /\ told \in Seq(Notice)
  BY DEF RInv, VInv, AInv, IInv, TypeOK, ReportOrphan, LocalInv, Local, Orphan,
         VenueInv, FramesFromVenue, QueueTypes, NewsInv, FirstTold, HistoryTypes, Notice
<1>1. UNCHANGED <<socket, conn, wire, overflow, reports, flagged, claimed, lost, asked,
                  verdict>>
  BY DEF ReportOrphan, connVars, queueVars, venueVars, frameHist
<1>2. CASE hand[t].els = <<>>
  <2>1. OthersKeep(t) /\ pc'[t] = "idle" /\ told' = told
    BY <1>0, <1>2, ReturnKeeps DEF ReportOrphan
  <2>2. \A i \in Ids : ~InHand(t, i)
    BY <1>2 DEF InHand, InFrame
  <2>3. HandKept(t)
    BY <2>1, <2>2 DEF HandKept, Orphan
  <2> QED
    BY <1>1, <2>1, <2>3, PlainNews DEF SameSession
<1>3. CASE hand[t].els # <<>>
  <2>1. PICK f : f = hand[t]
    OBVIOUS
  <2>2. PICK g : g = [f EXCEPT !.els = Tail(f.els)]
    OBVIOUS
  <2>3. PICK r : r = About("rejection", f.els[1].id, f)
    OBVIOUS
  <2>4. /\ OthersKeep(t) /\ pc'[t] \in {"orphans", "orphanTold"} /\ hand'[t] = g
        /\ IsRejection(f, 1) => Tell(r, TRUE)
        /\ ~IsRejection(f, 1) => told' = told
    BY <1>0, <1>3, <2>1, <2>2, <2>3 DEF ReportOrphan, OthersKeep, TaskTypes
  <2>5. /\ f \in Frame /\ FromVenue(f) /\ f.els \in Seq(Element) /\ f.els # <<>>
        /\ Len(f.els) \in Nat \ {0} /\ g.els = Tail(f.els)
    BY <1>0, <1>3, <2>1, <2>2 DEF Frame
  <2>6. /\ Len(g.els) = Len(f.els) - 1
        /\ \A n \in 1 .. Len(g.els) : g.els[n] = f.els[n + 1]
    BY <2>5
  <2>7. r \in Report /\ f.els[1].code \in Codes /\ f.els[1].id \in Nat
    <3>1. 1 <= Len(f.els)
      BY <2>5
    <3>2. f.els[1].code \in Codes /\ f.els[1].id \in Nat
      BY <2>5, <3>1, ElementType
    <3> QED
      BY <2>3, <2>5, <3>2, AboutType
  <2>8. ASSUME NEW i \in Ids
        PROVE  /\ InFrame(f, i) <=> f.els[1].id = i \/ InFrame(g, i)
               /\ ~(f.els[1].id = i /\ InFrame(g, i))
               /\ r \in News(i) <=> f.els[1].id = i
               /\ f.els[1].id = i => f.els[1].code = verdict[i]
    <3>1. \A n \in 1 .. Len(f.els) : n = 1 \/ (n - 1 \in 1 .. Len(g.els) /\ n = (n - 1) + 1)
      BY <2>5, <2>6
    <3>2. \A n \in 1 .. Len(g.els) : n + 1 \in 1 .. Len(f.els) /\ 1 < n + 1
      BY <2>5, <2>6
    <3>3. 1 \in 1 .. Len(f.els)
      BY <2>5
    <3>4. InFrame(f, i) <=> f.els[1].id = i \/ InFrame(g, i)
      <4>1. ASSUME NEW n \in 1 .. Len(f.els), f.els[n].id = i
            PROVE  f.els[1].id = i \/ InFrame(g, i)
        <5>1. CASE n = 1
          BY <4>1, <5>1
        <5>2. CASE n # 1
          <6>1. PICK m : m = n - 1
            OBVIOUS
          <6>2. m \in 1 .. Len(g.els) /\ n = m + 1
            BY <3>1, <5>2, <6>1
          <6> QED
            BY <2>6, <4>1, <6>2 DEF InFrame
        <5> QED
          BY <5>1, <5>2
      <4>2. ASSUME NEW n \in 1 .. Len(g.els), g.els[n].id = i PROVE InFrame(f, i)
        BY <2>6, <3>2, <4>2 DEF InFrame
      <4> QED
        BY <3>3, <4>1, <4>2 DEF InFrame
    <3>5. ASSUME f.els[1].id = i, NEW n \in 1 .. Len(g.els), g.els[n].id = i PROVE FALSE
      <4>1. n + 1 \in 1 .. Len(f.els) /\ 1 < n + 1 /\ f.els[n + 1].id = i
        BY <2>6, <3>2, <3>5
      <4>2. f.els[1].id # f.els[n + 1].id
        BY <2>5, <3>3, <4>1 DEF FromVenue, Names
      <4> QED
        BY <3>5, <4>1, <4>2
    <3>6. r \in News(i) <=> f.els[1].id = i
      BY <2>3, <2>7 DEF News, About
    <3>7. f.els[1].id = i => f.els[1].code = verdict[i]
      BY <2>5, <3>3 DEF FromVenue, Names
    <3> QED
      BY <3>4, <3>5, <3>6, <3>7 DEF InFrame
  <2>9. IsRejection(f, 1) <=> f.els[1].code = "reject"
    BY <2>5 DEF IsRejection
  <2>10. ASSUME NEW i \in Ids PROVE Single(i)' /\ OneHome(i)' /\ Heard(i)'
    <3>0. /\ Single(i) /\ OneHome(i) /\ Heard(i)
          /\ InHand(t, i) <=> InFrame(f, i)
          /\ InHand(t, i)' <=> InFrame(g, i)
          /\ InHand(t, i) => InHands(i)
      BY <1>0, <2>1, <2>4 DEF RInv, NewsInv, InHand, InHands, InFrame, Orphan
    <3>1. /\ (IsAside(i)' <=> IsAside(i)) /\ (InReports(i)' <=> InReports(i))
          /\ (IsClaimed(i)' <=> IsClaimed(i))
      BY <1>1 DEF IsAside, InReports, IsClaimed, Has
    <3>2. /\ IsTold(i)' <=> IsTold(i) \/ (IsRejection(f, 1) /\ f.els[1].id = i)
          /\ One(told', Notices(i))
      <4>1. CASE IsRejection(f, 1)
        <5>1. f.els[1].id = i => ~IsTold(i)
          BY <2>8, <3>0 DEF OneHome
        <5> QED
          BY <2>4, <2>7, <2>8, <4>1, <5>1, TellHas
      <4>2. CASE ~IsRejection(f, 1)
        BY <2>4, <3>0, <4>2 DEF Single, IsTold, Has
      <4> QED
        BY <4>1, <4>2
    <3>3. Tidy(t, i)
      BY <1>1, <2>4, <3>0, <3>2 DEF Tidy, Single
    <3>4. Single(i)' /\ OneHome(i)'
      <4>1. CASE IsRejection(f, 1) /\ f.els[1].id = i
        <5>1. InHand(t, i) /\ InHands(i) /\ ~InHand(t, i)'
          BY <2>8, <3>0, <4>1
        <5>2. \A u \in Tasks : u # t => ~InHand(u, i)
          BY <3>0, <5>1 DEF Single
        <5>3. \A u \in Tasks : ~InHand(u, i)'
          BY <2>4, <5>1, <5>2, HandsKept
        <5>4. ~InHands(i)'
          BY <5>3 DEF InHands
        <5> QED
          BY <1>1, <3>0, <3>1, <3>3, <5>1, <5>4, Spoken
      <4>2. CASE ~(IsRejection(f, 1) /\ f.els[1].id = i)
        BY <2>8, <3>0, <3>1, <3>2, <3>3, <4>2, Stays
      <4> QED
        BY <4>1, <4>2
    <3>5. Heard(i)'
      <4> SUFFICES ASSUME socket # 0, asked[i] = socket, verdict[i] = "reject"
                   PROVE  \/ Has(wire[socket], Carrying(i))
                          \/ IsAside(i)' \/ InHands(i)' \/ InReports(i)' \/ IsClaimed(i)'
                          \/ IsTold(i)' \/ i \in lost'
        BY <1>1 DEF Heard, Has
      <4>1. InHands(i) => InHands(i)' \/ IsTold(i)'
        <5>1. InHand(t, i)' => InHands(i)'
          BY DEF InHands
        <5>2. InHand(t, i) => InHand(t, i)' \/ IsTold(i)'
          BY <2>8, <2>9, <3>0, <3>2
        <5> QED
          BY <2>4, <5>1, <5>2, HandsKept
      <4> QED
        BY <1>1, <3>0, <3>1, <3>2, <4>1 DEF Heard
    <3> QED
      BY <3>4, <3>5
  <2>11. FirstTold'
    <3>1. CASE IsRejection(f, 1)
      <4>1. r.what # "unparsable"
        BY <2>3 DEF About
      <4> QED
        BY <1>0, <1>1, <2>4, <2>7, <3>1, <4>1, FirstTells
    <3>2. CASE ~IsRejection(f, 1)
      BY <1>0, <1>1, <2>4, <3>2, FirstKept
    <3> QED
      BY <3>1, <3>2
  <2>12. Reached'
    BY <1>0, <1>1 DEF Reached
  <2> QED
    BY <2>10, <2>11, <2>12 DEF NewsInv
<1> QED
  BY <1>2, <1>3
\* A report from the queue is told and leaves it; what is told of a frame that
\* does not parse is no news.
LEMMA TellNews ==
    ASSUME NEW t \in Tasks, RInv, OthersKeep(t), ~Orphan(t), ~Orphan(t)',
           NEW r \in Report, NEW d \in BOOLEAN, Tell(r, d),
           UNCHANGED <<socket, wire, overflow, claimed, lost, asked, verdict>>,
           \/ r.what = "unparsable" /\ reports' = reports
           \/ reports # <<>> /\ r = Head(reports) /\ reports' = Tail(reports),
           NEW i \in Ids
    PROVE  Single(i)' /\ OneHome(i)' /\ Heard(i)'
<1>0. Single(i) /\ OneHome(i) /\ Heard(i) /\ reports \in Seq(Report)
  BY DEF RInv, VInv, AInv, IInv, TypeOK, QueueTypes, NewsInv
<1>1. /\ r \in News(i) => InReports(i) /\ ~Has(reports', News(i))
      /\ Has(reports', News(i)) => Has(reports, News(i))
      /\ Has(reports, News(i)) => Has(reports', News(i)) \/ r \in News(i)
      /\ One(reports', News(i))
  <2>1. CASE r.what = "unparsable" /\ reports' = reports
    BY <1>0, <2>1 DEF News, Single
  <2>2. CASE reports # <<>> /\ r = Head(reports) /\ reports' = Tail(reports)
    <3>1. PICK p : p = Tail(reports)
      OBVIOUS
    <3>2. /\ Has(p, News(i)) => Has(reports, News(i))
          /\ r \in News(i) => Has(reports, News(i))
          /\ Has(reports, News(i)) => Has(p, News(i)) \/ r \in News(i)
          /\ One(reports, News(i)) =>
                One(p, News(i)) /\ (r \in News(i) => ~Has(p, News(i)))
      BY <1>0, <2>2, <3>1, TailHas
    <3> QED
      BY <1>0, <2>2, <3>1, <3>2 DEF Single, InReports
  <2> QED
    BY <2>1, <2>2
<1>2. InReports(i)' <=> Has(reports', News(i))
  BY DEF InReports, Has
<1>3. /\ IsTold(i)' <=> IsTold(i) \/ r \in News(i)
      /\ One(told', Notices(i))
  BY <1>0, <1>1, TellHas DEF OneHome
<1>4. Tidy(t, i)
  BY <1>0, <1>1, <1>3 DEF Tidy, Single
<1>5. /\ ~InHand(t, i) /\ ~InHand(t, i)'
      /\ (IsAside(i)' <=> IsAside(i)) /\ (IsClaimed(i)' <=> IsClaimed(i))
  BY DEF InHand, IsAside, IsClaimed, Has
<1>6. InHands(i)' <=> InHands(i)
  BY <1>5, HandsKept
<1>7. Single(i)' /\ OneHome(i)'
  <2>1. CASE r \in News(i)
    BY <1>0, <1>1, <1>2, <1>4, <1>5, <1>6, <2>1, Spoken
  <2>2. CASE r \notin News(i)
    BY <1>0, <1>1, <1>2, <1>3, <1>4, <1>5, <2>2, Stays DEF InReports
  <2> QED
    BY <2>1, <2>2
<1>8. Heard(i)'
  <2> SUFFICES ASSUME socket # 0, asked[i] = socket, verdict[i] = "reject"
               PROVE  \/ Has(wire[socket], Carrying(i))
                      \/ IsAside(i)' \/ InHands(i)' \/ InReports(i)' \/ IsClaimed(i)'
                      \/ IsTold(i)' \/ i \in lost'
    BY DEF Heard, Has
  <2> QED
    BY <1>0, <1>1, <1>2, <1>3, <1>5, <1>6 DEF Heard, InReports
<1> QED
  BY <1>7, <1>8

\* Telling the handlers, except of an orphan.
LEMMA ReportNews ==
    ASSUME NEW t \in Tasks, RInv,
           \/ ReportUnparsable(t) \/ UnparsableTold(t)
           \/ DrainOne(t) \/ Drained(t) \/ HandlerRaises(t)
    PROVE  NewsInv'
<1>0. /\ TaskTypes /\ TypeOK /\ reports \in Seq(Report) /\ ~Has(reports, Unparsables)
      /\ Reached
  BY DEF RInv, VInv, AInv, IInv, TypeOK, QueueTypes, NewsInv, FirstTold
<1>1. CASE ReportUnparsable(t)
  <2>1. /\ OthersKeep(t) /\ pc[t] = "unparsable"
        /\ pc'[t] \in {"idle", "unparsableTold", "drain"}
    BY <1>0, <1>1, GotoKeeps, ReturnKeeps DEF ReportUnparsable, States
  <2>2. UNCHANGED <<socket, conn, wire, overflow, reports, claimed, lost, asked, verdict>>
    BY <1>1 DEF ReportUnparsable, connVars, queueVars, venueVars, frameHist
  <2>3. CASE ~FirstSight(hand[t])
    BY <1>1, <2>1, <2>2, <2>3, FreeNews DEF ReportUnparsable, SameSession
  <2>4. CASE FirstSight(hand[t])
    <3>1. PICK r : r = About("unparsable", 0, hand[t])
      OBVIOUS
    <3>2. hand[t] \in Frame
      BY <2>1 DEF RInv, VInv, AInv, IInv, LocalInv, Local
    <3>3. /\ r \in Report /\ r.what = "unparsable"
          /\ r.ses = hand[t].ses /\ r.num = hand[t].num
      BY <3>1, <3>2, AboutType DEF About
    <3>4. Tell(r, TRUE) /\ flagged' = flagged \cup {<<hand[t].ses, hand[t].num>>}
      BY <1>1, <2>4, <3>1 DEF ReportUnparsable
    <3>5. ~Orphan(t) /\ ~Orphan(t)'
      BY <2>1 DEF Orphan
    <3>6. \A i \in Ids : Single(i)' /\ OneHome(i)' /\ Heard(i)'
      BY <2>1, <2>2, <3>3, <3>4, <3>5, TellNews
    <3>7. FirstTold'
      BY <1>0, <2>2, <2>4, <3>3, <3>4, FirstTells DEF FirstSight
    <3>8. Reached'
      BY <1>0, <2>2 DEF Reached
    <3> QED
      BY <3>6, <3>7, <3>8 DEF NewsInv
  <2> QED
    BY <2>3, <2>4
<1>2. CASE UnparsableTold(t)
  <2>1. OthersKeep(t) /\ pc[t] = "unparsableTold" /\ pc'[t] = "drain"
    BY <1>0, <1>2, GotoKeeps DEF UnparsableTold, States
  <2> QED
    BY <1>2, <2>1, FreeNews
       DEF UnparsableTold, connVars, queueVars, venueVars, frameHist, toldHist, SameSession
<1>3. CASE DrainOne(t)
  <2>1. OthersKeep(t) /\ pc[t] \in {"drain", "drainTold"} /\ pc'[t] = "drainTold"
    BY <1>0, <1>3, GotoKeeps DEF DrainOne, States
  <2>2. UNCHANGED <<socket, conn, wire, overflow, claimed, lost, asked, verdict, flagged>>
    BY <1>3 DEF DrainOne, connVars, venueVars, frameHist
  <2>3. PICK r : r = Head(reports)
    OBVIOUS
  <2>4. reports # <<>> /\ reports' = Tail(reports) /\ Tell(r, FALSE)
    BY <1>3, <2>3 DEF DrainOne
  <2>5. r \in Report
    BY <1>0, <2>3, <2>4
  <2>6. r \notin Unparsables /\ ~Has(reports', Unparsables)
    BY <1>0, <2>3, <2>4, TailHas
  <2>7. ~Orphan(t) /\ ~Orphan(t)'
    BY <2>1 DEF Orphan
  <2>8. \A i \in Ids : Single(i)' /\ OneHome(i)' /\ Heard(i)'
    BY <2>1, <2>2, <2>3, <2>4, <2>5, <2>7, TellNews
  <2>9. FirstTold'
    BY <2>2, <2>4, <2>5, <2>6, FirstTells DEF Unparsables
  <2>10. Reached'
    BY <1>0, <2>2 DEF Reached
  <2> QED
    BY <2>8, <2>9, <2>10 DEF NewsInv
<1>4. CASE Drained(t)
  <2>1. /\ OthersKeep(t) /\ pc[t] \in {"drain", "drainTold"}
        /\ pc'[t] \in {"idle", "closing", "hlock"}
    BY <1>0, <1>4, AfterPlain, GotoKeeps, ReturnKeeps DEF Drained, States
  <2>2. SameSession \/ NewSession
    BY <1>4, AfterSession DEF Drained, SameSession, queueVars
  <2> QED
    BY <1>4, <2>1, <2>2, FreeNews DEF Drained, venueVars, frameHist, toldHist
<1>5. CASE HandlerRaises(t)
  <2>1. OthersKeep(t) /\ pc[t] = "drainTold" /\ pc'[t] \in {"idle", "closing"}
    BY <1>0, <1>5, AfterPlain, ReturnKeeps DEF HandlerRaises
  <2>2. SameSession \/ NewSession
    BY <1>5, AfterSession DEF HandlerRaises, SameSession, queueVars
  <2> QED
    BY <1>5, <2>1, <2>2, FreeNews DEF HandlerRaises, venueVars, frameHist, toldHist
<1> QED
  BY <1>1, <1>2, <1>3, <1>4, <1>5
-----------------------------------------------------------------------------
(* The venue. *)

\* The venue decides the requests f is about, which were asked on s, and no other.
Decides(s, f) ==
    \A i \in Ids :
        IF InFrame(f, i)
        THEN asked[i] = s /\ verdict[i] = "none" /\ verdict'[i] # "none"
        ELSE verdict'[i] = verdict[i]

\* The venue sends a frame, about requests it had not answered.
LEMMA SendNews ==
    ASSUME NEW s \in Sessions, NEW kind \in {"data", "resp", "bad"},
           NEW els \in Seq(Element), RInv, Send(s, kind, els),
           NEW f, f = [kind |-> kind, els |-> els, ses |-> s, num |-> sent[s] + 1],
           Decides(s, f)
    PROVE  NewsInv'
<1>0. /\ wire \in [Sessions -> Seq(Frame)] /\ sent[s] \in Nat /\ Reached
      /\ ~Has(reports, Unparsables) /\ socket \in 0 .. MaxSession
  BY DEF RInv, VInv, AInv, IInv, TypeOK, ConnTypes, NewsInv, FirstTold
<1>1. /\ UNCHANGED <<socket, conn, overflow, reports, flagged, pc, hand, asked, claimed,
                     told, lost>>
      /\ wire' = [wire EXCEPT ![s] = Append(@, f)]
  BY DEF Send, queueVars, taskVars, frameHist, toldHist
<1>2. f \in Frame
  BY <1>0 DEF Frame
<1>3. PICK w \in Seq(Frame) : w = wire[s]
  BY <1>0
<1>4. PICK v : v = Append(w, f)
  OBVIOUS
<1>5. wire'[s] = v /\ \A r \in Sessions : r # s => wire'[r] = wire[r]
  BY <1>0, <1>1, <1>3, <1>4
<1>6. ASSUME NEW i \in Ids PROVE Single(i)' /\ OneHome(i)' /\ Heard(i)'
  <2>0. Single(i) /\ OneHome(i) /\ Heard(i) /\ (f \in Carrying(i) <=> InFrame(f, i))
    BY <1>2 DEF RInv, NewsInv, Carrying
  <2>1. /\ (IsAside(i)' <=> IsAside(i))
        /\ (InHands(i)' <=> InHands(i)) /\ (InReports(i)' <=> InReports(i))
        /\ (IsClaimed(i)' <=> IsClaimed(i)) /\ (IsTold(i)' <=> IsTold(i))
        /\ \A u \in Tasks : InHand(u, i)' <=> InHand(u, i)
    BY <1>1 DEF IsAside, InHands, InHand, Orphan, InFrame, InReports, IsClaimed,
                IsTold, Has
  <2>2. InFrame(f, i) => \A r \in Sessions : ~Has(wire[r], Carrying(i))
    BY <2>0 DEF OneHome, OnWires, Decides
  <2>3. /\ Has(v, Carrying(i)) <=> Has(w, Carrying(i)) \/ InFrame(f, i)
        /\ One(w, Carrying(i)) /\ (InFrame(f, i) => ~Has(w, Carrying(i)))
              => One(v, Carrying(i))
    BY <1>2, <1>4, <2>0, AppendHas
  <2>4. /\ One(v, Carrying(i))
        /\ \A r \in Sessions : r # s => One(wire[r], Carrying(i))
    BY <1>3, <2>0, <2>2, <2>3 DEF Single
  <2>5. ASSUME NEW r \in Sessions
        PROVE  /\ One(wire'[r], Carrying(i))
               /\ Has(wire'[r], Carrying(i)) <=>
                     Has(wire[r], Carrying(i)) \/ (r = s /\ InFrame(f, i))
    <3>1. CASE r = s
      BY <1>3, <1>5, <2>3, <2>4, <3>1
    <3>2. CASE r # s
      BY <1>5, <2>4, <3>2
    <3> QED
      BY <3>1, <3>2
  <2>6. \A q, r \in Sessions :
           Has(wire'[q], Carrying(i)) /\ Has(wire'[r], Carrying(i)) => q = r
    BY <2>0, <2>2, <2>5 DEF Single
  <2>7. Single(i)'
    BY <1>1, <2>0, <2>1, <2>5, <2>6 DEF Single, One, Has
  <2>8. OnWires(i)' <=> OnWires(i) \/ InFrame(f, i)
    <3>1. OnWires(i)' <=> \E r \in Sessions : Has(wire'[r], Carrying(i))
      BY DEF OnWires, Has
    <3> QED
      BY <2>5, <3>1 DEF OnWires
  <2>9. OneHome(i)'
    <3>1. CASE InFrame(f, i)
      BY <2>0, <2>1, <3>1 DEF OneHome, Decides
    <3>2. CASE ~InFrame(f, i)
      BY <2>0, <2>1, <2>8, <3>2 DEF OneHome, Decides
    <3> QED
      BY <3>1, <3>2
  <2>10. Heard(i)'
    <3> SUFFICES ASSUME socket # 0, asked[i] = socket, verdict'[i] = "reject"
                 PROVE  \/ Has(wire'[socket], Carrying(i))
                        \/ IsAside(i)' \/ InHands(i)' \/ InReports(i)' \/ IsClaimed(i)'
                        \/ IsTold(i)' \/ i \in lost'
      BY <1>1 DEF Heard, Has
    <3>1. socket \in Sessions
      BY <1>0 DEF Sessions
    <3> QED
      BY <1>1, <2>0, <2>1, <2>5, <3>1 DEF Heard, Decides
  <2> QED
    BY <2>7, <2>9, <2>10
<1>7. Reached'
  BY <1>0, <1>1 DEF Reached
<1>8. FirstTold'
  BY <1>0, <1>1, FirstKept
<1> QED
  BY <1>6, <1>7, <1>8 DEF NewsInv

\* A step that changes none of the places.
LEMMA StillNews ==
    ASSUME RInv,
           UNCHANGED <<socket, wire, overflow, reports, flagged, pc, hand, asked, verdict,
                       claimed, told, lost>>,
           \A s \in Sessions : conn[s] # "none" => conn'[s] # "none"
    PROVE  NewsInv'
<1>0. /\ \A i \in Ids : Single(i) /\ OneHome(i) /\ Heard(i)
      /\ Reached /\ FirstTold /\ asked \in [Ids -> 0 .. MaxSession]
  BY DEF RInv, VInv, AInv, IInv, TypeOK, VenueTypes, NewsInv
<1>1. ASSUME NEW i \in Ids PROVE Single(i)' /\ OneHome(i)' /\ Heard(i)'
  <2>1. /\ (OnWires(i)' <=> OnWires(i)) /\ (IsAside(i)' <=> IsAside(i))
        /\ (InHands(i)' <=> InHands(i)) /\ (InReports(i)' <=> InReports(i))
        /\ (IsClaimed(i)' <=> IsClaimed(i)) /\ (IsTold(i)' <=> IsTold(i))
        /\ \A u \in Tasks : InHand(u, i)' <=> InHand(u, i)
    BY DEF OnWires, IsAside, InHands, InHand, Orphan, InFrame, InReports,
           IsClaimed, IsTold, Has
  <2>2. Single(i)' /\ OneHome(i)'
    BY <1>0, <2>1 DEF Single, OneHome, Has, One
  <2>3. Heard(i)'
    BY <1>0, <2>1 DEF Heard, Has
  <2> QED
    BY <2>2, <2>3
<1>2. Reached'
  BY <1>0 DEF Reached, Sessions
<1>3. FirstTold'
  BY <1>0, FirstKept DEF FirstTold
<1> QED
  BY <1>1, <1>2, <1>3 DEF NewsInv

\* What it may send, and the end of a connection.
LEMMA VenueNews ==
    ASSUME NEW s \in Sessions, RInv, VenueStep(s) PROVE NewsInv'
<1>0. /\ verdict \in [Ids -> Codes \cup {"none"}] /\ Ids \subseteq Nat
      /\ conn \in [Sessions -> {"none", "open", "closed"}]
  BY DEF RInv, VInv, AInv, IInv, TypeOK, VenueTypes, ConnTypes, Ids
<1>1. CASE VenueAnswers(s)
  <2>1. PICK i \in Ids, c \in Verdicts :
           /\ Unanswered(s, i)
           /\ Send(s, "resp", <<[id |-> i, code |-> c]>>)
           /\ verdict' = [verdict EXCEPT ![i] = c]
    BY <1>1 DEF VenueAnswers
  <2>2. PICK els : els = <<[id |-> i, code |-> c]>>
    OBVIOUS
  <2>3. c \in Codes /\ els \in Seq(Element)
    BY <1>0, <2>2, VenueAssumption DEF Element
  <2>4. PICK f : f = [kind |-> "resp", els |-> els, ses |-> s, num |-> sent[s] + 1]
    OBVIOUS
  <2>5. \A k : InFrame(f, k) <=> k = i
    BY <2>2, <2>4 DEF InFrame
  <2>6. /\ verdict'[i] = c /\ c # "none"
        /\ \A k \in Ids : k # i => verdict'[k] = verdict[k]
    BY <1>0, <2>1, <2>3 DEF Codes
  <2>7. Decides(s, f)
    BY <2>1, <2>5, <2>6 DEF Decides, Unanswered
  <2>8. Send(s, "resp", els)
    BY <2>1, <2>2
  <2> QED
    BY <2>3, <2>4, <2>7, <2>8, SendNews
<1>2. CASE VenueBatches(s)
  <2>1. PICK i \in Ids, j \in Ids, c \in Verdicts, d \in Verdicts :
           /\ i # j /\ Unanswered(s, i) /\ Unanswered(s, j)
           /\ Send(s, "resp", <<[id |-> i, code |-> c], [id |-> j, code |-> d]>>)
           /\ verdict' = [verdict EXCEPT ![i] = c, ![j] = d]
    BY <1>2 DEF VenueBatches
  <2>2. PICK els : els = <<[id |-> i, code |-> c], [id |-> j, code |-> d]>>
    OBVIOUS
  <2>3. c \in Codes /\ d \in Codes /\ els \in Seq(Element)
    BY <1>0, <2>2, VenueAssumption DEF Element
  <2>4. PICK f : f = [kind |-> "resp", els |-> els, ses |-> s, num |-> sent[s] + 1]
    OBVIOUS
  <2>5. /\ f.els[1].id = i /\ f.els[2].id = j /\ Len(f.els) = 2
        /\ \A n \in 1 .. Len(f.els) : n = 1 \/ n = 2
    BY <2>2, <2>4
  <2>6. \A k : InFrame(f, k) <=> k = i \/ k = j
    BY <2>5 DEF InFrame
  <2>7. /\ verdict'[i] = c /\ verdict'[j] = d /\ c # "none" /\ d # "none"
        /\ \A k \in Ids : k # i /\ k # j => verdict'[k] = verdict[k]
    BY <1>0, <2>1, <2>3 DEF Codes
  <2>8. Decides(s, f)
    BY <2>1, <2>6, <2>7 DEF Decides, Unanswered
  <2>9. Send(s, "resp", els)
    BY <2>1, <2>2
  <2> QED
    BY <2>3, <2>4, <2>8, <2>9, SendNews
<1>3. CASE VenueSends(s)
  <2>1. PICK u \in Unsolicited : Send(s, u.kind, u.els) /\ UNCHANGED verdict
    BY <1>3 DEF VenueSends
  <2>2. u.kind \in {"data", "resp", "bad"} /\ u.els \in Seq(Element)
    BY VenueAssumption
  <2>3. PICK f : f = [kind |-> u.kind, els |-> u.els, ses |-> s, num |-> sent[s] + 1]
    OBVIOUS
  <2>4. \A k \in Ids : ~InFrame(f, k)
    BY <2>3, VenueAssumption DEF InFrame
  <2>5. Decides(s, f)
    BY <2>1, <2>4 DEF Decides
  <2> QED
    BY <2>1, <2>2, <2>3, <2>5, SendNews
<1>4. CASE Disconnect(s)
  <2>1. \A r \in Sessions : conn[r] # "none" => conn'[r] # "none"
    BY <1>0, <1>4 DEF Disconnect
  <2> QED
    BY <1>4, <2>1, StillNews
       DEF Disconnect, queueVars, taskVars, venueVars, frameHist, toldHist
<1> QED
  BY <1>1, <1>2, <1>3, <1>4 DEF VenueStep
-----------------------------------------------------------------------------
(* The invariant, and what it says. *)

\* Nothing was asked and nothing is anywhere.
LEMMA InitNews == Init => NewsInv
<1> SUFFICES ASSUME Init PROVE NewsInv
  OBVIOUS
<1>1. /\ \A s \in Sessions : wire[s] = <<>>
      /\ overflow = <<>> /\ reports = <<>> /\ told = <<>> /\ claimed = {}
      /\ \A t \in Tasks : ~Orphan(t)
      /\ \A i \in Ids : asked[i] = 0
      /\ socket = 0
  BY DEF Init, Orphan
<1>2. ASSUME NEW i \in Ids PROVE Single(i) /\ OneHome(i) /\ Heard(i)
  <2>1. /\ \A s \in Sessions : ~Has(wire[s], Carrying(i)) /\ One(wire[s], Carrying(i))
        /\ ~Has(overflow, Carrying(i)) /\ One(overflow, Carrying(i))
        /\ ~Has(reports, News(i)) /\ One(reports, News(i))
        /\ ~Has(told, Notices(i)) /\ One(told, Notices(i))
    BY <1>1, EmptyHas
  <2>2. ~OnWires(i) /\ ~IsAside(i) /\ ~InHands(i) /\ ~InReports(i) /\ ~IsClaimed(i)
        /\ ~IsTold(i) /\ \A t \in Tasks : ~InHand(t, i)
    BY <1>1, <2>1 DEF OnWires, IsAside, InHands, InHand, InReports, IsClaimed, IsTold
  <2> QED
    BY <1>1, <2>1, <2>2 DEF Single, OneHome, Heard
<1>3. Reached
  BY <1>1 DEF Reached
<1>4. FirstTold
  BY <1>1, EmptyHas DEF FirstTold
<1> QED
  BY <1>2, <1>3, <1>4 DEF NewsInv

\* Every step keeps the news.
LEMMA StepNews == RInv /\ [Next]_vars => NewsInv'
<1> SUFFICES ASSUME RInv, [Next]_vars PROVE NewsInv'
  OBVIOUS
<1>1. ASSUME NEW t \in Tasks, RequestStep(t) PROVE NewsInv'
  BY <1>1, WaitNews, TransmitNews, RequestReadsNews DEF RequestStep
<1>2. ASSUME NEW t \in Tasks, HandleStep(t) PROVE NewsInv'
  BY <1>2, TakeNextNews, HandleReadsNews, ReportOrphanNews, OrphanRaisesNews
     DEF HandleStep
<1>3. ASSUME NEW t \in Tasks, SharedStep(t) PROVE NewsInv'
  BY <1>3, RecvFailsNews, ReportNews DEF SharedStep
<1>4. CASE UNCHANGED vars
  BY <1>4, StillNews
     DEF vars, connVars, queueVars, taskVars, venueVars, frameHist, toldHist
<1> QED
  BY <1>1, <1>2, <1>3, <1>4, CallNews, ConnectionNews, CancelNews, VenueNews DEF Next

\* The whole invariant holds of every state of a behaviour.
THEOREM NewsInvariance == Spec => []RInv
<1>1. Init => RInv
  BY InitIInv, InitTruth, InitVenue, InitNews DEF RInv, VInv, AInv
<1>2. RInv /\ [Next]_vars => RInv'
  BY StepIInv, StepTruth, StepVenue, StepNews DEF RInv, VInv, AInv
<1> QED
  BY <1>1, <1>2, PTL DEF Spec

\* A request's notices are at one place of what was told.
LEMMA ToldAre ==
    ASSUME RInv, NEW i \in Ids
    PROVE  /\ Told(i) = {k \in 1 .. Len(told) : told[k] \in Notices(i)}
           /\ IsTold(i) <=> Told(i) # {}
<1>1. told \in Seq(Notice)
  BY DEF RInv, VInv, AInv, IInv, TypeOK, HistoryTypes, Notice
<1>2. \A k \in 1 .. Len(told) : told[k] \in Notice
  BY <1>1
<1>3. \A k \in 1 .. Len(told) :
         told[k] \in Notices(i) <=>
             told[k].report.what = "rejection" /\ told[k].report.id = i
  BY <1>2 DEF Notices, News, Notice
<1> QED
  BY <1>3 DEF Told, IsTold, Has

\* A rejection is told at most once, and not at all when its waiter has it;
\* a frame that does not parse is told once (ToldOnce of StreamClient).
THEOREM ToldOnceCorrect == Spec => []ToldOnce
<1>1. RInv => ToldOnce
  <2> SUFFICES ASSUME RInv PROVE ToldOnce
    OBVIOUS
  <2>0. FirstTold /\ \A i \in Ids : Single(i) /\ OneHome(i)
    BY DEF RInv, NewsInv
  <2>1. ASSUME NEW i \in Ids PROVE Cardinality(Told(i)) <= 1
    <3>1. \A j, k \in Told(i) : j = k
      BY <2>0, ToldAre DEF Single, One
    <3>2. Told(i) = {} \/ \E k : Told(i) = {k}
      BY <3>1
    <3>3. Cardinality(Told(i)) = 0 \/ Cardinality(Told(i)) = 1
      BY <3>2, FS_EmptySet, FS_Singleton
    <3> QED
      BY <3>3
  <2>2. ASSUME NEW i \in Ids, i \in claimed PROVE Told(i) = {}
    BY <2>0, <2>2, ToldAre DEF OneHome, IsClaimed
  <2>3. \A j, k \in 1 .. Len(told) :
           told[j].report = told[k].report /\ told[j].report.what = "unparsable"
               => j = k
    BY <2>0 DEF FirstTold
  <2> QED
    BY <2>1, <2>2, <2>3 DEF ToldOnce
<1> QED
  BY <1>1, NewsInvariance, PTL

\* A rejection read on the live connection is with its waiter, held, told, or
\* dropped by a documented limit (RejectionHeard of StreamClient).
THEOREM RejectionHeardCorrect == Spec => []RejectionHeard
<1>1. RInv => RejectionHeard
  <2> SUFFICES ASSUME RInv, NEW i \in Ids, socket # 0, asked[i] = socket,
                      verdict[i] = "reject", ~OnWire(i), i \notin claimed,
                      Told(i) = {}, i \notin lost
               PROVE  Held(i)
    BY DEF RejectionHeard
  <2>0. /\ Heard(i) /\ socket \in Sessions /\ wire[socket] \in Seq(Frame)
    BY DEF RInv, NewsInv, VInv, AInv, IInv, TypeOK, ConnTypes, Sessions
  <2>1. ~IsClaimed(i) /\ ~IsTold(i)
    BY ToldAre DEF IsClaimed
  <2>2. ~Has(wire[socket], Carrying(i))
    <3> SUFFICES ASSUME NEW k \in 1 .. Len(wire[socket]), InFrame(wire[socket][k], i)
                 PROVE  FALSE
      BY DEF Has, Carrying
    <3>1. wire[socket][k] \in Frame
      BY <2>0
    <3>2. FromVenue(wire[socket][k])
      BY <2>0 DEF RInv, VInv, VenueInv, FramesFromVenue, AllFromVenue, Queued
    <3>3. Says(wire[socket][k], 1, i) \/ Says(wire[socket][k], 2, i)
      BY <3>1, <3>2, InFrameWhere
    <3> QED
      BY <3>3 DEF Says, OnWire
  <2>3. IsAside(i) \/ InHands(i) \/ InReports(i)
    BY <2>0, <2>1, <2>2 DEF Heard
  <2> QED
    BY <2>3 DEF IsAside, InHands, InHand, InReports, Held, Has, Carrying, News, Orphan
<1> QED
  BY <1>1, NewsInvariance, PTL
=============================================================================
