------------------------- MODULE TokenSessionProofs -------------------------
(***************************************************************************)
(* Proofs about TokenSession, for any number of tasks, tokens, logins and  *)
(* stores: what a client holds can be renewed and what it stored can be    *)
(* loaded, the age of a token counts from its login, the metadata follow   *)
(* the store, what a TokenRefreshError says is true, and one task at a     *)
(* time refreshes.                                                         *)
(***************************************************************************)
EXTENDS TokenSession, FairLockProofs

Places == {"idle", "lock", "refreshing", "writing", "send"}
CallStates == {"idle", "returned", "asked", "put", "kept"}

\* The write in progress.
CallTypes ==
    \E st \in CallStates, s \in Stored :
        call = [w \in {Process} |-> [st |-> st, token |-> s]]

\* What is in every variable.
Types ==
    /\ value \in Stored /\ safe \in Stored /\ CallTypes
    /\ clock \in Nat
    /\ proc \in {"down", "loggingIn", "up"}
    /\ session \in Token
    /\ meta \in [token : Token, created : Int]
    /\ refreshQ \in Seq(Requesters)
    /\ task \in [Requesters -> TaskStates]
    /\ issued \in 0 .. MaxToken /\ logins \in 0 .. MaxLogin
    /\ granted \in [1 .. MaxLogin -> Int]
    /\ warned \in BOOLEAN /\ torn \in BOOLEAN

\* A token this library wrote is usable; it was issued, and descends from a
\* login that was completed; and what is stored with it is the time of that.
Good(token) ==
    token.id # 0 =>
        /\ token.typ = "bearer" /\ ActsOn(token.exp)
        /\ token.refresh \in {"live", "none"}
Known(token) == token.id <= issued /\ token.login <= logins
Dated(token, created) == token.login # 0 => created = granted[token.login]

\* What may be stored.
Sound(s) ==
    /\ Good(s.token) /\ Known(s.token) /\ Dated(s.token, s.created)
    /\ s.token.id # 0 => s.shape = "whole"

StoreInv == Sound(value) /\ Sound(safe) /\ Sound(call[Process].token)

\* What the session and the metadata hold.
ClientInv ==
    /\ Good(session) /\ Known(session)
    /\ Good(meta.token) /\ Known(meta.token) /\ Dated(meta.token, meta.created)
    /\ session.login = meta.token.login
    /\ session.refresh \in {"live", "none"}
    /\ session.refresh = "live" => ActsOn(session.exp)

\* How they follow a write.
WriteInv ==
    /\ call[Process].st \in {"put", "kept"} => value = call[Process].token
    /\ Writing /\ proc # "down" => call[Process].token.token = session
    /\ proc = "loggingIn" => Writing /\ session = meta.token /\ ~torn
    /\ proc = "up" /\ Writing => session.id # meta.token.id
    /\ MetaFollowsStore

\* Who stands at the lock, and what they found there.
QueueInv ==
    /\ NoneTwice(refreshQ)
    /\ Queued(refreshQ) =
          {t \in Requesters : task[t].pc \in {"lock", "refreshing", "writing"}}
    /\ RefreshDiscipline
    /\ \A t \in Requesters :
          /\ task[t].pc = "refreshing" => session.refresh = "live"
          /\ task[t].pc # "idle" => proc = "up"

\* Nothing can renew the session, and no request with it succeeds.
Hopeless ==
    \/ Expired(session) /\ (session.refresh = "none" \/ session.login \in dead)
    \/ session.typ # "bearer" /\ session.refresh = "none"

\* What a final error says stays true for the requests called after it.
WarnedInv ==
    /\ warned => Hopeless
    /\ \A t \in Requesters : task[t].late =>
          /\ task[t].pc # "idle" => warned
          /\ task[t].pc # "writing"
          /\ task[t].pc = "send" => session.typ # "bearer"
          /\ task[t].end # "ok"

\* A request that is not over has heard nothing to tell.
HeardInv ==
    /\ AnswerTold
    /\ \A t \in Requesters : task[t].pc # "idle" => task[t].heard = "none"

TokenInv ==
    Types /\ StoreInv /\ ClientInv /\ WriteInv /\ QueueInv /\ WarnedInv /\ HeardInv

----------------------------------------------------------------------------
\* Tokens

\* The constants as the proofs use them.
LEMMA Bounds ==
    /\ MaxToken \in Nat /\ MaxLogin \in Nat
    /\ Leeway \in Nat /\ Longest \in Nat
BY BoundsAssumption

\* No token is a token, and no store a store.
LEMMA NothingTypes == NoToken \in Token /\ NoStore \in Stored /\ NoMeta \in [token : Token, created : Int]
<1>1. NoToken \in Token
  BY Bounds DEF NoToken, Token, NoExpiry
<1> QED
  BY <1>1 DEF NoStore, NoMeta, Stored, Shapes

\* What a token has.
LEMMA TokenFields ==
    ASSUME NEW x \in Token
    PROVE  /\ x.id \in Nat /\ x.login \in Nat /\ x.exp \in Int
           /\ x.id <= MaxToken /\ x.login <= MaxLogin
           /\ x.typ \in {"bearer", "null", "other", "odd"}
           /\ x.refresh \in {"live", "none", "null", "empty", "odd"}
BY Bounds DEF Token

\* What is stored has a token.
LEMMA StoredFields ==
    ASSUME NEW s \in Stored
    PROVE  s.token \in Token /\ s.created \in Int /\ s.shape \in Shapes
BY DEF Stored

\* _stored_token_for_session keeps whose token it is, and leaves one that
\* can be renewed in time, if at all.
LEMMA ForSessionEffect ==
    ASSUME clock \in Nat, NEW x \in Token
    PROVE  /\ ForSession(x) \in Token
           /\ ForSession(x).id = x.id /\ ForSession(x).login = x.login
           /\ ForSession(x).refresh \in {"live", "none"}
           /\ ForSession(x).refresh = "live" => ActsOn(ForSession(x).exp)
           /\ Good(x) => Good(ForSession(x))
<1> DEFINE y == ForSession(x)
<1>1. PICK e \in Int : e = IF x.refresh = "live" /\ RefreshFirst(x) THEN clock
                           ELSE IF x.exp = Counted THEN clock + Longest ELSE x.exp
  <2>1. clock + Longest \in Int /\ clock \in Int /\ x.exp \in Int
    BY Bounds, TokenFields
  <2> QED
    BY <2>1
<1>2. PICK r \in {"live", "none"} : r = IF x.refresh = "live" THEN x.refresh ELSE "none"
  OBVIOUS
<1>3. PICK k \in {"bearer", "other", "odd"} : k = IF x.typ = "null" THEN "bearer" ELSE x.typ
  BY TokenFields
<1>4. /\ y.id = x.id /\ y.login = x.login
      /\ y.exp = e /\ y.typ = k /\ y.refresh = r /\ y \in Token
  BY <1>1, <1>2, <1>3 DEF Token, ForSession
<1> HIDE DEF y
<1>5. y.refresh = "live" => ActsOn(y.exp)
  <2>1. CASE RefreshFirst(x)
    BY <2>1, <1>1, <1>2, <1>4, Bounds DEF ActsOn
  <2>2. CASE ~RefreshFirst(x)
    BY <2>2, <1>1, <1>2, <1>4, Bounds DEF ActsOn, RefreshFirst, Counted
  <2> QED
    BY <2>1, <2>2
<1>6. Good(x) => Good(y)
  <2> SUFFICES ASSUME Good(x), x.id # 0 PROVE Good(y)
    BY <1>4 DEF Good
  <2>1. ActsOn(x.exp) /\ x.typ = "bearer"
    BY DEF Good
  <2>2. e = x.exp
    BY <2>1, <1>1, TokenFields DEF RefreshFirst, ActsOn, Counted
  <2> QED
    BY <2>1, <2>2, <1>2, <1>3, <1>4 DEF Good
<1> QED
  BY <1>4, <1>5, <1>6 DEF y

\* What authlib keeps of an answer is usable: the hook let it through.
LEMMA KeptUsable ==
    ASSUME clock \in Nat, NEW a \in Answers, Kept(a)
    PROVE  /\ a.offer.typ = "bearer" /\ a.offer.exp \in Int
           /\ ActsOn(a.offer.exp) /\ a.offer.refresh \in {"live", "none"}
<1>1. a.offer \in Offers
  BY DEF Answers
<1>2. a.offer \in [exp : Int, typ : {"bearer", "other"}, refresh : {"live", "none", "empty"}]
  BY <1>1, OffersAssumption
<1>3. Usable(a.offer)
  BY DEF Kept, Refused
<1> QED
  BY <1>2, <1>3 DEF Usable

\* The token of a login.
LEMMA LoginToken ==
    ASSUME Types, NEW a \in Answers, Kept(a), issued < MaxToken, logins < MaxLogin,
           NEW x, x = [id |-> issued + 1, login |-> logins + 1,
                       exp |-> a.offer.exp, typ |-> a.offer.typ,
                       refresh |-> a.offer.refresh]
    PROVE  /\ x \in Token /\ x.id = issued + 1 /\ x.login = logins + 1
           /\ x.typ = "bearer" /\ ActsOn(x.exp) /\ x.refresh \in {"live", "none"}
<1>1. clock \in Nat
  BY DEF Types
<1>2. /\ a.offer.typ = "bearer" /\ a.offer.exp \in Int
      /\ ActsOn(a.offer.exp) /\ a.offer.refresh \in {"live", "none"}
  BY <1>1, KeptUsable
<1>3. issued + 1 \in 0 .. MaxToken /\ logins + 1 \in 0 .. MaxLogin
  BY Bounds DEF Types
<1>4. x \in Token
  BY <1>2, <1>3 DEF Token
<1> QED
  BY <1>2, <1>4

\* The token of a refresh.
LEMMA ReceivedToken ==
    ASSUME Types, NEW a \in Answers, Kept(a), issued < MaxToken,
           session.refresh \in {"live", "none"},
           NEW x, x = Received(a.offer, session.login)
    PROVE  /\ x \in Token /\ x.id = issued + 1 /\ x.login = session.login
           /\ x.typ = "bearer" /\ ActsOn(x.exp) /\ x.refresh \in {"live", "none"}
<1>1. clock \in Nat
  BY DEF Types
<1>2. /\ a.offer.typ = "bearer" /\ a.offer.exp \in Int
      /\ ActsOn(a.offer.exp) /\ a.offer.refresh \in {"live", "none"}
  BY <1>1, KeptUsable
<1>3. issued + 1 \in 0 .. MaxToken /\ session.login \in 0 .. MaxLogin
  BY Bounds DEF Types, Token
<1>4. PICK r \in {"live", "none"} :
        r = IF a.offer.refresh = "none" /\ session.refresh = "live" THEN "live" ELSE a.offer.refresh
  BY <1>2
<1>5. x = [id |-> issued + 1, login |-> session.login, exp |-> a.offer.exp,
           typ |-> a.offer.typ, refresh |-> r]
  BY <1>4 DEF Received
<1>6. x \in Token
  BY <1>2, <1>3, <1>5 DEF Token
<1> QED
  BY <1>2, <1>5, <1>6

----------------------------------------------------------------------------
\* The register

\* What each of its operations does to the write in progress.
LEMMA AskEffect ==
    ASSUME CallTypes, NEW s \in Stored, Register!Ask(Process, s)
    PROVE  /\ ~Writing /\ UNCHANGED <<value, safe>> /\ CallTypes'
           /\ call'[Process].st = "asked" /\ call'[Process].token = s
<1>1. PICK st \in CallStates, o \in Stored :
        call = [w \in {Process} |-> [st |-> st, token |-> o]]
  BY DEF CallTypes
<1>2. call' = [w \in {Process} |-> [st |-> "asked", token |-> s]]
  BY <1>1 DEF Register!Ask
<1>3. CallTypes'
  BY <1>2 DEF CallTypes, CallStates
<1> QED
  BY <1>1, <1>2, <1>3 DEF Register!Ask, Register!Ended, Writing

\* The write takes effect.
LEMMA PutEffect ==
    ASSUME CallTypes, Register!Put(Process)
    PROVE  /\ Writing /\ value' = call[Process].token /\ safe' = safe /\ CallTypes'
           /\ call'[Process].st = "put" /\ call'[Process].token = call[Process].token
<1>1. PICK st \in CallStates, o \in Stored :
        call = [w \in {Process} |-> [st |-> st, token |-> o]]
  BY DEF CallTypes
<1>2. call' = [w \in {Process} |-> [st |-> "put", token |-> o]]
  <2>1. call' = [w \in {Process} |-> [call[w] EXCEPT !.st = "put"]]
    BY <1>1, Zenon DEF Register!Put
  <2>2. \A w \in {Process} : [call[w] EXCEPT !.st = "put"] = [st |-> "put", token |-> o]
    BY <1>1
  <2> QED
    BY <2>1, <2>2
<1> QED
  BY <1>1, <1>2 DEF Register!Put, CallTypes, CallStates, Writing

\* Its effect cannot be lost any more.
LEMMA KeepEffect ==
    ASSUME CallTypes, Register!Keep(Process)
    PROVE  /\ call[Process].st = "put" /\ safe' = value /\ value' = value /\ CallTypes'
           /\ call'[Process].st = "kept" /\ call'[Process].token = call[Process].token
<1>1. PICK st \in CallStates, o \in Stored :
        call = [w \in {Process} |-> [st |-> st, token |-> o]]
  BY DEF CallTypes
<1>2. call' = [w \in {Process} |-> [st |-> "kept", token |-> o]]
  <2>1. call' = [w \in {Process} |-> [call[w] EXCEPT !.st = "kept"]]
    BY <1>1, Zenon DEF Register!Keep
  <2>2. \A w \in {Process} : [call[w] EXCEPT !.st = "kept"] = [st |-> "kept", token |-> o]
    BY <1>1
  <2> QED
    BY <2>1, <2>2
<1> QED
  BY <1>1, <1>2 DEF Register!Keep, CallTypes, CallStates

\* No write in progress, after any of the ways in which one ends.
NoWrite ==
    /\ CallTypes
    /\ call[Process].st \in {"idle", "returned"} /\ call[Process].token = NoStore

\* The write returns.
LEMMA AckEffect ==
    ASSUME CallTypes, Register!Ack(Process)
    PROVE  /\ call[Process].st \in {"put", "kept"}
           /\ UNCHANGED <<value, safe>> /\ NoWrite'
<1>1. PICK st \in CallStates, o \in Stored :
        call = [w \in {Process} |-> [st |-> st, token |-> o]]
  BY DEF CallTypes
<1>2. call' = [w \in {Process} |-> [st |-> "returned", token |-> NoStore]]
  BY <1>1 DEF Register!Ack, Register!Returned
<1>3. CallTypes'
  BY <1>2, NothingTypes DEF CallTypes, CallStates
<1> QED
  BY <1>1, <1>2, <1>3 DEF Register!Ack, NoWrite

\* The write raises, or its process dies.
LEMMA AbandonEffect ==
    ASSUME CallTypes, Register!Abandon(Process)
    PROVE  Writing /\ UNCHANGED <<value, safe>> /\ NoWrite'
<1>1. PICK st \in CallStates, o \in Stored :
        call = [w \in {Process} |-> [st |-> st, token |-> o]]
  BY DEF CallTypes
<1>2. call' = [w \in {Process} |-> [st |-> "idle", token |-> NoStore]]
  BY <1>1 DEF Register!Abandon, Register!NoCall
<1>3. CallTypes'
  BY <1>2, NothingTypes DEF CallTypes, CallStates
<1> QED
  BY <1>1, <1>2, <1>3 DEF Register!Abandon, Register!Ended, CallStates, NoWrite, Writing

\* A power loss.
LEMMA PowerEffect ==
    ASSUME CallTypes, Register!PowerLoss
    PROVE  value' = safe /\ safe' = safe /\ NoWrite'
<1>1. call' = [w \in {Process} |-> [st |-> "idle", token |-> NoStore]]
  BY DEF Register!PowerLoss, Register!NoCall
<1> QED
  BY <1>1, NothingTypes DEF Register!PowerLoss, CallTypes, CallStates, NoWrite

\* What no write is in progress means.
LEMMA NoWriteWrites == NoWrite => ~Writing
BY DEF NoWrite, Writing

----------------------------------------------------------------------------
\* Requests

\* A request that starts.
LEMMA StartEffect ==
    ASSUME Types, NEW t \in Requesters,
           task' = [task EXCEPT ![t] = [Resting EXCEPT !.pc = "lock", !.late = warned]]
    PROVE  /\ task' \in [Requesters -> TaskStates]
           /\ task'[t].pc = "lock" /\ task'[t].end = "none" /\ ~task'[t].answered
           /\ task'[t].heard = "none" /\ task'[t].late = warned
           /\ \A u \in Requesters : u # t => task'[u] = task[u]
<1> DEFINE r == [Resting EXCEPT !.pc = "lock", !.late = warned]
<1>1. Resting \in TaskStates
  BY DEF Resting, TaskStates, Ends
<1>2. warned \in BOOLEAN
  BY DEF Types
<1>3. r \in TaskStates
  BY <1>1, <1>2 DEF TaskStates
<1>4. /\ r.pc = "lock" /\ r.end = "none" /\ r.answered = FALSE
      /\ r.heard = "none" /\ r.late = warned
  <2>1. /\ r.pc = "lock" /\ r.late = warned /\ r.end = Resting.end
        /\ r.answered = Resting.answered /\ r.heard = Resting.heard
    BY <1>1, <1>2 DEF TaskStates
  <2>2. Resting.end = "none" /\ Resting.answered = FALSE /\ Resting.heard = "none"
    BY DEF Resting
  <2> QED
    BY <2>1, <2>2
<1> HIDE DEF r
<1>5. task' = [task EXCEPT ![t] = r]
  BY DEF r
<1>6. task'[t] = r /\ \A u \in Requesters : u # t => task'[u] = task[u]
  BY <1>5 DEF Types
<1>7. task' \in [Requesters -> TaskStates]
  BY <1>3, <1>5 DEF Types
<1> QED
  BY <1>4, <1>6, <1>7

\* A request that moves on.
LEMMA MoveEffect ==
    ASSUME Types, NEW t \in Requesters, NEW place \in Places,
           task' = [task EXCEPT ![t] = [@ EXCEPT !.pc = place]]
    PROVE  /\ task' \in [Requesters -> TaskStates]
           /\ task'[t].pc = place /\ task'[t].end = task[t].end
           /\ task'[t].answered = task[t].answered
           /\ task'[t].heard = task[t].heard /\ task'[t].late = task[t].late
           /\ \A u \in Requesters : u # t => task'[u] = task[u]
<1> DEFINE r == [task[t] EXCEPT !.pc = place]
<1>1. task[t] \in TaskStates
  BY DEF Types
<1>2. /\ r \in TaskStates /\ r.pc = place /\ r.end = task[t].end
      /\ r.answered = task[t].answered /\ r.heard = task[t].heard /\ r.late = task[t].late
  BY <1>1 DEF TaskStates, Places
<1> HIDE DEF r
<1>3. task' = [task EXCEPT ![t] = r]
  BY DEF r
<1>4. task'[t] = r /\ \A u \in Requesters : u # t => task'[u] = task[u]
  BY <1>3 DEF Types
<1>5. task' \in [Requesters -> TaskStates]
  BY <1>2, <1>3 DEF Types
<1> QED
  BY <1>2, <1>4, <1>5

\* A request that is over leaves the lock.
LEMMA EndedEffect ==
    ASSUME Types, NEW t \in Requesters, NEW end \in Ends, NEW answered \in BOOLEAN,
           NEW heard \in {"none", "success", "refusal", "server"},
           Ended(t, end, answered, heard)
    PROVE  /\ task' \in [Requesters -> TaskStates]
           /\ task'[t].pc = "idle" /\ task'[t].end = end
           /\ task'[t].answered = answered
           /\ task'[t].heard = heard /\ task'[t].late = task[t].late
           /\ \A u \in Requesters : u # t => task'[u] = task[u]
           /\ refreshQ' \in Seq(Requesters)
           /\ warned' \in BOOLEAN /\ (warned' <=> warned \/ end = "final")
           /\ NoneTwice(refreshQ) =>
                 /\ NoneTwice(refreshQ')
                 /\ Queued(refreshQ') = Queued(refreshQ) \ {t}
                 /\ \A u : u # t /\ Holds(refreshQ, u) => Holds(refreshQ', u)
<1> DEFINE r == [task[t] EXCEPT !.pc = "idle", !.end = end, !.answered = answered,
                                !.heard = heard]
<1>1. task[t] \in TaskStates
  BY DEF Types
<1>2. r \in TaskStates
  BY <1>1 DEF TaskStates
<1>3. /\ r.pc = "idle" /\ r.end = end /\ r.answered = answered
      /\ r.heard = heard /\ r.late = task[t].late
  BY <1>1 DEF TaskStates
<1> HIDE DEF r
<1>4. task' = [task EXCEPT ![t] = r]
  BY DEF Ended, r
<1>5. task'[t] = r /\ \A u \in Requesters : u # t => task'[u] = task[u]
  BY <1>4 DEF Types
<1>6. task' \in [Requesters -> TaskStates]
  BY <1>2, <1>4 DEF Types
<1>7. refreshQ \in Seq(Requesters)
  BY DEF Types
<1>8. CASE t \in Queued(refreshQ)
  <2>1. refreshQ' = Leave(refreshQ, t)
    BY <1>8 DEF Ended
  <2>2. refreshQ' \in Seq(Requesters)
    BY <2>1, <1>7, <1>8, LeaveType
  <2>3. NoneTwice(refreshQ) =>
                 /\ NoneTwice(refreshQ')
                 /\ Queued(refreshQ') = Queued(refreshQ) \ {t}
                 /\ \A u : u # t /\ Holds(refreshQ, u) => Holds(refreshQ', u)
    BY <2>1, <1>7, <1>8, LeaveQueued
  <2> QED
    BY <1>3, <1>5, <1>6, <2>2, <2>3 DEF Ended, Types
<1>9. CASE t \notin Queued(refreshQ)
  <2>1. refreshQ' = refreshQ
    BY <1>9 DEF Ended
  <2>2. Queued(refreshQ) \ {t} = Queued(refreshQ)
    BY <1>9
  <2> QED
    BY <1>3, <1>5, <1>6, <1>7, <2>1, <2>2 DEF Ended, Types
<1> QED
  BY <1>8, <1>9

\* What each step says of the request it ends, and that what it says is true
\* of the answer it had (_refuse_unusable_token_response marks its errors).
LEMMA DeniedEnd ==
    ASSUME NEW a \in Answers, ~Kept(a),
           NEW end, end = IF Refused(a) \/ ErrorBody(a)
                          THEN IF Final(a) THEN "final" ELSE "retry"
                          ELSE "raised"
    PROVE  /\ end \in {"final", "retry", "raised"} /\ Refused(a) \in BOOLEAN
           /\ a.status \in {"success", "refusal", "server"}
           /\ end \in {"final", "retry"} => Refused(a)
           /\ a.status = "refusal" => end \in {"final", "retry"}
           /\ end = "final" => a.body = "invalidGrant"
<1>1. /\ a.status \in {"success", "refusal", "server"}
      /\ a.body \in {"notJson", "error", "invalidGrant", "token"}
  BY DEF Answers
<1>2. end \in {"final", "retry"} => Refused(a)
  BY <1>1 DEF Refused, ErrorBody
<1>3. a.status = "refusal" => Refused(a)
  BY <1>1 DEF Refused
<1>4. Refused(a) \in BOOLEAN
  BY <1>1 DEF Refused
<1> QED
  BY <1>1, <1>2, <1>3, <1>4 DEF Final

----------------------------------------------------------------------------
\* Types

\* The first state has them.
LEMMA InitTypes == Init => Types
<1> SUFFICES ASSUME Init PROVE Types
  OBVIOUS
<1>1. value \in Stored /\ safe \in Stored
  BY StoresAssumption DEF Init
<1>2. CallTypes
  BY NothingTypes DEF Init, Register!NoCall, CallTypes, CallStates
<1>3. Resting \in TaskStates
  BY DEF Resting, TaskStates, Ends
<1>4. task \in [Requesters -> TaskStates]
  BY <1>3 DEF Init
<1>5. issued \in 0 .. MaxToken /\ logins \in 0 .. MaxLogin
  BY Bounds DEF Init
<1>6. granted \in [1 .. MaxLogin -> Int] /\ refreshQ \in Seq(Requesters)
  BY DEF Init, Unlocked
<1> QED
  BY <1>1, <1>2, <1>4, <1>5, <1>6, NothingTypes DEF Init, Types

\* A process that goes down has them.
LEMMA DownTypes ==
    ASSUME Types, Down, value' \in Stored, safe' \in Stored, CallTypes'
    PROVE  Types'
<1>1. Resting \in TaskStates
  BY DEF Resting, TaskStates, Ends
<1>2. task' \in [Requesters -> TaskStates]
  BY <1>1 DEF Down
<1>3. refreshQ' \in Seq(Requesters)
  BY DEF Down, Unlocked
<1> QED
  BY <1>2, <1>3, NothingTypes DEF Down, Types, venueVars

\* The steps of a process between requests keep them.
LEMMA ClientTypes ==
    ASSUME Types,
           \/ Build \/ (\E a \in Answers : Exchange(a))
           \/ LoginStored \/ LoginWriteRaises
           \/ StoreStep \/ Crash \/ PowerLoss \/ Tick
    PROVE  Types'
<1>1. ASSUME Build PROVE Types'
  <2>1. value.token \in Token /\ value.created \in Int
    BY StoredFields DEF Types
  <2>2. session' \in Token /\ meta' \in [token : Token, created : Int]
    BY <1>1, <2>1, ForSessionEffect DEF Build, Types
  <2>3. CallTypes'
    BY <1>1 DEF Build, storeVars, Types, CallTypes
  <2> QED
    BY <1>1, <2>2, <2>3 DEF Build, storeVars, venueVars, Types
<1>2. ASSUME NEW a \in Answers, Exchange(a) PROVE Types'
  <2> DEFINE x == [id |-> issued + 1, login |-> logins + 1, exp |-> a.offer.exp,
                   typ |-> a.offer.typ, refresh |-> a.offer.refresh]
             s == [shape |-> "whole", token |-> x, created |-> clock]
  <2>1. Kept(a) /\ issued < MaxToken /\ logins < MaxLogin
    BY <1>2 DEF Exchange
  <2>2. x \in Token
    BY <2>1, LoginToken
  <2>3. session' = x /\ meta' = [token |-> x, created |-> clock] /\ Register!Ask(Process, s)
    BY <1>2, Zenon DEF Exchange
  <2> HIDE DEF x
  <2>4. clock \in Int
    BY DEF Types
  <2>5. s \in Stored
    BY <2>2, <2>4 DEF Stored, Shapes
  <2> HIDE DEF s
  <2>6. UNCHANGED <<value, safe>> /\ CallTypes'
    BY <2>3, <2>5, AskEffect DEF Types
  <2>7. issued' \in 0 .. MaxToken /\ logins' \in 0 .. MaxLogin
    BY <1>2, <2>1, Bounds DEF Exchange, Types
  <2>8. granted' \in [1 .. MaxLogin -> Int]
    BY <1>2, <2>4 DEF Exchange, Types
  <2>9. session' \in Token /\ meta' \in [token : Token, created : Int]
    BY <2>2, <2>3, <2>4
  <2> QED
    BY <1>2, <2>6, <2>7, <2>8, <2>9 DEF Exchange, Types
<1>3. ASSUME LoginStored PROVE Types'
  BY <1>3, AckEffect DEF LoginStored, venueVars, Types, NoWrite
<1>4. ASSUME LoginWriteRaises PROVE Types'
  BY <1>4, AbandonEffect DEF LoginWriteRaises, venueVars, Types, NoWrite
<1>5. ASSUME StoreStep PROVE Types'
  <2>1. CASE Register!Put(Process)
    <3>1. call[Process].token \in Stored
      BY DEF Types, CallTypes
    <3> QED
      BY <1>5, <2>1, <3>1, PutEffect DEF StoreStep, venueVars, Types
  <2>2. CASE Register!Keep(Process)
    BY <1>5, <2>2, KeepEffect DEF StoreStep, venueVars, Types
  <2>3. CASE Register!Settle
    BY <1>5, <2>3 DEF Register!Settle, StoreStep, venueVars, Types, CallTypes
  <2> QED
    BY <1>5, <2>1, <2>2, <2>3 DEF StoreStep
<1>6. ASSUME Crash PROVE Types'
  <2>1. CASE Writing
    BY <1>6, <2>1, AbandonEffect, DownTypes DEF Crash, Types, NoWrite
  <2>2. CASE ~Writing
    <3>1. UNCHANGED <<value, safe, call>> /\ Down
      BY <1>6, <2>2 DEF Crash
    <3>2. CallTypes'
      BY <3>1 DEF Types, CallTypes
    <3> QED
      BY <3>1, <3>2, DownTypes DEF Types
  <2> QED
    BY <2>1, <2>2
<1>7. ASSUME PowerLoss PROVE Types'
  BY <1>7, PowerEffect, DownTypes DEF PowerLoss, Types, NoWrite
<1>8. ASSUME Tick PROVE Types'
  BY <1>8 DEF Tick, storeVars, venueVars, Types, CallTypes
<1> QED
  BY <1>1, <1>2, <1>3, <1>4, <1>5, <1>6, <1>7, <1>8

\* So do those of a request.
LEMMA RequestTypes ==
    ASSUME Types, session.refresh \in {"live", "none"}, NEW t \in Requesters,
           QueueInv,
           \/ Call(t) \/ Check(t) \/ EndpointFails(t)
           \/ (\E a \in Answers : Denied(t, a) \/ Renewed(t, a))
           \/ WriteReturns(t) \/ WriteRaises(t) \/ Send(t) \/ Cancel(t)
    PROVE  Types'
<1> DEFINE Rest ==
      /\ value' \in Stored /\ safe' \in Stored /\ CallTypes'
      /\ clock' \in Nat /\ proc' \in {"down", "loggingIn", "up"}
      /\ session' \in Token /\ meta' \in [token : Token, created : Int]
      /\ issued' \in 0 .. MaxToken /\ logins' \in 0 .. MaxLogin
      /\ granted' \in [1 .. MaxLogin -> Int] /\ torn' \in BOOLEAN
<1>a. "none" \in Ends /\ "ok" \in Ends /\ "final" \in Ends /\ "retry" \in Ends /\ "raised" \in Ends
  BY DEF Ends
<1>b. UNCHANGED storeVars => CallTypes'
  BY DEF storeVars, Types, CallTypes
<1>c. refreshQ \in Seq(Requesters)
  BY DEF Types
<1>d. ASSUME refreshQ' = Leave(refreshQ, t), task[t].pc \in {"lock", "refreshing", "writing"}
      PROVE  refreshQ' \in Seq(Requesters)
  <2>1. t \in Queued(refreshQ)
    BY <1>d DEF QueueInv
  <2> QED
    BY <2>1, <1>c, <1>d, LeaveType
<1>1. ASSUME Call(t) PROVE Types'
  <2>1. task' \in [Requesters -> TaskStates]
    BY <1>1, StartEffect DEF Call
  <2>2. refreshQ' \in Seq(Requesters)
    BY <1>1, <1>c, JoinQueued DEF Call
  <2> QED
    BY <1>1, <2>1, <2>2, <1>b DEF Call, storeVars, venueVars, Types
<1>2. ASSUME Check(t) PROVE Types'
  <2>1. Rest
    BY <1>2, <1>b DEF Check, storeVars, venueVars, Types
  <2>2. CASE ~NeedsRefresh
    <3>1. /\ task' = [task EXCEPT ![t] = [@ EXCEPT !.pc = "send"]]
          /\ refreshQ' = Leave(refreshQ, t) /\ warned' = warned
      BY <1>2, <2>2 DEF Check
    <3>2. task' \in [Requesters -> TaskStates]
      BY <3>1, MoveEffect DEF Places
    <3>3. refreshQ' \in Seq(Requesters)
      BY <3>1, <1>2, <1>d DEF Check
    <3> QED
      BY <2>1, <3>1, <3>2, <3>3 DEF Types
  <2>3. CASE NeedsRefresh /\ session.refresh = "live"
    <3>1. /\ task' = [task EXCEPT ![t] = [@ EXCEPT !.pc = "refreshing"]]
          /\ UNCHANGED <<refreshQ, warned>>
      BY <1>2, <2>3 DEF Check
    <3>2. task' \in [Requesters -> TaskStates]
      BY <3>1, MoveEffect DEF Places
    <3> QED
      BY <2>1, <3>1, <3>2 DEF Types
  <2>4. CASE Ended(t, "final", FALSE, "none")
    BY <2>1, <2>4, <1>a, EndedEffect DEF Types
  <2> QED
    BY <1>2, <2>2, <2>3, <2>4 DEF Check
<1>3. ASSUME EndpointFails(t) PROVE Types'
  <2>1. Rest
    BY <1>3, <1>b DEF EndpointFails, storeVars, venueVars, Types
  <2> QED
    BY <2>1, <1>3, <1>a, EndedEffect DEF EndpointFails, Types
<1>4. ASSUME NEW a \in Answers, Denied(t, a) PROVE Types'
  <2>1. Rest
    BY <1>4, <1>b DEF Denied, storeVars, Types
  <2>2. PICK end : end = IF Refused(a) \/ ErrorBody(a)
                         THEN IF Final(a) THEN "final" ELSE "retry"
                         ELSE "raised"
    OBVIOUS
  <2>3. Ended(t, end, Refused(a), a.status) /\ ~Kept(a)
    BY <1>4, <2>2 DEF Denied
  <2>4. end \in Ends /\ Refused(a) \in BOOLEAN /\ a.status \in {"none", "success", "refusal", "server"}
    BY <2>2, <2>3, DeniedEnd DEF Ends
  <2> QED
    BY <2>1, <2>3, <2>4, EndedEffect DEF Types
<1>5. ASSUME NEW a \in Answers, Renewed(t, a) PROVE Types'
  <2>1. PICK x : x = Received(a.offer, session.login)
    OBVIOUS
  <2>2. Kept(a) /\ issued < MaxToken /\ session' = x /\ Register!Ask(Process, Wrapped(x))
    BY <1>5, <2>1 DEF Renewed
  <2>3. x \in Token
    BY <2>1, <2>2, ReceivedToken
  <2>4. Wrapped(x) \in Stored
    BY <2>3 DEF Wrapped, Stored, Shapes, Types
  <2>5. UNCHANGED <<value, safe>> /\ CallTypes'
    BY <2>2, <2>4, AskEffect DEF Types
  <2>6. issued' \in 0 .. MaxToken
    BY <1>5, Bounds DEF Renewed, Types
  <2>7. task' \in [Requesters -> TaskStates]
    BY <1>5, MoveEffect DEF Renewed, Places
  <2> QED
    BY <1>5, <2>2, <2>3, <2>5, <2>6, <2>7 DEF Renewed, Types
<1>6. ASSUME WriteReturns(t) PROVE Types'
  <2>1. UNCHANGED <<value, safe>> /\ CallTypes'
    BY <1>6, AckEffect DEF WriteReturns, NoWrite, Types
  <2>2. PICK x : x = call[Process].token.token
    OBVIOUS
  <2>3. x \in Token
    BY <2>2, StoredFields DEF Types, CallTypes
  <2>4. meta' = Remembered(x)
    BY <1>6, <2>2 DEF WriteReturns
  <2>5. meta' \in [token : Token, created : Int]
    BY <2>3, <2>4 DEF Remembered, Types
  <2>6. task' \in [Requesters -> TaskStates]
    BY <1>6, MoveEffect DEF WriteReturns, Places
  <2>7. refreshQ' \in Seq(Requesters)
    BY <1>6, <1>d DEF WriteReturns
  <2> QED
    BY <1>6, <2>1, <2>5, <2>6, <2>7 DEF WriteReturns, venueVars, Types
<1>7. ASSUME WriteRaises(t) PROVE Types'
  <2>1. UNCHANGED <<value, safe>> /\ CallTypes'
    BY <1>7, AbandonEffect DEF WriteRaises, NoWrite, Types
  <2>2. Rest
    BY <1>7, <2>1 DEF WriteRaises, venueVars, Types
  <2> QED
    BY <2>2, <1>7, <1>a, EndedEffect DEF WriteRaises, Types
<1>8. ASSUME Send(t) PROVE Types'
  <2>1. Rest
    BY <1>8, <1>b DEF Send, storeVars, venueVars, Types
  <2>2. PICK end \in Ends : end = IF session.typ = "bearer" THEN "ok" ELSE Unsendable
    BY <1>a DEF Unsendable
  <2>3. task[t].heard \in {"none", "success", "refusal", "server"}
    BY DEF Types, TaskStates
  <2>4. Ended(t, end, FALSE, task[t].heard)
    BY <1>8, <2>2 DEF Send
  <2> QED
    BY <2>1, <2>3, <2>4, EndedEffect DEF Types
<1>9. ASSUME Cancel(t) PROVE Types'
  <2>1. Rest
    BY <1>9, <1>b DEF Cancel, storeVars, venueVars, Types
  <2> QED
    BY <2>1, <1>9, <1>a, EndedEffect DEF Cancel, Types
<1> QED
  BY <1>1, <1>2, <1>3, <1>4, <1>5, <1>6, <1>7, <1>8, <1>9

----------------------------------------------------------------------------
\* Time, logins and tokens only become more

Grows ==
    /\ clock' >= clock /\ issued' >= issued /\ logins' >= logins
    /\ \A l \in 1 .. logins : granted'[l] = granted[l]

\* Every step.
LEMMA StepGrows ==
    ASSUME Types, [Next]_vars PROVE Grows
<1>1. clock \in Int /\ issued \in Int /\ logins \in Int
  BY DEF Types
<1>2. CASE UNCHANGED <<clock, issued, logins, granted>>
  BY <1>1, <1>2 DEF Grows
<1>3. ASSUME NEW a \in Answers, Exchange(a) PROVE Grows
  <2>1. \A l \in 1 .. logins : l # logins + 1
    BY <1>1
  <2> QED
    BY <1>1, <1>3, <2>1 DEF Exchange, Grows, Types
<1>4. ASSUME Tick PROVE Grows
  BY <1>1, <1>4 DEF Tick, venueVars, Grows
<1>5. ASSUME NEW t, NEW a, Renewed(t, a) PROVE Grows
  BY <1>1, <1>5 DEF Renewed, Grows
<1>6. \/ UNCHANGED <<clock, issued, logins, granted>>
      \/ (\E a \in Answers : Exchange(a)) \/ Tick
      \/ \E t \in Requesters, a \in Answers : Renewed(t, a)
  BY DEF Next, vars, venueVars, Build, LoginStored, LoginWriteRaises, Call, Check,
         EndpointFails, Denied, WriteReturns, WriteRaises, Send, Cancel, StoreStep,
         Crash, PowerLoss, Down
<1> QED
  BY <1>2, <1>3, <1>4, <1>5, <1>6

\* What holds of a token goes on holding.
LEMMA TokenStays ==
    ASSUME Types, Types', Grows, NEW x \in Token, NEW c
    PROVE  /\ Good(x) => Good(x)'
           /\ Known(x) => Known(x)'
           /\ Known(x) /\ Dated(x, c) => Dated(x, c)'
           /\ ActsOn(x.exp) => ActsOn(x.exp)'
<1>1. /\ clock \in Nat /\ clock' \in Nat /\ clock' >= clock /\ Longest \in Nat
      /\ issued \in Nat /\ issued' \in Nat /\ issued' >= issued
      /\ logins \in Nat /\ logins' \in Nat /\ logins' >= logins
  BY Bounds DEF Types, Grows
<1>2. x.id \in Nat /\ x.login \in Nat /\ x.exp \in Int
  BY TokenFields
<1>3. ActsOn(x.exp) => ActsOn(x.exp)'
  BY <1>1, <1>2 DEF ActsOn
<1>4. Known(x) => Known(x)'
  BY <1>1, <1>2 DEF Known
<1>5. Known(x) /\ Dated(x, c) => Dated(x, c)'
  <2>1. Known(x) /\ x.login # 0 => x.login \in 1 .. logins
    BY <1>1, <1>2 DEF Known
  <2> QED
    BY <2>1 DEF Dated, Grows
<1> QED
  BY <1>3, <1>4, <1>5 DEF Good

\* And of what is stored.
LEMMA SoundStays ==
    ASSUME Types, Types', Grows, NEW s \in Stored, Sound(s)
    PROVE  Sound(s)'
<1>1. s.token \in Token
  BY StoredFields
<1> QED
  BY <1>1, TokenStays DEF Sound

\* Nothing is sound.
LEMMA NothingSound ==
    ASSUME Types PROVE Sound(NoStore)
<1>1. issued >= 0 /\ logins >= 0
  BY DEF Types
<1> QED
  BY <1>1 DEF NoStore, NoToken, Sound, Good, Known, Dated

----------------------------------------------------------------------------
\* What is stored

\* A step stores what is stored already, or being written, or nothing; only a
\* login and a refresh have something new written.
LEMMA StoreMoves ==
    ASSUME Types, [Next]_vars
    PROVE  /\ value' \in {value, safe, call[Process].token}
           /\ safe' \in {safe, value}
           /\ \/ call'[Process].token \in {call[Process].token, NoStore}
              \/ \E a \in Answers : Exchange(a)
              \/ \E t \in Requesters, a \in Answers : Renewed(t, a)
<1> DEFINE P == /\ value' \in {value, safe, call[Process].token}
                /\ safe' \in {safe, value}
                /\ \/ call'[Process].token \in {call[Process].token, NoStore}
                   \/ \E a \in Answers : Exchange(a)
                   \/ \E t \in Requesters, a \in Answers : Renewed(t, a)
<1>1. CallTypes
  BY DEF Types
<1>2. CASE UNCHANGED storeVars
  BY <1>2 DEF storeVars
<1>3. ASSUME Register!Put(Process) \/ Register!Keep(Process) \/ Register!Settle
             \/ Register!Ack(Process) \/ Register!Abandon(Process)
             \/ Register!PowerLoss
      PROVE  P
  BY <1>1, <1>3, PutEffect, KeepEffect, AckEffect, AbandonEffect, PowerEffect
     DEF Register!Settle, NoWrite
<1>4. ASSUME (\E a \in Answers : Exchange(a))
             \/ (\E t \in Requesters, a \in Answers : Renewed(t, a))
      PROVE  P
  BY <1>4 DEF Exchange, Renewed, Register!Ask
<1>5. \/ UNCHANGED storeVars
      \/ Register!Put(Process) \/ Register!Keep(Process) \/ Register!Settle
      \/ Register!Ack(Process) \/ Register!Abandon(Process) \/ Register!PowerLoss
      \/ (\E a \in Answers : Exchange(a))
      \/ \E t \in Requesters, a \in Answers : Renewed(t, a)
  BY DEF Next, vars, storeVars, Build, LoginStored, LoginWriteRaises, Call, Check,
         EndpointFails, Denied, WriteReturns, WriteRaises, Send, Cancel, StoreStep,
         Crash, PowerLoss, Tick
<1> QED
  BY <1>2, <1>3, <1>4, <1>5

\* What a login has written is sound.
LEMMA LoginSound ==
    ASSUME Types, Types', NEW a \in Answers, Exchange(a)
    PROVE  /\ Sound(call[Process].token)'
           /\ Good(session)' /\ Known(session)' /\ session'.typ = "bearer"
           /\ session' = call'[Process].token.token /\ meta'.token = session'
           /\ meta'.created = clock' /\ Dated(session, clock)'
           /\ ActsOn(session.exp)' /\ session'.refresh \in {"live", "none"}
           /\ session'.id = issued'
           /\ ~Writing /\ call'[Process].st = "asked"
<1>1. Kept(a) /\ issued < MaxToken /\ logins < MaxLogin
  BY DEF Exchange
<1>2. PICK x : x = [id |-> issued + 1, login |-> logins + 1,
                    exp |-> a.offer.exp, typ |-> a.offer.typ,
                    refresh |-> a.offer.refresh]
  OBVIOUS
<1>3. /\ x \in Token /\ x.id = issued + 1 /\ x.login = logins + 1
      /\ x.typ = "bearer" /\ ActsOn(x.exp) /\ x.refresh \in {"live", "none"}
  BY <1>1, <1>2, LoginToken
<1>4. PICK c : c = clock
  OBVIOUS
<1>5. PICK s : s = [shape |-> "whole", token |-> x, created |-> c]
  OBVIOUS
<1>6. session' = x /\ meta' = [token |-> x, created |-> c] /\ Register!Ask(Process, s)
  BY <1>2, <1>4, <1>5, Zenon DEF Exchange
<1>7. s.token = x /\ s.created = c /\ s.shape = "whole"
  BY <1>5
<1>8. s \in Stored
  BY <1>3, <1>4, <1>5 DEF Stored, Shapes, Types
<1>9. ~Writing /\ call'[Process].st = "asked" /\ call'[Process].token = s
  BY <1>6, <1>8, AskEffect DEF Types
<1>10. issued' = issued + 1 /\ logins' = logins + 1 /\ clock' = clock /\ granted'[logins + 1] = c
  BY <1>1, <1>4, Bounds DEF Exchange, Types
<1>11. ActsOn(x.exp)' /\ Good(x)' /\ Known(x)' /\ Dated(x, c)'
  BY <1>3, <1>10 DEF Good, Known, Dated, ActsOn, Types
<1>12. Sound(s)'
  BY <1>7, <1>11 DEF Sound
<1>13. Sound(call[Process].token)'
  BY <1>9, <1>12 DEF Sound, Good, Known, Dated, ActsOn
<1>14. Good(session)' /\ Known(session)' /\ Dated(session, clock)' /\ ActsOn(session.exp)'
  BY <1>4, <1>6, <1>10, <1>11 DEF Good, Known, Dated, ActsOn
<1> QED
  BY <1>3, <1>4, <1>6, <1>7, <1>9, <1>10, <1>13, <1>14

\* So is what a refresh has written, which is of the login of the session.
LEMMA RefreshSound ==
    ASSUME Types, Types', ClientInv, NEW t \in Requesters, NEW a \in Answers,
           Renewed(t, a)
    PROVE  /\ Sound(call[Process].token)'
           /\ Good(session)' /\ Known(session)'
           /\ session' = call'[Process].token.token
           /\ session'.login = session.login
           /\ ActsOn(session.exp)' /\ session'.refresh \in {"live", "none"}
           /\ session'.id = issued + 1
           /\ ~Writing /\ call'[Process].st = "asked"
<1>1. Kept(a) /\ issued < MaxToken
  BY DEF Renewed
<1>2. PICK x : x = Received(a.offer, session.login)
  OBVIOUS
<1>3. /\ x \in Token /\ x.id = issued + 1 /\ x.login = session.login
      /\ x.typ = "bearer" /\ ActsOn(x.exp) /\ x.refresh \in {"live", "none"}
  BY <1>1, <1>2, ReceivedToken DEF ClientInv
<1>4. PICK c : c = meta.created
  OBVIOUS
<1>5. PICK s : s = [shape |-> "whole", token |-> x, created |-> c]
  OBVIOUS
<1>6. session' = x /\ Register!Ask(Process, s)
  BY <1>2, <1>4, <1>5 DEF Renewed, Wrapped
<1>7. s.token = x /\ s.created = c /\ s.shape = "whole"
  BY <1>5
<1>8. s \in Stored
  BY <1>3, <1>4, <1>5 DEF Stored, Shapes, Types
<1>9. ~Writing /\ call'[Process].st = "asked" /\ call'[Process].token = s
  BY <1>6, <1>8, AskEffect DEF Types
<1>10. /\ issued' = issued + 1 /\ logins' = logins /\ clock' = clock
       /\ granted' = granted
  BY DEF Renewed
<1>11. ActsOn(x.exp)' /\ Good(x)' /\ Known(x)'
  BY <1>3, <1>10 DEF Good, Known, ActsOn, Types, ClientInv
<1>12. Dated(x, c)'
  BY <1>3, <1>4, <1>10 DEF Dated, ClientInv
<1>13. Sound(s)'
  BY <1>7, <1>11, <1>12 DEF Sound
<1>14. Sound(call[Process].token)'
  BY <1>9, <1>13 DEF Sound, Good, Known, Dated, ActsOn
<1>15. Good(session)' /\ Known(session)' /\ ActsOn(session.exp)'
  BY <1>6, <1>10, <1>11 DEF Good, Known, ActsOn
<1> QED
  BY <1>3, <1>6, <1>7, <1>9, <1>14, <1>15

\* The store stays sound.
LEMMA StepStore ==
    ASSUME Types, Types', StoreInv, ClientInv, [Next]_vars
    PROVE  StoreInv'
<1>1. Grows
  BY StepGrows
<1>2. /\ value \in Stored /\ safe \in Stored /\ call[Process].token \in Stored
  BY DEF Types, CallTypes
<1>3. \A s \in {value, safe, call[Process].token, NoStore} : Sound(s)'
  <2>1. ASSUME NEW s \in Stored, s \in {value, safe, call[Process].token, NoStore}
        PROVE  Sound(s)'
    <3>1. Sound(s)
      BY <2>1, NothingSound DEF StoreInv
    <3> QED
      BY <1>1, <3>1, SoundStays
  <2> QED
    BY <1>2, <2>1, NothingTypes
<1>4. Sound(value)' /\ Sound(safe)'
  BY <1>3, StoreMoves DEF Sound, Good, Known, Dated, ActsOn
<1>5. Sound(call[Process].token)'
  <2>1. CASE call'[Process].token \in {call[Process].token, NoStore}
    BY <1>3, <2>1 DEF Sound, Good, Known, Dated, ActsOn
  <2>2. CASE \E a \in Answers : Exchange(a)
    BY <2>2, LoginSound
  <2>3. CASE \E t \in Requesters, a \in Answers : Renewed(t, a)
    BY <2>3, RefreshSound
  <2> QED
    BY <2>1, <2>2, <2>3, StoreMoves
<1> QED
  BY <1>4, <1>5 DEF StoreInv

----------------------------------------------------------------------------
\* What the client holds

\* What a step makes of the session and the metadata: nothing; or a client is
\* built on the store, logged in, refreshed, told that its token is stored, or
\* gone.
LEMMA ClientMoves ==
    ASSUME Types, [Next]_vars
    PROVE  \/ UNCHANGED <<session, meta>>
           \/ Build
           \/ \E a \in Answers : Exchange(a)
           \/ \E t \in Requesters, a \in Answers : Renewed(t, a)
           \/ \E t \in Requesters : WriteReturns(t)
           \/ Down
BY DEF Next, vars, LoginStored, LoginWriteRaises, Call, Check, EndpointFails,
       Denied, WriteRaises, Send, Cancel, StoreStep, Crash, PowerLoss, Tick

\* What it holds stays usable, known and dated.
LEMMA StepClient ==
    ASSUME Types, Types', StoreInv, ClientInv, WriteInv, [Next]_vars,
           \A t \in Requesters : task[t].pc # "idle" => proc = "up"
    PROVE  ClientInv'
<1>1. Grows
  BY StepGrows
<1>2. session \in Token /\ meta.token \in Token
  BY DEF Types
<1>3. PICK x \in Token : x = session
  BY <1>2
<1>4. PICK m \in Token : m = meta.token
  BY <1>2
<1>5. PICK c : c = meta.created
  OBVIOUS
<1>6. /\ Good(x) /\ Known(x) /\ (x.refresh = "live" => ActsOn(x.exp))
      /\ Good(m) /\ Known(m) /\ Dated(m, c)
  BY <1>3, <1>4, <1>5 DEF ClientInv
<1>7. /\ Good(x)' /\ Known(x)' /\ (x.refresh = "live" => ActsOn(x.exp)')
      /\ Good(m)' /\ Known(m)' /\ Dated(m, c)'
  BY <1>1, <1>6, TokenStays
<1>8. CASE UNCHANGED <<session, meta>>
  BY <1>3, <1>4, <1>5, <1>7, <1>8 DEF ClientInv, Good, Known, Dated, ActsOn
<1>9. ASSUME Build PROVE ClientInv'
  <2>1. PICK v \in Stored : v = value
    BY DEF Types
  <2>2. v.token \in Token /\ Good(v.token) /\ Known(v.token) /\ Dated(v.token, v.created)
    BY <2>1, StoredFields DEF StoreInv, Sound
  <2>3. Good(v.token)' /\ Known(v.token)' /\ Dated(v.token, v.created)'
    BY <1>1, <2>2, TokenStays
  <2>4. PICK y : y = ForSession(v.token)
    OBVIOUS
  <2>5. /\ y \in Token /\ y.id = v.token.id /\ y.login = v.token.login
        /\ y.refresh \in {"live", "none"} /\ (y.refresh = "live" => ActsOn(y.exp))
        /\ Good(y) /\ Known(y)
    BY <2>2, <2>4, ForSessionEffect DEF Types, Known
  <2>6. Good(y)' /\ Known(y)' /\ (y.refresh = "live" => ActsOn(y.exp)')
    BY <1>1, <2>5, TokenStays
  <2>7. session' = y /\ meta' = [token |-> v.token, created |-> v.created]
    BY <1>9, <2>1, <2>4 DEF Build
  <2> QED
    BY <2>3, <2>5, <2>6, <2>7 DEF ClientInv, Good, Known, Dated, ActsOn
<1>10. ASSUME NEW a \in Answers, Exchange(a) PROVE ClientInv'
  BY <1>10, LoginSound DEF ClientInv, Good, Known, Dated, ActsOn
<1>11. ASSUME NEW t \in Requesters, NEW a \in Answers, Renewed(t, a) PROVE ClientInv'
  <2>1. meta' = meta
    BY <1>11 DEF Renewed
  <2>2. /\ Good(session)' /\ Known(session)' /\ session'.login = session.login
        /\ ActsOn(session.exp)' /\ session'.refresh \in {"live", "none"}
    BY <1>11, RefreshSound
  <2> QED
    BY <1>4, <1>5, <1>7, <2>1, <2>2 DEF ClientInv, Good, Known, Dated, ActsOn
<1>12. ASSUME NEW t \in Requesters, WriteReturns(t) PROVE ClientInv'
  <2>1. Writing
    BY <1>12, AckEffect DEF WriteReturns, Types, Writing
  <2>2. call[Process].token.token = x
    BY <1>3, <1>12, <2>1 DEF WriteReturns, WriteInv
  <2>3. meta'.token = x /\ meta'.created = c /\ session' = x
    BY <1>3, <1>5, <1>12, <2>2 DEF WriteReturns, Remembered, Types
  <2>4. m.login = x.login
    BY <1>3, <1>4 DEF ClientInv
  <2>5. Dated(x, c)'
    BY <1>7, <2>4 DEF Dated
  <2>6. x.refresh \in {"live", "none"}
    BY <1>3 DEF ClientInv
  <2> QED
    BY <1>7, <2>3, <2>5, <2>6 DEF ClientInv, Good, Known, Dated, ActsOn
<1>13. ASSUME Down PROVE ClientInv'
  BY <1>13 DEF Down, venueVars, NoToken, NoMeta, ClientInv, Good, Known, Dated, Types
<1> QED
  BY <1>8, <1>9, <1>10, <1>11, <1>12, <1>13, ClientMoves

----------------------------------------------------------------------------
\* How the client follows its writes

\* A step that leaves the store, the client and its process alone.
Aside == UNCHANGED <<storeVars, proc, session, meta, torn>>

\* What follows a write goes on following it.
LEMMA StepWrite ==
    ASSUME Types, Types', ClientInv, WriteInv, [Next]_vars
    PROVE  WriteInv'
<1>1. CASE Aside
  BY <1>1 DEF Aside, storeVars, WriteInv, Writing, MetaFollowsStore
<1>2. ASSUME Build PROVE WriteInv'
  <2>1. call' = call /\ value' = value /\ ~Writing /\ proc' = "up" /\ ~torn'
    BY <1>2 DEF Build, storeVars
  <2>2. ~Writing'
    BY <2>1 DEF Writing
  <2>3. value.token \in Token
    BY StoredFields DEF Types
  <2>4. session'.id = value.token.id /\ meta'.token = value.token
    BY <1>2, <2>3, ForSessionEffect DEF Build, Types
  <2> QED
    BY <2>1, <2>2, <2>4 DEF WriteInv, Writing, MetaFollowsStore
<1>3. ASSUME NEW a \in Answers, Exchange(a) PROVE WriteInv'
  <2>1. /\ session' = call'[Process].token.token /\ meta'.token = session'
        /\ call'[Process].st = "asked"
    BY <1>3, LoginSound
  <2>2. proc' = "loggingIn" /\ ~torn'
    BY <1>3 DEF Exchange
  <2> QED
    BY <2>1, <2>2 DEF WriteInv, Writing, MetaFollowsStore
<1>4. ASSUME LoginStored PROVE WriteInv'
  <2>1. /\ call[Process].st \in {"put", "kept"} /\ value' = value /\ NoWrite'
        /\ proc = "loggingIn"
    BY <1>4, AckEffect DEF LoginStored, Types
  <2>2. /\ value' = call[Process].token /\ call[Process].token.token = session
        /\ session = meta.token /\ ~torn
    BY <2>1 DEF WriteInv, Writing
  <2>3. UNCHANGED <<session, meta, torn>> /\ proc' = "up"
    BY <1>4 DEF LoginStored
  <2>4. ~Writing' /\ call'[Process].st \notin {"put", "kept"}
    BY <2>1 DEF NoWrite, Writing
  <2>5. meta.token = value'.token
    BY <2>2
  <2> QED
    BY <2>2, <2>3, <2>4, <2>5 DEF WriteInv, MetaFollowsStore
<1>5. ASSUME LoginWriteRaises PROVE WriteInv'
  <2>1. NoWrite' /\ proc' = "down"
    BY <1>5, AbandonEffect DEF LoginWriteRaises, Types
  <2> QED
    BY <2>1 DEF NoWrite, WriteInv, Writing, MetaFollowsStore
<1>6. ASSUME NEW t \in Requesters, NEW a \in Answers, Renewed(t, a) PROVE WriteInv'
  <2>1. /\ session' = call'[Process].token.token /\ session'.id = issued + 1
        /\ call'[Process].st = "asked"
    BY <1>6, RefreshSound
  <2>2. meta' = meta /\ proc' = "up"
    BY <1>6 DEF Renewed, Running
  <2>3. meta.token.id <= issued /\ issued \in Int /\ meta.token.id \in Int
    BY TokenFields DEF Types, ClientInv, Known
  <2>4. session'.id # meta'.token.id
    BY <2>1, <2>2, <2>3
  <2> QED
    BY <2>1, <2>2, <2>4 DEF WriteInv, Writing, MetaFollowsStore
<1>7. ASSUME NEW t \in Requesters, WriteReturns(t) PROVE WriteInv'
  <2>1. /\ call[Process].st \in {"put", "kept"} /\ value' = value /\ NoWrite'
        /\ proc = "up"
    BY <1>7, AckEffect DEF WriteReturns, Types
  <2>2. value' = call[Process].token /\ call[Process].token.token = session
    BY <2>1 DEF WriteInv, Writing
  <2>3. meta'.token = session /\ session' = session /\ ~torn'
    BY <1>7, <2>2 DEF WriteReturns, Remembered, Types
  <2>4. ~Writing' /\ call'[Process].st \notin {"put", "kept"} /\ proc' = "up"
    BY <1>7, <2>1 DEF NoWrite, Writing, WriteReturns
  <2>5. value'.token = session
    BY <2>2
  <2> QED
    BY <2>3, <2>4, <2>5 DEF WriteInv, MetaFollowsStore
<1>8. ASSUME NEW t \in Requesters, WriteRaises(t) PROVE WriteInv'
  <2>1. Writing /\ NoWrite' /\ proc = "up" /\ proc' = "up"
    BY <1>8, AbandonEffect DEF WriteRaises, Types
  <2>2. session.id # meta.token.id
    BY <2>1 DEF WriteInv
  <2>3. UNCHANGED <<session, meta>> /\ torn'
    BY <1>8 DEF WriteRaises
  <2>4. ~Writing' /\ call'[Process].st \notin {"put", "kept"}
    BY <2>1 DEF NoWrite, Writing
  <2> QED
    BY <2>1, <2>2, <2>3, <2>4 DEF WriteInv, MetaFollowsStore
<1>9. ASSUME StoreStep PROVE WriteInv'
  <2>1. UNCHANGED <<proc, session, meta, torn>>
    BY <1>9 DEF StoreStep
  <2>2. CASE Register!Put(Process)
    <3>1. /\ Writing /\ Writing' /\ value' = call'[Process].token
          /\ call'[Process].token = call[Process].token
      BY <2>2, PutEffect DEF Types, Writing
    <3> QED
      BY <2>1, <3>1 DEF WriteInv, MetaFollowsStore
  <2>3. CASE Register!Keep(Process)
    <3>1. /\ call[Process].st = "put" /\ Writing' /\ value' = value
          /\ call'[Process].token = call[Process].token
      BY <2>3, KeepEffect DEF Types, Writing
    <3> QED
      BY <2>1, <3>1 DEF WriteInv, Writing, MetaFollowsStore
  <2>4. CASE Register!Settle
    BY <2>1, <2>4 DEF Register!Settle, WriteInv, Writing, MetaFollowsStore
  <2> QED
    BY <1>9, <2>2, <2>3, <2>4 DEF StoreStep
<1>10. ASSUME Crash PROVE WriteInv'
  <2>1. CASE Writing
    <3>1. NoWrite' /\ proc' = "down"
      BY <1>10, <2>1, AbandonEffect DEF Crash, Down, Types
    <3> QED
      BY <3>1 DEF NoWrite, WriteInv, MetaFollowsStore
  <2>2. CASE ~Writing
    BY <1>10, <2>2 DEF Crash, Down, WriteInv, Writing, MetaFollowsStore
  <2> QED
    BY <2>1, <2>2
<1>11. ASSUME PowerLoss PROVE WriteInv'
  <2>1. NoWrite' /\ proc' = "down"
    BY <1>11, PowerEffect DEF PowerLoss, Down, Types
  <2> QED
    BY <2>1 DEF NoWrite, WriteInv, MetaFollowsStore
<1> QED
  BY <1>1, <1>2, <1>3, <1>4, <1>5, <1>6, <1>7, <1>8, <1>9, <1>10, <1>11
     DEF Next, vars, Aside, Call, Check, EndpointFails, Denied, Send, Cancel, Tick

----------------------------------------------------------------------------
\* The lock

\* A step that starts, builds or ends a process finds no request, or leaves
\* none.
LEMMA NoRequests ==
    ASSUME Types, QueueInv,
           Build \/ (\E a \in Answers : Exchange(a)) \/ LoginStored \/ LoginWriteRaises
           \/ Crash \/ PowerLoss
    PROVE  /\ \A t \in Requesters : task'[t].pc = "idle"
           /\ NoneTwice(refreshQ') /\ Queued(refreshQ') = {}
<1>1. ASSUME Down
      PROVE  /\ \A t \in Requesters : task'[t].pc = "idle"
             /\ NoneTwice(refreshQ') /\ Queued(refreshQ') = {}
  BY <1>1 DEF Down, Resting, Unlocked, NoneTwice, Queued
<1>2. ASSUME proc # "up", UNCHANGED <<task, refreshQ>>
      PROVE  /\ \A t \in Requesters : task'[t].pc = "idle"
             /\ NoneTwice(refreshQ') /\ Queued(refreshQ') = {}
  BY <1>2 DEF QueueInv
<1> QED
  BY <1>1, <1>2 DEF Build, Exchange, LoginStored, LoginWriteRaises, Crash, PowerLoss

\* A request that ends is no longer at the lock, and the others are where they
\* were.
LEMMA EndedQueue ==
    ASSUME Types, QueueInv, NEW t \in Requesters, NEW end \in Ends,
           NEW answered \in BOOLEAN,
           NEW heard \in {"none", "success", "refusal", "server"},
           Ended(t, end, answered, heard), UNCHANGED <<session, clock, proc>>
    PROVE  QueueInv'
<1>1. /\ task'[t].pc = "idle"
      /\ \A u \in Requesters : u # t => task'[u] = task[u]
      /\ NoneTwice(refreshQ')
      /\ Queued(refreshQ') = Queued(refreshQ) \ {t}
      /\ \A u : u # t /\ Holds(refreshQ, u) => Holds(refreshQ', u)
  BY EndedEffect DEF QueueInv
<1>2. Queued(refreshQ') =
        {u \in Requesters : task'[u].pc \in {"lock", "refreshing", "writing"}}
  BY <1>1 DEF QueueInv
<1>3. \A u \in Requesters :
        /\ task'[u].pc \in {"refreshing", "writing"} => Holds(refreshQ', u)
        /\ task'[u].pc = "refreshing" => Expired(session)' /\ session'.refresh = "live"
        /\ task'[u].pc # "idle" => proc' = "up"
  BY <1>1 DEF QueueInv, RefreshDiscipline, Expired
<1> QED
  BY <1>1, <1>2, <1>3 DEF QueueInv, RefreshDiscipline

\* So with one that leaves the lock and goes on to send.
LEMMA SendQueue ==
    ASSUME Types, QueueInv, NEW t \in Requesters,
           task[t].pc \in {"lock", "refreshing", "writing"},
           task' = [task EXCEPT ![t] = [@ EXCEPT !.pc = "send"]],
           refreshQ' = Leave(refreshQ, t), UNCHANGED <<session, clock, proc>>
    PROVE  QueueInv'
<1>1. /\ task'[t].pc = "send"
      /\ \A u \in Requesters : u # t => task'[u] = task[u]
  BY MoveEffect DEF Places
<1>2. t \in Queued(refreshQ) /\ refreshQ \in Seq(Requesters)
  BY DEF QueueInv, Types
<1>3. /\ NoneTwice(refreshQ')
      /\ Queued(refreshQ') = Queued(refreshQ) \ {t}
      /\ \A u : u # t /\ Holds(refreshQ, u) => Holds(refreshQ', u)
  BY <1>2, LeaveQueued DEF QueueInv
<1>4. Queued(refreshQ') =
        {u \in Requesters : task'[u].pc \in {"lock", "refreshing", "writing"}}
  BY <1>1, <1>3 DEF QueueInv
<1>5. \A u \in Requesters :
        /\ task'[u].pc \in {"refreshing", "writing"} => Holds(refreshQ', u)
        /\ task'[u].pc = "refreshing" => Expired(session)' /\ session'.refresh = "live"
        /\ task'[u].pc # "idle" => proc' = "up"
  BY <1>1, <1>3 DEF QueueInv, RefreshDiscipline, Expired
<1> QED
  BY <1>3, <1>4, <1>5 DEF QueueInv, RefreshDiscipline

\* Of the tasks at the lock one at a time holds it, and refreshes.
LEMMA StepQueue ==
    ASSUME Types, Types', ClientInv, QueueInv, [Next]_vars
    PROVE  QueueInv'
<1>a. "none" \in Ends /\ "ok" \in Ends /\ "final" \in Ends /\ "retry" \in Ends /\ "raised" \in Ends
  BY DEF Ends
<1>b. refreshQ \in Seq(Requesters)
  BY DEF Types
<1>1. CASE UNCHANGED <<clock, proc, session, refreshQ, task>>
  BY <1>1 DEF QueueInv, RefreshDiscipline, Expired
<1>2. ASSUME Build \/ (\E a \in Answers : Exchange(a)) \/ LoginStored \/ LoginWriteRaises
             \/ Crash \/ PowerLoss
      PROVE  QueueInv'
  BY <1>2, NoRequests DEF QueueInv, RefreshDiscipline
<1>3. ASSUME Tick PROVE QueueInv'
  <2>1. Expired(session) => Expired(session)'
    <3>1. clock \in Int /\ clock' = clock + 1 /\ session' = session
      BY <1>3 DEF Tick, Types
    <3>2. session.exp \in Int /\ Leeway \in Int
      BY Bounds, TokenFields DEF Types
    <3> QED
      BY <3>1, <3>2 DEF Expired
  <2> QED
    BY <1>3, <2>1 DEF Tick, QueueInv, RefreshDiscipline
<1>4. ASSUME NEW t \in Requesters, Call(t) PROVE QueueInv'
  <2>1. /\ task'[t].pc = "lock"
        /\ \A u \in Requesters : u # t => task'[u] = task[u]
    BY <1>4, StartEffect DEF Call
  <2>2. t \notin Queued(refreshQ) /\ refreshQ' = Join(refreshQ, t)
    BY <1>4 DEF Call, QueueInv
  <2>3. Queued(refreshQ') = Queued(refreshQ) \cup {t}
    BY <1>b, <2>2, JoinQueued
  <2>4. /\ NoneTwice(refreshQ')
        /\ \A u : Holds(refreshQ, u) => Holds(refreshQ', u)
    BY <1>b, <2>2, JoinOrder DEF QueueInv
  <2>5. Queued(refreshQ') =
          {u \in Requesters : task'[u].pc \in {"lock", "refreshing", "writing"}}
    BY <2>1, <2>3 DEF QueueInv
  <2>6. UNCHANGED <<session, clock, proc>> /\ proc = "up"
    BY <1>4 DEF Call, Running
  <2>7. \A u \in Requesters :
          /\ task'[u].pc \in {"refreshing", "writing"} => Holds(refreshQ', u)
          /\ task'[u].pc = "refreshing" => Expired(session)' /\ session'.refresh = "live"
          /\ task'[u].pc # "idle" => proc' = "up"
    BY <2>1, <2>4, <2>6 DEF QueueInv, RefreshDiscipline, Expired
  <2> QED
    BY <2>4, <2>5, <2>7 DEF QueueInv, RefreshDiscipline
<1>5. ASSUME NEW t \in Requesters, Check(t) PROVE QueueInv'
  <2>1. UNCHANGED <<session, clock, proc>>
    BY <1>5 DEF Check
  <2>2. CASE ~NeedsRefresh
    <3>1. /\ task' = [task EXCEPT ![t] = [@ EXCEPT !.pc = "send"]]
          /\ refreshQ' = Leave(refreshQ, t) /\ task[t].pc = "lock"
      BY <1>5, <2>2 DEF Check
    <3> QED
      BY <2>1, <3>1, SendQueue
  <2>3. CASE NeedsRefresh /\ session.refresh = "live"
    <3>1. /\ task' = [task EXCEPT ![t] = [@ EXCEPT !.pc = "refreshing"]]
          /\ refreshQ' = refreshQ /\ task[t].pc = "lock" /\ Holds(refreshQ, t)
          /\ Expired(session)
      BY <1>5, <2>3 DEF Check, NeedsRefresh
    <3>2. /\ task'[t].pc = "refreshing"
          /\ \A u \in Requesters : u # t => task'[u] = task[u]
      BY <3>1, MoveEffect DEF Places
    <3>3. Queued(refreshQ') =
            {u \in Requesters : task'[u].pc \in {"lock", "refreshing", "writing"}}
      BY <3>1, <3>2 DEF QueueInv
    <3>4. \A u \in Requesters :
            /\ task'[u].pc \in {"refreshing", "writing"} => Holds(refreshQ', u)
            /\ task'[u].pc = "refreshing" => Expired(session)' /\ session'.refresh = "live"
            /\ task'[u].pc # "idle" => proc' = "up"
      BY <2>1, <2>3, <3>1, <3>2 DEF QueueInv, RefreshDiscipline, Expired
    <3> QED
      BY <3>1, <3>3, <3>4 DEF QueueInv, RefreshDiscipline
  <2>4. CASE Ended(t, "final", FALSE, "none")
    BY <2>1, <2>4, <1>a, EndedQueue
  <2> QED
    BY <1>5, <2>2, <2>3, <2>4 DEF Check
<1>6. ASSUME NEW t \in Requesters, NEW a \in Answers, Denied(t, a) PROVE QueueInv'
  <2>1. PICK end : end = IF Refused(a) \/ ErrorBody(a)
                         THEN IF Final(a) THEN "final" ELSE "retry"
                         ELSE "raised"
    OBVIOUS
  <2>2. Ended(t, end, Refused(a), a.status) /\ ~Kept(a) /\ UNCHANGED <<session, clock, proc>>
    BY <1>6, <2>1 DEF Denied
  <2>3. end \in Ends /\ Refused(a) \in BOOLEAN /\ a.status \in {"none", "success", "refusal", "server"}
    BY <2>1, <2>2, DeniedEnd DEF Ends
  <2> QED
    BY <2>2, <2>3, EndedQueue
<1>7. ASSUME NEW t \in Requesters, NEW a \in Answers, Renewed(t, a) PROVE QueueInv'
  <2>1. /\ task' = [task EXCEPT ![t] = [@ EXCEPT !.pc = "writing"]]
        /\ refreshQ' = refreshQ /\ task[t].pc = "refreshing" /\ proc' = "up"
    BY <1>7 DEF Renewed, Running
  <2>2. /\ task'[t].pc = "writing"
        /\ \A u \in Requesters : u # t => task'[u] = task[u]
    BY <2>1, MoveEffect DEF Places
  <2>3. Holds(refreshQ, t)
    BY <2>1 DEF QueueInv, RefreshDiscipline
  <2>4. \A u \in Requesters : u # t => task[u].pc # "refreshing"
    BY <2>3 DEF QueueInv, RefreshDiscipline, Holds
  <2>5. Queued(refreshQ') =
          {u \in Requesters : task'[u].pc \in {"lock", "refreshing", "writing"}}
    BY <2>1, <2>2 DEF QueueInv
  <2> QED
    BY <2>1, <2>2, <2>3, <2>4, <2>5 DEF QueueInv, RefreshDiscipline
<1>8. ASSUME NEW t \in Requesters, WriteReturns(t) PROVE QueueInv'
  <2>1. /\ task' = [task EXCEPT ![t] = [@ EXCEPT !.pc = "send"]]
        /\ refreshQ' = Leave(refreshQ, t) /\ task[t].pc = "writing"
        /\ UNCHANGED <<session, clock, proc>>
    BY <1>8 DEF WriteReturns
  <2> QED
    BY <2>1, SendQueue
<1>9. ASSUME NEW t \in Requesters, EndpointFails(t) \/ WriteRaises(t) \/ Cancel(t)
      PROVE  QueueInv'
  <2>1. /\ \E heard \in {"none", "success"} : Ended(t, "raised", FALSE, heard)
        /\ UNCHANGED <<session, clock, proc>>
    BY <1>9 DEF EndpointFails, WriteRaises, Cancel
  <2> QED
    BY <2>1, <1>a, EndedQueue
<1>10. ASSUME NEW t \in Requesters, Send(t) PROVE QueueInv'
  <2>1. PICK end \in Ends : end = IF session.typ = "bearer" THEN "ok" ELSE Unsendable
    BY <1>a DEF Unsendable
  <2>2. task[t].heard \in {"none", "success", "refusal", "server"}
    BY DEF Types, TaskStates
  <2>3. Ended(t, end, FALSE, task[t].heard) /\ UNCHANGED <<session, clock, proc>>
    BY <1>10, <2>1 DEF Send
  <2> QED
    BY <2>2, <2>3, EndedQueue
<1> QED
  BY <1>1, <1>2, <1>3, <1>4, <1>5, <1>6, <1>7, <1>8, <1>9, <1>10
     DEF Next, vars, StoreStep

----------------------------------------------------------------------------
\* What a final error says

\* Without a new token nothing gives hope.
LEMMA HopelessStays ==
    ASSUME Types, Types', Hopeless, session' = session, clock' >= clock,
           dead \subseteq dead'
    PROVE  Hopeless'
<1>1. Expired(session) => Expired(session)'
  <2>1. session.exp \in Int /\ Leeway \in Int /\ clock \in Int /\ clock' \in Int
    BY Bounds, TokenFields DEF Types
  <2> QED
    BY <2>1 DEF Expired
<1> QED
  BY <1>1 DEF Hopeless

\* A request that ends keeps what was said true.
LEMMA EndedWarned ==
    ASSUME Types, Types', WarnedInv, NEW t \in Requesters, NEW end \in Ends,
           NEW answered \in BOOLEAN,
           NEW heard \in {"none", "success", "refusal", "server"},
           Ended(t, end, answered, heard), UNCHANGED <<session, clock>>,
           dead \subseteq dead', end = "final" => Hopeless', task[t].late => end # "ok"
    PROVE  WarnedInv'
<1>1. /\ task'[t].pc = "idle" /\ task'[t].end = end /\ task'[t].late = task[t].late
      /\ \A u \in Requesters : u # t => task'[u] = task[u]
      /\ (warned' <=> warned \/ end = "final")
  BY EndedEffect
<1>2. clock' >= clock
  BY DEF Types
<1>3. warned' => Hopeless'
  BY <1>1, <1>2, HopelessStays DEF WarnedInv
<1> QED
  BY <1>1, <1>3 DEF WarnedInv

\* No step makes a final error untrue.
LEMMA StepWarned ==
    ASSUME Types, Types', ClientInv, QueueInv, WarnedInv, [Next]_vars
    PROVE  WarnedInv'
<1>a. "none" \in Ends /\ "ok" \in Ends /\ "final" \in Ends /\ "retry" \in Ends /\ "raised" \in Ends
  BY DEF Ends
<1>b. clock \in Nat
  BY DEF Types
<1>c. ASSUME UNCHANGED <<session, dead>>, clock' >= clock, warned
      PROVE  Hopeless'
  BY <1>c, HopelessStays DEF WarnedInv
<1>1. CASE UNCHANGED <<clock, session, task, dead, warned>>
  <2>1. warned' => Hopeless'
    BY <1>1, <1>b, <1>c
  <2> QED
    BY <1>1, <2>1 DEF WarnedInv
<1>2. ASSUME Build \/ (\E a \in Answers : Exchange(a)) PROVE WarnedInv'
  BY <1>2 DEF Build, Exchange, QueueInv, WarnedInv
<1>3. ASSUME Down PROVE WarnedInv'
  BY <1>3 DEF Down, Resting, WarnedInv
<1>4. ASSUME Tick PROVE WarnedInv'
  <2>1. clock' >= clock /\ UNCHANGED <<session, dead, warned, task>>
    BY <1>4, <1>b DEF Tick, venueVars
  <2>2. warned' => Hopeless'
    BY <2>1, <1>c
  <2> QED
    BY <2>1, <2>2 DEF WarnedInv
<1>5. ASSUME NEW t \in Requesters, Call(t) PROVE WarnedInv'
  <2>1. /\ task'[t].pc = "lock" /\ task'[t].end = "none" /\ task'[t].late = warned
        /\ \A u \in Requesters : u # t => task'[u] = task[u]
    BY <1>5, StartEffect DEF Call
  <2>2. UNCHANGED <<session, dead, warned, clock>>
    BY <1>5 DEF Call, venueVars
  <2>3. warned' => Hopeless'
    BY <2>2, <1>b, <1>c
  <2> QED
    BY <2>1, <2>2, <2>3 DEF WarnedInv
<1>6. ASSUME NEW t \in Requesters, Check(t) PROVE WarnedInv'
  <2>1. UNCHANGED <<session, clock, dead>> /\ task[t].pc = "lock"
    BY <1>6 DEF Check, venueVars
  <2>2. CASE ~NeedsRefresh
    <3>1. /\ task' = [task EXCEPT ![t] = [@ EXCEPT !.pc = "send"]]
          /\ warned' = warned
      BY <1>6, <2>2 DEF Check
    <3>2. /\ task'[t].pc = "send" /\ task'[t].end = task[t].end
          /\ task'[t].late = task[t].late
          /\ \A u \in Requesters : u # t => task'[u] = task[u]
      BY <3>1, MoveEffect DEF Places
    <3>3. warned => session.typ # "bearer"
      BY <2>2 DEF WarnedInv, Hopeless, NeedsRefresh
    <3>4. warned' => Hopeless'
      BY <2>1, <3>1, <1>b, <1>c
    <3> QED
      BY <2>1, <3>1, <3>2, <3>3, <3>4 DEF WarnedInv
  <2>3. CASE NeedsRefresh /\ session.refresh = "live"
    <3>1. /\ task' = [task EXCEPT ![t] = [@ EXCEPT !.pc = "refreshing"]]
          /\ warned' = warned
      BY <1>6, <2>3 DEF Check
    <3>2. /\ task'[t].pc = "refreshing" /\ task'[t].end = task[t].end
          /\ task'[t].late = task[t].late
          /\ \A u \in Requesters : u # t => task'[u] = task[u]
      BY <3>1, MoveEffect DEF Places
    <3>3. warned' => Hopeless'
      BY <2>1, <3>1, <1>b, <1>c
    <3> QED
      BY <2>1, <3>1, <3>2, <3>3 DEF WarnedInv
  <2>4. CASE /\ NeedsRefresh /\ session.refresh = "none"
             /\ Ended(t, "final", FALSE, "none")
    <3>1. Hopeless
      BY <2>4 DEF NeedsRefresh, Hopeless
    <3>2. Hopeless'
      BY <3>1, <2>1, <1>b, HopelessStays
    <3> QED
      BY <2>1, <2>4, <3>2, <1>a, EndedWarned
  <2> QED
    BY <1>6, <2>2, <2>3, <2>4 DEF Check
<1>7. ASSUME NEW t \in Requesters, NEW a \in Answers, Denied(t, a) PROVE WarnedInv'
  <2>1. PICK end : end = IF Refused(a) \/ ErrorBody(a)
                         THEN IF Final(a) THEN "final" ELSE "retry"
                         ELSE "raised"
    OBVIOUS
  <2>2. /\ Ended(t, end, Refused(a), a.status) /\ ~Kept(a) /\ UNCHANGED <<session, clock>>
        /\ dead' = IF a.body = "invalidGrant" THEN dead \cup {session.login} ELSE dead
        /\ task[t].pc = "refreshing"
    BY <1>7, <2>1 DEF Denied
  <2>3. /\ end \in {"final", "retry", "raised"} /\ Refused(a) \in BOOLEAN
        /\ a.status \in {"none", "success", "refusal", "server"}
        /\ end = "final" => a.body = "invalidGrant"
    BY <2>1, <2>2, DeniedEnd
  <2>4. dead \subseteq dead'
    BY <2>2
  <2>5. end = "final" => Hopeless'
    BY <2>2, <2>3 DEF QueueInv, RefreshDiscipline, Hopeless, Expired
  <2> QED
    BY <2>2, <2>3, <2>4, <2>5, <1>a, EndedWarned
<1>8. ASSUME NEW t \in Requesters, NEW a \in Answers, Renewed(t, a) PROVE WarnedInv'
  <2>1. /\ task' = [task EXCEPT ![t] = [@ EXCEPT !.pc = "writing"]]
        /\ task[t].pc = "refreshing" /\ session.login \notin dead /\ warned' = warned
    BY <1>8 DEF Renewed
  <2>2. /\ task'[t].end = task[t].end /\ task'[t].late = task[t].late
        /\ \A u \in Requesters : u # t => task'[u] = task[u]
    BY <2>1, MoveEffect DEF Places
  <2>3. ~warned
    BY <2>1 DEF QueueInv, RefreshDiscipline, WarnedInv, Hopeless
  <2>4. \A u \in Requesters : task[u].late => task[u].pc = "idle" /\ task[u].end # "ok"
    BY <2>3 DEF WarnedInv
  <2> QED
    BY <2>1, <2>2, <2>3, <2>4 DEF WarnedInv
<1>9. ASSUME NEW t \in Requesters, WriteReturns(t) PROVE WarnedInv'
  <2>1. /\ task' = [task EXCEPT ![t] = [@ EXCEPT !.pc = "send"]]
        /\ task[t].pc = "writing" /\ UNCHANGED <<session, clock, dead, warned>>
    BY <1>9 DEF WriteReturns, venueVars
  <2>2. /\ task'[t].late = task[t].late
        /\ \A u \in Requesters : u # t => task'[u] = task[u]
    BY <2>1, MoveEffect DEF Places
  <2>3. ~task[t].late
    BY <2>1 DEF WarnedInv
  <2>4. warned' => Hopeless'
    BY <2>1, <1>b, <1>c
  <2> QED
    BY <2>1, <2>2, <2>3, <2>4 DEF WarnedInv
<1>10. ASSUME NEW t \in Requesters, EndpointFails(t) \/ WriteRaises(t) \/ Cancel(t)
      PROVE  WarnedInv'
  <2>1. /\ \E heard \in {"none", "success"} : Ended(t, "raised", FALSE, heard)
        /\ UNCHANGED <<session, clock, dead>>
    BY <1>10 DEF EndpointFails, WriteRaises, Cancel, venueVars
  <2> QED
    BY <2>1, <1>a, EndedWarned
<1>11. ASSUME NEW t \in Requesters, Send(t) PROVE WarnedInv'
  <2>1. PICK end \in Ends : end = IF session.typ = "bearer" THEN "ok" ELSE Unsendable
    BY <1>a DEF Unsendable
  <2>2. task[t].heard \in {"none", "success", "refusal", "server"}
    BY DEF Types, TaskStates
  <2>3. /\ Ended(t, end, FALSE, task[t].heard) /\ UNCHANGED <<session, clock, dead>>
        /\ task[t].pc = "send"
    BY <1>11, <2>1 DEF Send, venueVars
  <2>4. end = "final" => session.typ # "bearer" /\ session.refresh = "none"
    BY <2>1 DEF Unsendable, WillBeRefreshed, ClientInv
  <2>5. end = "final" => Hopeless'
    BY <2>3, <2>4 DEF Hopeless
  <2>6. task[t].late => end # "ok"
    BY <2>1, <2>3 DEF WarnedInv, Unsendable
  <2> QED
    BY <2>2, <2>3, <2>5, <2>6, EndedWarned
<1> QED
  BY <1>1, <1>2, <1>3, <1>4, <1>5, <1>6, <1>7, <1>8, <1>9, <1>10, <1>11
     DEF Next, vars, venueVars, LoginStored, LoginWriteRaises, StoreStep, Crash,
         PowerLoss

----------------------------------------------------------------------------
\* What an error says of the endpoint

\* A request that ends tells what it heard.
LEMMA EndedHeard ==
    ASSUME Types, HeardInv, NEW t \in Requesters, NEW end \in Ends,
           NEW answered \in BOOLEAN,
           NEW heard \in {"none", "success", "refusal", "server"},
           Ended(t, end, answered, heard),
           end \in {"final", "retry"} => (answered <=> heard # "none"),
           heard = "refusal" => end \in {"final", "retry"}
    PROVE  HeardInv'
<1>1. /\ task'[t].pc = "idle" /\ task'[t].end = end /\ task'[t].heard = heard
      /\ task'[t].answered = answered
      /\ \A u \in Requesters : u # t => task'[u] = task[u]
  BY EndedEffect
<1> QED
  BY <1>1 DEF HeardInv, AnswerTold

\* One that moves on has not heard of the endpoint.
LEMMA MoveHeard ==
    ASSUME Types, HeardInv, NEW t \in Requesters, NEW place \in Places,
           task[t].pc # "idle", task' = [task EXCEPT ![t] = [@ EXCEPT !.pc = place]]
    PROVE  HeardInv'
<1>1. /\ task'[t].end = task[t].end /\ task'[t].heard = task[t].heard
      /\ task'[t].answered = task[t].answered
      /\ \A u \in Requesters : u # t => task'[u] = task[u]
  BY MoveEffect
<1> QED
  BY <1>1 DEF HeardInv, AnswerTold

\* Every step tells the truth.
LEMMA StepHeard ==
    ASSUME Types, HeardInv, [Next]_vars
    PROVE  HeardInv'
<1>a. "none" \in Ends /\ "ok" \in Ends /\ "final" \in Ends /\ "retry" \in Ends /\ "raised" \in Ends
  BY DEF Ends
<1>1. CASE UNCHANGED task
  BY <1>1 DEF HeardInv, AnswerTold
<1>2. ASSUME Down PROVE HeardInv'
  BY <1>2 DEF Down, Resting, HeardInv, AnswerTold
<1>3. ASSUME NEW t \in Requesters, Call(t) PROVE HeardInv'
  <2>1. /\ task'[t].end = "none" /\ task'[t].heard = "none"
        /\ \A u \in Requesters : u # t => task'[u] = task[u]
    BY <1>3, StartEffect DEF Call
  <2> QED
    BY <2>1 DEF HeardInv, AnswerTold
<1>4. ASSUME NEW t \in Requesters, Check(t) PROVE HeardInv'
  <2>1. CASE \E place \in Places : task' = [task EXCEPT ![t] = [@ EXCEPT !.pc = place]]
    BY <1>4, <2>1, MoveHeard DEF Check
  <2>2. CASE Ended(t, "final", FALSE, "none")
    BY <2>2, <1>a, EndedHeard
  <2> QED
    BY <1>4, <2>1, <2>2 DEF Check, Places
<1>5. ASSUME NEW t \in Requesters, NEW a \in Answers, Denied(t, a) PROVE HeardInv'
  <2>1. PICK end : end = IF Refused(a) \/ ErrorBody(a)
                         THEN IF Final(a) THEN "final" ELSE "retry"
                         ELSE "raised"
    OBVIOUS
  <2>2. Ended(t, end, Refused(a), a.status) /\ ~Kept(a)
    BY <1>5, <2>1 DEF Denied
  <2>3. /\ end \in {"final", "retry", "raised"} /\ Refused(a) \in BOOLEAN
        /\ a.status \in {"success", "refusal", "server"}
        /\ end \in {"final", "retry"} => Refused(a)
        /\ a.status = "refusal" => end \in {"final", "retry"}
    BY <2>1, <2>2, DeniedEnd
  <2>4. end \in {"final", "retry"} => (Refused(a) <=> a.status # "none")
    BY <2>3
  <2> QED
    BY <2>2, <2>3, <2>4, <1>a, EndedHeard
<1>6. ASSUME NEW t \in Requesters, (\E a \in Answers : Renewed(t, a)) \/ WriteReturns(t)
      PROVE  HeardInv'
  BY <1>6, MoveHeard DEF Renewed, WriteReturns, Places
<1>7. ASSUME NEW t \in Requesters, EndpointFails(t) \/ WriteRaises(t) \/ Cancel(t)
      PROVE  HeardInv'
  <2>1. \E heard \in {"none", "success"} : Ended(t, "raised", FALSE, heard)
    BY <1>7 DEF EndpointFails, WriteRaises, Cancel
  <2> QED
    BY <2>1, <1>a, EndedHeard
<1>8. ASSUME NEW t \in Requesters, Send(t) PROVE HeardInv'
  <2>1. PICK end \in Ends : end = IF session.typ = "bearer" THEN "ok" ELSE Unsendable
    BY <1>a DEF Unsendable
  <2>2. task[t].heard = "none"
    BY <1>8 DEF Send, HeardInv
  <2>3. Ended(t, end, FALSE, "none")
    BY <1>8, <2>1, <2>2 DEF Send
  <2> QED
    BY <2>3, EndedHeard
<1> QED
  BY <1>1, <1>2, <1>3, <1>4, <1>5, <1>6, <1>7, <1>8
     DEF Next, vars, Build, Exchange, LoginStored, LoginWriteRaises, StoreStep, Crash,
         PowerLoss, Tick

----------------------------------------------------------------------------
\* The invariant

\* The first state has it.
LEMMA InitInv == Init => TokenInv
<1> SUFFICES ASSUME Init PROVE TokenInv
  OBVIOUS
<1>1. Types
  BY InitTypes
<1>2. value \in Stored /\ value.token.id = 0 /\ value.token.login = 0 /\ safe = value
  BY StoresAssumption DEF Init
<1>3. /\ call[Process].token = NoStore /\ call[Process].st = "idle"
      /\ NoStore.token = NoToken
  BY DEF Init, Register!NoCall, NoStore
<1>4. issued = 0 /\ logins = 0
  BY DEF Init
<1>5. StoreInv
  <2>1. Sound(value)
    BY <1>2, <1>4 DEF Sound, Good, Known, Dated
  <2>2. Sound(NoStore)
    BY <1>1, NothingSound
  <2> QED
    BY <1>2, <1>3, <2>1, <2>2 DEF StoreInv
<1>6. ClientInv
  BY DEF Init, NoToken, NoMeta, ClientInv, Good, Known, Dated
<1>7. WriteInv
  BY <1>3 DEF Init, WriteInv, Writing, MetaFollowsStore
<1>8. QueueInv
  BY DEF Init, Resting, Unlocked, QueueInv, NoneTwice, Queued, RefreshDiscipline
<1>9. WarnedInv /\ HeardInv
  BY DEF Init, Resting, WarnedInv, HeardInv, AnswerTold
<1> QED
  BY <1>1, <1>5, <1>6, <1>7, <1>8, <1>9 DEF TokenInv

\* Every step keeps it.
LEMMA StepInv == TokenInv /\ [Next]_vars => TokenInv'
<1> SUFFICES ASSUME TokenInv, [Next]_vars PROVE TokenInv'
  OBVIOUS
<1>1. Types'
  <2>1. CASE UNCHANGED vars
    BY <2>1 DEF vars, storeVars, venueVars, TokenInv, Types, CallTypes
  <2>2. CASE \/ Build \/ (\E a \in Answers : Exchange(a))
             \/ LoginStored \/ LoginWriteRaises
             \/ StoreStep \/ Crash \/ PowerLoss \/ Tick
    BY <2>2, ClientTypes DEF TokenInv
  <2>3. ASSUME NEW t \in Requesters,
               \/ Call(t) \/ Check(t) \/ EndpointFails(t)
               \/ (\E a \in Answers : Denied(t, a) \/ Renewed(t, a))
               \/ WriteReturns(t) \/ WriteRaises(t) \/ Send(t) \/ Cancel(t)
        PROVE  Types'
    BY <2>3, RequestTypes DEF TokenInv, ClientInv
  <2> QED
    BY <2>1, <2>2, <2>3 DEF Next
<1>2. StoreInv' /\ WriteInv' /\ QueueInv' /\ WarnedInv' /\ HeardInv'
  BY <1>1, StepStore, StepWrite, StepQueue, StepWarned, StepHeard DEF TokenInv
<1>3. ClientInv'
  BY <1>1, StepClient DEF TokenInv, QueueInv
<1> QED
  BY <1>1, <1>2, <1>3 DEF TokenInv

\* It holds in every state.
LEMMA Invariant == Spec => []TokenInv
BY InitInv, StepInv, PTL DEF Spec

----------------------------------------------------------------------------
\* Theorems

\* A session with a refresh token has an expiry that brings the refresh in
\* time, no answer of the endpoint puts an unusable token into it or into the
\* store, and what was stored can be loaded, also after a power loss
\* (_stored_token_for_session, _refuse_unusable_token_response).
THEOREM ClientsWorkOn == Spec => []TokensServe
<1>1. TokenInv => TokensServe
  <2> SUFFICES ASSUME TokenInv PROVE TokensServe
    OBVIOUS
  <2>1. Renewable /\ KeptIsUsable
    BY DEF TokenInv, StoreInv, ClientInv, Sound, Good, Renewable, KeptIsUsable
  <2>2. ASSUME NEW s \in {value, safe}, s.token.id # 0 PROVE Loads(s)
    BY <2>2 DEF TokenInv, StoreInv, Sound, Good, Loads
  <2> QED
    BY <2>1, <2>2 DEF TokensServe, StoreLoads
<1> QED
  BY <1>1, Invariant, PTL

\* The creation timestamp is the time of the login a token descends from,
\* through refreshes, failed writes, crashes and restarts
\* (TokenMetadata.wrap_token_in_metadata).
THEOREM AgeCountsFromLogin == Spec => []CreatedIsLogin
<1>1. TokenInv => CreatedIsLogin
  BY DEF TokenInv, StoreInv, ClientInv, Sound, Dated, CreatedIsLogin
<1> QED
  BY <1>1, Invariant, PTL

\* The metadata and the session hold what is stored, but after a write that
\* failed (wrapped_token_write_func).
THEOREM MetadataFollow == Spec => []MetaFollowsStore
<1>1. TokenInv => MetaFollowsStore
  BY DEF TokenInv, WriteInv
<1> QED
  BY <1>1, Invariant, PTL

\* No request called after refresh_token_invalid succeeds on the same client,
\* and endpoint_answered says whether the endpoint answered
\* (_refresh_token_is_invalid, TokenRefreshError).
THEOREM ErrorsTell == Spec => []ErrorsAreTrue
<1>1. TokenInv => ErrorsAreTrue
  BY DEF TokenInv, WarnedInv, HeardInv, ErrorsAreTrue, NoRetryHelps
<1> QED
  BY <1>1, Invariant, PTL

\* Who is at the endpoint holds the lock, and the token is still the expired
\* one: no two tasks refresh at a time (authlib's refresh lock).
THEOREM OneRefreshes == Spec => []RefreshDiscipline
<1>1. TokenInv => RefreshDiscipline
  BY DEF TokenInv, QueueInv
<1> QED
  BY <1>1, Invariant, PTL

\* What a login or a refresh asks to be written can be stored.
LEMMA AskStored ==
    ASSUME Types, ClientInv, NEW a \in Answers,
           Exchange(a) \/ \E t \in Requesters : Renewed(t, a)
    PROVE  \E s \in Stored : Register!Ask(Process, s)
<1>1. CASE Exchange(a)
  <2> DEFINE x == [id |-> issued + 1, login |-> logins + 1, exp |-> a.offer.exp,
                   typ |-> a.offer.typ, refresh |-> a.offer.refresh]
             s == [shape |-> "whole", token |-> x, created |-> clock]
  <2>1. Kept(a) /\ issued < MaxToken /\ logins < MaxLogin
    BY <1>1 DEF Exchange
  <2>2. x \in Token
    BY <2>1, LoginToken
  <2>3. Register!Ask(Process, s)
    BY <1>1, Zenon DEF Exchange
  <2> HIDE DEF x
  <2>4. s \in Stored
    BY <2>2 DEF Stored, Shapes, Types
  <2> QED
    BY <2>3, <2>4
<1>2. ASSUME NEW t \in Requesters, Renewed(t, a)
      PROVE  \E s \in Stored : Register!Ask(Process, s)
  <2>1. PICK x : x = Received(a.offer, session.login)
    OBVIOUS
  <2>2. Kept(a) /\ issued < MaxToken /\ session' = x /\ Register!Ask(Process, Wrapped(x))
    BY <1>2, <2>1 DEF Renewed
  <2>3. x \in Token
    BY <2>1, <2>2, ReceivedToken DEF ClientInv
  <2>4. Wrapped(x) \in Stored
    BY <2>3 DEF Wrapped, Stored, Shapes, Types
  <2> QED
    BY <2>2, <2>4
<1> QED
  BY <1>1, <1>2

\* A client writes its token as AtomicToken lets it be written, which is what
\* TokenFile implements: whatever requests, exceptions, crashes and power
\* losses meet, a write is asked for when none is in progress, and taken for
\* done only when it is (wrapped_token_write_func).
THEOREM RegisterUsed == Spec => [][Register!Next]_storeVars
<1>1. TokenInv /\ [Next]_vars => [Register!Next]_storeVars
  <2> SUFFICES ASSUME TokenInv, [Next]_vars PROVE [Register!Next]_storeVars
    OBVIOUS
  <2>1. Types /\ ClientInv
    BY DEF TokenInv
  <2>2. \/ UNCHANGED storeVars
        \/ Register!Put(Process) \/ Register!Keep(Process) \/ Register!Settle
        \/ Register!Ack(Process) \/ Register!Abandon(Process) \/ Register!PowerLoss
        \/ \E a \in Answers : Exchange(a) \/ \E t \in Requesters : Renewed(t, a)
    BY DEF Next, vars, storeVars, Build, LoginStored, LoginWriteRaises, Call, Check,
           EndpointFails, Denied, WriteReturns, WriteRaises, Send, Cancel, StoreStep,
           Crash, PowerLoss, Tick
  <2>3. CASE \E a \in Answers : Exchange(a) \/ \E t \in Requesters : Renewed(t, a)
    BY <2>1, <2>3, AskStored DEF Register!Next
  <2> QED
    BY <2>2, <2>3 DEF Register!Next
<1> QED
  BY <1>1, Invariant, PTL DEF Spec
=============================================================================
