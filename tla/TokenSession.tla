---------------------------- MODULE TokenSession ----------------------------
(***************************************************************************)
(* The life of a token in one process: schwaby/auth.py builds a session on *)
(* the stored token or on the one a login was given, the session refreshes *)
(* it in the middle of ordinary requests, and the write function stores    *)
(* what it got (schwaby/client/base.py turns what goes wrong into          *)
(* TokenRefreshError).                                                     *)
(*                                                                         *)
(* The store is the register of AtomicToken, which TokenFile implements: a *)
(* write takes effect at one instant, and a process that dies or raises    *)
(* while writing may or may not have written.  authlib's part - the lock   *)
(* around a refresh, what it parses and keeps - and the token endpoint are *)
(* external, modelled from how the code uses them.                         *)
(***************************************************************************)
EXTENDS FairLock, Integers, FiniteSets

CONSTANTS
    Requesters,     \* asyncio tasks that make requests on one client
    FirstStores,    \* what the store may hold at the start
    Offers,         \* tokens the endpoint may send: [exp, typ, refresh]
    MaxToken,       \* bound: tokens the endpoint issues
    MaxLogin,       \* bound: logins
    MaxClock,       \* bound: time
    Leeway,         \* the session's leeway
    Longest,        \* _LONGEST_EXPIRY, the seven days of a refresh token
    SurelySynced    \* a returned write survives a power loss

\* The one process; AtomicToken would allow several.
Process == "process"

\* expires_at: a time, none that reads as an int, or only an expires_in.
NoExpiry == -1
Counted == -2

\* Whose description a token is: shape as stored, before any check.
Token == [id : 0 .. MaxToken,           \* 0: not one this library wrote
          login : 0 .. MaxLogin,        \* the login it descends from
          exp : Int,
          typ : {"bearer", "null", "other", "odd"},
          refresh : {"live", "none", "null", "empty", "odd"}]

\* Whether the stored object passes from_loaded_token: "whole", or one of the
\* ways in which it is refused.
Shapes == {"whole", "notMapping", "noCreation", "badCreation", "noToken",
           "badToken"}
Stored == [shape : Shapes, token : Token, created : Int]

NoToken == [id |-> 0, login |-> 0, exp |-> NoExpiry, typ |-> "bearer",
            refresh |-> "none"]
NoStore == [shape |-> "notMapping", token |-> NoToken, created |-> 0]

ASSUME BoundsAssumption ==
    /\ MaxToken \in Nat /\ MaxLogin \in Nat /\ MaxClock \in Nat
    /\ Leeway \in Nat /\ Longest \in Nat /\ SurelySynced \in BOOLEAN
ASSUME StoresAssumption ==
    FirstStores \subseteq {s \in Stored : s.token.id = 0 /\ s.token.login = 0}
ASSUME OffersAssumption ==
    Offers \subseteq [exp : Int, typ : {"bearer", "other"},
                      refresh : {"live", "none", "empty"}]

VARIABLES
    value,      \* what token_read_func returns
    safe,       \* what it would return after a power loss
    call,       \* the write in progress
    clock,      \* time.time()
    proc,       \* "down", "loggingIn" (the write of a login) or "up"
    session,    \* session.token
    meta,       \* TokenMetadata: token and creation_timestamp
    refreshQ,   \* authlib's lock around a refresh
    task,       \* [Requesters -> where the request is, and its result]
    issued,     \* tokens the endpoint has issued
    granted,    \* [login -> when it was completed]
    logins,     \* logins completed
    dead,       \* logins whose refresh token the endpoint has refused
    warned,     \* history: this client reported refresh_token_invalid
    torn        \* history: a write raised or was cut short, none returned since

Register == INSTANCE AtomicToken WITH
    Writers <- {Process}, Tokens <- Stored, First <- NoStore

storeVars == <<value, safe, call>>
venueVars == <<issued, granted, logins, dead>>
vars == <<storeVars, clock, proc, session, meta, refreshQ, task, venueVars,
          warned, torn>>

\* How a request ended: an answer; TokenRefreshError, final or not; something
\* else raised.  Whether it says that the endpoint answered.
Ends == {"none", "ok", "final", "retry", "raised"}
TaskStates == [pc : {"idle", "lock", "refreshing", "writing", "send"},
               end : Ends,
               answered : BOOLEAN,      \* endpoint_answered of the error
               heard : {"none", "success", "refusal", "server"},
                                        \* history: how the endpoint answered
               late : BOOLEAN]          \* history: called after a final error

NoMeta == [token |-> NoToken, created |-> 0]
Resting == [pc |-> "idle", end |-> "none", answered |-> FALSE,
            heard |-> "none", late |-> FALSE]

Init ==
    /\ value \in FirstStores /\ safe = value
    /\ call = [w \in {Process} |-> Register!NoCall]
    /\ clock = 0
    /\ proc = "down"
    /\ session = NoToken /\ meta = NoMeta
    /\ refreshQ = Unlocked
    /\ task = [t \in Requesters |-> Resting]
    /\ issued = 0 /\ logins = 0 /\ dead = {}
    /\ granted = [l \in 1 .. MaxLogin |-> 0]
    /\ warned = FALSE /\ torn = FALSE

\* A synchronous write holds up the event loop, and a process that is not up
\* runs no task.
Writing == call[Process].st \in {"asked", "put", "kept"}
Running == proc = "up" /\ ~Writing

----------------------------------------------------------------------------
\* The checks of auth.py and utils.py

\* _expiry_authlib_acts_on
ActsOn(exp) == exp >= 0 /\ exp <= clock + Longest

\* _is_usable_token: whether a response may replace the stored token.
Usable(offer) ==
    /\ offer.typ = "bearer"
    /\ ActsOn(offer.exp)
    /\ offer.refresh \in {"live", "none"}

\* An answer of the token endpoint: its status, and no JSON, an error, or a
\* token, which any JSON object without an error is to authlib.
Answers ==
    [status : {"success", "refusal", "server"},
     body : {"notJson", "error", "invalidGrant", "token"},
     offer : Offers]

\* Mutant: an error is left to authlib, which says no status.
Refused_NotErrors(a) ==
    /\ a.status # "server"
    /\ CASE a.body = "notJson" -> a.status # "success"
         [] a.body \in {"error", "invalidGrant"} -> FALSE
         [] a.body = "token" -> ~Usable(a.offer) \/ a.status # "success"

\* _refuse_unusable_token_response raises, with the status on the error; what
\* it does not refuse is authlib's.
Refused(a) ==
    /\ a.status # "server"
    /\ CASE a.body = "notJson" -> a.status # "success"
         [] a.body \in {"error", "invalidGrant"} -> TRUE
         [] a.body = "token" -> ~Usable(a.offer) \/ a.status # "success"

\* authlib keeps what the hook let through, if it can read it.
Kept(a) == ~Refused(a) /\ a.status # "server" /\ a.body = "token"

\* authlib raises OAuthError for an error body nobody refused before it.
ErrorBody(a) == a.status # "server" /\ a.body \in {"error", "invalidGrant"}

\* A response without a refresh token leaves the one that was used.
Received(offer, login) ==
    [id |-> issued + 1, login |-> login, exp |-> offer.exp, typ |-> offer.typ,
     refresh |-> IF offer.refresh = "none" /\ session.refresh = "live"
                 THEN "live" ELSE offer.refresh]

\* TokenMetadata.from_loaded_token, and the shape _stored_token_for_session
\* asks of what is in it.
Loads(s) ==
    /\ s.shape = "whole"
    /\ s.token.typ # "odd" /\ s.token.refresh # "odd"

\* Mutant: only a missing expiry brings a refresh.
RefreshFirst_OnlyMissing(token) == token.exp = NoExpiry

\* _expiry_needs_refreshing_first
RefreshFirst(token) == ~ActsOn(token.exp)

\* _stored_token_for_session: nulls are absences, and an expiry that would not
\* bring a refresh in time is taken as now.  authlib counts an expires_in from
\* here.
ForSession(token) ==
    [token EXCEPT
        !.typ = IF @ = "null" THEN "bearer" ELSE @,
        !.refresh = IF @ = "live" THEN @ ELSE "none",
        !.exp = IF token.refresh = "live" /\ RefreshFirst(token) THEN clock
                ELSE IF @ = Counted THEN clock + Longest ELSE @]

\* authlib's is_expired.
Expired(token) == token.exp # NoExpiry /\ token.exp - Leeway < clock

\* _refresh_token_is_invalid, of what the endpoint said.
Final(a) == ErrorBody(a) /\ a.body = "invalidGrant"

\* _stored_token_will_be_refreshed
WillBeRefreshed == ActsOn(session.exp) /\ session.refresh = "live"

\* Mutant: each write dates the token anew.
Wrapped_Redated(token) == [shape |-> "whole", token |-> token, created |-> clock]

\* wrap_token_in_metadata
Wrapped(token) == [shape |-> "whole", token |-> token, created |-> meta.created]

----------------------------------------------------------------------------
\* A client is made.

\* client_from_access_functions: on what token_read_func returns.
Build ==
    /\ proc = "down" /\ ~Writing
    /\ Loads(value)
    /\ proc' = "up"
    /\ meta' = [token |-> value.token, created |-> value.created]
    /\ session' = ForSession(value.token)
    /\ warned' = FALSE /\ torn' = FALSE
    /\ UNCHANGED <<storeVars, clock, refreshQ, task, venueVars>>

\* client_from_received_url: the exchange of a code is answered.  A token that
\* is kept is dated now and written before there is a client.
Exchange(a) ==
    /\ proc = "down" /\ ~Writing
    /\ Kept(a) /\ issued < MaxToken /\ logins < MaxLogin
    /\ issued' = issued + 1 /\ logins' = logins + 1
    /\ granted' = [granted EXCEPT ![logins + 1] = clock]
    /\ proc' = "loggingIn"
    /\ LET token == [id |-> issued + 1, login |-> logins + 1,
                     exp |-> a.offer.exp, typ |-> a.offer.typ,
                     refresh |-> a.offer.refresh]
       IN  /\ meta' = [token |-> token, created |-> clock]
           /\ session' = token
           /\ Register!Ask(Process,
                 [shape |-> "whole", token |-> token, created |-> clock])
    /\ warned' = FALSE /\ torn' = FALSE
    /\ UNCHANGED <<clock, refreshQ, task, dead>>

LoginStored ==
    /\ proc = "loggingIn"
    /\ Register!Ack(Process)
    /\ proc' = "up"
    /\ UNCHANGED <<clock, session, meta, refreshQ, task, venueVars,
                   warned, torn>>

LoginWriteRaises ==
    /\ proc = "loggingIn"
    /\ Register!Abandon(Process)
    /\ proc' = "down"
    /\ UNCHANGED <<clock, session, meta, refreshQ, task, venueVars,
                   warned, torn>>

----------------------------------------------------------------------------
\* A request

\* Mutant: a request that fails keeps the lock.
Ended_KeepsLock(t, end, answered, heard) ==
    /\ task' = [task EXCEPT ![t] =
          [@ EXCEPT !.pc = "idle", !.end = end, !.answered = answered,
                    !.heard = heard]]
    /\ UNCHANGED refreshQ
    /\ warned' = (warned \/ end = "final")

\* The request is over, for t and for those behind it.
Ended(t, end, answered, heard) ==
    /\ task' = [task EXCEPT ![t] =
          [@ EXCEPT !.pc = "idle", !.end = end, !.answered = answered,
                    !.heard = heard]]
    /\ refreshQ' = IF t \in Queued(refreshQ) THEN Leave(refreshQ, t)
                   ELSE refreshQ
    /\ warned' = (warned \/ end = "final")

Call(t) ==
    /\ Running /\ task[t].pc = "idle"
    /\ task' = [task EXCEPT ![t] =
          [Resting EXCEPT !.pc = "lock", !.late = warned]]
    /\ refreshQ' = Join(refreshQ, t)
    /\ UNCHANGED <<storeVars, clock, proc, session, meta, venueVars, warned,
                   torn>>

\* Under its lock authlib asks again whether the token has expired.
NeedsRefresh == Expired(session)

Check(t) ==
    /\ Running /\ task[t].pc = "lock" /\ Holds(refreshQ, t)
    /\ \/ /\ ~NeedsRefresh
          /\ task' = [task EXCEPT ![t] = [@ EXCEPT !.pc = "send"]]
          /\ refreshQ' = Leave(refreshQ, t)
          /\ UNCHANGED warned
       \/ /\ NeedsRefresh /\ session.refresh = "live"
          /\ task' = [task EXCEPT ![t] = [@ EXCEPT !.pc = "refreshing"]]
          /\ UNCHANGED <<refreshQ, warned>>
       \/ /\ NeedsRefresh /\ session.refresh = "none"
          /\ Ended(t, "final", FALSE, "none")     \* InvalidTokenError
    /\ UNCHANGED <<storeVars, clock, proc, session, meta, venueVars, torn>>

\* The endpoint refuses the refresh, or answers with nothing to keep: an
\* OAuthError is a TokenRefreshError, with the status if the hook marked it.
Denied(t, a) ==
    /\ Running /\ task[t].pc = "refreshing"
    /\ ~Kept(a)
    /\ Ended(t, IF Refused(a) \/ ErrorBody(a)
                THEN IF Final(a) THEN "final" ELSE "retry"
                ELSE "raised",
             Refused(a), a.status)
    /\ dead' = IF a.body = "invalidGrant" THEN dead \cup {session.login} ELSE dead
    /\ UNCHANGED <<storeVars, clock, proc, session, meta, issued, granted,
                   logins, torn>>

\* No answer: httpx2's own exception.
EndpointFails(t) ==
    /\ Running /\ task[t].pc = "refreshing"
    /\ Ended(t, "raised", FALSE, "none")
    /\ UNCHANGED <<storeVars, clock, proc, session, meta, venueVars, torn>>

\* A new token: authlib sets it on the session, then calls the wrapped write.
Renewed(t, a) ==
    /\ Running /\ task[t].pc = "refreshing"
    /\ Kept(a) /\ issued < MaxToken /\ session.login \notin dead
    /\ issued' = issued + 1
    /\ session' = Received(a.offer, session.login)
    /\ Register!Ask(Process, Wrapped(session'))
    /\ task' = [task EXCEPT ![t] = [@ EXCEPT !.pc = "writing"]]
    /\ UNCHANGED <<clock, proc, meta, refreshQ, granted, logins, dead,
                   warned, torn>>

\* Mutant: only the session takes the new token.
Remembered_Never(token) == meta

\* wrapped_token_write_func, after the write returned.
Remembered(token) == [meta EXCEPT !.token = token]

WriteReturns(t) ==
    /\ proc = "up" /\ task[t].pc = "writing"
    /\ meta' = Remembered(call[Process].token.token)
    /\ Register!Ack(Process)
    /\ task' = [task EXCEPT ![t] = [@ EXCEPT !.pc = "send"]]
    /\ refreshQ' = Leave(refreshQ, t)
    /\ torn' = FALSE
    /\ UNCHANGED <<clock, proc, session, venueVars, warned>>

\* The write raises, or its task is cancelled with it; the session keeps the
\* new token, the metadata the old one.
WriteRaises(t) ==
    /\ proc = "up" /\ task[t].pc = "writing"
    /\ Register!Abandon(Process)
    /\ Ended(t, "raised", FALSE, "success")
    /\ torn' = TRUE
    /\ UNCHANGED <<clock, proc, session, meta, venueVars>>

\* UnsupportedTokenTypeError, classified.
Unsendable == IF WillBeRefreshed THEN "retry" ELSE "final"

Send(t) ==
    /\ Running /\ task[t].pc = "send"
    /\ Ended(t, IF session.typ = "bearer" THEN "ok" ELSE Unsendable,
             FALSE, task[t].heard)
    /\ UNCHANGED <<storeVars, clock, proc, session, meta, venueVars, torn>>

Cancel(t) ==
    /\ Running /\ task[t].pc # "idle"
    /\ Ended(t, "raised", FALSE, "none")
    /\ UNCHANGED <<storeVars, clock, proc, session, meta, venueVars, torn>>

----------------------------------------------------------------------------
\* The store, time and the machine

\* A write takes effect, cannot be lost any more, or settles by itself.
StoreStep ==
    /\ Register!Put(Process) \/ Register!Keep(Process) \/ Register!Settle
    /\ UNCHANGED <<clock, proc, session, meta, refreshQ, task,
                   venueVars, warned, torn>>

\* Nothing of the process survives.
Down ==
    /\ proc' = "down"
    /\ session' = NoToken /\ meta' = NoMeta
    /\ refreshQ' = Unlocked
    /\ task' = [t \in Requesters |-> Resting]
    /\ warned' = FALSE /\ torn' = FALSE
    /\ UNCHANGED <<clock, venueVars>>

Crash ==
    /\ proc # "down"
    /\ IF Writing THEN Register!Abandon(Process)
       ELSE UNCHANGED <<value, safe, call>>
    /\ Down

PowerLoss == Register!PowerLoss /\ Down

Tick ==
    /\ clock < MaxClock
    /\ clock' = clock + 1
    /\ UNCHANGED <<storeVars, proc, session, meta, refreshQ, task, venueVars,
                   warned, torn>>

Next ==
    \/ Build
    \/ \E a \in Answers : Exchange(a)
    \/ LoginStored \/ LoginWriteRaises
    \/ \E t \in Requesters :
          \/ Call(t) \/ Check(t) \/ EndpointFails(t)
          \/ \E a \in Answers : Denied(t, a) \/ Renewed(t, a)
          \/ WriteReturns(t) \/ WriteRaises(t) \/ Send(t) \/ Cancel(t)
    \/ StoreStep \/ Crash \/ PowerLoss \/ Tick

Spec == Init /\ [][Next]_vars

\* httpx2's timeout bounds an answer, a write ends, and the event loop runs
\* what can run; nothing makes anyone call, log in or restart.
AnswerArrives(t) ==
    EndpointFails(t) \/ \E a \in Answers : Denied(t, a) \/ Renewed(t, a)
WriteEnds(t) == WriteReturns(t) \/ WriteRaises(t)

Fairness ==
    /\ \A t \in Requesters :
          /\ WF_vars(Check(t)) /\ WF_vars(AnswerArrives(t))
          /\ WF_vars(WriteEnds(t)) /\ WF_vars(Send(t))
    /\ WF_vars(StoreStep)

LiveSpec == Spec /\ Fairness

----------------------------------------------------------------------------
\* A session that could refresh its token does so while the refresh token is
\* of use, whatever was stored and whatever the endpoint sent: otherwise every
\* call fails with 401 and nothing raises.
Renewable ==
    proc = "up" /\ session.refresh = "live" => ActsOn(session.exp)

\* No answer of the endpoint, however odd, leaves an unusable token in the
\* session or in the store, or costs them a refresh token they had.
KeptIsUsable ==
    \A token \in {session, meta.token, value.token, safe.token} :
        token.id # 0 =>
            /\ token.typ = "bearer" /\ ActsOn(token.exp)
            /\ token.refresh \in {"live", "none"}

\* Whatever a write of this library left in the store, the next process can
\* build a client on it.
StoreLoads ==
    \A s \in {value, safe} : s.token.id # 0 => Loads(s)

\* A client works on: what it holds can be renewed, and what it left behind
\* can be loaded.
TokensServe == Renewable /\ KeptIsUsable /\ StoreLoads

\* The age that easy_client and a monitor act on counts from the login,
\* through every refresh, failed write and restart.
CreatedIsLogin ==
    /\ \A s \in {value, safe} :
          s.token.login # 0 => s.created = granted[s.token.login]
    /\ proc = "up" /\ meta.token.login # 0 =>
          meta.created = granted[meta.token.login]

\* Between writes the metadata and the session hold what is stored, except
\* after a write that failed, and then until the next that returns.
MetaFollowsStore ==
    proc = "up" /\ ~Writing =>
        /\ torn <=> session.id # meta.token.id
        /\ ~torn => meta.token = value.token

\* refresh_token_invalid says that no retry will help: no request called
\* after it on the same client succeeds.
NoRetryHelps ==
    \A t \in Requesters : task[t].end = "ok" => ~task[t].late

\* endpoint_answered says exactly whether the endpoint answered, and its
\* refusals always arrive as TokenRefreshError.
AnswerTold ==
    \A t \in Requesters :
        /\ task[t].end \in {"final", "retry"} =>
              (task[t].answered <=> task[t].heard # "none")
        /\ task[t].heard = "refusal" => task[t].end \in {"final", "retry"}

\* What a TokenRefreshError says of the refresh is true.
ErrorsAreTrue == NoRetryHelps /\ AnswerTold

\* Of two requests that find the token expired one refreshes it: who is at
\* the endpoint holds the lock, and the token is still the expired one.
RefreshDiscipline ==
    \A t \in Requesters :
        /\ task[t].pc \in {"refreshing", "writing"} => Holds(refreshQ, t)
        /\ task[t].pc = "refreshing" => Expired(session)

\* Every request ends.
RequestsEnd ==
    \A t \in Requesters : task[t].pc # "idle" ~> task[t].pc = "idle"
============================================================================
