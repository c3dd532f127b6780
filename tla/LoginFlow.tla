----------------------------- MODULE LoginFlow -----------------------------
(***************************************************************************)
(* Logging in: easy_client's choice between the stored token and a login,  *)
(* the login flow with its redirect server in a child process, the manual  *)
(* flow, and the exchange of what the redirect carries for a token         *)
(* (schwaby/auth.py).  Programs log in one attempt after another; several  *)
(* programs of one machine share the callback port with strangers, and a   *)
(* browser may finish any login late, twice or never.                      *)
(*                                                                         *)
(* Times are left to fairness: a deadline is an action that may happen     *)
(* whenever its wait has begun.  A killed server serves nothing more.      *)
(***************************************************************************)
EXTENDS Naturals, Sequences, FiniteSets

CONSTANTS
    Programs,       \* processes that log in
    Holders,        \* those that may keep a callback_socket between attempts
    MaxAttempt,     \* bound: attempts of a program
    MaxRedirect,    \* bound: redirects Schwab sends
    Timeouts        \* whether callback_timeout is not zero

ASSUME LoginAssumption ==
    /\ IsFiniteSet(Programs)
    /\ {"free", "remnant", "stranger", "catchall", "silent"} \cap Programs = {}
    /\ Holders \subseteq Programs
    /\ MaxAttempt \in Nat /\ MaxRedirect \in Nat
    /\ Timeouts \in BOOLEAN

\* A login is an attempt of a program; get_auth_context gives each a state.
Logins == Programs \X (1 .. MaxAttempt)
NoLogin == <<>>

\* What a browser brings to the callback URL: the login it belongs to, whether
\* it names that login's state, and what it carries.
Redirects == [login : Logins, stated : BOOLEAN,
              carries : {"code", "error", "fragment", "neither"}]
NoRedirect == [login |-> NoLogin, stated |-> FALSE, carries |-> "neither"]

Results == {"none", "client", "loaded", "badToken", "exited", "notReady",
            "stranger", "timeout", "declined", "badRedirect", "wrongState",
            "refused", "raised"}

VARIABLES
    pc,         \* [Programs -> where its login is]
    attempt,    \* [Programs -> logins started]
    result,     \* [Programs -> how the last one ended, or will]
    child,      \* [Programs -> its server process]
    queue,      \* [Programs -> output_queue: redirects its server received]
    received,   \* [Programs -> the redirect taken from it]
    answered,   \* [Programs -> history: who answered the probe of its login]
    stored,     \* [Programs -> the token file]
    port,       \* who has the callback port
    holding,    \* the program, if any, that keeps a socket bound to it
    backlog,    \* connections waiting on the held socket
    opened,     \* logins whose authorization URL a user has
    air,        \* redirects on their way
    sent,       \* number of redirects sent
    presented,  \* history: <<login, login of the code>> shown to the endpoint
    strayed     \* history: logins whose redirect reached another server while
                \* they waited for it, with who had answered their probe

ownVars == <<pc, attempt, result, child, queue, received, answered, stored>>
netVars == <<port, holding, backlog, opened, air, sent>>
vars == <<ownVars, netVars, presented, strayed>>

Login(p) == <<p, attempt[p]>>

\* Who may have the port: nobody; a server of ours that did not die in time; a
\* stranger whose server answers the status path with an error, one that
\* answers any path with 200, one that never answers; the child of a program,
\* or the program that holds a socket on it.
Strangers == {"stranger", "catchall", "silent"}
Owners == {"free", "remnant"} \cup Strangers \cup Programs

Init ==
    /\ pc = [p \in Programs |-> "idle"]
    /\ attempt = [p \in Programs |-> 0]
    /\ result = [p \in Programs |-> "none"]
    /\ child = [p \in Programs |-> "none"]
    /\ queue = [p \in Programs |-> <<>>]
    /\ received = [p \in Programs |-> NoRedirect]
    /\ answered = [p \in Programs |-> "free"]
    /\ stored \in [Programs -> {"absent", "fresh", "old", "bad"}]
    /\ port \in Holders \cup {"free"}
    /\ holding = {port} \cap Holders
    /\ backlog = <<>>
    /\ opened = {} /\ air = {} /\ sent = 0
    /\ presented = {} /\ strayed = {}

\* The login of p is over but for its server, if it has one.
Conclude(p, r) ==
    /\ result' = [result EXCEPT ![p] = r]
    /\ pc' = [pc EXCEPT ![p] = IF child[p] = "none" THEN "idle" ELSE "stopping"]

----------------------------------------------------------------------------
\* Starting

\* A new attempt: nothing of an earlier one is left in the program.
Fresh(p, place, server) ==
    /\ attempt' = [attempt EXCEPT ![p] = @ + 1]
    /\ pc' = [pc EXCEPT ![p] = place]
    /\ child' = [child EXCEPT ![p] = server]
    /\ queue' = [queue EXCEPT ![p] = <<>>]
    /\ received' = [received EXCEPT ![p] = NoRedirect]
    /\ answered' = [answered EXCEPT ![p] = "free"]
    /\ result' = [result EXCEPT ![p] = "none"]

\* client_from_login_flow: server.start().  A callback URL without a port is
\* port 443, where the server returns at once.
StartLogin(p) ==
    /\ pc[p] = "idle" /\ attempt[p] < MaxAttempt
    /\ \E server \in {"starting", "exited"} : Fresh(p, "probing", server)
    /\ UNCHANGED <<stored, netVars, presented, strayed>>

\* client_from_manual_flow, and get_auth_context for a callback of one's own:
\* no server; the user, or the web application, has the URL.
StartManual(p) ==
    /\ pc[p] = "idle" /\ attempt[p] < MaxAttempt
    /\ Fresh(p, "pasting", "none")
    /\ opened' = opened \cup {<<p, attempt[p] + 1>>}
    /\ UNCHANGED <<stored, port, holding, backlog, air, sent, presented,
                   strayed>>

\* easy_client: a stored token that is not too old gives a client, one that
\* does not load raises, and otherwise there is a login, in a notebook the
\* manual one.
EasyClient(p) ==
    /\ pc[p] = "idle"
    /\ \/ /\ stored[p] \in {"fresh", "bad"}
          /\ result' = [result EXCEPT ![p] =
                IF stored[p] = "fresh" THEN "loaded" ELSE "badToken"]
          /\ UNCHANGED <<pc, attempt, child, queue, received, answered, stored,
                         netVars, presented, strayed>>
       \/ stored[p] \in {"absent", "old"} /\ (StartLogin(p) \/ StartManual(p))

----------------------------------------------------------------------------
\* The redirect server, a child process

\* It serves on the held socket, or binds the port if nobody has it.
ServerUp(p) ==
    /\ child[p] = "starting" /\ port \in {"free", p}
    /\ child' = [child EXCEPT ![p] = "serving"]
    /\ port' = p
    /\ UNCHANGED <<pc, attempt, result, queue, received, answered, stored,
                   holding, backlog, opened, air, sent, presented, strayed>>

\* Address already in use.
ServerDown(p) ==
    /\ child[p] = "starting" /\ port \notin {"free", p}
    /\ child' = [child EXCEPT ![p] = "exited"]
    /\ UNCHANGED <<pc, attempt, result, queue, received, answered, stored,
                   netVars, presented, strayed>>

\* The owner of the port whose server answers there.
Answering(p) == port = p /\ child[p] = "serving"

\* handle_token, on what waited on the held socket.
ServeBacklog(p) ==
    /\ p \in holding /\ child[p] = "serving" /\ backlog # <<>>
    /\ queue' = [queue EXCEPT ![p] = Append(@, Head(backlog))]
    /\ backlog' = Tail(backlog)
    /\ UNCHANGED <<pc, attempt, result, child, received, answered, stored,
                   port, holding, opened, air, sent, presented, strayed>>

----------------------------------------------------------------------------
\* Waiting for the server

SeeExited(p) ==
    /\ pc[p] = "probing" /\ child[p] = "exited"
    /\ Conclude(p, "exited")
    /\ UNCHANGED <<attempt, child, queue, received, answered, stored, netVars,
                   presented, strayed>>

\* Mutant: there is no deadline.
StartupExpires_Never(p) == FALSE /\ UNCHANGED vars

\* SERVER_STARTUP_TIMEOUT.
StartupExpires(p) ==
    /\ pc[p] = "probing" /\ child[p] # "exited"
    /\ Conclude(p, "notReady")
    /\ UNCHANGED <<attempt, child, queue, received, answered, stored, netVars,
                   presented, strayed>>

\* Mutant: anything that answers is the server.
Welcome_Anyone(owner) == TRUE

\* The status path answers 200: that of any server of this library does, and
\* that of a server which answers so to every path.
Welcome(owner) == owner \in Programs \cup {"catchall"}

\* A probe that is answered.  One that is refused or not accepted in time is
\* repeated, one that is accepted and not answered raises.
Probe(p) ==
    /\ pc[p] = "probing" /\ child[p] # "exited"
    /\ \/ /\ port \in {"stranger", "catchall"} \/ \E q \in Programs : Answering(q)
          /\ answered' = [answered EXCEPT ![p] = port]
          /\ IF Welcome(port)
             THEN /\ pc' = [pc EXCEPT ![p] = "asking"]
                  /\ UNCHANGED result
             ELSE Conclude(p, "stranger")
       \/ port = "silent" /\ Conclude(p, "raised") /\ UNCHANGED answered
    /\ UNCHANGED <<attempt, child, queue, received, stored, netVars, presented,
                   strayed>>

\* The user presses ENTER, or there is no need to, and the browser opens.
OpenBrowser(p) ==
    /\ pc[p] = "asking"
    /\ pc' = [pc EXCEPT ![p] = "waiting"]
    /\ opened' = opened \cup {Login(p)}
    /\ UNCHANGED <<attempt, result, child, queue, received, answered, stored,
                   port, holding, backlog, air, sent, presented, strayed>>

----------------------------------------------------------------------------
\* Waiting for the redirect

\* Mutant: a redirect of another login is taken.
CarriesAnotherState_Never(p, r) == FALSE

\* _carries_another_state
CarriesAnotherState(p, r) == r.stated /\ r.login # Login(p)

\* output_queue.get()
TakeRedirect(p) ==
    /\ pc[p] = "waiting" /\ queue[p] # <<>>
    /\ queue' = [queue EXCEPT ![p] = Tail(@)]
    /\ LET r == Head(queue[p])
       IN  IF CarriesAnotherState(p, r)
           THEN UNCHANGED <<pc, received>>
           ELSE /\ received' = [received EXCEPT ![p] = r]
                /\ pc' = [pc EXCEPT ![p] = "checking"]
    /\ UNCHANGED <<attempt, result, child, answered, stored, netVars,
                   presented, strayed>>

CallbackTimeout(p) ==
    /\ Timeouts /\ pc[p] = "waiting"
    /\ Conclude(p, "timeout")
    /\ UNCHANGED <<attempt, child, queue, received, answered, stored, netVars,
                   presented, strayed>>

\* The user pastes a redirect: of this login, or of any that was sent.
Paste(p, r) ==
    /\ pc[p] = "pasting" /\ r \in air
    /\ air' = air \ {r}
    /\ received' = [received EXCEPT ![p] = r]
    /\ pc' = [pc EXCEPT ![p] = "checking"]
    /\ UNCHANGED <<attempt, result, child, queue, answered, stored, port,
                   holding, backlog, opened, sent, presented, strayed>>

\* KeyboardInterrupt, or no browser to open.
Interrupt(p) ==
    /\ pc[p] \in {"probing", "asking", "waiting", "pasting"}
    /\ Conclude(p, "raised")
    /\ UNCHANGED <<attempt, child, queue, received, answered, stored, netVars,
                   presented, strayed>>

----------------------------------------------------------------------------
\* client_from_received_url

\* Mutant: the exchange is not told the state.
StateMatches_NotAsked(p, r) == TRUE

\* authlib, given auth_context.state, asks for it in the redirect.
StateMatches(p, r) == r.stated /\ r.login = Login(p)

\* What is refused here without asking the endpoint.
Misfit(p, r) ==
    CASE r.carries = "error" -> "declined"
      [] r.carries \in {"fragment", "neither"} -> "badRedirect"
      [] r.carries = "code" -> IF StateMatches(p, r) THEN "none"
                               ELSE "wrongState"

Check(p) ==
    /\ pc[p] = "checking"
    /\ LET r == received[p]
       IN  IF Misfit(p, r) # "none"
           THEN Conclude(p, Misfit(p, r)) /\ UNCHANGED presented
           ELSE /\ pc' = [pc EXCEPT ![p] = "exchanging"]
                /\ presented' = presented \cup {<<Login(p), r.login>>}
                /\ UNCHANGED result
    /\ UNCHANGED <<attempt, child, queue, received, answered, stored, netVars,
                   strayed>>

\* A token that the hook lets through; the first write follows.
Exchanged(p) ==
    /\ pc[p] = "exchanging"
    /\ pc' = [pc EXCEPT ![p] = "storing"]
    /\ UNCHANGED <<attempt, result, child, queue, received, answered, stored,
                   netVars, presented, strayed>>

\* The endpoint or the hook refuses, or nothing answers.
ExchangeFails(p) ==
    /\ pc[p] = "exchanging"
    /\ \E r \in {"refused", "raised"} : Conclude(p, r)
    /\ UNCHANGED <<attempt, child, queue, received, answered, stored, netVars,
                   presented, strayed>>

\* The write returns or raises; TokenFile says what a write that raises leaves.
Store(p) ==
    /\ pc[p] = "storing"
    /\ \/ Conclude(p, "client") /\ stored' = [stored EXCEPT ![p] = "fresh"]
       \/ Conclude(p, "raised")
          /\ \E s \in {stored[p], "fresh"} : stored' = [stored EXCEPT ![p] = s]
    /\ UNCHANGED <<attempt, child, queue, received, answered, netVars,
                   presented, strayed>>

----------------------------------------------------------------------------
\* Leaving callback_server()

\* kill() and join(10): the port is free, unless the server does not die in
\* time.  A held socket stays.
Stop(p) ==
    /\ pc[p] = "stopping"
    /\ pc' = [pc EXCEPT ![p] = "idle"]
    /\ child' = [child EXCEPT ![p] = "none"]
    /\ IF port = p /\ p \notin holding THEN port' \in {"free", "remnant"}
       ELSE UNCHANGED port
    /\ UNCHANGED <<attempt, result, queue, received, answered, stored, holding,
                   backlog, opened, air, sent, presented, strayed>>

----------------------------------------------------------------------------
\* The machine, the browsers and Schwab

\* Strangers come to a port that is free, and go.
Stranger ==
    /\ \/ port = "free" /\ port' \in Strangers
       \/ port \in Strangers \cup {"remnant"} /\ port' = "free"
    /\ UNCHANGED <<ownVars, holding, backlog, opened, air, sent, presented,
                   strayed>>

\* Schwab sends the browser of some login back, at any time after it opened.
SendRedirect(r) ==
    /\ r.login \in opened /\ sent < MaxRedirect
    /\ air' = air \cup {r}
    /\ sent' = sent + 1
    /\ UNCHANGED <<ownVars, port, holding, backlog, opened, presented,
                   strayed>>

\* The browser reaches whoever has the port: a server of ours, the queue of a
\* held socket, a stranger, or nobody.
Arrive(r) ==
    /\ r \in air
    /\ air' = air \ {r}
    /\ \/ /\ \E p \in Programs :
                Answering(p) /\ queue' = [queue EXCEPT ![p] = Append(@, r)]
          /\ UNCHANGED backlog
       \/ /\ port \in holding /\ child[port] # "serving"
          /\ backlog' = Append(backlog, r)
          /\ UNCHANGED queue
       \/ /\ port \in Strangers \cup {"free", "remnant"}
          /\ UNCHANGED <<queue, backlog>>
    /\ LET p == r.login[1]
       IN  strayed' = IF /\ pc[p] = "waiting" /\ r.login = Login(p)
                         /\ port \notin {p, "free", "remnant"}
                      THEN strayed \cup {<<r.login, answered[p]>>} ELSE strayed
    /\ UNCHANGED <<pc, attempt, result, child, received, answered, stored,
                   port, holding, opened, sent, presented>>

\* A stored token passes max_token_age.
Ages(p) ==
    /\ pc[p] = "idle" /\ stored[p] = "fresh"
    /\ stored' = [stored EXCEPT ![p] = "old"]
    /\ UNCHANGED <<pc, attempt, result, child, queue, received, answered,
                   netVars, presented, strayed>>

ServerStep(p) == ServerUp(p) \/ ServerDown(p) \/ ServeBacklog(p)

\* What the program does without anyone: every wait of it has an end, but the
\* one for the callback when callback_timeout is zero.
FlowStep(p) ==
    \/ SeeExited(p) \/ StartupExpires(p) \/ Probe(p) \/ OpenBrowser(p)
    \/ TakeRedirect(p) \/ CallbackTimeout(p)
    \/ Check(p) \/ Exchanged(p) \/ ExchangeFails(p) \/ Store(p) \/ Stop(p)

Next ==
    \/ \E p \in Programs :
          \/ StartLogin(p) \/ StartManual(p) \/ EasyClient(p)
          \/ ServerStep(p) \/ FlowStep(p) \/ Interrupt(p) \/ Ages(p)
          \/ \E r \in air : Paste(p, r)
    \/ Stranger
    \/ \E r \in Redirects : SendRedirect(r)
    \/ \E r \in air : Arrive(r)

Spec == Init /\ [][Next]_vars

\* Interactively OpenBrowser is the user's, and not fair.
LiveSpec == Spec /\ \A p \in Programs : WF_vars(FlowStep(p))

----------------------------------------------------------------------------
\* No login shows the endpoint the code of another one, in whatever order the
\* browsers come back and whatever they bring: a client belongs to the user
\* who finished this login.
OwnCode == \A pair \in presented : pair[1] = pair[2]

\* A redirect of another login - a late browser, or one that waited on the held
\* socket - does not spend this one, whatever it carries, as long as it names
\* its state: what ends a login as an attack, as declined or as no redirect
\* names no state, or the login's own (_carries_another_state).
NotSpent ==
    \A p \in Programs :
        child[p] # "none" /\ received[p].stated =>
            /\ result[p] # "wrongState"
            /\ result[p] \in {"declined", "badRedirect"} => received[p].login = Login(p)

\* The callback port.  Whoever comes to it and goes: the redirect of a login that
\* waits reaches another server only if, before the browser opened, that or yet
\* another one answered the status path with 200 in place of the login's own.  And
\* a program between logins has no server, and no hold on the port but the
\* socket it keeps (client_from_login_flow, callback_server).
PortInHand ==
    /\ \A stray \in strayed :
          stray[2] \in (Programs \ {stray[1][1]}) \cup {"catchall"}
    /\ \A p \in Programs :
          pc[p] \in {"idle", "pasting"} =>
              child[p] = "none" /\ (port = p => p \in holding)

\* Every login that has a server ends.
LoginsEnd ==
    \A p \in Programs :
        pc[p] \notin {"idle", "pasting"} ~> pc[p] = "idle"
============================================================================
