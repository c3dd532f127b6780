-------------------------- MODULE LoginFlowProofs --------------------------
(***************************************************************************)
(* Proofs about LoginFlow, for any number of programs, attempts and        *)
(* redirects: no login shows the endpoint the code of another one, a late  *)
(* redirect does not spend the login that meets it, a login that ended has *)
(* no server and only the socket it keeps, and a redirect reaches another  *)
(* server only past a 200 of another server on the status path.            *)
(***************************************************************************)
EXTENDS LoginFlow, FiniteSetTheorems, TLAPS

Places == {"idle", "probing", "asking", "waiting", "pasting", "checking",
           "exchanging", "storing", "stopping"}
Children == {"none", "starting", "serving", "exited"}
Carried == {"code", "error", "fragment", "neither"}

\* What is in every variable the properties read.
Types ==
    /\ pc \in [Programs -> Places]
    /\ attempt \in [Programs -> Nat]
    /\ result \in [Programs -> Results]
    /\ child \in [Programs -> Children]
    /\ queue \in [Programs -> Seq(Redirects)]
    /\ received \in [Programs -> Redirects \cup {NoRedirect}]
    /\ answered \in [Programs -> Owners]
    /\ port \in Owners
    /\ backlog \in Seq(Redirects)
    /\ air \in SUBSET Redirects

\* A login has no result before it is over, and a program between logins, or
\* whose user pastes, has no server.
PhaseInv ==
    \A p \in Programs :
        /\ pc[p] \notin {"idle", "stopping"} => result[p] = "none"
        /\ pc[p] \in {"idle", "pasting"} => child[p] = "none"

\* What a login with a server takes up names its own state or none.
ReceivedInv ==
    \A p \in Programs :
        child[p] # "none" =>
            /\ pc[p] = "checking" => ~CarriesAnotherState(p, received[p])
            /\ received[p].stated =>
                  /\ result[p] # "wrongState"
                  /\ result[p] \in {"declined", "badRedirect"}
                        => received[p].login = Login(p)

\* The port is a program's while that serves, or for good.  A login whose own
\* server answered the probe has the port to the end of its wait; any other was
\* answered by another program's server or by one that answers everything.
PortInv ==
    /\ \A p \in Programs : port = p => child[p] = "serving" \/ p \in holding
    /\ \A p \in Programs : pc[p] \in {"asking", "waiting"} =>
          /\ answered[p] \in Programs \cup {"catchall"}
          /\ answered[p] = p => port = p
    /\ \A stray \in strayed :
          stray[2] \in (Programs \ {stray[1][1]}) \cup {"catchall"}

LoginInv == Types /\ PhaseInv /\ ReceivedInv /\ PortInv /\ OwnCode

----------------------------------------------------------------------------
\* What a redirect is

\* A redirect carries one of four things, and so does what a login has
\* received, which may be nothing.
LEMMA RedirectTypes ==
    /\ NoRedirect.carries \in Carried
    /\ \A r \in Redirects : r.carries \in Carried
<1>1. NoRedirect.carries \in Carried
  BY DEF NoRedirect, Carried
<1>2. ASSUME NEW r \in Redirects PROVE r.carries \in Carried
  <2>1. r \in [login : Logins, stated : BOOLEAN, carries : Carried]
    BY DEF Redirects, Carried
  <2> QED
    BY <2>1
<1> QED
  BY <1>1, <1>2

\* A queue that a redirect joins, or whose first one is taken, is one of
\* redirects (output_queue, and the backlog of the held socket).
LEMMA QueueTypes ==
    ASSUME NEW q \in Seq(Redirects)
    PROVE  /\ \A r \in Redirects : Append(q, r) \in Seq(Redirects)
           /\ q # <<>> => Head(q) \in Redirects /\ Tail(q) \in Seq(Redirects)
OBVIOUS

\* A redirect is shown to the endpoint only if it names the state of the login
\* that shows it (client_from_received_url).
LEMMA ShownIsOwn ==
    ASSUME NEW p, NEW r \in Redirects \cup {NoRedirect}, Misfit(p, r) = "none"
    PROVE  r.login = Login(p)
<1>1. r.carries \in Carried
  BY RedirectTypes
<1> QED
  BY <1>1 DEF Misfit, StateMatches, Carried

\* What ends a login whose server let it through names no state or its own.
LEMMA LetThrough ==
    ASSUME NEW p, NEW r \in Redirects \cup {NoRedirect},
           ~CarriesAnotherState(p, r), r.stated
    PROVE  r.login = Login(p) /\ Misfit(p, r) # "wrongState"
<1>1. r.carries \in Carried
  BY RedirectTypes
<1>2. r.login = Login(p)
  BY DEF CarriesAnotherState
<1> QED
  BY <1>1, <1>2 DEF Misfit, StateMatches, Carried

\* What a check concludes is a result.
LEMMA MisfitTypes ==
    ASSUME NEW p, NEW r \in Redirects \cup {NoRedirect}
    PROVE  Misfit(p, r) \in Results
<1>1. r.carries \in Carried
  BY RedirectTypes
<1> QED
  BY <1>1 DEF Misfit, Carried, Results

\* No word for another owner of the port is a program.
LEMMA OwnersApart ==
    \A p \in Programs :
        p # "free" /\ p # "remnant" /\ p # "stranger" /\ p # "catchall" /\ p # "silent"
BY LoginAssumption

----------------------------------------------------------------------------
\* Types

\* The first state has them.
LEMMA InitTypes == Init => Types
<1> SUFFICES ASSUME Init PROVE Types
  OBVIOUS
<1>1. port \in Owners /\ "free" \in Owners
  BY LoginAssumption DEF Init, Owners
<1>2. backlog \in Seq(Redirects) /\ queue \in [Programs -> Seq(Redirects)]
  BY DEF Init
<1> QED
  BY <1>1, <1>2 DEF Init, Types, Places, Results, Children

\* A login that is concluded has a result and a place.
LEMMA ConcludeTypes ==
    ASSUME Types, NEW p \in Programs, NEW r \in Results, Conclude(p, r)
    PROVE  pc' \in [Programs -> Places] /\ result' \in [Programs -> Results]
BY DEF Types, Conclude, Places

\* So has one that starts.
LEMMA FreshTypes ==
    ASSUME Types, NEW p \in Programs, NEW place \in Places,
           NEW server \in Children, Fresh(p, place, server)
    PROVE  /\ pc' \in [Programs -> Places] /\ attempt' \in [Programs -> Nat]
           /\ result' \in [Programs -> Results]
           /\ child' \in [Programs -> Children]
           /\ queue' \in [Programs -> Seq(Redirects)]
           /\ received' \in [Programs -> Redirects \cup {NoRedirect}]
           /\ answered' \in [Programs -> Owners]
<1>1. <<>> \in Seq(Redirects) /\ "none" \in Results /\ "free" \in Owners
  BY DEF Results, Owners
<1> QED
  BY <1>1 DEF Types, Fresh

\* Every step of a program keeps them.
LEMMA ProgramTypes ==
    ASSUME Types, NEW p \in Programs,
           \/ StartLogin(p) \/ StartManual(p) \/ EasyClient(p)
           \/ ServerStep(p) \/ FlowStep(p) \/ Interrupt(p) \/ Ages(p)
           \/ \E r \in air : Paste(p, r)
    PROVE  Types'
<1>1. ASSUME StartLogin(p) PROVE Types'
  BY <1>1, FreshTypes DEF StartLogin, netVars, Types, Places, Children
<1>2. ASSUME StartManual(p) PROVE Types'
  BY <1>2, FreshTypes DEF StartManual, Types, Places, Children
<1>3. ASSUME EasyClient(p) PROVE Types'
  <2>1. CASE stored[p] \in {"fresh", "bad"}
    BY <1>3, <2>1 DEF EasyClient, Types, netVars, Results
  <2>2. CASE stored[p] \in {"absent", "old"} /\ (StartLogin(p) \/ StartManual(p))
    BY <2>2, <1>1, <1>2
  <2> QED
    BY <1>3, <2>1, <2>2 DEF EasyClient
<1>4. ASSUME ServerUp(p) PROVE Types'
  BY <1>4 DEF ServerUp, Types, netVars, Places, Children, Owners
<1>5. ASSUME ServerDown(p) PROVE Types'
  BY <1>5 DEF ServerDown, Types, netVars, Places, Children, Owners
<1>6. ASSUME ServeBacklog(p) PROVE Types'
  <2>1. Head(backlog) \in Redirects /\ Tail(backlog) \in Seq(Redirects)
    BY <1>6, QueueTypes DEF ServeBacklog, Types
  <2>2. Append(queue[p], Head(backlog)) \in Seq(Redirects)
    BY <2>1, QueueTypes DEF Types
  <2> QED
    BY <1>6, <2>1, <2>2 DEF ServeBacklog, Types
<1>7. ASSUME SeeExited(p) PROVE Types'
  BY <1>7, ConcludeTypes DEF SeeExited, Types, netVars, Results, Places
<1>8. ASSUME StartupExpires(p) PROVE Types'
  BY <1>8, ConcludeTypes DEF StartupExpires, Types, netVars, Results, Places
<1>9. ASSUME Probe(p) PROVE Types'
  BY <1>9, ConcludeTypes DEF Probe, Types, netVars, Results, Places
<1>10. ASSUME OpenBrowser(p) PROVE Types'
  BY <1>10 DEF OpenBrowser, Types, netVars, Places, Children, Owners
<1>11. ASSUME TakeRedirect(p) PROVE Types'
  <2>1. Head(queue[p]) \in Redirects /\ Tail(queue[p]) \in Seq(Redirects)
    BY <1>11, QueueTypes DEF TakeRedirect, Types
  <2> QED
    BY <1>11, <2>1 DEF TakeRedirect, Types, netVars, Places
<1>12. ASSUME CallbackTimeout(p) PROVE Types'
  BY <1>12, ConcludeTypes DEF CallbackTimeout, Types, netVars, Results, Places
<1>13. ASSUME Check(p) PROVE Types'
  <2>1. received[p] \in Redirects \cup {NoRedirect}
    BY DEF Types
  <2>2. Misfit(p, received[p]) \in Results
    BY <2>1, MisfitTypes
  <2> QED
    BY <1>13, <2>2, ConcludeTypes DEF Check, Types, netVars, Places
<1>14. ASSUME Exchanged(p) PROVE Types'
  BY <1>14 DEF Exchanged, Types, netVars, Places, Children, Owners
<1>15. ASSUME ExchangeFails(p) PROVE Types'
  BY <1>15, ConcludeTypes DEF ExchangeFails, Types, netVars, Results, Places
<1>16. ASSUME Store(p) PROVE Types'
  BY <1>16, ConcludeTypes DEF Store, Types, netVars, Results, Places
<1>17. ASSUME Stop(p) PROVE Types'
  BY <1>17 DEF Stop, Types, netVars, Places, Children, Owners
<1>18. ASSUME Interrupt(p) PROVE Types'
  BY <1>18, ConcludeTypes DEF Interrupt, Types, netVars, Results, Places
<1>19. ASSUME Ages(p) PROVE Types'
  BY <1>19 DEF Ages, Types, netVars, Places, Children, Owners
<1>20. ASSUME NEW r \in air, Paste(p, r) PROVE Types'
  <2>1. r \in Redirects
    BY DEF Types
  <2> QED
    BY <1>20, <2>1 DEF Paste, Types, Places
<1> QED
  BY <1>1, <1>2, <1>3, <1>4, <1>5, <1>6, <1>7, <1>8, <1>9, <1>10, <1>11, <1>12, <1>13, <1>14, <1>15, <1>16, <1>17, <1>18, <1>19, <1>20 DEF ServerStep, FlowStep

\* So do the strangers, Schwab and the browsers.
LEMMA WorldTypes ==
    ASSUME Types,
           \/ Stranger
           \/ \E r \in Redirects : SendRedirect(r)
           \/ \E r \in air : Arrive(r)
    PROVE  Types'
<1>1. ASSUME Stranger PROVE Types'
  BY <1>1 DEF Stranger, Types, ownVars, Owners, Strangers
<1>2. ASSUME NEW r \in Redirects, SendRedirect(r) PROVE Types'
  BY <1>2 DEF SendRedirect, Types, ownVars
<1>3. ASSUME NEW r \in air, Arrive(r) PROVE Types'
  <2>1. r \in Redirects
    BY DEF Types
  <2>2. backlog' \in Seq(Redirects)
    BY <1>3, <2>1, QueueTypes DEF Arrive, Types
  <2>3. queue' \in [Programs -> Seq(Redirects)]
    <3>1. CASE UNCHANGED queue
      BY <3>1 DEF Types
    <3>2. ASSUME NEW p \in Programs, queue' = [queue EXCEPT ![p] = Append(@, r)]
          PROVE  queue' \in [Programs -> Seq(Redirects)]
      <4>1. Append(queue[p], r) \in Seq(Redirects)
        BY <2>1, QueueTypes DEF Types
      <4> QED
        BY <3>2, <4>1 DEF Types
    <3> QED
      BY <1>3, <3>1, <3>2 DEF Arrive
  <2> QED
    BY <1>3, <2>2, <2>3 DEF Arrive, Types
<1> QED
  BY <1>1, <1>2, <1>3

----------------------------------------------------------------------------
\* The parts of the invariant

\* No step of a program gives a login a result early, or leaves it a server.
LEMMA ProgramPhase ==
    ASSUME Types, PhaseInv, NEW p \in Programs,
           \/ StartLogin(p) \/ StartManual(p) \/ EasyClient(p)
           \/ ServerStep(p) \/ FlowStep(p) \/ Interrupt(p) \/ Ages(p)
           \/ \E r \in air : Paste(p, r)
    PROVE  PhaseInv'
<1>1. ASSUME StartLogin(p) PROVE PhaseInv'
  BY <1>1 DEF StartLogin, Fresh, netVars, Types, PhaseInv
<1>2. ASSUME StartManual(p) PROVE PhaseInv'
  BY <1>2 DEF StartManual, Fresh, netVars, Types, PhaseInv
<1>3. ASSUME EasyClient(p) PROVE PhaseInv'
  <2>1. CASE stored[p] \in {"fresh", "bad"}
    BY <1>3, <2>1 DEF EasyClient, netVars, Types, PhaseInv
  <2>2. CASE stored[p] \in {"absent", "old"} /\ (StartLogin(p) \/ StartManual(p))
    BY <2>2, <1>1, <1>2
  <2> QED
    BY <1>3, <2>1, <2>2 DEF EasyClient
<1>4. ASSUME ServerUp(p) PROVE PhaseInv'
  BY <1>4 DEF ServerUp, netVars, Types, PhaseInv
<1>5. ASSUME ServerDown(p) PROVE PhaseInv'
  BY <1>5 DEF ServerDown, netVars, Types, PhaseInv
<1>6. ASSUME ServeBacklog(p) PROVE PhaseInv'
  BY <1>6 DEF ServeBacklog, netVars, Types, PhaseInv
<1>7. ASSUME SeeExited(p) PROVE PhaseInv'
  BY <1>7 DEF SeeExited, Conclude, netVars, Types, PhaseInv
<1>8. ASSUME StartupExpires(p) PROVE PhaseInv'
  BY <1>8 DEF StartupExpires, Conclude, netVars, Types, PhaseInv
<1>9. ASSUME Probe(p) PROVE PhaseInv'
  BY <1>9 DEF Probe, Conclude, netVars, Types, PhaseInv
<1>10. ASSUME OpenBrowser(p) PROVE PhaseInv'
  BY <1>10 DEF OpenBrowser, netVars, Types, PhaseInv
<1>11. ASSUME TakeRedirect(p) PROVE PhaseInv'
  BY <1>11 DEF TakeRedirect, netVars, Types, PhaseInv
<1>12. ASSUME CallbackTimeout(p) PROVE PhaseInv'
  BY <1>12 DEF CallbackTimeout, Conclude, netVars, Types, PhaseInv
<1>13. ASSUME Check(p) PROVE PhaseInv'
  BY <1>13 DEF Check, Conclude, netVars, Types, PhaseInv
<1>14. ASSUME Exchanged(p) PROVE PhaseInv'
  BY <1>14 DEF Exchanged, netVars, Types, PhaseInv
<1>15. ASSUME ExchangeFails(p) PROVE PhaseInv'
  BY <1>15 DEF ExchangeFails, Conclude, netVars, Types, PhaseInv
<1>16. ASSUME Store(p) PROVE PhaseInv'
  BY <1>16 DEF Store, Conclude, netVars, Types, PhaseInv
<1>17. ASSUME Stop(p) PROVE PhaseInv'
  BY <1>17 DEF Stop, netVars, Types, PhaseInv
<1>18. ASSUME Interrupt(p) PROVE PhaseInv'
  BY <1>18 DEF Interrupt, Conclude, netVars, Types, PhaseInv
<1>19. ASSUME Ages(p) PROVE PhaseInv'
  BY <1>19 DEF Ages, netVars, Types, PhaseInv
<1>20. ASSUME NEW r \in air, Paste(p, r) PROVE PhaseInv'
  BY <1>20 DEF Paste, Types, PhaseInv
<1> QED
  BY <1>1, <1>2, <1>3, <1>4, <1>5, <1>6, <1>7, <1>8, <1>9, <1>10, <1>11, <1>12, <1>13, <1>14, <1>15, <1>16, <1>17, <1>18, <1>19, <1>20 DEF ServerStep, FlowStep

\* No step of a program has a login spent on a redirect of another one.
LEMMA ProgramReceived ==
    ASSUME Types, PhaseInv, ReceivedInv, NEW p \in Programs,
           \/ StartLogin(p) \/ StartManual(p) \/ EasyClient(p)
           \/ ServerStep(p) \/ FlowStep(p) \/ Interrupt(p) \/ Ages(p)
           \/ \E r \in air : Paste(p, r)
    PROVE  ReceivedInv'
<1>1. ASSUME StartLogin(p) PROVE ReceivedInv'
  BY <1>1 DEF StartLogin, Fresh, netVars, Types, PhaseInv, ReceivedInv, CarriesAnotherState, Login
<1>2. ASSUME StartManual(p) PROVE ReceivedInv'
  BY <1>2 DEF StartManual, Fresh, netVars, Types, PhaseInv, ReceivedInv, CarriesAnotherState, Login
<1>3. ASSUME EasyClient(p) PROVE ReceivedInv'
  <2>1. CASE stored[p] \in {"fresh", "bad"}
    BY <1>3, <2>1 DEF EasyClient, netVars, Types, PhaseInv, ReceivedInv, CarriesAnotherState, Login
  <2>2. CASE stored[p] \in {"absent", "old"} /\ (StartLogin(p) \/ StartManual(p))
    BY <2>2, <1>1, <1>2
  <2> QED
    BY <1>3, <2>1, <2>2 DEF EasyClient
<1>4. ASSUME ServerUp(p) PROVE ReceivedInv'
  BY <1>4 DEF ServerUp, netVars, Types, PhaseInv, ReceivedInv, CarriesAnotherState, Login
<1>5. ASSUME ServerDown(p) PROVE ReceivedInv'
  BY <1>5 DEF ServerDown, netVars, Types, PhaseInv, ReceivedInv, CarriesAnotherState, Login
<1>6. ASSUME ServeBacklog(p) PROVE ReceivedInv'
  BY <1>6 DEF ServeBacklog, netVars, Types, PhaseInv, ReceivedInv, CarriesAnotherState, Login
<1>7. ASSUME SeeExited(p) PROVE ReceivedInv'
  BY <1>7 DEF SeeExited, Conclude, netVars, Types, PhaseInv, ReceivedInv, CarriesAnotherState, Login
<1>8. ASSUME StartupExpires(p) PROVE ReceivedInv'
  BY <1>8 DEF StartupExpires, Conclude, netVars, Types, PhaseInv, ReceivedInv, CarriesAnotherState, Login
<1>9. ASSUME Probe(p) PROVE ReceivedInv'
  BY <1>9 DEF Probe, Conclude, netVars, Types, PhaseInv, ReceivedInv, CarriesAnotherState, Login
<1>10. ASSUME OpenBrowser(p) PROVE ReceivedInv'
  BY <1>10 DEF OpenBrowser, netVars, Types, PhaseInv, ReceivedInv, CarriesAnotherState, Login
<1>11. ASSUME TakeRedirect(p) PROVE ReceivedInv'
  BY <1>11 DEF TakeRedirect, netVars, Types, PhaseInv, ReceivedInv, CarriesAnotherState, Login
<1>12. ASSUME CallbackTimeout(p) PROVE ReceivedInv'
  BY <1>12 DEF CallbackTimeout, Conclude, netVars, Types, PhaseInv, ReceivedInv, CarriesAnotherState, Login
<1>13. ASSUME Check(p) PROVE ReceivedInv'
  <2> DEFINE r == received[p]
  <2>1. r \in Redirects \cup {NoRedirect}
    BY DEF Types
  <2>2. child[p] # "none" /\ r.stated => r.login = Login(p) /\ Misfit(p, r) # "wrongState"
    BY <1>13, <2>1, LetThrough DEF Check, ReceivedInv
  <2> HIDE DEF r
  <2>3. \A q \in Programs : /\ CarriesAnotherState(q, received[q])' <=> CarriesAnotherState(q, received[q])
                            /\ Login(q)' = Login(q)
    BY <1>13 DEF Check, CarriesAnotherState, Login
  <2>4. result' = [result EXCEPT ![p] = Misfit(p, r)] \/ UNCHANGED result
    BY <1>13 DEF Check, Conclude, r
  <2>5. pc'[p] # "checking" /\ (\A q \in Programs : q # p => pc'[q] = pc[q]) /\ UNCHANGED <<received, child>>
    BY <1>13 DEF Check, Conclude, Types
  <2> QED
    BY <1>13, <2>2, <2>3, <2>4, <2>5 DEF Check, Types, ReceivedInv, r
<1>14. ASSUME Exchanged(p) PROVE ReceivedInv'
  BY <1>14 DEF Exchanged, netVars, Types, PhaseInv, ReceivedInv, CarriesAnotherState, Login
<1>15. ASSUME ExchangeFails(p) PROVE ReceivedInv'
  BY <1>15 DEF ExchangeFails, Conclude, netVars, Types, PhaseInv, ReceivedInv, CarriesAnotherState, Login
<1>16. ASSUME Store(p) PROVE ReceivedInv'
  BY <1>16 DEF Store, Conclude, netVars, Types, PhaseInv, ReceivedInv, CarriesAnotherState, Login
<1>17. ASSUME Stop(p) PROVE ReceivedInv'
  BY <1>17 DEF Stop, netVars, Types, PhaseInv, ReceivedInv, CarriesAnotherState, Login
<1>18. ASSUME Interrupt(p) PROVE ReceivedInv'
  BY <1>18 DEF Interrupt, Conclude, netVars, Types, PhaseInv, ReceivedInv, CarriesAnotherState, Login
<1>19. ASSUME Ages(p) PROVE ReceivedInv'
  BY <1>19 DEF Ages, netVars, Types, PhaseInv, ReceivedInv, CarriesAnotherState, Login
<1>20. ASSUME NEW r \in air, Paste(p, r) PROVE ReceivedInv'
  BY <1>20 DEF Paste, Types, PhaseInv, ReceivedInv, CarriesAnotherState, Login
<1> QED
  BY <1>1, <1>2, <1>3, <1>4, <1>5, <1>6, <1>7, <1>8, <1>9, <1>10, <1>11, <1>12, <1>13, <1>14, <1>15, <1>16, <1>17, <1>18, <1>19, <1>20 DEF ServerStep, FlowStep

\* No step of a program lets go of the port it waits at, or keeps it longer.
LEMMA ProgramPort ==
    ASSUME Types, PhaseInv, PortInv, NEW p \in Programs,
           \/ StartLogin(p) \/ StartManual(p) \/ EasyClient(p)
           \/ ServerStep(p) \/ FlowStep(p) \/ Interrupt(p) \/ Ages(p)
           \/ \E r \in air : Paste(p, r)
    PROVE  PortInv'
<1>1. ASSUME StartLogin(p) PROVE PortInv'
  BY <1>1 DEF StartLogin, Fresh, netVars, Types, PhaseInv, PortInv
<1>2. ASSUME StartManual(p) PROVE PortInv'
  BY <1>2 DEF StartManual, Fresh, netVars, Types, PhaseInv, PortInv
<1>3. ASSUME EasyClient(p) PROVE PortInv'
  <2>1. CASE stored[p] \in {"fresh", "bad"}
    BY <1>3, <2>1 DEF EasyClient, netVars, Types, PortInv
  <2>2. CASE stored[p] \in {"absent", "old"} /\ (StartLogin(p) \/ StartManual(p))
    BY <2>2, <1>1, <1>2
  <2> QED
    BY <1>3, <2>1, <2>2 DEF EasyClient
<1>4. ASSUME ServerUp(p) PROVE PortInv'
  BY <1>4, OwnersApart DEF ServerUp, netVars, Types, PortInv
<1>5. ASSUME ServerDown(p) PROVE PortInv'
  BY <1>5, OwnersApart DEF ServerDown, netVars, Types, PortInv
<1>6. ASSUME ServeBacklog(p) PROVE PortInv'
  BY <1>6 DEF ServeBacklog, netVars, Types, PortInv
<1>7. ASSUME SeeExited(p) PROVE PortInv'
  BY <1>7 DEF SeeExited, Conclude, netVars, Types, PortInv
<1>8. ASSUME StartupExpires(p) PROVE PortInv'
  BY <1>8 DEF StartupExpires, Conclude, netVars, Types, PortInv
<1>9. ASSUME Probe(p) PROVE PortInv'
  <2>1. UNCHANGED <<child, port, holding, strayed>>
    BY <1>9 DEF Probe, netVars
  <2>2. ASSUME NEW q \in Programs, pc'[q] \in {"asking", "waiting"}
        PROVE  /\ answered'[q] \in Programs \cup {"catchall"}
               /\ answered'[q] = q => port = q
    <3>1. CASE q = p
      BY <1>9, <2>2, <3>1 DEF Probe, Conclude, Welcome, Types
    <3>2. CASE q # p
      BY <1>9, <2>2, <3>2 DEF Probe, Conclude, Types, PortInv
    <3> QED
      BY <3>1, <3>2
  <2> QED
    BY <2>1, <2>2 DEF PortInv
<1>10. ASSUME OpenBrowser(p) PROVE PortInv'
  BY <1>10 DEF OpenBrowser, netVars, Types, PortInv
<1>11. ASSUME TakeRedirect(p) PROVE PortInv'
  BY <1>11 DEF TakeRedirect, netVars, Types, PortInv
<1>12. ASSUME CallbackTimeout(p) PROVE PortInv'
  BY <1>12 DEF CallbackTimeout, Conclude, netVars, Types, PortInv
<1>13. ASSUME Check(p) PROVE PortInv'
  BY <1>13 DEF Check, Conclude, netVars, Types, PortInv
<1>14. ASSUME Exchanged(p) PROVE PortInv'
  BY <1>14 DEF Exchanged, netVars, Types, PortInv
<1>15. ASSUME ExchangeFails(p) PROVE PortInv'
  BY <1>15 DEF ExchangeFails, Conclude, netVars, Types, PortInv
<1>16. ASSUME Store(p) PROVE PortInv'
  BY <1>16 DEF Store, Conclude, netVars, Types, PortInv
<1>17. ASSUME Stop(p) PROVE PortInv'
  BY <1>17, OwnersApart DEF Stop, netVars, Types, PortInv
<1>18. ASSUME Interrupt(p) PROVE PortInv'
  BY <1>18 DEF Interrupt, Conclude, netVars, Types, PortInv
<1>19. ASSUME Ages(p) PROVE PortInv'
  BY <1>19 DEF Ages, netVars, Types, PortInv
<1>20. ASSUME NEW r \in air, Paste(p, r) PROVE PortInv'
  BY <1>20 DEF Paste, Types, PortInv
<1> QED
  BY <1>1, <1>2, <1>3, <1>4, <1>5, <1>6, <1>7, <1>8, <1>9, <1>10, <1>11, <1>12, <1>13, <1>14, <1>15, <1>16, <1>17, <1>18, <1>19, <1>20 DEF ServerStep, FlowStep

\* The endpoint is shown only what Check lets through.
LEMMA ProgramCode ==
    ASSUME Types, OwnCode, NEW p \in Programs,
           \/ StartLogin(p) \/ StartManual(p) \/ EasyClient(p)
           \/ ServerStep(p) \/ FlowStep(p) \/ Interrupt(p) \/ Ages(p)
           \/ \E r \in air : Paste(p, r)
    PROVE  OwnCode'
<1>1. CASE UNCHANGED presented
  BY <1>1 DEF OwnCode
<1>2. ASSUME Check(p) PROVE OwnCode'
  <2> DEFINE r == received[p]
  <2>1. r \in Redirects \cup {NoRedirect}
    BY DEF Types
  <2>2. presented' = presented \/ Misfit(p, r) = "none"
    BY <1>2 DEF Check
  <2>3. presented' = presented \/ r.login = Login(p)
    BY <2>1, <2>2, ShownIsOwn
  <2>4. presented' = presented \/ presented' = presented \cup {<<Login(p), r.login>>}
    BY <1>2 DEF Check
  <2> HIDE DEF r
  <2> QED
    BY <2>3, <2>4 DEF OwnCode
<1>3. UNCHANGED presented \/ Check(p)
  BY DEF StartLogin, StartManual, EasyClient, ServerStep, ServerUp, ServerDown,
         ServeBacklog, FlowStep, SeeExited, StartupExpires, Probe, OpenBrowser,
         TakeRedirect, CallbackTimeout, Exchanged, ExchangeFails, Store, Stop,
         Interrupt, Ages, Paste
<1> QED
  BY <1>1, <1>2, <1>3

\* Nothing else in the world moves a program, and the redirect of a login whose
\* own server answered comes to that server while it waits.
LEMMA WorldInv ==
    ASSUME LoginInv,
           \/ Stranger
           \/ \E r \in Redirects : SendRedirect(r)
           \/ \E r \in air : Arrive(r)
    PROVE  PhaseInv' /\ ReceivedInv' /\ PortInv' /\ OwnCode'
<1>1. UNCHANGED <<pc, attempt, result, child, received, presented>>
  BY DEF Stranger, SendRedirect, Arrive, ownVars
<1>2. PhaseInv' /\ OwnCode'
  BY <1>1 DEF LoginInv, PhaseInv, OwnCode
<1>3. ReceivedInv'
  BY <1>1 DEF LoginInv, ReceivedInv, CarriesAnotherState, Login
<1>4. ASSUME Stranger PROVE PortInv'
  BY <1>4, OwnersApart DEF Stranger, Strangers, ownVars, LoginInv, PortInv
<1>5. ASSUME NEW r \in Redirects, SendRedirect(r) PROVE PortInv'
  BY <1>5 DEF SendRedirect, ownVars, LoginInv, PortInv
<1>6. ASSUME NEW r \in air, Arrive(r) PROVE PortInv'
  <2>1. UNCHANGED <<pc, child, port, holding, answered>>
    BY <1>6 DEF Arrive
  <2> DEFINE p == r.login[1]
  <2>2. p \in Programs
    <3>1. r \in [login : Logins, stated : BOOLEAN, carries : Carried]
      BY <1>6 DEF LoginInv, Types, Redirects, Carried
    <3>2. r.login \in Programs \X (1 .. MaxAttempt)
      BY <3>1 DEF Logins
    <3> QED
      BY <3>2
  <2>3. strayed' = strayed \/ (/\ strayed' = strayed \cup {<<r.login, answered[p]>>}
                              /\ pc[p] = "waiting" /\ port # p)
    BY <1>6 DEF Arrive
  <2>4. pc[p] = "waiting" /\ port # p => answered[p] \in (Programs \ {p}) \cup {"catchall"}
    BY <2>2 DEF LoginInv, PortInv
  <2>5. \A stray \in strayed' : stray[2] \in (Programs \ {stray[1][1]}) \cup {"catchall"}
    BY <2>3, <2>4 DEF LoginInv, PortInv
  <2> QED
    BY <2>1, <2>5 DEF LoginInv, PortInv
<1> QED
  BY <1>2, <1>3, <1>4, <1>5, <1>6

----------------------------------------------------------------------------
\* The invariant

\* Nothing has happened at first.
LEMMA InitInv == Init => LoginInv
<1> SUFFICES ASSUME Init PROVE LoginInv
  OBVIOUS
<1>1. port \in Programs => port \in holding
  BY OwnersApart DEF Init
<1>2. PortInv
  BY <1>1 DEF Init, PortInv
<1>3. PhaseInv /\ ReceivedInv /\ OwnCode
  BY DEF Init, PhaseInv, ReceivedInv, OwnCode
<1> QED
  BY <1>2, <1>3, InitTypes DEF LoginInv

\* Every step keeps the invariant.
LEMMA StepInv == LoginInv /\ [Next]_vars => LoginInv'
<1> SUFFICES ASSUME LoginInv, [Next]_vars PROVE LoginInv'
  OBVIOUS
<1>1. ASSUME NEW p \in Programs,
             \/ StartLogin(p) \/ StartManual(p) \/ EasyClient(p)
             \/ ServerStep(p) \/ FlowStep(p) \/ Interrupt(p) \/ Ages(p)
             \/ \E r \in air : Paste(p, r)
      PROVE  LoginInv'
  BY <1>1, ProgramTypes, ProgramPhase, ProgramReceived, ProgramPort, ProgramCode
     DEF LoginInv
<1>2. ASSUME \/ Stranger
             \/ \E r \in Redirects : SendRedirect(r)
             \/ \E r \in air : Arrive(r)
      PROVE  LoginInv'
  BY <1>2, WorldTypes, WorldInv DEF LoginInv
<1>3. CASE UNCHANGED vars
  BY <1>3 DEF vars, ownVars, netVars, LoginInv, Types, PhaseInv, ReceivedInv,
     PortInv, OwnCode, CarriesAnotherState, Login
<1> QED
  BY <1>1, <1>2, <1>3 DEF Next

\* The invariant holds in every state.
LEMMA Invariant == Spec => []LoginInv
BY InitInv, StepInv, PTL DEF Spec

----------------------------------------------------------------------------
\* Theorems

\* No login shows the token endpoint the code of another one, in whatever
\* order browsers come back and whatever they bring
\* (client_from_received_url gives authlib the state to ask for).
THEOREM OwnCodes == Spec => []OwnCode
<1>1. LoginInv => OwnCode
  BY DEF LoginInv
<1> QED
  BY <1>1, Invariant, PTL

\* A redirect that names the state of another login does not spend the one
\* whose server it reaches, whatever it carries (client_from_login_flow drops it
\* and waits on).
THEOREM LateRedirects == Spec => []NotSpent
<1>1. LoginInv => NotSpent
  BY DEF LoginInv, ReceivedInv, NotSpent
<1> QED
  BY <1>1, Invariant, PTL

\* For any number of programs and whoever else comes to the port: the redirect
\* of a login that waits reaches another server only if another server answered
\* the status path with 200 before the browser opened; and a program between
\* logins has no server, and only the socket it keeps on the port
\* (client_from_login_flow, callback_server).
THEOREM CallbackPort == Spec => []PortInHand
<1>1. LoginInv => PortInHand
  BY DEF LoginInv, PhaseInv, PortInv, PortInHand
<1> QED
  BY <1>1, Invariant, PTL
============================================================================
