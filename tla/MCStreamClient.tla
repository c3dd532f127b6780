--------------------------- MODULE MCStreamClient ---------------------------
(* Small instances of StreamClient: what the venue sends unasked. *)
EXTENDS StreamClient, TLC

Data == [kind |-> "data", els |-> <<>>]
Bad == [kind |-> "bad", els |-> <<>>]
NoId == [kind |-> "resp", els |-> <<[id |-> 0, code |-> "reject"]>>]
NeverIssued == [kind |-> "resp", els |-> <<[id |-> MaxRequest + 1, code |-> "ok"]>>]

OnlyData == {Data}
Anything == {Data, Bad, NoId, NeverIssued}
Unreadable == {NoId}

\* A behaviour that starts once the first login() has returned: session 1 is
\* open, request 1 was LOGIN, and its answer was the first frame.
LoggedIn ==
    /\ socket = 1
    /\ conn = [s \in Sessions |-> IF s = 1 THEN "open" ELSE "none"]
    /\ wire = [s \in Sessions |-> <<>>]
    /\ sent = [s \in Sessions |-> IF s = 1 THEN 1 ELSE 0]
    /\ nextId = 2 /\ pending = 0 /\ future = NoFuture
    /\ readQ = Unlocked /\ reqQ = Unlocked
    /\ overflow = <<>> /\ reports = <<>> /\ absorbed = 0 /\ flagged = {}
    /\ pc = [t \in Tasks |-> "idle"] /\ op = [t \in Tasks |-> "none"]
    /\ req = [t \in Tasks |-> 0] /\ at = [t \in Tasks |-> 0]
    /\ hand = [t \in Tasks |-> NoFrame]
    /\ asked = [i \in Ids |-> IF i = 1 THEN 1 ELSE 0]
    /\ verdict = [i \in Ids |-> IF i = 1 THEN "ok" ELSE "none"]
    /\ outcome = [i \in Ids |-> IF i = 1 THEN "ok" ELSE "none"]
    /\ taken = <<>> /\ consumed = {1} /\ claimed = {1}
    /\ told = <<>> /\ lost = {} /\ cancels = 0

LoggedInSpec == LoggedIn /\ [][Next]_vars

CallerSymmetry == Permutations(Callers)
=============================================================================
