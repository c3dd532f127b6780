---------------------------- MODULE AtomicToken ----------------------------
(***************************************************************************)
(* What the token file promises its users, with nothing of how: a register *)
(* on a medium that can lose power.  A write takes effect in one instant   *)
(* or not at all; a write that returned survives a power loss, wherever    *)
(* the platform can flush a directory.                                     *)
(***************************************************************************)
EXTENDS Naturals

CONSTANTS
    Writers,        \* the processes that write the token
    Tokens,         \* what they write
    First,          \* the token before any write
    SurelySynced    \* whether flushing a directory always works here

VARIABLES
    value,          \* what a reader of the file gets
    safe,           \* what a reader would get after a power loss
    call            \* [Writers -> the write in progress]

absVars == <<value, safe, call>>

\* No write in progress; the last one returned, or raised or died or never was.
Returned == [st |-> "returned", token |-> First]
NoCall == [st |-> "idle", token |-> First]
Ended == {"idle", "returned"}

Init ==
    /\ value = First
    /\ safe = First
    /\ call = [w \in Writers |-> NoCall]

\* A process asks for token t to be written.
Ask(w, t) ==
    /\ call[w].st \in Ended
    /\ call' = [call EXCEPT ![w] = [st |-> "asked", token |-> t]]
    /\ UNCHANGED <<value, safe>>

\* The write takes effect.
Put(w) ==
    /\ call[w].st = "asked"
    /\ value' = call[w].token
    /\ call' = [call EXCEPT ![w].st = "put"]
    /\ UNCHANGED safe

\* Its effect, or that of a write after it, can no longer be lost.
Keep(w) ==
    /\ call[w].st = "put"
    /\ safe' = value
    /\ call' = [call EXCEPT ![w].st = "kept"]
    /\ UNCHANGED value

\* The write returns.
Ack(w) ==
    /\ call[w].st = "kept" \/ (call[w].st = "put" /\ ~SurelySynced)
    /\ call' = [call EXCEPT ![w] = Returned]
    /\ UNCHANGED <<value, safe>>

\* The write raises, or its process is killed: what took effect stays.
Abandon(w) ==
    /\ call[w].st \notin Ended
    /\ call' = [call EXCEPT ![w] = NoCall]
    /\ UNCHANGED <<value, safe>>

\* The medium catches up without being asked.
Settle ==
    /\ safe' = value
    /\ UNCHANGED <<value, call>>

PowerLoss ==
    /\ value' = safe
    /\ call' = [w \in Writers |-> NoCall]
    /\ UNCHANGED safe

Next ==
    \/ \E w \in Writers :
          \/ \E t \in Tokens : Ask(w, t)
          \/ Put(w) \/ Keep(w) \/ Ack(w) \/ Abandon(w)
    \/ Settle
    \/ PowerLoss

Spec == Init /\ [][Next]_absVars
============================================================================
