-------------------------- MODULE MCStreamDispatch --------------------------
(* Frames and handlers of StreamDispatch for TLC. *)
EXTENDS StreamDispatch

MCServices == {"QUOTES", "BOOK"}
AllQuotes == [h \in Handlers |-> "QUOTES"]

Message(service) == Element("message", service, TRUE)
Spoiled(service) == Element("message", service, FALSE)
Junk == Element("junk", "none", TRUE)
Beat == Element("heartbeat", "none", TRUE)
Rejected == Element("rejected", "none", TRUE)
Accepted == Element("accepted", "none", TRUE)

FrameOf(unread, response, data, notify) ==
    [object |-> TRUE, unread |-> unread, response |-> response,
     data |-> data, notify |-> notify]

NotObject == [FrameOf({}, Absent, Absent, Absent) EXCEPT !.object = FALSE]

\* Two messages for the handlers, one of them in an odd neighbourhood.
Plain == FrameOf({}, Absent, List(<<Message("QUOTES"), Spoiled("QUOTES")>>),
                 List(<<Beat, Message("none"), Message("QUOTES")>>))

\* Everything that cannot be used, one of each kind.
Odd == FrameOf({}, Absent, NotList,
               List(<<Junk, Message("unhashable"), Message("Invalid Service")>>))

\* One malformed channel, ten times.
Flood == FrameOf({}, Absent, List([i \in 1 .. 10 |-> Junk]), Absent)

\* More new names than the count alone would report.
News == FrameOf({"trailer"}, Absent,
                List([i \in 1 .. 5 |->
                        Message(<<"N1", "N2", "N3", "N4", "N5">>[i])]), Absent)
MoreNews == FrameOf({"trailer", "extra"}, Absent, List(<<Message("N6")>>), Absent)

Orphans == FrameOf({}, List(<<Rejected, Accepted, Junk>>),
                   List(<<Message("QUOTES")>>), Absent)

\* The least two messages: the order of what two handlers do with them.
Two == FrameOf({}, Absent, List(<<Message("QUOTES")>>), List(<<Message("QUOTES")>>))

PlainFrames == {Plain}
TwoFrames == {Two}
FloodFrames == {Flood, Odd, NotObject}
NewsFrames == {News, MoreNews, Flood}
OrphanFrames == {Orphans, FrameOf({}, Absent, List(<<Junk>>), Absent)}
=============================================================================
