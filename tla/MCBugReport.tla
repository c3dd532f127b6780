---------------------------- MODULE MCBugReport ----------------------------
(* BugReport for TLC: two accounts under one key, one the head of another  *)
(* value; ids of one digit, of one letter of a placeholder and of nothing; *)
(* two paths with one label; a whitelisted key; responses that are not     *)
(* read.                                                                   *)
EXTENDS BugReport

One == <<"1", "2">>
Two == <<"1", "2", "3">>
Other == <<"7", "8">>

Id == <<"i", "d">>
RequestId == <<"r", "i", "d">>
Name == <<"n">>

Leaf(path, value) == [path |-> path, value |-> value]
Response(ok, json, leaves) == [ok |-> ok, json |-> json, leaves |-> leaves]

MCResponses == {
    Response(TRUE, TRUE, <<Leaf(<<Id>>, One), Leaf(<<RequestId>>, Other)>>),
    Response(TRUE, TRUE, <<Leaf(<<Id>>, Two), Leaf(<<Id, Name>>, <<"x", "x">>),
                           Leaf(<<Name, Id>>, <<"R">>)>>),
    Response(TRUE, TRUE, <<Leaf(<<Name, <<"0">>, Id>>, <<"1">>),
                           Leaf(<<<<"n", "-", "0">>, Id>>, <<"8", "x">>)>>),
    Response(TRUE, TRUE, <<Leaf(<<Name, Id>>, <<>>)>>),
    Response(FALSE, TRUE, <<Leaf(<<Id>>, Other)>>),
    Response(TRUE, FALSE, <<>>)}
MCBadKeys == {Id, RequestId}
MCWhitelisted == {RequestId}
MCLines == {One \o <<"8", "x">> \o One, <<"x">> \o Two, <<"x", "x">> \o Other}
=============================================================================
