---------------------------- MODULE MCOrderDesk ----------------------------
(* OrderDesk for TLC: two accounts, and the lists and error bodies the     *)
(* venue may send.                                                         *)
EXTENDS OrderDesk

MCHash == [a \in Accounts |-> IF a = "0123" THEN "HASH1" ELSE "HASH2"]

Pairs == {Entry(a, MCHash[a]) : a \in Accounts}
Odd == {Entry(a, h) : a \in Accounts, h \in {"missing", "not a string"}}
       \cup {Entry("odd", "HASH1"), Entry("odd", "empty"), Entry(None, "HASH1"), NotAnObject}

\* Every list of up to three entries.
AnyList == SeqOf(Pairs \cup Odd, 3)
\* The two accounts, after an entry that is skipped.
OneList == {<<Entry("0456", "HASH2"), Entry("0123", "HASH1")>>}

Body(object, message, errors) == [object |-> object, message |-> message, errors |-> errors]
SomeBodies == {Body(FALSE, None, <<>>), Body(TRUE, None, <<>>),
               Body(TRUE, "m", <<None, "e">>), Body(TRUE, "m", <<"e", "f">>)}
NoBody == {Body(FALSE, None, <<>>)}
=============================================================================
