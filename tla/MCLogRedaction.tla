--------------------------- MODULE MCLogRedaction ---------------------------
(* LogRedaction for TLC: tokens of which one is the head of another and one *)
(* is spelled otherwise in a URL, accounts, and lines that hold them.       *)
EXTENDS LogRedaction

Short == <<"a", "b">>
Start == <<"a", "b", "c">>
Whole == <<"a", "b", "c", "d", "e">>
Spaced == <<"f", "/", "g", " ">>
Number == <<"1", "2", "3">>
Longer == <<"4", "1", "2", "3">>

MCValues == {Short, Start, Whole, Spaced, Number, Longer}
MCLimits == [l \in {"ACCESS_TOKEN", "ACCOUNT_NUMBER"} |-> IF l = "ACCESS_TOKEN" THEN 2 ELSE 0]
Token(value) == <<value, "ACCESS_TOKEN">>
RecordUses == {Token(Start), Token(Whole), Token(Spaced), <<Number, "ACCOUNT_NUMBER">>}
OneUse == {Token(Start), Token(Short)}
FrameUses == {Token(Whole), Token(Spaced), <<Number, "ACCOUNT_NUMBER">>}

P(open, text) == [open |-> open, text |-> text]
MCLines == {
    <<P("", Start), P("", Longer)>>,
    <<P("", Quote(Spaced, <<"+">>)), P("code=", <<"z">>), P("'token':'", Whole)>>,
    <<P("code=", Start), P("", Number), P("", Short)>>}
OneLine == {<<P("", Start), P("", Short)>>}
OneFailure == {<<P("code=", Start)>>}
LongLines == {
    <<P("", Whole), P("", Whole), P("", Whole), P("", Whole), P("", <<"y">>)>>,
    <<P("", <<"x", "x">>), P("", Quote(Spaced, <<"+">>)), P("", Number), P("", Whole), P("", Whole)>>}

MCFrames == {[line |-> <<P("", Number), P("", Whole), P("", Number)>>, whole |-> w,
              items |-> <<<<"odd">>, Number>>] : w \in BOOLEAN}

Leaf(path, kind, text) == [path |-> path, kind |-> kind, text |-> text]
MCPayloads == {
    <<Leaf(<<"content", "#", "accountNumber">>, "int", Number),
      Leaf(<<"parameters", "Authorization">>, "str", <<"z", "z">>),
      Leaf(<<"code">>, "int", <<"7">>)>>}
=============================================================================
