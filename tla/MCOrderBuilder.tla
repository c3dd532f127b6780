--------------------------- MODULE MCOrderBuilder ---------------------------
(* OrderBuilder for TLC: values of every type a caller may pass by mistake. *)
EXTENDS OrderBuilder

Numbers == {V("int", "positive"), V("float", "zero"), V("float", "nan"), V("int", "huge")}
Mistakes == {V("bool", "positive"), V("None", ""), V("bytes", "positive")}
Prices == {V("str", "positive"), V("str", "nan"), V("Decimal", "positive"), V("Decimal", "nan")}
Members == {V("enum", "one"), V("str", "two")}
Instants == {V("aware", "noon"), V("naive", "noon")}
EveryValue == Numbers \cup Mistakes \cup Prices \cup Members \cup Instants

Strategies == {V("enum", "SINGLE")}
SomeQuantities == {V("int", "positive"), V("float", "zero"), V("float", "nan"), V("bool", "positive")}
SomeDicts == {V("int", "positive"), V("Decimal", "positive"), V("None", "")}
=============================================================================
