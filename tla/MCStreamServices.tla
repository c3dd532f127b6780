-------------------------- MODULE MCStreamServices --------------------------
(* Callers of StreamServices for TLC. *)
EXTENDS StreamServices

Member(table, id) == [table |-> table.name, id |-> id]
Raw(id) == [table |-> "raw", id |-> id]

AllServices == {s.name : s \in ServicesKnown}
LevelOnes == {"LEVELONE_EQUITIES", "LEVELONE_OPTIONS", "LEVELONE_FOREX"}

\* None, one without SYMBOL, both orders with it, a double, and numbers.
EquityLists ==
    {<<>>, <<Member(LevelOneEquityFields, 2)>>,
     <<Member(LevelOneEquityFields, 5), Member(LevelOneEquityFields, 0)>>,
     <<Member(LevelOneEquityFields, 7), Member(LevelOneEquityFields, 3),
       Member(LevelOneEquityFields, 7)>>,
     <<Raw(4), Raw(0), Member(LevelOneEquityFields, 4)>>}
MemberLists == {<<Member(LevelOneEquityFields, 2)>>}
=============================================================================
