-------------------------- MODULE MCOptionSymbols --------------------------
(* OptionSymbols for TLC: roots of two characters at most, strikes of three *)
(* digits and one more than fit, and texts one edit away from a symbol.     *)
EXTENDS OptionSymbols

MCRoots == {<<"A">>, <<"A", "B">>}
PaddedDates == {<<"2", "4", "0", "1", "1", "1">>, <<"2", "4", "1", "1", "1", "0">>,
                <<"2", "4", "0", "2", "3", "0">>, <<"6", "1", "1", "2", "3", "1">>}
LooseDates == PaddedDates \cup {<<"2", "4", "1", "1", "1">>, <<"2", "4", "1", "3", "1">>}
MCStrikes == {[digits |-> d, places |-> p] :
              d \in {0, 1, 5, 10, 15, 99, 100, 105, 999, 1000, 9990}, p \in 0 .. 3}

Symbols == {build([root |-> r, date |-> <<24, 11, 10>>, type |-> c,
                   strike |-> [digits |-> d, places |-> 1]]) :
            r \in MCRoots, c \in {"C", "P"}, d \in {5, 100}}
Characters == {"A", "C", "1", "6", " "}
Shorter(t) == {RemoveAt(t, i) : i \in DOMAIN t}
MCTexts ==
    Symbols
    \cup UNION {{[s EXCEPT ![i] = c] : i \in DOMAIN s, c \in Characters} : s \in Symbols}
    \cup UNION {Shorter(s) : s \in Symbols}
    \cup UNION {{InsertAt(t, j, c) : j \in DOMAIN t, c \in Characters} :
               t \in Symbols \cup UNION {Shorter(s) : s \in Symbols}}
=============================================================================
