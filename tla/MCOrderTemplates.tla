-------------------------- MODULE MCOrderTemplates --------------------------
(* OrderTemplates for TLC. *)
EXTENDS OrderTemplates

Trade(of, low, high, long, quantity) ==
    [of |-> of, low |-> low, high |-> high, long |-> long, quantity |-> quantity]
Spreads ==
    {Trade(of, l, h, TRUE, q) : of \in Verticals, l \in Strikes, h \in Strikes, q \in Sizes}
EverySpread == {t \in Spreads : t.low < t.high}
EverySingle == {Trade(of, 1, 0, long, 1) : of \in {"call", "put", "stock"}, long \in BOOLEAN}
EveryTrade == EverySpread \cup EverySingle
PriceNone == {{}, {"price"}}
=============================================================================
