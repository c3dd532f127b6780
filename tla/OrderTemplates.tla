--------------------------- MODULE OrderTemplates ---------------------------
(***************************************************************************)
(* The order templates of schwaby/orders/equities.py and                   *)
(* schwaby/orders/options.py: an order of one leg, or of the two legs of a *)
(* vertical spread, from the arguments a caller names.  The caller opens   *)
(* positions with one template and closes each with the template of the    *)
(* same name; the venue fills each order whole (external).                 *)
(***************************************************************************)
EXTENDS Integers, Sequences, FiniteSets, FiniteSetsExt, SequencesExt

CONSTANTS
    Strikes,    \* strikes of the listed options
    Prices,     \* prices the stock may have in the end
    Sizes,      \* quantities
    Omissions,  \* the arguments a caller may pass None for, as sets
    Trades,     \* what it may trade
    MaxHeld     \* bound: positions open at once

VARIABLES
    held,       \* the positions the caller has open, in order
    order,      \* the last order made
    lots        \* instrument -> contracts or shares long and short

vars == <<held, order, lots>>

EquityTypes ==
    {"MARKET", "LIMIT", "STOP", "STOP_LIMIT", "TRAILING_STOP", "TRAILING_STOP_LIMIT",
     "MARKET_ON_CLOSE", "LIMIT_ON_CLOSE"}
Option(right, strike) == [right |-> right, strike |-> strike]
Stock == Option("none", 0)
Instruments == {Stock} \cup {Option(r, k) : r \in {"call", "put"}, k \in Strikes}

NoOrder == [type |-> "", sets |-> {}, legs |-> <<>>]
Order(type, sets, legs) == [type |-> type, sets |-> sets, legs |-> legs]
Leg(instruction, instrument, quantity) ==
    [instruction |-> instruction, instrument |-> instrument, quantity |-> quantity]

----------------------------------------------------------------------------
(* Equities.                                                               *)

\* The price arguments the template of a type takes.
Trail == {"stopPriceOffset", "stopPriceLinkType", "stopPriceLinkBasis"}
Takes(type) ==
    CASE type \in {"LIMIT", "LIMIT_ON_CLOSE"} -> {"price"}
      [] type = "STOP" -> {"stopPrice"}
      [] type = "STOP_LIMIT" -> {"stopPrice", "price"}
      [] type = "TRAILING_STOP" -> Trail
      [] type = "TRAILING_STOP_LIMIT" -> Trail \cup {"price"}
      [] OTHER -> {}

\* A None is not set at all, except that set_price refuses one in the template
\* of a limit order.
_equity_order(instruction, type, quantity, omitted) ==
    IF type = "LIMIT" /\ "price" \in omitted THEN NoOrder
    ELSE Order(type, Takes(type) \ omitted, <<Leg(instruction, Stock, quantity)>>)

equity_buy(type, q, omitted) == _equity_order("BUY", type, q, omitted)
equity_sell(type, q, omitted) == _equity_order("SELL", type, q, omitted)
equity_sell_short(type, q, omitted) == _equity_order("SELL_SHORT", type, q, omitted)
equity_buy_to_cover(type, q, omitted) == _equity_order("BUY_TO_COVER", type, q, omitted)

----------------------------------------------------------------------------
(* Single options.                                                         *)

Single(instruction, type, o, q, omitted) ==
    IF type = "LIMIT" /\ "price" \in omitted THEN NoOrder
    ELSE Order(type, IF type = "LIMIT" THEN {"price"} ELSE {}, <<Leg(instruction, o, q)>>)

option_buy_to_open(type, o, q, omitted) == Single("BUY_TO_OPEN", type, o, q, omitted)
option_sell_to_open(type, o, q, omitted) == Single("SELL_TO_OPEN", type, o, q, omitted)
option_buy_to_close(type, o, q, omitted) == Single("BUY_TO_CLOSE", type, o, q, omitted)
option_sell_to_close(type, o, q, omitted) == Single("SELL_TO_CLOSE", type, o, q, omitted)

----------------------------------------------------------------------------
(* Verticals: the option with the smaller strike first.                    *)

Vertical(type, q, one, first, other, second) ==
    Order(type, {"price", "quantity"}, <<Leg(one, first, q), Leg(other, second, q)>>)

bull_call_vertical_open(long, short, q) ==
    Vertical("NET_DEBIT", q, "BUY_TO_OPEN", long, "SELL_TO_OPEN", short)
bull_call_vertical_close(long, short, q) ==
    Vertical("NET_CREDIT", q, "SELL_TO_CLOSE", long, "BUY_TO_CLOSE", short)
bear_call_vertical_open(short, long, q) ==
    Vertical("NET_CREDIT", q, "SELL_TO_OPEN", short, "BUY_TO_OPEN", long)
bear_call_vertical_close(short, long, q) ==
    Vertical("NET_DEBIT", q, "BUY_TO_CLOSE", short, "SELL_TO_CLOSE", long)
bull_put_vertical_open_Debit(long, short, q) ==
    Vertical("NET_DEBIT", q, "BUY_TO_OPEN", long, "SELL_TO_OPEN", short)
bull_put_vertical_open(long, short, q) ==
    Vertical("NET_CREDIT", q, "BUY_TO_OPEN", long, "SELL_TO_OPEN", short)
bull_put_vertical_close(long, short, q) ==
    Vertical("NET_DEBIT", q, "SELL_TO_CLOSE", long, "BUY_TO_CLOSE", short)
bear_put_vertical_open(short, long, q) ==
    Vertical("NET_DEBIT", q, "SELL_TO_OPEN", short, "BUY_TO_OPEN", long)
bear_put_vertical_close(short, long, q) ==
    Vertical("NET_CREDIT", q, "BUY_TO_CLOSE", short, "SELL_TO_CLOSE", long)

----------------------------------------------------------------------------
(* Trading.  A trade names the template, its strikes and its quantity.     *)

Verticals == {"bull call", "bear call", "bull put", "bear put"}
Right(of) == IF of \in {"bull call", "bear call", "call"} THEN "call" ELSE "put"

OpenOrder(t, type, omitted) ==
    LET low == Option(Right(t.of), t.low)
        high == Option(Right(t.of), t.high)
    IN  CASE t.of = "bull call" -> bull_call_vertical_open(low, high, t.quantity)
          [] t.of = "bear call" -> bear_call_vertical_open(low, high, t.quantity)
          [] t.of = "bull put" -> bull_put_vertical_open(low, high, t.quantity)
          [] t.of = "bear put" -> bear_put_vertical_open(low, high, t.quantity)
          [] t.of \in {"call", "put"} /\ t.long -> option_buy_to_open(type, low, t.quantity, omitted)
          [] t.of \in {"call", "put"} -> option_sell_to_open(type, low, t.quantity, omitted)
          [] t.of = "stock" /\ t.long -> equity_buy(type, t.quantity, omitted)
          [] OTHER -> equity_sell_short(type, t.quantity, omitted)
CloseOrder(t, type, omitted) ==
    LET low == Option(Right(t.of), t.low)
        high == Option(Right(t.of), t.high)
    IN  CASE t.of = "bull call" -> bull_call_vertical_close(low, high, t.quantity)
          [] t.of = "bear call" -> bear_call_vertical_close(low, high, t.quantity)
          [] t.of = "bull put" -> bull_put_vertical_close(low, high, t.quantity)
          [] t.of = "bear put" -> bear_put_vertical_close(low, high, t.quantity)
          [] t.of \in {"call", "put"} /\ t.long -> option_sell_to_close(type, low, t.quantity, omitted)
          [] t.of \in {"call", "put"} -> option_buy_to_close(type, low, t.quantity, omitted)
          [] t.of = "stock" /\ t.long -> equity_sell(type, t.quantity, omitted)
          [] OTHER -> equity_buy_to_cover(type, t.quantity, omitted)

\* What filling an order does (external).
Opens == {"BUY", "SELL_SHORT", "BUY_TO_OPEN", "SELL_TO_OPEN"}
LongSide == {"BUY", "SELL", "BUY_TO_OPEN", "SELL_TO_CLOSE"}
Filled(before, o) ==
    LET change(i, side) ==
            FoldLeft(LAMBDA n, leg :
                IF leg.instrument = i /\ side = (leg.instruction \in LongSide)
                THEN n + (IF leg.instruction \in Opens THEN leg.quantity ELSE -leg.quantity)
                ELSE n, 0, o.legs)
    IN  [i \in Instruments |-> [long |-> before[i].long + change(i, TRUE),
                                short |-> before[i].short + change(i, FALSE)]]

Types(t) ==
    CASE t.of \in Verticals -> {"NET"}
      [] t.of = "stock" -> EquityTypes
      [] OTHER -> {"MARKET", "LIMIT"}

Init ==
    /\ held = <<>>
    /\ order = NoOrder
    /\ lots = [i \in Instruments |-> [long |-> 0, short |-> 0]]

Open(t, type, omitted) ==
    /\ Len(held) < MaxHeld
    /\ order' = OpenOrder(t, type, omitted)
    /\ held' = IF order' = NoOrder THEN held ELSE Append(held, t)
    /\ lots' = Filled(lots, order')

Close(i, type, omitted) ==
    /\ order' = CloseOrder(held[i], type, omitted)
    /\ held' = IF order' = NoOrder THEN held ELSE RemoveAt(held, i)
    /\ lots' = Filled(lots, order')

Next ==
    \E omitted \in Omissions :
        \/ \E t \in Trades : \E type \in Types(t) : Open(t, type, omitted)
        \/ \E i \in DOMAIN held : \E type \in Types(held[i]) : Close(i, type, omitted)

Spec == Init /\ [][Next]_vars

----------------------------------------------------------------------------
(* Properties.                                                             *)

\* Nothing is sold or bought to close, covered or sold that is not held on
\* that side, in whatever order positions are opened and closed.
NothingOversold == \A i \in Instruments : lots[i].long \in Nat /\ lots[i].short \in Nat

\* Once every position is closed with the template of its name, nothing is held.
ClosedIsFlat == held = <<>> => \A i \in Instruments : lots[i].long = 0 /\ lots[i].short = 0

\* What lots are worth if the stock ends at a price.
Worth(i, s) ==
    CASE i.right = "call" -> IF s > i.strike THEN s - i.strike ELSE 0
      [] i.right = "put" -> IF s < i.strike THEN i.strike - s ELSE 0
      [] OTHER -> s
Payoff(of, s) ==
    MapThenSumSet(LAMBDA i : (of[i].long - of[i].short) * Worth(i, s), Instruments)
Rising(worth) == \A s, r \in Prices : s <= r => worth[s] <= worth[r]
Falling(worth) == \A s, r \in Prices : s <= r => worth[s] >= worth[r]

\* The name gives the market attitude (docs/order-templates.rst): a holder of
\* bull spreads alone never loses by a rise, one of bear spreads by a fall, and
\* neither gains or loses more than the distance of the strikes.
AttitudeKept ==
    LET all(names) == \A i \in DOMAIN held : held[i].of \in names
        worth == [s \in Prices |-> Payoff(lots, s)]
    IN  /\ all({"bull call", "bull put"}) => Rising(worth)
        /\ all({"bear call", "bear put"}) => Falling(worth)
        /\ all(Verticals) =>
            \A s, r \in Prices :
                worth[s] - worth[r] <=
                    FoldLeft(LAMBDA n, t : n + (t.quantity * (t.high - t.low)), 0, held)

\* A spread is paid for when what it adds is worth something in the end and
\* never costs anything, and paid to the caller when it is the other way round.
PaidForWorth ==
    LET added == [i \in Instruments |-> [long |-> lots'[i].long - lots[i].long,
                                         short |-> lots'[i].short - lots[i].short]]
    IN  /\ order'.type = "NET_DEBIT" => \A s \in Prices : Payoff(added, s) >= 0
        /\ order'.type = "NET_CREDIT" => \A s \in Prices : Payoff(added, s) <= 0

\* A template opens and closes what its name says.
HeldAsNamed == NothingOversold /\ ClosedIsFlat /\ AttitudeKept
TradesAsNamed == []HeldAsNamed /\ [][PaidForWorth]_vars

=============================================================================
