----------------------------- MODULE OrderFills -----------------------------
(***************************************************************************)
(* execution_totals (schwaby/utils.py): what an order's fills add up to,   *)
(* per leg, read from the activities of the order.  The venue fills,       *)
(* cancels and annotates the order, and may send what the function was not *)
(* written for; the caller may fetch the order in every state.             *)
(*                                                                         *)
(* A decimal is an integer count of tenths; a product is one of            *)
(* hundredths, and an average of 10^-(Fine+1).                             *)
(***************************************************************************)
EXTENDS Integers, Sequences, FiniteSets, SequencesExt

CONSTANTS
    LegIds,         \* the legs of the order
    Executions,     \* lists of legs one execution may report
    OddExecutions,  \* those whose first leg may be of another shape
    Digits,         \* prec of both contexts (60)
    Fine,           \* Emin of both: powers of ten below a tenth (999999)
    MaxActivity     \* bound: activities of the order

VARIABLES
    activities, \* orderActivityCollection
    fills,      \* what was filled: [leg, quantity, price], in order
    strange     \* whether an activity is not of the shape that is read

vars == <<activities, fills, strange>>

----------------------------------------------------------------------------
(* The decimal contexts.                                                   *)

Size(v) == IF v < 0 THEN -v ELSE v

\* Whether v has at most Digits significant digits: an exact result.
Fits(v) ==
    \E k \in 0 .. 8 : Size(v) % 10 ^ k = 0 /\ Size(v) \div 10 ^ k < 10 ^ Digits

\* n / d to the nearest integer, ties to the even one.
HalfEven(n, d) ==
    LET q == n \div d  twice == 2 * (n % d)
    IN  IF twice > d \/ (twice = d /\ q % 2 = 1) THEN q + 1 ELSE q

\* amount / quantity to Digits digits, in units of 10^-(Fine+1), or refused
\* when it is too small for that: _AVERAGE_CONTEXT.divide.
divide(amount, quantity) ==
    LET n == Size(amount) * 10 ^ Fine
        \* the place of the last digit kept, no lower than the lowest one
        k == CHOOSE j \in 0 .. 8 :
                /\ n < quantity * 10 ^ (Digits + j)
                /\ \A i \in 0 .. j - 1 : n >= quantity * 10 ^ (Digits + i)
        cut == HalfEven(n, quantity * 10 ^ k) * 10 ^ k
    IN  [tiny |-> k = 0 /\ n < quantity * 10 ^ (Digits - 1) /\ cut * quantity # n,
         value |-> IF amount < 0 THEN -cut ELSE cut]

----------------------------------------------------------------------------
(* Reading the order.                                                      *)

\* One execution leg, and what is wrong with it (_order_number, and the
\* checks of _add_up_fills).
Leg(id, quantity, price) ==
    [id |-> id, quantity |-> quantity, price |-> price, wrong |-> "nothing"]
LegFaults == {"not an object", "no legId", "no quantity", "price not finite",
              "negative quantity", "mismarked"}

Activity(type, execution, legs) ==
    [type |-> type, execution |-> execution, legs |-> legs, wrong |-> "nothing"]
ActivityFaults == {"not an object", "no activityType", "no executionType",
                   "no executionLegs"}

\* The part of an activity that is read: nothing unless it is a fill.
IsFill_ByType(a) == a.type = "EXECUTION"
IsFill(a) == a.type = "EXECUTION" /\ a.execution = "FILL"

Unreadable(a) ==
    \/ a.wrong \in {"not an object", "no activityType"}
    \/ a.wrong = "no executionType" /\ a.type = "EXECUTION"
    \/ IsFill(a) /\ \/ a.wrong = "no executionLegs"
                    \/ \E i \in DOMAIN a.legs : a.legs[i].wrong # "nothing"

Refused == [refused |-> TRUE, of |-> <<>>]

\* The sums after each leg of s, of f.
Sums(s, f(_)) ==
    LET sum[i \in 0 .. Len(s)] == IF i = 0 THEN 0 ELSE sum[i - 1] + f(s[i])
    IN  sum

Amount(l) == l.quantity * l.price

\* Each leg's total: the quantities and amounts added in order, exactly.
_add_up_fills(read) ==
    [id \in {read[i].id : i \in DOMAIN read} |->
        LET own == SelectSeq(read, LAMBDA l : l.id = id)
            quantity == Sums(own, LAMBDA l : l.quantity)
            amount == Sums(own, Amount)
            end == Len(own)
            quotient == divide(amount[end], quantity[end])
        IN  [exact |-> /\ \A i \in 1 .. end : Fits(quantity[i]) /\ Fits(amount[i])
                       /\ \A i \in 1 .. end : Fits(Amount(own[i]))
                       /\ quantity[end] # 0 => ~quotient.tiny,
             quantity |-> quantity[end],
             priced |-> quantity[end] # 0,
             average |-> IF quantity[end] = 0 THEN 0 ELSE quotient.value]]

\* {legId: ExecutionTotal}, or UnusableOrderActivityError.
execution_totals(order) ==
    IF \E i \in DOMAIN order : Unreadable(order[i]) THEN Refused
    ELSE LET counted == SelectSeq(order, IsFill)
             of == _add_up_fills(FlattenSeq([i \in DOMAIN counted |-> counted[i].legs]))
         IN  IF \A id \in DOMAIN of : of[id].exact
             THEN [refused |-> FALSE, of |-> of] ELSE Refused

----------------------------------------------------------------------------
(* The venue, and the caller.                                              *)

Add(activity) ==
    /\ Len(activities) < MaxActivity
    /\ activities' = Append(activities, activity)

Filled(legs) ==
    /\ Add(Activity("EXECUTION", "FILL", legs))
    /\ fills' = fills \o legs
    /\ UNCHANGED strange

\* A cancel or a replace: an execution too, of quantity that was not filled.
Canceled(legs) ==
    /\ Add(Activity("EXECUTION", "CANCELED", legs))
    /\ UNCHANGED <<fills, strange>>

OtherActivity(legs) ==
    /\ Add(Activity("ORDER_ACTION", "FILL", legs))
    /\ UNCHANGED <<fills, strange>>

StrangeActivity(wrong) ==
    /\ Add([Activity("EXECUTION", "FILL", <<>>) EXCEPT !.wrong = wrong])
    /\ strange' = TRUE
    /\ UNCHANGED fills

StrangeLeg(legs, wrong) ==
    /\ Add(Activity("EXECUTION", "FILL", [legs EXCEPT ![1] = [@ EXCEPT !.wrong = wrong]]))
    /\ strange' = TRUE
    /\ UNCHANGED fills

Init == activities = <<>> /\ fills = <<>> /\ strange = FALSE

Next ==
    \/ \E legs \in Executions : Filled(legs) \/ Canceled(legs) \/ OtherActivity(legs)
    \/ \E w \in ActivityFaults : StrangeActivity(w)
    \/ \E w \in LegFaults, legs \in OddExecutions : StrangeLeg(legs, w)

Spec == Init /\ [][Next]_vars

----------------------------------------------------------------------------
(* Properties.  What was filled, for comparison: over the fills themselves,*)
(* in any order.                                                           *)

OfLeg(id) == {i \in DOMAIN fills : fills[i].id = id}
FilledOf(id) == FoldSet(LAMBDA i, n : n + fills[i].quantity, 0, OfLeg(id))
AmountOf(id) == FoldSet(LAMBDA i, n : n + Amount(fills[i]), 0, OfLeg(id))

Counted == [id \in {fills[i].id : i \in DOMAIN fills} |->
                [quantity |-> FilledOf(id), amount |-> AmountOf(id)]]

\* What a caller that fetches the order now is told.
Now == execution_totals(activities)

\* What is reported as filled is what was filled, leg by leg, and nothing for
\* a leg without a fill: never quantity that was canceled, and never a sum
\* that was rounded.
FilledIsFilled ==
    ~Now.refused =>
        /\ DOMAIN Now.of = DOMAIN Counted
        /\ \A id \in DOMAIN Counted : Now.of[id].quantity = Counted[id].quantity

\* The average is the amount paid over the quantity, to within half of its
\* last digit, and between the lowest and the highest price of the leg; a
\* leg that filled nothing has none.
AverageIsNear ==
    ~Now.refused =>
        \A id \in DOMAIN Counted :
            LET quantity == Counted[id].quantity
                average == Now.of[id].average
                error == Size(average * quantity - Counted[id].amount * 10 ^ Fine)
                digit == Size(average) \div 10 ^ (Digits - 1)
                paid == {fills[i].price * 10 ^ Fine :
                            i \in {j \in OfLeg(id) : fills[j].quantity # 0}}
            IN  IF quantity = 0 THEN ~Now.of[id].priced
                ELSE /\ Now.of[id].priced
                     /\ 2 * error <= quantity * (IF digit > 1 THEN digit ELSE 1)
                     /\ \E p, q \in paid : p <= average /\ average <= q

\* An order is refused only for what is wrong with it: an activity or a leg
\* that is not of the shape read, or numbers that do not add up exactly.
RefusedForCause ==
    Now.refused =>
        \/ strange
        \/ \E i \in DOMAIN fills : ~Fits(Amount(fills[i]))
        \/ \E n \in DOMAIN fills :
              LET some == {i \in OfLeg(fills[n].id) : i <= n}
                  quantity == FoldSet(LAMBDA i, a : a + fills[i].quantity, 0, some)
                  amount == FoldSet(LAMBDA i, a : a + Amount(fills[i]), 0, some)
              IN  \/ ~Fits(quantity) \/ ~Fits(amount)
                  \/ /\ some = OfLeg(fills[n].id) /\ amount # 0
                     /\ Size(amount) * 10 ^ Fine < quantity * 10 ^ (Digits - 1)

\* The totals of an order are those of its fills, or there are none.
TotalsAreTrue == FilledIsFilled /\ AverageIsNear /\ RefusedForCause

=============================================================================
