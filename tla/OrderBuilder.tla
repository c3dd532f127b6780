---------------------------- MODULE OrderBuilder ----------------------------
(***************************************************************************)
(* OrderBuilder of schwaby/orders/generic.py, and the two helpers of       *)
(* schwaby/orders/common.py that tie orders together.  A builder holds one *)
(* value per field, a list of legs and a list of child orders; each of its *)
(* calls checks its argument before it changes anything, which a helper of *)
(* two calls does not; build turns the builder and its children into what  *)
(* is sent.  A caller passes anything.                                     *)
(***************************************************************************)
EXTENDS Integers, Sequences, FiniteSets, SequencesExt

CONSTANTS
    Builders,   \* the builders that may be made
    Fields,     \* the fields the caller uses
    Values,     \* what it passes for them
    Quantities, \* what it passes for the quantity of a leg
    Dicts,      \* what a dict it adds as a child holds
    Enforcing,  \* what it passes to set_enforce_enums
    MaxList     \* bound: legs, and children, of a builder

VARIABLES
    orders,     \* the builders
    sent,       \* the order the last call built, or NotSent
    said,       \* builder -> field -> what the caller last said, and how
    pairs       \* the orders the helpers tied to one, until the caller undid it

vars == <<orders, sent, said, pairs>>

----------------------------------------------------------------------------
(* Values: a type, and what of a value the checks tell apart.              *)

V(type, is) == [type |-> type, is |-> is]
Types == {"None", "str", "int", "float", "Decimal", "bool", "bytes", "enum", "aware", "naive"}
Absent == V("None", "")
Refused == V("refused", "")

\* Finitely many builders, values of the types above, and one None.
CallerAssumption ==
    /\ IsFiniteSet(Builders)
    /\ Values \cup Quantities \cup Dicts \subseteq [type : Types, is : STRING]
    /\ \A v \in Values : v.type = "None" => v = Absent
    /\ Enforcing \subseteq BOOLEAN

\* The fields and what each setter takes, in the order of the source.
WhenFields ==
    [session |-> "enum", duration |-> "enum", cancelTime |-> "instant", orderType |-> "enum",
     complexOrderStrategyType |-> "enum"]
SizeFields ==
    [quantity |-> "positive", requestedDestination |-> "enum", destinationLinkName |-> "free"]
StopFields ==
    [stopPrice |-> "price", stopPriceLinkBasis |-> "enum", stopPriceLinkType |-> "enum",
     stopPriceOffset |-> "number", stopType |-> "enum"]
PriceFields ==
    [priceLinkBasis |-> "enum", priceLinkType |-> "enum", priceOffset |-> "number",
     price |-> "price", activationPrice |-> "positive"]
OtherFields ==
    [taxLotMethod |-> "enum", specialInstruction |-> "enum", orderStrategyType |-> "enum"]
FieldTables == {WhenFields, SizeFields, StopFields, PriceFields, OtherFields}
Kinds == [field \in UNION {DOMAIN table : table \in FieldTables} |->
             (CHOOSE table \in FieldTables : field \in DOMAIN table)[field]]

\* A member of the enum becomes its value; anything else is refused while
\* enums are enforced.
convert_enum(v, enforced) ==
    IF v.type = "None" THEN Absent
    ELSE IF v.type = "enum" THEN V("str", v.is)
    ELSE IF enforced THEN Refused ELSE v

\* An aware datetime becomes a string.
_cancel_time_string(v) == IF v.type = "aware" THEN V("str", v.is) ELSE Refused

\* A number that is finite and a double can hold; a string only in a price.
_assert_finite(v, price) ==
    CASE v.type = "Decimal" -> FALSE
      [] v.type = "str" -> price /\ v.is # "nan"
      [] v.type \in {"int", "float"} -> v.is \notin {"nan", "huge"}
      [] OTHER -> FALSE

\* A Decimal is written out, unless it is not finite; a price is a string then.
_render_decimal(v) ==
    IF v.type # "Decimal" THEN v
    ELSE IF v.is = "nan" THEN Refused ELSE V("str", v.is)
_require_price_string(v) ==
    LET price == _render_decimal(v)
    IN  IF price.type = "str" /\ _assert_finite(price, TRUE) THEN price ELSE Refused

\* What a setter stores.
Stored(field, v, enforced) ==
    CASE Kinds[field] = "enum" -> convert_enum(v, enforced)
      [] Kinds[field] = "instant" -> _cancel_time_string(v)
      [] Kinds[field] = "number" -> IF _assert_finite(v, FALSE) THEN v ELSE Refused
      [] Kinds[field] = "positive" ->
            IF _assert_finite(v, FALSE) /\ v.is = "positive" THEN v ELSE Refused
      [] Kinds[field] = "price" -> _require_price_string(v)
      [] OTHER -> v

----------------------------------------------------------------------------
(* Building.                                                               *)

NoList == [made |-> FALSE, items |-> <<>>]
Fresh == [made |-> TRUE, enforced |-> TRUE, fields |-> [f \in Fields |-> Absent],
          legs |-> NoList, children |-> NoList]
Unmade == [Fresh EXCEPT !.made = FALSE]
NotSent == [sent |-> FALSE, of |-> "", fields |-> <<>>, legs |-> NoList, children |-> NoList]

Leg(instruction, quantity, quantityType) ==
    [instruction |-> instruction, quantity |-> quantity, quantityType |-> quantityType]
Child(builder) == [builder |-> TRUE, of |-> builder, holds |-> Absent]
DictChild(v) == [builder |-> FALSE, of |-> "", holds |-> v]

\* What a caller may offer as a child; the answer to an order placed, or
\* anything else that is neither a builder nor a dict, is refused.
NotAnOrder == DictChild(Refused)
Children == {Child(d) : d \in Builders} \cup {DictChild(v) : v \in Dicts}
IsThere(child) == child.builder => orders[child.of].made

\* The builders a builder reaches through children in that many steps.
ChildrenOf(b) == {c.of : c \in {d \in ToSet(orders[b].children.items) : d.builder}}
Further(from) == [b \in Builders |-> ChildrenOf(b) \cup UNION {from[c] : c \in ChildrenOf(b)}]
Within ==
    LET within[n \in 0 .. Cardinality(Builders)] ==
            IF n = 0 THEN [b \in Builders |-> {}] ELSE Further(within[n - 1])
    IN  within
Reached == Within[Cardinality(Builders)]

\* Literals go through, a Decimal is refused, and so is what has no attributes,
\* None among it: a field that is None is left out, a value of a dict is not.
Literal(v) == v.type \in {"str", "int", "float", "bool"}

\* A builder that is a child of itself is never built to an end.
Buildable(b) ==
    LET all == {b} \cup Reached[b]
    IN  /\ \A c \in all : c \notin Reached[c]
        /\ \A c \in all :
            /\ \A f \in Fields : \/ orders[c].fields[f].type = "None"
                                 \/ Literal(orders[c].fields[f])
            /\ \A i \in DOMAIN orders[c].children.items :
                   \/ orders[c].children.items[i].builder
                   \/ Literal(orders[c].children.items[i].holds)

\* The fields that are set, and the children built in their place.
Present_True(fields) == {f \in Fields : fields[f] # Absent /\ fields[f].is # "zero"}
Present(fields) == {f \in Fields : fields[f] # Absent}
ObjectOf(b, under) ==
    [sent |-> TRUE, of |-> b,
     fields |-> [f \in Present(orders[b].fields) |-> orders[b].fields[f]],
     legs |-> orders[b].legs,
     children |-> [made |-> orders[b].children.made,
        items |-> [i \in DOMAIN orders[b].children.items |->
            LET c == orders[b].children.items[i]
            IN  IF c.builder THEN under[c.of]
                ELSE [NotSent EXCEPT !.fields = [holds |-> c.holds]]]]]

\* The objects of the builders, to that depth; none is as deep as the last.
AllObjects(under) == [b \in Builders |-> ObjectOf(b, under)]
Objects ==
    LET built[n \in 0 .. Cardinality(Builders)] ==
            IF n = 0 THEN [b \in Builders |-> NotSent] ELSE AllObjects(built[n - 1])
    IN  built
_build_object(root) == Objects[Cardinality(Builders)][root]

----------------------------------------------------------------------------
(* Calls on a builder.                                                     *)

Init ==
    /\ orders = [b \in Builders |-> Unmade]
    /\ sent = NotSent
    /\ said = [b \in Builders |-> [f \in Fields |-> [value |-> Absent, checked |-> TRUE]]]
    /\ pairs = {}

New(b) ==
    /\ ~orders[b].made
    /\ orders' = [orders EXCEPT ![b] = Fresh]
    /\ sent' = NotSent /\ UNCHANGED <<said, pairs>>

set_enforce_enums(b, enforced) ==
    /\ orders[b].made
    /\ orders' = [orders EXCEPT ![b].enforced = enforced]
    /\ sent' = NotSent /\ UNCHANGED <<said, pairs>>

\* What a call leaves when its value is stored, or refused.
Store(b, field, v, stored, checked) ==
    /\ orders[b].made
    /\ stored # Refused
    /\ orders' = [orders EXCEPT ![b].fields = [@ EXCEPT ![field] = stored]]
    /\ said' = [said EXCEPT ![b][field] = [value |-> v, checked |-> checked]]
    /\ pairs' = IF field = "orderStrategyType" THEN {p \in pairs : p.of # b} ELSE pairs
    /\ sent' = NotSent

set(b, field, v) ==
    Store(b, field, v, Stored(field, v, orders[b].enforced),
          Kinds[field] # "enum" \/ orders[b].enforced)
copy(b, field, v) ==
    Kinds[field] = "price" /\ Store(b, field, v, _render_decimal(v), FALSE)
clear(b, field) == Store(b, field, Absent, Absent, TRUE)

\* A leg is checked whole before the list it goes to is made.
LegsAfter(legs, instruction, quantity, quantityType) ==
    IF /\ instruction # Refused /\ quantityType # Refused
       /\ _assert_finite(quantity, FALSE) /\ quantity.is = "positive"
    THEN [made |-> TRUE, items |-> Append(legs.items, Leg(instruction, quantity, quantityType))]
    ELSE legs
add_leg(b, instruction, quantity, quantityType) ==
    /\ orders[b].made
    /\ Len(orders[b].legs.items) < MaxList
    /\ orders' = [orders EXCEPT ![b].legs =
           LegsAfter(@, convert_enum(instruction, orders[b].enforced), quantity,
                     convert_enum(quantityType, orders[b].enforced))]
    /\ sent' = NotSent /\ UNCHANGED <<said, pairs>>
clear_order_legs(b) ==
    /\ orders[b].made
    /\ orders' = [orders EXCEPT ![b].legs = NoList]
    /\ sent' = NotSent /\ UNCHANGED <<said, pairs>>

\* A builder or a dict is added as it is; the caller may change it afterwards.
WithChild(order, child) ==
    [order EXCEPT !.children = [made |-> TRUE, items |-> Append(@.items, child)]]
add_child_order_strategy(b, child) ==
    /\ orders[b].made /\ IsThere(child)
    /\ Len(orders[b].children.items) < MaxList
    /\ orders' = [orders EXCEPT ![b] = WithChild(@, child)]
    /\ sent' = NotSent /\ UNCHANGED <<said, pairs>>
clear_child_order_strategies(b) ==
    /\ orders[b].made
    /\ orders' = [orders EXCEPT ![b].children = NoList]
    /\ pairs' = {p \in pairs : p.of # b}
    /\ sent' = NotSent /\ UNCHANGED said

build(b) ==
    /\ orders[b].made
    /\ Buildable(b)
    /\ sent' = _build_object(b)
    /\ UNCHANGED <<orders, said, pairs>>

----------------------------------------------------------------------------
(* The helpers.  first_triggers_second changes the first order itself, and *)
(* has set its strategy when the second is refused; one_cancels_other      *)
(* makes a new order, which is lost when either is.                        *)

Strategy(order, type) ==
    [order EXCEPT !.fields = [@ EXCEPT !["orderStrategyType"] = V("str", type)]]
SaidStrategy(b, type) ==
    [said EXCEPT ![b]["orderStrategyType"] = [value |-> V("enum", type), checked |-> TRUE]]

Triggering(first) == {p \in pairs : p.of = first => p.how = "TRIGGER"}
first_triggers_second(first, second) ==
    /\ orders[first].made /\ IsThere(second)
    /\ Len(orders[first].children.items) < MaxList
    /\ said' = SaidStrategy(first, "TRIGGER")
    /\ \/ /\ second # NotAnOrder
          /\ orders' = [orders EXCEPT ![first] = WithChild(Strategy(@, "TRIGGER"), second)]
          /\ pairs' = Triggering(first) \cup
                 {[how |-> "TRIGGER", of |-> first, orders |-> {second}]}
       \/ /\ second = NotAnOrder
          /\ orders' = [orders EXCEPT ![first] = Strategy(@, "TRIGGER")]
          /\ pairs' = Triggering(first)
    /\ sent' = NotSent

one_cancels_other(new, one, other) ==
    /\ ~orders[new].made /\ IsThere(one) /\ IsThere(other)
    /\ MaxList >= 2
    /\ orders' = [orders EXCEPT ![new] =
           WithChild(WithChild(Strategy(Fresh, "OCO"), one), other)]
    /\ said' = SaidStrategy(new, "OCO")
    /\ pairs' = pairs \cup {[how |-> "OCO", of |-> new, orders |-> {one, other}]}
    /\ sent' = NotSent

Next ==
    \E b \in Builders :
        \/ New(b)
        \/ \E e \in Enforcing : set_enforce_enums(b, e)
        \/ \E f \in Fields : \/ \E v \in Values : set(b, f, v) \/ copy(b, f, v)
                             \/ clear(b, f)
        \/ \E q \in Quantities, t \in {Absent, V("str", "SHARES")} :
               add_leg(b, V("enum", "BUY"), q, t)
        \/ clear_order_legs(b)
        \/ \E c \in Children : add_child_order_strategy(b, c)
        \/ clear_child_order_strategies(b)
        \/ build(b)
        \/ /\ "orderStrategyType" \in Fields
           /\ \/ \E c \in Children \cup {NotAnOrder} : first_triggers_second(b, c)
              \/ \E c, d \in Children : one_cancels_other(b, c, d)

Spec == Init /\ [][Next]_vars

----------------------------------------------------------------------------
(* Properties.                                                             *)

\* An order and those under it, as they are sent.
Under(objects) == objects \cup UNION {ToSet(o.children.items) : o \in objects}
Levels(order) ==
    LET level[n \in 0 .. Cardinality(Builders)] ==
            IF n = 0 THEN {order} ELSE Under(level[n - 1])
    IN  level
Nodes(order) == {o \in Levels(order)[Cardinality(Builders)] : o.sent}

\* Every field sent is a literal of JSON, and one whose last call checked it is
\* what the venue takes there: a finite number, a positive one, a price written
\* out.  Not a number, a bool or a Decimal gets past no setter (_assert_finite).
IsSendable(field, v) ==
    CASE Kinds[field] = "number" -> v.type \in {"int", "float"} /\ v.is \notin {"nan", "huge"}
      [] Kinds[field] = "positive" -> v.type \in {"int", "float"} /\ v.is = "positive"
      [] Kinds[field] = "price" -> v.type = "str" /\ v.is # "nan"
      [] Kinds[field] \in {"enum", "instant"} -> v.type = "str"
      [] OTHER -> TRUE
Sendable(o) ==
    \A f \in DOMAIN o.fields :
        /\ o.fields[f].type \in {"str", "int", "float", "bool"}
        /\ said[o.of][f].checked => IsSendable(f, o.fields[f])

\* It holds, in every field, what was last said there before it was built, by
\* the caller or by a helper it called, and nothing where nothing was said: a
\* zero is a value, and a field cleared is absent.  A helper has said TRIGGER
\* of the first order also when it refuses the second.
AsSaid(o) ==
    \A f \in Fields :
        IF said[o.of][f].value.type = "None" THEN f \notin DOMAIN o.fields
        ELSE f \in DOMAIN o.fields /\ o.fields[f].is = said[o.of][f].value.is

\* No list of legs or children is sent empty, whatever calls were refused.
NoEmptyList(o) ==
    /\ o.legs.made => o.legs.items # <<>>
    /\ o.children.made => o.children.items # <<>>

\* An order that a helper tied others to, and refused none of them, has them
\* under it and the strategy that ties them, unless the caller itself has
\* changed its strategy or its children.
StandsFor(sub, child) ==
    IF child.builder THEN sub.sent /\ sub.of = child.of
    ELSE ~sub.sent /\ sub.fields = [holds |-> child.holds]
TiesKept(o) ==
    \A p \in pairs : p.of = o.of =>
        /\ "orderStrategyType" \in DOMAIN o.fields
        /\ o.fields["orderStrategyType"] = V("str", p.how)
        /\ \A child \in p.orders :
              \E sub \in ToSet(o.children.items) : StandsFor(sub, child)

\* What is sent is what was asked for, its children included.
SentAsAsked ==
    sent' # sent =>
        \A o \in Nodes(sent') :
            Sendable(o) /\ AsSaid(o) /\ NoEmptyList(o) /\ TiesKept(o)
OrdersAsAsked == [][SentAsAsked]_vars
=============================================================================
