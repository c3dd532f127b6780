------------------------- MODULE OrderBuilderProofs -------------------------
(***************************************************************************)
(* For every set of builders and every calls made on them: what build      *)
(* sends is what the caller asked for, in the order and in each order      *)
(* under it.                                                               *)
(***************************************************************************)
EXTENDS OrderBuilder, FiniteSetTheorems, SequenceTheorems,
        WellFoundedInduction, TLAPS

\* The values that may be met, and what a builder is.
Matters == {v.is : v \in Values \cup Quantities \cup Dicts}
               \cup {"", "TRIGGER", "OCO", "BUY", "SHARES"}
Value == [type : Types, is : Matters]
ListOf(S) == [made : BOOLEAN, items : Seq(S)]
Legs == [instruction : Value, quantity : Value, quantityType : Value]
Kids == [builder : BOOLEAN, of : Builders \cup {""}, holds : Value]
Order == [made : BOOLEAN, enforced : BOOLEAN, fields : [Fields -> Value],
          legs : ListOf(Legs), children : ListOf(Kids)]
Words == [Fields -> [value : Value, checked : BOOLEAN]]
Pair == [how : {"TRIGGER", "OCO"}, of : Builders, orders : SUBSET Kids]

TypeOK ==
    /\ orders \in [Builders -> Order]
    /\ said \in [Builders -> Words]
    /\ pairs \subseteq Pair

\* A field holds v when the caller last said w there.
FieldRight(f, v, w) ==
    /\ w.value.type = "None" => v = Absent
    /\ w.value.type # "None" => v # Absent /\ v.is = w.value.is
    /\ v # Absent /\ w.checked => IsSendable(f, v)
    /\ v.type = "None" => v = Absent

\* A builder of which the caller said words: its fields, its lists, and that
\* nothing was said of one that is not made.
Sound(o, words) ==
    /\ \A f \in Fields : FieldRight(f, o.fields[f], words[f])
    /\ o.legs.made => o.legs.items # <<>>
    /\ o.children.made => o.children.items # <<>>
    /\ \A i \in DOMAIN o.children.items :
          o.children.items[i].builder => o.children.items[i].of \in Builders
    /\ ~o.made => \A f \in Fields : words[f].value.type = "None"

\* An order that others were tied to still has them, and the strategy.
Has(o, c) == \E i \in DOMAIN o.children.items : o.children.items[i] = c
Kept(o, p) ==
    /\ o.made
    /\ "orderStrategyType" \in Fields
    /\ o.fields["orderStrategyType"] = V("str", p.how)
    /\ \A c \in p.orders : Has(o, c)

BuilderInv ==
    /\ TypeOK
    /\ \A b \in Builders : Sound(orders[b], said[b])
    /\ \A p \in pairs : Kept(orders[p.of], p)

-----------------------------------------------------------------------------
(* What is stored.                                                         *)

\* The strategy is one of the enum fields.
LEMMA StrategyKind == Kinds["orderStrategyType"] = "enum"
<1>1. /\ DOMAIN WhenFields = {"session", "duration", "cancelTime", "orderType", "complexOrderStrategyType"}
      /\ DOMAIN SizeFields = {"quantity", "requestedDestination", "destinationLinkName"}
      /\ DOMAIN StopFields = {"stopPrice", "stopPriceLinkBasis", "stopPriceLinkType", "stopPriceOffset", "stopType"}
      /\ DOMAIN PriceFields = {"priceLinkBasis", "priceLinkType", "priceOffset", "price", "activationPrice"}
      /\ DOMAIN OtherFields = {"taxLotMethod", "specialInstruction", "orderStrategyType"}
  BY DEF WhenFields, SizeFields, StopFields, PriceFields, OtherFields
<1>2. \A table \in FieldTables : "orderStrategyType" \in DOMAIN table <=> table = OtherFields
  BY <1>1 DEF FieldTables
<1>3. Kinds["orderStrategyType"] = OtherFields["orderStrategyType"]
  BY <1>2, Zenon DEF Kinds, FieldTables
<1> QED
  BY <1>3 DEF OtherFields

\* A string that is stored.
LEMMA Strings ==
    ASSUME NEW x \in Matters
    PROVE  /\ V("str", x) \in Value /\ V("str", x) # Absent
           /\ V("str", x).type = "str" /\ V("str", x).is = x
BY DEF V, Value, Types, Absent

\* None.
LEMMA Nothing ==
    Absent \in Value /\ Absent.type = "None"
BY DEF V, Value, Types, Matters, Absent

\* It is kept as it is, in every field.
LEMMA AbsentRight ==
    ASSUME NEW f, NEW w, w.value.type = "None"
    PROVE  FieldRight(f, Absent, w)
BY DEF FieldRight

\* What a setter stores is what the caller said, and checked if it says so.
LEMMA StoredRight ==
    ASSUME NEW f \in Fields, NEW v \in Value, NEW e \in BOOLEAN,
           v.type = "None" => v = Absent,
           NEW s, s = Stored(f, v, e), s # Refused,
           NEW w, w.value = v, w.checked => Kinds[f] # "enum" \/ e
    PROVE  s \in Value /\ FieldRight(f, s, w)
<1>0. /\ V("str", v.is) \in Value /\ V("str", v.is).is = v.is
      /\ V("str", v.is).type = "str" /\ V("str", v.is) # Absent
      /\ Absent \in Value /\ Absent.type = "None"
  BY Strings, Nothing DEF Value
<1>1. CASE Kinds[f] = "enum"
  <2>1. s = convert_enum(v, e)
    BY <1>1 DEF Stored
  <2>2. CASE v.type = "None"
    <3>1. s = Absent
      BY <2>1, <2>2 DEF convert_enum
    <3> QED
      BY <1>0, <2>2, <3>1 DEF FieldRight
  <2>3. CASE v.type = "enum"
    <3>1. s = V("str", v.is)
      BY <2>1, <2>3 DEF convert_enum
    <3>2. s.type = "str" /\ s.is = v.is /\ s # Absent /\ s \in Value
      BY <1>0, <3>1
    <3>3. IsSendable(f, s)
      BY <1>1, <3>2 DEF IsSendable
    <3> QED
      BY <2>3, <3>2, <3>3 DEF FieldRight
  <2>4. CASE v.type \notin {"None", "enum"}
    <3>1. s = IF e THEN Refused ELSE v
      BY <2>1, <2>4 DEF convert_enum
    <3>2. s = v /\ ~e
      BY <3>1
    <3>3. s # Absent
      BY <1>0, <2>4, <3>2
    <3> QED
      BY <1>1, <2>4, <3>2, <3>3 DEF FieldRight
  <2> QED
    BY <2>2, <2>3, <2>4
<1>2. CASE Kinds[f] = "instant"
  <2>1. s = _cancel_time_string(v)
    BY <1>2 DEF Stored
  <2>2. v.type = "aware" /\ s = V("str", v.is)
    BY <2>1 DEF _cancel_time_string
  <2>3. s.type = "str" /\ s.is = v.is /\ s # Absent /\ s \in Value
    BY <1>0, <2>2
  <2>4. IsSendable(f, s)
    BY <1>2, <2>3 DEF IsSendable
  <2> QED
    BY <2>2, <2>3, <2>4 DEF FieldRight
<1>3. CASE Kinds[f] \in {"number", "positive"}
  <2>1. s = v /\ _assert_finite(v, FALSE) /\ (Kinds[f] = "positive" => v.is = "positive")
    BY <1>3 DEF Stored
  <2>2. v.type \in {"int", "float"} /\ v.is \notin {"nan", "huge"}
    BY <2>1 DEF _assert_finite
  <2>3. IsSendable(f, s)
    BY <1>3, <2>1, <2>2 DEF IsSendable
  <2>4. s # Absent
    BY <1>0, <2>1, <2>2
  <2> QED
    BY <2>1, <2>2, <2>3, <2>4 DEF FieldRight
<1>4. CASE Kinds[f] = "price"
  <2>1. s = _require_price_string(v)
    BY <1>4 DEF Stored
  <2>2. /\ s = _render_decimal(v)
        /\ s.type = "str" /\ _assert_finite(s, TRUE)
    <3> DEFINE d == _render_decimal(v)
    <3>1. s = IF d.type = "str" /\ _assert_finite(d, TRUE) THEN d ELSE Refused
      BY <2>1 DEF _require_price_string
    <3> HIDE DEF d
    <3>2. s = d /\ d.type = "str" /\ _assert_finite(d, TRUE)
      BY <3>1
    <3> QED
      BY <3>2 DEF d
  <2>3. s.is # "nan"
    BY <2>2 DEF _assert_finite
  <2>4. s \in {v, V("str", v.is)} /\ v.type # "None"
    <3>1. CASE v.type = "Decimal"
      <4>1. s = IF v.is = "nan" THEN Refused ELSE V("str", v.is)
        BY <2>2, <3>1 DEF _render_decimal
      <4> QED
        BY <3>1, <4>1
    <3>2. CASE v.type # "Decimal"
      <4>1. s = v
        BY <2>2, <3>2 DEF _render_decimal
      <4> QED
        BY <2>2, <4>1
    <3> QED
      BY <3>1, <3>2
  <2>5. s \in Value /\ s.is = v.is /\ v.type # "None" /\ s # Absent
    BY <1>0, <2>2, <2>4
  <2>6. IsSendable(f, s)
    BY <1>4, <2>2, <2>3 DEF IsSendable
  <2> QED
    BY <2>2, <2>5, <2>6 DEF FieldRight
<1>5. CASE Kinds[f] \notin {"enum", "instant", "number", "positive", "price"}
  <2>1. s = v
    BY <1>5 DEF Stored
  <2>2. IsSendable(f, v)
    BY <1>5 DEF IsSendable
  <2> QED
    BY <1>0, <2>1, <2>2 DEF FieldRight
<1> QED
  BY <1>1, <1>2, <1>3, <1>4, <1>5

\* So is a price that is copied, and nobody checked.
LEMMA CopiedRight ==
    ASSUME NEW f \in Fields, NEW v \in Value, v.type = "None" => v = Absent,
           NEW s, s = _render_decimal(v), s # Refused,
           NEW w, w.value = v, ~w.checked
    PROVE  s \in Value /\ FieldRight(f, s, w)
<1>1. CASE v.type = "Decimal"
  <2>1. s = V("str", v.is)
    BY <1>1 DEF _render_decimal
  <2>2. s \in Value /\ s.is = v.is /\ s # Absent /\ s.type = "str"
    BY <2>1, Strings DEF Value
  <2> QED
    BY <1>1, <2>2 DEF FieldRight
<1>2. CASE v.type # "Decimal"
  <2>1. s = v
    BY <1>2 DEF _render_decimal
  <2>2. v.type # "None" => v # Absent
    BY Nothing
  <2> QED
    BY <2>1, <2>2 DEF FieldRight
<1> QED
  BY <1>1, <1>2
-----------------------------------------------------------------------------
(* The calls.                                                              *)

\* A new builder is a builder, and says nothing.
LEMMA FreshRight ==
    /\ Fresh \in Order /\ Unmade \in Order
    /\ Fresh.made /\ ~Unmade.made
    /\ Fresh.legs = NoList /\ Fresh.children = NoList
    /\ Unmade.legs = NoList /\ Unmade.children = NoList
    /\ \A f \in Fields : Fresh.fields[f] = Absent /\ Unmade.fields[f] = Absent
<1>1. [f \in Fields |-> Absent] \in [Fields -> Value]
  BY Nothing
<1>2. NoList \in ListOf(Legs) /\ NoList \in ListOf(Kids)
  BY DEF NoList, ListOf
<1> QED
  BY <1>1, <1>2 DEF Fresh, Unmade, Order

\* An empty list that is not sent is none.
LEMMA EmptySound ==
    ASSUME NEW o, o.legs = NoList, o.children = NoList,
           \A f \in Fields : o.fields[f] = Absent,
           NEW w, \A f \in Fields : w[f].value.type = "None"
    PROVE  Sound(o, w)
BY AbsentRight DEF Sound, NoList

\* A call that changes one builder, and leaves it as its caller said.
LEMMA OneChanged ==
    ASSUME BuilderInv, NEW b \in Builders, NEW o \in Order, NEW w \in Words,
           orders' = [orders EXCEPT ![b] = o],
           said' = [said EXCEPT ![b] = w],
           Sound(o, w), pairs' \subseteq Pair,
           \A p \in pairs' : IF p.of = b THEN Kept(o, p) ELSE p \in pairs
    PROVE  BuilderInv'
<1>1. TypeOK'
  BY DEF BuilderInv, TypeOK
<1>2. \A c \in Builders : orders'[c] = (IF c = b THEN o ELSE orders[c])
                          /\ said'[c] = (IF c = b THEN w ELSE said[c])
  BY DEF BuilderInv, TypeOK
<1>3. \A c \in Builders : Sound(orders'[c], said'[c])
  BY <1>2 DEF BuilderInv
<1>4. \A p \in pairs' : Kept(orders'[p.of], p)
  BY <1>2 DEF BuilderInv, Pair
<1> QED
  BY <1>1, <1>3, <1>4 DEF BuilderInv

\* One that leaves what was said, and the pairs, as they are.
LEMMA OrderChanged ==
    ASSUME BuilderInv, NEW b \in Builders, NEW o \in Order,
           orders' = [orders EXCEPT ![b] = o], UNCHANGED said,
           Sound(o, said[b]), pairs' \subseteq pairs,
           \A p \in pairs' : p.of = b => Kept(o, p)
    PROVE  BuilderInv'
<1>1. said[b] \in Words /\ said' = [said EXCEPT ![b] = said[b]] /\ pairs' \subseteq Pair
  BY DEF BuilderInv, TypeOK
<1> QED
  BY <1>1, OneChanged

\* The invariant, of one operation after the other. At first nothing is made.
LEMMA InitBuilder == Init => BuilderInv
<1> SUFFICES ASSUME Init PROVE BuilderInv
  OBVIOUS
<1> DEFINE quiet == [f \in Fields |-> [value |-> Absent, checked |-> TRUE]]
<1>1. quiet \in Words /\ \A f \in Fields : quiet[f].value.type = "None"
  BY Nothing DEF Words
<1>2. orders = [b \in Builders |-> Unmade] /\ said = [b \in Builders |-> quiet] /\ pairs = {}
  BY DEF Init
<1> HIDE DEF quiet
<1>3. TypeOK
  BY <1>1, <1>2, FreshRight DEF TypeOK
<1>4. Sound(Unmade, quiet)
  BY <1>1, FreshRight, EmptySound
<1> QED
  BY <1>2, <1>3, <1>4 DEF BuilderInv

\* A builder that is made has no fields yet, and is in no pair's first place.
LEMMA NewKeeps ==
    ASSUME BuilderInv, NEW b \in Builders, New(b)
    PROVE  BuilderInv'
<1>1. Sound(Fresh, said[b])
  BY FreshRight, EmptySound DEF BuilderInv, Sound, New
<1>2. \A p \in pairs : p.of # b
  BY DEF BuilderInv, Kept, New
<1> QED
  BY <1>1, <1>2, FreshRight, OrderChanged DEF New

\* Later checks are made or not; what is stored stays as it was checked.
LEMMA EnforceKeeps ==
    ASSUME BuilderInv, NEW b \in Builders, NEW e \in BOOLEAN,
           set_enforce_enums(b, e)
    PROVE  BuilderInv'
<1> DEFINE o == [orders[b] EXCEPT !.enforced = e]
<1>0. orders[b] \in Order
  BY DEF BuilderInv, TypeOK
<1>1. /\ o \in Order /\ o.made = orders[b].made /\ o.fields = orders[b].fields
      /\ o.legs = orders[b].legs /\ o.children = orders[b].children
  BY <1>0 DEF Order
<1>2. orders' = [orders EXCEPT ![b] = o]
  BY DEF set_enforce_enums
<1> HIDE DEF o
<1>3. Sound(o, said[b])
  BY <1>1 DEF BuilderInv, Sound
<1>4. \A p \in pairs : p.of = b => Kept(o, p)
  BY <1>1 DEF BuilderInv, Kept, Has
<1> QED
  BY <1>1, <1>2, <1>3, <1>4, OrderChanged DEF set_enforce_enums

\* A field stored as the caller said it, and as it was checked, stays right.
LEMMA StoreKeeps ==
    ASSUME BuilderInv, NEW b \in Builders, NEW f \in Fields, NEW v \in Value,
           NEW s \in Value, NEW ch \in BOOLEAN, Store(b, f, v, s, ch),
           FieldRight(f, s, [value |-> v, checked |-> ch])
    PROVE  BuilderInv'
<1> DEFINE o == [orders[b] EXCEPT !.fields = [@ EXCEPT ![f] = s]]
           w == [said[b] EXCEPT ![f] = [value |-> v, checked |-> ch]]
<1>0. orders[b] \in Order /\ said[b] \in Words
  BY DEF BuilderInv, TypeOK
<1>1. /\ o \in Order /\ o.made = orders[b].made
      /\ o.legs = orders[b].legs /\ o.children = orders[b].children
      /\ \A g \in Fields : o.fields[g] = IF g = f THEN s ELSE orders[b].fields[g]
  BY <1>0 DEF Order
<1>2. /\ w \in Words
      /\ \A g \in Fields : w[g] = IF g = f THEN [value |-> v, checked |-> ch]
                                 ELSE said[b][g]
  BY <1>0 DEF Words
<1>3. orders' = [orders EXCEPT ![b] = o] /\ said' = [said EXCEPT ![b] = w] /\ orders[b].made
  BY DEF Store
<1> HIDE DEF o, w
<1>4. Sound(o, w)
  <2>1. \A g \in Fields : FieldRight(g, o.fields[g], w[g])
    BY <1>1, <1>2 DEF BuilderInv, Sound
  <2> QED
    BY <1>1, <1>3, <2>1 DEF BuilderInv, Sound
<1>5. pairs' \subseteq pairs /\ (f = "orderStrategyType" => \A p \in pairs' : p.of # b)
  BY DEF Store
<1>6. \A p \in pairs' : p.of = b => Kept(o, p)
  BY <1>1, <1>5 DEF BuilderInv, Kept, Has
<1> QED
  BY <1>1, <1>2, <1>3, <1>4, <1>5, <1>6, OneChanged DEF BuilderInv, TypeOK

\* The setters and copy_ store what they check (_convert_enum, the setters).
LEMMA SetKeeps ==
    ASSUME BuilderInv, CallerAssumption, NEW b \in Builders, NEW f \in Fields,
           NEW v \in Values, set(b, f, v) \/ copy(b, f, v)
    PROVE  BuilderInv'
<1>1. v \in Value /\ (v.type = "None" => v = Absent)
  BY DEF CallerAssumption, Value, Matters
<1>2. orders[b].enforced \in BOOLEAN
  BY DEF BuilderInv, TypeOK, Order
<1>3. CASE set(b, f, v)
  <2> DEFINE s == Stored(f, v, orders[b].enforced)
             ch == Kinds[f] # "enum" \/ orders[b].enforced
  <2>1. Store(b, f, v, s, ch)
    BY <1>3 DEF set
  <2>2. s # Refused /\ ch \in BOOLEAN
    BY <1>2, <2>1 DEF Store
  <2>3. s \in Value /\ FieldRight(f, s, [value |-> v, checked |-> ch])
    BY <1>1, <1>2, <2>2, StoredRight
  <2> HIDE DEF s, ch
  <2> QED
    BY <1>1, <2>1, <2>2, <2>3, StoreKeeps
<1>4. CASE copy(b, f, v)
  <2> DEFINE s == _render_decimal(v)
  <2>1. Store(b, f, v, s, FALSE)
    BY <1>4 DEF copy
  <2>2. s # Refused
    BY <2>1 DEF Store
  <2>3. s \in Value /\ FieldRight(f, s, [value |-> v, checked |-> FALSE])
    BY <1>1, <2>2, CopiedRight
  <2> HIDE DEF s
  <2> QED
    BY <1>1, <2>1, <2>3, StoreKeeps
<1> QED
  BY <1>3, <1>4

\* A clear method: the field is absent, which is what was said.
LEMMA ClearKeeps ==
    ASSUME BuilderInv, NEW b \in Builders, NEW f \in Fields, clear(b, f)
    PROVE  BuilderInv'
<1>1. FieldRight(f, Absent, [value |-> Absent, checked |-> TRUE])
  BY AbsentRight, Nothing
<1> QED
  BY <1>1, Nothing, StoreKeeps DEF clear

\* A leg that is checked is added to the list; one that is not leaves it.
LEMMA AddLegKeeps ==
    ASSUME BuilderInv, CallerAssumption, NEW b \in Builders, NEW q \in Quantities,
           NEW n \in {Absent, V("str", "SHARES")},
           add_leg(b, V("enum", "BUY"), q, n)
    PROVE  BuilderInv'
<1> DEFINE e == orders[b].enforced
           i == convert_enum(V("enum", "BUY"), e)
           k == convert_enum(n, e)
           l == LegsAfter(orders[b].legs, i, q, k)
           o == [orders[b] EXCEPT !.legs = l]
<1>0. orders[b] \in Order
  BY DEF BuilderInv, TypeOK
<1>1. i = V("str", "BUY") /\ i \in Value
  BY Strings DEF convert_enum, V, Matters
<1>2. n \in Value
  BY Nothing, Strings DEF Matters
<1>3. k \in Value \cup {Refused}
  <2>1. CASE n = Absent
    <3>1. k = Absent
      BY <2>1, Nothing DEF convert_enum
    <3> QED
      BY <3>1, Nothing
  <2>2. CASE n = V("str", "SHARES")
    <3>1. n.type = "str"
      BY <2>2 DEF V
    <3>2. k = IF e THEN Refused ELSE n
      BY <3>1 DEF convert_enum
    <3> QED
      BY <1>2, <3>2
  <2> QED
    BY <2>1, <2>2
<1>4. q \in Value
  BY DEF CallerAssumption, Value, Matters
<1> HIDE DEF i, k
<1>5. l \in ListOf(Legs) /\ (l.made => l.items # <<>>)
  <2>1. orders[b].legs \in ListOf(Legs)
    BY <1>0 DEF Order
  <2>2. orders[b].legs.made => orders[b].legs.items # <<>>
    BY DEF BuilderInv, Sound
  <2>3. CASE /\ i # Refused /\ k # Refused
             /\ _assert_finite(q, FALSE) /\ q.is = "positive"
    <3>1. l = [made |-> TRUE, items |-> Append(orders[b].legs.items, Leg(i, q, k))]
      BY <2>3 DEF LegsAfter
    <3>2. Leg(i, q, k) \in Legs
      BY <1>1, <1>3, <1>4, <2>3 DEF Leg, Legs
    <3>3. orders[b].legs.items \in Seq(Legs)
      BY <2>1 DEF ListOf
    <3>4. /\ Append(orders[b].legs.items, Leg(i, q, k)) \in Seq(Legs)
          /\ Append(orders[b].legs.items, Leg(i, q, k)) # <<>>
      BY <3>2, <3>3
    <3> QED
      BY <3>1, <3>4 DEF ListOf
  <2>4. CASE ~(/\ i # Refused /\ k # Refused
               /\ _assert_finite(q, FALSE) /\ q.is = "positive")
    <3>1. l = orders[b].legs
      BY <2>4 DEF LegsAfter
    <3> QED
      BY <2>1, <2>2, <3>1
  <2> QED
    BY <2>3, <2>4
<1>6. orders' = [orders EXCEPT ![b] = o]
  BY DEF add_leg, i, k
<1> HIDE DEF l
<1>7. /\ o \in Order /\ o.made = orders[b].made /\ o.fields = orders[b].fields
      /\ o.legs = l /\ o.children = orders[b].children
  BY <1>0, <1>5 DEF Order
<1> HIDE DEF o
<1>8. Sound(o, said[b])
  BY <1>5, <1>7 DEF BuilderInv, Sound
<1>9. \A p \in pairs : p.of = b => Kept(o, p)
  BY <1>7 DEF BuilderInv, Kept, Has
<1> QED
  BY <1>6, <1>7, <1>8, <1>9, OrderChanged DEF add_leg

\* The list of legs goes as a whole, and no empty one is left.
LEMMA ClearLegsKeeps ==
    ASSUME BuilderInv, NEW b \in Builders, clear_order_legs(b)
    PROVE  BuilderInv'
<1> DEFINE o == [orders[b] EXCEPT !.legs = NoList]
<1>0. orders[b] \in Order /\ NoList \in ListOf(Legs) /\ ~NoList.made
  BY DEF BuilderInv, TypeOK, NoList, ListOf
<1>1. /\ o \in Order /\ o.made = orders[b].made /\ o.fields = orders[b].fields
      /\ o.legs = NoList /\ o.children = orders[b].children
  BY <1>0 DEF Order
<1>2. orders' = [orders EXCEPT ![b] = o]
  BY DEF clear_order_legs
<1> HIDE DEF o
<1>3. Sound(o, said[b])
  BY <1>0, <1>1 DEF BuilderInv, Sound
<1>4. \A p \in pairs : p.of = b => Kept(o, p)
  BY <1>1 DEF BuilderInv, Kept, Has
<1> QED
  BY <1>1, <1>2, <1>3, <1>4, OrderChanged DEF clear_order_legs

\* A child is a builder or a dict of the caller's.
LEMMA ChildrenAreKids ==
    ASSUME CallerAssumption, NEW c \in Children
    PROVE  c \in Kids /\ (c.builder => c.of \in Builders)
<1>1. \A d \in Builders : Child(d) \in Kids /\ Child(d).of \in Builders
  BY Nothing DEF Child, Kids
<1>2. \A v \in Dicts : DictChild(v) \in Kids /\ ~DictChild(v).builder
  BY DEF DictChild, Kids, CallerAssumption, Value, Matters
<1> QED
  BY <1>1, <1>2 DEF Children

\* A child is added behind those there are.
LEMMA ChildAdded ==
    ASSUME NEW o \in Order, NEW c \in Kids, c.builder => c.of \in Builders,
           \A i \in DOMAIN o.children.items :
              o.children.items[i].builder => o.children.items[i].of \in Builders
    PROVE  /\ WithChild(o, c) \in Order
           /\ WithChild(o, c).made = o.made /\ WithChild(o, c).fields = o.fields
           /\ WithChild(o, c).legs = o.legs
           /\ WithChild(o, c).children.items # <<>>
           /\ \A i \in DOMAIN WithChild(o, c).children.items :
                 WithChild(o, c).children.items[i].builder
                    => WithChild(o, c).children.items[i].of \in Builders
           /\ Has(WithChild(o, c), c)
           /\ \A d : Has(o, d) => Has(WithChild(o, c), d)
<1> DEFINE s == o.children.items
           r == Append(s, c)
           a == WithChild(o, c)
<1>1. s \in Seq(Kids)
  BY DEF Order, ListOf
<1>2. /\ r \in Seq(Kids) /\ r # <<>> /\ DOMAIN r = 1 .. Len(s) + 1
      /\ DOMAIN s = 1 .. Len(s) /\ Len(s) \in Nat
      /\ \A i \in 1 .. Len(s) : r[i] = s[i]
      /\ r[Len(s) + 1] = c
  BY <1>1
<1> HIDE DEF r
<1> DEFINE y == [made |-> TRUE, items |-> r]
<1>3. y \in ListOf(Kids) /\ y.items = r
  BY <1>2 DEF ListOf
<1>4. a = [o EXCEPT !.children = y]
  BY DEF WithChild, r
<1> HIDE DEF y
<1>5. /\ a \in Order /\ a.made = o.made /\ a.fields = o.fields /\ a.legs = o.legs
      /\ a.children.items = r
  BY <1>3, <1>4 DEF Order
<1> HIDE DEF a
<1>6. \A i \in DOMAIN r : (i \in DOMAIN s /\ r[i] = s[i]) \/ (i = Len(s) + 1 /\ r[i] = c)
  BY <1>2
<1>7. \A i \in DOMAIN r : r[i].builder => r[i].of \in Builders
  BY <1>6
<1>8. Len(s) + 1 \in DOMAIN r
  BY <1>2
<1>9. Has(a, c) /\ \A d : Has(o, d) => Has(a, d)
  BY <1>2, <1>5, <1>8 DEF Has
<1> QED
  BY <1>2, <1>5, <1>7, <1>9 DEF a

\* A child joins at the end, and what was a child before still is.
LEMMA AddChildKeeps ==
    ASSUME BuilderInv, CallerAssumption, NEW b \in Builders,
           NEW c \in Children, add_child_order_strategy(b, c)
    PROVE  BuilderInv'
<1> DEFINE o == WithChild(orders[b], c)
<1>1. c \in Kids /\ (c.builder => c.of \in Builders)
  BY ChildrenAreKids
<1>2. orders[b] \in Order /\ Sound(orders[b], said[b])
  BY DEF BuilderInv, TypeOK
<1>3. /\ o \in Order /\ o.made = orders[b].made /\ o.fields = orders[b].fields
      /\ o.legs = orders[b].legs /\ o.children.items # <<>>
      /\ \A i \in DOMAIN o.children.items :
            o.children.items[i].builder => o.children.items[i].of \in Builders
      /\ \A d : Has(orders[b], d) => Has(o, d)
  BY <1>1, <1>2, ChildAdded DEF Sound
<1>4. orders' = [orders EXCEPT ![b] = o]
  BY DEF add_child_order_strategy
<1> HIDE DEF o
<1>5. Sound(o, said[b])
  BY <1>2, <1>3 DEF Sound
<1>6. \A p \in pairs : p.of = b => Kept(o, p)
  BY <1>3 DEF BuilderInv, Kept
<1> QED
  BY <1>3, <1>4, <1>5, <1>6, OrderChanged DEF add_child_order_strategy

\* Kids are the caller's to clear: the pairs of this order end.
LEMMA ClearChildrenKeeps ==
    ASSUME BuilderInv, NEW b \in Builders, clear_child_order_strategies(b)
    PROVE  BuilderInv'
<1> DEFINE o == [orders[b] EXCEPT !.children = NoList]
<1>0. /\ orders[b] \in Order /\ NoList \in ListOf(Kids) /\ ~NoList.made
      /\ DOMAIN NoList.items = {}
  BY DEF BuilderInv, TypeOK, NoList, ListOf
<1>1. /\ o \in Order /\ o.made = orders[b].made /\ o.fields = orders[b].fields
      /\ o.legs = orders[b].legs /\ o.children = NoList
  BY <1>0 DEF Order
<1>2. orders' = [orders EXCEPT ![b] = o] /\ pairs' = {p \in pairs : p.of # b}
  BY DEF clear_child_order_strategies
<1> HIDE DEF o
<1>3. Sound(o, said[b])
  BY <1>0, <1>1 DEF BuilderInv, Sound
<1> QED
  BY <1>1, <1>2, <1>3, OrderChanged DEF clear_child_order_strategies

\* The strategy of a builder, once a helper has set it.
LEMMA StrategySet ==
    ASSUME NEW o \in Order, NEW w \in Words, Sound(o, w), o.made,
           NEW type \in {"TRIGGER", "OCO"}, "orderStrategyType" \in Fields,
           NEW s, s = Strategy(o, type),
           NEW u, u = [w EXCEPT !["orderStrategyType"] =
                           [value |-> V("enum", type), checked |-> TRUE]]
    PROVE  /\ s \in Order /\ u \in Words /\ Sound(s, u) /\ s.made
           /\ s.fields["orderStrategyType"] = V("str", type)
           /\ s.children = o.children
<1> DEFINE f == "orderStrategyType"
           x == [value |-> V("enum", type), checked |-> TRUE]
<1>1. type \in Matters
  BY DEF Matters
<1>2. V("enum", type) \in Value /\ V("enum", type).type = "enum" /\ V("enum", type).is = type
  BY <1>1 DEF V, Value, Types
<1>3. /\ s \in Order /\ s.made = o.made /\ s.legs = o.legs /\ s.children = o.children
      /\ \A g \in Fields : s.fields[g] = IF g = f THEN V("str", type) ELSE o.fields[g]
  BY <1>1, Strings DEF Strategy, Order
<1>4. x.value = V("enum", type) /\ x \in [value : Value, checked : BOOLEAN]
  BY <1>2
<1> HIDE DEF x
<1>5. u \in Words /\ \A g \in Fields : u[g] = IF g = f THEN x ELSE w[g]
  BY <1>4 DEF Words, x
<1>6. IsSendable(f, V("str", type))
  BY <1>1, Strings, StrategyKind DEF IsSendable
<1>7. FieldRight(f, V("str", type), x)
  BY <1>1, <1>2, <1>4, <1>6, Strings DEF FieldRight
<1>8. \A g \in Fields : FieldRight(g, s.fields[g], u[g])
  BY <1>3, <1>5, <1>7 DEF Sound
<1>9. Sound(s, u)
  BY <1>3, <1>8 DEF Sound
<1> QED
  BY <1>3, <1>5, <1>9

\* The strategy of the first order is TRIGGER: what ties it by another ends.
LEMMA TriggeringKept ==
    ASSUME BuilderInv, NEW first \in Builders, NEW p \in Triggering(first), p.of = first,
           NEW o, o.made, o.fields["orderStrategyType"] = V("str", "TRIGGER"),
           \A c : Has(orders[first], c) => Has(o, c)
    PROVE  Kept(o, p)
<1>1. p \in pairs /\ p.how = "TRIGGER"
  BY DEF Triggering
<1>2. Kept(orders[first], p)
  BY <1>1 DEF BuilderInv
<1> QED
  BY <1>1, <1>2 DEF Kept

\* The strategy is said by the helper, and the second order is under the first
\* unless it is refused.
LEMMA TriggersKeeps ==
    ASSUME BuilderInv, CallerAssumption, "orderStrategyType" \in Fields,
           NEW first \in Builders, NEW second \in Children \cup {NotAnOrder},
           first_triggers_second(first, second)
    PROVE  BuilderInv'
<1> DEFINE s == Strategy(orders[first], "TRIGGER")
           o == WithChild(s, second)
           w == [said[first] EXCEPT !["orderStrategyType"] =
                    [value |-> V("enum", "TRIGGER"), checked |-> TRUE]]
           new == [how |-> "TRIGGER", of |-> first, orders |-> {second}]
<1>1. /\ orders[first] \in Order /\ said[first] \in Words
      /\ Sound(orders[first], said[first]) /\ orders[first].made
  BY DEF BuilderInv, TypeOK, first_triggers_second
<1>2. said' = [said EXCEPT ![first] = w]
  BY DEF first_triggers_second, SaidStrategy
<1>3. /\ s \in Order /\ w \in Words /\ Sound(s, w) /\ s.made
      /\ s.fields["orderStrategyType"] = V("str", "TRIGGER")
      /\ s.children = orders[first].children
  <2> HIDE DEF s, w
  <2> QED
    BY <1>1, StrategySet DEF s, w
<1>4. Triggering(first) \subseteq pairs /\ pairs \subseteq Pair
  BY DEF Triggering, BuilderInv, TypeOK
<1>5. CASE second # NotAnOrder
  <2>1. second \in Children
    BY <1>5
  <2>2. second \in Kids /\ (second.builder => second.of \in Builders)
    BY <2>1, ChildrenAreKids
  <2>3. orders' = [orders EXCEPT ![first] = o] /\ pairs' = Triggering(first) \cup {new}
    BY <1>5 DEF first_triggers_second
  <2> HIDE DEF s, w
  <2>4. /\ o \in Order /\ o.made = s.made /\ o.fields = s.fields
        /\ o.legs = s.legs /\ o.children.items # <<>>
        /\ \A i \in DOMAIN o.children.items :
              o.children.items[i].builder => o.children.items[i].of \in Builders
        /\ \A d : Has(s, d) => Has(o, d)
        /\ Has(o, second)
    BY <1>3, <2>2, ChildAdded DEF Sound
  <2> HIDE DEF o
  <2>5. Sound(o, w)
    BY <1>3, <2>4 DEF Sound
  <2>6. new \in Pair /\ new.of = first
    BY <2>2 DEF Pair
  <2>7. Kept(o, new)
    BY <1>3, <2>4 DEF Kept
  <2>8. \A c : Has(orders[first], c) => Has(o, c)
    BY <1>3, <2>4 DEF Has
  <2>9. \A p \in Triggering(first) : p.of = first => Kept(o, p)
    BY <1>3, <2>4, <2>8, TriggeringKept
  <2> HIDE DEF new
  <2>10. \A p \in pairs' : IF p.of = first THEN Kept(o, p) ELSE p \in pairs
    BY <1>4, <2>3, <2>6, <2>7, <2>9
  <2>11. pairs' \subseteq Pair
    BY <1>4, <2>3, <2>6
  <2> QED
    BY <1>2, <1>3, <2>3, <2>4, <2>5, <2>10, <2>11, OneChanged
<1>6. CASE second = NotAnOrder
  <2>1. orders' = [orders EXCEPT ![first] = s] /\ pairs' = Triggering(first)
    BY <1>6 DEF first_triggers_second
  <2> HIDE DEF s, w
  <2>2. \A c : Has(orders[first], c) => Has(s, c)
    BY <1>3 DEF Has
  <2>3. \A p \in Triggering(first) : p.of = first => Kept(s, p)
    BY <1>3, <2>2, TriggeringKept
  <2>4. \A p \in pairs' : IF p.of = first THEN Kept(s, p) ELSE p \in pairs
    BY <1>4, <2>1, <2>3
  <2>5. pairs' \subseteq Pair
    BY <1>4, <2>1
  <2> QED
    BY <1>2, <1>3, <2>1, <2>4, <2>5, OneChanged
<1> QED
  BY <1>5, <1>6

\* Both orders are under a new one that cancels.
LEMMA CancelsKeeps ==
    ASSUME BuilderInv, CallerAssumption, "orderStrategyType" \in Fields,
           NEW b \in Builders, NEW one \in Children, NEW other \in Children,
           one_cancels_other(b, one, other)
    PROVE  BuilderInv'
<1> DEFINE s == Strategy(Fresh, "OCO")
           h == WithChild(s, one)
           o == WithChild(h, other)
           w == [said[b] EXCEPT !["orderStrategyType"] =
                    [value |-> V("enum", "OCO"), checked |-> TRUE]]
           new == [how |-> "OCO", of |-> b, orders |-> {one, other}]
<1>1. said[b] \in Words /\ ~orders[b].made
  BY DEF BuilderInv, TypeOK, one_cancels_other
<1>2. Fresh \in Order /\ Fresh.made /\ Sound(Fresh, said[b])
  BY <1>1, FreshRight, EmptySound DEF BuilderInv, Sound
<1>3. /\ orders' = [orders EXCEPT ![b] = o]
      /\ said' = [said EXCEPT ![b] = w]
      /\ pairs' = pairs \cup {new}
  BY DEF one_cancels_other, SaidStrategy
<1>4. /\ s \in Order /\ w \in Words /\ Sound(s, w) /\ s.made
      /\ s.fields["orderStrategyType"] = V("str", "OCO")
  <2> HIDE DEF s, w
  <2> QED
    BY <1>1, <1>2, StrategySet DEF s, w
<1> HIDE DEF s, w
<1>5. /\ one \in Kids /\ (one.builder => one.of \in Builders)
      /\ other \in Kids /\ (other.builder => other.of \in Builders)
  BY ChildrenAreKids
<1>6. /\ h \in Order /\ h.made = s.made /\ h.fields = s.fields /\ h.legs = s.legs
      /\ \A i \in DOMAIN h.children.items :
            h.children.items[i].builder => h.children.items[i].of \in Builders
      /\ Has(h, one)
  BY <1>4, <1>5, ChildAdded DEF Sound
<1> HIDE DEF h
<1>7. /\ o \in Order /\ o.made = h.made /\ o.fields = h.fields /\ o.legs = h.legs
      /\ o.children.items # <<>>
      /\ \A i \in DOMAIN o.children.items :
            o.children.items[i].builder => o.children.items[i].of \in Builders
      /\ Has(o, one) /\ Has(o, other)
  BY <1>5, <1>6, ChildAdded
<1> HIDE DEF o
<1>8. Sound(o, w)
  BY <1>4, <1>6, <1>7 DEF Sound
<1>9. new \in Pair /\ new.of = b /\ Kept(o, new)
  BY <1>4, <1>5, <1>6, <1>7 DEF Pair, Kept
<1>10. \A p \in pairs : p.of # b
  BY <1>1 DEF BuilderInv, Kept
<1>11. pairs' \subseteq Pair
  BY <1>3, <1>9 DEF BuilderInv, TypeOK
<1>12. \A p \in pairs' : IF p.of = b THEN Kept(o, p) ELSE p \in pairs
  BY <1>3, <1>9, <1>10
<1> QED
  BY <1>3, <1>4, <1>7, <1>8, <1>11, <1>12, OneChanged

\* Every step keeps the invariant.
LEMMA StepBuilder ==
    ASSUME CallerAssumption, BuilderInv, [Next]_vars
    PROVE  BuilderInv'
<1>1. CASE UNCHANGED vars
  BY <1>1 DEF vars, BuilderInv, TypeOK
<1>2. ASSUME NEW b \in Builders, build(b) PROVE BuilderInv'
  BY <1>2 DEF build, BuilderInv, TypeOK
<1>3. ASSUME NEW b \in Builders, NEW e \in Enforcing, set_enforce_enums(b, e)
      PROVE  BuilderInv'
  BY <1>3, EnforceKeeps DEF CallerAssumption
<1>4. ASSUME NEW b \in Builders, NEW f \in Fields, NEW v \in Values,
             set(b, f, v) \/ copy(b, f, v)
      PROVE  BuilderInv'
  BY <1>4, SetKeeps
<1>5. ASSUME NEW b \in Builders, NEW q \in Quantities,
             NEW n \in {Absent, V("str", "SHARES")},
             add_leg(b, V("enum", "BUY"), q, n)
      PROVE  BuilderInv'
  BY <1>5, AddLegKeeps
<1>6. ASSUME NEW b \in Builders,
             NEW c \in Children, add_child_order_strategy(b, c)
      PROVE  BuilderInv'
  BY <1>6, AddChildKeeps
<1>7. ASSUME NEW b \in Builders, NEW c \in Children \cup {NotAnOrder},
             "orderStrategyType" \in Fields, first_triggers_second(b, c)
      PROVE  BuilderInv'
  BY <1>7, TriggersKeeps
<1>8. ASSUME NEW b \in Builders, NEW c \in Children, NEW d \in Children,
             "orderStrategyType" \in Fields, one_cancels_other(b, c, d)
      PROVE  BuilderInv'
  BY <1>8, CancelsKeeps
<1> QED
  BY <1>1, <1>2, <1>3, <1>4, <1>5, <1>6, <1>7, <1>8, NewKeeps, ClearKeeps,
     ClearLegsKeeps, ClearChildrenKeeps DEF Next
-----------------------------------------------------------------------------
(* What is defined step by step, over the depth of an order.               *)

\* A set of numbers that holds 0, and with each number the next one, holds
\* them all: induction in the form the provers can use, the set in place of a
\* predicate.
LEMMA SetInduction ==
    ASSUME NEW T \in SUBSET Nat, 0 \in T, \A n \in T : n + 1 \in T
    PROVE  \A n \in Nat : n \in T
<1> DEFINE R == OpToRel(<, Nat)
           U == Nat \ T
<1>1. IsWellFoundedOn(R, Nat)
  BY NatLessThanWellFounded
<1>2. \A x, y \in Nat : x < y => <<x, y>> \in R
  BY DEF OpToRel
<1> HIDE DEF R
<1> SUFFICES ASSUME U # {} PROVE FALSE
  OBVIOUS
<1>3. PICK x \in U : \A y \in U : ~ (<<y, x>> \in R)
  <2>1. U \subseteq Nat
    OBVIOUS
  <2> HIDE DEF U
  <2> QED
    BY <1>1, <2>1, WFMin
<1>4. x - 1 \in Nat /\ (x - 1) + 1 = x
  OBVIOUS
<1>5. x - 1 \in U
  <2>1. x - 1 \in T => (x - 1) + 1 \in T
    OBVIOUS
  <2> QED
    BY <2>1, <1>4
<1>6. <<x - 1, x>> \in R
  BY <1>2, <1>4
<1> QED
  BY <1>3, <1>5, <1>6

\* Who is reached in so many steps, ...
LEMMA WithinSteps ==
    ASSUME Cardinality(Builders) \in Nat
    PROVE  /\ Within[0] = [b \in Builders |-> {}]
           /\ \A n \in 1 .. Cardinality(Builders) : Within[n] = Further(Within[n - 1])
<1> DEFINE N == Cardinality(Builders)
           Def(f, n) == IF n = 0 THEN [b \in Builders |-> {}] ELSE Further(f[n - 1])
           within[n \in 0 .. N] == IF n = 0 THEN [b \in Builders |-> {}] ELSE Further(within[n - 1])
           T == {m \in Nat : \E f : f = [n \in 0 .. m |-> Def(f, n)]}
<1>1. N \in T
  <2>1. 0 \in T
    <3> DEFINE f == [n \in 0 .. 0 |-> [b \in Builders |-> {}]]
    <3>1. \A n \in 0 .. 0 : f[n] = Def(f, n)
      OBVIOUS
    <3>2. f = [n \in 0 .. 0 |-> Def(f, n)]
      BY <3>1
    <3> QED
      BY <3>2
  <2>2. ASSUME NEW m \in T PROVE m + 1 \in T
    <3>1. m \in Nat /\ m + 1 \in Nat
      OBVIOUS
    <3>2. PICK f : f = [n \in 0 .. m |-> Def(f, n)]
      OBVIOUS
    <3> DEFINE g == [n \in 0 .. m + 1 |-> IF n <= m THEN f[n] ELSE Def(f, n)]
    <3>3. \A n \in 0 .. m : f[n] = Def(f, n)
      <4> HIDE DEF Def
      <4> QED
        BY <3>2
    <3>4. ASSUME NEW n \in 0 .. m + 1 PROVE g[n] = Def(g, n)
      <4>1. n # 0 => n - 1 \in 0 .. m /\ g[n - 1] = f[n - 1]
        BY <3>1
      <4>2. Def(g, n) = Def(f, n)
        <5>1. CASE n = 0
          BY <5>1
        <5>2. CASE n # 0
          BY <5>2, <4>1
        <5> QED
          BY <5>1, <5>2
      <4> HIDE DEF Def
      <4>3. n <= m => g[n] = f[n] /\ n \in 0 .. m
        BY <3>1
      <4>4. ~(n <= m) => g[n] = Def(f, n)
        OBVIOUS
      <4> QED
        BY <3>3, <4>2, <4>3, <4>4
    <3>5. g = [n \in 0 .. m + 1 |-> Def(g, n)]
      <4> HIDE DEF Def
      <4> QED
        BY <3>4
    <3> HIDE DEF g
    <3> QED
      BY <3>1, <3>5
  <2> HIDE DEF T
  <2>3. T \subseteq Nat
    BY DEF T
  <2> QED
    BY <2>1, <2>2, <2>3, SetInduction
<1>2. within = [n \in 0 .. N |-> Def(within, n)]
  BY <1>1
<1>3. Within = within
  BY DEF Within
<1> HIDE DEF within, N
<1>4. \A n \in 0 .. N : within[n] = Def(within, n)
  <2> HIDE DEF Def
  <2> QED
    BY <1>2
<1>5. N \in Nat
  BY DEF N
<1>6. within[0] = [b \in Builders |-> {}]
  BY <1>4, <1>5
<1>7. \A n \in 1 .. N : within[n] = Further(within[n - 1])
  <2> TAKE n \in 1 .. N
  <2>1. n \in 0 .. N /\ n # 0
    BY <1>5
  <2> QED
    BY <1>4, <2>1
<1> QED
  BY <1>3, <1>6, <1>7 DEF N

\* ... the objects to such a depth, ...
LEMMA ObjectsSteps ==
    ASSUME Cardinality(Builders) \in Nat
    PROVE  /\ Objects[0] = [b \in Builders |-> NotSent]
           /\ \A n \in 1 .. Cardinality(Builders) : Objects[n] = AllObjects(Objects[n - 1])
<1> DEFINE N == Cardinality(Builders)
           Def(f, n) == IF n = 0 THEN [b \in Builders |-> NotSent] ELSE AllObjects(f[n - 1])
           built[n \in 0 .. N] == IF n = 0 THEN [b \in Builders |-> NotSent] ELSE AllObjects(built[n - 1])
           T == {m \in Nat : \E f : f = [n \in 0 .. m |-> Def(f, n)]}
<1>1. N \in T
  <2>1. 0 \in T
    <3> DEFINE f == [n \in 0 .. 0 |-> [b \in Builders |-> NotSent]]
    <3>1. \A n \in 0 .. 0 : f[n] = Def(f, n)
      OBVIOUS
    <3>2. f = [n \in 0 .. 0 |-> Def(f, n)]
      BY <3>1
    <3> QED
      BY <3>2
  <2>2. ASSUME NEW m \in T PROVE m + 1 \in T
    <3>1. m \in Nat /\ m + 1 \in Nat
      OBVIOUS
    <3>2. PICK f : f = [n \in 0 .. m |-> Def(f, n)]
      OBVIOUS
    <3> DEFINE g == [n \in 0 .. m + 1 |-> IF n <= m THEN f[n] ELSE Def(f, n)]
    <3>3. \A n \in 0 .. m : f[n] = Def(f, n)
      <4> HIDE DEF Def
      <4> QED
        BY <3>2
    <3>4. ASSUME NEW n \in 0 .. m + 1 PROVE g[n] = Def(g, n)
      <4>1. n # 0 => n - 1 \in 0 .. m /\ g[n - 1] = f[n - 1]
        BY <3>1
      <4>2. Def(g, n) = Def(f, n)
        <5>1. CASE n = 0
          BY <5>1
        <5>2. CASE n # 0
          BY <5>2, <4>1
        <5> QED
          BY <5>1, <5>2
      <4> HIDE DEF Def
      <4>3. n <= m => g[n] = f[n] /\ n \in 0 .. m
        BY <3>1
      <4>4. ~(n <= m) => g[n] = Def(f, n)
        OBVIOUS
      <4> QED
        BY <3>3, <4>2, <4>3, <4>4
    <3>5. g = [n \in 0 .. m + 1 |-> Def(g, n)]
      <4> HIDE DEF Def
      <4> QED
        BY <3>4
    <3> HIDE DEF g
    <3> QED
      BY <3>1, <3>5
  <2> HIDE DEF T
  <2>3. T \subseteq Nat
    BY DEF T
  <2> QED
    BY <2>1, <2>2, <2>3, SetInduction
<1>2. built = [n \in 0 .. N |-> Def(built, n)]
  BY <1>1
<1>3. Objects = built
  BY DEF Objects
<1> HIDE DEF built, N
<1>4. \A n \in 0 .. N : built[n] = Def(built, n)
  <2> HIDE DEF Def
  <2> QED
    BY <1>2
<1>5. N \in Nat
  BY DEF N
<1>6. built[0] = [b \in Builders |-> NotSent]
  BY <1>4, <1>5
<1>7. \A n \in 1 .. N : built[n] = AllObjects(built[n - 1])
  <2> TAKE n \in 1 .. N
  <2>1. n \in 0 .. N /\ n # 0
    BY <1>5
  <2> QED
    BY <1>4, <2>1
<1> QED
  BY <1>3, <1>6, <1>7 DEF N

\* ... and what stands so deep in an order.
LEMMA LevelsSteps ==
    ASSUME NEW order, Cardinality(Builders) \in Nat
    PROVE  /\ Levels(order)[0] = {order}
           /\ \A n \in 1 .. Cardinality(Builders) : Levels(order)[n] = Under(Levels(order)[n - 1])
<1> DEFINE N == Cardinality(Builders)
           Def(f, n) == IF n = 0 THEN {order} ELSE Under(f[n - 1])
           level[n \in 0 .. N] == IF n = 0 THEN {order} ELSE Under(level[n - 1])
           T == {m \in Nat : \E f : f = [n \in 0 .. m |-> Def(f, n)]}
<1>1. N \in T
  <2>1. 0 \in T
    <3> DEFINE f == [n \in 0 .. 0 |-> {order}]
    <3>1. \A n \in 0 .. 0 : f[n] = Def(f, n)
      OBVIOUS
    <3>2. f = [n \in 0 .. 0 |-> Def(f, n)]
      BY <3>1
    <3> QED
      BY <3>2
  <2>2. ASSUME NEW m \in T PROVE m + 1 \in T
    <3>1. m \in Nat /\ m + 1 \in Nat
      OBVIOUS
    <3>2. PICK f : f = [n \in 0 .. m |-> Def(f, n)]
      OBVIOUS
    <3> DEFINE g == [n \in 0 .. m + 1 |-> IF n <= m THEN f[n] ELSE Def(f, n)]
    <3>3. \A n \in 0 .. m : f[n] = Def(f, n)
      <4> HIDE DEF Def
      <4> QED
        BY <3>2
    <3>4. ASSUME NEW n \in 0 .. m + 1 PROVE g[n] = Def(g, n)
      <4>1. n # 0 => n - 1 \in 0 .. m /\ g[n - 1] = f[n - 1]
        BY <3>1
      <4>2. Def(g, n) = Def(f, n)
        <5>1. CASE n = 0
          BY <5>1
        <5>2. CASE n # 0
          BY <5>2, <4>1
        <5> QED
          BY <5>1, <5>2
      <4> HIDE DEF Def
      <4>3. n <= m => g[n] = f[n] /\ n \in 0 .. m
        BY <3>1
      <4>4. ~(n <= m) => g[n] = Def(f, n)
        OBVIOUS
      <4> QED
        BY <3>3, <4>2, <4>3, <4>4
    <3>5. g = [n \in 0 .. m + 1 |-> Def(g, n)]
      <4> HIDE DEF Def
      <4> QED
        BY <3>4
    <3> HIDE DEF g
    <3> QED
      BY <3>1, <3>5
  <2> HIDE DEF T
  <2>3. T \subseteq Nat
    BY DEF T
  <2> QED
    BY <2>1, <2>2, <2>3, SetInduction
<1>2. level = [n \in 0 .. N |-> Def(level, n)]
  BY <1>1
<1>3. Levels(order) = level
  BY DEF Levels
<1> HIDE DEF level, N
<1>4. \A n \in 0 .. N : level[n] = Def(level, n)
  <2> HIDE DEF Def
  <2> QED
    BY <1>2
<1>5. N \in Nat
  BY DEF N
<1>6. level[0] = {order}
  BY <1>4, <1>5
<1>7. \A n \in 1 .. N : level[n] = Under(level[n - 1])
  <2> TAKE n \in 1 .. N
  <2>1. n \in 0 .. N /\ n # 0
    BY <1>5
  <2> QED
    BY <1>4, <2>1
<1> QED
  BY <1>3, <1>6, <1>7 DEF N

-----------------------------------------------------------------------------
(* Who is under whom.                                                      *)

\* The depth of an order is bounded by the number of builders.
LEMMA Depth ==
    ASSUME CallerAssumption
    PROVE  Cardinality(Builders) \in Nat
BY FS_CardinalityType DEF CallerAssumption

\* One step further.
LEMMA WithinNext ==
    ASSUME Cardinality(Builders) \in Nat, NEW n \in Nat, n < Cardinality(Builders),
           NEW b \in Builders
    PROVE  Within[n + 1][b] = ChildrenOf(b) \cup UNION {Within[n][c] : c \in ChildrenOf(b)}
<1>1. n + 1 \in 1 .. Cardinality(Builders) /\ (n + 1) - 1 = n
  OBVIOUS
<1>2. Within[n + 1] = Further(Within[n])
  BY <1>1, WithinSteps
<1> QED
  BY <1>2 DEF Further

\* Kids are builders, so everybody under a builder is one.
LEMMA ChildrenAreBuilders ==
    ASSUME BuilderInv, NEW b \in Builders
    PROVE  ChildrenOf(b) \subseteq Builders
BY DEF BuilderInv, Sound, ChildrenOf, ToSet

\* More steps reach as many, ...
LEMMA WithinGrows ==
    ASSUME BuilderInv, Cardinality(Builders) \in Nat
    PROVE  \A n \in Nat : n < Cardinality(Builders) =>
              \A b \in Builders : Within[n][b] \subseteq Within[n + 1][b]
<1> DEFINE N == Cardinality(Builders)
           T == {n \in Nat : n < N => \A b \in Builders : Within[n][b] \subseteq Within[n + 1][b]}
<1>1. 0 \in T
  BY WithinSteps
<1>2. ASSUME NEW n \in T PROVE n + 1 \in T
  <2> SUFFICES ASSUME n + 1 < N, NEW b \in Builders
               PROVE  Within[n + 1][b] \subseteq Within[(n + 1) + 1][b]
    OBVIOUS
  <2>1. n \in Nat /\ n + 1 \in Nat /\ n < N
    OBVIOUS
  <2>2. \A c \in Builders : Within[n][c] \subseteq Within[n + 1][c]
    BY <2>1
  <2>3. Within[n + 1][b] = ChildrenOf(b) \cup UNION {Within[n][c] : c \in ChildrenOf(b)}
    BY <2>1, WithinNext
  <2>4. Within[(n + 1) + 1][b] = ChildrenOf(b) \cup UNION {Within[n + 1][c] : c \in ChildrenOf(b)}
    BY <2>1, WithinNext
  <2> QED
    BY <2>2, <2>3, <2>4, ChildrenAreBuilders
<1> HIDE DEF T
<1>3. T \subseteq Nat
  BY DEF T
<1>4. \A n \in Nat : n \in T
  BY <1>1, <1>2, <1>3, SetInduction
<1> QED
  BY <1>4 DEF T

\* ... so whoever is reached at all is reached in as many steps as there are
\* builders.
LEMMA WithinReached ==
    ASSUME BuilderInv, Cardinality(Builders) \in Nat
    PROVE  \A n \in Nat : n <= Cardinality(Builders) =>
              \A b \in Builders : Within[n][b] \subseteq Reached[b]
<1> DEFINE N == Cardinality(Builders)
           T == {k \in Nat : k <= N => \A b \in Builders : Within[N - k][b] \subseteq Reached[b]}
<1>1. 0 \in T
  BY DEF Reached
<1>2. ASSUME NEW k \in T PROVE k + 1 \in T
  <2> SUFFICES ASSUME k + 1 <= N, NEW b \in Builders
               PROVE  Within[N - (k + 1)][b] \subseteq Reached[b]
    OBVIOUS
  <2>1. /\ k \in Nat /\ N - (k + 1) \in Nat /\ N - (k + 1) < N /\ k <= N
        /\ (N - (k + 1)) + 1 = N - k
    OBVIOUS
  <2>2. Within[N - (k + 1)][b] \subseteq Within[N - k][b]
    BY <2>1, WithinGrows
  <2> QED
    BY <2>1, <2>2
<1> HIDE DEF T
<1>3. T \subseteq Nat
  BY DEF T
<1>4. \A k \in Nat : k \in T
  BY <1>1, <1>2, <1>3, SetInduction
<1> SUFFICES ASSUME NEW n \in Nat, n <= N, NEW b \in Builders
             PROVE  Within[n][b] \subseteq Reached[b]
  OBVIOUS
<1>5. N - n \in Nat /\ N - n <= N /\ N - (N - n) = n
  OBVIOUS
<1> QED
  BY <1>4, <1>5 DEF T

\* The children of who is reached are reached in one step more.
LEMMA WithinChild ==
    ASSUME BuilderInv, Cardinality(Builders) \in Nat
    PROVE  \A n \in Nat : n < Cardinality(Builders) =>
              \A b, c, d \in Builders :
                  c \in Within[n][b] /\ d \in ChildrenOf(c) => d \in Within[n + 1][b]
<1> DEFINE N == Cardinality(Builders)
           Step(n) == \A b, c, d \in Builders :
                  c \in Within[n][b] /\ d \in ChildrenOf(c) => d \in Within[n + 1][b]
           T == {n \in Nat : n < N => Step(n)}
<1>1. 0 \in T
  BY WithinSteps
<1>2. ASSUME NEW n \in T PROVE n + 1 \in T
  <2> SUFFICES ASSUME n + 1 < N, NEW b \in Builders, NEW c \in Builders,
                      NEW d \in Builders, c \in Within[n + 1][b], d \in ChildrenOf(c)
               PROVE  d \in Within[(n + 1) + 1][b]
    OBVIOUS
  <2>1. n \in Nat /\ n + 1 \in Nat /\ n < N
    OBVIOUS
  <2>2. Step(n)
    BY <2>1
  <2>3. \A a \in Builders :
          Within[n + 1][a] = ChildrenOf(a) \cup UNION {Within[n][e] : e \in ChildrenOf(a)}
    BY <2>1, WithinNext
  <2>4. \A a \in Builders : Within[(n + 1) + 1][a]
            = ChildrenOf(a) \cup UNION {Within[n + 1][e] : e \in ChildrenOf(a)}
    BY <2>1, WithinNext
  <2>5. CASE c \in ChildrenOf(b)
    <3>1. d \in Within[n + 1][c]
      BY <2>3
    <3> QED
      BY <2>4, <2>5, <3>1
  <2>6. CASE \E e \in ChildrenOf(b) : c \in Within[n][e]
    <3>1. PICK e \in ChildrenOf(b) : c \in Within[n][e]
      BY <2>6
    <3>2. e \in Builders
      BY ChildrenAreBuilders
    <3>3. d \in Within[n + 1][e]
      BY <2>2, <3>1, <3>2
    <3> QED
      BY <2>4, <3>3
  <2> QED
    BY <2>3, <2>5, <2>6
<1> HIDE DEF T
<1>3. T \subseteq Nat
  BY DEF T
<1>4. \A n \in Nat : n \in T
  BY <1>1, <1>2, <1>3, SetInduction
<1> QED
  BY <1>4 DEF T

-----------------------------------------------------------------------------
(* What build sends.                                                       *)

\* Every order in what build makes of root stands under as many others as it
\* is deep, and is none of them: above are the builders it is under.
At(root, depth, b) ==
    \E above \in SUBSET Builders :
        /\ Cardinality(above) = depth /\ b \notin above
        /\ \A a \in above : b \in Within[depth][a]
        /\ b = root \/ b \in Within[depth][root]

\* So it is less deep than there are builders, ...
LEMMA AtDepth ==
    ASSUME BuilderInv, CallerAssumption, NEW root \in Builders, NEW k \in Nat,
           NEW b \in Builders, At(root, k, b)
    PROVE  k < Cardinality(Builders) /\ b \in {root} \cup Reached[root]
<1> DEFINE N == Cardinality(Builders)
<1>0. N \in Nat /\ IsFiniteSet(Builders)
  BY Depth DEF CallerAssumption
<1>1. PICK above \in SUBSET Builders :
          /\ Cardinality(above) = k /\ b \notin above
          /\ b = root \/ b \in Within[k][root]
  BY DEF At
<1>2. IsFiniteSet(above)
  BY <1>0, FS_Subset
<1>3. Cardinality(above \cup {b}) = k + 1
  BY <1>1, <1>2, FS_AddElement
<1>4. Cardinality(above \cup {b}) <= N
  BY <1>0, FS_Subset
<1>5. k < N
  BY <1>0, <1>3, <1>4
<1> QED
  BY <1>0, <1>1, <1>5, WithinReached

\* ... and its children are one deeper: it is none of those above it, for what
\* is a child of itself is not built.
LEMMA AtChild ==
    ASSUME BuilderInv, CallerAssumption, NEW root \in Builders, Buildable(root),
           NEW k \in Nat, NEW b \in Builders, At(root, k, b),
           NEW c \in ChildrenOf(b)
    PROVE  c \in Builders /\ At(root, k + 1, c)
<1> DEFINE N == Cardinality(Builders)
<1>0. N \in Nat /\ IsFiniteSet(Builders) /\ k < N /\ c \in Builders
  BY Depth, AtDepth, ChildrenAreBuilders DEF CallerAssumption
<1>1. PICK above \in SUBSET Builders :
          /\ Cardinality(above) = k /\ b \notin above
          /\ \A a \in above : b \in Within[k][a]
          /\ b = root \/ b \in Within[k][root]
  BY DEF At
<1> DEFINE more == above \cup {b}
<1>2. more \in SUBSET Builders
  OBVIOUS
<1>3. Cardinality(more) = k + 1
  <2>1. IsFiniteSet(above)
    BY <1>0, FS_Subset
  <2> QED
    BY <1>1, <2>1, FS_AddElement
<1>4. c \in Within[k + 1][b]
  BY <1>0, WithinNext
<1>5. \A a \in more : c \in Within[k + 1][a]
  <2>1. \A a \in above : c \in Within[k + 1][a]
    BY <1>0, <1>1, WithinChild
  <2> QED
    BY <1>4, <2>1
<1>6. c \in Within[k + 1][root]
  <2>1. CASE b = root
    BY <1>4, <2>1
  <2>2. CASE b \in Within[k][root]
    BY <1>0, <2>2, WithinChild
  <2> QED
    BY <1>1, <2>1, <2>2
<1>7. k + 1 \in Nat /\ k + 1 <= N
  BY <1>0
<1>8. c \in Reached[root]
  BY <1>0, <1>6, <1>7, WithinReached
<1>9. c \notin Reached[c]
  BY <1>8 DEF Buildable
<1>10. c \notin more
  <2> SUFFICES ASSUME c \in more PROVE FALSE
    OBVIOUS
  <2>1. c \in Within[k + 1][c]
    BY <1>5
  <2> QED
    BY <1>0, <1>7, <1>9, <2>1, WithinReached
<1> HIDE DEF more
<1> QED
  BY <1>0, <1>2, <1>3, <1>5, <1>6, <1>10 DEF At

\* The root is under none.
LEMMA AtRoot ==
    ASSUME NEW root \in Builders
    PROVE  At(root, 0, root)
BY FS_EmptySet DEF At

\* The object of a builder, at any depth but the last.
LEMMA ObjectAt ==
    ASSUME Cardinality(Builders) \in Nat, NEW n \in 1 .. Cardinality(Builders),
           NEW b \in Builders
    PROVE  Objects[n][b] = ObjectOf(b, Objects[n - 1])
<1>1. Objects[n] = AllObjects(Objects[n - 1])
  BY ObjectsSteps
<1> QED
  BY <1>1 DEF AllObjects

\* What an object holds: its children, each in its place.
LEMMA ObjectParts ==
    ASSUME BuilderInv, NEW b \in Builders, NEW under, NEW o, o = ObjectOf(b, under)
    PROVE  /\ o.sent /\ o.of = b
           /\ DOMAIN o.fields = Present(orders[b].fields)
           /\ \A f \in DOMAIN o.fields : o.fields[f] = orders[b].fields[f]
           /\ o.legs = orders[b].legs
           /\ o.children.made = orders[b].children.made
           /\ DOMAIN o.children.items = DOMAIN orders[b].children.items
           /\ \A i \in DOMAIN o.children.items :
                 IF orders[b].children.items[i].builder
                 THEN /\ orders[b].children.items[i].of \in ChildrenOf(b)
                      /\ o.children.items[i] = under[orders[b].children.items[i].of]
                 ELSE /\ ~o.children.items[i].sent
                      /\ o.children.items[i].children.items = <<>>
                      /\ o.children.items[i].fields = [holds |-> orders[b].children.items[i].holds]
<1> DEFINE s == orders[b].children.items
           item(i) == IF s[i].builder THEN under[s[i].of]
                      ELSE [NotSent EXCEPT !.fields = [holds |-> s[i].holds]]
           items == [i \in DOMAIN s |-> item(i)]
<1>1. /\ o.sent /\ o.of = b
      /\ o.fields = [f \in Present(orders[b].fields) |-> orders[b].fields[f]]
      /\ o.legs = orders[b].legs
      /\ o.children.made = orders[b].children.made
      /\ o.children.items = items
  BY DEF ObjectOf
<1>2. \A i \in DOMAIN s : s[i].builder => s[i].of \in ChildrenOf(b)
  BY DEF ChildrenOf, ToSet
<1>3. \A i \in DOMAIN s : ~s[i].builder =>
          /\ ~item(i).sent /\ item(i).children.items = <<>>
          /\ item(i).fields = [holds |-> s[i].holds]
  BY DEF NotSent, NoList
<1>4. DOMAIN items = DOMAIN s /\ \A i \in DOMAIN s : items[i] = item(i)
  OBVIOUS
<1>5. \A i \in DOMAIN s : s[i].builder => item(i) = under[s[i].of]
  OBVIOUS
<1> HIDE DEF items, item
<1>6. \A i \in DOMAIN o.children.items :
          IF s[i].builder
          THEN s[i].of \in ChildrenOf(b) /\ o.children.items[i] = under[s[i].of]
          ELSE /\ ~o.children.items[i].sent
               /\ o.children.items[i].children.items = <<>>
               /\ o.children.items[i].fields = [holds |-> s[i].holds]
  BY <1>1, <1>2, <1>3, <1>4, <1>5
<1>7. /\ DOMAIN o.fields = Present(orders[b].fields)
      /\ \A f \in DOMAIN o.fields : o.fields[f] = orders[b].fields[f]
  BY <1>1
<1> QED
  BY <1>1, <1>4, <1>6, <1>7

\* Of its children alone: an order, or what is none and holds none.
LEMMA ObjectChildren ==
    ASSUME BuilderInv, NEW b \in Builders, NEW under, NEW o, o = ObjectOf(b, under)
    PROVE  \A i \in DOMAIN o.children.items :
               IF orders[b].children.items[i].builder
               THEN /\ orders[b].children.items[i].of \in ChildrenOf(b)
                    /\ o.children.items[i] = under[orders[b].children.items[i].of]
               ELSE /\ ~o.children.items[i].sent
                    /\ o.children.items[i].children.items = <<>>
<1> DEFINE parts == o.children.items
           s == orders[b].children.items
<1>1. \A i \in DOMAIN parts :
          IF s[i].builder
          THEN s[i].of \in ChildrenOf(b) /\ parts[i] = under[s[i].of]
          ELSE /\ ~parts[i].sent /\ parts[i].children.items = <<>>
               /\ parts[i].fields = [holds |-> s[i].holds]
  BY ObjectParts
<1> HIDE DEF parts, s
<1>2. \A i \in DOMAIN parts :
          IF s[i].builder
          THEN s[i].of \in ChildrenOf(b) /\ parts[i] = under[s[i].of]
          ELSE ~parts[i].sent /\ parts[i].children.items = <<>>
  BY <1>1
<1> QED
  BY <1>2 DEF parts, s

\* An order that stands in what build makes of root.
Shown(root, o) ==
    \E k \in Nat, b \in Builders :
        At(root, k, b) /\ o = Objects[Cardinality(Builders) - k][b]

\* What is no order, and holds none: a dict that was added as a child.
IsPlain(o) == ~o.sent /\ o.children.items = <<>>

\* Nothing else stands in it.
LEMMA LevelsShown ==
    ASSUME BuilderInv, CallerAssumption, NEW root \in Builders, Buildable(root),
           NEW order, order = _build_object(root)
    PROVE  \A o \in Nodes(order) : Shown(root, o)
<1> DEFINE N == Cardinality(Builders)
           level == Levels(order)
           T == {n \in Nat : n <= N => \A o \in level[n] : IsPlain(o) \/ Shown(root, o)}
<1>0. N \in Nat
  BY Depth
<1>1. level[0] = {order} /\ \A n \in 1 .. N : level[n] = Under(level[n - 1])
  BY <1>0, LevelsSteps
<1> HIDE DEF level
<1>2. 0 \in T
  <2>1. order = Objects[N - 0][root]
    BY <1>0 DEF _build_object
  <2>2. Shown(root, order)
    BY <2>1, AtRoot DEF Shown
  <2> QED
    BY <1>1, <2>2
<1>3. ASSUME NEW n \in T PROVE n + 1 \in T
  <2> SUFFICES ASSUME n + 1 <= N, NEW o \in level[n + 1]
               PROVE  IsPlain(o) \/ Shown(root, o)
    OBVIOUS
  <2>1. n \in Nat /\ n <= N /\ n + 1 \in 1 .. N /\ (n + 1) - 1 = n
    BY <1>0
  <2>2. \A x \in level[n] : IsPlain(x) \/ Shown(root, x)
    BY <2>1
  <2>3. level[n + 1] = Under(level[n])
    BY <1>1, <2>1
  <2>4. CASE o \in level[n]
    BY <2>2, <2>4
  <2>5. ASSUME NEW x \in level[n], NEW i \in DOMAIN x.children.items,
               o = x.children.items[i]
        PROVE  IsPlain(o) \/ Shown(root, o)
    <3>1. ~IsPlain(x)
      <4>1. DOMAIN <<>> = {}
        OBVIOUS
      <4> QED
        BY <2>5, <4>1 DEF IsPlain
    <3>2. PICK k \in Nat, b \in Builders : At(root, k, b) /\ x = Objects[N - k][b]
      BY <2>2, <3>1 DEF Shown
    <3>3. k < N
      BY <3>2, AtDepth
    <3>4. N - k \in 1 .. N /\ (N - k) - 1 = N - (k + 1) /\ k + 1 \in Nat
      BY <1>0, <3>3
    <3>5. x = ObjectOf(b, Objects[N - (k + 1)])
      BY <1>0, <3>2, <3>4, ObjectAt
    <3> DEFINE s == orders[b].children.items
    <3>6. IF s[i].builder
          THEN s[i].of \in ChildrenOf(b) /\ o = Objects[N - (k + 1)][s[i].of]
          ELSE ~o.sent /\ o.children.items = <<>>
      <4> DEFINE under == Objects[N - (k + 1)]
      <4>1. x = ObjectOf(b, under)
        BY <3>5
      <4> HIDE DEF under
      <4>2. \A j \in DOMAIN x.children.items :
                IF s[j].builder
                THEN s[j].of \in ChildrenOf(b) /\ x.children.items[j] = under[s[j].of]
                ELSE /\ ~x.children.items[j].sent
                     /\ x.children.items[j].children.items = <<>>
        BY <4>1, ObjectChildren
      <4> HIDE DEF s
      <4>3. IF s[i].builder
            THEN s[i].of \in ChildrenOf(b) /\ o = under[s[i].of]
            ELSE ~o.sent /\ o.children.items = <<>>
        BY <2>5, <4>2
      <4> QED
        BY <4>3 DEF under
    <3>7. CASE s[i].builder
      <4>1. s[i].of \in Builders /\ At(root, k + 1, s[i].of)
        BY <3>2, <3>6, <3>7, AtChild
      <4> HIDE DEF s, N
      <4> QED
        BY <3>4, <3>6, <3>7, <4>1 DEF Shown, N
    <3>8. CASE ~s[i].builder
      BY <3>6, <3>8 DEF IsPlain
    <3> QED
      BY <3>7, <3>8
  <2>6. o \in level[n] \/ \E x \in level[n] : \E i \in DOMAIN x.children.items :
            o = x.children.items[i]
    BY <2>3 DEF Under, ToSet
  <2> QED
    BY <2>4, <2>5, <2>6
<1> HIDE DEF T
<1>4. T \subseteq Nat
  BY DEF T
<1>5. \A n \in Nat : n \in T
  BY <1>2, <1>3, <1>4, SetInduction
<1>6. \A o \in level[N] : IsPlain(o) \/ Shown(root, o)
  BY <1>0, <1>5 DEF T
<1> QED
  BY <1>6 DEF Nodes, level, IsPlain

\* Each of them is what the caller asked for.
LEMMA ShownRight ==
    ASSUME BuilderInv, CallerAssumption, NEW root \in Builders, Buildable(root),
           NEW o, Shown(root, o)
    PROVE  Sendable(o) /\ AsSaid(o) /\ NoEmptyList(o) /\ TiesKept(o)
<1> DEFINE N == Cardinality(Builders)
<1>0. N \in Nat
  BY Depth
<1>1. PICK k \in Nat, b \in Builders : At(root, k, b) /\ o = Objects[N - k][b]
  BY DEF Shown
<1>2. k < N /\ b \in {root} \cup Reached[root]
  BY <1>1, AtDepth
<1>3. N - k \in 1 .. N /\ (N - k) - 1 = N - (k + 1) /\ k + 1 \in Nat
  BY <1>0, <1>2
<1> DEFINE under == Objects[N - (k + 1)]
           s == orders[b].children.items
           held == orders[b].fields
<1>4. o = ObjectOf(b, under)
  BY <1>0, <1>1, <1>3, ObjectAt
<1> HIDE DEF under
<1>5. /\ o.of = b
      /\ DOMAIN o.fields = Present(held)
      /\ \A f \in DOMAIN o.fields : o.fields[f] = held[f]
      /\ o.legs = orders[b].legs
      /\ o.children.made = orders[b].children.made
      /\ DOMAIN o.children.items = DOMAIN s
      /\ \A i \in DOMAIN o.children.items :
            IF s[i].builder
            THEN s[i].of \in ChildrenOf(b) /\ o.children.items[i] = under[s[i].of]
            ELSE /\ ~o.children.items[i].sent
                 /\ o.children.items[i].fields = [holds |-> s[i].holds]
  BY <1>4, ObjectParts
<1>6. /\ orders[b] \in Order /\ Sound(orders[b], said[b])
      /\ \A p \in pairs : p.of = b => Kept(orders[b], p)
      /\ \A p \in pairs : p.how \in {"TRIGGER", "OCO"}
  BY DEF BuilderInv, TypeOK, Pair
<1>7. \A f \in Fields : FieldRight(f, held[f], said[b][f])
  BY <1>6 DEF Sound
<1>8. Sendable(o)
  <2>1. \A f \in Fields : held[f].type = "None" \/ Literal(held[f])
    BY <1>2 DEF Buildable
  <2>2. \A f \in Present(held) : f \in Fields /\ held[f] # Absent
    BY DEF Present
  <2>3. \A f \in Present(held) : held[f].type \in {"str", "int", "float", "bool"}
    BY <1>7, <2>1, <2>2 DEF Literal, FieldRight
  <2>4. \A f \in Present(held) : said[b][f].checked => IsSendable(f, held[f])
    BY <1>7, <2>2 DEF FieldRight
  <2> QED
    BY <1>5, <2>3, <2>4 DEF Sendable
<1>9. AsSaid(o)
  <2> SUFFICES ASSUME NEW f \in Fields
               PROVE  IF said[b][f].value.type = "None" THEN f \notin DOMAIN o.fields
                      ELSE f \in DOMAIN o.fields /\ o.fields[f].is = said[b][f].value.is
    BY <1>5 DEF AsSaid
  <2>1. f \in DOMAIN o.fields <=> held[f] # Absent
    BY <1>5 DEF Present
  <2> QED
    BY <1>5, <1>7, <2>1 DEF FieldRight
<1>10. NoEmptyList(o)
  <2>1. s \in Seq(Kids)
    BY <1>6 DEF Order, ListOf
  <2>2. s # <<>> => 1 \in DOMAIN s
    BY <2>1
  <2>3. DOMAIN <<>> = {}
    OBVIOUS
  <2>4. s # <<>> => o.children.items # <<>>
    BY <1>5, <2>2, <2>3
  <2> QED
    BY <1>5, <1>6, <2>4 DEF NoEmptyList, Sound
<1>11. TiesKept(o)
  <2> SUFFICES ASSUME NEW p \in pairs, p.of = b
               PROVE  /\ "orderStrategyType" \in DOMAIN o.fields
                      /\ o.fields["orderStrategyType"] = V("str", p.how)
                      /\ \A child \in p.orders :
                            \E sub \in ToSet(o.children.items) : StandsFor(sub, child)
    BY <1>5 DEF TiesKept
  <2>1. /\ "orderStrategyType" \in Fields
        /\ held["orderStrategyType"] = V("str", p.how)
        /\ \A child \in p.orders : Has(orders[b], child)
    BY <1>6 DEF Kept
  <2>2. V("str", p.how) # Absent
    BY <1>6, Strings DEF Matters
  <2>3. /\ "orderStrategyType" \in DOMAIN o.fields
        /\ o.fields["orderStrategyType"] = V("str", p.how)
    BY <1>5, <2>1, <2>2 DEF Present
  <2>4. ASSUME NEW child \in p.orders
        PROVE  \E sub \in ToSet(o.children.items) : StandsFor(sub, child)
    <3>1. PICK i \in DOMAIN s : s[i] = child
      BY <2>1 DEF Has
    <3>2. i \in DOMAIN o.children.items /\ o.children.items[i] \in ToSet(o.children.items)
      BY <1>5, <3>1 DEF ToSet
    <3>3. CASE ~child.builder
      <4>1. ~o.children.items[i].sent /\ o.children.items[i].fields = [holds |-> child.holds]
        BY <1>5, <3>1, <3>2, <3>3
      <4> QED
        BY <3>2, <3>3, <4>1 DEF StandsFor
    <3>4. CASE child.builder
      <4> DEFINE d == child.of
      <4>1. d \in ChildrenOf(b) /\ o.children.items[i] = under[d]
        BY <1>5, <3>1, <3>2, <3>4
      <4>2. d \in Builders /\ At(root, k + 1, d)
        BY <1>1, <4>1, AtChild
      <4>3. k + 1 < N
        BY <1>3, <4>2, AtDepth
      <4>4. N - (k + 1) \in 1 .. N
        BY <1>0, <1>3, <4>3
      <4>5. under[d] = ObjectOf(d, Objects[(N - (k + 1)) - 1])
        BY <1>0, <4>2, <4>4, ObjectAt DEF under
      <4>6. under[d].of = d /\ under[d].sent
        BY <4>2, <4>5, ObjectParts
      <4> QED
        BY <3>2, <3>4, <4>1, <4>6 DEF StandsFor
    <3> QED
      BY <3>3, <3>4
  <2> QED
    BY <2>3, <2>4
<1> QED
  BY <1>8, <1>9, <1>10, <1>11

\* A call that builds nothing sends nothing.
LEMMA NothingSent ==
    ASSUME Cardinality(Builders) \in Nat
    PROVE  Nodes(NotSent) = {}
<1> DEFINE N == Cardinality(Builders)
           level == Levels(NotSent)
           T == {n \in Nat : n <= N => level[n] = {NotSent}}
<1>0. ~NotSent.sent /\ NotSent.children.items = <<>>
  BY DEF NotSent, NoList
<1>1. level[0] = {NotSent} /\ \A n \in 1 .. N : level[n] = Under(level[n - 1])
  BY LevelsSteps
<1> HIDE DEF level
<1>2. Under({NotSent}) = {NotSent}
  BY <1>0 DEF Under, ToSet
<1>3. 0 \in T
  BY <1>1
<1>4. ASSUME NEW n \in T PROVE n + 1 \in T
  <2> SUFFICES ASSUME n + 1 <= N PROVE level[n + 1] = {NotSent}
    OBVIOUS
  <2>1. n + 1 \in 1 .. N /\ (n + 1) - 1 = n /\ level[n] = {NotSent}
    OBVIOUS
  <2>2. level[n + 1] = Under(level[n])
    BY <1>1, <2>1
  <2> QED
    BY <1>2, <2>1, <2>2
<1> HIDE DEF T
<1>5. T \subseteq Nat
  BY DEF T
<1>6. \A n \in Nat : n \in T
  BY <1>3, <1>4, <1>5, SetInduction
<1>7. level[N] = {NotSent}
  BY <1>6 DEF T
<1> QED
  BY <1>0, <1>7 DEF Nodes, level

\* Of what is sent only build speaks; every other step sends nothing.
LEMMA StepSent ==
    ASSUME CallerAssumption, BuilderInv, [Next]_vars
    PROVE  SentAsAsked
<1> SUFFICES ASSUME sent' # sent
             PROVE  \A o \in Nodes(sent') :
                        Sendable(o) /\ AsSaid(o) /\ NoEmptyList(o) /\ TiesKept(o)
  BY DEF SentAsAsked
<1>1. CASE \E b \in Builders : build(b)
  <2>1. PICK b \in Builders : build(b)
    BY <1>1
  <2>2. Buildable(b) /\ sent' = _build_object(b)
    BY <2>1 DEF build
  <2> QED
    BY <2>2, LevelsShown, ShownRight
<1>2. CASE sent' = NotSent
  BY <1>2, Depth, NothingSent
<1>3. (\E b \in Builders : build(b)) \/ sent' = NotSent
  BY DEF Next, vars, New, set_enforce_enums, set, copy, clear, Store, add_leg,
     clear_order_legs, add_child_order_strategy, clear_child_order_strategies,
     first_triggers_second, one_cancels_other
<1> QED
  BY <1>1, <1>2, <1>3

-----------------------------------------------------------------------------
\* However a caller fills builders, ties them and changes them again, and however
\* many there are: each order sent, at every depth, holds what was last said of
\* it, by the caller or by a helper it called, as the venue takes it, no empty
\* list, and the orders a helper tied to it. A helper that refuses the second
\* order has said TRIGGER of the first all the same
\* (OrderBuilder.build, _build_object, first_triggers_second, one_cancels_other).
THEOREM OrdersSentAsAsked ==
    ASSUME CallerAssumption
    PROVE  Spec => OrdersAsAsked
<1>1. Init => BuilderInv
  BY InitBuilder
<1>2. BuilderInv /\ [Next]_vars => BuilderInv'
  BY StepBuilder
<1>3. BuilderInv /\ [Next]_vars => [SentAsAsked]_vars
  BY StepSent
<1> QED
  BY <1>1, <1>2, <1>3, PTL DEF Spec, OrdersAsAsked
=============================================================================
