--------------------------- MODULE StreamServices ---------------------------
(***************************************************************************)
(* The services of StreamClient (schwaby/streaming.py): what each of its   *)
(* subscribe, add, unsubscribe and view methods sends for the fields a     *)
(* caller gives, and how a message is relabelled for the handlers of its   *)
(* service.  A caller keeps one list of fields and passes it again and     *)
(* again, as it is or in another container.                                *)
(*                                                                         *)
(* A field is its number in the field table of a service, and its name the *)
(* number together with the table.                                         *)
(***************************************************************************)
EXTENDS Integers, Sequences, FiniteSets, SequencesExt

CONSTANTS
    Offered,            \* the services this caller uses
    Lists,              \* the lists of fields it may start with
    Containers,         \* what it passes the fields in
    Enforces,           \* enforce_enums
    MaxOp,              \* bound: requests
    MaxMessage,         \* bound: messages delivered
    MaxReportedFields   \* _MAX_REPORTED_FIELDS, and the same for types (64)

----------------------------------------------------------------------------
(* The services: the fields of their requests, the table their handlers    *)
(* relabel with, and what a caller may do with them.                       *)

Table(name, last) == [name |-> name, ids |-> 0 .. last]

AccountActivityFields == Table("AccountActivityFields", 3)
ChartEquityFields == Table("ChartEquityFields", 8)
ChartFuturesFields == Table("ChartFuturesFields", 6)
LevelOneEquityFields == Table("LevelOneEquityFields", 56)
LevelOneOptionFields == Table("LevelOneOptionFields", 55)
LevelOneFuturesFields == Table("LevelOneFuturesFields", 40)
LevelOneForexFields == Table("LevelOneForexFields", 29)
LevelOneFuturesOptionsFields == Table("LevelOneFuturesOptionsFields", 31)
BookFields == Table("BookFields", 3)
BidFields == Table("BidFields", 3)
PerExchangeBidFields == Table("PerExchangeBidFields", 2)
AskFields == Table("AskFields", 3)
PerExchangeAskFields == Table("PerExchangeAskFields", 2)
ScreenerFields == Table("ScreenerFields", 4)
NewsHeadlineFields == Table("NewsHeadlineFields", 11)

\* asks: the table of its requests; labels: that of its handlers.
Service(name, asks, labels, ops, kind) ==
    [name |-> name, asks |-> asks, labels |-> labels, ops |-> ops, kind |-> kind]

Fixed == {"SUBS", "UNSUBS", "ADD"}
Chosen == {"SUBS", "UNSUBS", "ADD", "VIEW"}

AccountActivity == Service("ACCT_ACTIVITY", AccountActivityFields,
    AccountActivityFields, {"SUBS", "UNSUBS"}, "fixed")
ChartEquity == Service("CHART_EQUITY", ChartEquityFields,
    ChartEquityFields, Fixed, "fixed")
ChartFutures == Service("CHART_FUTURES", ChartFuturesFields,
    ChartFuturesFields, Fixed, "fixed")
LevelOneEquity == Service("LEVELONE_EQUITIES", LevelOneEquityFields,
    LevelOneEquityFields, Chosen, "chosen")
LevelOneOption == Service("LEVELONE_OPTIONS", LevelOneOptionFields,
    LevelOneOptionFields, Chosen, "chosen")
LevelOneFutures == Service("LEVELONE_FUTURES", LevelOneFuturesFields,
    LevelOneFuturesFields, Chosen, "chosen")
LevelOneForex == Service("LEVELONE_FOREX", LevelOneForexFields,
    LevelOneForexFields, Chosen, "chosen")
LevelOneFuturesOptions == Service("LEVELONE_FUTURES_OPTIONS",
    LevelOneFuturesOptionsFields, LevelOneFuturesOptionsFields, Chosen, "chosen")
NyseBook == Service("NYSE_BOOK", BookFields, BookFields, Fixed, "book")
NasdaqBook == Service("NASDAQ_BOOK", BookFields, BookFields, Fixed, "book")
OptionsBook == Service("OPTIONS_BOOK", BookFields, BookFields, Fixed, "book")
ScreenerEquity == Service("SCREENER_EQUITY", ScreenerFields, ScreenerFields,
    Fixed, "fixed")
ScreenerOption == Service("SCREENER_OPTION", ScreenerFields, ScreenerFields,
    Fixed, "fixed")
NewsHeadline == Service("NEWS_HEADLINE", NewsHeadlineFields,
    NewsHeadlineFields, Fixed, "fixed")

ServicesKnown == {AccountActivity, ChartEquity, ChartFutures, LevelOneEquity,
    LevelOneOption, LevelOneFutures, LevelOneForex, LevelOneFuturesOptions,
    NyseBook, NasdaqBook, OptionsBook, ScreenerEquity, ScreenerOption,
    NewsHeadline}

Services == {s \in ServicesKnown : s.name \in Offered}
SYMBOL(s) == [table |-> s.asks.name, id |-> 0]

----------------------------------------------------------------------------
VARIABLES
    mine,       \* the caller's list: members, or numbers of no table ("raw")
    ops,        \* number of requests made
    last,       \* the last request: its service, container and outcome
    asked,      \* [name of a service -> what it was last asked for]
    messages,   \* number of messages delivered
    heard,      \* the last one: its item as it came, and as handlers got it
    fields,     \* _reported_fields
    types,      \* _reported_message_types
    named       \* the log: what was named as unknown, in order

asking == <<mine, ops, last, asked>>
hearing == <<messages, heard, fields, types, named>>
vars == <<asking, hearing>>

NotAsked == [sent |-> FALSE, container |-> "none", empty |-> FALSE, fields |-> <<>>]
NoRequest == [op |-> "none", service |-> "none", container |-> "none",
              given |-> <<>>, outcome |-> "none"]
NothingHeard == [came |-> <<>>, got |-> <<>>, service |-> "none",
                 absorbed |-> FALSE]

Init ==
    /\ mine \in Lists
    /\ ops = 0 /\ last = NoRequest
    /\ asked = [name \in {s.name : s \in Services} |-> NotAsked]
    /\ messages = 0 /\ heard = NothingHeard
    /\ fields = {} /\ types = {} /\ named = <<>>

----------------------------------------------------------------------------
(* Requests.                                                               *)

Refused(why) == [refused |-> why, fields |-> <<>>]
Taken(items) == [refused |-> "no", fields |-> items]

\* What the level one subs and adds do before anything is converted: a list
\* is appended to, a generator is used up to SYMBOL by looking for it, and
\* nothing else can be appended to.
WithSymbol(s, container, items) ==
    LET has == SYMBOL(s) \in ToSet(items) IN
    CASE items = <<>> /\ container \in {"list", "tuple"} -> Taken(items)
      [] container = "member" -> Refused("TypeError")
      [] has /\ container = "generator" ->
            Taken(SubSeq(items, 1 + SelectInSeq(items, LAMBDA i : i = SYMBOL(s)),
                         Len(items)))
      [] has /\ container # "generator" -> Taken(items)
      [] ~has /\ container = "list" -> Taken(Append(items, SYMBOL(s)))
      [] OTHER -> Refused("AttributeError")

\* convert_enum_iterable: what is no member of the table is refused, or let
\* through as it is.
Foreign(s, item) == item.table # s.asks.name
Converted(s, items) ==
    IF Enforces /\ \E i \in DOMAIN items : Foreign(s, items[i])
    THEN Refused("ValueError") ELSE Taken(items)

\* Numbers sort, and one given twice stays; a member of another table
\* beside them does not sort.
Numbers(items) == SortSeq([i \in DOMAIN items |-> items[i].id], <)
Sorted(s, items) ==
    IF Len(items) > 1
       /\ \E i \in DOMAIN items : items[i].table \notin {"raw", s.asks.name}
    THEN Refused("TypeError") ELSE Taken(Numbers(items))

\* No table has as many as 64 fields.
InOrder(numbers) == SelectSeq([i \in 1 .. 64 |-> i - 1], LAMBDA n : n \in numbers)

\* _service_op, with what its caller does first.
ServiceOp(s, container, items) ==
    IF s.kind # "chosen" \/ container = "unset" THEN Taken(InOrder(s.asks.ids))
    ELSE LET with == WithSymbol(s, container, items)
             converted == Converted(s, with.fields)
         IN  IF with.refused # "no" THEN with
             ELSE IF converted.refused # "no" THEN converted
             ELSE Sorted(s, converted.fields)

\* _view_op: any iterable or a single member, each field once, SYMBOL among
\* them; the caller's own list is left alone.
ViewOp(s, container, items) ==
    LET converted == Converted(s, items) IN
    CASE container = "unset" -> Refused("ValueError")
      [] converted.refused # "no" -> converted
      [] \E i \in DOMAIN items : items[i].table \notin {"raw", s.asks.name} ->
            Refused("ValueError")
      [] items = <<>> -> Refused("ValueError")
      [] OTHER -> Taken(InOrder({items[i].id : i \in DOMAIN items} \cup {0}))

Given(container) ==
    IF container = "member" /\ mine # <<>> THEN <<Head(mine)>> ELSE mine

Make(s, op, container, outcome) ==
    /\ ops < MaxOp /\ ops' = ops + 1
    /\ last' = [op |-> op, service |-> s.name, container |-> container,
                given |-> Given(container),
                outcome |-> IF outcome.refused = "no" THEN "sent"
                            ELSE outcome.refused]
    /\ asked' = IF outcome.refused = "no"
                THEN [asked EXCEPT ![s.name] =
                        [sent |-> TRUE, container |-> container,
                         empty |-> Given(container) = <<>>,
                         fields |-> outcome.fields]]
                ELSE asked
    /\ UNCHANGED hearing

\* The list was appended to, whether or not the request is sent.
SubsOrAdd(s, op, container) ==
    /\ op \in s.ops \cap {"SUBS", "ADD"}
    /\ container = "member" => mine # <<>>
    /\ Make(s, op, container, ServiceOp(s, container, Given(container)))
    /\ mine' = IF s.kind = "chosen" /\ container = "list"
               THEN WithSymbol(s, container, mine).fields ELSE mine

View(s, container) ==
    /\ "VIEW" \in s.ops
    /\ container = "member" => mine # <<>>
    /\ Make(s, "VIEW", container, ViewOp(s, container, Given(container)))
    /\ UNCHANGED mine

Unsubs(s) ==
    /\ "UNSUBS" \in s.ops
    /\ ops < MaxOp /\ ops' = ops + 1
    /\ last' = [NoRequest EXCEPT !.op = "UNSUBS", !.service = s.name,
                                 !.outcome = "sent"]
    /\ asked' = [asked EXCEPT ![s.name] = NotAsked]
    /\ UNCHANGED <<mine, hearing>>

----------------------------------------------------------------------------
(* Messages: a content item maps keys to values.  A key is a number on the *)
(* wire, another name Schwab uses, or a field's name.  A value is where it *)
(* came from, a text where one is read, and, in a book, the items inside.  *)

Wire(id) == [table |-> "wire", id |-> id]
Other == [table |-> "text", id |-> 0]
Name(table, id) == [table |-> table.name, id |-> id]
Value(key, text, inside) == [of |-> key, text |-> text, inside |-> inside]

\* relabel_message: keys of the table get its names; the rest stay.
Relabel(table, item) ==
    LET known == {id \in table.ids : Wire(id) \in DOMAIN item} IN
    [k \in {Name(table, id) : id \in known}
           \cup (DOMAIN item \ {Wire(id) : id \in known}) |->
        IF k.table = table.name THEN item[Wire(k.id)] ELSE item[k]]

\* The fields of an item that its table does not have.
Unknown(table, item) ==
    SetToSeq({Name(table, k.id) : k \in {w \in DOMAIN item : w.table = "wire"
                                                      /\ w.id \notin table.ids}})

\* Each unknown field of a table is named once in the process, while there
\* is room.
ReportUnknownField(unknown) ==
    LET reported(r, name) ==
            IF name \in r.fields \/ Cardinality(r.fields) >= MaxReportedFields
            THEN r
            ELSE [fields |-> r.fields \cup {name}, named |-> Append(r.named, name)]
    IN  FoldLeft(reported, [fields |-> fields, named |-> named], unknown)

\* Items with values at these ids, and one of another name.
Items(ids) == {[k \in {Wire(id) : id \in some} \cup {Other} |->
                    Value(k, "plain", <<>>)] : some \in SUBSET ids}

\* The ids a message brings: some of those of its table, and one it lacks.
Brings(s) == {0, Cardinality(s.asks.ids) - 1, Cardinality(s.asks.ids)}

Hear(s, item, got, absorbed) ==
    /\ messages < MaxMessage /\ messages' = messages + 1
    /\ heard' = [service |-> s.name, came |-> item, got |-> got,
                 absorbed |-> absorbed]
    /\ UNCHANGED asking

Deliver(s) ==
    /\ s.kind # "book" /\ s # AccountActivity
    /\ \E item \in Items(Brings(s)) :
        LET report == ReportUnknownField(Unknown(s.labels, item)) IN
        /\ Hear(s, item, Relabel(s.labels, item), FALSE)
        /\ fields' = report.fields /\ named' = report.named
    /\ UNCHANGED types

\* A book: the item itself, then the levels of the bids and the quotes
\* inside them, then those of the asks, each with a table of its own.
LabelLevels_OneTable(table, inner, levels) ==
    [i \in DOMAIN levels |->
        [Relabel(table, levels[i]) EXCEPT ![Name(table, 3)].inside =
            [j \in DOMAIN @ |-> Relabel(table, @[j])]]]
LabelLevels(table, inner, levels) ==
    [i \in DOMAIN levels |->
        [Relabel(table, levels[i]) EXCEPT ![Name(table, 3)].inside =
            [j \in DOMAIN @ |-> Relabel(inner, @[j])]]]

LabelBook(item) ==
    LET top == Relabel(BookFields, item)
        levels(k) ==
            CASE k = Name(BookFields, 2) ->
                    LabelLevels(BidFields, PerExchangeBidFields, top[k].inside)
              [] k = Name(BookFields, 3) ->
                    LabelLevels(AskFields, PerExchangeAskFields, top[k].inside)
              [] OTHER -> top[k].inside
    IN  [k \in DOMAIN top |-> [top[k] EXCEPT !.inside = levels(k)]]

\* A level without its quotes ends the labelling there, and the message is
\* absorbed; the unknown fields of what was reached have been reported.
Levels(item, id) == IF Wire(id) \in DOMAIN item THEN item[Wire(id)].inside ELSE <<>>
Whole(level) == Wire(3) \in DOMAIN level
AllWhole(levels) == \A i \in DOMAIN levels : Whole(levels[i])
UnknownOfSide(table, inner, levels) ==
    LET broken == SelectInSeq(levels, LAMBDA level : ~Whole(level))
        reached == IF broken = 0 THEN levels ELSE SubSeq(levels, 1, broken)
        unknown(level) ==
            Unknown(table, level) \o
            (IF Whole(level)
             THEN FlattenSeq([j \in DOMAIN level[Wire(3)].inside |->
                                Unknown(inner, level[Wire(3)].inside[j])])
             ELSE <<>>)
    IN  FlattenSeq([i \in DOMAIN reached |-> unknown(reached[i])])
UnknownOfBook(item) ==
    Unknown(BookFields, item)
    \o UnknownOfSide(BidFields, PerExchangeBidFields, Levels(item, 2))
    \o (IF AllWhole(Levels(item, 2))
        THEN UnknownOfSide(AskFields, PerExchangeAskFields, Levels(item, 3))
        ELSE <<>>)

\* The books that come: a side is absent, empty, or one level, with a quote
\* or without its quotes, and a field this version does not know may be at
\* each depth.
Item(ids) == [k \in {Wire(id) : id \in ids} |-> Value(k, "plain", <<>>)]
Plus(item, id, inside) == (Wire(id) :> Value(Wire(id), "plain", inside)) @@ item
Sides == {<<>>, <<Item({0, 4})>>, <<Plus(Item({0, 4}), 3, <<Item({0, 2, 3})>>)>>}
Books ==
    LET tops == Items({4})
        bids == tops \cup {Plus(t, 2, side) : t \in tops, side \in Sides}
    IN  bids \cup {Plus(b, 3, side) : b \in bids, side \in Sides}

DeliverBook(s) ==
    /\ s.kind = "book"
    /\ \E item \in Books :
        LET report == ReportUnknownField(UnknownOfBook(item)) IN
        /\ IF AllWhole(Levels(item, 2)) /\ AllWhole(Levels(item, 3))
           THEN Hear(s, item, LabelBook(item), FALSE)
           ELSE Hear(s, item, <<>>, TRUE)
        /\ fields' = report.fields /\ named' = report.named
    /\ UNCHANGED types

\* Account activity is relabelled as any message is; then a type nobody has
\* captured is named once, whatever its case; an empty one with a notice
\* written as text is none.
Casefold == [known |-> "known", Fresh |-> "fresh", FRESH |-> "fresh",
             newer |-> "newer", empty |-> "empty"]
MessageTypes == DOMAIN Casefold
MessageData == {"notice", "object"}
ReportsType(item) ==
    /\ Name(AccountActivityFields, 2) \in DOMAIN item
    /\ LET type == item[Name(AccountActivityFields, 2)].text
            notice == /\ type = "empty"
                      /\ Name(AccountActivityFields, 3) \in DOMAIN item
                      /\ item[Name(AccountActivityFields, 3)].text = "notice"
       IN  /\ ~notice /\ type # "known" /\ Casefold[type] \notin types
           /\ Cardinality(types) < MaxReportedFields

Activities ==
    LET texts(k) == CASE k = Wire(2) -> MessageTypes
                      [] k = Wire(3) -> MessageData
                      [] OTHER -> {"plain"}
    IN  UNION {{[k \in DOMAIN i |-> Value(k, text[k], <<>>)] :
                    text \in {t \in [DOMAIN i -> MessageTypes \cup MessageData \cup {"plain"}] :
                                \A k \in DOMAIN i : t[k] \in texts(k)}} :
               i \in Items({2, 3, 4})}

DeliverActivity ==
    /\ AccountActivity \in Services
    /\ \E item \in Activities :
        LET report == ReportUnknownField(Unknown(AccountActivityFields, item))
            got == Relabel(AccountActivityFields, item)
            type == got[Name(AccountActivityFields, 2)].text
        IN  /\ Hear(AccountActivity, item, got, FALSE)
            /\ fields' = report.fields
            /\ IF ReportsType(got)
               THEN /\ types' = types \cup {Casefold[type]}
                    /\ named' = Append(report.named, [table |-> "types", id |-> type])
               ELSE /\ named' = report.named
                    /\ UNCHANGED types

Next ==
    \/ \E s \in Services, c \in Containers : \E op \in {"SUBS", "ADD"} : SubsOrAdd(s, op, c)
    \/ \E s \in Services, c \in Containers : View(s, c)
    \/ \E s \in Services : Unsubs(s) \/ Deliver(s) \/ DeliverBook(s)
    \/ DeliverActivity

Spec == Init /\ [][Next]_vars

----------------------------------------------------------------------------
\* Whatever fields a caller asks for, and however often it passes the same
\* list, SYMBOL is the first of those sent, and they are in order: without it
\* a quote names no instrument (the subs, adds and views of the level one
\* services).  An empty list or tuple is sent as it is, without SYMBOL, and a
\* generator without what the search for SYMBOL used up.
Identified ==
    \A name \in DOMAIN asked : asked[name].sent =>
        LET sent == asked[name].fields IN
        /\ \/ asked[name].container \in {"list", "tuple"} /\ asked[name].empty
           \/ asked[name].container = "generator"
           \/ sent # <<>> /\ sent[1] = 0
        /\ \A i, j \in DOMAIN sent : i < j => sent[i] <= sent[j]

\* A request asks for the fields it was given and SYMBOL, and for no other; a
\* view for each once, given as a member, as a number or both; a subscription
\* keeps a field that is given twice (_service_op, _view_op).
AskedAsGiven ==
    \A s \in {t \in Services : t.name = last.service /\ t.kind = "chosen"} :
    last.op \in {"SUBS", "ADD", "VIEW"} /\ last.outcome = "sent"
        /\ last.container \notin {"unset", "generator"} =>
        LET sent == asked[s.name].fields
            ids == {last.given[i].id : i \in DOMAIN last.given}
        IN  /\ ToSet(sent) = ids \cup (IF last.given = <<>> THEN {} ELSE {0})
            /\ last.op = "VIEW" => Cardinality(ToSet(sent)) = Len(sent)

\* An item is labelled with a table when each of its fields has the table's
\* name for it, and what has no name there stays where it came.
Labelled(table, came, got) ==
    LET name(k) == IF k.table = "wire" /\ k.id \in table.ids
                   THEN Name(table, k.id) ELSE k
    IN  /\ DOMAIN got = {name(k) : k \in DOMAIN came}
        /\ \A k \in DOMAIN came : /\ got[name(k)].of = k
                                  /\ got[name(k)].text = came[k].text

\* The levels of one side of a book, and the quotes in each.
SideLabelled(level, quote, came, got) ==
    /\ DOMAIN got = DOMAIN came
    /\ \A i \in DOMAIN came :
        /\ Labelled(level, came[i], got[i])
        /\ LET quotes == came[i][Wire(3)].inside
               found == got[i][Name(level, 3)].inside
           IN  /\ DOMAIN found = DOMAIN quotes
               /\ \A j \in DOMAIN quotes : Labelled(quote, quotes[j], found[j])

\* A handler finds each value under the name of the field it came as, at
\* every depth of a book, and what has no name where it came: nothing is
\* lost, mixed up or renamed (label_message, relabel_message).  Only a book
\* with a level that lacks its quotes is kept from the handlers.
LabelledRight ==
    \A s \in {t \in Services : t.name = heard.service} :
        LET came == heard.came
            got == heard.got
        IN  IF heard.absorbed
            THEN /\ s.kind = "book"
                 /\ ~(AllWhole(Levels(came, 2)) /\ AllWhole(Levels(came, 3)))
            ELSE /\ Labelled(s.asks, came, got)
                 /\ s.kind = "book" =>
                    /\ Wire(2) \in DOMAIN came =>
                        SideLabelled(BidFields, PerExchangeBidFields,
                            came[Wire(2)].inside, got[Name(BookFields, 2)].inside)
                    /\ Wire(3) \in DOMAIN came =>
                        SideLabelled(AskFields, PerExchangeAskFields,
                            came[Wire(3)].inside, got[Name(BookFields, 3)].inside)

\* What this version does not know is named once each, over all messages,
\* until there is no more room.
NamedOnce ==
    /\ Cardinality(fields) <= MaxReportedFields
    /\ Cardinality(types) <= MaxReportedFields
    /\ \A n \in fields : \E i \in DOMAIN named :
         named[i].table # "types" /\ named[i] = n
    /\ \A i, j \in DOMAIN named : i # j /\ named[i].table = named[j].table =>
         IF named[i].table = "types"
         THEN Casefold[named[i].id] # Casefold[named[j].id]
         ELSE named[i] # named[j]

\* An empty type is named only when it came with no notice written as text.
NoticesQuiet ==
    heard.service = "ACCT_ACTIVITY" /\ named # <<>> /\ messages = 1
        /\ Last(named).table = "types" /\ Last(named).id = "empty" =>
            \A k \in DOMAIN heard.came : heard.came[k].text # "notice"

\* A request goes out with the fields it was given, which name the
\* instrument, a view with each of them once; what comes is passed on under
\* its own name, in books and account activity too; and what is new is named
\* once.
FieldsAreRight ==
    Identified /\ AskedAsGiven /\ LabelledRight /\ NamedOnce /\ NoticesQuiet

=============================================================================
