------------------------------ MODULE MCValues ------------------------------
(***************************************************************************)
(* The components that read and make values, in scenes, one to a           *)
(* behaviour: a component a scene is not about stays as it starts.  The    *)
(* constants of the configuration are those of OrderDesk in "orders".      *)
(*   lookup    OrderDesk: every account list of up to three entries        *)
(*   orders    OrderDesk: orders accepted, refused and misdirected         *)
(*   fills     OrderFills                                                  *)
(*   symbols   OptionSymbols                                               *)
(*   fields    OrderBuilder: a builder and every value by mistake          *)
(*   times     OrderBuilder: the same, of the other two kinds of field     *)
(*   tied      OrderBuilder: three of them tied together                   *)
(*   dicts     OrderBuilder: a dict or no order as the second one          *)
(*   trades    OrderTemplates                                              *)
(*   asking    StreamServices: requests with a list that is used again     *)
(*   hearing   StreamServices: messages of every service                   *)
(*   amounts   ActivityFeed                                                *)
(*   records   LogRedaction: what is registered, and late readers          *)
(*   loggers   LogRedaction: a dependency that is imported late            *)
(*   frames    LogRedaction: cuts, frames and payloads                     *)
(*   report    BugReport                                                   *)
(***************************************************************************)
EXTENDS MCOrderDesk, TLC

CONSTANTS o1, o2, o3    \* orders that are tied together

VARIABLES
    scene,
    activities, fills, strange,                     \* of OrderFills
    symbolAsked, option, text,                      \* of OptionSymbols
    orders, built, said, pairs,                     \* of OrderBuilder
    held, order, lots,                              \* of OrderTemplates
    mine, ops, lastRequest, asked, delivered, heard, fields, types, named,
                                                    \* of StreamServices
    lastValue, reportedKeys, namedKeys, met, count, \* of ActivityFeed
    _registered, _pattern, filters, records, lastRead, given, covered,
                                                    \* of LogRedaction
    collecting, redacted_strings, label_counts, lines, stream, report, secrets
                                                    \* of BugReport

Lookup == INSTANCE OrderDesk WITH
    Listings <- AnyList, Bodies <- NoBody, MaxOrder <- 0, MaxLookup <- 3

FillCases == INSTANCE MCOrderFills WITH
    LegIds <- {}, Executions <- {}, OddExecutions <- {}, Digits <- 2,
    Fine <- 1, MaxActivity <- 0
Fills == INSTANCE OrderFills WITH
    LegIds <- {1, 2}, Executions <- FillCases!MCExecutions,
    OddExecutions <- FillCases!MCOddExecutions, Digits <- 2, Fine <- 1,
    MaxActivity <- 3
fillVars == <<activities, fills, strange>>

SymbolCases == INSTANCE MCOptionSymbols WITH
    RootWidth <- 2, StrikeWidth <- 3, Places <- 1, Roots <- {},
    DateTexts <- {}, Strikes <- {}, Texts <- {}, asked <- symbolAsked
Symbols == INSTANCE OptionSymbols WITH
    RootWidth <- 2, StrikeWidth <- 3, Places <- 1,
    Roots <- SymbolCases!MCRoots, DateTexts <- SymbolCases!LooseDates,
    Strikes <- SymbolCases!MCStrikes, Texts <- SymbolCases!MCTexts,
    asked <- symbolAsked
symbolVars == <<symbolAsked, option, text>>

OrderCases == INSTANCE MCOrderBuilder WITH
    Builders <- {}, Fields <- {}, Values <- {}, Quantities <- {}, Dicts <- {},
    Enforcing <- {}, MaxList <- 0, sent <- built
OneOrder == INSTANCE OrderBuilder WITH
    Builders <- {o1}, Fields <- {"session", "price"},
    Values <- OrderCases!EveryValue, Quantities <- OrderCases!SomeQuantities,
    Dicts <- OrderCases!SomeDicts, Enforcing <- BOOLEAN, MaxList <- 1,
    sent <- built
Timed == INSTANCE OrderBuilder WITH
    Builders <- {o1}, Fields <- {"cancelTime", "priceOffset"},
    Values <- OrderCases!EveryValue, Quantities <- {}, Dicts <- {},
    Enforcing <- BOOLEAN, MaxList <- 1, sent <- built
Tied == INSTANCE OrderBuilder WITH
    Builders <- {o1, o2, o3}, Fields <- {"orderStrategyType"},
    Values <- OrderCases!Strategies, Quantities <- {}, Dicts <- {},
    Enforcing <- {}, MaxList <- 2, sent <- built
WithDicts == INSTANCE OrderBuilder WITH
    Builders <- {o1, o2}, Fields <- {"orderStrategyType"},
    Values <- OrderCases!Strategies, Quantities <- {},
    Dicts <- OrderCases!SomeDicts, Enforcing <- {}, MaxList <- 2, sent <- built
orderVars == <<orders, built, said, pairs>>

\* What a caller does in these scenes is what the proofs assume of callers.
ASSUME CallersAssumption ==
    /\ OneOrder!CallerAssumption /\ Timed!CallerAssumption
    /\ Tied!CallerAssumption /\ WithDicts!CallerAssumption

TradeCases == INSTANCE MCOrderTemplates WITH
    Strikes <- {1, 2, 3}, Prices <- 0 .. 4, Sizes <- {1, 2}, Omissions <- {},
    Trades <- {}, MaxHeld <- 2
Trades == INSTANCE OrderTemplates WITH
    Strikes <- {1, 2, 3}, Prices <- 0 .. 4, Sizes <- {1, 2},
    Omissions <- TradeCases!PriceNone, Trades <- TradeCases!EveryTrade,
    MaxHeld <- 2
tradeVars == <<held, order, lots>>

ServiceCases == INSTANCE MCStreamServices WITH
    Offered <- {}, Lists <- {}, Containers <- {}, Enforces <- FALSE, MaxOp <- 0,
    MaxMessage <- 0, MaxReportedFields <- 2, last <- lastRequest,
    messages <- delivered
Asking == INSTANCE StreamServices WITH
    Offered <- ServiceCases!LevelOnes, Lists <- ServiceCases!EquityLists,
    Containers <- {"unset", "list", "tuple", "member", "generator"},
    Enforces <- FALSE, MaxOp <- 3, MaxMessage <- 0, MaxReportedFields <- 2,
    last <- lastRequest, messages <- delivered
Hearing == INSTANCE StreamServices WITH
    Offered <- ServiceCases!AllServices, Lists <- ServiceCases!MemberLists,
    Containers <- {"unset"}, Enforces <- TRUE, MaxOp <- 0, MaxMessage <- 2,
    MaxReportedFields <- 2, last <- lastRequest, messages <- delivered
serviceVars == <<mine, ops, lastRequest, asked, delivered, heard, fields,
    types, named>>

Amounts == INSTANCE ActivityFeed WITH
    Bits <- 3, Mantissas <- {0, 7, 8, 511}, Scales <- {0, 2},
    MaxSignScale <- 6, MaxExponent <- 2, MaxReportedKeys <- 1,
    NewKeys <- {"n1", "n2"}, MaxValue <- 2,
    last <- lastValue, reported <- reportedKeys, named <- namedKeys
amountVars == <<lastValue, reportedKeys, namedKeys, met, count>>

LogCases == INSTANCE MCLogRedaction WITH
    Values <- {}, Limits <- <<>>, MinLength <- 3, Window <- 6,
    PlaceholderWidth <- 2, Uses <- {}, Lines <- {}, Failures <- {},
    Frames <- {}, Payloads <- {}, Bounds <- {}, Loggers <- {}, Own <- {},
    MaxRecords <- 0, ShownWidth <- 8, last <- lastRead
LateReaders == INSTANCE LogRedaction WITH
    Values <- LogCases!MCValues, Limits <- LogCases!MCLimits, MinLength <- 3,
    Window <- 6, PlaceholderWidth <- 2, Uses <- LogCases!RecordUses,
    Lines <- LogCases!MCLines, Failures <- {}, Frames <- {}, Payloads <- {},
    Bounds <- {}, Loggers <- {"own"}, Own <- {"own"}, MaxRecords <- 1,
    ShownWidth <- 8, last <- lastRead
LateImport == INSTANCE LogRedaction WITH
    Values <- LogCases!MCValues, Limits <- LogCases!MCLimits, MinLength <- 3,
    Window <- 6, PlaceholderWidth <- 2, Uses <- LogCases!OneUse,
    Lines <- LogCases!OneLine, Failures <- LogCases!OneFailure, Frames <- {},
    Payloads <- {}, Bounds <- {}, Loggers <- {"own", "dependency"},
    Own <- {"own"}, MaxRecords <- 2, ShownWidth <- 8, last <- lastRead
CutAndFramed == INSTANCE LogRedaction WITH
    Values <- LogCases!MCValues, Limits <- LogCases!MCLimits, MinLength <- 3,
    Window <- 6, PlaceholderWidth <- 2, Uses <- LogCases!FrameUses,
    Lines <- LogCases!LongLines, Failures <- {}, Frames <- LogCases!MCFrames,
    Payloads <- LogCases!MCPayloads, Bounds <- {3, 5, 8}, Loggers <- {"own"},
    Own <- {"own"}, MaxRecords <- 1, ShownWidth <- 8, last <- lastRead
logVars == <<_registered, _pattern, filters, records, lastRead, given, covered>>

ReportCases == INSTANCE MCBugReport WITH
    Responses <- {}, BadKeys <- {}, Whitelisted <- {}, Lines <- {},
    MaxMessages <- 0, messages <- lines
Reports == INSTANCE BugReport WITH
    Responses <- ReportCases!MCResponses,
    BadKeys <- ReportCases!MCBadKeys, Whitelisted <- ReportCases!MCWhitelisted,
    Lines <- ReportCases!MCLines, MaxMessages <- 2, messages <- lines
reportVars == <<collecting, redacted_strings, label_counts, lines, stream,
    report, secrets>>

allVars == <<scene, vars, fillVars, symbolVars, orderVars, tradeVars,
    serviceVars, amountVars, logVars, reportVars>>

----------------------------------------------------------------------------
ScenesInit ==
    /\ scene \in {"lookup", "orders", "fills", "symbols", "fields", "times",
                  "tied", "dicts", "trades", "asking", "hearing", "amounts", "records",
                  "loggers", "frames", "report"}
    /\ IF scene = "lookup" THEN Lookup!Init ELSE Init
    /\ Fills!Init /\ Symbols!Init
    /\ CASE scene = "tied" -> Tied!Init
         [] scene = "dicts" -> WithDicts!Init
         [] scene = "times" -> Timed!Init
         [] OTHER -> OneOrder!Init
    /\ Trades!Init
    /\ IF scene = "asking" THEN Asking!Init ELSE Hearing!Init
    /\ Amounts!Init
    /\ IF scene = "loggers" THEN LateImport!Init ELSE LateReaders!Init
    /\ Reports!Init

\* One step of the scene's component; the others stay.
DeskStep ==
    /\ \/ scene = "orders" /\ Next
       \/ scene = "lookup" /\ Lookup!Next
    /\ UNCHANGED <<fillVars, symbolVars, orderVars, tradeVars, serviceVars,
                   amountVars, logVars, reportVars>>
FillStep ==
    /\ scene = "fills" /\ Fills!Next
    /\ UNCHANGED <<vars, symbolVars, orderVars, tradeVars, serviceVars,
                   amountVars, logVars, reportVars>>
SymbolStep ==
    /\ scene = "symbols" /\ Symbols!Next
    /\ UNCHANGED <<vars, fillVars, orderVars, tradeVars, serviceVars,
                   amountVars, logVars, reportVars>>
OrderStep ==
    /\ \/ scene = "fields" /\ OneOrder!Next
       \/ scene = "times" /\ Timed!Next
       \/ scene = "tied" /\ Tied!Next
       \/ scene = "dicts" /\ WithDicts!Next
    /\ UNCHANGED <<vars, fillVars, symbolVars, tradeVars, serviceVars,
                   amountVars, logVars, reportVars>>
TradeStep ==
    /\ scene = "trades" /\ Trades!Next
    /\ UNCHANGED <<vars, fillVars, symbolVars, orderVars, serviceVars,
                   amountVars, logVars, reportVars>>
ServiceStep ==
    /\ \/ scene = "asking" /\ Asking!Next
       \/ scene = "hearing" /\ Hearing!Next
    /\ UNCHANGED <<vars, fillVars, symbolVars, orderVars, tradeVars,
                   amountVars, logVars, reportVars>>
AmountStep ==
    /\ scene = "amounts" /\ Amounts!Next
    /\ UNCHANGED <<vars, fillVars, symbolVars, orderVars, tradeVars,
                   serviceVars, logVars, reportVars>>
LogStep ==
    /\ \/ scene = "records" /\ LateReaders!Next
       \/ scene = "loggers" /\ LateImport!Next
       \/ scene = "frames" /\ CutAndFramed!Next
    /\ UNCHANGED <<vars, fillVars, symbolVars, orderVars, tradeVars,
                   serviceVars, amountVars, reportVars>>
ReportStep ==
    /\ scene = "report" /\ Reports!Next
    /\ UNCHANGED <<vars, fillVars, symbolVars, orderVars, tradeVars,
                   serviceVars, amountVars, logVars>>

ScenesNext ==
    /\ UNCHANGED scene
    /\ \/ DeskStep \/ FillStep \/ SymbolStep \/ OrderStep \/ TradeStep
       \/ ServiceStep \/ AmountStep \/ LogStep \/ ReportStep

ScenesSpec == ScenesInit /\ [][ScenesNext]_allVars

Alike == Permutations({o1, o2, o3})

----------------------------------------------------------------------------
(* The properties of the modules, each asked in the scenes of its          *)
(* component; CallerKnows is OrderDesk's.                                  *)

\* The totals of an order are those of its fills, or there are none
\* (execution_totals).
TotalsAreTrue == scene = "fills" => Fills!TotalsAreTrue

\* An option and its symbol say the same (OptionSymbol).
SymbolsSaySame == scene = "symbols" => Symbols!SymbolsSaySame

\* A request asks for the fields it was given and for SYMBOL, a view for each
\* once, and what comes is passed on under its own name, at every depth of a
\* book (convert_enum_iterable, _view_op, relabel_message, label_message).
FieldsAreRight == scene \in {"asking", "hearing"} => Hearing!FieldsAreRight

\* An amount is read as it was meant, or not at all (decode_decimal).
ReadAsMeant == scene = "amounts" => Amounts!ReadAsMeant

\* Nothing that was registered is read in a log (schwaby/_redact.py).
NothingRegisteredRead ==
    scene \in {"records", "loggers", "frames"} => LateReaders!NothingRegisteredRead

\* A bug report shows no registered value that replacing can keep out, leaves
\* the lines without one, and tells two values apart (schwaby/debug.py).
ReportIsSafe == scene = "report" => Reports!ReportIsSafe

\* What is sent is what the caller asked for (OrderBuilder.build).
OrdersAsAsked ==
    [][/\ scene = "tied" => Tied!SentAsAsked
       /\ scene = "dicts" => WithDicts!SentAsAsked
       /\ scene = "times" => Timed!SentAsAsked
       /\ scene = "fields" => OneOrder!SentAsAsked]_orderVars

\* A template opens and closes what its name says (schwaby/orders).
TradesAsNamed ==
    /\ [](scene = "trades" => Trades!HeldAsNamed)
    /\ [][scene = "trades" => Trades!PaidForWorth]_tradeVars
=============================================================================
