\* Accounts and orders, totals, symbols, orders built and traded, fields,
\* amounts, logs and reports.
SPECIFICATION ScenesSpec
CONSTANTS
    Accounts = {"0123", "0456"}
    Hash <- MCHash
    DetailLimit = 2
    Listings <- OneList
    Bodies <- SomeBodies
    MaxOrder = 2
    MaxLookup = 2
    o1 = o1
    o2 = o2
    o3 = o3
INVARIANTS
    TotalsAreTrue
    SymbolsSaySame
    FieldsAreRight
    ReadAsMeant
    NothingRegisteredRead
    ReportIsSafe
PROPERTIES
    CallerKnows
    OrdersAsAsked
    TradesAsNamed
SYMMETRY Alike
CHECK_DEADLOCK FALSE
