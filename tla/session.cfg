\* The session that renews a token, and the store that keeps it.
SPECIFICATION ScenesSpec
CONSTANTS
    Requesters = {"t1", "t2"}
    FirstStores <- FewStores
    Offers <- FewOffers
    MaxToken = 2
    MaxLogin = 1
    MaxClock = 5
    Leeway = 1
    Longest = 5
    SurelySynced = FALSE
INVARIANTS
    TokensServe
    CreatedIsLogin
    MetaFollowsStore
    ErrorsAreTrue
    RefreshDiscipline
CHECK_DEADLOCK FALSE
