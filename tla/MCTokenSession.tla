---------------------------- MODULE MCTokenSession ----------------------------
\* Small instances of TokenSession for TLC.
EXTENDS TokenSession

Tok(exp, typ, refresh) ==
    [id |-> 0, login |-> 0, exp |-> exp, typ |-> typ, refresh |-> refresh]
Whole(token) == [shape |-> "whole", token |-> token, created |-> 0]

\* Stores a user may hand over: each way in which an expiry, a type or a
\* refresh token is odd, and one that is not a token at all.
MCStores ==
    {Whole(Tok(e, "bearer", "live")) : e \in {NoExpiry, Counted, 0, 1, 9}}
    \cup {Whole(Tok(1, y, "live")) : y \in {"null", "other", "odd"}}
    \cup {Whole(Tok(1, "bearer", r)) : r \in {"none", "null", "empty"}}
    \cup {Whole(Tok(9, "other", "none")), NoStore}

\* Two ordinary stores, for the runs that are about interleavings.
FewStores == {Whole(Tok(1, "bearer", "live")), NoStore}

Offer(exp, typ, refresh) == [exp |-> exp, typ |-> typ, refresh |-> refresh]

\* Tokens: good with and without a refresh token, already expiring, without
\* an expiry, too far off, of another type, with an empty refresh token.
MCOffers ==
    {Offer(3, "bearer", "live"), Offer(3, "bearer", "none"),
     Offer(0, "bearer", "live"), Offer(NoExpiry, "bearer", "live"),
     Offer(9, "bearer", "live"), Offer(3, "other", "live"),
     Offer(3, "bearer", "empty")}

FewOffers == {Offer(3, "bearer", "none"), Offer(3, "bearer", "live")}
===============================================================================
