----------------------------- MODULE OrderDesk -----------------------------
(***************************************************************************)
(* A caller that places orders with the helpers of schwaby/utils.py: it    *)
(* finds the hash of an account in the list the venue answers with         *)
(* (find_account_hash), keeps a Utils for one account, and reads the id of *)
(* each order from the answer to place_order (extract_order_id), which     *)
(* raises a class of its own for each way this can fail.  The exception    *)
(* may cross to another process before one of the caller's except clauses  *)
(* handles it.                                                             *)
(***************************************************************************)
EXTENDS Integers, Sequences, FiniteSets, SequencesExt

CONSTANTS
    Accounts,       \* account numbers
    Hash,           \* the hash of each
    Listings,       \* the account lists the venue may answer with
    Bodies,         \* the bodies of its error answers
    MaxOrder,       \* bound: orders sent
    MaxLookup,      \* bound: lookups
    DetailLimit     \* _ERROR_DETAIL_LIMIT (500 characters), in reasons

None == "none"
NoOrder == 0
Hashes == {Hash[a] : a \in Accounts}
AccountNumberNotFoundError == "AccountNumberNotFoundError"
UnusableAccountNumbersError == "UnusableAccountNumbersError"
Unusable == {"missing", "empty", "not a string"}

ASSUME HashIsInjective ==
    \A a, b \in Accounts : Hash[a] = Hash[b] => a = b

\* A hash is not one of the names used here for there being none.
ASSUME HashesAreHashes ==
    Hashes \cap ({None, AccountNumberNotFoundError, UnusableAccountNumbersError}
                 \cup Unusable) = {}

\* A number and a hash in one entry of the venue's lists are of one account:
\* what makes a list odd is what an entry lacks.
ASSUME ListingsAreTrue ==
    \A l \in Listings :
        /\ l \in Seq(ToSet(l))
        /\ \A i \in DOMAIN l :
               /\ l[i].hash \in Hashes \cup Unusable
               /\ l[i].number \in Accounts /\ l[i].hash \in Hashes
                      => l[i].hash = Hash[l[i].number]

\* What the venue's error bodies say.
Said == UNION {{b.message} \cup ToSet(b.errors) : b \in Bodies}
ASSUME BodiesAreAnswers ==
    Bodies \subseteq [object : BOOLEAN, message : Said, errors : Seq(Said)]

ASSUME DetailLimitAssumption == DetailLimit \in Nat

VARIABLES
    listing,    \* the body of get_account_numbers
    lookups,    \* the lookups made, each with its answer
    reported,   \* _reported_account_entry_problems
    warnings,   \* the warnings logged
    desk,       \* Utils.account_hash
    book,       \* the live orders at the venue: [id, account]
    answer,     \* the answer to place_order the caller holds, or NoAnswer
    raised,     \* the exception extract_order_id raised, or NoException
    known,      \* the orders the caller can act on: [id, account]
    looked,     \* orders the caller was told to go and look for
    broad,      \* orders whose exception an `except ValueError` took
    sent        \* orders sent

vars == <<listing, lookups, reported, warnings, desk, book, answer, raised,
          known, looked, broad, sent>>

----------------------------------------------------------------------------
(* find_account_hash.  An entry's number is that of an account, "odd" (a   *)
(* string that is not all digits) or None (absent, or not a string); its   *)
(* hash is a hash, or says what is wrong with it.                          *)

Entry(number, hash) == [object |-> TRUE, number |-> number, hash |-> hash]
NotAnObject == [object |-> FALSE, number |-> None, hash |-> "missing"]

\* An entry that cannot be read and may be the account asked for: any that
\* does not name another account in digits.
Malformed(entry, account) ==
    \/ ~entry.object
    \/ entry.number = None
    \/ entry.hash \in Unusable /\ entry.number \notin Accounts \ {account}

\* One pass over the entries, to the end or to the first malformed one:
\* the answer, and what was wrong with the entries skipped on the way.
find_account_hash(entries, account) ==
    LET odd == {i \in DOMAIN entries : Malformed(entries[i], account)}
        read == {i \in DOMAIN entries : \A j \in odd : i < j}
        own == {i \in read : entries[i].number = account}
        skipped == {i \in read : entries[i].hash \in Unusable}
    IN  [result |-> IF odd # {} \/ Cardinality(own) > 1 THEN UnusableAccountNumbersError
                    ELSE IF own = {} THEN AccountNumberNotFoundError
                    ELSE entries[CHOOSE i \in own : TRUE].hash,
         problems |-> {entries[i].hash : i \in skipped}]

\* What of the problems met is logged, given those reported before.
_report_skipped_account_entry(problems, before) == SetToSeq(problems \ before)

LookUp(account) ==
    LET found == find_account_hash(listing, account)
        new == _report_skipped_account_entry(found.problems, reported)
    IN  /\ Len(lookups) < MaxLookup
        /\ lookups' = Append(lookups, [account |-> account, result |-> found.result])
        /\ reported' = reported \cup ToSet(new)
        /\ warnings' = warnings \o new
        /\ UNCHANGED <<listing, desk, book, answer, raised, known, looked,
                       broad, sent>>

----------------------------------------------------------------------------
(* The exceptions.  One holds its message in args, and what else it is     *)
(* about in attributes bound by its __init__.                              *)

NoException == [class |-> None, args |-> <<>>, holds |-> <<>>]

Mismatch == "AccountHashMismatchException"
Missing == "MissingLocationHeaderError"
Unrecognized == "UnrecognizedLocationError"
Unsuccessful == "UnsuccessfulOrderException"

\* The classes an except clause may name to take each.
OrderIdNotFoundError == {"OrderIdNotFoundError", "SchwabError"}
UnsuccessfulOrderException == {Unsuccessful, "SchwabError", "ValueError"}
AccountHashMismatchException == {Mismatch, "SchwabError", "ValueError"}
Bases(class) ==
    CASE class = Unsuccessful -> UnsuccessfulOrderException
      [] class = Mismatch -> AccountHashMismatchException
      [] OTHER -> {class} \cup OrderIdNotFoundError

\* The arguments __init__ takes ahead of the message, and by keyword, which
\* would otherwise take the message's place.
Leading(class) ==
    CASE class = Unsuccessful -> <<"response">>
      [] class = Mismatch -> <<"response", "order_id", "account_hash">>
      [] OTHER -> <<"response", "location">>
Keywords(class) == IF class = Mismatch THEN {"expected_account_hash"} ELSE {}

\* Construction: the leading values and the keyword are bound, the rest is args.
Construct(class, values, keyword) ==
    LET names == Leading(class)
    IN  [class |-> class,
         args |-> SubSeq(values, Len(names) + 1, Len(values)),
         holds |-> [n \in ToSet(names) \cup Keywords(class) |->
                       IF n \in Keywords(class) THEN keyword
                       ELSE values[CHOOSE i \in DOMAIN names : names[i] = n]]]

\* A copy, or an unpickled exception: built without going through __init__.
_rebuild_exception(class, args, state) ==
    [class |-> class, args |-> args, holds |-> state]
__reduce__(exception) ==
    _rebuild_exception(exception.class, exception.args, exception.holds)

----------------------------------------------------------------------------
(* Placing an order and reading its id.                                    *)

NoAnswer == [status |-> None, order |-> NoOrder, account |-> None,
             location |-> None, body |-> None]

\* A body: an object with a message (or None, blank ones included) and a
\* list of errors, or anything else.
Strings(errors) ==
    LET first[n \in 0 .. Len(errors)] ==
            IF n = 0 THEN <<>>
            ELSE IF errors[n] = None THEN first[n - 1]
            ELSE Append(first[n - 1], errors[n])
    IN  first[Len(errors)]
Reasons(body) ==
    (IF body.message = None THEN <<>> ELSE <<body.message>>) \o Strings(body.errors)

\* The venue's own words, cut to the limit; nothing when there are none.
_describe_error(body) ==
    LET reasons == IF body.object THEN Reasons(body) ELSE <<>>
    IN  SubSeq(reasons, 1, IF Len(reasons) < DetailLimit THEN Len(reasons) ELSE DetailLimit)

\* The order id, or the exception: in the order of the code's checks.
Returned(id) == [id |-> id, exception |-> NoException]
Raises(class, values, keyword) ==
    [id |-> NoOrder, exception |-> Construct(class, values, keyword)]

\* "order": https://api.schwabapi.com/trader/v1/accounts/<hash>/orders/<id>.
extract_order_id_AnyAccount(a, expected) ==
    IF a.status = "error"
    THEN Raises(Unsuccessful, <<"response", <<"not successful">> \o _describe_error(a.body)>>,
                None)
    ELSE IF a.location # "order"
    THEN Raises(IF a.location = None THEN Missing ELSE Unrecognized,
                <<"response", a.location, <<"no id">>>>, None)
    ELSE Returned(a.order)
extract_order_id(a, expected) ==
    IF a.status = "error"
    THEN Raises(Unsuccessful, <<"response", <<"not successful">> \o _describe_error(a.body)>>,
                None)
    ELSE IF a.location = None
    THEN Raises(Missing, <<"response", None, <<"no Location">>>>, None)
    ELSE IF a.location # "order"
    THEN Raises(Unrecognized, <<"response", a.location, <<"not an order URL">>>>, None)
    ELSE IF a.account # expected
    THEN Raises(Mismatch, <<"response", a.order, a.account, <<"other account">>>>, expected)
    ELSE Returned(a.order)

Found == {lookups[i].result : i \in DOMAIN lookups} \cap Hashes

\* Utils(client, hash), or set_account_hash.
set_account_hash(hash) ==
    /\ hash \in Found
    /\ desk' = hash
    /\ UNCHANGED <<listing, lookups, reported, warnings, book, answer, raised,
                   known, looked, broad, sent>>

\* client.place_order(hash, ...), up to its answer.  An order is placed by a
\* success, which may carry any location; a redirect or an error places none.
place_order(hash, status, location, body) ==
    /\ answer = NoAnswer /\ raised = NoException
    /\ sent < MaxOrder
    /\ hash \in Found
    /\ status # "success" => location # "order"
    /\ LET id == sent + 1
       IN  /\ answer' = [status |-> status, location |-> location, body |-> body,
                         order |-> IF status = "success" THEN id ELSE NoOrder,
                         account |-> hash]
           /\ book' = IF status = "success"
                      THEN book \cup {[id |-> id, account |-> hash]} ELSE book
    /\ sent' = sent + 1
    /\ UNCHANGED <<listing, lookups, reported, warnings, desk, raised, known,
                   looked, broad>>

\* utils.extract_order_id(answer)
Extract ==
    /\ answer # NoAnswer /\ raised = NoException
    /\ desk # None
    /\ LET out == extract_order_id(answer, desk)
       IN  IF out.exception = NoException
           THEN /\ known' = known \cup {[id |-> out.id, account |-> desk]}
                /\ answer' = NoAnswer
                /\ UNCHANGED raised
           ELSE /\ raised' = out.exception
                /\ UNCHANGED <<known, answer>>
    /\ UNCHANGED <<listing, lookups, reported, warnings, desk, book, looked,
                   broad, sent>>

\* The exception reaches another process, or is copied.
Move ==
    /\ raised # NoException
    /\ raised' = __reduce__(raised)
    /\ UNCHANGED <<listing, lookups, reported, warnings, desk, book, answer,
                   known, looked, broad, sent>>

\* One of the caller's except clauses takes it.
Handle(clause) ==
    /\ raised # NoException /\ clause \in Bases(raised.class)
    /\ known' = IF clause = Mismatch
                THEN known \cup {[id |-> raised.holds["order_id"],
                                  account |-> raised.holds["account_hash"]]}
                ELSE known
    /\ looked' = IF clause \in {"OrderIdNotFoundError", "SchwabError"}
                 THEN looked \cup {answer.order} ELSE looked
    /\ broad' = IF clause = "ValueError"
                THEN broad \cup {[id |-> answer.order, class |-> raised.class]}
                ELSE broad
    /\ answer' = NoAnswer /\ raised' = NoException
    /\ UNCHANGED <<listing, lookups, reported, warnings, desk, book, sent>>

----------------------------------------------------------------------------
Init ==
    /\ listing \in Listings
    /\ lookups = <<>> /\ reported = {} /\ warnings = <<>>
    /\ desk = None
    /\ book = {} /\ answer = NoAnswer /\ raised = NoException
    /\ known = {} /\ looked = {} /\ broad = {}
    /\ sent = 0

Clauses == {"ValueError", "SchwabError", "OrderIdNotFoundError", Mismatch}

Next ==
    \/ \E a \in Accounts : LookUp(a)
    \/ \E h \in Hashes : set_account_hash(h)
    \/ \E h \in Hashes, s \in {"success", "redirect", "error"},
          l \in {None, "order", "other"}, b \in Bodies : place_order(h, s, l, b)
    \/ Extract
    \/ Move
    \/ \E c \in Clauses : Handle(c)

Spec == Init /\ [][Next]_vars

----------------------------------------------------------------------------
(* Properties                                                              *)

Named(account) == {i \in DOMAIN listing : listing[i].number = account}

\* A hash found is the hash of the account asked for, whatever else is in the
\* list and in whatever order; an account listed twice has none (utils.py
\* find_account_hash: "picks an account rather than finding one").
FoundIsOwn ==
    \A i \in DOMAIN lookups :
        lookups[i].result \in Hashes =>
            /\ lookups[i].result = Hash[lookups[i].account]
            /\ Cardinality(Named(lookups[i].account)) = 1

\* "Not found" is said only of a list whose every entry could be read or
\* names another account: an entry that could be the account asked for
\* refuses the list.
NotFoundIsSure ==
    \A i \in DOMAIN lookups :
        lookups[i].result = AccountNumberNotFoundError =>
            \A j \in DOMAIN listing :
                /\ listing[j].number \notin {None, lookups[i].account}
                /\ listing[j].hash \in Unusable => listing[j].number \in Accounts

\* Each kind of skipped entry is warned about once, however many lookups and
\* entries show it (_reported_account_entry_problems).
WarnedOnce == IsInjective(warnings)

\* An order the caller can act on is live, with that id, on that account.
KnownIsLive == known \subseteq book

\* No live order goes unheard: once its answer is dealt with, the caller has
\* its id, or was told to go and look for it by an exception that only a
\* clause naming this library's classes takes.  An order on another account
\* than the Utils' may go into an `except ValueError`, as its class warns.
NoOrderUnheard ==
    \A o \in book :
        \/ o.id = answer.order
        \/ o \in known
        \/ o.id \in looked
        \/ [id |-> o.id, class |-> Mismatch] \in broad

\* A rejection carries the venue's reasons, as many as the limit allows, in
\* its order, and a body that cannot be read takes nothing else away.
ReasonsKept ==
    raised.class = Unsuccessful =>
        LET said == Tail(raised.args[1])
        IN  /\ raised.holds["response"] = "response"
            /\ answer.body.object => IsPrefix(said, Reasons(answer.body))
            /\ answer.body.object /\ Len(Reasons(answer.body)) <= DetailLimit
                    => said = Reasons(answer.body)

\* An exception that is copied or sent to another process keeps its class,
\* its message and every attribute.
CopyKeeps == raised # NoException /\ raised' # NoException => raised' = raised

\* What the caller is told of its accounts and of its orders is so.
CallerKnows ==
    [][/\ FoundIsOwn' /\ NotFoundIsSure' /\ WarnedOnce'
       /\ KnownIsLive' /\ NoOrderUnheard' /\ ReasonsKept'
       /\ CopyKeeps]_vars

=============================================================================
