---------------------------- MODULE LogRedaction ----------------------------
(***************************************************************************)
(* What schwaby/_redact.py does to a log: a registry of values that keeps  *)
(* the last few of each label and a pattern compiled from it when next     *)
(* needed, the filter that is first on every logger of the library and of  *)
(* its dependencies, records that are rendered when somebody reads them,   *)
(* and the frames websockets logs.  Every step of the registry is taken    *)
(* under its lock, so it is one action here.                               *)
(*                                                                         *)
(* A text is a sequence of characters, and so is a placeholder: as many    *)
(* copies of its label as it has characters.                               *)
(***************************************************************************)
EXTENDS Integers, Sequences, FiniteSets, SequencesExt

CONSTANTS
    Values,         \* what is registered: texts
    Limits,         \* _LABEL_LIMITS: label -> how many it keeps, 0 for all
    MinLength,      \* _MIN_LENGTH
    Window,         \* _WINDOW
    PlaceholderWidth, \* characters of a placeholder
    Uses,           \* what the library registers: pairs of a value and a label
    Lines,          \* what is logged: sequences of pieces
    Failures,       \* what an exception logged with a line reads: the same
    Frames,         \* what websockets logs
    Payloads,       \* what a response or a request holds: sequences of leaves
    Bounds,         \* where a caller of before_cut cuts
    Loggers,        \* names of loggers
    Own,            \* those of this library; the others are its dependencies'
    MaxRecords,     \* bound: records no handler has read yet
    ShownWidth      \* characters of a frame websockets shows

VARIABLES
    _registered,    \* label -> values, the one to go first in front
    _pattern,       \* the compiled spellings with their labels, or NoPattern
    filters,        \* logger -> its filters, "ours" and "callers"
    records,        \* records that wait for a handler
    last,           \* the text that was read last, and what it was made from
    given,          \* label -> values in the order they were last registered
    covered         \* loggers whose records are promised to be redacted

vars == <<_registered, _pattern, filters, records, last, given, covered>>

Labels == DOMAIN Limits
Account == "ACCOUNT_NUMBER"
Secret == "secret"          \* the placeholder of a value masked by its key
Placeholders == Labels \cup {Secret}
Digits == {"0", "1", "2", "3", "4", "5", "6", "7", "8", "9"}
NoPattern == {[form |-> <<>>, label |-> "none"]}

Repeated(label) == [i \in 1 .. PlaceholderWidth |-> label]

----------------------------------------------------------------------------
(* The registry.                                                           *)

\* urllib.parse.quote, which writes a space as given.
Quote(value, space) ==
    FlattenSeq([i \in DOMAIN value |->
        CASE value[i] = "/" -> <<"%", "F">>
          [] value[i] = " " -> space
          [] OTHER -> <<value[i]>>])

Forms(value) == {value, Quote(value, <<"%", "S">>), Quote(value, <<"+">>)}

\* The value goes to the back, and the front is dropped past the limit.
Registered(entries, value, limit) ==
    LET all == Append(SelectSeq(entries, LAMBDA v : v # value), value)
    IN  IF limit # 0 /\ Len(all) > limit THEN Tail(all) ELSE all

\* The registry and the pattern after register(value, label) for every pair.
register(registry, pattern, value, label) ==
    IF Len(value) < MinLength THEN <<registry, pattern>>
    ELSE <<[registry EXCEPT ![label] = Registered(@, value, Limits[label])],
           IF value \in ToSet(registry[label]) THEN pattern ELSE NoPattern>>

AllOf(registry) ==
    UNION {UNION {{[form |-> f, label |-> l] : f \in Forms(v)} : v \in ToSet(registry[l])} :
           l \in Labels}

\* The pattern, compiled anew if there is none.
_compiled(registry, pattern) == IF pattern = NoPattern THEN AllOf(registry) ELSE pattern

----------------------------------------------------------------------------
(* redact.                                                                 *)

Occurs(text, at, form) ==
    /\ at + Len(form) - 1 <= Len(text)
    /\ SubSeq(text, at, at + Len(form) - 1) = form
\* Where a spelling is replaced: one of digits only if no digit adjoins it.
Stands(text, at, form) ==
    /\ Occurs(text, at, form)
    /\ ToSet(form) \subseteq Digits =>
        /\ at > 1 => text[at - 1] \notin Digits
        /\ at + Len(form) <= Len(text) => text[at + Len(form)] \notin Digits

\* Registered spellings are replaced from the left, the longest first.
Replaced_Shortest(text, pattern) ==
    LET sub[at \in 1 .. Len(text) + 1] ==
            LET here == {p \in pattern : at <= Len(text) /\ Stands(text, at, p.form)}
                p == CHOOSE q \in here : \A r \in here : Len(q.form) <= Len(r.form)
            IN  IF at > Len(text) THEN <<>>
                ELSE IF here = {} THEN <<text[at]>> \o sub[at + 1]
                ELSE Repeated(p.label) \o sub[at + Len(p.form)]
    IN  sub[1]
Replaced(text, pattern) ==
    LET sub[at \in 1 .. Len(text) + 1] ==
            LET here == {p \in pattern : at <= Len(text) /\ Stands(text, at, p.form)}
                p == CHOOSE q \in here : \A r \in here : Len(q.form) >= Len(r.form)
            IN  IF at > Len(text) THEN <<>>
                ELSE IF here = {} THEN <<text[at]>> \o sub[at + 1]
                ELSE Repeated(p.label) \o sub[at + Len(p.form)]
    IN  sub[1]

\* The keys masked by pattern, as a URL and as JSON write them, and the
\* characters their values end at.
Opens == {"code=", "'token':'"}
Ends(open) == IF open = "code=" THEN {"&", "'"} \cup Placeholders ELSE {"'"}

Masked(text) ==
    LET from(at) == CHOOSE to \in at .. Len(text) + 1 :
            /\ \A i \in at .. to - 1 : text[i] \notin Ends(text[at - 1])
            /\ to <= Len(text) => text[to] \in Ends(text[at - 1])
        sub[at \in 1 .. Len(text) + 1] ==
            IF at > Len(text) THEN <<>>
            ELSE IF text[at] \in Opens /\ at < Len(text) /\ text[at + 1] \notin Placeholders
                 /\ (text[at] = "code=" => from(at + 1) > at + 1)
                 /\ (text[at] # "code=" => from(at + 1) <= Len(text))
            THEN <<text[at]>> \o Repeated(Secret) \o sub[from(at + 1)]
            ELSE <<text[at]>> \o sub[at + 1]
    IN  sub[1]

redact(text, pattern) == Masked(Replaced(text, pattern))

\* Redacted over a window that doubles until the bound, and a window more,
\* are filled with redacted text.
before_cut(text, bound, pattern) ==
    LET head(doubled) == SubSeq(text, 1, IF Len(text) < (bound + Window) * 2 ^ doubled
                                         THEN Len(text) ELSE (bound + Window) * 2 ^ doubled)
        enough == {d \in 0 .. Len(text) :
                     \/ head(d) = text
                     \/ Len(redact(head(d), pattern)) >= bound + Window}
    IN  redact(head(CHOOSE d \in enough : \A e \in enough : d <= e), pattern)

----------------------------------------------------------------------------
(* Lines: pieces with "&" between them.  A piece is a text of its own, or  *)
(* one that a key names.                                                   *)

Written(piece) ==
    IF piece.open = "" THEN piece.text
    ELSE <<piece.open>> \o piece.text \o (IF piece.open = "code=" THEN <<>> ELSE <<"'">>)
Joined(texts) ==
    FlattenSeq([i \in DOMAIN texts |-> IF i = 1 THEN texts[i] ELSE <<"&">> \o texts[i]])
Text(line) == Joined([i \in DOMAIN line |-> Written(line[i])])

\* What the line is to read as when those values are to be replaced.
Owners(piece, known) == {p \in known : piece.text \in Forms(p[1])}
Safe(piece, known) ==
    IF Owners(piece, known) # {}
    THEN {Written([piece EXCEPT !.text = Repeated(p[2])]) : p \in Owners(piece, known)}
    ELSE {Written(IF piece.open = "" \/ (piece.open = "code=" /\ piece.text = <<>>)
                  THEN piece ELSE [piece EXCEPT !.text = Repeated(Secret)])}
\* Whether no piece merely contains a value.
Plain(line, known) ==
    \A i \in DOMAIN line : Owners(line[i], known) = {} =>
        \A p \in known, at \in DOMAIN line[i].text :
            ToSet(p[1]) \subseteq Digits \/ ~Occurs(line[i].text, at, p[1])
SafeTexts(line, known) ==
    LET texts[n \in 0 .. Len(line)] ==
            IF n = 0 THEN {<<>>}
            ELSE {Append(before, text) : before \in texts[n - 1], text \in Safe(line[n], known)}
    IN  {Joined(s) : s \in texts[Len(line)]}

\* The values the registry promises to know: the last ones of each label.
Known(history) ==
    {<<v, l>> \in Values \X Labels :
        LET of == SelectSeq(history[l], LAMBDA w : Len(w) >= MinLength)
            kept == IF Limits[l] = 0 \/ Len(of) < Limits[l] THEN Len(of) ELSE Limits[l]
        IN  v \in ToSet(SubSeq(of, Len(of) - kept + 1, Len(of)))}
GivenAfter(history, value, label) ==
    [history EXCEPT ![label] = Append(SelectSeq(@, LAMBDA v : v # value), value)]

----------------------------------------------------------------------------
(* Records.                                                                *)

Nothing == <<"nothing">>    \* a field that is not set

\* filter: the message is taken lazily, and an exception is rendered, redacted
\* and dropped.
RedactingFilter(record, pattern) ==
    [record EXCEPT !.lazy = TRUE,
                   !.exc_text = IF record.exc_info = Nothing THEN @
                                ELSE redact(record.exc_info, pattern),
                   !.exc_info = Nothing]

\* A lazy message is redacted when first read, and reads the same ever after.
_RedactedMessage(record, pattern) ==
    IF record.text # Nothing THEN record.text
    ELSE IF record.lazy THEN redact(Text(record.line), pattern) ELSE Text(record.line)

\* Puts the filter first, once.
protect(chain) == IF "ours" \in ToSet(chain) THEN chain ELSE <<"ours">> \o chain

\* A frame is wrapped as websockets hands it over, and read redacted: one that
\* is a fragment not at all, and the accounts it names registered first.
register_stream_accounts(items) == ToSet(items) \ {<<"odd">>}

\* websockets leaves out the middle of a long frame.
Elided(text) ==
    IF Len(text) <= ShownWidth THEN text
    ELSE LET half == ShownWidth \div 2
         IN  SubSeq(text, 1, half) \o <<"...">>
                \o SubSeq(text, Len(text) - half + 1, Len(text))

\* A leaf of a payload is masked if it is a string right under a secret key,
\* and the account of one right under accountNumber is registered.
Lower(key) == CASE key = "Authorization" -> "authorization"
                [] key = "accountNumber" -> "accountnumber"
                [] OTHER -> key
SECRET_KEYS == {"authorization", "access_token", "code"}

IsSecret(leaf) == leaf.kind = "str" /\ Lower(Last(leaf.path)) \in SECRET_KEYS
mask(payload) ==
    [i \in DOMAIN payload |->
        [open |-> "", text |-> IF IsSecret(payload[i]) THEN Repeated(Secret)
                               ELSE payload[i].text]]

register_account_numbers(payload) ==
    {payload[i].text : i \in {j \in DOMAIN payload :
        /\ payload[j].kind \in {"str", "int"}
        /\ Lower(Last(payload[j].path)) = "accountnumber"
        /\ \A k \in DOMAIN Front(payload[j].path) :
               Lower(payload[j].path[k]) # "accountnumber"}}

----------------------------------------------------------------------------
(* Actions.                                                                *)

NotMade == <<"not made">>   \* a logger nobody has asked for

Init ==
    /\ _registered = [l \in Labels |-> <<>>]
    /\ _pattern = NoPattern
    /\ filters = [l \in Loggers |-> NotMade]
    /\ records = {}
    /\ last = {}
    /\ given = [l \in Labels |-> <<>>]
    /\ covered = Own

\* The library meets a secret.
Register(value, label) ==
    LET after == register(_registered, _pattern, value, label)
    IN  /\ _registered' = after[1]
        /\ _pattern' = after[2]
        /\ given' = GivenAfter(given, value, label)
        /\ last' = {}
        /\ UNCHANGED <<filters, records, covered>>

\* The registry, the pattern and the history after accounts are registered, of
\* those that were named.
RegisterAll(accounts, named) ==
    LET order == SetToSeq(accounts)
        after[n \in 0 .. Len(order)] ==
            IF n = 0 THEN <<_registered, _pattern>>
            ELSE register(after[n - 1][1], after[n - 1][2], order[n], Account)
        history == [given EXCEPT ![Account] =
                       SelectSeq(@, LAMBDA v : v \notin named) \o SetToSeq(named)]
    IN  <<after[Len(order)][1], after[Len(order)][2], history>>

\* A response is decoded, and the accounts it names are registered.
NamedIn(payload) ==
    {leaf.text : leaf \in {l \in ToSet(payload) : Last(l.path) = "accountNumber"}}
Respond(payload) ==
    LET after == RegisterAll(register_account_numbers(payload), NamedIn(payload))
    IN  /\ _registered' = after[1]
        /\ _pattern' = after[2]
        /\ given' = after[3]
        /\ last' = {}
        /\ UNCHANGED <<filters, records, covered>>

\* The caller configures a logger with a filter that reads records.
AddFilter(logger) ==
    /\ filters' = [filters EXCEPT ![logger] =
           IF @ = NotMade THEN <<"callers">>
           ELSE IF "callers" \in ToSet(@) THEN @ ELSE Append(@, "callers")]
    /\ last' = {}
    /\ UNCHANGED <<_registered, _pattern, records, given, covered>>

\* A dependency makes its loggers as it is imported.
ImportDependency ==
    /\ filters' = [l \in Loggers |-> IF l \notin Own /\ filters[l] = NotMade THEN <<>>
                                    ELSE filters[l]]
    /\ last' = {}
    /\ UNCHANGED <<_registered, _pattern, records, given, covered>>

\* A client is made.
protect_dependencies ==
    LET made == {l \in Loggers \ Own : filters[l] # NotMade}
    IN  /\ filters' = [l \in Loggers |-> IF l \in made THEN protect(filters[l]) ELSE filters[l]]
        /\ covered' = covered \cup made
        /\ last' = {}
        /\ UNCHANGED <<_registered, _pattern, records, given>>

\* What reading a record shows, the message and then the exception.
Reading(record, message, known) ==
    {[line |-> record.line, cut |-> 0, text |-> message, known |-> known,
      hidden |-> record.hidden]} \cup
    (IF record.exc = <<>> THEN {}
     ELSE {[line |-> record.exc, cut |-> 0, known |-> record.known, hidden |-> {},
            text |-> IF record.exc_info # Nothing THEN record.exc_info ELSE record.exc_text]})

\* A line is logged, with an exception or not: the logger's filters run over
\* the record in order, and a caller's reads it.
get_logger(logger) ==
    IF filters[logger] = NotMade THEN protect(<<>>) ELSE protect(filters[logger])
LogRecord(logger, line, exc, hidden) ==
    LET chain == IF logger \in Own THEN get_logger(logger) ELSE filters[logger]
        pattern == _compiled(_registered, _pattern)
        made == [line |-> line, exc |-> exc, lazy |-> FALSE, text |-> Nothing,
                 exc_info |-> IF exc = <<>> THEN Nothing ELSE Text(exc),
                 exc_text |-> Nothing, known |-> Known(given), heard |-> Known(given), hidden |-> hidden,
                 covered |-> logger \in covered, frame |-> FALSE, whole |-> TRUE, items |-> <<>>]
        place(filter) == SelectInSeq(chain, LAMBDA f : f = filter)
        before == place("callers") < place("ours") \/ place("ours") = 0
        read == IF place("ours") = 0 THEN made
                ELSE RedactingFilter(made, pattern)
        shown == IF before THEN made ELSE read
        message == _RedactedMessage(shown, pattern)
    IN  /\ Cardinality(records) < MaxRecords
        /\ chain # NotMade
        /\ filters' = [filters EXCEPT ![logger] = chain]
        /\ records' = records \cup
               {IF place("callers") = 0 \/ before THEN read ELSE [read EXCEPT !.text = message]}
        /\ last' = IF place("callers") = 0 \/ ~made.covered THEN {}
                   ELSE Reading(shown, message, Known(given))
        /\ _pattern' = IF exc # <<>> \/ place("callers") # 0 THEN pattern ELSE _pattern
        /\ UNCHANGED <<_registered, given, covered>>

LogLine(logger, line, exc) == LogRecord(logger, line, exc, {})
LogPayload(logger, payload) ==
    LogRecord(logger, mask(payload), <<>>,
        {payload[i].text : i \in {j \in DOMAIN payload :
            payload[j].kind = "str" /\ Lower(Last(payload[j].path)) \in SECRET_KEYS}})

\* websockets logs a frame through the adapter, which wraps it.
LogFrame(frame) ==
    /\ Cardinality(records) < MaxRecords
    /\ records' = records \cup {[line |-> frame.line, exc |-> <<>>, lazy |-> TRUE,
           text |-> Nothing, exc_info |-> Nothing, exc_text |-> Nothing, known |-> {}, heard |-> {},
           hidden |-> {}, covered |-> TRUE, frame |-> TRUE,
           whole |-> frame.whole, items |-> frame.items]}
    /\ last' = {}
    /\ UNCHANGED <<_registered, _pattern, filters, given, covered>>

\* A handler reads a record; it may have been the last one to.
ReadRecord(record, done) ==
    LET pattern == _compiled(_registered, _pattern)
        message == _RedactedMessage(record, pattern)
        known == IF record.text = Nothing THEN Known(given) ELSE record.heard
    IN  /\ ~record.frame
        /\ last' = IF record.covered THEN Reading(record, message, known) ELSE {}
        /\ records' = (records \ {record}) \cup
               (IF done THEN {} ELSE {[record EXCEPT !.text = message, !.heard = known]})
        /\ _pattern' = IF record.text = Nothing THEN pattern ELSE _pattern
        /\ UNCHANGED <<_registered, filters, given, covered>>

\* A frame is read for the first time.
_redact_frame(record) ==
    LET after == IF record.whole
                 THEN RegisterAll(register_stream_accounts(record.items),
                                  ToSet(record.items) \ {<<"odd">>})
                 ELSE RegisterAll({}, {})
        pattern == _compiled(after[1], after[2])
    IN  /\ record.frame
        /\ records' = records \ {record}
        /\ _registered' = after[1]
        /\ _pattern' = pattern
        /\ given' = after[3]
        /\ last' = {[line |-> record.line, cut |-> -1, hidden |-> {}, known |-> Known(after[3]),
                     text |-> IF record.whole THEN Elided(redact(Text(record.line), pattern))
                              ELSE <<"fragment">>]}
        /\ UNCHANGED <<filters, covered>>

\* A helper cuts a text for a message.
Cut(line, bound) ==
    LET pattern == _compiled(_registered, _pattern)
        text == before_cut(Text(line), bound, pattern)
    IN  /\ last' = {[line |-> line, cut |-> bound, known |-> Known(given), hidden |-> {},
                     text |-> SubSeq(text, 1, IF Len(text) < bound THEN Len(text) ELSE bound)]}
        /\ _pattern' = pattern
        /\ UNCHANGED <<_registered, filters, records, given, covered>>

Next ==
    \/ \E use \in Uses : Register(use[1], use[2])
    \/ \E p \in Payloads : Respond(p)
    \/ \E l \in Loggers : AddFilter(l)
    \/ ImportDependency
    \/ protect_dependencies
    \/ \E l \in Loggers, line \in Lines, exc \in Failures \cup {<<>>} : LogLine(l, line, exc)
    \/ \E l \in Own, p \in Payloads : LogPayload(l, p)
    \/ \E f \in Frames : LogFrame(f)
    \/ \E r \in records, done \in BOOLEAN : ReadRecord(r, done)
    \/ \E r \in records : _redact_frame(r)
    \/ \E line \in Lines, b \in Bounds : Cut(line, b)

Spec == Init /\ [][Next]_vars

----------------------------------------------------------------------------
(* Properties.                                                             *)

\* The registry keeps exactly the values it promises: of each label the last
\* ones handed in, however often and in whatever order they were, and every
\* account (the cap counts values, and an account is never dropped).
LastOnesKept ==
    {<<v, l>> \in Values \X Labels : v \in ToSet(_registered[l])} = Known(given)

\* The compiled pattern is never older than the registry.
PatternFresh == _pattern # NoPattern => _pattern = AllOf(_registered)

\* Whoever reads a record - a caller's filter, a handler, a formatter that
\* prints the exception - reads every value known by then replaced whole, in
\* whatever spelling, and every other text and longer number as it was.
RecordsReadSafe ==
    \A r \in last : r.cut = 0 /\ Plain(r.line, r.known) => r.text \in SafeTexts(r.line, r.known)

\* What a helper cuts to its bound is the head of the whole text redacted: no
\* value that straddles the cut leaves its head.
CutsReadSafe ==
    \A r \in last : r.cut > 0 /\ Plain(r.line, r.known) =>
        \E t \in SafeTexts(r.line, r.known) :
            r.text = SubSeq(t, 1, IF Len(t) < r.cut THEN Len(t) ELSE r.cut)

\* A frame reads as websockets elides the redacted text, the accounts it names
\* itself included, and a fragment is not shown.
FramesReadSafe ==
    \A r \in last : r.cut = -1 /\ Plain(r.line, r.known) =>
        \/ r.text = <<"fragment">>
        \/ \E t \in SafeTexts(r.line, r.known) : r.text = Elided(t)

\* A string right under a secret key is never read in a payload the library
\* logged, registered or not, however deep it is.
NamedNeverRead ==
    \A r \in last : \A text \in r.hidden :
        \A at \in DOMAIN r.text : ~Occurs(r.text, at, text)

\* Nothing that was registered is read in a log, wherever it is read.
NothingRegisteredRead ==
    /\ LastOnesKept /\ PatternFresh /\ RecordsReadSafe /\ CutsReadSafe
    /\ FramesReadSafe /\ NamedNeverRead

=============================================================================
