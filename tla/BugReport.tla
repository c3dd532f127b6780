----------------------------- MODULE BugReport -----------------------------
(***************************************************************************)
(* schwaby/debug.py: once enable_bug_report_logging has been called, every *)
(* line the library logs is recorded as it is, every successful response   *)
(* is walked for values under keys worth hiding, and at exit the lines are *)
(* written with each of those values replaced, one after the other, by a   *)
(* placeholder that is text like the rest: a value is searched for in the  *)
(* placeholders of those before it too. Texts, keys and values are         *)
(* sequences of characters; a value is what str makes of the leaf, so a    *)
(* number gives its digits and an empty text is a value.                   *)
(***************************************************************************)
EXTENDS Integers, Sequences, FiniteSets, SequencesExt

CONSTANTS
    Responses,      \* what the venue answers: status, body, leaves
    BadKeys,        \* keys that hold one of bad_patterns; none ends in a
                    \* dash and digits
    Whitelisted,    \* keys left alone all the same
    Lines,          \* what the library logs: sequences of characters
    MaxMessages     \* bound: lines recorded

VARIABLES
    collecting,     \* _COLLECT_RESPONSE_REDACTIONS
    redacted_strings, \* the strings in the order they were registered, each
                    \* with its label and its number under that label
    label_counts,   \* label -> strings registered under it, at most nine
    messages,       \* what the handler recorded
    stream,         \* whether the stream the report goes to is open
    report,         \* the report written last
    secrets         \* what responses since then held under such keys

vars == <<collecting, redacted_strings, label_counts, messages, stream, report, secrets>>

NoReport == [lines |-> <<>>, of |-> <<>>, secrets |-> {}, placeholders |-> {}]

\* '-'.join: two paths may have one label.
Label(path) == FoldLeft(LAMBDA text, key : text \o <<"-">> \o key, Head(path), Tail(path))

Labels == {Label(leaf.path) : leaf \in UNION {ToSet(r.leaves) : r \in Responses}}

Init ==
    /\ collecting = FALSE
    /\ redacted_strings = <<>>
    /\ label_counts = [l \in Labels |-> 0]
    /\ messages = <<>>
    /\ stream = "open"
    /\ report = NoReport
    /\ secrets = {}

\* Calling it again adds a handler, whose report is the same.
enable_bug_report_logging ==
    /\ collecting' = TRUE
    /\ UNCHANGED <<redacted_strings, label_counts, messages, stream, report, secrets>>

----------------------------------------------------------------------------
(* Collecting.                                                             *)

\* The strings and the counts after a string is registered under a label.
register(strings, counts, string, label) ==
    IF \E i \in DOMAIN strings : strings[i].string = string
    THEN [strings |-> strings, counts |-> counts]
    ELSE [counts |-> [counts EXCEPT ![label] = @ + 1],
          strings |-> Append(strings, [string |-> string, label |-> label,
                                       count |-> counts[label] + 1])]

\* Every leaf under a key worth hiding, the leaf of a list under its index.
Hidden(path) == Last(path) \in BadKeys \ Whitelisted

register_redactions(leaves) ==
    LET after[n \in 0 .. Len(leaves)] ==
            IF n = 0 THEN [strings |-> redacted_strings, counts |-> label_counts]
            ELSE IF ~Hidden(leaves[n].path) THEN after[n - 1]
            ELSE register(after[n - 1].strings, after[n - 1].counts,
                          leaves[n].value, Label(leaves[n].path))
    IN  after[Len(leaves)]

register_redactions_from_response(response) ==
    LET taken == collecting /\ response.ok /\ response.json
        after == register_redactions(response.leaves)
    IN  /\ taken
        /\ redacted_strings' = after.strings
        /\ label_counts' = after.counts
        /\ secrets' = secrets \cup
               {leaf.value : leaf \in {l \in ToSet(response.leaves) :
                    Last(l.path) \in BadKeys /\ Last(l.path) \notin Whitelisted}}
        /\ UNCHANGED <<collecting, messages, stream, report>>

----------------------------------------------------------------------------
(* Writing.                                                                *)

Occurs(string, text) ==
    \E at \in 1 .. Len(text) + 1 - Len(string) :
        SubSeq(text, at, at + Len(string) - 1) = string

\* str.replace: every occurrence, from the left; the empty string stands
\* before every character and at the end.
Replace_Once(text, string, placeholder) ==
    IF string = <<>> THEN placeholder \o text
    ELSE IF ~Occurs(string, text) THEN text
    ELSE LET at == CHOOSE i \in DOMAIN text :
                /\ SubSeq(text, i, i + Len(string) - 1) = string
                /\ ~Occurs(string, SubSeq(text, 1, i + Len(string) - 2))
         IN  SubSeq(text, 1, at - 1) \o placeholder
                \o SubSeq(text, at + Len(string), Len(text))
Replace(text, string, placeholder) ==
    LET rest[at \in 1 .. Len(text) + Len(string)] ==
            IF at > Len(text) THEN <<>>
            ELSE IF /\ at + Len(string) - 1 <= Len(text)
                    /\ SubSeq(text, at, at + Len(string) - 1) = string
            THEN placeholder \o rest[at + Len(string)]
            ELSE <<text[at]>> \o rest[at + 1]
    IN  IF string = <<>>
        THEN FoldLeft(LAMBDA new, c : new \o <<c>> \o placeholder, placeholder, text)
        ELSE IF Occurs(string, text) THEN rest[1] ELSE text

\* '<REDACTED label-N>', the first word cut to its first letter; the number
\* is left out while a label has one string.
Placeholder(entry) ==
    <<"<", "R", " ">> \o entry.label
        \o (IF label_counts[entry.label] > 1 THEN <<"-", ToString(entry.count)>> ELSE <<>>)
        \o <<">">>

\* Each string in the order they were registered, over what the others left.
redact(text) ==
    LET after[n \in 0 .. Len(redacted_strings)] ==
            IF n = 0 THEN text
            ELSE Replace(after[n - 1], redacted_strings[n].string,
                         Placeholder(redacted_strings[n]))
    IN  after[Len(redacted_strings)]

\* A line is recorded as it is: what it must not show may come later.
emit(line) ==
    /\ collecting
    /\ Len(messages) < MaxMessages
    /\ messages' = Append(messages, line)
    /\ UNCHANGED <<collecting, redacted_strings, label_counts, stream, report, secrets>>

CloseStream ==
    /\ stream = "open"
    /\ stream' = "closed"
    /\ UNCHANGED <<collecting, redacted_strings, label_counts, messages, report, secrets>>

\* At exit, or when the caller asks; nothing is written to a closed stream.
write_logs ==
    /\ collecting
    /\ stream = "open"
    /\ report' = [lines |-> [i \in DOMAIN messages |-> redact(messages[i])],
                  of |-> messages, secrets |-> secrets,
                  placeholders |-> {Placeholder(e) : e \in ToSet(redacted_strings)}]
    /\ UNCHANGED <<collecting, redacted_strings, label_counts, messages, stream, secrets>>

Next ==
    \/ enable_bug_report_logging
    \/ \E r \in Responses : register_redactions_from_response(r)
    \/ \E line \in Lines : emit(line)
    \/ CloseStream
    \/ write_logs

Spec == Init /\ [][Next]_vars

----------------------------------------------------------------------------
(* Properties.                                                             *)

\* What replacing can keep out of a text: a value that is not empty, holds no
\* bracket of a placeholder, and stands in none of the placeholders. Short
\* values, such as the digit of an id or a letter of REDACTED, do.
Removable(string, placeholders) ==
    /\ string # <<>>
    /\ "<" \notin ToSet(string) /\ ">" \notin ToSet(string)
    /\ \A p \in placeholders : ~Occurs(string, p)

\* No value a response held under such a key and that replacing can keep out
\* stands in the report, the lines recorded before that response included and
\* whatever else was registered before or after it.
ReportClean ==
    \A i \in DOMAIN report.lines, s \in report.secrets :
        Removable(s, report.placeholders) => ~Occurs(s, report.lines[i])

\* A line none of them stands in is written as it was.
OrdinaryKept ==
    \A i \in DOMAIN report.lines :
        (\A s \in report.secrets : ~Occurs(s, report.of[i])) => report.lines[i] = report.of[i]

\* Two values that are hidden are given two placeholders, also under two
\* paths that have one label.
PlaceholdersApart ==
    \A i, j \in DOMAIN redacted_strings :
        i # j => Placeholder(redacted_strings[i]) # Placeholder(redacted_strings[j])

\* What the report hides, leaves and tells apart, of texts that str.replace
\* can tell from one another.
ReportIsSafe == ReportClean /\ OrdinaryKept /\ PlaceholdersApart

=============================================================================
