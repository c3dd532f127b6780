---------------------------- MODULE ActivityFeed ----------------------------
(***************************************************************************)
(* What schwaby/contrib/util.py makes of the account activity the stream   *)
(* sends: HeuristicJsonDecoder reads a frame, parse_message_data the text  *)
(* in it, and decode_decimal each amount, which arrives as an object of a  *)
(* mantissa and a packed scale and sign, zero members left out.  The venue *)
(* may change the keys it writes, send other objects and bare values, and  *)
(* damage what it sends; a caller decodes every value it meets.            *)
(***************************************************************************)
EXTENDS Integers, Sequences, FiniteSets, SequencesExt

CONSTANTS
    Bits,           \* the width of a member of three (32); three of them are
                    \* the width of a mantissa (96)
    Mantissas,      \* the mantissas it writes
    Scales,         \* the scales it writes (0 .. 28)
    MaxSignScale,   \* MAX_SIGN_SCALE (64)
    MaxExponent,    \* MAX_EXPONENT (64)
    MaxReportedKeys,\* _MAX_REPORTED_KEYS (32)
    NewKeys,        \* names a new version of the venue may write
    MaxValue        \* bound: values decoded

VARIABLES
    last,       \* the last value: what the venue meant, and what was decoded
    reported,   \* _reported_keys
    named,      \* the keys named in the log, in order
    met,        \* new keys met in decimal objects
    count       \* values decoded

vars == <<last, reported, named, met, count>>

None == -1
Odd == -2       \* a member that is not an integer or a string of ASCII digits

----------------------------------------------------------------------------
(* Numbers, and decimal objects: pairs of a key and a member.              *)

\* (-1)^negative * mantissa * 10^-scale
Number(mantissa, scale, negative) ==
    [ok |-> TRUE, mantissa |-> mantissa, scale |-> scale, negative |-> negative]
Zero == Number(0, 0, FALSE)
UnusableDecimalScale == [ok |-> FALSE, mantissa |-> 0, scale |-> 0, negative |-> FALSE]

_DECIMAL_KEYS == {"lo", "mid", "hi", "signScale"}

Keys(pairs) == {pairs[i].key : i \in DOMAIN pairs}
Get(pairs, key) ==
    IF key \in Keys(pairs)
    THEN pairs[CHOOSE i \in DOMAIN pairs : pairs[i].key = key].member
    ELSE None

\* Whether a member is unsigned and that wide.
_unsigned(member, bits) == member \in 0 .. 2 ^ bits - 1

\* The members of the layout the object has, and how wide each is: lo alone
\* carries the whole mantissa, and with mid or hi each is one of three.
Whole(pairs) == Get(pairs, "mid") = None /\ Get(pairs, "hi") = None

Mantissa(pairs) ==
    LET part(key, shift) == IF Get(pairs, key) = None THEN 0
                            ELSE Get(pairs, key) * 2 ^ (shift * Bits)
        usable(key, bits) == Get(pairs, key) = None \/ _unsigned(Get(pairs, key), bits)
    IN  [ok |-> IF Whole(pairs) THEN usable("lo", 3 * Bits)
                ELSE \A key \in {"lo", "mid", "hi"} : usable(key, Bits),
         value |-> part("lo", 0) + part("mid", 1) + part("hi", 2)]

Twice(pairs) == Cardinality(Keys(pairs)) # Len(pairs)
Unknown(pairs) == Keys(pairs) \ _DECIMAL_KEYS

decode_decimal_Around(pairs) ==
    LET scale == IF Get(pairs, "signScale") = None THEN 0 ELSE Get(pairs, "signScale")
    IN  IF \/ Twice(pairs)
           \/ Unknown(pairs) # {} /\ ~{"lo", "signScale"} \subseteq Keys(pairs)
           \/ scale \notin 0 .. MaxSignScale \/ ~Mantissa(pairs).ok
        THEN UnusableDecimalScale
        ELSE Number(Mantissa(pairs).value, scale \div 2,
                    scale % 2 = 1 /\ Mantissa(pairs).value # 0)
decode_decimal(pairs) ==
    LET scale == IF Get(pairs, "signScale") = None THEN 0 ELSE Get(pairs, "signScale")
    IN  IF \/ Twice(pairs)
           \/ Unknown(pairs) # {}
           \/ ~_unsigned(scale, Bits) \/ scale > MaxSignScale
        THEN UnusableDecimalScale
        ELSE IF \A key \in {"lo", "mid", "hi"} : Get(pairs, key) = None
        THEN Zero
        ELSE IF Mantissa(pairs).ok
        THEN Number(Mantissa(pairs).value, scale \div 2, scale % 2 = 1)
        ELSE UnusableDecimalScale

\* The keys to name in the log: of an object that is a decimal one otherwise,
\* those not named before, as many as there is room for.
_report_unknown_keys(pairs) ==
    LET fresh == Unknown(pairs) \ reported
        room == MaxReportedKeys - Cardinality(reported)
    IN  IF Twice(pairs) \/ Keys(pairs) \cap _DECIMAL_KEYS = {} \/ room <= 0 THEN {}
        ELSE CHOOSE some \in SUBSET fresh :
                Cardinality(some) = IF Cardinality(fresh) < room
                                    THEN Cardinality(fresh) ELSE room

\* A value that is not an object: an int, a float, a Decimal or a string,
\* with the places of its last and its first digit.
Bare(kind, plain, finite, low, high) ==
    [kind |-> kind, plain |-> plain, finite |-> finite, low |-> low, high |-> high]
_decode_bare(b) ==
    /\ b.kind \in {"number", "str"}
    /\ b.kind = "str" => b.plain
    /\ b.finite
    /\ -MaxExponent <= b.low /\ b.high <= MaxExponent

----------------------------------------------------------------------------
(* Text: MESSAGE_DATA, in a frame.  Around what it holds are white space,  *)
(* format and control characters ("bom"), and other characters that render *)
(* as nothing ("mark").                                                    *)

Text(before, holds, after) == [before |-> before, holds |-> holds, after |-> after]

\* What is left in front of the first visible character: str.strip takes the
\* white space at both ends, then characters of the skipped categories go.
parse_message_data(t) ==
    IF t.holds = "nothing" /\ ToSet(t.before \o t.after) \subseteq {"space"} THEN "None"
    ELSE IF "mark" \in ToSet(t.before) \/ t.holds \in {"nothing", "prose"} THEN "text"
    ELSE IF t.holds = "object" /\ ToSet(t.after) \subseteq {"space"} THEN "dict"
    ELSE "UnparsableMessageData"

\* A frame whose escapes are right, doubled once, or beyond repair.
decode_json_string(frame) ==
    frame.escapes = "right" \/ (frame.escapes = "doubled" /\ ~frame.bytes)

----------------------------------------------------------------------------
(* The venue.                                                              *)

Pair(key, member) == [key |-> key, member |-> member]
Word(mantissa, i) == (mantissa \div 2 ^ (i * Bits)) % 2 ^ Bits

\* Written as one mantissa or as three words, zeros left out.
Written(v, whole) ==
    SelectSeq(
        (IF whole THEN <<Pair("lo", v.mantissa)>>
         ELSE <<Pair("lo", Word(v.mantissa, 0)), Pair("mid", Word(v.mantissa, 1)),
                Pair("hi", Word(v.mantissa, 2))>>)
        \o <<Pair("signScale", 2 * v.scale + (IF v.negative THEN 1 ELSE 0))>>,
        LAMBDA p : p.member # 0)

\* A later version renames a key, and may keep the old one at zero.
Renamed(pairs, key, new, keep) ==
    [i \in DOMAIN pairs |-> IF pairs[i].key = key THEN Pair(new, pairs[i].member)
                            ELSE pairs[i]]
    \o (IF keep /\ key \in Keys(pairs) THEN <<Pair(key, 0)>> ELSE <<>>)

\* One member arrives as something else, or too wide for its place.
Damaged(pairs, key, wide) ==
    [i \in DOMAIN pairs |->
        IF pairs[i].key # key THEN pairs[i]
        ELSE Pair(key, IF ~wide THEN Odd
                       ELSE IF key = "signScale" THEN MaxSignScale + 1
                       ELSE IF Whole(pairs) THEN 2 ^ (3 * Bits) ELSE 2 ^ Bits)]

Values(mantissas) == {Number(m, s, n) : m \in mantissas, s \in Scales, n \in BOOLEAN}

----------------------------------------------------------------------------
(* The caller decodes what it is sent.                                     *)

Nothing == [of |-> "nothing", meant |-> UnusableDecimalScale, got |-> UnusableDecimalScale]

Decode(pairs, meant, intact) ==
    LET new == _report_unknown_keys(pairs)
    IN  /\ count < MaxValue /\ count' = count + 1
        /\ last' = [of |-> IF intact THEN "intact" ELSE "object", meant |-> meant,
                    got |-> decode_decimal(pairs)]
        /\ reported' = reported \cup new
        /\ named' = named \o SetToSeq(new)
        /\ met' = IF Keys(pairs) \cap _DECIMAL_KEYS # {} /\ ~Twice(pairs)
                  THEN met \cup Unknown(pairs) ELSE met

Intact(v, whole) == Decode(Written(v, whole), v, TRUE)

Changed(v, whole, key, new, keep) ==
    Decode(Renamed(Written(v, whole), key, new, keep), v, FALSE)

Extended(v, whole, new) ==
    Decode(Written(v, whole) \o SetToSeq({Pair(n, 1) : n \in new}), v, FALSE)

Corrupt(v, whole, key, wide) ==
    /\ key \in Keys(Written(v, whole))
    /\ Decode(Damaged(Written(v, whole), key, wide), UnusableDecimalScale, FALSE)

Repeated(v, whole) ==
    /\ Written(v, whole) # <<>>
    /\ Decode(Written(v, whole) \o <<Pair(Written(v, whole)[1].key, 1)>>,
              UnusableDecimalScale, FALSE)

\* An object that is not a decimal at all.
Unrelated(keys) ==
    Decode(SetToSeq({Pair(k, 1) : k \in keys}), UnusableDecimalScale, FALSE)

BareValue(b, meant) ==
    /\ count < MaxValue /\ count' = count + 1
    /\ last' = [of |-> "bare", meant |-> meant,
                got |-> IF _decode_bare(b) THEN Number(1, 0, FALSE) ELSE UnusableDecimalScale]
    /\ UNCHANGED <<reported, named, met>>

Received(t, frame) ==
    /\ count < MaxValue /\ count' = count + 1
    /\ last' = [of |-> "text", meant |-> [text |-> t, frame |-> frame],
                got |-> IF decode_json_string(frame) THEN parse_message_data(t)
                        ELSE "JSONDecodeError"]
    /\ UNCHANGED <<reported, named, met>>

Init ==
    /\ last = Nothing /\ reported = {} /\ named = <<>> /\ met = {} /\ count = 0

Next ==
    \/ \E v \in Values(Mantissas), whole \in BOOLEAN :
        \/ Intact(v, whole)
        \/ \E key \in _DECIMAL_KEYS, new \in NewKeys, keep \in BOOLEAN :
              Changed(v, whole, key, new, keep)
        \/ \E new \in SUBSET NewKeys \ {{}} : Extended(v, whole, new)
        \/ \E key \in _DECIMAL_KEYS, wide \in BOOLEAN : Corrupt(v, whole, key, wide)
        \/ Repeated(v, whole)
    \/ \E keys \in SUBSET (NewKeys \cup {"AccountNumber"}) \ {{}} : Unrelated(keys)
    \/ \E kind \in {"number", "str", "bool", "other"}, plain, finite \in BOOLEAN,
          low, high \in {-MaxExponent - 1, -MaxExponent, 0, MaxExponent, MaxExponent + 1} :
          /\ low <= high
          /\ BareValue(Bare(kind, plain, finite, low, high),
                       IF /\ kind \in {"number", "str"} /\ (kind = "str" => plain) /\ finite
                          /\ low >= -MaxExponent /\ high <= MaxExponent
                       THEN Number(1, 0, FALSE) ELSE UnusableDecimalScale)
    \/ \E before \in SeqOf({"space", "bom", "mark"}, 2), after \in SeqOf({"space", "bom"}, 1),
          holds \in {"nothing", "prose", "object", "truncated"},
          frame \in [bytes : BOOLEAN, escapes : {"right", "doubled", "broken"}] :
          /\ Len(before) + Len(after) <= 2
          /\ Received(Text(before, holds, after), frame)

Spec == Init /\ [][Next]_vars

----------------------------------------------------------------------------
(* Properties                                                              *)

Decimal == last.of \in {"intact", "object", "bare"}

\* No wrong number: what decode_decimal returns is the number the venue
\* meant, whichever layout it used, whatever key it renamed or added since,
\* and nothing that was damaged or is not a number becomes one.
NoWrongNumber ==
    Decimal /\ last.got.ok =>
        /\ last.meant.ok
        /\ last.got.mantissa = last.meant.mantissa
        /\ last.got.mantissa # 0 => last.got = last.meant

\* Every amount of the known schema is read, in either layout, the widest
\* included; zero is read as zero, and never prints as a negative quantity.
Readable ==
    last.of = "intact" =>
        /\ last.got.ok
        /\ last.got.mantissa = 0 => ~last.got.negative

\* A key the venue adds is named in the log, once, unless the limit was
\* reached; objects that are not decimal ones take no room from it.
NewKeyNamed ==
    /\ IsInjective(named)
    /\ reported \subseteq met
    /\ Cardinality(met) <= MaxReportedKeys => met \subseteq reported

\* A payload, whole or cut off, is never taken for a notice, and a notice
\* never raises, whatever invisible characters surround it.
PayloadIsNotNotice ==
    last.of = "text" =>
        LET t == last.meant.text
        IN  /\ t.holds \in {"object", "truncated"} /\ ToSet(t.before) \subseteq {"space", "bom"}
                => last.got # "text"
            /\ t.holds = "prose" /\ last.meant.frame.escapes = "right" => last.got = "text"
            /\ last.got = "dict" => t.holds = "object"

\* What the venue reports of an account is read as it was meant, or not at all.
ReadAsMeant == NoWrongNumber /\ Readable /\ NewKeyNamed /\ PayloadIsNotNotice

=============================================================================
