--------------------------- MODULE OptionSymbols ---------------------------
(***************************************************************************)
(* OptionSymbol of schwaby/orders/options.py: made from a root, an         *)
(* expiration, a contract type and a strike, written as one text with a    *)
(* fixed place for each, and read from such a text.  Texts are sequences   *)
(* of characters; a strike is the integer its digits make and how many of  *)
(* them stand after the point.  Only leap years occur.                     *)
(***************************************************************************)
EXTENDS Integers, Sequences, FiniteSets, SequencesExt

CONSTANTS
    RootWidth,      \* characters of a root in a symbol (6)
    StrikeWidth,    \* digits of a strike in a symbol (8)
    Places,         \* how many of them stand after the point (3)
    Roots,          \* roots of listed options
    DateTexts,      \* expirations a caller may write, and dates as strftime does
    Strikes,        \* strikes a caller may write
    Texts           \* texts a caller may ask to be read

VARIABLES
    asked,      \* what the last option was made from, or NoOption
    option,     \* the OptionSymbol, or NoOption if it was refused
    text        \* the text read or written last

vars == <<asked, option, text>>

NoOption == [root |-> <<>>, date |-> <<>>, type |-> "", strike |-> [digits |-> 0, places |-> 0]]
Refused == NoOption

Digits == <<"0", "1", "2", "3", "4", "5", "6", "7", "8", "9">>
IsDigits(t) == \A i \in DOMAIN t : t[i] \in ToSet(Digits)
Num(t) == FoldLeft(LAMBDA n, c : 10 * n + SelectInSeq(Digits, LAMBDA d : d = c) - 1, 0, t)
Padded(n, width) ==
    LET least == CHOOSE w \in width .. width + 9 :
                    n < 10 ^ w /\ (w = width \/ n >= 10 ^ (w - 1))
    IN  [i \in 1 .. least |-> Digits[((n \div 10 ^ (least - i)) % 10) + 1]]

----------------------------------------------------------------------------
(* Expirations.                                                            *)

DaysIn(month) == IF month = 2 THEN 29 ELSE IF month \in {4, 6, 9, 11} THEN 30 ELSE 31

\* What strptime takes for a month and for a day: two digits, or one alone.
Months == {Padded(m, 2) : m \in 1 .. 12} \cup {Padded(m, 1) : m \in 1 .. 9}
Days == {Padded(d, 2) : d \in 1 .. 31} \cup {Padded(d, 1) : d \in 1 .. 9}

\* The splits of a text after its year, and the one strptime takes: a month of
\* two digits if what is left can be a day.
Splits(t) ==
    {n \in {1, 2} : /\ Len(t) >= 2 + n
                    /\ SubSeq(t, 3, 2 + n) \in Months
                    /\ SubSeq(t, 3 + n, Len(t)) \in Days}
_parse_expiration_date(t) ==
    LET n == CHOOSE k \in Splits(t) : \A l \in Splits(t) : l <= k
        month == Num(SubSeq(t, 3, 2 + n))
        day == Num(SubSeq(t, 3 + n, Len(t)))
    IN  IF ~IsDigits(t) \/ Splits(t) = {} \/ day > DaysIn(month) THEN <<>>
        ELSE <<Num(SubSeq(t, 1, 2)), month, day>>
strftime(date) == Padded(date[1], 2) \o Padded(date[2], 2) \o Padded(date[3], 2)

----------------------------------------------------------------------------
(* Making one.                                                             *)

Scaled(strike) == strike.digits * 10 ^ Places

\* A strike is refused if it is not positive, finer than a symbol can carry,
\* or too large for its digits.
Usable_Declared(strike) ==
    /\ strike.digits > 0
    /\ strike.digits * 10 ^ Places < 10 ^ (StrikeWidth + strike.places)
Usable(strike) ==
    /\ strike.digits > 0
    /\ Scaled(strike) % 10 ^ strike.places = 0
    /\ Scaled(strike) < 10 ^ (StrikeWidth + strike.places)

\* Zeros after the point are dropped if nothing else stands there.
Stripped(strike) ==
    IF strike.digits % 10 ^ strike.places = 0
    THEN [digits |-> strike.digits \div 10 ^ strike.places, places |-> 0]
    ELSE strike

OptionSymbol(root, date, type, strike) ==
    IF type \notin {"C", "P"} \/ _parse_expiration_date(date) = <<>> \/ ~Usable(strike)
    THEN Refused
    ELSE [root |-> root, date |-> _parse_expiration_date(date), type |-> type,
          strike |-> Stripped(strike)]

----------------------------------------------------------------------------
(* Writing and reading one.                                                *)

Spaces(n) == [i \in 1 .. n |-> " "]
build(o) ==
    o.root \o Spaces(IF Len(o.root) < RootWidth THEN RootWidth - Len(o.root) ELSE 0)
        \o strftime(o.date) \o <<o.type>>
        \o Padded(Scaled(o.strike) \div 10 ^ o.strike.places, StrikeWidth)

\* One character of a root at least, and only spaces after it.
IsRoot(t) ==
    /\ t[1] # " "
    /\ \A i \in 1 .. Len(t) - 1 : t[i] = " " => t[i + 1] = " "

parse_symbol(t) ==
    LET width == RootWidth + 6 + 1 + StrikeWidth
        root == SubSeq(t, 1, RootWidth)
        date == SubSeq(t, RootWidth + 1, RootWidth + 6)
        digits == SubSeq(t, RootWidth + 8, width)
    IN  IF Len(t) # width \/ ~IsRoot(root) \/ ~IsDigits(date) \/ ~IsDigits(digits)
        THEN Refused
        ELSE OptionSymbol(SelectSeq(root, LAMBDA c : c # " "), date, t[RootWidth + 7],
                          [digits |-> Num(digits), places |-> Places])

----------------------------------------------------------------------------

Init == asked = NoOption /\ option = NoOption /\ text = <<>>

\* Calls share nothing; each is made with the last one's option forgotten.
Fresh == asked = NoOption /\ text = <<>>
Forget == ~Fresh /\ asked' = NoOption /\ option' = NoOption /\ text' = <<>>

Construct(root, date, type, strike) ==
    /\ Fresh
    /\ asked' = [root |-> root, date |-> date, type |-> type, strike |-> strike]
    /\ option' = OptionSymbol(root, date, type, strike)
    /\ text' = IF option' = Refused THEN <<>> ELSE build(option')

ParseSymbol(t) ==
    /\ Fresh
    /\ asked' = NoOption
    /\ option' = parse_symbol(t)
    /\ text' = t

Next ==
    \/ \E r \in Roots, d \in DateTexts, c \in {"C", "P"}, s \in Strikes : Construct(r, d, c, s)
    \/ \E t \in Texts : ParseSymbol(t)
    \/ Forget

Spec == Init /\ [][Next]_vars

----------------------------------------------------------------------------
(* Properties.                                                             *)

Made == asked # NoOption /\ option # Refused
SameStrike(s, r) == s.digits * 10 ^ r.places = r.digits * 10 ^ s.places

\* Every option made names a real day and a positive strike.
RealOption ==
    option # NoOption =>
        /\ option.type \in {"C", "P"}
        /\ option.date[3] \in 1 .. DaysIn(option.date[2])
        /\ option.strike.digits > 0

\* The symbol of an option has the fixed width and reads back as that very
\* option, its strike the one asked for exactly.
BuiltReadsBack ==
    Made =>
        /\ Len(text) = RootWidth + 7 + StrikeWidth
        /\ LET back == parse_symbol(text)
           IN  /\ back.root = asked.root /\ back.type = asked.type
               /\ back.date = option.date
               /\ SameStrike(back.strike, asked.strike)

\* A text that is read at all is the symbol of what it was read as: no digit
\* has moved from one field into the next.
ReadAsWritten == asked = NoOption /\ option # Refused => build(option) = text

\* An option and its symbol say the same, whichever was there first.
SymbolsSaySame == RealOption /\ BuiltReadsBack /\ ReadAsWritten

=============================================================================
