------------------------------- MODULE Scalars -------------------------------
(***************************************************************************)
(* Text of ints, uints and runes (Yama/yama/scalars.cpp and                *)
(* Yama/internal/scalar-utils.cpp): the length of a value's text, the      *)
(* text, and what is read from the front of a text.                        *)
(*                                                                         *)
(* A text is a sequence of ASCII codes. Ints and uints have Bits bits. A   *)
(* signed overflow, which is undefined in the code, wraps; nothing is said *)
(* of a text that has one.                                                 *)
(***************************************************************************)
EXTENDS Integers, Sequences, SequencesExt

CONSTANT Bits       \* of a YmInt and a YmUInt: 64

ASSUME BitsAssumption == Bits \in Nat \ {0}

Modulus == 2 ^ Bits
Ints == -(2 ^ (Bits - 1)) .. 2 ^ (Bits - 1) - 1
UInts == 0 .. Modulus - 1

AsUInt(x) == x % Modulus
AsInt(x) == ((x + 2 ^ (Bits - 1)) % Modulus) - 2 ^ (Bits - 1)
Wrapped(signed, x) == IF signed THEN AsInt(x) ELSE AsUInt(x)

Minus == 45     Zero == 48      Underscore == 95    Backslash == 92
LowerB == 98    LowerU == 117   LowerX == 120       UpperU == 85
Quote == 39     DblQuote == 34
Unwritten == -1

digit(v, uppercase) == IF v < 10 THEN 48 + v ELSE (IF uppercase THEN 55 ELSE 87) + v

\* where_in_set; what is no digit is 16.
digitValue(c) ==
    CASE c \in 48 .. 57  -> c - 48
      [] c \in 65 .. 70  -> c - 55
      [] c \in 97 .. 102 -> c - 87
      [] OTHER -> 16

----------------------------------------------------------------------------
\* Formatting ints and uints: YmIntFmt.

IntFmts == {[base |-> 10, prefix |-> <<>>],
            [base |-> 16, prefix |-> <<Zero, LowerX>>],
            [base |-> 2, prefix |-> <<Zero, LowerB>>]}

digitsOf(x, base) ==
    LET of[v \in Nat] == IF v < base THEN <<v>> ELSE Append(of[v \div base], v % base)
    IN  of[x]

measureUIntGeneric(x, fmt, suffix) == Len(digitsOf(x, fmt.base)) + Len(suffix) + Len(fmt.prefix)

\* Fault: the sign is not counted.
MeasureUnsigned(x, fmt) == measureUIntGeneric(AsUInt(IF x >= 0 THEN x ELSE -x), fmt, <<>>)

measureIntGeneric(x, fmt) ==
    IF x >= 0 THEN measureUIntGeneric(AsUInt(x), fmt, <<>>)
              ELSE measureUIntGeneric(AsUInt(-x), fmt, <<>>) + 1

\* The buffer of the measured size is written from its end.
fmtUIntGeneric(size, x, fmt, uppercase, suffix) ==
    LET digits == digitsOf(x, fmt.base)
        chars == fmt.prefix \o [i \in DOMAIN digits |-> digit(digits[i], uppercase)] \o suffix
    IN  [i \in 1 .. size |-> LET at == i + Len(chars) - size
                             IN  IF at \in DOMAIN chars THEN chars[at] ELSE Unwritten]

fmtIntGeneric(size, x, fmt, uppercase) ==
    IF x >= 0 THEN fmtUIntGeneric(size, AsUInt(x), fmt, uppercase, <<>>)
              ELSE <<Minus>> \o fmtUIntGeneric(size - 1, AsUInt(-x), fmt, uppercase, <<>>)

ymInt_Fmt(x, fmt, uppercase) == fmtIntGeneric(measureIntGeneric(x, fmt), x, fmt, uppercase)

ymUInt_Fmt(x, fmt, uppercase) ==
    fmtUIntGeneric(measureUIntGeneric(x, fmt, <<LowerU>>), x, fmt, uppercase, <<LowerU>>)

----------------------------------------------------------------------------
\* Parsing ints and uints. The parser is [status, output, at, stage], at being
\* the number of characters it has consumed.

Parsed(status, output, bytes) == [status |-> status, output |-> output, bytes |-> bytes]
Failure == Parsed("failure", 0, -1)

\* The next digit, and the check for an overflow: the value went the wrong way.
incorporate(s, v, base, signed, negated) ==
    LET next == Wrapped(signed, s.output * base + (IF negated THEN -v ELSE v))
    IN  [s EXCEPT !.output = next,
                  !.status = IF ~negated /\ next < s.output THEN "overflow"
                             ELSE IF negated /\ next > s.output THEN "underflow"
                             ELSE @]

\* Fault: the last digit may be followed by an underscore.
TrailingUnderscore(s, text, base, signed, negated) ==
    LET Read(r, c) ==
            CASE r.stage = "end" -> r
              [] r.stage = "digits" /\ c = Underscore -> [r EXCEPT !.at = @ + 1]
              [] digitValue(c) < base -> [incorporate(r, digitValue(c), base, signed, negated) EXCEPT !.at = @ + 1]
              [] OTHER -> [r EXCEPT !.stage = "end"]
    IN  FoldLeft(Read, s, SubSeq(text, s.at + 1, Len(text)))

\* An underscore is to be followed by a digit.
parseDigits(s, text, base, signed, negated) ==
    LET Read(r, c) ==
            CASE r.stage \in {"end", "fail"} -> r
              [] r.stage = "digits" /\ c = Underscore -> [r EXCEPT !.stage = "need digit", !.at = @ + 1]
              [] digitValue(c) < base ->
                    [incorporate(r, digitValue(c), base, signed, negated) EXCEPT !.stage = "digits", !.at = @ + 1]
              [] OTHER -> [r EXCEPT !.stage = IF @ = "need digit" THEN "fail" ELSE "end"]
        end == FoldLeft(Read, s, SubSeq(text, s.at + 1, Len(text)))
    IN  [end EXCEPT !.stage = IF @ = "need digit" THEN "fail" ELSE @]

\* The number after the sign, if there is one: its radix, then its digits, of which
\* the first comes before any underscore.
parseNumber(text, signed, negated) ==
    LET start == IF negated THEN 1 ELSE 0
        CharAt(i) == IF i \in DOMAIN text THEN text[i] ELSE Unwritten
        zero == CharAt(start + 1) = Zero
        base == IF zero /\ CharAt(start + 2) = LowerX THEN 16
                ELSE IF zero /\ CharAt(start + 2) = LowerB THEN 2 ELSE 10
        at == start + (IF base # 10 THEN 2 ELSE IF zero THEN 1 ELSE 0)
        reasonable == (base = 10 /\ zero) \/ digitValue(CharAt(at + 1)) < base
        end == parseDigits([status |-> "success", output |-> 0, at |-> at, stage |-> "digits"],
                           text, base, signed, negated)
    IN  [end EXCEPT !.stage = IF reasonable THEN @ ELSE "fail"]

parseInt(text) ==
    LET negated == text # <<>> /\ text[1] = Minus
        number == parseNumber(text, TRUE, negated)
    IN  IF number.stage = "fail" THEN Failure
        ELSE Parsed(number.status, number.output, number.at)

parseUInt(text, ignoreU) ==
    LET number == parseNumber(text, FALSE, FALSE)
        suffixed == number.at < Len(text) /\ text[number.at + 1] = LowerU
    IN  IF number.stage = "fail" \/ ~(ignoreU \/ suffixed) THEN Failure
        ELSE Parsed(number.status, number.output, number.at + (IF ignoreU THEN 0 ELSE 1))

----------------------------------------------------------------------------
\* Runes. "\0\a\b\f\n\r\t\v", and the letters that stand for them.
EscapeSeqChars == <<0, 7, 8, 12, 10, 13, 9, 11>>
EscapeLetters == <<48, 97, 98, 102, 110, 114, 116, 118>>

isVisibleAscii(x) == x \in 33 .. 126
Escaped(x, flags) ==
    \/ x = Quote /\ flags.quotes
    \/ x = DblQuote /\ flags.dblQuotes
    \/ x = Backslash /\ flags.backslashes

ymRune_Measure(x, flags) ==
    CASE Escaped(x, flags) \/ Contains(EscapeSeqChars, x) -> 2
      [] isVisibleAscii(x) -> 1
      [] x <= 255 -> 4
      [] x <= 65535 -> 6
      [] x <= 1114111 -> 10
      [] OTHER -> 6

resolveHex(x, n, uppercase) == [i \in 1 .. n |-> digit((x \div 16 ^ (n - i)) % 16, uppercase)]

\* format_to_n cuts the text off at the measured size.
ymRune_Fmt(x, flags, uppercase) ==
    LET size == ymRune_Measure(x, flags)
        Hex(letter, y, n) == <<Backslash, letter>> \o resolveHex(y, n, uppercase)
        chars ==
            CASE x \in {Quote, DblQuote, Backslash} -> IF Escaped(x, flags) THEN <<Backslash, x>> ELSE <<x>>
              [] Contains(EscapeSeqChars, x) ->
                    <<Backslash, EscapeLetters[CHOOSE i \in 1 .. 8 : EscapeSeqChars[i] = x]>>
              [] isVisibleAscii(x) -> <<x>>
              [] x <= 255 -> Hex(LowerX, x, 2)
              [] x <= 65535 -> Hex(LowerU, x, 4)
              [] x <= 1114111 -> Hex(UpperU, x, 8)
              [] OTHER -> Hex(LowerU, 65533, 4)
    IN  SubSeq(chars, 1, IF size < Len(chars) THEN size ELSE Len(chars))

\* A backslash before anything else stands for what follows it, be it the letter of
\* a hex sequence that has too few digits.
parseRune(text) ==
    LET escaped == text[2]
        n == CASE escaped = LowerX -> 2 [] escaped = LowerU -> 4 [] escaped = UpperU -> 8 [] OTHER -> 0
        hex == [i \in 1 .. n |-> IF i + 2 \in DOMAIN text THEN digitValue(text[i + 2]) ELSE 16]
        WithDigit(value, v) == value * 16 + v
    IN  CASE text = <<>> -> Failure
          [] text[1] # Backslash -> Parsed("success", text[1], 1)
          [] Len(text) = 1 -> Failure
          [] Contains(EscapeLetters, escaped) ->
                Parsed("success", EscapeSeqChars[CHOOSE i \in 1 .. 8 : EscapeLetters[i] = escaped], 2)
          [] n > 0 /\ ~Contains(hex, 16) -> Parsed("success", FoldLeft(WithDigit, 0, hex), 2 + n)
          [] OTHER -> Parsed("success", escaped, 2)
================================================================================
