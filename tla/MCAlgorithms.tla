------------------------------ MODULE MCAlgorithms ------------------------------
(***************************************************************************)
(* The algorithms that neither wait nor share anything, over small inputs: *)
(* tables of redirects built by calls of Redirects::add in every order,    *)
(* specifiers written part by part, pairs of a type and a protocol asked   *)
(* about under a table, arg packs, and texts of scalars, typed or          *)
(* formatted. A behaviour is about one of the five.                        *)
(***************************************************************************)
EXTENDS Conforming, Specifiers, ArgPacks, Scalars, MCWorld

CONSTANT MaxText        \* bound on the length of a text that is typed

VARIABLES text,         \* a text
          scalar        \* the scalar it was formatted from, or nothing

textVars == <<text, scalar>>
vars == <<askVars, specVars, packVars, textVars>>

----------------------------------------------------------------------------
\* "a", "b", "a/b" and "ab": one is a string prefix of two others.
MCPaths == {<<1>>, <<2>>, <<1, 0, 2>>, <<1, 2>>}

MCOperands == {a, At(a, V), At(a, Pair), At(<<HereId>>, Box), <<SelfId>>, <<Dollar(T)>>, At(a, 60)}
MCContinuations == {<<Slash, 2>>, <<Colon, V>>, <<DblColon, m>>}

\* The sessions are those of a type with an arg, and of the arg.
MCKnownTypes ==
    LET arg == MkType(b, V, <<>>, NoMember) IN {arg, MkType(a, Box, <<arg>>, NoMember)}

MCLoadedTypes == {MkType(a, V, <<>>, NoMember)} \cup Protos \cup Structs

----------------------------------------------------------------------------
\* A pack has no idle state: its first step is the one away from the smallest.
NoPack == packVars = <<0, 0, 0, <<>>, "naming", <<>>, <<>>>>
NoQuestion == table = NoRedirects /\ asked = <<>>
NoSpecifier == spec = <<>>
NoText == text = <<>>

Init ==
    /\ AskInit
    /\ SpecifierInit
    /\ NoText /\ scalar = <<>>
    /\ PackInit

\* A protocol is asked about under no redirect, or one between the paths of the two
\* parcels, and about the types of the other parcel.
Question ==
    /\ NoPack /\ NoSpecifier /\ NoText
    /\ \/ Redirect
       \/ /\ Cardinality(DOMAIN table) <= 1
          /\ \A k \in DOMAIN table : {k[1], k[2], table[k]} \subseteq {a, b} /\ k[2] # table[k]
          /\ \E type \in Structs, protocol \in Protocols : Ask(type, protocol)
    /\ UNCHANGED <<specVars, packVars, textVars>>

Write ==
    /\ NoPack /\ NoQuestion /\ NoText
    /\ SpecifierNext
    /\ UNCHANGED <<askVars, packVars, textVars>>

Step ==
    /\ NoQuestion /\ NoSpecifier /\ NoText
    /\ PackNext
    /\ UNCHANGED <<askVars, specVars, textVars>>

\* "0", "1", "9", a hex digit that is none of "b" and "x", and all that is no digit.
Type ==
    /\ NoPack /\ NoQuestion /\ NoSpecifier /\ scalar = <<>>
    /\ Len(text) < MaxText
    /\ \E c \in {Zero, 49, 57, 97, LowerB, LowerX, LowerU, Underscore, Minus} : text' = Append(text, c)
    /\ UNCHANGED <<askVars, specVars, packVars, scalar>>

Runes == 0 .. 300 \cup {55458, 65533, 65535, 65536, 128169, 1114111, 1114112}
RuneFlags == [quotes : BOOLEAN, dblQuotes : BOOLEAN, backslashes : BOOLEAN]

Format ==
    /\ NoPack /\ NoQuestion /\ NoSpecifier /\ NoText
    /\ \E uppercase \in BOOLEAN :
        \/ \E x \in Ints, fmt \in IntFmts :
            text' = ymInt_Fmt(x, fmt, uppercase) /\ scalar' = <<"Int", x, fmt>>
        \/ \E x \in UInts, fmt \in IntFmts :
            text' = ymUInt_Fmt(x, fmt, uppercase) /\ scalar' = <<"UInt", x, fmt>>
        \/ \E x \in Runes, flags \in RuneFlags :
            text' = ymRune_Fmt(x, flags, uppercase) /\ scalar' = <<"Rune", x, flags>>
    /\ UNCHANGED <<askVars, specVars, packVars>>

Next ==
    \/ Question
    \/ Write
    \/ Step
    \/ Type
    \/ Format

MCSpec == Init /\ [][Next]_vars

----------------------------------------------------------------------------
(***************************************************************************)
(* What a scalar is formatted as is as long as was measured, every byte of *)
(* the buffer written, and is read back as the same scalar, to its end:    *)
(* the least int, the runes at each length of escape, and both cases of    *)
(* hex digits included. A backslash that is not escaped is no text of a    *)
(* rune, and what is no rune is U+FFFD.                                    *)
(***************************************************************************)
ScalarsReadBack ==
    scalar # <<>> =>
        LET x == scalar[2]
            how == scalar[3]
        IN  /\ Unwritten \notin Range(text)
            /\ CASE scalar[1] = "Int" ->
                        /\ Len(text) = measureIntGeneric(x, how)
                        /\ parseInt(text) = Parsed("success", x, Len(text))
                 [] scalar[1] = "UInt" ->
                        /\ Len(text) = measureUIntGeneric(x, how, <<LowerU>>)
                        /\ parseUInt(text, FALSE) = Parsed("success", x, Len(text))
                        /\ parseUInt(text, TRUE) = Parsed("success", x, Len(text) - 1)
                 [] OTHER ->
                        /\ Len(text) = ymRune_Measure(x, how)
                        /\ x # Backslash \/ how.backslashes =>
                            parseRune(text) = Parsed("success", IF x > 1114111 THEN 65533 ELSE x, Len(text))

\* A number as a text has it: digits from the first of the radix on, with single
\* underscores between them.
Unsigned == IF text # <<>> /\ text[1] = Minus THEN Tail(text) ELSE text

Radix(s) ==
    CASE IsPrefix(<<Zero, LowerX>>, s) -> 16
      [] IsPrefix(<<Zero, LowerB>>, s) -> 2
      [] OTHER -> 10

Digits(s) ==
    LET body == IF Radix(s) = 10 THEN s ELSE SubSeq(s, 3, Len(s))
        IsBody(c) == c = Underscore \/ digitValue(c) < Radix(s)
        length == Max({n \in 0 .. Len(body) : \A i \in 1 .. n : IsBody(body[i])})
    IN  SubSeq(body, 1, length)

IsNumber(s) ==
    LET digits == Digits(s)
    IN  /\ digits # <<>>
        /\ digits[1] # Underscore /\ Last(digits) # Underscore
        /\ \A i \in 1 .. Len(digits) - 1 : digits[i] # Underscore \/ digits[i + 1] # Underscore

ValueOf(s) ==
    LET WithDigit(v, c) == IF c = Underscore THEN v ELSE v * Radix(s) + digitValue(c)
    IN  FoldLeft(WithDigit, 0, Digits(s))

LengthOf(s) == Len(Digits(s)) + (IF Radix(s) = 10 THEN 0 ELSE 2)

(***************************************************************************)
(* A text is refused exactly when it does not begin with a number, and a   *)
(* number that fits is read as what it is, with no overflow reported: in   *)
(* each radix, with underscores, signs, and text after it. (What happens   *)
(* to a number that does not fit is for OverflowIsReported.)               *)
(***************************************************************************)
ParsedScalarsAreExact ==
    scalar = <<>> =>
        LET int == IF Unsigned = text THEN ValueOf(text) ELSE -ValueOf(Unsigned)
            signLength == Len(text) - Len(Unsigned)
            uint == ValueOf(text)
            suffixed == IsNumber(text) /\ LengthOf(text) < Len(text) /\ text[LengthOf(text) + 1] = LowerU
        IN  /\ (parseInt(text) = Failure) <=> ~IsNumber(Unsigned)
            /\ IsNumber(Unsigned) /\ int \in Ints =>
                    parseInt(text) = Parsed("success", int, signLength + LengthOf(Unsigned))
            /\ (parseUInt(text, TRUE) = Failure) <=> ~IsNumber(text)
            /\ (parseUInt(text, FALSE) = Failure) <=> ~suffixed
            /\ IsNumber(text) /\ uint \in UInts =>
                    /\ parseUInt(text, TRUE) = Parsed("success", uint, LengthOf(text))
                    /\ suffixed => parseUInt(text, FALSE) = Parsed("success", uint, LengthOf(text) + 1)

(***************************************************************************)
(* "Success, but int/float value overflowed." (scalars.h,                  *)
(* YmParseStatus_Overflow): what a uint is too small for is not a plain    *)
(* success.                                                                *)
(***************************************************************************)
OverflowIsReported ==
    scalar = <<>> /\ IsNumber(text) /\ ValueOf(text) \notin UInts =>
        parseUInt(text, TRUE).status = "overflow"

================================================================================
