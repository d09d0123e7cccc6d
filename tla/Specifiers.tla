------------------------------ MODULE Specifiers -------------------------------
(***************************************************************************)
(* Specifiers as they are written, part by part, and read without a        *)
(* session or in that of a type whose symbols are resolved. A part is an   *)
(* operand after a bracket or a comma (or at the start), a bracket that    *)
(* closes, or a suffix.                                                    *)
(***************************************************************************)
EXTENDS Specs, FiniteSets

CONSTANTS Operands,       \* a path or a param, or a type of a path
          Continuations,  \* "/x", ":x" and "::x"
          KnownTypes,     \* types that were loaded before
          MaxParts        \* bound on the parts of a specifier

ASSUME PartsAssumption ==
    /\ \A part \in Operands :
        /\ part \in Seq(Int) /\ Len(part) \in {1, 3}
        /\ part[1] = HereId \/ IsDollar(part[1]) \/ IsName(part[1])
        /\ Len(part) = 3 => part[2] = Colon /\ IsName(part[3])
    /\ \A part \in Continuations :
        /\ part \in Seq(Int) /\ Len(part) = 2
        /\ part[1] \in {Slash, Colon, DblColon} /\ IsName(part[2])

ASSUME KnownTypesAssumption == Generated(KnownTypes)

VARIABLES spec,         \* a specifier, up to where it is written
          parts,        \* the number of its parts
          open          \* the number of its brackets that are open

specVars == <<spec, parts, open>>

----------------------------------------------------------------------------
SpecifierInit == spec = <<>> /\ parts = 0 /\ open = 0

Operand(part) == spec = <<>> /\ spec' = part /\ open' = open

OpenBracket(part) == spec # <<>> /\ spec' = spec \o <<OpenArgs>> \o part /\ open' = open + 1

NextArg(part) == open > 0 /\ spec' = spec \o <<Comma>> \o part /\ open' = open

CloseBracket == open > 0 /\ spec' = Append(spec, CloseArgs) /\ open' = open - 1

Suffix(part) == spec # <<>> /\ spec' = spec \o part /\ open' = open

SpecifierNext ==
    /\ parts < MaxParts /\ parts' = parts + 1
    /\ \/ \E part \in Operands : Operand(part) \/ OpenBracket(part) \/ NextArg(part)
       \/ CloseBracket
       \/ \E part \in Continuations : Suffix(part)

SpecifierSpec == SpecifierInit /\ [][SpecifierNext]_specVars

----------------------------------------------------------------------------
Written == spec # <<>> /\ open = 0

\* No session, and those of types.
Envs == Sessions(KnownTypes)

(***************************************************************************)
(* Whatever a specifier names, or fails to name, its evaluation leaves one *)
(* term on the stack, and no mark of beginArgs: each operation of TermStk  *)
(* replaces its inputs by one term on every one of its error paths.        *)
(***************************************************************************)
EverySpecifierIsOneTerm ==
    Written => \A env \in Envs :
        LET stk == Eval(spec, env) IN Len(stk) = 1 /\ ~stk[1].awaitingArgs

(***************************************************************************)
(* The fullname a loaded type is keyed by is in normal form and names that *)
(* type and no other, without a session: a second load of the type finds   *)
(* the first one's, whatever symbol it was first reached by.               *)
(***************************************************************************)
FullnamesLoadThemselves ==
    Written => \A env \in Envs :
        LET type == Load(spec, env)
        IN  type # NoType => /\ Load(type.fullname, NoEnv) = type
                             /\ Solve(type.fullname, Nothing, NoRedirects) = type.fullname

(***************************************************************************)
(* The normalization of a symbol when it is declared neither changes what  *)
(* it names nor refuses one that would name something: the two readers of  *)
(* specifiers agree.                                                       *)
(***************************************************************************)
NormalizedSymbolsNameTheSame ==
    Written => \A env \in Envs :
        LET normal == Solve(spec, Nothing, NoRedirects)
        IN  Load(spec, env) = IF normal = NoSpec THEN NoType ELSE Load(normal, env)

================================================================================
