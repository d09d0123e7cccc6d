------------------------------ MODULE Conformance ------------------------------
(***************************************************************************)
(* Conformance to protocols and the tables that calls through a protocol   *)
(* use (YmType::conforms, Yama/internal/PTableManager.cpp, and the         *)
(* forwarding part of YmCtx::_dispatchCall).                               *)
(*                                                                         *)
(* A member of a type is a signature [returns, params] of reference        *)
(* symbols, as the parcel definition has them; its types are what those    *)
(* symbols load to. The redirects of the domain are in table.              *)
(***************************************************************************)
EXTENDS Specs, FiniteSets

redirectsOf(table, type) == Compute(table, type.path)

signature(m) == info(m).members[m.member]

memberOf(type, name) == MkType(type.path, type.name, type.args, name)

returnType(table, m) == LateResolve(m, signature(m).returns, redirectsOf(table, m))

paramType(table, m, i) == LateResolve(m, signature(m).params[i], redirectsOf(table, m))

positionalParams(m) == Len(signature(m).params)

\* Fault: nothing separates the params.
UnseparatedParams(table, m) ==
    LET WithParam(out, i) == out \o paramType(table, m, i).fullname
        Indices == [i \in 1 .. positionalParams(m) |-> i]
    IN  <<OpenCall>> \o FoldLeft(WithParam, <<>>, Indices) \o <<CloseCall, Arrow>>
        \o returnType(table, m).fullname

\* YmType::callsuff, callsig: what a specifier with a call suffix is compared with.
callsuff(table, m) ==
    LET WithParam(out, i) ==
            out \o (IF i = 1 THEN <<>> ELSE <<Comma>>) \o paramType(table, m, i).fullname
        Indices == [i \in 1 .. positionalParams(m) |-> i]
    IN  <<OpenCall>> \o FoldLeft(WithParam, <<>>, Indices) \o <<CloseCall, Arrow>>
        \o returnType(table, m).fullname

callsig(table, m) == m.fullname \o callsuff(table, m)

\* A type is loaded with all its members, or not at all: every symbol is to
\* resolve.
Loads(table, type) ==
    \A name \in DOMAIN info(type).members :
        LET m == memberOf(type, name)
        IN  /\ returnType(table, m) # NoType
            /\ \A i \in 1 .. positionalParams(m) : paramType(table, m, i) # NoType

specifierHasSelf(sym) == \E i \in DOMAIN sym : sym[i] = SelfId

\* Spec::transformed, with the parcel, the type params and the $Self of the types
\* given, and without redirects.
transformed(sym, here, typeParamsCtx, selfType) ==
    LET params == typeParams(typeParamsCtx)
        stands == [id \in {HereId, SelfId} \cup DOMAIN params |->
                    CASE id = HereId -> here
                      [] id = SelfId -> selfType.fullname
                      [] OTHER       -> params[id].fullname]
    IN  Solve(sym, stands, NoRedirects)

\* Fault: $Self is taken for the protocol.
ComparePlain(table, req, sym, match, typeInMatch) ==
    LateResolve(req, sym, redirectsOf(table, req)) = typeInMatch

(***************************************************************************)
(* The type a symbol of the requirement stands for is the one of the       *)
(* member that matches it: the same type, or, when the symbol has $Self,   *)
(* the type its solved form is the fullname of.                            *)
(***************************************************************************)
compare(table, req, sym, match, typeInMatch) ==
    IF specifierHasSelf(sym)
    THEN transformed(sym, req.path, self(req), self(match)) = typeInMatch.fullname
    ELSE LateResolve(req, sym, redirectsOf(table, req)) = typeInMatch

\* Fault: the params a matching member has on top are not noticed.
MatchesPrefix(table, req, match) ==
    /\ compare(table, req, signature(req).returns, match, returnType(table, match))
    /\ positionalParams(req) <= positionalParams(match)
    /\ \A i \in 1 .. positionalParams(req) :
          compare(table, req, signature(req).params[i], match, paramType(table, match, i))

matches(table, req, match) ==
    /\ compare(table, req, signature(req).returns, match, returnType(table, match))
    /\ positionalParams(req) = positionalParams(match)
    /\ \A i \in 1 .. positionalParams(match) :
          compare(table, req, signature(req).params[i], match, paramType(table, match, i))

conforms(table, type, protocol) ==
    /\ ~info(type).hasCallSig
    /\ \A name \in DOMAIN info(protocol).members :
          /\ name \in DOMAIN info(type).members
          /\ matches(table, memberOf(protocol, name), memberOf(type, name))

(***************************************************************************)
(* PTableManager::_generate: an entry for each requirement of the          *)
(* protocol, the member of the boxed type with its name. A call of the     *)
(* requirement with a boxed first argument becomes a call of the entry.    *)
(***************************************************************************)
ptable(proto, boxed) == [name \in DOMAIN info(proto).members |-> memberOf(boxed, name)]

----------------------------------------------------------------------------
(***************************************************************************)
(* The type a symbol of a protocol stands for when the protocol is         *)
(* instantiated for a type: what the substitutions the solver promises,    *)
(* %here, $Self, $T and the redirects of the protocol's parcel, name.      *)
(***************************************************************************)
Meaning(table, sym, protocol, type) ==
    LET redirected == Solve(sym, Nothing, redirectsOf(table, protocol))
        params == typeParams(protocol)
        Token(t) ==
            CASE t = HereId -> protocol.path
              [] t = SelfId -> type.fullname
              [] IsDollar(t) /\ t # SelfId /\ Undollar(t) \in DOMAIN params -> params[Undollar(t)].fullname
              [] OTHER -> <<t>>
    IN  Load(FlattenSeq([i \in DOMAIN redirected |-> Token(redirected[i])]), NoEnv)

\* The members of the type have the signatures the protocol means.
Answers(table, type, protocol) ==
    \A name \in DOMAIN info(protocol).members :
        /\ name \in DOMAIN info(type).members
        /\ LET req == memberOf(protocol, name)
               m == memberOf(type, name)
           IN  /\ Meaning(table, signature(req).returns, protocol, type) = returnType(table, m)
               /\ positionalParams(req) = positionalParams(m)
               /\ \A i \in 1 .. positionalParams(req) :
                    Meaning(table, signature(req).params[i], protocol, type) = paramType(table, m, i)
================================================================================
