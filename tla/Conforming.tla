------------------------------- MODULE Conforming -------------------------------
(***************************************************************************)
(* Loaded types and protocols, asked whether they conform, whatever the    *)
(* redirects they were loaded under.                                       *)
(***************************************************************************)
EXTENDS Conformance, RedirectTables

CONSTANTS LoadedTypes,  \* what was loaded, with the args of what was loaded
          Protocols,    \* the protocols among them
          Discipline    \* what the author of a protocol refrains from: a symbol with
                        \* both $Self and type params ("selfAlone"), a redirect of a
                        \* symbol with $Self ("selfUnredirected"), $Self anywhere but in
                        \* the first param ("selfFirst"), a callable that returns a type
                        \* with several args, or with one that has ("oneArgReturned")

\* The symbols of a definition are specifiers (ParcelInfo.cpp, normalizeRefSym). One
\* with a call suffix is left out.
ASSUME LoadedAssumption ==
    /\ Protocols \subseteq LoadedTypes /\ Generated(LoadedTypes)
    /\ \A type \in LoadedTypes : \A name \in DOMAIN info(type).members :
            LET sig == info(type).members[name]
            IN  /\ IsSpecifier(sig.returns) /\ sig.params \in Seq(Seq(Int))
                /\ \A i \in DOMAIN sig.params : IsSpecifier(sig.params[i])

VARIABLE asked          \* a type and a protocol it may conform to, or nothing

askVars == <<table, asked>>

----------------------------------------------------------------------------
AskInit == TableInit /\ asked = <<>>

\* The redirects are those there were when the parcels were imported.
Redirect == asked = <<>> /\ TableNext /\ UNCHANGED asked

\* What DmLoader::addRedirect takes is written in paths. (SomePaths may hold letters.)
PathsOnly == \A k \in DOMAIN table : IsPath(k[1]) /\ IsPath(k[2]) /\ IsPath(table[k])

\* ymType_Converts, and the call of a requirement: YmType::conforms.
Ask(type, protocol) ==
    asked = <<>> /\ PathsOnly /\ asked' = <<type, protocol>> /\ UNCHANGED table

AskNext == Redirect \/ \E type \in LoadedTypes, protocol \in Protocols : Ask(type, protocol)

AskSpec == AskInit /\ [][AskNext]_askVars

----------------------------------------------------------------------------
\* Those asked about were loaded.
Loaded == \A i \in DOMAIN asked : Loads(table, asked[i])

Symbols(type) ==
    UNION {{signature(memberOf(type, n)).returns} \cup Range(signature(memberOf(type, n)).params) :
               n \in DOMAIN info(type).members}

\* What a symbol of the protocol with $Self is.
Disciplined(protocol) ==
    \A sym \in Symbols(protocol) : specifierHasSelf(sym) =>
        /\ "selfAlone" \in Discipline => \A i \in DOMAIN sym : IsDollar(sym[i]) => sym[i] = SelfId
        /\ "selfUnredirected" \in Discipline =>
                Solve(sym, Nothing, redirectsOf(table, protocol)) = sym

(***************************************************************************)
(* A type conforms to a protocol exactly when its members have the         *)
(* signatures the protocol means for it, with %here, $Self, the type       *)
(* params and the redirects of the protocol's parcel substituted           *)
(* (YmType::conforms, by solved names where there is a $Self and by loaded *)
(* types where there is none).                                             *)
(***************************************************************************)
ConformsAsMeant ==
    asked # <<>> =>
        LET type == asked[1]    protocol == asked[2]
        IN  Loaded /\ Disciplined(protocol)
            => (conforms(table, type, protocol) <=> Answers(table, type, protocol))

\* $Self is the first param and nothing else, and nothing else is the protocol.
SelfFirst(protocol) ==
    \A n \in DOMAIN info(protocol).members :
        LET req == memberOf(protocol, n)
        IN  /\ ~specifierHasSelf(signature(req).returns)
            /\ \A i \in 1 .. positionalParams(req) :
                  IF i = 1 /\ paramType(table, req, i) = protocol
                  THEN signature(req).params[i] = <<SelfId>>
                  ELSE ~specifierHasSelf(signature(req).params[i])

(***************************************************************************)
(* A call of a requirement that is forwarded to the member in the ptable   *)
(* has the args that member takes, the first one unboxed, and its result   *)
(* is what the caller was promised: _beginCall checked the args against    *)
(* the requirement only, _endCall checks the result against the member.    *)
(***************************************************************************)
ForwardedCallsAreTyped ==
    asked # <<>> =>
        LET type == asked[1]    protocol == asked[2]
        IN     /\ Loaded
               /\ "selfFirst" \in Discipline => SelfFirst(protocol)
               /\ conforms(table, type, protocol)
            => \A n \in DOMAIN ptable(protocol, type) :
                LET req == memberOf(protocol, n)
                    entry == ptable(protocol, type)[n]
                IN  positionalParams(req) > 0 /\ paramType(table, req, 1) = protocol =>
                    /\ positionalParams(entry) = positionalParams(req)
                    /\ paramType(table, entry, 1) = type
                    /\ \A i \in 2 .. positionalParams(req) :
                            paramType(table, entry, i) = paramType(table, req, i)
                    /\ returnType(table, entry) = returnType(table, req)

(***************************************************************************)
(* The call signature of a loaded callable is a specifier in normal form,  *)
(* which is what a load with a call suffix compares as text (YmType's      *)
(* callsig and checkCallSuff).                                             *)
(***************************************************************************)
CallSigsAreNormal ==
    Loaded => \A type \in Range(asked) :
        \A n \in DOMAIN info(type).members :
            \A sig \in {callsig(table, memberOf(type, n))} :
                ("oneArgReturned" \in Discipline =>
                        Comma \notin Range(returnType(table, memberOf(type, n)).fullname))
                => Solve(sig, Nothing, NoRedirects) = sig

================================================================================
