--------------------------------- MODULE Specs ---------------------------------
(***************************************************************************)
(* Specifiers (Yama/internal/SpecParser.cpp, SpecSolver.cpp, TermStk.cpp): *)
(* the text of import paths, fullnames and reference symbols.              *)
(*                                                                         *)
(* A specifier is a sequence of tokens, as Redirects has paths: a positive *)
(* number for each name, and one below 1 for each mark, for "%here" and    *)
(* for each "$...". It is read twice, by two interpreters of the same      *)
(* events: SpecSolver rewrites it (redirects and substitutions), TermStk   *)
(* evaluates it to the type it names. Both are folds over the events.      *)
(***************************************************************************)
EXTENDS Redirects, Integers

CONSTANT Parcels    \* the parcels by path, each a map from names to type infos:
                    \* [typeParams: names, hasCallSig, members: a function of
                    \*  names to signatures [returns, params]]

Slash == 0
Colon == -1         \* x:y
DblColon == -2      \* x::y
OpenArgs == -3      \* [
Comma == -4
CloseArgs == -5     \* ]
OpenCall == -6      \* (
CloseCall == -7     \* )
Arrow == -8
HereId == -9        \* %here

IsName(id) == id \in Nat /\ id > 0

\* The identifier "$n" for a name n, and "$Self".
Dollar(n) == -10 - n
IsDollar(id) == id <= -10
Undollar(id) == -10 - id
SelfId == Dollar(0)

\* Names with slashes between them.
IsPath(path) ==
    /\ path \in Seq(Nat) /\ Len(path) % 2 = 1
    /\ \A i \in DOMAIN path : path[i] = Slash <=> i % 2 = 0

IsId(t) == t \in Int /\ (IsName(t) \/ t = HereId \/ IsDollar(t))

Brackets(text, n, bracket) == Cardinality({i \in 1 .. n : text[i] = bracket})
Depth(text, n) == Brackets(text, n, OpenArgs) - Brackets(text, n, CloseArgs)

\* What the grammar takes, but for empty brackets and call suffixes.
IsSpecifier(text) ==
    LET Ends(i) == IsId(text[i]) \/ text[i] = CloseArgs
    IN  /\ text \in Seq(Int) /\ text # <<>>
        /\ \A i \in DOMAIN text :
            \/ IsId(text[i]) /\ (i = 1 \/ text[i - 1] \in {OpenArgs, Comma})
            \/ i > 1 /\ IsName(text[i]) /\ text[i - 1] \in {Slash, Colon, DblColon}
            \/ i > 1 /\ Ends(i - 1) /\ text[i] \in {Slash, Colon, DblColon, OpenArgs}
            \/ i > 1 /\ Ends(i - 1) /\ text[i] \in {Comma, CloseArgs} /\ Depth(text, i - 1) > 0
        /\ Ends(Len(text)) /\ Depth(text, Len(text)) = 0

ASSUME ParcelsAssumption ==
    \A path \in DOMAIN Parcels :
        /\ IsPath(path)
        /\ \A name \in DOMAIN Parcels[path] :
            /\ IsName(name)
            /\ Parcels[path][name].typeParams \in Seq(Nat \ {0})
            /\ \A id \in DOMAIN Parcels[path][name].members : IsName(id)

----------------------------------------------------------------------------
(***************************************************************************)
(* SpecEval: the events of a specifier. Which event an identifier is       *)
(* depends on the mark before it, which event a comma is on the stage. A   *)
(* comma in the return type of a call suffix is a dead end.                *)
(***************************************************************************)
Event(on, id) == [on |-> on, id |-> id]

IdMode == [t \in {Slash, Colon, DblColon} |->
            CASE t = Slash -> "slashId" [] t = Colon -> "colonId" [] OTHER -> "dblColonId"]

Delimiter == [main |-> "typeArgsArgDelimiter", params |-> "callSuffParamDelimiter",
              return |-> "deadEnd"]

Fires(s, on, id) == [s EXCEPT !.out = Append(@, Event(on, id))]

Read(s, t) ==
    CASE t \in DOMAIN IdMode -> [s EXCEPT !.mode = IdMode[t]]
      [] t = OpenArgs  -> [Fires(s, "openTypeArgs", t) EXCEPT !.mode = "rootId"]
      [] t = Comma     -> [Fires(s, Delimiter[s.stage], t) EXCEPT !.mode = "rootId"]
      [] t = CloseArgs -> Fires(s, "closeTypeArgs", t)
      [] t = OpenCall  -> [Fires(s, "openCallSuff", t) EXCEPT !.mode = "rootId",
                                                              !.stage = "params"]
      [] t = CloseCall -> s
      [] t = Arrow     -> [Fires(s, "callSuffReturnType", t) EXCEPT !.mode = "rootId",
                                                                    !.stage = "return"]
      [] OTHER         -> Fires(s, s.mode, t)

Events(spec) ==
    LET end == FoldLeft(Read, [mode |-> "rootId", stage |-> "main", out |-> <<>>], spec)
    IN  IF end.stage = "return" THEN Append(end.out, Event("closeCallSuff", Arrow)) ELSE end.out

----------------------------------------------------------------------------
(***************************************************************************)
(* SpecSolver: the rewritten specifier, on a stack of scopes, one for each *)
(* bracket that is open. What the environment has a meaning for is         *)
(* substituted: stands maps HereId, SelfId and the NAMES of type params to *)
(* the specifiers they stand for.                                          *)
(***************************************************************************)
NoSpec == <<>>

beginScope(s) == [s EXCEPT !.scopes = Append(@, [latest |-> "none", output |-> <<>>])]

WithTop(s, scope) == [s EXCEPT !.scopes = Append(Front(@), scope)]

emit(s, out) == WithTop(s, [Last(s.scopes) EXCEPT !.output = @ \o out])

mark(s, latest) == WithTop(s, [Last(s.scopes) EXCEPT !.latest = latest])

expect(s, latests) == [s EXCEPT !.good = @ /\ Last(s.scopes).latest \in latests]

endScopeAndEmit(s) == emit([s EXCEPT !.scopes = Front(@)], Last(s.scopes).output)

nextScope(s, out) == beginScope(emit(endScopeAndEmit(s), out))

handleRedirectsIfPath(s, redirects) ==
    IF Last(s.scopes).latest = "path"
    THEN WithTop(s, [Last(s.scopes) EXCEPT !.output = Resolve(redirects, @)])
    ELSE s

\* Fault: an identifier that nothing stands for is taken for a path.
RootsArePaths(s, id, stands) ==
    IF id \in DOMAIN stands /\ (id = HereId \/ IsDollar(id))
    THEN mark(emit(s, stands[id]), IF id = HereId THEN "path" ELSE "type")
    ELSE mark(emit(s, <<id>>), "path")

rootId(s, id, stands) ==
    IF id \in DOMAIN stands /\ (id = HereId \/ IsDollar(id))
    THEN mark(emit(s, stands[id]), IF id = HereId THEN "path" ELSE "type")
    ELSE mark(emit(s, <<id>>), IF IsDollar(id) THEN "type" ELSE "path")

OnEvent(s, e, stands, redirects) ==
    IF ~s.good THEN s
    ELSE CASE e.on = "rootId" -> rootId(s, e.id, stands)
      [] e.on = "slashId"    -> emit(expect(s, {"path"}), <<Slash, e.id>>)
      [] e.on = "colonId"    ->
            mark(emit(handleRedirectsIfPath(expect(s, {"path"}), redirects), <<Colon, e.id>>), "type")
      [] e.on = "dblColonId" -> emit(expect(s, {"type"}), <<DblColon, e.id>>)
      [] e.on = "openTypeArgs"  -> beginScope(emit(expect(s, {"type"}), <<OpenArgs>>))
      [] e.on = "closeTypeArgs" ->
            mark(emit(endScopeAndEmit(expect(s, {"type", "none"})), <<CloseArgs>>), "type")
      [] e.on \in {"typeArgsArgDelimiter", "callSuffParamDelimiter"} ->
            nextScope(expect(s, {"type"}), <<Comma>>)
      [] e.on = "openCallSuff"       -> beginScope(emit(s, <<OpenCall>>))
      [] e.on = "callSuffReturnType" ->
            nextScope(expect(s, {"type", "none"}), <<CloseCall, Arrow>>)
      [] e.on = "closeCallSuff"      -> endScopeAndEmit(expect(s, {"type"}))
      [] OTHER -> [s EXCEPT !.good = FALSE]

Solve(spec, stands, redirects) ==
    LET Solving(s, e) == OnEvent(s, e, stands, redirects)
        end == FoldLeft(Solving, beginScope([good |-> TRUE, scopes |-> <<>>]), Events(spec))
    IN  IF end.good THEN Last(handleRedirectsIfPath(end, redirects).scopes).output ELSE NoSpec

Nothing == [id \in {} |-> <<>>]

\* What is before the call suffix, if there is one.
removeCallSuff(spec) ==
    LET Keep(s, t) == IF s.ended \/ t = OpenCall THEN [s EXCEPT !.ended = TRUE]
                      ELSE [s EXCEPT !.kept = Append(@, t)]
    IN  FoldLeft(Keep, [kept |-> <<>>, ended |-> FALSE], spec).kept

----------------------------------------------------------------------------
(***************************************************************************)
(* Types (YmType), as the loaders know them: by parcel, info and args,     *)
(* and, for a member, its name. The fullname is their key.                 *)
(***************************************************************************)
NoMember == 0
NoType == [path |-> <<>>]

\* Fault: only the last arg is part of the name.
LastArgOnly(args) ==
    IF args = <<>> THEN <<>> ELSE <<OpenArgs>> \o Last(args).fullname \o <<CloseArgs>>

WithArg(out, arg) == out \o (IF out = <<>> THEN <<>> ELSE <<Comma>>) \o arg.fullname

argPack(args) ==
    IF args = <<>> THEN <<>> ELSE <<OpenArgs>> \o FoldLeft(WithArg, <<>>, args) \o <<CloseArgs>>

MkType(path, name, args, member) ==
    [path |-> path, name |-> name, args |-> args, member |-> member,
     fullname |-> path \o <<Colon, name>> \o argPack(args)
                  \o (IF member = NoMember THEN <<>> ELSE <<DblColon, member>>)]

info(type) == Parcels[type.path][type.name]
self(type) == [type EXCEPT !.member = NoMember,
                           !.fullname = MkType(type.path, type.name, type.args, NoMember).fullname]

\* The type's params, by name.
typeParams(type) ==
    [n \in {info(type).typeParams[i] : i \in DOMAIN type.args} |->
        type.args[CHOOSE i \in DOMAIN type.args : info(type).typeParams[i] = n]]

\* What generation makes: args for the params, of types made before.
Generated(types) ==
    \A type \in types :
        /\ type.path \in DOMAIN Parcels /\ type.name \in DOMAIN Parcels[type.path]
        /\ type.args \in Seq(types) /\ Len(type.args) = Len(info(type).typeParams)
        /\ type = MkType(type.path, type.name, type.args, NoMember)
        /\ type.fullname \in Seq(Int)

----------------------------------------------------------------------------
(***************************************************************************)
(* TermStk: the stack of terms. An operation replaces its inputs by its    *)
(* result, by an error term if it fails; what reads an error term leaves   *)
(* one. A session has an environment when it resolves a reference symbol.  *)
(***************************************************************************)
Term(is, of) == [is |-> is, of |-> of, awaitingArgs |-> FALSE]
Err == Term("err", NoType)

NoEnv == [here |-> <<>>, self |-> NoType]
Env(type) == [here |-> type.path, self |-> self(type)]
Sessions(types) == {NoEnv} \cup {Env(type) : type \in types}

transact(stk, n, t) == Append(SubSeq(stk, 1, Len(stk) - n), t)
transactErr(stk, n) == transact(stk, n, Err)

root(stk, id, env) ==
    Append(stk,
        CASE id = HereId -> IF env = NoEnv THEN Err ELSE Term("path", env.here)
          [] id = SelfId -> IF env = NoEnv THEN Err ELSE Term("concrete", env.self)
          [] IsDollar(id) /\ id # SelfId ->
                IF env # NoEnv /\ Undollar(id) \in DOMAIN typeParams(env.self)
                THEN Term("concrete", typeParams(env.self)[Undollar(id)]) ELSE Err
          [] OTHER -> Term("path", <<id>>))

subdir(stk, id) ==
    IF Last(stk).is # "path" THEN transactErr(stk, 1)
    ELSE transact(stk, 1, Term("path", Last(stk).of \o <<Slash, id>>))

\* Fault: a failed import leaves its input below the error term.
ErrorOnTop(stk, id) ==
    LET path == Last(stk).of
        found == /\ Last(stk).is = "path"
                 /\ path \in DOMAIN Parcels
                 /\ id \in DOMAIN Parcels[path]
    IN  IF ~found THEN transactErr(stk, 0)
        ELSE transact(stk, 1, Term(IF Parcels[path][id].typeParams = <<>> THEN "concrete" ELSE "generic",
                                   MkType(path, id, <<>>, NoMember)))

\* The import is part of it: no path names a parcel that is not bound.
typeInParcel(stk, id) ==
    LET path == Last(stk).of
        found == /\ Last(stk).is = "path"
                 /\ path \in DOMAIN Parcels
                 /\ id \in DOMAIN Parcels[path]
    IN  IF ~found THEN transactErr(stk, 1)
        ELSE transact(stk, 1, Term(IF Parcels[path][id].typeParams = <<>> THEN "concrete" ELSE "generic",
                                   MkType(path, id, <<>>, NoMember)))

member(stk, id) ==
    LET type == Last(stk).of
        found == /\ Last(stk).is = "concrete"
                 /\ type.member = NoMember          \* no member has members
                 /\ id \in DOMAIN info(type).members
    IN  IF ~found THEN transactErr(stk, 1)
        ELSE transact(stk, 1, Term("concrete", MkType(type.path, type.name, type.args, id)))

beginArgs(stk) == Append(Front(stk), [Last(stk) EXCEPT !.awaitingArgs = TRUE])

\* The inputs are the terms from the last one that awaits args on: the generic, and
\* its args.
endArgs(stk) ==
    LET marked == {i \in DOMAIN stk : stk[i].awaitingArgs}
        at == CHOOSE i \in marked : \A j \in marked : j <= i
        generic == stk[at]
        args == SubSeq(stk, at + 1, Len(stk))
        legal == /\ generic.is = "generic"
                 /\ Len(args) = Len(info(generic.of).typeParams)
                 /\ \A i \in DOMAIN args : args[i].is = "concrete"
        types == [i \in DOMAIN args |-> args[i].of]
    IN  IF ~legal THEN transactErr(stk, 1 + Len(args))
        ELSE transact(stk, 1 + Len(args),
                      Term("concrete", MkType(generic.of.path, generic.of.name, types, NoMember)))

Interp(stk, e, env) ==
    CASE e.on = "rootId"        -> root(stk, e.id, env)
      [] e.on = "slashId"       -> subdir(stk, e.id)
      [] e.on = "colonId"       -> typeInParcel(stk, e.id)
      [] e.on = "dblColonId"    -> member(stk, e.id)
      [] e.on = "openTypeArgs"  -> beginArgs(stk)
      [] e.on = "closeTypeArgs" -> endArgs(stk)
      [] OTHER                  -> stk

Eval(spec, env) ==
    LET Evaluating(stk, e) == Interp(stk, e, env)
    IN  FoldLeft(Evaluating, <<>>, Events(spec))

\* What a session that expects a concrete type returns.
Load(spec, env) ==
    LET Concrete(below, term) == IF term.is = "concrete" THEN term.of ELSE NoType
    IN  FoldLeft(Concrete, NoType, Eval(spec, env))

\* LoadManager::_lateResolveRefConst: the redirects of the type's parcel, then what
\* the symbol names there.
LateResolve(type, sym, redirects) ==
    Load(removeCallSuff(Solve(sym, Nothing, redirects)), Env(type))

================================================================================
