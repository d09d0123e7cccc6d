------------------------------- MODULE ArgPacks -------------------------------
(***************************************************************************)
(* Argument packs (Yama/internal/ArgPackInfo.h, as YmCtx::_beginCall,      *)
(* _dispatchCall and structInit use them): which object of the argument    *)
(* window a parameter reads.                                               *)
(*                                                                         *)
(* A call gives its positional args in order, then args for whichever      *)
(* named params it lists, in the order of the list; the others get dummies *)
(* after those. A call that is forwarded from a protocol gets dummies for  *)
(* the named params of the method. For a struct, the stored properties are *)
(* the named params. Indices are 0-based, as in the code.                  *)
(***************************************************************************)
EXTENDS Naturals, Sequences, FiniteSets

CONSTANTS
    MaxPositional,  \* YM_MAX_POSITIONAL_PARAMS
    MaxNamed,       \* YM_MAX_NAMED_PARAMS, the width of the map of bindings
    Unbound         \* YmParamIndex(-1)

ASSUME WidthAssumption ==
    /\ MaxPositional \in Nat /\ MaxNamed \in Nat /\ Unbound \in Nat
    /\ MaxPositional + MaxNamed <= Unbound

VARIABLES
    positional, named, dummies,     \* counts: _positionalArgs, _namedArgs, _dummies
    binding,                        \* _namedParamBindsMap, by the param
    stage,                          \* "naming", "done", "forwarded" or "refused"
    window,                         \* what the objects of the window are: "arg" or "dummy"
    names                           \* the list of named params of the call, so far

packVars == <<positional, named, dummies, binding, stage, window, names>>

specifiedArgs == positional + named
paramCount == specifiedArgs + dummies
Params == 0 .. paramCount - 1
NamedParams == positional .. paramCount - 1

_argOffset(which) == IF which < positional THEN which ELSE binding[which]
isSpecified(which) == _argOffset(which) < specifiedArgs

\* A call to a fn, or the initialization of a struct, with that many params; no
\* struct has more stored properties than the map has room for.
PackInit ==
    /\ positional \in 0 .. MaxPositional
    /\ dummies \in 0 .. MaxNamed
    /\ named = 0
    /\ binding = [p \in positional .. positional + dummies - 1 |-> Unbound]
    /\ stage = "naming"
    /\ window = [i \in 1 .. positional |-> "arg"]
    /\ names = <<>>

\* Fault: a param that is named again is bound again.
RebindNamed(which) ==
    /\ stage = "naming"
    /\ IF dummies = 0
       THEN stage' = "refused" /\ UNCHANGED <<named, dummies, binding, window, names>>
       ELSE /\ binding' = [binding EXCEPT ![which] = specifiedArgs]
            /\ named' = named + 1
            /\ dummies' = dummies - 1
            /\ window' = Append(window, "arg")
            /\ names' = Append(names, which)
            /\ UNCHANGED stage
    /\ UNCHANGED positional

\* The next name of the list, and the arg that is there for it.
specifyNextNamedArg(which) ==
    /\ stage = "naming"
    /\ IF isSpecified(which)
       THEN stage' = "refused" /\ UNCHANGED <<named, dummies, binding, window, names>>
       ELSE /\ binding' = [binding EXCEPT ![which] = specifiedArgs]
            /\ named' = named + 1
            /\ dummies' = dummies - 1
            /\ window' = Append(window, "arg")
            /\ names' = Append(names, which)
            /\ UNCHANGED stage
    /\ UNCHANGED positional

\* The bindings after the params in new, of which bound dummies come before, get
\* the dummies that are not yet bound, in order.
_genDummyBinds(binds, new, bound, specified) ==
    [p \in DOMAIN binds \cup new |->
        IF p \in new /\ (p \in DOMAIN binds => binds[p] >= specified)
        THEN specified + bound
             + Cardinality({q \in new : q < p /\ (q \in DOMAIN binds => binds[q] >= specified)})
        ELSE binds[p]]

\* The end of the list: a dummy is pushed for each param that was not named.
done ==
    /\ stage = "naming"
    /\ binding' = _genDummyBinds(binding, NamedParams, 0, specifiedArgs)
    /\ stage' = "done"
    /\ window' = window \o [i \in 1 .. dummies |-> "dummy"]
    /\ UNCHANGED <<positional, named, dummies, names>>

\* The call is forwarded to a method with n more named params.
addDummies(n) ==
    /\ stage = "done"
    /\ paramCount + n <= MaxPositional + MaxNamed
    /\ dummies' = dummies + n
    /\ binding' = _genDummyBinds(binding, paramCount .. paramCount + n - 1, dummies, specifiedArgs)
    /\ stage' = "forwarded"
    /\ window' = window \o [i \in 1 .. n |-> "dummy"]
    /\ UNCHANGED <<positional, named, names>>

PackNext ==
    \/ \E which \in NamedParams : specifyNextNamedArg(which)
    \/ done
    \/ \E n \in 1 .. MaxNamed : addDummies(n)

PackSpec == PackInit /\ [][PackNext]_packVars

----------------------------------------------------------------------------
\* No two params are bound to the same object, and each to one that is there.
ParamsReadApart ==
    /\ \A p, q \in NamedParams : binding[p] = binding[q] /\ binding[p] # Unbound => p = q
    /\ \A p \in NamedParams : binding[p] # Unbound =>
            binding[p] >= positional /\ binding[p] < Len(window)

\* An arg is read by the param it was given for, and by no other, wherever in the
\* list that param was named and whatever dummies came later, and a param that was
\* not named reads a dummy: what failIfDummy asks and the check of the args' types
\* rely on.
ArgsReachTheirParams ==
    /\ ParamsReadApart
    /\ \A i \in 1 .. Len(names) : binding[names[i]] = positional + i - 1
    /\ stage \in {"done", "forwarded"} =>
        \A p \in Params :
            /\ isSpecified(p) <=> (p < positional \/ \E i \in 1 .. Len(names) : names[i] = p)
            /\ window[_argOffset(p) + 1] = IF isSpecified(p) THEN "arg" ELSE "dummy"
================================================================================
