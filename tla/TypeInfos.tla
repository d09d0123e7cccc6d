------------------------------- MODULE TypeInfos -------------------------------
(***************************************************************************)
(* Static type information (Yama/internal/ParcelInfo.{h,cpp}, kinds.h,     *)
(* ConstTableInfo.h, and the kind tables of Yama/yama/yama.cpp): what a    *)
(* parcel definition records of one type, as a value.                      *)
(*                                                                         *)
(* Names. A name is <<base, suffix>>: "" for a name of the host, and       *)
(* "$assigner" or "$init" for one the program derives. A local name is     *)
(* <<name>> for an owner type and <<local name of the owner, name>> for a  *)
(* member.                                                                 *)
(*                                                                         *)
(* Symbols. A reference symbol is a tuple headed by what it starts with:   *)
(* <<"self">> for $Self, <<"self", m>> for $Self::m, <<"here", n>> for     *)
(* %here:n, <<"yama", n>> for yama:n; a host may use others.               *)
(*                                                                         *)
(* Indices into a constant table are 1-based here, and 0 is std::nullopt.  *)
(***************************************************************************)
EXTENDS Naturals, Sequences, FiniteSets

CONSTANTS
    Illegal,            \* names a host may pass that are not legal
    LegalSyms,          \* reference symbols Spec::type can parse
    ParamsIn,           \* type parameters a symbol mentions
    MaxTypeParams,      \* YM_MAX_TYPE_PARAMS
    MaxPositional,      \* YM_MAX_POSITIONAL_PARAMS
    MaxNamed,           \* YM_MAX_NAMED_PARAMS
    RefLimit,           \* YmRef(-1)
    NoUser              \* no user pointer in the call behaviour

ASSUME LimitsAssumption ==
    /\ MaxTypeParams \in Nat /\ MaxNamed \in Nat
    /\ MaxPositional \in Nat /\ MaxPositional >= 2  \* self and x of an assigner
    /\ RefLimit \in Nat

----------------------------------------------------------------------------
\* Kinds.

Kinds == {"Struct", "Protocol", "Fn", "Var", "VarAssigner",
          "Method", "Property", "PropertyAssigner"}
Primitives == {"None", "Int", "UInt", "Float", "Bool", "Rune", "Type"}
StoredKinds == {"StoredVarGet", "StoredVarSet",
                "StoredPropertyGet", "StoredPropertySet"}
KindExs == Kinds \cup Primitives \cup StoredKinds \cup {"MethodReq"}

kindOf == [k \in KindExs |->
    CASE k \in Kinds -> k
      [] k \in Primitives -> "Struct"
      [] k = "MethodReq" -> "Method"
      [] k = "StoredVarGet" -> "Var"
      [] k = "StoredVarSet" -> "VarAssigner"
      [] k = "StoredPropertyGet" -> "Property"
      [] OTHER -> "PropertyAssigner"]

HasCallSig(k) == kindOf[k] \notin {"Struct", "Protocol"}
HasUserDefinedCallSig(k) == kindOf[k] \in {"Fn", "Method"}
IsMember(k) == kindOf[k] \in {"Method", "Property", "PropertyAssigner"}
CanHaveMembers(k) == kindOf[k] \in {"Struct", "Protocol"}
CanHaveTypeParams(k) == kindOf[k] \in {"Struct", "Protocol", "Fn"}

----------------------------------------------------------------------------
\* Names and symbols.

HostName(b) == <<b, "">>
AssignerOf(n) == <<n[1], "$assigner">>
InitOf(n) == <<n[1], "$init">>
Legal(n) == n[2] = "" /\ n \notin Illegal

ownerName(ln) == ln[1]
memberName(ln) == ln[2]

SelfSym == <<"self">>
SelfMember(m) == <<"self", m>>
Here(n) == <<"here", n>>
NoneSym == <<"yama", "None">>
NoSym == <<"none">>                 \* std::nullopt where a symbol is optional

----------------------------------------------------------------------------
\* Constant tables.

Elements(s) == {s[i] : i \in 1 .. Len(s)}
fetch(consts, sym) == CHOOSE i \in 1 .. Len(consts) : consts[i] = sym

pull(consts, sym) == IF sym \in Elements(consts) THEN consts ELSE Append(consts, sym)

\* The table of t has sym, and i is its index.
Pulled(t, sym) == [t EXCEPT !.consts = pull(@, sym)]
IndexIn(t, sym) == fetch(pull(t.consts, sym), sym)

----------------------------------------------------------------------------
\* TypeInfo.

\* TypeInfo::TypeInfo. A member knows its owner as $Self, and the assigner of a
\* var knows the var.
New(k, ln) ==
    LET own == IF IsMember(k) THEN SelfSym
               ELSE IF kindOf[k] = "VarAssigner" THEN Here(HostName(ln[1][1]))
               ELSE NoSym
    IN [kind |-> k,
        slots |-> 0,
        consts |-> IF own = NoSym THEN <<>> ELSE <<own>>,
        refs |-> <<>>,              \* constants, by the YmRef handed out
        typeParams |-> <<>>,        \* [name, const], the const its constraint
        members |-> <<>>,           \* [name, const]
        params |-> <<>>,            \* [name, const, named]
        definingNamed |-> FALSE,
        user |-> NoUser,            \* the slot of a stored property, the index of a req.
        return |-> 0,
        assigner |-> 0,
        initializer |-> 0,
        owner |-> IF IsMember(k) THEN 1 ELSE 0,
        var |-> IF kindOf[k] = "VarAssigner" THEN 1 ELSE 0]

HasName(entries, n) == \E i \in 1 .. Len(entries) : entries[i].name = n

positionalParams(t) == Cardinality({i \in 1 .. Len(t.params) : ~ t.params[i].named})
namedParams(t) == Len(t.params) - positionalParams(t)

isMethodReq(t) == t.kind = "MethodReq"
isRegularStruct(t) == t.kind = "Struct"
hasDefaultValue(t) == t.kind \in Primitives \/ (isRegularStruct(t) /\ t.slots = 0)

nextSlot(t) == [t EXCEPT !.slots = @ + 1]

\* Fault: a slot that was reserved for a declaration that failed is kept.
KeepSlots(t) == t

unwindSlots(t) == [t EXCEPT !.slots = IF @ > 0 THEN @ - 1 ELSE 0]

\* _Call::addParam and _TypeParams::add come after the symbol is in the table.
CanAddParam(t, n) ==
    /\ HasCallSig(t.kind)
    /\ ~ HasName(t.params, n)
    /\ IF t.definingNamed THEN namedParams(t) < MaxNamed
                          ELSE positionalParams(t) < MaxPositional

WithParam(t, n, sym) ==
    [Pulled(t, sym) EXCEPT
        !.params = Append(@, [name |-> n, const |-> IndexIn(t, sym),
                              named |-> t.definingNamed])]

WithTypeParam(t, n, sym) ==
    [Pulled(t, sym) EXCEPT
        !.typeParams = Append(@, [name |-> n, const |-> IndexIn(t, sym)])]

WithMember(t, m) ==
    [Pulled(t, SelfMember(m)) EXCEPT
        !.members = Append(@, [name |-> m, const |-> IndexIn(t, SelfMember(m))])]

WithRef(t, sym) ==
    [Pulled(t, sym) EXCEPT !.refs = Append(@, IndexIn(t, sym))]

\* A constraint may not be a type parameter, and may mention only those that
\* were added before it and the one it constrains.
ConstraintOK(t, n, sym) ==
    /\ sym \in LegalSyms
    /\ sym[1] # "param"
    /\ \A p \in ParamsIn[sym] : p = n \/ HasName(t.typeParams, p)

\* ParcelInfo::_setupCall; the assigner's symbol goes in before the return type's.
WithCall(t, user, ret, assigner) ==
    LET t1 == IF assigner = NoSym THEN t ELSE Pulled(t, assigner)
    IN [Pulled(t1, ret) EXCEPT
            !.user = user,
            !.return = IndexIn(t1, ret),
            !.assigner = IF assigner = NoSym THEN 0 ELSE IndexIn(t, assigner)]

\* ParcelInfo::_setupVar.
WithInitializer(t, sym) ==
    IF sym = NoSym THEN t
    ELSE [Pulled(t, sym) EXCEPT !.initializer = IndexIn(t, sym)]
================================================================================
