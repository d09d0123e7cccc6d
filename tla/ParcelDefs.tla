------------------------------ MODULE ParcelDefs ------------------------------
(***************************************************************************)
(* A parcel definition being filled in (Yama/internal/YmParcelDef.cpp and  *)
(* ParcelInfo.cpp, behind ymParcelDef_* of Yama/yama/yama.cpp).            *)
(*                                                                         *)
(* The definition is [types, ok, id]: the types by local name, whether the *)
(* last call succeeded, and the index it answered. Each call is an         *)
(* operator from a definition to a definition, so that the calls that are  *)
(* made of others (a var is up to three types, a property up to two) are   *)
(* composed as the code composes them, ignored results included.           *)
(***************************************************************************)
EXTENDS TypeInfos, FiniteSetsExt

CONSTANTS
    OwnerNames,     \* names the host gives to owner types
    MemberNames,    \* ... and to members, parameters and type parameters
    TypeNames,      \* local names the host passes to name a type
    TypeSyms,       \* symbols it passes for the type of a var, property or result
    ParamSyms,      \* ... for the type of a parameter
    Constraints,    \* ... for the constraint of a type parameter
    RefSyms,        \* ... for a reference
    MaxSize         \* bound: types, parameters and references of the definition

\* A host's name is a pair as well; the names and the symbols the program itself
\* passes are legal.
ASSUME NamesAssumption ==
    /\ \A n \in OwnerNames \cup MemberNames : n = <<n[1], n[2]>>
    /\ {HostName("self"), HostName("x")} \cap Illegal = {}
    /\ {SelfSym, NoneSym} \subseteq LegalSyms

VARIABLE def

vars == def

Fails(d) == [d EXCEPT !.ok = FALSE, !.id = 0]
Answers(types, id) == [types |-> types, ok |-> TRUE, id |-> id]
With(d, ln, t) == [d EXCEPT !.types[ln] = t]
Has(d, ln) == ln \in DOMAIN d.types

----------------------------------------------------------------------------
\* ParcelInfo: types.

NoMemberLevelNameConflict(t, n) ==
    /\ n # HostName("Self")
    /\ ~ HasName(t.typeParams, n)
    /\ ~ HasName(t.members, n)

CanMakeOwner(d, n, skip) == (skip \/ Legal(n)) /\ ~ Has(d, <<n>>)

CanMakeMember(d, k, o, m, skip) ==
    /\ skip \/ Legal(m)
    /\ Has(d, o)
    /\ LET owner == d.types[o] IN
        /\ NoMemberLevelNameConflict(owner, m)
        /\ CanHaveMembers(owner.kind)
        /\ kindOf[k] = "Method" => (k = "MethodReq" <=> owner.kind = "Protocol")
        /\ kindOf[k] = "Property" => owner.kind # "Protocol"
        /\ ~ Has(d, <<o, m>>)

CanMake(d, k, ln, skip) ==
    IF Len(ln) = 1 THEN CanMakeOwner(d, ln[1], skip)
                   ELSE CanMakeMember(d, k, ownerName(ln), memberName(ln), skip)

\* _registerType; a member goes into its owner's list.
Register(d, ln, t) ==
    LET types == [l \in DOMAIN d.types \cup {ln} |-> IF l = ln THEN t ELSE d.types[l]]
    IN Answers(
        IF Len(ln) = 1 THEN types
        ELSE [types EXCEPT ![ownerName(ln)] = WithMember(@, memberName(ln))],
        0)

addType(d, k, n) ==
    IF CanMake(d, k, <<n>>, FALSE) THEN Register(d, <<n>>, New(k, <<n>>)) ELSE Fails(d)

\* Fault: a type is registered before the type of its result is looked at.
RegisterFirst(d, k, ln, user, ret, assigner, initializer, skip) ==
    IF ~ CanMake(d, k, ln, skip) THEN Fails(d)
    ELSE IF ret \in LegalSyms
    THEN Register(d, ln,
            WithInitializer(WithCall(New(k, ln), user, ret, assigner), initializer))
    ELSE Fails(Register(d, ln, New(k, ln)))

\* addType and addVarType with call behaviour.
addCallable(d, k, ln, user, ret, assigner, initializer, skip) ==
    IF CanMake(d, k, ln, skip) /\ ret \in LegalSyms
    THEN Register(d, ln,
            WithInitializer(WithCall(New(k, ln), user, ret, assigner), initializer))
    ELSE Fails(d)

----------------------------------------------------------------------------
\* ParcelInfo: what is added to types. A symbol stays in the constant table of
\* a type when the parameter it was for turns out not to fit.

addTypeParam(d, ln, n, sym) ==
    IF /\ Has(d, ln) /\ Legal(n)
       /\ NoMemberLevelNameConflict(d.types[ln], n)
       /\ CanHaveTypeParams(d.types[ln].kind)
       /\ ConstraintOK(d.types[ln], n, sym)
    THEN LET t == d.types[ln] IN
         IF Len(t.typeParams) < MaxTypeParams
         THEN Answers(With(d, ln, WithTypeParam(t, n, sym)).types, Len(t.typeParams))
         ELSE Fails(With(d, ln, Pulled(t, sym)))
    ELSE Fails(d)

addParam(d, ln, n, sym, skip) ==
    IF /\ Has(d, ln) /\ Legal(n)
       /\ skip \/ HasUserDefinedCallSig(d.types[ln].kind)
       /\ sym \in LegalSyms
    THEN LET t == d.types[ln] IN
         IF CanAddParam(t, n)
         THEN Answers(With(d, ln, WithParam(t, n, sym)).types, Len(t.params))
         ELSE Fails(With(d, ln, Pulled(t, sym)))
    ELSE Fails(d)

beginNamedParams(d, ln) ==
    IF /\ Has(d, ln)
       /\ kindOf[d.types[ln].kind] \notin {"Property", "PropertyAssigner"}
       /\ HasCallSig(d.types[ln].kind)
       /\ ~ isMethodReq(d.types[ln])
    THEN Answers(With(d, ln, [d.types[ln] EXCEPT !.definingNamed = TRUE]).types, 0)
    ELSE Fails(d)

\* The limit is on the constants; YmRef is cut off at its width.
addRef(d, ln, sym) ==
    IF /\ Has(d, ln) /\ sym \in LegalSyms
       /\ sym \in Elements(d.types[ln].consts) \/ Len(d.types[ln].consts) < RefLimit
    THEN Answers(With(d, ln, WithRef(d.types[ln], sym)).types,
                 Len(d.types[ln].refs) % (RefLimit + 1))
    ELSE Fails(d)

----------------------------------------------------------------------------
\* YmParcelDef: vars and properties.

\* Fault: a var that can be assigned has no initializer.
ReadOnlyInit(d, n, sym, getK, setK) ==
    LET writable == setK # "None"
        stored == getK = "StoredVarGet"
        d1 == addCallable(d, getK, <<n>>, NoUser, sym,
                IF writable THEN Here(AssignerOf(n)) ELSE NoSym,
                IF stored THEN Here(InitOf(n)) ELSE NoSym, FALSE)
        set == <<AssignerOf(n)>>
        d2 == IF writable
              THEN addParam(
                    addCallable(d1, setK, set, NoUser, NoneSym, NoSym, NoSym, TRUE),
                    set, HostName("x"), sym, TRUE)
              ELSE addCallable(d1, "Fn", <<InitOf(n)>>, NoUser, sym, NoSym, NoSym, TRUE)
    IN IF d1.ok THEN Answers(d2.types, 0) ELSE d1

\* _addReadOnlyVar and _addVar: the getter, its assigner, and the function that
\* gives a stored var its first value.
addVar(d, n, sym, getK, setK) ==
    LET stored == getK = "StoredVarGet"
        writable == setK # "None"
        d1 == addCallable(d, getK, <<n>>, NoUser, sym,
                IF writable THEN Here(AssignerOf(n)) ELSE NoSym,
                IF stored THEN Here(InitOf(n)) ELSE NoSym, FALSE)
        set == <<AssignerOf(n)>>
        d2 == IF writable
              THEN addParam(
                    addCallable(d1, setK, set, NoUser, NoneSym, NoSym, NoSym, TRUE),
                    set, HostName("x"), sym, TRUE)
              ELSE d1
        d3 == IF stored
              THEN addCallable(d2, "Fn", <<InitOf(n)>>, NoUser, sym, NoSym, NoSym, TRUE)
              ELSE d2
    IN IF d1.ok THEN Answers(d3.types, 0) ELSE d1

\* _addReadOnlyProperty and _addProperty.
addProperty(d, o, m, sym, user, getK, setK) ==
    LET writable == setK # "None"
        get == <<o, m>>
        set == <<o, AssignerOf(m)>>
        d1 == addCallable(d, getK, get, user, sym,
                IF writable THEN SelfMember(AssignerOf(m)) ELSE NoSym, NoSym, FALSE)
        d2 == addParam(d1, get, HostName("self"), SelfSym, TRUE)
        d3 == addCallable(d2, setK, set, user, NoneSym, NoSym, NoSym, TRUE)
        d4 == addParam(addParam(d3, set, HostName("self"), SelfSym, TRUE),
                       set, HostName("x"), sym, TRUE)
    IN IF ~ d1.ok THEN d1
       ELSE Answers(IF writable THEN d4.types ELSE d2.types, 0)

\* A stored property takes the next slot of its owner, and gives it back if its
\* declaration fails.
addStoredProperty(d, o, m, sym, setK) ==
    LET slot == IF Has(d, o) THEN d.types[o].slots ELSE 0
        d1 == IF Has(d, o) THEN With(d, o, nextSlot(d.types[o])) ELSE d
        d2 == addProperty(d1, o, m, sym, slot, "StoredPropertyGet", setK)
    IN IF d2.ok \/ ~ Has(d, o) THEN d2
       ELSE With(d2, o, unwindSlots(d2.types[o]))

\* Fault: a requirement counts the types of the definition, not its siblings.
ReqCountsTypes(d, o, m, sym) ==
    addCallable(d, "MethodReq", <<o, m>>,
        IF Has(d, o) THEN Cardinality(DOMAIN d.types) - 1 ELSE NoUser,
        sym, NoSym, NoSym, FALSE)

addMethodReq(d, o, m, sym) ==
    addCallable(d, "MethodReq", <<o, m>>,
        IF Has(d, o) THEN Len(d.types[o].members) ELSE NoUser,
        sym, NoSym, NoSym, FALSE)

----------------------------------------------------------------------------
\* The calls of the host.

Init == def = [types |-> <<>>, ok |-> TRUE, id |-> 0]

Size(d) ==
    LET entries(ln) == LET t == d.types[ln] IN
            1 + Len(t.typeParams) + Len(t.refs)
              + IF HasUserDefinedCallSig(t.kind) THEN Len(t.params) ELSE 0
    IN MapThenSumSet(entries, DOMAIN d.types)

Call(d) == Size(d) <= MaxSize /\ def' = d

AddStruct == \E n \in OwnerNames : Call(addType(def, "Struct", n))

AddProtocol == \E n \in OwnerNames : Call(addType(def, "Protocol", n))

AddFn ==
    \E n \in OwnerNames, ret \in TypeSyms :
        Call(addCallable(def, "Fn", <<n>>, NoUser, ret, NoSym, NoSym, FALSE))

AddReadOnlyStoredVar ==
    \E n \in OwnerNames, sym \in TypeSyms :
        Call(addVar(def, n, sym, "StoredVarGet", "None"))

AddStoredVar ==
    \E n \in OwnerNames, sym \in TypeSyms :
        Call(addVar(def, n, sym, "StoredVarGet", "StoredVarSet"))

AddReadOnlyComputedVar ==
    \E n \in OwnerNames, sym \in TypeSyms : Call(addVar(def, n, sym, "Var", "None"))

AddComputedVar ==
    \E n \in OwnerNames, sym \in TypeSyms : Call(addVar(def, n, sym, "Var", "VarAssigner"))

AddMethod ==
    \E o \in TypeNames, m \in MemberNames, ret \in TypeSyms :
        Call(addCallable(def, "Method", <<o, m>>, NoUser, ret, NoSym, NoSym, FALSE))

AddMethodReq ==
    \E o \in TypeNames, m \in MemberNames, ret \in TypeSyms : Call(addMethodReq(def, o, m, ret))

AddReadOnlyStoredProperty ==
    \E o \in TypeNames, m \in MemberNames, sym \in TypeSyms :
        Call(addStoredProperty(def, o, m, sym, "None"))

AddStoredProperty ==
    \E o \in TypeNames, m \in MemberNames, sym \in TypeSyms :
        Call(addStoredProperty(def, o, m, sym, "StoredPropertySet"))

AddReadOnlyComputedProperty ==
    \E o \in TypeNames, m \in MemberNames, sym \in TypeSyms :
        Call(addProperty(def, o, m, sym, NoUser, "Property", "None"))

AddComputedProperty ==
    \E o \in TypeNames, m \in MemberNames, sym \in TypeSyms :
        Call(addProperty(def, o, m, sym, NoUser, "Property", "PropertyAssigner"))

AddTypeParam ==
    \E ln \in TypeNames, n \in MemberNames, sym \in Constraints :
        Call(addTypeParam(def, ln, n, sym))

AddParam ==
    \E ln \in TypeNames, n \in MemberNames, sym \in ParamSyms :
        Call(addParam(def, ln, n, sym, FALSE))

BeginNamedParams == \E ln \in TypeNames : Call(beginNamedParams(def, ln))

AddRef == \E ln \in TypeNames, sym \in RefSyms : Call(addRef(def, ln, sym))

Next ==
    \/ AddStruct \/ AddProtocol \/ AddFn
    \/ AddReadOnlyStoredVar \/ AddStoredVar
    \/ AddReadOnlyComputedVar \/ AddComputedVar
    \/ AddMethod \/ AddMethodReq
    \/ AddReadOnlyStoredProperty \/ AddStoredProperty
    \/ AddReadOnlyComputedProperty \/ AddComputedProperty
    \/ AddTypeParam \/ AddParam \/ BeginNamedParams \/ AddRef

Spec == Init /\ [][Next]_vars

----------------------------------------------------------------------------
\* Properties.

Types == DOMAIN def.types
ConstAt(t, i) == t.consts[i]

\* The constants a type refers to, by the index it keeps for each.
IndicesOf(t) ==
    Elements(t.refs)
    \cup {e.const : e \in Elements(t.params) \cup Elements(t.typeParams) \cup Elements(t.members)}
    \cup ({t.return, t.assigner, t.initializer, t.owner, t.var} \ {0})

\* The stored properties of a struct have the slots 0 .. slots - 1, one each,
\* whatever declarations failed in between, and a property and its assigner use
\* the same one: StructInit fills the slots in this order and cleanup releases
\* as many as there are.
SlotsNumberStoredProperties ==
    \A o \in Types :
        LET of(k) == {ln \in Types : Len(ln) = 2 /\ ln[1] = o /\ def.types[ln].kind = k}
            getters == of("StoredPropertyGet")
        IN /\ {def.types[ln].user : ln \in getters} = 0 .. def.types[o].slots - 1
           /\ Cardinality(getters) = def.types[o].slots
           /\ \A ln \in of("StoredPropertySet") : \E g \in getters :
                 /\ ln[2] = AssignerOf(g[2])
                 /\ def.types[ln].user = def.types[g].user

\* A protocol has requirements only and nothing else has any; the index a
\* requirement passes to its behaviour, by which a call finds its entry in the
\* protocol table, is its place among the members of its protocol.
RequirementsIndexTheirTable ==
    \A o \in Types : LET t == def.types[o] IN
        \A i \in 1 .. Len(t.members) :
            LET m == def.types[<<o, t.members[i].name>>] IN
            /\ isMethodReq(m) <=> t.kind = "Protocol"
            /\ isMethodReq(m) => m.user = i - 1

\* A symbol that names another type of the same definition.
Target(ln, sym) ==
    IF sym[1] = "here" THEN <<sym[2]>>
    ELSE IF Len(sym) = 2 THEN <<IF Len(ln) = 2 THEN ln[1] ELSE ln, sym[2]>>
    ELSE IF Len(ln) = 2 THEN ln[1] ELSE ln

Symbol(t, i) == ConstAt(t, t.params[i].const)

\* What a declaration promises is declared with it: a getter's assigner takes
\* what the getter returns, knows its var, and returns nothing; a stored var
\* has an initializer that returns its type.
PartnersAreDeclared ==
    \A ln \in Types : LET t == def.types[ln] IN
        /\ t.assigner # 0 =>
            LET a == Target(ln, ConstAt(t, t.assigner)) IN
            /\ a \in Types
            /\ LET s == def.types[a] IN
                /\ kindOf[s.kind] = IF IsMember(t.kind) THEN "PropertyAssigner" ELSE "VarAssigner"
                /\ (s.kind \in StoredKinds) <=> (t.kind \in StoredKinds)
                /\ ConstAt(s, s.return) = NoneSym
                /\ Len(s.params) = IF IsMember(t.kind) THEN 2 ELSE 1
                /\ IsMember(t.kind) => Symbol(s, 1) = SelfSym
                /\ Symbol(s, Len(s.params)) = ConstAt(t, t.return)
                /\ ~ IsMember(t.kind) => Target(a, ConstAt(s, s.var)) = ln
        /\ kindOf[t.kind] = "Property" =>
            Len(t.params) = 1 /\ Symbol(t, 1) = SelfSym
        /\ kindOf[t.kind] = "Var" => Len(t.params) = 0
        /\ (t.kind = "StoredVarGet") <=> (t.initializer # 0)
        /\ t.initializer # 0 =>
            LET i == Target(ln, ConstAt(t, t.initializer)) IN
            /\ i \in Types /\ def.types[i].kind = "Fn"
            /\ ConstAt(def.types[i], def.types[i].return) = ConstAt(t, t.return)

\* All that a definition declares; its constants are how it is stored.
Declared(d) ==
    [ln \in DOMAIN d.types |-> [f \in DOMAIN d.types[ln] \ {"consts"} |-> d.types[ln][f]]]

\* A call that fails declares nothing: no half of a var or a property, no slot,
\* no member. (It may leave a constant that nothing refers to.)
FailedCallsDeclareNothing == [][def'.ok \/ Declared(def') = Declared(def)]_vars

================================================================================
