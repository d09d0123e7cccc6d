---------------------------- MODULE ParcelDefProofs ----------------------------
(***************************************************************************)
(* Proofs about ParcelDefs, for any names, symbols and limits and any      *)
(* sequence of calls: what a definition says of a type is always complete  *)
(* and a call that fails says nothing. And about DefBinding: what is loaded *)
(* from a bound definition stays true of it, if the host does not amend it. *)
(***************************************************************************)
EXTENDS DefBinding, TLAPS, FiniteSetTheorems

----------------------------------------------------------------------------
\* The values a definition is made of.

Bases == {n[1] : n \in OwnerNames \cup MemberNames} \cup {"self", "x"}
Suffixes == {"", "$assigner", "$init"}
Names == {<<b, suffix>> : b \in Bases, suffix \in Suffixes}
OwnerLNs == {<<n>> : n \in Names}
MemberLNs == {<<o, m>> : o \in OwnerLNs, m \in Names}
LocalNames == OwnerLNs \cup MemberLNs

Symbols == LegalSyms \cup {SelfSym} \cup {SelfMember(n) : n \in Names} \cup {Here(n) : n \in Names}

Entry == [name : Names, const : Nat]
ParamEntry == [name : Names, const : Nat, named : BOOLEAN]
TypeInfo ==
    [kind : KindExs, slots : Nat, consts : Seq(Symbols), refs : Seq(Nat),
     typeParams : Seq(Entry), members : Seq(Entry), params : Seq(ParamEntry),
     definingNamed : BOOLEAN, user : Nat \cup {NoUser}, return : Nat,
     assigner : Nat, initializer : Nat, owner : Nat, var : Nat]

\* Every constant a type refers to is in its table; what can be called has a
\* return type; only structs and protocols have members; and the names of type
\* params are the host's.
IndicesOK(t) ==
    /\ \A i \in 1 .. Len(t.refs) : t.refs[i] \in 1 .. Len(t.consts)
    /\ \A i \in 1 .. Len(t.params) : t.params[i].const \in 1 .. Len(t.consts)
    /\ \A i \in 1 .. Len(t.typeParams) : t.typeParams[i].const \in 1 .. Len(t.consts)
    /\ \A i \in 1 .. Len(t.members) : t.members[i].const \in 1 .. Len(t.consts)
    /\ t.return <= Len(t.consts) /\ t.assigner <= Len(t.consts)
    /\ t.initializer <= Len(t.consts)
    /\ t.owner <= Len(t.consts) /\ t.var <= Len(t.consts)

TypeOK(t) ==
    /\ t \in TypeInfo
    /\ IndicesOK(t)
    /\ HasCallSig(t.kind) => t.return # 0
    /\ Len(t.members) # 0 => CanHaveMembers(t.kind)
    /\ \A i \in 1 .. Len(t.typeParams) : t.typeParams[i].name[2] = ""

DefOK(d) ==
    /\ DOMAIN d = {"types", "ok", "id"}
    /\ d.ok \in BOOLEAN
    /\ DOMAIN d.types \in SUBSET LocalNames
    /\ IsFiniteSet(DOMAIN d.types)
    /\ d.types = [ln \in DOMAIN d.types |-> d.types[ln]]
    /\ \A ln \in DOMAIN d.types : TypeOK(d.types[ln])

\* Owners and members, by the names they go by: a member's owner is declared, a
\* member that is listed is declared, and a name the program derived is that of
\* something whose own name is declared too.
MembersOf(d, o) ==
    \A i \in 1 .. Len(d.types[o].members) :
        /\ <<o, d.types[o].members[i].name>> \in DOMAIN d.types
        /\ isMethodReq(d.types[<<o, d.types[o].members[i].name>>])
              <=> d.types[o].kind = "Protocol"
        /\ isMethodReq(d.types[<<o, d.types[o].members[i].name>>])
              => d.types[<<o, d.types[o].members[i].name>>].user = i - 1

NamesOK(d) ==
    /\ \A o \in DOMAIN d.types : MembersOf(d, o)
    /\ \A ln \in DOMAIN d.types \cap MemberLNs :
        /\ ln[1] \in DOMAIN d.types
        /\ IsMember(d.types[ln].kind)
        /\ ln[2][2] # "" => <<ln[1], HostName(ln[2][1])>> \in DOMAIN d.types
    /\ \A ln \in DOMAIN d.types \cap OwnerLNs :
        /\ ~ IsMember(d.types[ln].kind)
        /\ ln[1][2] # "" => <<HostName(ln[1][1])>> \in DOMAIN d.types

BaseInv(d) == DefOK(d) /\ NamesOK(d)

\* The slots of a struct, by its stored properties.
Stored(d, o, k) == {ln \in DOMAIN d.types : Len(ln) = 2 /\ ln[1] = o /\ d.types[ln].kind = k}

SlotsOf(d, o) ==
    /\ {d.types[ln].user : ln \in Stored(d, o, "StoredPropertyGet")} = 0 .. d.types[o].slots - 1
    /\ Cardinality(Stored(d, o, "StoredPropertyGet")) = d.types[o].slots
    /\ \A ln \in Stored(d, o, "StoredPropertySet") :
        \E g \in Stored(d, o, "StoredPropertyGet") :
            ln[2] = AssignerOf(g[2]) /\ d.types[ln].user = d.types[g].user

SlotsInv(d) == \A o \in DOMAIN d.types : SlotsOf(d, o)

\* What the declaration of ln promises, by the names the program derives.
AssignerLN(ln) == IF Len(ln) = 1 THEN <<AssignerOf(ln[1])>> ELSE <<ln[1], AssignerOf(ln[2])>>
InitLN(ln) == <<InitOf(ln[1])>>
AssignerSym(ln) == IF Len(ln) = 1 THEN Here(AssignerOf(ln[1])) ELSE SelfMember(AssignerOf(ln[2]))

Assigns(t, s) ==
    /\ kindOf[s.kind] = IF IsMember(t.kind) THEN "PropertyAssigner" ELSE "VarAssigner"
    /\ (s.kind \in StoredKinds) <=> (t.kind \in StoredKinds)
    /\ ConstAt(s, s.return) = NoneSym
    /\ Len(s.params) = IF IsMember(t.kind) THEN 2 ELSE 1
    /\ IsMember(t.kind) => Symbol(s, 1) = SelfSym
    /\ Symbol(s, Len(s.params)) = ConstAt(t, t.return)

PartnersOf(d, ln) ==
    /\ d.types[ln].assigner # 0 =>
        /\ HasCallSig(d.types[ln].kind)
        /\ ln \in MemberLNs <=> IsMember(d.types[ln].kind)
        /\ ConstAt(d.types[ln], d.types[ln].assigner) = AssignerSym(ln)
        /\ AssignerLN(ln) \in DOMAIN d.types
        /\ Assigns(d.types[ln], d.types[AssignerLN(ln)])
        /\ ln \notin MemberLNs =>
            /\ d.types[AssignerLN(ln)].var # 0
            /\ ConstAt(d.types[AssignerLN(ln)], d.types[AssignerLN(ln)].var) = Here(ln[1])
    /\ kindOf[d.types[ln].kind] = "Property" =>
        Len(d.types[ln].params) = 1 /\ Symbol(d.types[ln], 1) = SelfSym
    /\ kindOf[d.types[ln].kind] = "Var" => Len(d.types[ln].params) = 0
    /\ (d.types[ln].kind = "StoredVarGet") <=> (d.types[ln].initializer # 0)
    /\ d.types[ln].initializer # 0 =>
        /\ ln \notin MemberLNs
        /\ ConstAt(d.types[ln], d.types[ln].initializer) = Here(InitOf(ln[1]))
        /\ InitLN(ln) \in DOMAIN d.types
        /\ d.types[InitLN(ln)].kind = "Fn"
        /\ ConstAt(d.types[InitLN(ln)], d.types[InitLN(ln)].return)
            = ConstAt(d.types[ln], d.types[ln].return)

PartnersInv(d) == \A ln \in DOMAIN d.types : PartnersOf(d, ln)

DefInv(d) == BaseInv(d) /\ SlotsInv(d) /\ PartnersInv(d)

\* What was loaded, and made, of a bound definition.
LoadedInv ==
    /\ bound \in BOOLEAN
    /\ ~ bound => loaded = <<>> /\ objects = {}
    /\ DOMAIN loaded \in SUBSET DOMAIN def.types
    /\ \A ln \in DOMAIN loaded :
        /\ loaded[ln] = Len(def.types[ln].consts)
        /\ \A i \in 1 .. Len(def.types[ln].members) :
                <<ln, def.types[ln].members[i].name>> \in DOMAIN loaded
    /\ \A obj \in objects :
        obj[1] \in DOMAIN loaded /\ obj[2] = def.types[obj[1]].slots

----------------------------------------------------------------------------
\* Names.

LEMMA NameParts ==
    ASSUME NEW n \in Names
    PROVE  /\ n = <<n[1], n[2]>> /\ n[1] \in Bases
           /\ HostName(n[1]) \in Names /\ AssignerOf(n) \in Names /\ InitOf(n) \in Names
  <1>1. n = <<n[1], n[2]>> /\ n[1] \in Bases  BY DEF Names
  <1>2. \A b \in Bases, x \in Suffixes : <<b, x>> \in Names
    BY DEF Names
  <1>3. "" \in Suffixes /\ "$assigner" \in Suffixes /\ "$init" \in Suffixes
    BY DEF Suffixes
  <1> QED  BY <1>1, <1>2, <1>3 DEF HostName, AssignerOf, InitOf

LEMMA OwnerNameParts ==
    ASSUME NEW ln \in OwnerLNs
    PROVE  /\ ln = <<ln[1]>> /\ Len(ln) = 1 /\ ln[1] \in Names
           /\ ln \notin MemberLNs
  BY DEF OwnerLNs, MemberLNs

LEMMA MemberNameParts ==
    ASSUME NEW ln \in MemberLNs
    PROVE  /\ ln = <<ln[1], ln[2]>> /\ Len(ln) = 2 /\ ln[1] \in OwnerLNs /\ ln[2] \in Names
           /\ ln \notin OwnerLNs
  BY DEF OwnerLNs, MemberLNs

LEMMA MakeNames ==
    /\ \A n \in Names : <<n>> \in OwnerLNs
    /\ \A o \in OwnerLNs, m \in Names : <<o, m>> \in MemberLNs
  BY DEF OwnerLNs, MemberLNs

----------------------------------------------------------------------------
\* Kinds.

LEMMA KindOfEach ==
    /\ \A k \in KindExs : kindOf[k] \in Kinds
    /\ kindOf["Struct"] = "Struct" /\ kindOf["Protocol"] = "Protocol"
    /\ kindOf["Fn"] = "Fn" /\ kindOf["Method"] = "Method" /\ kindOf["MethodReq"] = "Method"
    /\ kindOf["Var"] = "Var" /\ kindOf["StoredVarGet"] = "Var"
    /\ kindOf["VarAssigner"] = "VarAssigner" /\ kindOf["StoredVarSet"] = "VarAssigner"
    /\ kindOf["Property"] = "Property" /\ kindOf["StoredPropertyGet"] = "Property"
    /\ kindOf["PropertyAssigner"] = "PropertyAssigner"
    /\ kindOf["StoredPropertySet"] = "PropertyAssigner"
    /\ {"Struct", "Protocol", "Fn", "Method", "MethodReq", "Var", "StoredVarGet",
        "VarAssigner", "StoredVarSet", "Property", "StoredPropertyGet",
        "PropertyAssigner", "StoredPropertySet"} \subseteq KindExs
  BY DEF KindExs, Kinds, Primitives, StoredKinds, kindOf

\* A kind that names itself, but for those whose behaviour the program has.
LEMMA KindsThatReq ==
    ASSUME NEW k \in KindExs
    PROVE  /\ k = "MethodReq" => kindOf[k] = "Method"
           /\ k \in {"StoredPropertyGet", "StoredPropertySet"} => IsMember(k)
           /\ IsMember(k) => HasCallSig(k) /\ ~ CanHaveMembers(k)
           /\ HasUserDefinedCallSig(k) => HasCallSig(k)
           /\ CanHaveMembers(k) <=> ~ HasCallSig(k)
  BY KindOfEach DEF IsMember, HasCallSig, CanHaveMembers, HasUserDefinedCallSig, Kinds

----------------------------------------------------------------------------
\* Tables of constants.

\* s is a beginning of u.
Begins(s, u) == Len(s) <= Len(u) /\ \A i \in 1 .. Len(s) : u[i] = s[i]

LEMMA PullFinds ==
    ASSUME NEW consts \in Seq(Symbols), NEW sym \in Symbols
    PROVE  /\ pull(consts, sym) \in Seq(Symbols)
           /\ Begins(consts, pull(consts, sym))
           /\ fetch(pull(consts, sym), sym) \in 1 .. Len(pull(consts, sym))
           /\ pull(consts, sym)[fetch(pull(consts, sym), sym)] = sym
  <1>1. pull(consts, sym) \in Seq(Symbols) /\ Begins(consts, pull(consts, sym))
    BY DEF pull, Begins
  <1>2. \E i \in 1 .. Len(pull(consts, sym)) : pull(consts, sym)[i] = sym
    <2>1. CASE sym \in Elements(consts)
      BY <2>1 DEF pull, Elements
    <2>2. CASE sym \notin Elements(consts)
      <3>1. pull(consts, sym) = Append(consts, sym)  BY <2>2 DEF pull
      <3>2. Append(consts, sym)[Len(consts) + 1] = sym  OBVIOUS
      <3> QED  BY <3>1, <3>2
    <2> QED  BY <2>1, <2>2
  <1>3. fetch(pull(consts, sym), sym)
            = CHOOSE i \in 1 .. Len(pull(consts, sym)) : pull(consts, sym)[i] = sym
    BY DEF fetch
  <1> QED  BY <1>1, <1>2, <1>3

LEMMA BeginsIsTransitive ==
    ASSUME NEW s \in Seq(Symbols), NEW u \in Seq(Symbols), NEW v \in Seq(Symbols),
           Begins(s, u), Begins(u, v)
    PROVE  Begins(s, v)
  BY DEF Begins

----------------------------------------------------------------------------
\* What is added to a type keeps what its declaration said.

KeepsDecl(t, u) ==
    /\ u.kind = t.kind /\ u.user = t.user /\ u.return = t.return
    /\ u.assigner = t.assigner /\ u.initializer = t.initializer
    /\ u.owner = t.owner /\ u.var = t.var
    /\ Begins(t.consts, u.consts)

KeepsParams(t, u) == u.params = t.params

Shape(t) == t \in TypeInfo /\ IndicesOK(t)

LEMMA PulledIs ==
    ASSUME NEW t, Shape(t), NEW sym \in Symbols
    PROVE  /\ Shape(Pulled(t, sym)) /\ KeepsDecl(t, Pulled(t, sym))
           /\ Pulled(t, sym).slots = t.slots /\ Pulled(t, sym).refs = t.refs
           /\ Pulled(t, sym).typeParams = t.typeParams
           /\ Pulled(t, sym).members = t.members /\ Pulled(t, sym).params = t.params
           /\ Pulled(t, sym).definingNamed = t.definingNamed
           /\ IndexIn(t, sym) \in 1 .. Len(Pulled(t, sym).consts)
           /\ Pulled(t, sym).consts[IndexIn(t, sym)] = sym
  <1> DEFINE u == Pulled(t, sym)
  <1>1. t \in TypeInfo /\ t.consts \in Seq(Symbols)  BY DEF Shape, TypeInfo
  <1>2. u = [t EXCEPT !.consts = pull(t.consts, sym)]  BY DEF Pulled
  <1>3. /\ pull(t.consts, sym) \in Seq(Symbols)
        /\ Begins(t.consts, pull(t.consts, sym))
        /\ IndexIn(t, sym) \in 1 .. Len(pull(t.consts, sym))
        /\ pull(t.consts, sym)[IndexIn(t, sym)] = sym
    BY <1>1, PullFinds DEF IndexIn
  <1>4. /\ u \in TypeInfo /\ u.consts = pull(t.consts, sym)
        /\ u.kind = t.kind /\ u.slots = t.slots /\ u.refs = t.refs
        /\ u.typeParams = t.typeParams /\ u.members = t.members /\ u.params = t.params
        /\ u.definingNamed = t.definingNamed /\ u.user = t.user /\ u.return = t.return
        /\ u.assigner = t.assigner /\ u.initializer = t.initializer
        /\ u.owner = t.owner /\ u.var = t.var
    BY <1>1, <1>2, <1>3 DEF TypeInfo
  <1> HIDE DEF u
  <1>5. Len(t.consts) \in Nat /\ Len(u.consts) \in Nat /\ Len(t.consts) <= Len(u.consts)
    BY <1>1, <1>3, <1>4 DEF Begins
  <1>6. IndicesOK(u)
    <2>1. IndicesOK(t)  BY DEF Shape
    <2>2. \A c \in Nat : c <= Len(t.consts) => c <= Len(u.consts)  BY <1>5
    <2>3. \A c : c \in 1 .. Len(t.consts) => c \in 1 .. Len(u.consts)  BY <1>5
    <2>4. /\ t.return \in Nat /\ t.assigner \in Nat /\ t.initializer \in Nat
          /\ t.owner \in Nat /\ t.var \in Nat
      BY <1>1 DEF TypeInfo
    <2> QED  BY <1>4, <2>1, <2>2, <2>3, <2>4 DEF IndicesOK
  <1>7. KeepsDecl(t, u)  BY <1>3, <1>4 DEF KeepsDecl
  <1> QED  BY <1>3, <1>4, <1>6, <1>7 DEF u, Shape

LEMMA PulledKeeps ==
    ASSUME NEW t, TypeOK(t), NEW sym \in Symbols
    PROVE  /\ TypeOK(Pulled(t, sym)) /\ KeepsDecl(t, Pulled(t, sym))
           /\ Pulled(t, sym).slots = t.slots /\ Pulled(t, sym).refs = t.refs
           /\ Pulled(t, sym).typeParams = t.typeParams
           /\ Pulled(t, sym).members = t.members /\ Pulled(t, sym).params = t.params
           /\ Pulled(t, sym).definingNamed = t.definingNamed
           /\ IndexIn(t, sym) \in 1 .. Len(Pulled(t, sym).consts)
           /\ Pulled(t, sym).consts[IndexIn(t, sym)] = sym
  <1>1. Shape(t)  BY DEF TypeOK, Shape
  <1>2. TypeOK(Pulled(t, sym))  BY <1>1, PulledIs DEF TypeOK, Shape, KeepsDecl
  <1> QED  BY <1>1, <1>2, PulledIs

\* Entries of one of the lists of a type, whose constants are inside n.
Inside(entries, n) == \A i \in 1 .. Len(entries) : entries[i].const \in 1 .. n

LEMMA AppendEntry ==
    ASSUME NEW S, NEW entries \in Seq(S), NEW e \in S
    PROVE  /\ Append(entries, e) \in Seq(S)
           /\ Len(Append(entries, e)) = Len(entries) + 1
           /\ Append(entries, e)[Len(entries) + 1] = e
           /\ \A i \in 1 .. Len(entries) : Append(entries, e)[i] = entries[i]
           /\ \A i \in 1 .. Len(entries) + 1 : i \in 1 .. Len(entries) \/ i = Len(entries) + 1
  OBVIOUS

LEMMA AppendInside ==
    ASSUME NEW S, NEW entries \in Seq(S), NEW e \in S, NEW n,
           Inside(entries, n), e.const \in 1 .. n
    PROVE  Inside(Append(entries, e), n)
  BY AppendEntry DEF Inside

LEMMA WithTypeParamKeeps ==
    ASSUME NEW t, TypeOK(t), NEW sym \in Symbols, NEW n \in Names, n[2] = ""
    PROVE  /\ TypeOK(WithTypeParam(t, n, sym)) /\ KeepsDecl(t, WithTypeParam(t, n, sym))
           /\ WithTypeParam(t, n, sym).slots = t.slots
           /\ WithTypeParam(t, n, sym).members = t.members
           /\ KeepsParams(t, WithTypeParam(t, n, sym))
  <1> DEFINE p == Pulled(t, sym)
             e == [name |-> n, const |-> IndexIn(t, sym)]
             l == Append(p.typeParams, e)
             u == [p EXCEPT !.typeParams = l]
  <1>1. /\ TypeOK(p) /\ KeepsDecl(t, p) /\ p.slots = t.slots
        /\ p.typeParams = t.typeParams /\ p.members = t.members /\ p.params = t.params
        /\ IndexIn(t, sym) \in 1 .. Len(p.consts)
    BY PulledKeeps
  <1>2. WithTypeParam(t, n, sym) = u  BY DEF WithTypeParam
  <1> HIDE DEF p
  <1>3. p \in TypeInfo /\ p.typeParams \in Seq(Entry) /\ p.consts \in Seq(Symbols)
    BY <1>1 DEF TypeOK, TypeInfo
  <1>4. e \in Entry /\ e.const \in 1 .. Len(p.consts) /\ e.name = n
    <2>1. IndexIn(t, sym) \in Nat  BY ONLY <1>1, <1>3
    <2> QED  BY ONLY <1>1, <2>1, n \in Names DEF Entry
  <1> HIDE DEF e
  <1>5. /\ l \in Seq(Entry) /\ Len(l) = Len(p.typeParams) + 1
        /\ l[Len(p.typeParams) + 1] = e
        /\ \A i \in 1 .. Len(p.typeParams) : l[i] = p.typeParams[i]
        /\ \A i \in 1 .. Len(l) : i \in 1 .. Len(p.typeParams) \/ i = Len(p.typeParams) + 1
    BY ONLY <1>3, <1>4, AppendEntry
  <1>6. Inside(l, Len(p.consts)) /\ \A i \in 1 .. Len(l) : l[i].name[2] = ""
    <2>1. Inside(p.typeParams, Len(p.consts))  BY <1>1 DEF TypeOK, IndicesOK, Inside
    <2>2. Inside(l, Len(p.consts))  BY <1>3, <1>4, <2>1, AppendInside
    <2>3. \A i \in 1 .. Len(p.typeParams) : p.typeParams[i].name[2] = ""
      BY <1>1 DEF TypeOK
    <2> HIDE DEF l
    <2>4. e.name[2] = ""  BY <1>4
    <2> QED  BY <1>5, <2>2, <2>3, <2>4
  <1> HIDE DEF l
  <1>7. /\ u \in TypeInfo /\ u.typeParams = l
        /\ u.kind = p.kind /\ u.slots = p.slots /\ u.refs = p.refs /\ u.consts = p.consts
        /\ u.members = p.members /\ u.params = p.params
        /\ u.user = p.user /\ u.return = p.return
        /\ u.assigner = p.assigner /\ u.initializer = p.initializer
        /\ u.owner = p.owner /\ u.var = p.var
    BY <1>3, <1>5 DEF TypeInfo
  <1> HIDE DEF u
  <1>8. TypeOK(u)  BY <1>1, <1>6, <1>7 DEF TypeOK, IndicesOK, Inside
  <1>9. KeepsDecl(t, u)  BY <1>1, <1>7 DEF KeepsDecl
  <1> QED  BY <1>1, <1>2, <1>7, <1>8, <1>9 DEF KeepsParams

LEMMA WithMemberKeeps ==
    ASSUME NEW t, TypeOK(t), NEW m \in Names, CanHaveMembers(t.kind)
    PROVE  /\ TypeOK(WithMember(t, m)) /\ KeepsDecl(t, WithMember(t, m))
           /\ WithMember(t, m).slots = t.slots
           /\ KeepsParams(t, WithMember(t, m))
           /\ Len(WithMember(t, m).members) = Len(t.members) + 1
           /\ WithMember(t, m).members[Len(t.members) + 1].name = m
           /\ \A i \in 1 .. Len(t.members) : WithMember(t, m).members[i] = t.members[i]
  <1> DEFINE sym == SelfMember(m)
             p == Pulled(t, sym)
             e == [name |-> m, const |-> IndexIn(t, sym)]
             l == Append(p.members, e)
             u == [p EXCEPT !.members = l]
  <1>1. sym \in Symbols  BY DEF Symbols
  <1>2. /\ TypeOK(p) /\ KeepsDecl(t, p) /\ p.slots = t.slots
        /\ p.typeParams = t.typeParams /\ p.members = t.members /\ p.params = t.params
        /\ IndexIn(t, sym) \in 1 .. Len(p.consts)
    BY <1>1, PulledKeeps
  <1>3. WithMember(t, m) = u  BY DEF WithMember
  <1> HIDE DEF p, sym
  <1>4. p \in TypeInfo /\ p.members \in Seq(Entry) /\ p.consts \in Seq(Symbols)
    BY <1>2 DEF TypeOK, TypeInfo
  <1>5. e \in Entry  BY <1>2, <1>4 DEF Entry
  <1>6. /\ l \in Seq(Entry) /\ Len(l) = Len(p.members) + 1
        /\ l[Len(p.members) + 1] = e
        /\ \A i \in 1 .. Len(p.members) : l[i] = p.members[i]
        /\ \A i \in 1 .. Len(l) : i \in 1 .. Len(p.members) \/ i = Len(p.members) + 1
    BY <1>4, <1>5, AppendEntry
  <1>7. e.const \in 1 .. Len(p.consts) /\ e.name = m  BY <1>2
  <1> HIDE DEF e
  <1>8. Inside(l, Len(p.consts))
    <2>1. Inside(p.members, Len(p.consts))  BY <1>2 DEF TypeOK, IndicesOK, Inside
    <2>2. e.const \in 1 .. Len(p.consts)  BY <1>2, <1>7
    <2> QED  BY <1>4, <1>5, <2>1, <2>2, AppendInside
  <1> HIDE DEF l
  <1>9. /\ u \in TypeInfo /\ u.members = l
        /\ u.kind = p.kind /\ u.slots = p.slots /\ u.refs = p.refs /\ u.consts = p.consts
        /\ u.typeParams = p.typeParams /\ u.params = p.params
        /\ u.user = p.user /\ u.return = p.return
        /\ u.assigner = p.assigner /\ u.initializer = p.initializer
        /\ u.owner = p.owner /\ u.var = p.var
    BY <1>4, <1>6 DEF TypeInfo
  <1> HIDE DEF u
  <1>10. KeepsDecl(t, u)  BY <1>2, <1>9 DEF KeepsDecl
  <1>11. TypeOK(u)  BY <1>2, <1>8, <1>9, <1>10 DEF TypeOK, IndicesOK, Inside, KeepsDecl
  <1> QED  BY <1>2, <1>3, <1>6, <1>7, <1>9, <1>10, <1>11 DEF KeepsParams

\* The new param is the last, and has the symbol that was given.
LEMMA WithParamKeeps ==
    ASSUME NEW t, TypeOK(t), NEW sym \in Symbols, NEW n \in Names
    PROVE  /\ TypeOK(WithParam(t, n, sym)) /\ KeepsDecl(t, WithParam(t, n, sym))
           /\ WithParam(t, n, sym).slots = t.slots
           /\ WithParam(t, n, sym).members = t.members
           /\ WithParam(t, n, sym).definingNamed = t.definingNamed
           /\ Len(WithParam(t, n, sym).params) = Len(t.params) + 1
           /\ Symbol(WithParam(t, n, sym), Len(t.params) + 1) = sym
           /\ WithParam(t, n, sym).params[Len(t.params) + 1].name = n
           /\ WithParam(t, n, sym).params[Len(t.params) + 1].named = t.definingNamed
           /\ \A i \in 1 .. Len(t.params) :
                /\ WithParam(t, n, sym).params[i] = t.params[i]
                /\ Symbol(WithParam(t, n, sym), i) = Symbol(t, i)
  <1> DEFINE p == Pulled(t, sym)
             e == [name |-> n, const |-> IndexIn(t, sym), named |-> t.definingNamed]
             l == Append(p.params, e)
             u == [p EXCEPT !.params = l]
  <1>1. /\ TypeOK(p) /\ KeepsDecl(t, p) /\ p.slots = t.slots
        /\ p.typeParams = t.typeParams /\ p.members = t.members /\ p.params = t.params
        /\ p.definingNamed = t.definingNamed
        /\ IndexIn(t, sym) \in 1 .. Len(p.consts) /\ p.consts[IndexIn(t, sym)] = sym
    BY PulledKeeps
  <1>2. WithParam(t, n, sym) = u  BY DEF WithParam
  <1> HIDE DEF p
  <1>3. /\ p \in TypeInfo /\ p.params \in Seq(ParamEntry) /\ p.consts \in Seq(Symbols)
        /\ p.definingNamed \in BOOLEAN
    BY <1>1 DEF TypeOK, TypeInfo
  <1>4. e \in ParamEntry  BY <1>1, <1>3 DEF ParamEntry
  <1>5. /\ l \in Seq(ParamEntry) /\ Len(l) = Len(p.params) + 1
        /\ l[Len(p.params) + 1] = e
        /\ \A i \in 1 .. Len(p.params) : l[i] = p.params[i]
        /\ \A i \in 1 .. Len(l) : i \in 1 .. Len(p.params) \/ i = Len(p.params) + 1
    BY <1>3, <1>4, AppendEntry
  <1>6. e.const = IndexIn(t, sym) /\ e.name = n /\ e.named = t.definingNamed  OBVIOUS
  <1> HIDE DEF e
  <1>7. Inside(l, Len(p.consts))
    <2>1. Inside(p.params, Len(p.consts))  BY <1>1 DEF TypeOK, IndicesOK, Inside
    <2>2. e.const \in 1 .. Len(p.consts)  BY <1>1, <1>6
    <2> QED  BY <1>3, <1>4, <2>1, <2>2, AppendInside
  <1> HIDE DEF l
  <1>8. /\ u \in TypeInfo /\ u.params = l
        /\ u.kind = p.kind /\ u.slots = p.slots /\ u.refs = p.refs /\ u.consts = p.consts
        /\ u.typeParams = p.typeParams /\ u.members = p.members
        /\ u.definingNamed = p.definingNamed /\ u.user = p.user /\ u.return = p.return
        /\ u.assigner = p.assigner /\ u.initializer = p.initializer
        /\ u.owner = p.owner /\ u.var = p.var
    BY <1>3, <1>5 DEF TypeInfo
  <1> HIDE DEF u
  <1>9. KeepsDecl(t, u)  BY <1>1, <1>8 DEF KeepsDecl
  <1>10. TypeOK(u)  BY <1>1, <1>7, <1>8, <1>9 DEF TypeOK, IndicesOK, Inside, KeepsDecl
  <1>11. Symbol(u, Len(t.params) + 1) = sym
    BY <1>1, <1>5, <1>6, <1>8 DEF Symbol, ConstAt
  <1>12. \A i \in 1 .. Len(t.params) : u.params[i] = t.params[i] /\ Symbol(u, i) = Symbol(t, i)
    <2>1. \A i \in 1 .. Len(t.params) : t.params[i].const \in 1 .. Len(t.consts)
      BY DEF TypeOK, IndicesOK
    <2>2. \A c \in 1 .. Len(t.consts) : u.consts[c] = t.consts[c]
      BY <1>9 DEF KeepsDecl, Begins
    <2>3. \A i \in 1 .. Len(t.params) : u.params[i] = t.params[i]  BY <1>1, <1>5, <1>8
    <2> QED  BY <2>1, <2>2, <2>3 DEF Symbol, ConstAt
  <1> QED  BY <1>1, <1>2, <1>5, <1>6, <1>8, <1>9, <1>10, <1>11, <1>12

LEMMA WithRefKeeps ==
    ASSUME NEW t, TypeOK(t), NEW sym \in Symbols
    PROVE  /\ TypeOK(WithRef(t, sym)) /\ KeepsDecl(t, WithRef(t, sym))
           /\ WithRef(t, sym).slots = t.slots /\ WithRef(t, sym).members = t.members
           /\ KeepsParams(t, WithRef(t, sym))
  <1> DEFINE p == Pulled(t, sym)
             e == IndexIn(t, sym)
             l == Append(p.refs, e)
             u == [p EXCEPT !.refs = l]
  <1>1. /\ TypeOK(p) /\ KeepsDecl(t, p) /\ p.slots = t.slots
        /\ p.members = t.members /\ p.params = t.params
        /\ e \in 1 .. Len(p.consts)
    BY PulledKeeps
  <1>2. WithRef(t, sym) = u  BY DEF WithRef
  <1> HIDE DEF p, e
  <1>3. p \in TypeInfo /\ p.refs \in Seq(Nat) /\ p.consts \in Seq(Symbols) /\ e \in Nat
    <2>1. p \in TypeInfo /\ p.refs \in Seq(Nat) /\ p.consts \in Seq(Symbols)
      BY <1>1 DEF TypeOK, TypeInfo
    <2>2. Len(p.consts) \in Nat  BY <2>1
    <2> QED  BY <1>1, <2>1, <2>2
  <1>4. /\ l \in Seq(Nat) /\ Len(l) = Len(p.refs) + 1
        /\ l[Len(p.refs) + 1] = e
        /\ \A i \in 1 .. Len(p.refs) : l[i] = p.refs[i]
        /\ \A i \in 1 .. Len(l) : i \in 1 .. Len(p.refs) \/ i = Len(p.refs) + 1
    BY <1>3, AppendEntry
  <1> HIDE DEF l
  <1>5. \A i \in 1 .. Len(l) : l[i] \in 1 .. Len(p.consts)
    <2>1. \A i \in 1 .. Len(p.refs) : p.refs[i] \in 1 .. Len(p.consts)
      BY <1>1 DEF TypeOK, IndicesOK
    <2> QED  BY <1>1, <1>4, <2>1
  <1>6. /\ u \in TypeInfo /\ u.refs = l
        /\ u.kind = p.kind /\ u.slots = p.slots /\ u.params = p.params /\ u.consts = p.consts
        /\ u.typeParams = p.typeParams /\ u.members = p.members
        /\ u.user = p.user /\ u.return = p.return
        /\ u.assigner = p.assigner /\ u.initializer = p.initializer
        /\ u.owner = p.owner /\ u.var = p.var
    BY <1>3, <1>4 DEF TypeInfo
  <1> HIDE DEF u
  <1>7. KeepsDecl(t, u)  BY <1>1, <1>6 DEF KeepsDecl
  <1>8. TypeOK(u)  BY <1>1, <1>5, <1>6, <1>7 DEF TypeOK, IndicesOK, KeepsDecl
  <1> QED  BY <1>1, <1>2, <1>6, <1>7, <1>8 DEF KeepsParams

LEMMA SlotsAndNamedKeep ==
    ASSUME NEW t, TypeOK(t), NEW u,
           \/ u = nextSlot(t)
           \/ u = unwindSlots(t)
           \/ u = [t EXCEPT !.definingNamed = TRUE]
    PROVE  /\ TypeOK(u) /\ KeepsDecl(t, u)
           /\ u.members = t.members /\ KeepsParams(t, u)
           /\ u = nextSlot(t) => u.slots = t.slots + 1 /\ unwindSlots(u) = t
           /\ u = [t EXCEPT !.definingNamed = TRUE] => u.slots = t.slots
  <1>1. t \in TypeInfo /\ t.slots \in Nat  BY DEF TypeOK, TypeInfo
  <1> DEFINE n == t.slots + 1
             z == IF t.slots > 0 THEN t.slots - 1 ELSE 0
  <1>2. n \in Nat /\ z \in Nat  BY <1>1
  <1>3. /\ nextSlot(t) = [t EXCEPT !.slots = n]
        /\ unwindSlots(t) = [t EXCEPT !.slots = z]
    BY DEF nextSlot, unwindSlots
  <1> HIDE DEF n, z
  <1>4. /\ u \in TypeInfo
        /\ u.kind = t.kind /\ u.params = t.params /\ u.consts = t.consts /\ u.refs = t.refs
        /\ u.typeParams = t.typeParams /\ u.members = t.members
        /\ u.user = t.user /\ u.return = t.return
        /\ u.assigner = t.assigner /\ u.initializer = t.initializer
        /\ u.owner = t.owner /\ u.var = t.var
    <2>1. CASE u = [t EXCEPT !.slots = n]  BY <1>1, <1>2, <2>1 DEF TypeInfo
    <2>2. CASE u = [t EXCEPT !.slots = z]  BY <1>1, <1>2, <2>2 DEF TypeInfo
    <2>3. CASE u = [t EXCEPT !.definingNamed = TRUE]  BY <1>1, <2>3 DEF TypeInfo
    <2> QED  BY <1>3, <2>1, <2>2, <2>3
  <1>5. ASSUME u = nextSlot(t)
        PROVE  u.slots = t.slots + 1 /\ unwindSlots(u) = t
    <2>1. u = [t EXCEPT !.slots = n] /\ u.slots = n  BY <1>1, <1>3, <1>5 DEF TypeInfo
    <2>2. n > 0 /\ n - 1 = t.slots  BY <1>1 DEF n
    <2>3. unwindSlots(u) = [u EXCEPT !.slots = t.slots]  BY <2>1, <2>2 DEF unwindSlots
    <2>4. [u EXCEPT !.slots = t.slots] = t
      BY <1>1, <1>2, <2>1 DEF TypeInfo
    <2> QED  BY <2>1, <2>3, <2>4 DEF n
  <1>6. u = [t EXCEPT !.definingNamed = TRUE] => u.slots = t.slots
    BY <1>1 DEF TypeInfo
  <1>7. KeepsDecl(t, u)
    BY <1>1, <1>4 DEF KeepsDecl, Begins, TypeInfo
  <1>8. TypeOK(u)  BY <1>4 DEF TypeOK, IndicesOK
  <1> QED  BY <1>4, <1>5, <1>6, <1>7, <1>8 DEF KeepsParams

----------------------------------------------------------------------------
\* The types that calls register.

NamesItsVar(t, ln) ==
    kindOf[t.kind] = "VarAssigner" =>
        /\ t.var \in 1 .. Len(t.consts)
        /\ ConstAt(t, t.var) = Here(HostName(ln[1][1]))

LEMMA NewIs ==
    ASSUME NEW k \in KindExs, NEW ln \in LocalNames,
           kindOf[k] = "VarAssigner" => ln \in OwnerLNs
    PROVE  /\ Shape(New(k, ln)) /\ NamesItsVar(New(k, ln), ln)
           /\ New(k, ln).kind = k /\ New(k, ln).slots = 0 /\ New(k, ln).members = <<>>
           /\ New(k, ln).typeParams = <<>> /\ New(k, ln).params = <<>>
           /\ New(k, ln).definingNamed = FALSE /\ New(k, ln).user = NoUser
           /\ New(k, ln).return = 0 /\ New(k, ln).assigner = 0 /\ New(k, ln).initializer = 0
  <1> DEFINE own == IF IsMember(k) THEN SelfSym
                    ELSE IF kindOf[k] = "VarAssigner" THEN Here(HostName(ln[1][1]))
                    ELSE NoSym
             consts == IF own = NoSym THEN <<>> ELSE <<own>>
             owner == IF IsMember(k) THEN 1 ELSE 0
             var == IF kindOf[k] = "VarAssigner" THEN 1 ELSE 0
             t == New(k, ln)
  <1>1. /\ t.kind = k /\ t.slots = 0 /\ t.consts = consts /\ t.refs = <<>>
        /\ t.typeParams = <<>> /\ t.members = <<>> /\ t.params = <<>>
        /\ t.definingNamed = FALSE /\ t.user = NoUser
        /\ t.return = 0 /\ t.assigner = 0 /\ t.initializer = 0
        /\ t.owner = owner /\ t.var = var
        /\ t = [kind |-> k, slots |-> 0, consts |-> consts, refs |-> <<>>,
                typeParams |-> <<>>, members |-> <<>>, params |-> <<>>,
                definingNamed |-> FALSE, user |-> NoUser, return |-> 0,
                assigner |-> 0, initializer |-> 0, owner |-> owner, var |-> var]
    BY DEF New
  <1>2. kindOf[k] = "VarAssigner" => HostName(ln[1][1]) \in Names /\ ~ IsMember(k)
    <2> SUFFICES ASSUME kindOf[k] = "VarAssigner"
                 PROVE  HostName(ln[1][1]) \in Names /\ ~ IsMember(k)
      OBVIOUS
    <2>1. ln[1] \in Names  BY OwnerNameParts
    <2> QED  BY <2>1, NameParts DEF IsMember
  <1>3. own # NoSym => own \in Symbols
    BY <1>2 DEF Symbols
  <1>4. kindOf[k] = "VarAssigner" => own = Here(HostName(ln[1][1])) /\ own # NoSym
    BY <1>2 DEF Here, NoSym
  <1>5. IsMember(k) => own # NoSym  BY DEF SelfSym, NoSym
  <1> HIDE DEF own
  <1>6. /\ consts \in Seq(Symbols)
        /\ own # NoSym => Len(consts) = 1 /\ consts[1] = own
        /\ Len(consts) \in Nat
    BY <1>3
  <1>7. owner \in Nat /\ var \in Nat /\ owner <= Len(consts) /\ var <= Len(consts)
    BY <1>4, <1>5, <1>6
  <1>8. NamesItsVar(t, ln)
    BY <1>1, <1>4, <1>6 DEF NamesItsVar, ConstAt
  <1> HIDE DEF consts, owner, var, t
  <1>9. t \in TypeInfo
    BY <1>1, <1>6, <1>7 DEF TypeInfo
  <1>10. IndicesOK(t)
    BY <1>1, <1>6, <1>7 DEF IndicesOK
  <1> QED  BY <1>1, <1>8, <1>9, <1>10 DEF Shape, t

\* What addCallable registers.
Callable(k, ln, user, ret, assigner, initializer) ==
    WithInitializer(WithCall(New(k, ln), user, ret, assigner), initializer)

IsCallable(t, k, ln, user, ret, assigner, initializer) ==
    /\ TypeOK(t) /\ NamesItsVar(t, ln)
    /\ t.kind = k /\ t.slots = 0 /\ t.members = <<>> /\ t.params = <<>>
    /\ t.definingNamed = FALSE /\ t.user = user
    /\ t.return \in 1 .. Len(t.consts) /\ ConstAt(t, t.return) = ret
    /\ assigner = NoSym <=> t.assigner = 0
    /\ assigner # NoSym => ConstAt(t, t.assigner) = assigner
    /\ initializer = NoSym <=> t.initializer = 0
    /\ initializer # NoSym => ConstAt(t, t.initializer) = initializer

LEMMA CallableIs ==
    ASSUME NEW k \in KindExs, NEW ln \in LocalNames, HasCallSig(k),
           kindOf[k] = "VarAssigner" => ln \in OwnerLNs,
           NEW user \in Nat \cup {NoUser}, NEW ret \in Symbols,
           NEW assigner \in Symbols \cup {NoSym}, NEW initializer \in Symbols \cup {NoSym}
    PROVE  IsCallable(Callable(k, ln, user, ret, assigner, initializer),
                      k, ln, user, ret, assigner, initializer)
  <1> DEFINE t == Callable(k, ln, user, ret, assigner, initializer)
  <1> DEFINE t0 == New(k, ln)
             t1 == IF assigner = NoSym THEN t0 ELSE Pulled(t0, assigner)
             at == IF assigner = NoSym THEN 0 ELSE IndexIn(t0, assigner)
             t2 == Pulled(t1, ret)
             t3 == [t2 EXCEPT !.user = user, !.return = IndexIn(t1, ret), !.assigner = at]
  <1>1. /\ Shape(t0) /\ NamesItsVar(t0, ln)
        /\ t0.kind = k /\ t0.slots = 0 /\ t0.members = <<>> /\ t0.typeParams = <<>>
        /\ t0.params = <<>> /\ t0.definingNamed = FALSE /\ t0.user = NoUser
        /\ t0.return = 0 /\ t0.assigner = 0 /\ t0.initializer = 0
    BY NewIs
  <1>2. t = IF initializer = NoSym THEN t3
            ELSE [Pulled(t3, initializer) EXCEPT !.initializer = IndexIn(t3, initializer)]
    BY DEF Callable, WithCall, WithInitializer
  <1> SUFFICES IsCallable(t, k, ln, user, ret, assigner, initializer)
    OBVIOUS
  <1> HIDE DEF t, t0
  <1>3. /\ Shape(t1) /\ KeepsDecl(t0, t1)
        /\ t1.slots = 0 /\ t1.members = <<>> /\ t1.typeParams = <<>> /\ t1.params = <<>>
        /\ t1.definingNamed = FALSE
        /\ assigner # NoSym => at \in 1 .. Len(t1.consts) /\ t1.consts[at] = assigner
        /\ assigner = NoSym => at = 0
    <2>1. CASE assigner = NoSym
      <3>1. t1 = t0  BY <2>1
      <3>2. KeepsDecl(t0, t0)  BY <1>1 DEF KeepsDecl, Begins, Shape, TypeInfo
      <3> QED  BY <1>1, <2>1, <3>1, <3>2
    <2>2. CASE assigner # NoSym
      <3>1. t1 = Pulled(t0, assigner) /\ at = IndexIn(t0, assigner) /\ assigner \in Symbols
        BY <2>2
      <3> QED  BY <1>1, <2>2, <3>1, PulledIs
    <2> QED  BY <2>1, <2>2
  <1> HIDE DEF t1, at
  <1>4. /\ Shape(t2) /\ KeepsDecl(t1, t2)
        /\ t2.slots = 0 /\ t2.members = <<>> /\ t2.typeParams = <<>> /\ t2.params = <<>>
        /\ t2.definingNamed = FALSE
        /\ IndexIn(t1, ret) \in 1 .. Len(t2.consts) /\ t2.consts[IndexIn(t1, ret)] = ret
    BY <1>3, PulledIs
  <1> HIDE DEF t2
  <1> DEFINE r == IndexIn(t1, ret)
  <1>5. r \in 1 .. Len(t2.consts)  BY <1>4
  <1> HIDE DEF r
  <1>6. /\ t2 \in TypeInfo /\ t2.consts \in Seq(Symbols) /\ t1.consts \in Seq(Symbols)
        /\ t0.consts \in Seq(Symbols)
        /\ Len(t1.consts) \in Nat /\ Len(t2.consts) \in Nat /\ Len(t1.consts) <= Len(t2.consts)
    <2>1. t2 \in TypeInfo /\ t2.consts \in Seq(Symbols) /\ t1.consts \in Seq(Symbols)
          /\ t0.consts \in Seq(Symbols)
      BY <1>1, <1>3, <1>4 DEF Shape, TypeInfo
    <2> QED  BY <1>4, <2>1 DEF KeepsDecl, Begins
  <1>7. /\ at \in Nat /\ at <= Len(t2.consts)
        /\ assigner # NoSym => at # 0 /\ t2.consts[at] = assigner
        /\ assigner = NoSym => at = 0
    BY <1>3, <1>4, <1>6 DEF KeepsDecl, Begins
  <1>8. t3 = [t2 EXCEPT !.user = user, !.return = r, !.assigner = at]
    BY DEF r
  <1>9. /\ t3 \in TypeInfo /\ t3.user = user /\ t3.return = r /\ t3.assigner = at
        /\ t3.kind = t2.kind /\ t3.slots = t2.slots /\ t3.consts = t2.consts
        /\ t3.refs = t2.refs /\ t3.typeParams = t2.typeParams /\ t3.members = t2.members
        /\ t3.params = t2.params /\ t3.definingNamed = t2.definingNamed
        /\ t3.initializer = t2.initializer /\ t3.owner = t2.owner /\ t3.var = t2.var
    <2>1. r \in Nat  BY <1>5, <1>6
    <2> QED  BY <1>6, <1>7, <1>8, <2>1 DEF TypeInfo
  <1> HIDE DEF t3
  <1>10. Shape(t3)
    <2>1. r <= Len(t2.consts)  BY <1>5, <1>6
    <2> QED  BY <1>4, <1>7, <1>9, <2>1 DEF Shape, IndicesOK
  <1>11. /\ t3.kind = k /\ t3.initializer = 0 /\ t3.slots = 0 /\ t3.members = <<>>
         /\ t3.typeParams = <<>> /\ t3.params = <<>> /\ t3.definingNamed = FALSE
         /\ t3.var = t0.var
    BY <1>1, <1>3, <1>4, <1>9 DEF KeepsDecl
  <1>12. NamesItsVar(t3, ln)
    <2>1. Begins(t0.consts, t3.consts)
      BY <1>3, <1>4, <1>6, <1>9, BeginsIsTransitive DEF KeepsDecl
    <2>2. Len(t0.consts) \in Nat /\ Len(t3.consts) \in Nat  BY <1>6, <1>9
    <2> QED  BY <1>1, <1>11, <2>1, <2>2 DEF NamesItsVar, ConstAt, Begins
  <1>13. ConstAt(t3, r) = ret /\ r # 0 /\ (at # 0 => ConstAt(t3, at) = assigner)
    BY <1>4, <1>5, <1>7, <1>9 DEF ConstAt, r
  <1>14. CASE initializer = NoSym
    <2>1. t = t3  BY <1>2, <1>14
    <2>2. TypeOK(t)
      <3>1. t3.return # 0  BY <1>9, <1>13
      <3>2. Len(t3.members) = 0 /\ Len(t3.typeParams) = 0  BY <1>11
      <3> QED  BY <1>10, <2>1, <3>1, <3>2 DEF TypeOK, Shape
    <2> QED  BY <1>5, <1>7, <1>9, <1>11, <1>12, <1>13, <1>14, <2>1, <2>2 DEF IsCallable
  <1>15. CASE initializer # NoSym
    <2> DEFINE t4 == Pulled(t3, initializer)
               i == IndexIn(t3, initializer)
    <2>1. t = [t4 EXCEPT !.initializer = i]  BY <1>2, <1>15
    <2>2. /\ Shape(t4) /\ KeepsDecl(t3, t4)
          /\ t4.slots = 0 /\ t4.members = <<>> /\ t4.typeParams = <<>> /\ t4.params = <<>>
          /\ t4.definingNamed = FALSE
          /\ i \in 1 .. Len(t4.consts) /\ t4.consts[i] = initializer
      <3>1. initializer \in Symbols  BY <1>15
      <3> QED  BY <1>10, <1>11, <3>1, PulledIs
    <2> HIDE DEF t4, i
    <2>3. t4 \in TypeInfo /\ t4.consts \in Seq(Symbols) /\ Len(t4.consts) \in Nat
      <3>1. t4 \in TypeInfo /\ t4.consts \in Seq(Symbols)  BY <2>2 DEF Shape, TypeInfo
      <3> QED  BY <3>1
    <2>4. i \in Nat /\ i # 0 /\ i <= Len(t4.consts)  BY <2>2, <2>3
    <2>5. /\ t \in TypeInfo /\ t.initializer = i
          /\ t.user = t4.user /\ t.return = t4.return /\ t.assigner = t4.assigner
          /\ t.kind = t4.kind /\ t.slots = t4.slots /\ t.consts = t4.consts
          /\ t.refs = t4.refs /\ t.typeParams = t4.typeParams /\ t.members = t4.members
          /\ t.params = t4.params /\ t.definingNamed = t4.definingNamed
          /\ t.owner = t4.owner /\ t.var = t4.var
      BY <2>1, <2>3, <2>4 DEF TypeInfo
    <2>6. Shape(t)  BY <2>2, <2>4, <2>5 DEF Shape, IndicesOK
    <2>7. /\ t.kind = k /\ t.user = user /\ t.return = r /\ t.assigner = at /\ t.var = t3.var
          /\ Begins(t3.consts, t.consts)
      BY <1>9, <1>11, <2>2, <2>5 DEF KeepsDecl
    <2>8. TypeOK(t)  BY <1>13, <2>2, <2>5, <2>6, <2>7 DEF TypeOK, Shape
    <2>9. Len(t3.consts) \in Nat /\ Len(t.consts) \in Nat  BY <1>6, <1>9, <2>3, <2>5
    <2>10. NamesItsVar(t, ln)
      BY <1>11, <1>12, <2>7, <2>9 DEF NamesItsVar, ConstAt, Begins
    <2>11. r \in 1 .. Len(t.consts) /\ ConstAt(t, r) = ret
      BY <1>5, <1>9, <1>13, <2>7, <2>9 DEF ConstAt, Begins
    <2>12. at # 0 => ConstAt(t, at) = assigner
      BY <1>7, <1>9, <1>13, <2>7, <2>9 DEF ConstAt, Begins
    <2>13. ConstAt(t, i) = initializer  BY <2>2, <2>5 DEF ConstAt
    <2> QED  BY <1>7, <1>15, <2>2, <2>4, <2>5, <2>7, <2>8, <2>10, <2>11, <2>12, <2>13
       DEF IsCallable
  <1> QED  BY <1>14, <1>15

----------------------------------------------------------------------------
\* Definitions, as the calls make them.

DefShape(d) == DOMAIN d = {"types", "ok", "id"} /\ d.ok \in BOOLEAN

LEMMA FailsIs ==
    ASSUME NEW d, DefShape(d)
    PROVE  DefShape(Fails(d)) /\ Fails(d).types = d.types /\ Fails(d).ok = FALSE
  BY DEF DefShape, Fails

LEMMA AnswersIs ==
    ASSUME NEW T, NEW i
    PROVE  DefShape(Answers(T, i)) /\ Answers(T, i).types = T /\ Answers(T, i).ok = TRUE
  BY DEF DefShape, Answers

LEMMA WithIs ==
    ASSUME NEW d, DefShape(d), NEW ln, NEW t
    PROVE  /\ DefShape(With(d, ln, t)) /\ With(d, ln, t).ok = d.ok
           /\ With(d, ln, t).types = [d.types EXCEPT ![ln] = t]
  BY DEF DefShape, With

\* What is declared stays declared, as it was.
KeepsAll(d, e) ==
    \A l \in DOMAIN d.types : l \in DOMAIN e.types /\ KeepsDecl(d.types[l], e.types[l])

LEMMA KeepsItself ==
    ASSUME NEW t, TypeOK(t)
    PROVE  KeepsDecl(t, t) /\ KeepsParams(t, t)
  <1>1. t.consts \in Seq(Symbols)  BY DEF TypeOK, TypeInfo
  <1>2. Begins(t.consts, t.consts)  BY <1>1 DEF Begins
  <1> QED  BY <1>2 DEF KeepsDecl, KeepsParams

LEMMA MembersStay ==
    ASSUME NEW d, NEW e, KeepsAll(d, e), NEW o \in DOMAIN d.types, MembersOf(d, o),
           e.types[o].members = d.types[o].members
    PROVE  MembersOf(e, o)
  BY DEF MembersOf, KeepsAll, KeepsDecl, isMethodReq

\* Something is added to one type.
LEMMA AmendKeepsBase ==
    ASSUME NEW d, BaseInv(d), NEW ln \in DOMAIN d.types, NEW u, TypeOK(u),
           KeepsDecl(d.types[ln], u), u.members = d.types[ln].members,
           NEW e, DefShape(e), e.types = [d.types EXCEPT ![ln] = u]
    PROVE  /\ BaseInv(e) /\ KeepsAll(d, e)
           /\ DOMAIN e.types = DOMAIN d.types /\ e.types[ln] = u
           /\ \A l \in DOMAIN d.types : l # ln => e.types[l] = d.types[l]
  <1>1. DefOK(d) /\ NamesOK(d)  BY DEF BaseInv
  <1>2. /\ DOMAIN e.types = DOMAIN d.types /\ e.types[ln] = u
        /\ \A l \in DOMAIN d.types : l # ln => e.types[l] = d.types[l]
        /\ e.types = [l \in DOMAIN e.types |-> e.types[l]]
    BY DEF DefOK
  <1>3. \A l \in DOMAIN e.types : TypeOK(e.types[l])
    BY <1>1, <1>2 DEF DefOK
  <1>4. DefOK(e)
    BY <1>1, <1>2, <1>3 DEF DefOK, DefShape
  <1>5. KeepsAll(d, e)
    BY <1>1, <1>2, KeepsItself DEF KeepsAll, DefOK
  <1>6. \A o \in DOMAIN e.types : MembersOf(e, o)
    <2> SUFFICES ASSUME NEW o \in DOMAIN d.types PROVE MembersOf(e, o)
      BY <1>2
    <2>1. MembersOf(d, o)  BY <1>1 DEF NamesOK
    <2>2. e.types[o].members = d.types[o].members  BY <1>2
    <2> QED  BY <1>5, <2>1, <2>2, MembersStay
  <1>7. \A l \in DOMAIN d.types : e.types[l].kind = d.types[l].kind
    BY <1>5 DEF KeepsAll, KeepsDecl
  <1>8. NamesOK(e)
    BY <1>1, <1>2, <1>6, <1>7 DEF NamesOK
  <1> QED  BY <1>2, <1>4, <1>5, <1>8 DEF BaseInv

\* A type of a new name, and its owner's list of members, are all that changes.
Registered(d, ln, t, e) ==
    /\ DefShape(e) /\ e.ok = TRUE
    /\ e.types = [l \in DOMAIN e.types |-> e.types[l]]
    /\ DOMAIN e.types = DOMAIN d.types \cup {ln}
    /\ e.types[ln] = t
    /\ \A l \in DOMAIN d.types : ~ (ln \in MemberLNs /\ l = ln[1]) => e.types[l] = d.types[l]
    /\ ln \in MemberLNs => e.types[ln[1]] = WithMember(d.types[ln[1]], ln[2])

LEMMA RegisterIs ==
    ASSUME NEW d, DefOK(d), NEW ln \in LocalNames, ln \notin DOMAIN d.types, NEW t,
           ln \in MemberLNs => ln[1] \in DOMAIN d.types
    PROVE  Registered(d, ln, t, Register(d, ln, t))
  <1> DEFINE e == Register(d, ln, t)
  <1> DEFINE types == [l \in DOMAIN d.types \cup {ln} |-> IF l = ln THEN t ELSE d.types[l]]
             more == [types EXCEPT ![ownerName(ln)] = WithMember(@, memberName(ln))]
  <1>1. /\ ln \in MemberLNs <=> Len(ln) # 1
        /\ ln \in MemberLNs => ln[1] \in OwnerLNs
    BY OwnerNameParts, MemberNameParts DEF LocalNames
  <1>2. e = Answers(IF Len(ln) = 1 THEN types ELSE more, 0)
    BY DEF Register
  <1> HIDE DEF e
  <1>3. DefShape(d)  BY DEF DefOK, DefShape
  <1>4. /\ DefShape(e) /\ e.ok = TRUE /\ e.types = IF Len(ln) = 1 THEN types ELSE more
    <2> DEFINE T == IF Len(ln) = 1 THEN types ELSE more
    <2>1. e = Answers(T, 0)  BY <1>2
    <2> HIDE DEF T
    <2>2. DefShape(e) /\ e.ok = TRUE /\ e.types = T  BY <2>1, AnswersIs
    <2> QED  BY <2>2 DEF T
  <1> SUFFICES Registered(d, ln, t, e)  BY DEF e
  <1>5. CASE ln \notin MemberLNs
    BY <1>1, <1>4, <1>5 DEF Registered
  <1>6. CASE ln \in MemberLNs
    <2>1. ln[1] # ln
      BY <1>1, <1>6, OwnerNameParts
    <2>2. types[ln[1]] = d.types[ln[1]]  BY <1>6, <2>1
    <2>3. more = [types EXCEPT ![ln[1]] = WithMember(d.types[ln[1]], ln[2])]
      BY <2>2 DEF ownerName, memberName
    <2>4. e.types = [types EXCEPT ![ln[1]] = WithMember(d.types[ln[1]], ln[2])]
      BY <1>1, <1>4, <1>6, <2>3
    <2> HIDE DEF more
    <2> QED  BY <1>4, <1>6, <2>1, <2>4 DEF Registered
  <1> QED  BY <1>5, <1>6

\* The conditions under which types are registered.
Registrable(d, ln, t) ==
    /\ TypeOK(t) /\ t.members = <<>>
    /\ ln \in LocalNames /\ ln \notin DOMAIN d.types
    /\ IsMember(t.kind) <=> ln \in MemberLNs
    /\ ln \in OwnerLNs => (ln[1][2] # "" => <<HostName(ln[1][1])>> \in DOMAIN d.types)
    /\ ln \in MemberLNs =>
        /\ ln[1] \in DOMAIN d.types
        /\ CanHaveMembers(d.types[ln[1]].kind)
        /\ t.kind = "MethodReq" <=> d.types[ln[1]].kind = "Protocol"
        /\ t.kind = "MethodReq" => t.user = Len(d.types[ln[1]].members)
        /\ ln[2][2] # "" => <<ln[1], HostName(ln[2][1])>> \in DOMAIN d.types

LEMMA RegisterKeepsBase ==
    ASSUME NEW d, BaseInv(d), NEW ln, NEW t, Registrable(d, ln, t),
           NEW e, e = Register(d, ln, t)
    PROVE  BaseInv(e) /\ KeepsAll(d, e) /\ Registered(d, ln, t, e)
  <1>1. DefOK(d) /\ NamesOK(d) /\ ln \in LocalNames /\ ln \notin DOMAIN d.types
    BY DEF BaseInv, Registrable
  <1>2. Registered(d, ln, t, e)
    <2>1. ln \in MemberLNs => ln[1] \in DOMAIN d.types  BY DEF Registrable
    <2> QED  BY <1>1, <2>1, RegisterIs
  <1>3. /\ DefShape(e) /\ e.ok = TRUE
        /\ e.types = [l \in DOMAIN e.types |-> e.types[l]]
        /\ DOMAIN e.types = DOMAIN d.types \cup {ln}
        /\ e.types[ln] = t
        /\ \A l \in DOMAIN d.types : ~ (ln \in MemberLNs /\ l = ln[1]) => e.types[l] = d.types[l]
        /\ ln \in MemberLNs => e.types[ln[1]] = WithMember(d.types[ln[1]], ln[2])
    BY <1>2 DEF Registered
  <1>4. ASSUME NEW l \in DOMAIN d.types
        PROVE  TypeOK(e.types[l]) /\ KeepsDecl(d.types[l], e.types[l])
    <2>1. TypeOK(d.types[l])  BY <1>1 DEF DefOK
    <2>2. CASE ln \in MemberLNs /\ l = ln[1]
      <3>1. ln[2] \in Names /\ CanHaveMembers(d.types[l].kind)
        BY <2>2, MemberNameParts DEF Registrable
      <3> QED  BY <1>3, <2>1, <2>2, <3>1, WithMemberKeeps
    <2>3. CASE ~ (ln \in MemberLNs /\ l = ln[1])
      BY <1>3, <2>1, <2>3, KeepsItself
    <2> QED  BY <2>2, <2>3
  <1>5. DefOK(e)
    <2>1. IsFiniteSet(DOMAIN e.types)
      BY <1>1, <1>3, FS_AddElement DEF DefOK
    <2>2. \A l \in DOMAIN e.types : TypeOK(e.types[l])
      <3>1. TypeOK(t)  BY DEF Registrable
      <3> QED  BY ONLY <1>3, <1>4, <3>1
    <2> QED  BY <1>1, <1>3, <2>1, <2>2 DEF DefOK, DefShape
  <1>6. KeepsAll(d, e)  BY <1>3, <1>4 DEF KeepsAll
  <1>7. ASSUME NEW o \in DOMAIN e.types
        PROVE  MembersOf(e, o)
    <2>1. CASE o = ln
      <3>1. e.types[o].members = <<>>  BY <1>3, <2>1 DEF Registrable
      <3> QED  BY <3>1 DEF MembersOf
    <2>2. CASE o # ln /\ ~ (ln \in MemberLNs /\ o = ln[1])
      <3>1. o \in DOMAIN d.types /\ e.types[o].members = d.types[o].members
        BY <1>3, <2>2
      <3>2. MembersOf(d, o)  BY <1>1, <3>1 DEF NamesOK
      <3> QED  BY <1>6, <3>1, <3>2, MembersStay
    <2>3. CASE ln \in MemberLNs /\ o = ln[1]
      <3> DEFINE t0 == d.types[o]
                 n == Len(t0.members)
                 u == e.types[o]
      <3>1. o \in DOMAIN d.types /\ CanHaveMembers(t0.kind) /\ ln[2] \in Names
            /\ ln = <<o, ln[2]>>
        BY <2>3, MemberNameParts DEF Registrable
      <3>2. TypeOK(t0) /\ MembersOf(d, o)  BY <1>1, <3>1 DEF DefOK, NamesOK
      <3>3. /\ Len(u.members) = n + 1 /\ u.members[n + 1].name = ln[2]
            /\ \A i \in 1 .. n : u.members[i] = t0.members[i]
            /\ u.kind = t0.kind
        BY <1>3, <2>3, <3>1, <3>2, WithMemberKeeps DEF KeepsDecl
      <3>4. n \in Nat
        <4>1. t0.members \in Seq(Entry)  BY <3>2 DEF TypeOK, TypeInfo
        <4> QED  BY <4>1
      <3>5. /\ t.kind = "MethodReq" <=> t0.kind = "Protocol"
            /\ t.kind = "MethodReq" => t.user = n
        BY <2>3 DEF Registrable
      <3> HIDE DEF n
      <3> SUFFICES ASSUME NEW i \in 1 .. n + 1
                   PROVE  /\ <<o, u.members[i].name>> \in DOMAIN e.types
                          /\ isMethodReq(e.types[<<o, u.members[i].name>>])
                                <=> u.kind = "Protocol"
                          /\ isMethodReq(e.types[<<o, u.members[i].name>>])
                                => e.types[<<o, u.members[i].name>>].user = i - 1
        BY <3>3 DEF MembersOf
      <3>6. CASE i = n + 1
        <4>1. <<o, u.members[i].name>> = ln  BY <3>1, <3>3, <3>6
        <4>2. i - 1 = n  BY <3>4, <3>6
        <4> HIDE DEF u
        <4> QED  BY <1>3, <3>3, <3>5, <4>1, <4>2 DEF isMethodReq
      <3>7. CASE i # n + 1
        <4>1. i \in 1 .. n  BY <3>4, <3>7
        <4> DEFINE x == <<o, t0.members[i].name>>
        <4>2. /\ x \in DOMAIN d.types
              /\ isMethodReq(d.types[x]) <=> t0.kind = "Protocol"
              /\ isMethodReq(d.types[x]) => d.types[x].user = i - 1
          BY <3>2, <4>1 DEF MembersOf, n
        <4>3. <<o, u.members[i].name>> = x  BY <3>3, <4>1
        <4> HIDE DEF x, u
        <4>4. x \in DOMAIN e.types /\ KeepsDecl(d.types[x], e.types[x])
          BY <1>6, <4>2 DEF KeepsAll
        <4> QED  BY <3>3, <4>2, <4>3, <4>4 DEF isMethodReq, KeepsDecl
      <3> QED  BY <3>6, <3>7
    <2> QED  BY <2>1, <2>2, <2>3
  <1>8. \A l \in DOMAIN d.types : e.types[l].kind = d.types[l].kind
    BY <1>6 DEF KeepsAll, KeepsDecl
  <1>9. NamesOK(e)
    <2>1. ASSUME NEW l \in DOMAIN e.types \cap MemberLNs
          PROVE  /\ l[1] \in DOMAIN e.types
                 /\ IsMember(e.types[l].kind)
                 /\ l[2][2] # "" => <<l[1], HostName(l[2][1])>> \in DOMAIN e.types
      <3>1. CASE l = ln  BY <1>3, <3>1 DEF Registrable
      <3>2. CASE l # ln  BY <1>1, <1>3, <1>8, <3>2 DEF NamesOK
      <3> QED  BY <3>1, <3>2
    <2>2. ASSUME NEW l \in DOMAIN e.types \cap OwnerLNs
          PROVE  /\ ~ IsMember(e.types[l].kind)
                 /\ l[1][2] # "" => <<HostName(l[1][1])>> \in DOMAIN e.types
      <3>1. CASE l = ln
        <4>1. ln \notin MemberLNs  BY <3>1, OwnerNameParts
        <4> QED  BY <1>3, <3>1, <4>1 DEF Registrable
      <3>2. CASE l # ln  BY <1>1, <1>3, <1>8, <3>2 DEF NamesOK
      <3> QED  BY <3>1, <3>2
    <2> QED  BY <1>7, <2>1, <2>2 DEF NamesOK
  <1> QED  BY <1>2, <1>5, <1>6, <1>9 DEF BaseInv

----------------------------------------------------------------------------
\* What stays true of what was declared before.

LEMMA KeepsAllIsTransitive ==
    ASSUME NEW c, NEW d, NEW e, DefOK(c), DefOK(d), DefOK(e), KeepsAll(c, d), KeepsAll(d, e)
    PROVE  KeepsAll(c, e)
  <1> SUFFICES ASSUME NEW l \in DOMAIN c.types
               PROVE  l \in DOMAIN e.types /\ KeepsDecl(c.types[l], e.types[l])
    BY DEF KeepsAll
  <1>1. /\ l \in DOMAIN d.types /\ l \in DOMAIN e.types
        /\ KeepsDecl(c.types[l], d.types[l]) /\ KeepsDecl(d.types[l], e.types[l])
    BY DEF KeepsAll
  <1>2. /\ c.types[l].consts \in Seq(Symbols) /\ d.types[l].consts \in Seq(Symbols)
        /\ e.types[l].consts \in Seq(Symbols)
    BY <1>1 DEF DefOK, TypeOK, TypeInfo
  <1>3. Begins(c.types[l].consts, e.types[l].consts)
    BY <1>1, <1>2, BeginsIsTransitive DEF KeepsDecl
  <1> QED  BY <1>1, <1>3 DEF KeepsDecl

LEMMA ConstStays ==
    ASSUME NEW t, NEW u, KeepsDecl(t, u), NEW i \in 1 .. Len(t.consts)
    PROVE  ConstAt(u, i) = ConstAt(t, i)
  BY DEF KeepsDecl, Begins, ConstAt

KeepsFixedParams(d, e) ==
    \A l \in DOMAIN d.types :
        ~ HasUserDefinedCallSig(d.types[l].kind) => e.types[l].params = d.types[l].params

LEMMA SymbolStays ==
    ASSUME NEW t, NEW u, TypeOK(t), KeepsDecl(t, u), u.params = t.params,
           NEW i \in 1 .. Len(t.params)
    PROVE  Symbol(u, i) = Symbol(t, i)
  <1>1. t.params[i].const \in 1 .. Len(t.consts)  BY DEF TypeOK, IndicesOK
  <1> QED  BY <1>1, ConstStays DEF Symbol

LEMMA TypeIndices ==
    ASSUME NEW t, TypeOK(t)
    PROVE  /\ HasCallSig(t.kind) => t.return \in 1 .. Len(t.consts)
           /\ t.assigner # 0 => t.assigner \in 1 .. Len(t.consts)
           /\ t.initializer # 0 => t.initializer \in 1 .. Len(t.consts)
           /\ t.var # 0 => t.var \in 1 .. Len(t.consts)
           /\ t.kind \in KindExs /\ t.slots \in Nat
           /\ Len(t.params) \in Nat /\ Len(t.consts) \in Nat /\ Len(t.members) \in Nat
           /\ t.consts \in Seq(Symbols)
  <1>1. /\ t.consts \in Seq(Symbols) /\ t.params \in Seq(ParamEntry) /\ t.members \in Seq(Entry)
        /\ t.return \in Nat /\ t.assigner \in Nat /\ t.initializer \in Nat /\ t.var \in Nat
        /\ t.kind \in KindExs /\ t.slots \in Nat
    BY DEF TypeOK, TypeInfo
  <1>2. Len(t.params) \in Nat /\ Len(t.consts) \in Nat /\ Len(t.members) \in Nat  BY <1>1
  <1>3. /\ t.return <= Len(t.consts) /\ t.assigner <= Len(t.consts)
        /\ t.initializer <= Len(t.consts) /\ t.var <= Len(t.consts)
        /\ HasCallSig(t.kind) => t.return # 0
    BY DEF TypeOK, IndicesOK
  <1> QED  BY <1>1, <1>2, <1>3

LEMMA PartnersStay ==
    ASSUME NEW d, NEW e, DefOK(d), KeepsAll(d, e), KeepsFixedParams(d, e),
           NEW ln \in DOMAIN d.types, PartnersOf(d, ln)
    PROVE  PartnersOf(e, ln)
  <1> DEFINE t == d.types[ln]
             u == e.types[ln]
  <1>1. TypeOK(t) /\ KeepsDecl(t, u) /\ t.kind \in KindExs /\ u.kind = t.kind
        /\ u.assigner = t.assigner /\ u.initializer = t.initializer /\ u.return = t.return
    BY TypeIndices DEF DefOK, KeepsAll, KeepsDecl
  <1>2. ASSUME u.assigner # 0
        PROVE  /\ HasCallSig(u.kind)
               /\ ln \in MemberLNs <=> IsMember(u.kind)
               /\ ConstAt(u, u.assigner) = AssignerSym(ln)
               /\ AssignerLN(ln) \in DOMAIN e.types
               /\ Assigns(u, e.types[AssignerLN(ln)])
               /\ ln \notin MemberLNs =>
                    /\ e.types[AssignerLN(ln)].var # 0
                    /\ ConstAt(e.types[AssignerLN(ln)], e.types[AssignerLN(ln)].var) = Here(ln[1])
    <2> DEFINE a == AssignerLN(ln)
               s == d.types[a]
               v == e.types[a]
    <2>1. /\ HasCallSig(t.kind)
          /\ ln \in MemberLNs <=> IsMember(t.kind)
          /\ ConstAt(t, t.assigner) = AssignerSym(ln)
          /\ a \in DOMAIN d.types
          /\ Assigns(t, s)
          /\ ln \notin MemberLNs => s.var # 0 /\ ConstAt(s, s.var) = Here(ln[1])
      BY <1>1, <1>2 DEF PartnersOf
    <2> HIDE DEF t, u, a
    <2>2. TypeOK(s) /\ KeepsDecl(s, v) /\ a \in DOMAIN e.types
      BY <2>1 DEF DefOK, KeepsAll
    <2>3. s.kind \in KindExs /\ ~ HasUserDefinedCallSig(s.kind) /\ HasCallSig(s.kind)
      <3>1. s.kind \in KindExs  BY <2>2, TypeIndices
      <3> QED  BY <2>1, <3>1, KindOfEach DEF Assigns, HasUserDefinedCallSig, HasCallSig
    <2>4. v.params = s.params  BY <2>1, <2>3 DEF KeepsFixedParams
    <2> HIDE DEF s, v
    <2>5. /\ ConstAt(u, t.assigner) = ConstAt(t, t.assigner)
          /\ ConstAt(u, t.return) = ConstAt(t, t.return)
      BY <1>1, <1>2, <2>1, TypeIndices, ConstStays
    <2>6. /\ ConstAt(v, s.return) = ConstAt(s, s.return)
          /\ s.var # 0 => ConstAt(v, s.var) = ConstAt(s, s.var)
          /\ v.kind = s.kind /\ v.return = s.return /\ v.var = s.var
      <3>1. v.kind = s.kind /\ v.return = s.return /\ v.var = s.var  BY <2>2 DEF KeepsDecl
      <3> QED  BY <2>2, <2>3, <3>1, TypeIndices, ConstStays
    <2>7. \A i \in 1 .. Len(s.params) : Symbol(v, i) = Symbol(s, i)
      BY <2>2, <2>4, SymbolStays
    <2>8. Assigns(u, v)
      <3>1. Len(s.params) = IF IsMember(t.kind) THEN 2 ELSE 1  BY <2>1 DEF Assigns
      <3>2. /\ IsMember(t.kind) => Symbol(v, 1) = Symbol(s, 1)
            /\ Symbol(v, Len(s.params)) = Symbol(s, Len(s.params))
        BY <2>7, <3>1
      <3> QED  BY <1>1, <2>1, <2>4, <2>5, <2>6, <3>2 DEF Assigns
    <2> QED  BY <1>1, <2>1, <2>2, <2>5, <2>6, <2>8 DEF a, v
  <1>3. /\ kindOf[u.kind] = "Property" => Len(u.params) = 1 /\ Symbol(u, 1) = SelfSym
        /\ kindOf[u.kind] = "Var" => Len(u.params) = 0
        /\ (u.kind = "StoredVarGet") <=> (u.initializer # 0)
    <2>1. /\ kindOf[t.kind] = "Property" => Len(t.params) = 1 /\ Symbol(t, 1) = SelfSym
          /\ kindOf[t.kind] = "Var" => Len(t.params) = 0
          /\ (t.kind = "StoredVarGet") <=> (t.initializer # 0)
      BY DEF PartnersOf
    <2>2. kindOf[t.kind] \in {"Property", "Var"} => u.params = t.params
      BY DEF KeepsFixedParams, HasUserDefinedCallSig
    <2> HIDE DEF t, u
    <2>3. kindOf[t.kind] = "Property" => Symbol(u, 1) = Symbol(t, 1)
      <3> SUFFICES ASSUME kindOf[t.kind] = "Property" PROVE Symbol(u, 1) = Symbol(t, 1)
        OBVIOUS
      <3>1. Len(t.params) = 1 /\ u.params = t.params
        BY <2>1, <2>2
      <3>2. 1 \in 1 .. Len(t.params) /\ u.params = t.params
        BY ONLY <3>1
      <3> QED  BY <1>1, <3>2, SymbolStays
    <2> QED  BY <1>1, <2>1, <2>2, <2>3
  <1>4. ASSUME u.initializer # 0
        PROVE  /\ ln \notin MemberLNs
               /\ ConstAt(u, u.initializer) = Here(InitOf(ln[1]))
               /\ InitLN(ln) \in DOMAIN e.types
               /\ e.types[InitLN(ln)].kind = "Fn"
               /\ ConstAt(e.types[InitLN(ln)], e.types[InitLN(ln)].return)
                    = ConstAt(u, u.return)
    <2> DEFINE a == InitLN(ln)
               s == d.types[a]
               v == e.types[a]
    <2>1. /\ ln \notin MemberLNs
          /\ ConstAt(t, t.initializer) = Here(InitOf(ln[1]))
          /\ a \in DOMAIN d.types /\ s.kind = "Fn"
          /\ ConstAt(s, s.return) = ConstAt(t, t.return)
          /\ t.kind = "StoredVarGet"
      BY <1>1, <1>4 DEF PartnersOf
    <2> HIDE DEF t, u, a
    <2>2. TypeOK(s) /\ KeepsDecl(s, v) /\ a \in DOMAIN e.types /\ v.kind = s.kind
          /\ v.return = s.return
      BY <2>1 DEF DefOK, KeepsAll, KeepsDecl
    <2>3. HasCallSig(t.kind) /\ HasCallSig(s.kind)
      BY <2>1, KindOfEach DEF HasCallSig
    <2> HIDE DEF s, v
    <2>4. /\ ConstAt(u, t.initializer) = ConstAt(t, t.initializer)
          /\ ConstAt(u, t.return) = ConstAt(t, t.return)
      BY <1>1, <1>4, <2>3, TypeIndices, ConstStays
    <2>5. ConstAt(v, s.return) = ConstAt(s, s.return)
      BY <2>2, <2>3, TypeIndices, ConstStays
    <2> QED  BY <1>1, <2>1, <2>2, <2>4, <2>5 DEF a, v
  <1> HIDE DEF u
  <1> QED  BY <1>2, <1>3, <1>4 DEF PartnersOf, u

\* No slot is taken, and no stored property declared.
LEMMA SlotsStay ==
    ASSUME NEW d, NEW e, BaseInv(d), SlotsInv(d), KeepsAll(d, e),
           \A l \in DOMAIN d.types : e.types[l].slots = d.types[l].slots,
           \A l \in DOMAIN e.types : l \notin DOMAIN d.types =>
                /\ e.types[l].slots = 0
                /\ e.types[l].kind \notin {"StoredPropertyGet", "StoredPropertySet"}
    PROVE  SlotsInv(e)
  <1> SUFFICES ASSUME NEW o \in DOMAIN e.types PROVE SlotsOf(e, o)
    BY DEF SlotsInv
  <1> DEFINE G(x) == Stored(x, o, "StoredPropertyGet")
             S(x) == Stored(x, o, "StoredPropertySet")
  <1>1. \A l \in DOMAIN d.types :
            /\ l \in DOMAIN e.types
            /\ e.types[l].kind = d.types[l].kind /\ e.types[l].user = d.types[l].user
    BY DEF KeepsAll, KeepsDecl
  <1>2. G(e) = G(d) /\ S(e) = S(d)
    BY <1>1 DEF Stored
  <1>3. \A l \in G(d) \cup S(d) : e.types[l].user = d.types[l].user
    BY <1>1 DEF Stored
  <1>4. CASE o \in DOMAIN d.types
    <2>1. SlotsOf(d, o) /\ e.types[o].slots = d.types[o].slots  BY <1>4 DEF SlotsInv
    <2>2. {e.types[l].user : l \in G(e)} = {d.types[l].user : l \in G(d)}
      BY <1>2, <1>3
    <2> QED  BY <1>2, <1>3, <2>1, <2>2 DEF SlotsOf
  <1>5. CASE o \notin DOMAIN d.types
    <2>1. \A l \in DOMAIN d.types : IsMember(d.types[l].kind) => l[1] \in DOMAIN d.types
      BY DEF BaseInv, DefOK, NamesOK, LocalNames
    <2>2. G(d) = {} /\ S(d) = {}
      BY <1>5, <2>1, KindsThatReq, KindOfEach DEF Stored
    <2>3. e.types[o].slots = 0  BY <1>5
    <2>4. {e.types[l].user : l \in G(e)} = 0 .. 0 - 1  BY <1>2, <2>2
    <2>5. Cardinality(G(e)) = 0  BY <1>2, <2>2, FS_EmptySet
    <2> QED  BY <1>2, <2>2, <2>3, <2>4, <2>5 DEF SlotsOf
  <1> QED  BY <1>4, <1>5

----------------------------------------------------------------------------
\* The calls that the others are made of.

LEMMA HostNames ==
    ASSUME NEW n \in OwnerNames \cup MemberNames \cup {HostName("self"), HostName("x")}, Legal(n)
    PROVE  n \in Names /\ n[2] = "" /\ n = HostName(n[1])
  <1>1. n = <<n[1], n[2]>> /\ n[1] \in Bases
    <2>1. CASE n \in OwnerNames \cup MemberNames
      BY <2>1, NamesAssumption DEF Bases
    <2>2. CASE n = HostName("self")  BY <2>2 DEF HostName, Bases
    <2>3. CASE n = HostName("x")  BY <2>3 DEF HostName, Bases
    <2> QED  BY <2>1, <2>2, <2>3
  <1>2. \A b \in Bases, suffix \in Suffixes : <<b, suffix>> \in Names
    BY DEF Names
  <1>3. n[2] = "" /\ "" \in Suffixes  BY DEF Legal, Suffixes
  <1>4. n = <<n[1], "">>  BY <1>1, <1>3
  <1>5. n \in Names  BY <1>1, <1>2, <1>3, <1>4
  <1> QED  BY <1>3, <1>4, <1>5 DEF HostName

LEMMA ProgramNames ==
    /\ HostName("self") \in Names /\ Legal(HostName("self"))
    /\ HostName("x") \in Names /\ Legal(HostName("x"))
  <1>1. Legal(HostName("self")) /\ Legal(HostName("x"))
    BY NamesAssumption DEF Legal, HostName
  <1> QED  BY <1>1, HostNames

LEMMA ProgramSymbols ==
    /\ SelfSym \in LegalSyms /\ NoneSym \in LegalSyms
    /\ LegalSyms \subseteq Symbols
    /\ \A n \in Names : /\ Here(n) \in Symbols /\ Here(n) # NoSym
                        /\ SelfMember(n) \in Symbols /\ SelfMember(n) # NoSym
  BY NamesAssumption DEF Symbols, Here, SelfMember, NoSym

\* The same types, another answer.
LEMMA SameTypes ==
    ASSUME NEW d, NEW e, DefShape(e), e.types = d.types
    PROVE  /\ BaseInv(d) => BaseInv(e) /\ KeepsAll(d, e) /\ KeepsFixedParams(d, e)
           /\ SlotsInv(d) => SlotsInv(e)
           /\ PartnersInv(d) => PartnersInv(e)
  <1>1. DefOK(d) => DefOK(e)
    BY DEF DefOK, DefShape
  <1>2. \A o : MembersOf(d, o) <=> MembersOf(e, o)
    BY DEF MembersOf
  <1>3. NamesOK(d) => NamesOK(e)
    BY <1>2 DEF NamesOK
  <1>4. DefOK(d) => KeepsAll(d, e) /\ KeepsFixedParams(d, e)
    BY KeepsItself DEF DefOK, KeepsAll, KeepsFixedParams
  <1>5. SlotsInv(d) => SlotsInv(e)
    <2>1. \A o, k : Stored(d, o, k) = Stored(e, o, k)
      BY DEF Stored
    <2>2. \A o : SlotsOf(d, o) => SlotsOf(e, o)
      BY <2>1 DEF SlotsOf
    <2> QED  BY <2>2 DEF SlotsInv
  <1>6. PartnersInv(d) => PartnersInv(e)
    BY DEF PartnersInv, PartnersOf
  <1> QED  BY <1>1, <1>3, <1>4, <1>5, <1>6 DEF BaseInv

LEMMA addTypeIs ==
    ASSUME NEW d, BaseInv(d), NEW k \in {"Struct", "Protocol"}, NEW n \in OwnerNames,
           NEW e, e = addType(d, k, n)
    PROVE  /\ DefShape(e) /\ BaseInv(e)
           /\ \/ e.ok = FALSE /\ e.types = d.types
              \/ /\ e.ok = TRUE
                 /\ Legal(n) /\ <<n>> \in OwnerLNs /\ <<n>> \notin DOMAIN d.types
                 /\ Registered(d, <<n>>, New(k, <<n>>), e)
                 /\ KeepsAll(d, e)
  <1>1. DefOK(d) /\ DefShape(d) /\ NamesOK(d)  BY DEF BaseInv, DefOK, DefShape
  <1>2. CASE e = Fails(d)
    <2>1. DefShape(e) /\ e.types = d.types /\ e.ok = FALSE  BY <1>1, <1>2, FailsIs
    <2>2. BaseInv(e)
      BY <2>1, SameTypes
    <2> QED  BY <2>1, <2>2
  <1>3. CASE e # Fails(d)
    <2>1. CanMake(d, k, <<n>>, FALSE) /\ e = Register(d, <<n>>, New(k, <<n>>))
      BY <1>3 DEF addType
    <2>2. Legal(n) /\ <<n>> \notin DOMAIN d.types
      BY <2>1 DEF CanMake, CanMakeOwner, Has
    <2>3. n \in Names /\ n[2] = ""  BY <2>2, HostNames
    <2>4. <<n>> \in OwnerLNs /\ <<n>> \in LocalNames /\ <<n>> \notin MemberLNs
      BY <2>3, MakeNames, OwnerNameParts DEF LocalNames
    <2>5. k \in KindExs /\ ~ HasCallSig(k) /\ ~ IsMember(k) /\ kindOf[k] # "VarAssigner"
      BY KindOfEach DEF HasCallSig, IsMember
    <2>6. /\ Shape(New(k, <<n>>)) /\ New(k, <<n>>).kind = k
          /\ New(k, <<n>>).members = <<>> /\ New(k, <<n>>).typeParams = <<>>
      BY <2>4, <2>5, NewIs
    <2>7. TypeOK(New(k, <<n>>))
      <3> DEFINE t == New(k, <<n>>)
      <3>1. Shape(t) /\ t.kind = k /\ Len(t.members) = 0 /\ Len(t.typeParams) = 0
        BY <2>6
      <3> HIDE DEF t
      <3>2. TypeOK(t)  BY ONLY <2>5, <3>1 DEF TypeOK, Shape
      <3> QED  BY <3>2 DEF t
    <2>8. Registrable(d, <<n>>, New(k, <<n>>))
      BY <2>2, <2>3, <2>4, <2>5, <2>6, <2>7 DEF Registrable
    <2>9. BaseInv(e) /\ KeepsAll(d, e) /\ Registered(d, <<n>>, New(k, <<n>>), e)
      BY <2>1, <2>8, RegisterKeepsBase
    <2>10. DefShape(e) /\ e.ok = TRUE  BY <2>9 DEF Registered
    <2> QED  BY <2>2, <2>4, <2>9, <2>10
  <1> QED  BY <1>2, <1>3

\* The types that are registered by name, and which of them a call may ask for.
Askable(d, k, ln, user, assigner, initializer) ==
    /\ k \in KindExs /\ HasCallSig(k) /\ ln \in LocalNames
    /\ IsMember(k) <=> ln \in MemberLNs
    /\ kindOf[k] = "PropertyAssigner" => d.types[ln[1]].kind # "Protocol"
    /\ user \in Nat \cup {NoUser}
    /\ k = "MethodReq" /\ Has(d, ln[1]) => user = Len(d.types[ln[1]].members)
    /\ assigner \in Symbols \cup {NoSym} /\ initializer \in Symbols \cup {NoSym}
    /\ ln \in OwnerLNs =>
        (ln[1][2] # "" => <<HostName(ln[1][1])>> \in DOMAIN d.types)
    /\ ln \in MemberLNs =>
        (ln[2][2] # "" => <<ln[1], HostName(ln[2][1])>> \in DOMAIN d.types)

CallableAdded(d, e, k, ln, user, ret, assigner, initializer) ==
    /\ DefShape(e) /\ BaseInv(e) /\ e.ok = TRUE /\ KeepsAll(d, e)
    /\ ln \notin DOMAIN d.types
    /\ ln \in MemberLNs => ln[1] \in DOMAIN d.types
    /\ Registered(d, ln, Callable(k, ln, user, ret, assigner, initializer), e)
    /\ IsCallable(Callable(k, ln, user, ret, assigner, initializer),
                  k, ln, user, ret, assigner, initializer)

LEMMA addCallableIs ==
    ASSUME NEW d, BaseInv(d), NEW k, NEW ln, NEW user, NEW ret, NEW assigner,
           NEW initializer, NEW skip \in BOOLEAN,
           Askable(d, k, ln, user, assigner, initializer),
           CanMake(d, k, ln, skip), ret \in LegalSyms,
           NEW e, e = addCallable(d, k, ln, user, ret, assigner, initializer, skip)
    PROVE  CallableAdded(d, e, k, ln, user, ret, assigner, initializer)
  <1> DEFINE t == Callable(k, ln, user, ret, assigner, initializer)
  <1>1. e = Register(d, ln, t)  BY DEF addCallable, Callable
  <1>2. /\ k \in KindExs /\ HasCallSig(k) /\ ln \in LocalNames
        /\ IsMember(k) <=> ln \in MemberLNs
        /\ user \in Nat \cup {NoUser} /\ ret \in Symbols
        /\ assigner \in Symbols \cup {NoSym} /\ initializer \in Symbols \cup {NoSym}
    BY ProgramSymbols DEF Askable
  <1>3. kindOf[k] = "VarAssigner" => ln \in OwnerLNs
    BY <1>2 DEF IsMember, LocalNames
  <1>4. IsCallable(t, k, ln, user, ret, assigner, initializer)
    BY ONLY <1>2, <1>3, CallableIs
  <1> HIDE DEF t
  <1>5. TypeOK(t) /\ t.kind = k /\ t.members = <<>> /\ t.user = user
    BY <1>4 DEF IsCallable
  <1>6. ln \notin DOMAIN d.types /\ (ln \in MemberLNs => ln[1] \in DOMAIN d.types)
    <2>1. CASE ln \in OwnerLNs
      BY <2>1, OwnerNameParts DEF CanMake, CanMakeOwner, Has
    <2>2. CASE ln \in MemberLNs
      <3>1. Len(ln) # 1 /\ ln = <<ln[1], ln[2]>>  BY <2>2, MemberNameParts
      <3> QED  BY <3>1 DEF CanMake, CanMakeMember, Has, ownerName, memberName
    <2> QED  BY <1>2, <2>1, <2>2 DEF LocalNames
  <1>7. ASSUME ln \in MemberLNs
        PROVE  /\ CanHaveMembers(d.types[ln[1]].kind)
               /\ k = "MethodReq" <=> d.types[ln[1]].kind = "Protocol"
               /\ k = "MethodReq" => user = Len(d.types[ln[1]].members)
    <2>1. Len(ln) # 1 /\ ln = <<ln[1], ln[2]>>  BY <1>7, MemberNameParts
    <2>2. CanMakeMember(d, k, ln[1], ln[2], skip)
      BY <2>1 DEF CanMake, ownerName, memberName
    <2>3. /\ CanHaveMembers(d.types[ln[1]].kind)
          /\ kindOf[k] = "Method" => (k = "MethodReq" <=> d.types[ln[1]].kind = "Protocol")
          /\ kindOf[k] = "Property" => d.types[ln[1]].kind # "Protocol"
      BY <2>2 DEF CanMakeMember
    <2>4. kindOf[k] \in {"Method", "Property", "PropertyAssigner"}
      BY <1>2, <1>7 DEF IsMember
    <2>5. k = "MethodReq" => kindOf[k] = "Method"  BY KindOfEach
    <2>6. kindOf[k] = "PropertyAssigner" => d.types[ln[1]].kind # "Protocol"  BY DEF Askable
    <2>7. k = "MethodReq" => user = Len(d.types[ln[1]].members)
      BY <1>6, <1>7 DEF Askable, Has
    <2> QED  BY <2>3, <2>4, <2>5, <2>6, <2>7
  <1>8. Registrable(d, ln, t)
    BY <1>2, <1>5, <1>6, <1>7 DEF Registrable, Askable
  <1>9. BaseInv(e) /\ KeepsAll(d, e) /\ Registered(d, ln, t, e)
    BY <1>1, <1>8, RegisterKeepsBase
  <1>10. DefShape(e) /\ e.ok = TRUE  BY <1>9 DEF Registered
  <1> QED  BY <1>4, <1>6, <1>9, <1>10 DEF t, CallableAdded

\* A param that the program adds to what it just registered.
ParamAdded(d, ln, n, sym, e) ==
    /\ DefShape(e) /\ BaseInv(e) /\ e.ok = TRUE /\ KeepsAll(d, e)
    /\ DOMAIN e.types = DOMAIN d.types
    /\ e.types[ln] = WithParam(d.types[ln], n, sym)
    /\ \A l \in DOMAIN d.types : l # ln => e.types[l] = d.types[l]

LEMMA addParamIs ==
    ASSUME NEW d, BaseInv(d), NEW ln \in DOMAIN d.types,
           NEW n \in {HostName("self"), HostName("x")}, NEW sym \in LegalSyms,
           CanAddParam(d.types[ln], n),
           NEW e, e = addParam(d, ln, n, sym, TRUE)
    PROVE  ParamAdded(d, ln, n, sym, e)
  <1> DEFINE u == WithParam(d.types[ln], n, sym)
  <1>1. e = Answers(With(d, ln, u).types, Len(d.types[ln].params))
    BY ProgramNames DEF addParam, Has
  <1>2. DefShape(d) /\ TypeOK(d.types[ln])  BY DEF BaseInv, DefOK, DefShape
  <1>3. DefShape(e) /\ e.ok = TRUE /\ e.types = [d.types EXCEPT ![ln] = u]
    <2> DEFINE T == With(d, ln, u).types
               i == Len(d.types[ln].params)
    <2>1. T = [d.types EXCEPT ![ln] = u]  BY <1>2, WithIs
    <2> HIDE DEF T, i, u
    <2>2. e = Answers(T, i)  BY <1>1 DEF T, i, u
    <2>3. DefShape(e) /\ e.ok = TRUE /\ e.types = T  BY <2>2, AnswersIs
    <2> QED  BY <2>1, <2>3
  <1>4. n \in Names /\ sym \in Symbols  BY ProgramNames, ProgramSymbols
  <1>5. TypeOK(u) /\ KeepsDecl(d.types[ln], u) /\ u.members = d.types[ln].members
    BY <1>2, <1>4, WithParamKeeps
  <1> HIDE DEF u
  <1>6. /\ BaseInv(e) /\ KeepsAll(d, e)
        /\ DOMAIN e.types = DOMAIN d.types /\ e.types[ln] = u
        /\ \A l \in DOMAIN d.types : l # ln => e.types[l] = d.types[l]
    BY <1>3, <1>5, AmendKeepsBase
  <1> QED  BY <1>3, <1>6 DEF u, ParamAdded

----------------------------------------------------------------------------
\* Vars.

\* Types are added, and none is touched.
OnlyAdds(d, e) == \A l \in DOMAIN d.types : l \in DOMAIN e.types /\ e.types[l] = d.types[l]

LEMMA OnlyAddsKeeps ==
    ASSUME NEW d, NEW e, DefOK(d), OnlyAdds(d, e)
    PROVE  KeepsAll(d, e) /\ KeepsFixedParams(d, e)
  BY KeepsItself DEF DefOK, OnlyAdds, KeepsAll, KeepsFixedParams

LEMMA FirstParamFits ==
    ASSUME NEW t, HasCallSig(t.kind), t.params = <<>>, t.definingNamed = FALSE, NEW n
    PROVE  CanAddParam(t, n)
  <1>1. Len(t.params) = 0  OBVIOUS
  <1>2. ~ HasName(t.params, n)  BY <1>1 DEF HasName
  <1>3. {i \in 1 .. Len(t.params) : ~ t.params[i].named} = {}  BY <1>1
  <1>4. positionalParams(t) = 0  BY <1>3, FS_EmptySet DEF positionalParams
  <1> QED  BY <1>2, <1>4, LimitsAssumption DEF CanAddParam

\* What goes with a var gets a name that is free.
LEMMA InitializerIs ==
    ASSUME NEW d, BaseInv(d), NEW n \in Names, <<InitOf(n)>> \notin DOMAIN d.types,
           <<HostName(n[1])>> \in DOMAIN d.types, NEW sym \in LegalSyms,
           NEW e, e = addCallable(d, "Fn", <<InitOf(n)>>, NoUser, sym, NoSym, NoSym, TRUE)
    PROVE  /\ DefShape(e) /\ BaseInv(e) /\ OnlyAdds(d, e)
           /\ DOMAIN e.types = DOMAIN d.types \cup {<<InitOf(n)>>}
           /\ IsCallable(e.types[<<InitOf(n)>>], "Fn", <<InitOf(n)>>, NoUser, sym, NoSym, NoSym)
  <1> DEFINE ln == <<InitOf(n)>>
             t == Callable("Fn", ln, NoUser, sym, NoSym, NoSym)
  <1>1. /\ ln \in OwnerLNs /\ ln \in LocalNames /\ ln \notin MemberLNs /\ Len(ln) = 1
        /\ ln[1][1] = n[1] /\ ln[1] = InitOf(n)
    BY NameParts, MakeNames, OwnerNameParts DEF LocalNames, InitOf
  <1> HIDE DEF ln
  <1>2. CanMake(d, "Fn", ln, TRUE)
    BY <1>1 DEF CanMake, CanMakeOwner, Has, ln
  <1>3. "Fn" \in KindExs /\ HasCallSig("Fn") /\ ~ IsMember("Fn")
        /\ kindOf["Fn"] # "PropertyAssigner"
    BY KindOfEach DEF HasCallSig, IsMember
  <1>4. Askable(d, "Fn", ln, NoUser, NoSym, NoSym)
    BY <1>1, <1>3 DEF Askable
  <1>5. /\ DefShape(e) /\ BaseInv(e) /\ Registered(d, ln, t, e)
        /\ IsCallable(t, "Fn", ln, NoUser, sym, NoSym, NoSym)
    <2>1. CallableAdded(d, e, "Fn", ln, NoUser, sym, NoSym, NoSym)
      BY <1>2, <1>4, addCallableIs DEF ln
    <2> QED  BY <2>1 DEF CallableAdded
  <1> HIDE DEF t
  <1>6. OnlyAdds(d, e) /\ DOMAIN e.types = DOMAIN d.types \cup {ln} /\ e.types[ln] = t
    BY <1>1, <1>5 DEF Registered, OnlyAdds
  <1> QED  BY <1>5, <1>6 DEF ln

\* The assigner of a var takes what the var has, knows the var, and answers none.
IsVarAssigner(s, k, n, sym) ==
    /\ TypeOK(s) /\ s.kind = k /\ s.slots = 0 /\ s.assigner = 0 /\ s.initializer = 0
    /\ ConstAt(s, s.return) = NoneSym
    /\ Len(s.params) = 1 /\ Symbol(s, 1) = sym
    /\ s.var # 0 /\ ConstAt(s, s.var) = Here(HostName(n[1]))

LEMMA VarAssignerIs ==
    ASSUME NEW d, BaseInv(d), NEW k \in {"VarAssigner", "StoredVarSet"}, NEW n \in Names,
           <<AssignerOf(n)>> \notin DOMAIN d.types,
           <<HostName(n[1])>> \in DOMAIN d.types, NEW sym \in LegalSyms,
           NEW e,
           e = addParam(addCallable(d, k, <<AssignerOf(n)>>, NoUser, NoneSym, NoSym, NoSym, TRUE),
                        <<AssignerOf(n)>>, HostName("x"), sym, TRUE)
    PROVE  /\ DefShape(e) /\ BaseInv(e) /\ OnlyAdds(d, e)
           /\ DOMAIN e.types = DOMAIN d.types \cup {<<AssignerOf(n)>>}
           /\ IsVarAssigner(e.types[<<AssignerOf(n)>>], k, n, sym)
  <1> DEFINE ln == <<AssignerOf(n)>>
             t == Callable(k, ln, NoUser, NoneSym, NoSym, NoSym)
             d1 == addCallable(d, k, ln, NoUser, NoneSym, NoSym, NoSym, TRUE)
             s == WithParam(t, HostName("x"), sym)
  <1>1. /\ ln \in OwnerLNs /\ ln \in LocalNames /\ ln \notin MemberLNs /\ Len(ln) = 1
        /\ ln[1][1] = n[1] /\ ln[1] = AssignerOf(n)
    BY NameParts, MakeNames, OwnerNameParts DEF LocalNames, AssignerOf
  <1> HIDE DEF ln
  <1>2. CanMake(d, k, ln, TRUE)
    BY <1>1 DEF CanMake, CanMakeOwner, Has, ln
  <1>3. k \in KindExs /\ HasCallSig(k) /\ ~ IsMember(k) /\ kindOf[k] = "VarAssigner"
    BY KindOfEach DEF HasCallSig, IsMember
  <1>4. Askable(d, k, ln, NoUser, NoSym, NoSym)
    BY <1>1, <1>3 DEF Askable
  <1>5. /\ DefShape(d1) /\ BaseInv(d1) /\ Registered(d, ln, t, d1)
        /\ IsCallable(t, k, ln, NoUser, NoneSym, NoSym, NoSym)
    <2>1. CallableAdded(d, d1, k, ln, NoUser, NoneSym, NoSym, NoSym)
      BY <1>2, <1>4, ProgramSymbols, addCallableIs DEF ln
    <2> QED  BY <2>1 DEF CallableAdded
  <1> HIDE DEF t, d1
  <1>6. OnlyAdds(d, d1) /\ DOMAIN d1.types = DOMAIN d.types \cup {ln} /\ d1.types[ln] = t
    BY <1>1, <1>5 DEF Registered, OnlyAdds
  <1>7. CanAddParam(d1.types[ln], HostName("x"))
    BY <1>3, <1>5, <1>6, FirstParamFits DEF IsCallable
  <1>8. e = addParam(d1, ln, HostName("x"), sym, TRUE)  BY DEF d1, ln
  <1>9. /\ DefShape(e) /\ BaseInv(e)
        /\ DOMAIN e.types = DOMAIN d1.types /\ e.types[ln] = s
        /\ \A l \in DOMAIN d1.types : l # ln => e.types[l] = d1.types[l]
    <2>1. ln \in DOMAIN d1.types  BY <1>6
    <2>2. ParamAdded(d1, ln, HostName("x"), sym, e)
      BY <1>5, <1>7, <1>8, <2>1, addParamIs
    <2> QED  BY <1>6, <2>2 DEF ParamAdded
  <1>10. OnlyAdds(d, e)
    BY <1>6, <1>9 DEF OnlyAdds, ln
  <1>11. IsVarAssigner(s, k, n, sym)
    <2>1. TypeOK(t) /\ HostName("x") \in Names /\ sym \in Symbols /\ Len(t.params) = 0
      BY <1>5, ProgramNames, ProgramSymbols DEF IsCallable
    <2>2. /\ TypeOK(s) /\ KeepsDecl(t, s) /\ s.slots = t.slots
          /\ Len(s.params) = 1 /\ Symbol(s, 1) = sym
      <3>1. /\ TypeOK(s) /\ KeepsDecl(t, s) /\ s.slots = t.slots
            /\ Len(s.params) = Len(t.params) + 1 /\ Symbol(s, Len(t.params) + 1) = sym
        BY <2>1, WithParamKeeps
      <3>2. Len(t.params) + 1 = 1  BY <2>1
      <3> HIDE DEF s
      <3> QED  BY <3>1, <3>2
    <2> HIDE DEF s
    <2>3. /\ t.kind = k /\ t.slots = 0 /\ t.assigner = 0 /\ t.initializer = 0
          /\ t.return \in 1 .. Len(t.consts) /\ ConstAt(t, t.return) = NoneSym
          /\ t.var \in 1 .. Len(t.consts) /\ ConstAt(t, t.var) = Here(HostName(n[1]))
      BY <1>1, <1>3, <1>5 DEF IsCallable, NamesItsVar
    <2>4. ConstAt(s, t.return) = NoneSym /\ ConstAt(s, t.var) = Here(HostName(n[1]))
      BY <2>2, <2>3, ConstStays
    <2>5. t.var # 0
      <3>1. Len(t.consts) \in Nat  BY <2>1, TypeIndices
      <3> QED  BY <2>3, <3>1
    <2> QED  BY <2>2, <2>3, <2>4, <2>5 DEF IsVarAssigner, KeepsDecl
  <1> QED  BY <1>6, <1>9, <1>10, <1>11 DEF ln

LEMMA PlainPartners ==
    ASSUME NEW e, NEW ln, e.types[ln].assigner = 0, e.types[ln].initializer = 0,
           kindOf[e.types[ln].kind] \notin {"Property", "Var"}
    PROVE  PartnersOf(e, ln)
  <1>1. e.types[ln].kind # "StoredVarGet"  BY KindOfEach
  <1> QED  BY <1>1 DEF PartnersOf

\* The kinds that addVar is given.
VarKinds(getK, setK) ==
    \/ getK = "StoredVarGet" /\ setK \in {"None", "StoredVarSet"}
    \/ getK = "Var" /\ setK \in {"None", "VarAssigner"}

VarAssignerSym(n, setK) == IF setK # "None" THEN Here(AssignerOf(n)) ELSE NoSym
VarInitSym(n, getK) == IF getK = "StoredVarGet" THEN Here(InitOf(n)) ELSE NoSym

\* A var is declared with all that goes with it.
IsVarDeclared(d, e, n, sym, getK, setK) ==
    /\ DefShape(e) /\ BaseInv(e) /\ OnlyAdds(d, e)
    /\ n \in Names /\ n = HostName(n[1])
    /\ <<n>> \in DOMAIN e.types
    /\ IsCallable(e.types[<<n>>], getK, <<n>>, NoUser, sym,
                  VarAssignerSym(n, setK), VarInitSym(n, getK))
    /\ \A l \in DOMAIN e.types :
        \/ l \in DOMAIN d.types
        \/ l = <<n>>
        \/ setK # "None" /\ l = <<AssignerOf(n)>>
        \/ getK = "StoredVarGet" /\ l = <<InitOf(n)>>
    /\ setK # "None" =>
        /\ <<AssignerOf(n)>> \in DOMAIN e.types
        /\ IsVarAssigner(e.types[<<AssignerOf(n)>>], setK, n, sym)
    /\ getK = "StoredVarGet" =>
        /\ <<InitOf(n)>> \in DOMAIN e.types
        /\ IsCallable(e.types[<<InitOf(n)>>], "Fn", <<InitOf(n)>>, NoUser, sym, NoSym, NoSym)

\* What addCallable asks for of a name and a type that the host passes.
CanDeclare(d, k, ln, ret) == CanMake(d, k, ln, FALSE) /\ ret \in LegalSyms

Refused(d, e) == DefShape(e) /\ e.ok = FALSE /\ e.types = d.types

LEMMA VarFails ==
    ASSUME NEW d, BaseInv(d), NEW n, NEW sym, NEW getK, NEW setK,
           ~ CanDeclare(d, getK, <<n>>, sym),
           NEW e, e = addVar(d, n, sym, getK, setK)
    PROVE  Refused(d, e)
  <1> DEFINE d1 == addCallable(d, getK, <<n>>, NoUser, sym,
                    VarAssignerSym(n, setK), VarInitSym(n, getK), FALSE)
  <1>1. DefShape(d1) /\ d1.ok = FALSE /\ d1.types = d.types
    <2>1. d1 = Fails(d)  BY DEF addCallable, CanDeclare
    <2>2. DefShape(d)  BY DEF BaseInv, DefOK, DefShape
    <2> QED  BY <2>1, <2>2, FailsIs
  <1>2. d1.ok = FALSE => e = d1
    BY DEF addVar, VarAssignerSym, VarInitSym
  <1> QED  BY <1>1, <1>2 DEF Refused

LEMMA VarIs ==
    ASSUME NEW d, BaseInv(d), NEW n \in OwnerNames, NEW sym \in LegalSyms,
           NEW getK, NEW setK, VarKinds(getK, setK),
           CanMake(d, getK, <<n>>, FALSE),
           NEW e, e = addVar(d, n, sym, getK, setK)
    PROVE  e.ok = TRUE /\ IsVarDeclared(d, e, n, sym, getK, setK)
  <1> DEFINE get == <<n>>
             set == <<AssignerOf(n)>>
             init == <<InitOf(n)>>
             asg == VarAssignerSym(n, setK)
             ini == VarInitSym(n, getK)
             t == Callable(getK, get, NoUser, sym, asg, ini)
             d1 == addCallable(d, getK, get, NoUser, sym, asg, ini, FALSE)
             d2 == IF setK # "None"
                   THEN addParam(
                        addCallable(d1, setK, set, NoUser, NoneSym, NoSym, NoSym, TRUE),
                        set, HostName("x"), sym, TRUE)
                   ELSE d1
             d3 == IF getK = "StoredVarGet"
                   THEN addCallable(d2, "Fn", init, NoUser, sym, NoSym, NoSym, TRUE)
                   ELSE d2
  <1>1. e = IF d1.ok THEN Answers(d3.types, 0) ELSE d1
    BY DEF addVar, VarAssignerSym, VarInitSym
  <1>2. Legal(n) /\ get \notin DOMAIN d.types
    BY DEF CanMake, CanMakeOwner, Has
  <1>3. n \in Names /\ n[2] = "" /\ n = HostName(n[1])  BY <1>2, HostNames
  <1>4. /\ get \in OwnerLNs /\ get \in LocalNames /\ get \notin MemberLNs /\ get[1] = n
        /\ set \in OwnerLNs /\ set[1] = AssignerOf(n)
        /\ init \in OwnerLNs /\ init[1] = InitOf(n)
        /\ AssignerOf(n) \in Names /\ InitOf(n) \in Names
    BY <1>3, NameParts, MakeNames, OwnerNameParts DEF LocalNames
  <1>5. set # get /\ init # get /\ set # init
    <2>1. AssignerOf(n)[2] = "$assigner" /\ InitOf(n)[2] = "$init"
      BY DEF AssignerOf, InitOf
    <2> QED  BY <1>3, <1>4, <2>1
  <1>6. set \notin DOMAIN d.types /\ init \notin DOMAIN d.types
    <2>1. \A l \in DOMAIN d.types \cap OwnerLNs :
                l[1][2] # "" => <<HostName(l[1][1])>> \in DOMAIN d.types
      BY DEF BaseInv, NamesOK
    <2>2. /\ set[1][2] # "" /\ HostName(set[1][1]) = n
          /\ init[1][2] # "" /\ HostName(init[1][1]) = n
      BY <1>3 DEF AssignerOf, InitOf
    <2> HIDE DEF set, init
    <2> QED  BY <1>2, <1>4, <2>1, <2>2
  <1> HIDE DEF set, init
  <1>7. /\ getK \in KindExs /\ HasCallSig(getK) /\ ~ IsMember(getK)
        /\ kindOf[getK] # "PropertyAssigner" /\ getK # "MethodReq"
    BY KindOfEach DEF HasCallSig, IsMember, VarKinds
  <1>8. asg \in Symbols \cup {NoSym} /\ ini \in Symbols \cup {NoSym}
    BY <1>4, ProgramSymbols DEF VarAssignerSym, VarInitSym
  <1> HIDE DEF asg, ini, get
  <1>9. Askable(d, getK, get, NoUser, asg, ini)
    BY <1>3, <1>4, <1>7, <1>8 DEF Askable
  <1>10. /\ DefShape(d1) /\ BaseInv(d1) /\ d1.ok = TRUE /\ Registered(d, get, t, d1)
         /\ IsCallable(t, getK, get, NoUser, sym, asg, ini)
    <2>1. CallableAdded(d, d1, getK, get, NoUser, sym, asg, ini)
      BY <1>9, addCallableIs DEF get
    <2> QED  BY <2>1 DEF CallableAdded
  <1> HIDE DEF t, d1
  <1>11. OnlyAdds(d, d1) /\ DOMAIN d1.types = DOMAIN d.types \cup {get} /\ d1.types[get] = t
    BY <1>4, <1>10 DEF Registered, OnlyAdds
  <1>12. /\ DefShape(d2) /\ BaseInv(d2) /\ OnlyAdds(d1, d2)
         /\ DOMAIN d2.types = IF setK # "None" THEN DOMAIN d1.types \cup {set} ELSE DOMAIN d1.types
         /\ setK # "None" => IsVarAssigner(d2.types[set], setK, n, sym)
    <2>1. CASE setK = "None"
      BY <1>10, <2>1 DEF OnlyAdds
    <2>2. CASE setK # "None"
      <3>1. setK \in {"VarAssigner", "StoredVarSet"}  BY <2>2 DEF VarKinds
      <3>2. set \notin DOMAIN d1.types /\ <<HostName(n[1])>> \in DOMAIN d1.types
        BY <1>3, <1>5, <1>6, <1>11 DEF get
      <3>3. d2 = addParam(
                    addCallable(d1, setK, <<AssignerOf(n)>>, NoUser, NoneSym, NoSym, NoSym, TRUE),
                    <<AssignerOf(n)>>, HostName("x"), sym, TRUE)
        BY <2>2 DEF set
      <3> HIDE DEF d2
      <3>4. /\ DefShape(d2) /\ BaseInv(d2) /\ OnlyAdds(d1, d2)
            /\ DOMAIN d2.types = DOMAIN d1.types \cup {<<AssignerOf(n)>>}
            /\ IsVarAssigner(d2.types[<<AssignerOf(n)>>], setK, n, sym)
        <4>1. <<AssignerOf(n)>> \notin DOMAIN d1.types  BY <3>2 DEF set
        <4>2. n \in Names /\ BaseInv(d1)  BY <1>3, <1>10
        <4> QED  BY ONLY <3>1, <3>2, <3>3, <4>1, <4>2, sym \in LegalSyms, VarAssignerIs
      <3> QED  BY <2>2, <3>4 DEF set
    <2> QED  BY <2>1, <2>2
  <1> HIDE DEF d2
  <1>13. /\ DefShape(d3) /\ BaseInv(d3) /\ OnlyAdds(d2, d3)
         /\ DOMAIN d3.types
                = IF getK = "StoredVarGet" THEN DOMAIN d2.types \cup {init} ELSE DOMAIN d2.types
         /\ getK = "StoredVarGet" =>
                IsCallable(d3.types[init], "Fn", init, NoUser, sym, NoSym, NoSym)
    <2>1. CASE getK # "StoredVarGet"
      BY <1>12, <2>1 DEF OnlyAdds
    <2>2. CASE getK = "StoredVarGet"
      <3>1. init \notin DOMAIN d2.types /\ <<HostName(n[1])>> \in DOMAIN d2.types
        BY <1>3, <1>5, <1>6, <1>11, <1>12 DEF get
      <3>2. d3 = addCallable(d2, "Fn", <<InitOf(n)>>, NoUser, sym, NoSym, NoSym, TRUE)
        BY <2>2 DEF init
      <3> HIDE DEF d3
      <3>3. /\ DefShape(d3) /\ BaseInv(d3) /\ OnlyAdds(d2, d3)
            /\ DOMAIN d3.types = DOMAIN d2.types \cup {<<InitOf(n)>>}
            /\ IsCallable(d3.types[<<InitOf(n)>>], "Fn", <<InitOf(n)>>, NoUser, sym, NoSym, NoSym)
        BY <1>3, <1>12, <3>1, <3>2, InitializerIs DEF init
      <3> QED  BY <2>2, <3>3 DEF init
    <2> QED  BY <2>1, <2>2
  <1> HIDE DEF d3
  <1>14. DefShape(e) /\ e.ok = TRUE /\ e.types = d3.types
    <2>1. e = Answers(d3.types, 0)  BY <1>1, <1>10
    <2> QED  BY <2>1, AnswersIs
  <1>15. BaseInv(e)  BY <1>13, <1>14, SameTypes
  <1>16. /\ OnlyAdds(d, e)
         /\ e.types[get] = t
         /\ setK # "None" => e.types[set] = d2.types[set] /\ set \in DOMAIN e.types
         /\ getK = "StoredVarGet" => e.types[init] = d3.types[init] /\ init \in DOMAIN e.types
         /\ get \in DOMAIN e.types
    BY <1>11, <1>12, <1>13, <1>14 DEF OnlyAdds
  <1>17. \A l \in DOMAIN e.types :
            \/ l \in DOMAIN d.types
            \/ l = get
            \/ setK # "None" /\ l = set
            \/ getK = "StoredVarGet" /\ l = init
    BY <1>11, <1>12, <1>13, <1>14
  <1>18. IsVarDeclared(d, e, n, sym, getK, setK)
    <2>1. IsCallable(e.types[get], getK, get, NoUser, sym, asg, ini)  BY <1>10, <1>16
    <2>2. setK # "None" => IsVarAssigner(e.types[set], setK, n, sym)  BY <1>12, <1>16
    <2>3. getK = "StoredVarGet" =>
            IsCallable(e.types[init], "Fn", init, NoUser, sym, NoSym, NoSym)
      BY <1>13, <1>16
    <2> QED  BY ONLY <1>3, <1>14, <1>15, <1>16, <1>17, <2>1, <2>2, <2>3
       DEF IsVarDeclared, get, set, init, asg, ini
  <1> QED  BY <1>14, <1>18

LEMMA VarPartners ==
    ASSUME NEW d, BaseInv(d), PartnersInv(d), NEW n, NEW sym, NEW getK, NEW setK,
           VarKinds(getK, setK), NEW e, IsVarDeclared(d, e, n, sym, getK, setK)
    PROVE  PartnersInv(e)
  <1> DEFINE get == <<n>>
             set == <<AssignerOf(n)>>
             init == <<InitOf(n)>>
             asg == VarAssignerSym(n, setK)
             ini == VarInitSym(n, getK)
             t == e.types[get]
             s == e.types[set]
             f == e.types[init]
  <1>1. n \in Names /\ n = HostName(n[1]) /\ OnlyAdds(d, e)  BY DEF IsVarDeclared
  <1>2. get \in OwnerLNs /\ get \notin MemberLNs /\ Len(get) = 1 /\ get[1] = n
    BY <1>1, MakeNames, OwnerNameParts
  <1>3. /\ Here(AssignerOf(n)) # NoSym /\ Here(InitOf(n)) # NoSym
    BY <1>1, NameParts, ProgramSymbols
  <1>4. IsCallable(t, getK, get, NoUser, sym, asg, ini)  BY DEF IsVarDeclared
  <1>5. setK # "None" => set \in DOMAIN e.types /\ IsVarAssigner(s, setK, n, sym)
    BY DEF IsVarDeclared
  <1>6. getK = "StoredVarGet" =>
            init \in DOMAIN e.types /\ IsCallable(f, "Fn", init, NoUser, sym, NoSym, NoSym)
    BY DEF IsVarDeclared
  <1>7. \A l \in DOMAIN e.types :
            \/ l \in DOMAIN d.types
            \/ l = get
            \/ setK # "None" /\ l = set
            \/ getK = "StoredVarGet" /\ l = init
    BY DEF IsVarDeclared
  <1>8. ASSUME NEW l \in DOMAIN d.types
        PROVE  PartnersOf(e, l)
    <2>1. DefOK(d) /\ PartnersOf(d, l)  BY DEF BaseInv, PartnersInv
    <2> QED  BY <1>1, <2>1, OnlyAddsKeeps, PartnersStay
  <1>9. setK # "None" => PartnersOf(e, set)
    <2> SUFFICES ASSUME setK # "None" PROVE PartnersOf(e, set)
      OBVIOUS
    <2>1. s.assigner = 0 /\ s.initializer = 0 /\ s.kind = setK  BY <1>5 DEF IsVarAssigner
    <2>2. kindOf[setK] = "VarAssigner"  BY KindOfEach DEF VarKinds
    <2> QED  BY <2>1, <2>2, PlainPartners
  <1>10. getK = "StoredVarGet" => PartnersOf(e, init)
    <2> SUFFICES ASSUME getK = "StoredVarGet" PROVE PartnersOf(e, init)
      OBVIOUS
    <2>1. f.assigner = 0 /\ f.initializer = 0 /\ f.kind = "Fn"  BY <1>6 DEF IsCallable
    <2> QED  BY <2>1, KindOfEach, PlainPartners
  <1>11. PartnersOf(e, get)
    <2>1. /\ asg = IF setK # "None" THEN Here(AssignerOf(n)) ELSE NoSym
          /\ ini = IF getK = "StoredVarGet" THEN Here(InitOf(n)) ELSE NoSym
      BY DEF VarAssignerSym, VarInitSym
    <2>2. /\ kindOf[getK] = "Var" /\ HasCallSig(getK) /\ ~ IsMember(getK)
          /\ getK \in StoredKinds <=> getK = "StoredVarGet"
          /\ setK # "None" =>
                /\ kindOf[setK] = "VarAssigner"
                /\ setK \in StoredKinds <=> getK \in StoredKinds
      BY KindOfEach DEF VarKinds, HasCallSig, IsMember, StoredKinds
    <2>3. /\ AssignerSym(get) = Here(AssignerOf(n)) /\ AssignerLN(get) = set
          /\ InitLN(get) = init
      BY <1>2 DEF AssignerSym, AssignerLN, InitLN
    <2> HIDE DEF asg, ini, get, set, init, t, s, f
    <2>4. /\ t.kind = getK /\ t.params = <<>> /\ ConstAt(t, t.return) = sym
          /\ t.assigner # 0 => setK # "None" /\ ConstAt(t, t.assigner) = Here(AssignerOf(n))
          /\ getK = "StoredVarGet" <=> t.initializer # 0
          /\ t.initializer # 0 => ConstAt(t, t.initializer) = Here(InitOf(n))
      BY <1>3, <1>4, <2>1 DEF IsCallable
    <2>5. setK # "None" =>
            /\ Assigns(t, s)
            /\ s.var # 0 /\ ConstAt(s, s.var) = Here(n)
      BY <1>1, <1>5, <2>2, <2>4 DEF IsVarAssigner, Assigns
    <2>6. getK = "StoredVarGet" =>
            f.kind = "Fn" /\ ConstAt(f, f.return) = ConstAt(t, t.return)
      BY <1>6, <2>4 DEF IsCallable
    <2>7. Len(t.params) = 0  BY <2>4
    <2>8. ~ IsMember(t.kind) /\ HasCallSig(t.kind) /\ kindOf[t.kind] = "Var"  BY <2>2, <2>4
    <2> QED  BY <1>2, <1>5, <1>6, <2>3, <2>4, <2>5, <2>6, <2>7, <2>8 DEF PartnersOf, t, s, f
  <1> HIDE DEF get, set, init
  <1> QED  BY <1>7, <1>8, <1>9, <1>10, <1>11 DEF PartnersInv

LEMMA VarSlots ==
    ASSUME NEW d, BaseInv(d), SlotsInv(d), NEW n, NEW sym, NEW getK, NEW setK,
           VarKinds(getK, setK), NEW e, IsVarDeclared(d, e, n, sym, getK, setK)
    PROVE  SlotsInv(e)
  <1>1. DefOK(d) /\ OnlyAdds(d, e)  BY DEF BaseInv, IsVarDeclared
  <1>2. KeepsAll(d, e) /\ \A l \in DOMAIN d.types : e.types[l].slots = d.types[l].slots
    BY <1>1, OnlyAddsKeeps DEF OnlyAdds
  <1>3. ASSUME NEW l \in DOMAIN e.types, l \notin DOMAIN d.types
        PROVE  /\ e.types[l].slots = 0
               /\ e.types[l].kind \in {"Var", "StoredVarGet", "VarAssigner", "StoredVarSet", "Fn"}
    <2>1. CASE l = <<n>>
      BY <2>1 DEF IsVarDeclared, IsCallable, VarKinds
    <2>2. CASE setK # "None" /\ l = <<AssignerOf(n)>>
      BY <2>2 DEF IsVarDeclared, IsVarAssigner, VarKinds
    <2>3. CASE getK = "StoredVarGet" /\ l = <<InitOf(n)>>
      BY <2>3 DEF IsVarDeclared, IsCallable
    <2> QED  BY <1>3, <2>1, <2>2, <2>3 DEF IsVarDeclared
  <1> QED  BY <1>2, <1>3, SlotsStay

----------------------------------------------------------------------------
\* Every call keeps the invariant. A call that declares owner types only adds
\* to the definition; one that fails changes no declaration.

Declares(d, e) == DefInv(e) /\ OnlyAdds(d, e) /\ (e.ok = FALSE => e.types = d.types)
Amends(d, e) == DefInv(e) /\ (e.ok = FALSE => Declared(e) = Declared(d))

LEMMA NothingDeclared ==
    ASSUME NEW d, DefInv(d), NEW e, Refused(d, e)
    PROVE  Declares(d, e) /\ Amends(d, e)
  <1>1. DefShape(e) /\ e.types = d.types  BY DEF Refused
  <1>2. DefInv(e)  BY <1>1, SameTypes DEF DefInv
  <1>3. OnlyAdds(d, e)  BY <1>1 DEF OnlyAdds
  <1>4. Declared(e) = Declared(d)  BY <1>1 DEF Declared
  <1> QED  BY <1>1, <1>2, <1>3, <1>4 DEF Declares, Amends

LEMMA VarKeeps ==
    ASSUME NEW d, DefInv(d), NEW n \in OwnerNames, NEW sym, NEW getK, NEW setK,
           VarKinds(getK, setK), NEW e, e = addVar(d, n, sym, getK, setK)
    PROVE  Declares(d, e)
  <1>1. BaseInv(d) /\ SlotsInv(d) /\ PartnersInv(d)  BY DEF DefInv
  <1>2. CASE CanDeclare(d, getK, <<n>>, sym)
    <2>1. e.ok = TRUE /\ IsVarDeclared(d, e, n, sym, getK, setK)
      BY <1>1, <1>2, VarIs DEF CanDeclare
    <2>2. SlotsInv(e) /\ PartnersInv(e)  BY <1>1, <2>1, VarSlots, VarPartners
    <2> QED  BY <2>1, <2>2 DEF IsVarDeclared, DefInv, Declares
  <1>3. CASE ~ CanDeclare(d, getK, <<n>>, sym)
    <2>1. Refused(d, e)
      BY <1>1, <1>3, VarFails
    <2> QED  BY <2>1, NothingDeclared
  <1> QED  BY <1>2, <1>3

\* A member is declared in a struct or a protocol, by a name of its own.
HostMember(d, k, o, m) ==
    /\ o \in DOMAIN d.types /\ o \in OwnerLNs
    /\ CanHaveMembers(d.types[o].kind)
    /\ m \in Names /\ m[2] = "" /\ m = HostName(m[1])
    /\ <<o, m>> \in MemberLNs /\ <<o, m>> \notin DOMAIN d.types
    /\ CanMakeMember(d, k, o, m, FALSE)

LEMMA HostMembers ==
    ASSUME NEW d, BaseInv(d), NEW k, NEW o, NEW m \in MemberNames,
           CanMake(d, k, <<o, m>>, FALSE)
    PROVE  HostMember(d, k, o, m)
  <1>1. CanMakeMember(d, k, o, m, FALSE)
    <2> DEFINE ln == <<o, m>>
    <2>1. Len(ln) # 1 /\ ln[1] = o /\ ln[2] = m  OBVIOUS
    <2> HIDE DEF ln
    <2>2. CanMake(d, k, ln, FALSE)  BY DEF ln
    <2> QED  BY <2>1, <2>2 DEF CanMake, ownerName, memberName
  <1>2. /\ Legal(m) /\ o \in DOMAIN d.types /\ CanHaveMembers(d.types[o].kind)
        /\ <<o, m>> \notin DOMAIN d.types
    BY <1>1 DEF CanMakeMember, Has
  <1>3. m \in Names /\ m[2] = "" /\ m = HostName(m[1])  BY <1>2, HostNames
  <1>4. o \in OwnerLNs
    <2>1. o \in LocalNames /\ TypeOK(d.types[o])  BY <1>2 DEF BaseInv, DefOK
    <2>2. d.types[o].kind \in KindExs  BY <2>1, TypeIndices
    <2>3. ~ IsMember(d.types[o].kind)  BY <1>2, <2>2, KindsThatReq
    <2>4. o \in MemberLNs => IsMember(d.types[o].kind)  BY <1>2 DEF BaseInv, NamesOK
    <2> QED  BY <2>1, <2>3, <2>4 DEF LocalNames
  <1>5. <<o, m>> \in MemberLNs  BY <1>3, <1>4, MakeNames
  <1> QED  BY <1>1, <1>2, <1>3, <1>4, <1>5 DEF HostMember

\* Of what was declared before, a registration changes the owner's members only.
KeepsRest(d, e) ==
    \A l \in DOMAIN d.types :
        e.types[l].slots = d.types[l].slots /\ e.types[l].params = d.types[l].params

LEMMA RegisteredKeepsRest ==
    ASSUME NEW d, BaseInv(d), NEW ln, NEW t, NEW e, Registered(d, ln, t, e),
           ln \in MemberLNs => ln[1] \in DOMAIN d.types /\ CanHaveMembers(d.types[ln[1]].kind)
    PROVE  KeepsRest(d, e)
  <1>1. ASSUME NEW l \in DOMAIN d.types
        PROVE  e.types[l].slots = d.types[l].slots /\ e.types[l].params = d.types[l].params
    <2>1. CASE ln \in MemberLNs /\ l = ln[1]
      <3>1. ln[2] \in Names /\ TypeOK(d.types[l]) /\ CanHaveMembers(d.types[l].kind)
        BY <2>1, MemberNameParts DEF BaseInv, DefOK
      <3>2. e.types[l] = WithMember(d.types[l], ln[2])  BY <2>1 DEF Registered
      <3> QED  BY <3>1, <3>2, WithMemberKeeps DEF KeepsParams
    <2>2. CASE ~ (ln \in MemberLNs /\ l = ln[1])
      BY <2>2 DEF Registered
    <2> QED  BY <2>1, <2>2
  <1> QED  BY <1>1 DEF KeepsRest

LEMMA CallableKeeps ==
    ASSUME NEW d, DefInv(d), NEW k \in {"Fn", "Method", "MethodReq"}, NEW ln, NEW user, NEW ret,
           CanDeclare(d, k, ln, ret) => Askable(d, k, ln, user, NoSym, NoSym),
           NEW e, e = addCallable(d, k, ln, user, ret, NoSym, NoSym, FALSE)
    PROVE  Amends(d, e) /\ (ln \in OwnerLNs => Declares(d, e))
  <1> DEFINE t == Callable(k, ln, user, ret, NoSym, NoSym)
  <1>1. BaseInv(d) /\ SlotsInv(d) /\ PartnersInv(d) /\ DefOK(d) /\ DefShape(d)
    BY DEF DefInv, BaseInv, DefOK, DefShape
  <1>2. CASE ~ CanDeclare(d, k, ln, ret)
    <2>1. e = Fails(d)  BY <1>2 DEF addCallable, CanDeclare
    <2>2. Refused(d, e)  BY <1>1, <2>1, FailsIs DEF Refused
    <2> QED  BY <2>2, NothingDeclared
  <1>3. CASE CanDeclare(d, k, ln, ret)
    <2>1. Askable(d, k, ln, user, NoSym, NoSym) /\ CanMake(d, k, ln, FALSE) /\ ret \in LegalSyms
      BY <1>3 DEF CanDeclare
    <2>2. /\ BaseInv(e) /\ e.ok = TRUE /\ KeepsAll(d, e) /\ Registered(d, ln, t, e)
          /\ IsCallable(t, k, ln, user, ret, NoSym, NoSym)
          /\ ln \notin DOMAIN d.types /\ (ln \in MemberLNs => ln[1] \in DOMAIN d.types)
      <3>1. CallableAdded(d, e, k, ln, user, ret, NoSym, NoSym)
        BY <1>1, <2>1, addCallableIs
      <3> QED  BY <3>1 DEF CallableAdded
    <2> HIDE DEF t
    <2>3. ln \in MemberLNs => CanHaveMembers(d.types[ln[1]].kind)
      <3> SUFFICES ASSUME ln \in MemberLNs PROVE CanHaveMembers(d.types[ln[1]].kind)
        OBVIOUS
      <3>1. Len(ln) # 1  BY MemberNameParts
      <3> QED  BY <2>1, <3>1 DEF CanMake, CanMakeMember, ownerName
    <2>4. /\ \A l \in DOMAIN d.types : e.types[l].slots = d.types[l].slots
          /\ KeepsFixedParams(d, e)
      <3>1. KeepsRest(d, e)  BY <1>1, <2>2, <2>3, RegisteredKeepsRest
      <3> QED  BY <3>1 DEF KeepsRest, KeepsFixedParams
    <2>5. /\ DOMAIN e.types = DOMAIN d.types \cup {ln} /\ e.types[ln] = t
          /\ t.kind = k /\ t.slots = 0 /\ t.assigner = 0 /\ t.initializer = 0
      BY <2>2 DEF Registered, IsCallable
    <2>6. SlotsInv(e)
      <3>1. \A l \in DOMAIN e.types : l \notin DOMAIN d.types =>
                e.types[l].slots = 0 /\ e.types[l].kind \in {"Fn", "Method", "MethodReq"}
        BY <2>5
      <3> QED  BY <1>1, <2>2, <2>4, <3>1, SlotsStay
    <2>7. ASSUME NEW l \in DOMAIN e.types
          PROVE  PartnersOf(e, l)
      <3>1. CASE l \in DOMAIN d.types
        <4>1. PartnersOf(d, l)  BY <1>1, <3>1 DEF PartnersInv
        <4> QED  BY <1>1, <2>2, <2>4, <3>1, <4>1, PartnersStay
      <3>2. CASE l = ln
        <4>1. kindOf[k] \notin {"Property", "Var"}  BY KindOfEach
        <4>2. kindOf[e.types[ln].kind] \notin {"Property", "Var"}  BY <2>5, <4>1
        <4> QED  BY <2>5, <3>2, <4>2, PlainPartners
      <3> QED  BY <2>5, <3>1, <3>2
    <2>8. DefInv(e)  BY <2>2, <2>6, <2>7 DEF DefInv, PartnersInv
    <2>9. ln \in OwnerLNs => OnlyAdds(d, e)
      <3> SUFFICES ASSUME ln \in OwnerLNs PROVE OnlyAdds(d, e)
        OBVIOUS
      <3>1. ln \notin MemberLNs  BY OwnerNameParts
      <3> QED  BY <2>2, <3>1 DEF Registered, OnlyAdds
    <2> QED  BY <2>2, <2>8, <2>9 DEF Amends, Declares
  <1> QED  BY <1>2, <1>3

LEMMA FnKeeps ==
    ASSUME NEW d, DefInv(d), NEW n \in OwnerNames, NEW ret,
           NEW e, e = addCallable(d, "Fn", <<n>>, NoUser, ret, NoSym, NoSym, FALSE)
    PROVE  Declares(d, e)
  <1> DEFINE ln == <<n>>
  <1>1. CASE CanDeclare(d, "Fn", ln, ret)
    <2>1. Legal(n)  BY <1>1 DEF CanDeclare, CanMake, CanMakeOwner
    <2>2. n \in Names /\ n[2] = ""  BY <2>1, HostNames
    <2>3. ln \in OwnerLNs /\ ln \in LocalNames /\ ln \notin MemberLNs /\ ln[1] = n
      BY <2>2, MakeNames, OwnerNameParts DEF LocalNames
    <2>4. "Fn" \in KindExs /\ HasCallSig("Fn") /\ ~ IsMember("Fn")
          /\ kindOf["Fn"] # "PropertyAssigner"
      BY KindOfEach DEF HasCallSig, IsMember
    <2> HIDE DEF ln
    <2>5. Askable(d, "Fn", ln, NoUser, NoSym, NoSym)
      BY <2>2, <2>3, <2>4 DEF Askable
    <2>6. e = addCallable(d, "Fn", ln, NoUser, ret, NoSym, NoSym, FALSE)  BY DEF ln
    <2> QED  BY <2>3, <2>5, <2>6, CallableKeeps
  <1>2. CASE ~ CanDeclare(d, "Fn", ln, ret)
    <2>1. e = Fails(d)  BY <1>2 DEF addCallable, CanDeclare
    <2>2. Refused(d, e)  BY <2>1, FailsIs DEF Refused, DefInv, BaseInv, DefOK, DefShape
    <2> QED  BY <2>2, NothingDeclared
  <1> QED  BY <1>1, <1>2

LEMMA TypeKeeps ==
    ASSUME NEW d, DefInv(d), NEW k \in {"Struct", "Protocol"}, NEW n \in OwnerNames,
           NEW e, e = addType(d, k, n)
    PROVE  Declares(d, e)
  <1> DEFINE ln == <<n>>
             t == New(k, ln)
  <1>1. BaseInv(d) /\ SlotsInv(d) /\ PartnersInv(d) /\ DefOK(d)
    BY DEF DefInv, BaseInv
  <1>2. DefShape(e) /\ BaseInv(e)  BY <1>1, addTypeIs
  <1>3. CASE e.ok = FALSE
    <2>1. e.types = d.types  BY <1>1, <1>3, addTypeIs
    <2> QED  BY <1>2, <1>3, <2>1, NothingDeclared DEF Refused
  <1>4. CASE e.ok # FALSE
    <2>1. /\ e.ok = TRUE /\ ln \in OwnerLNs /\ ln \notin DOMAIN d.types
          /\ Registered(d, ln, t, e) /\ KeepsAll(d, e)
      BY <1>1, <1>4, addTypeIs
    <2>2. ln \in LocalNames /\ ln \notin MemberLNs
      BY <2>1, OwnerNameParts DEF LocalNames
    <2>3. k \in KindExs /\ kindOf[k] \notin {"VarAssigner", "Property", "Var"}
      BY KindOfEach
    <2> HIDE DEF ln
    <2>4. t.kind = k /\ t.slots = 0 /\ t.assigner = 0 /\ t.initializer = 0
      BY <2>2, <2>3, NewIs
    <2> HIDE DEF t
    <2>5. /\ OnlyAdds(d, e) /\ DOMAIN e.types = DOMAIN d.types \cup {ln} /\ e.types[ln] = t
      BY <2>1, <2>2 DEF Registered, OnlyAdds
    <2>6. SlotsInv(e)
      <3>1. \A l \in DOMAIN e.types : l \notin DOMAIN d.types =>
                e.types[l].slots = 0 /\ e.types[l].kind \in {"Struct", "Protocol"}
        BY <2>4, <2>5
      <3>2. \A l \in DOMAIN d.types : e.types[l].slots = d.types[l].slots
        BY <2>5 DEF OnlyAdds
      <3> QED  BY <1>1, <2>1, <3>1, <3>2, SlotsStay
    <2>7. ASSUME NEW l \in DOMAIN e.types
          PROVE  PartnersOf(e, l)
      <3>1. CASE l \in DOMAIN d.types
        <4>1. PartnersOf(d, l)  BY <1>1, <3>1 DEF PartnersInv
        <4> QED  BY <1>1, <2>5, <3>1, <4>1, OnlyAddsKeeps, PartnersStay
      <3>2. CASE l = ln
        <4>1. kindOf[e.types[ln].kind] \notin {"Property", "Var"}  BY <2>3, <2>4, <2>5
        <4> QED  BY <2>4, <2>5, <3>2, <4>1, PlainPartners
      <3> QED  BY <2>5, <3>1, <3>2
    <2>8. DefInv(e)  BY <1>2, <2>6, <2>7 DEF DefInv, PartnersInv
    <2> QED  BY <2>1, <2>5, <2>8 DEF Declares
  <1> QED  BY <1>3, <1>4

LEMMA MethodKeeps ==
    ASSUME NEW d, DefInv(d), NEW k \in {"Method", "MethodReq"}, NEW o, NEW m \in MemberNames,
           NEW user, user = NoUser \/ (Has(d, o) /\ user = Len(d.types[o].members)),
           k = "MethodReq" /\ Has(d, o) => user = Len(d.types[o].members), NEW ret,
           NEW e, e = addCallable(d, k, <<o, m>>, user, ret, NoSym, NoSym, FALSE)
    PROVE  Amends(d, e)
  <1> DEFINE ln == <<o, m>>
  <1>1. CASE CanDeclare(d, k, ln, ret)
    <2>1. BaseInv(d) /\ CanMake(d, k, ln, FALSE)  BY <1>1 DEF DefInv, CanDeclare
    <2>2. HostMember(d, k, o, m)  BY <2>1, HostMembers
    <2>3. /\ ln \in MemberLNs /\ ln \in LocalNames /\ ln[1] = o /\ ln[2] = m /\ m[2] = ""
          /\ o \in DOMAIN d.types /\ ln \notin OwnerLNs
      BY <2>2, MemberNameParts DEF HostMember, LocalNames
    <2>4. k \in KindExs /\ HasCallSig(k) /\ IsMember(k) /\ kindOf[k] # "PropertyAssigner"
      BY KindOfEach DEF HasCallSig, IsMember
    <2>5. user \in Nat \cup {NoUser}
      <3>1. TypeOK(d.types[o])  BY <2>1, <2>3 DEF BaseInv, DefOK
      <3>2. Len(d.types[o].members) \in Nat  BY <3>1, TypeIndices
      <3> QED  BY <3>2
    <2> HIDE DEF ln
    <2>6. Askable(d, k, ln, user, NoSym, NoSym)
      BY <2>3, <2>4, <2>5 DEF Askable
    <2>7. e = addCallable(d, k, ln, user, ret, NoSym, NoSym, FALSE)  BY DEF ln
    <2> QED  BY <2>6, <2>7, CallableKeeps
  <1>2. CASE ~ CanDeclare(d, k, ln, ret)
    <2>1. e = Fails(d)  BY <1>2 DEF addCallable, CanDeclare
    <2>2. Refused(d, e)  BY <2>1, FailsIs DEF Refused, DefInv, BaseInv, DefOK, DefShape
    <2> QED  BY <2>2, NothingDeclared
  <1> QED  BY <1>1, <1>2

\* Something is added to one type, but no member, no slot, and no param to what
\* has the params that the program gave it.
LEMMA AmendKeeps ==
    ASSUME NEW d, DefInv(d), NEW ln \in DOMAIN d.types, NEW u, TypeOK(u),
           KeepsDecl(d.types[ln], u), u.members = d.types[ln].members,
           u.slots = d.types[ln].slots,
           HasUserDefinedCallSig(d.types[ln].kind) \/ KeepsParams(d.types[ln], u),
           NEW e, DefShape(e), e.types = [d.types EXCEPT ![ln] = u]
    PROVE  DefInv(e)
  <1>1. BaseInv(d) /\ SlotsInv(d) /\ PartnersInv(d) /\ DefOK(d)  BY DEF DefInv, BaseInv
  <1>2. /\ BaseInv(e) /\ KeepsAll(d, e)
        /\ DOMAIN e.types = DOMAIN d.types /\ e.types[ln] = u
        /\ \A l \in DOMAIN d.types : l # ln => e.types[l] = d.types[l]
    BY <1>1, AmendKeepsBase
  <1>3. \A l \in DOMAIN d.types : e.types[l].slots = d.types[l].slots
    BY <1>2
  <1>4. KeepsFixedParams(d, e)
    BY <1>2 DEF KeepsFixedParams, KeepsParams
  <1>5. SlotsInv(e)  BY <1>1, <1>2, <1>3, SlotsStay
  <1>6. ASSUME NEW l \in DOMAIN e.types PROVE PartnersOf(e, l)
    <2>1. l \in DOMAIN d.types /\ PartnersOf(d, l)  BY <1>1, <1>2 DEF PartnersInv
    <2> QED  BY <1>1, <1>2, <1>4, <2>1, PartnersStay
  <1> QED  BY <1>2, <1>5, <1>6 DEF DefInv, PartnersInv

\* The table of constants is not what is declared.
LEMMA PulledDeclares ==
    ASSUME NEW d, DefOK(d), NEW ln \in DOMAIN d.types, NEW sym,
           NEW e, e.types = [d.types EXCEPT ![ln] = Pulled(d.types[ln], sym)]
    PROVE  Declared(e) = Declared(d)
  <1> DEFINE D(t) == [f \in DOMAIN t \ {"consts"} |-> t[f]]
  <1>1. D(Pulled(d.types[ln], sym)) = D(d.types[ln])
    BY DEF Pulled
  <1>2. DOMAIN e.types = DOMAIN d.types  OBVIOUS
  <1>3. ASSUME NEW l \in DOMAIN d.types PROVE D(e.types[l]) = D(d.types[l])
    BY <1>1
  <1> HIDE DEF D
  <1>4. [l \in DOMAIN e.types |-> D(e.types[l])] = [l \in DOMAIN d.types |-> D(d.types[l])]
    BY <1>2, <1>3
  <1> QED  BY <1>4 DEF Declared, D

LEMMA PulledFails ==
    ASSUME NEW d, DefInv(d), NEW ln \in DOMAIN d.types, NEW sym \in LegalSyms,
           NEW e, e = Fails(With(d, ln, Pulled(d.types[ln], sym)))
    PROVE  Amends(d, e)
  <1> DEFINE u == Pulled(d.types[ln], sym)
             w == With(d, ln, u)
  <1>1. DefShape(d) /\ DefOK(d) /\ TypeOK(d.types[ln])
    BY DEF DefInv, BaseInv, DefOK, DefShape
  <1>2. DefShape(w) /\ w.types = [d.types EXCEPT ![ln] = u]
    <2> HIDE DEF u
    <2> QED  BY <1>1, WithIs
  <1>3. DefShape(e) /\ e.types = [d.types EXCEPT ![ln] = u]
    <2> HIDE DEF u, w
    <2>1. e = Fails(w)  BY DEF w, u
    <2>2. DefShape(e) /\ e.types = w.types  BY <1>2, <2>1, FailsIs
    <2> QED  BY <1>2, <2>2
  <1>4. /\ TypeOK(u) /\ KeepsDecl(d.types[ln], u) /\ u.slots = d.types[ln].slots
        /\ u.members = d.types[ln].members /\ KeepsParams(d.types[ln], u)
    <2>1. sym \in Symbols  BY ProgramSymbols
    <2> QED  BY <1>1, <2>1, PulledKeeps DEF KeepsParams
  <1>5. Declared(e) = Declared(d)  BY <1>1, <1>3, PulledDeclares
  <1> HIDE DEF u
  <1>6. DefInv(e)  BY <1>3, <1>4, AmendKeeps
  <1> QED  BY <1>5, <1>6 DEF Amends

LEMMA WithAnswers ==
    ASSUME NEW d, DefInv(d), NEW ln \in DOMAIN d.types, NEW u, TypeOK(u),
           KeepsDecl(d.types[ln], u), u.members = d.types[ln].members,
           u.slots = d.types[ln].slots,
           HasUserDefinedCallSig(d.types[ln].kind) \/ KeepsParams(d.types[ln], u),
           NEW i, NEW e, e = Answers(With(d, ln, u).types, i)
    PROVE  Amends(d, e)
  <1> DEFINE T == With(d, ln, u).types
  <1>1. DefShape(d)  BY DEF DefInv, BaseInv, DefOK, DefShape
  <1>2. T = [d.types EXCEPT ![ln] = u]  BY <1>1, WithIs
  <1> HIDE DEF T
  <1>3. e = Answers(T, i)  BY DEF T
  <1>4. DefShape(e) /\ e.ok = TRUE /\ e.types = T  BY ONLY <1>3, AnswersIs
  <1>5. DefInv(e)  BY <1>2, <1>4, AmendKeeps
  <1> QED  BY <1>4, <1>5 DEF Amends

LEMMA Failing ==
    ASSUME NEW d, DefInv(d), NEW e, e = Fails(d)
    PROVE  Declares(d, e) /\ Amends(d, e)
  <1>1. DefShape(d)  BY DEF DefInv, BaseInv, DefOK, DefShape
  <1>2. Refused(d, e)  BY <1>1, FailsIs DEF Refused
  <1> QED  BY <1>2, NothingDeclared

LEMMA AddTypeParamKeeps ==
    ASSUME NEW d, DefInv(d), NEW ln, NEW n \in MemberNames, NEW sym,
           NEW e, e = addTypeParam(d, ln, n, sym)
    PROVE  Amends(d, e)
  <1> DEFINE t == d.types[ln]
  <1>1. CASE e = Fails(d)  BY <1>1, Failing
  <1>2. CASE e # Fails(d)
    <2>1. /\ ln \in DOMAIN d.types /\ Legal(n) /\ sym \in LegalSyms
          /\ e = IF Len(t.typeParams) < MaxTypeParams
                 THEN Answers(With(d, ln, WithTypeParam(t, n, sym)).types, Len(t.typeParams))
                 ELSE Fails(With(d, ln, Pulled(t, sym)))
      BY <1>2 DEF addTypeParam, Has, ConstraintOK
    <2>2. n \in Names /\ n[2] = "" /\ sym \in Symbols  BY <2>1, HostNames, ProgramSymbols
    <2>3. TypeOK(t)  BY <2>1 DEF DefInv, BaseInv, DefOK
    <2>4. CASE Len(t.typeParams) < MaxTypeParams
      <3> DEFINE u == WithTypeParam(t, n, sym)
      <3>1. /\ TypeOK(u) /\ KeepsDecl(t, u) /\ u.slots = t.slots
            /\ u.members = t.members /\ KeepsParams(t, u)
        BY <2>2, <2>3, WithTypeParamKeeps
      <3>2. e = Answers(With(d, ln, u).types, Len(t.typeParams))  BY <2>1, <2>4
      <3> HIDE DEF u
      <3> QED  BY <2>1, <3>1, <3>2, WithAnswers
    <2>5. CASE ~ (Len(t.typeParams) < MaxTypeParams)
      BY <2>1, <2>5, PulledFails
    <2> QED  BY <2>4, <2>5
  <1> QED  BY <1>1, <1>2

LEMMA AddParamKeeps ==
    ASSUME NEW d, DefInv(d), NEW ln, NEW n \in MemberNames, NEW sym,
           NEW e, e = addParam(d, ln, n, sym, FALSE)
    PROVE  Amends(d, e)
  <1> DEFINE t == d.types[ln]
  <1>1. CASE e = Fails(d)  BY <1>1, Failing
  <1>2. CASE e # Fails(d)
    <2>1. /\ ln \in DOMAIN d.types /\ Legal(n) /\ sym \in LegalSyms
          /\ HasUserDefinedCallSig(t.kind)
          /\ e = IF CanAddParam(t, n)
                 THEN Answers(With(d, ln, WithParam(t, n, sym)).types, Len(t.params))
                 ELSE Fails(With(d, ln, Pulled(t, sym)))
      BY <1>2 DEF addParam, Has
    <2>2. n \in Names /\ sym \in Symbols  BY <2>1, HostNames, ProgramSymbols
    <2>3. TypeOK(t)  BY <2>1 DEF DefInv, BaseInv, DefOK
    <2>4. CASE CanAddParam(t, n)
      <3> DEFINE u == WithParam(t, n, sym)
      <3>1. TypeOK(u) /\ KeepsDecl(t, u) /\ u.slots = t.slots /\ u.members = t.members
        BY <2>2, <2>3, WithParamKeeps
      <3>2. e = Answers(With(d, ln, u).types, Len(t.params))  BY <2>1, <2>4
      <3> HIDE DEF u
      <3> QED  BY <2>1, <3>1, <3>2, WithAnswers
    <2>5. CASE ~ CanAddParam(t, n)
      BY <2>1, <2>5, PulledFails
    <2> QED  BY <2>4, <2>5
  <1> QED  BY <1>1, <1>2

LEMMA BeginNamedParamsKeeps ==
    ASSUME NEW d, DefInv(d), NEW ln, NEW e, e = beginNamedParams(d, ln)
    PROVE  Amends(d, e)
  <1> DEFINE t == d.types[ln]
             u == [t EXCEPT !.definingNamed = TRUE]
  <1>1. CASE e = Fails(d)  BY <1>1, Failing
  <1>2. CASE e # Fails(d)
    <2>1. ln \in DOMAIN d.types /\ e = Answers(With(d, ln, u).types, 0)
      BY <1>2 DEF beginNamedParams, Has
    <2>2. TypeOK(t)  BY <2>1 DEF DefInv, BaseInv, DefOK
    <2>3. /\ TypeOK(u) /\ KeepsDecl(t, u) /\ u.slots = t.slots
          /\ u.members = t.members /\ KeepsParams(t, u)
      BY <2>2, SlotsAndNamedKeep DEF KeepsParams
    <2> HIDE DEF u
    <2> QED  BY <2>1, <2>3, WithAnswers
  <1> QED  BY <1>1, <1>2

LEMMA AddRefKeeps ==
    ASSUME NEW d, DefInv(d), NEW ln, NEW sym, NEW e, e = addRef(d, ln, sym)
    PROVE  Amends(d, e)
  <1> DEFINE t == d.types[ln]
             u == WithRef(t, sym)
             i == Len(t.refs) % (RefLimit + 1)
  <1>1. CASE e = Fails(d)  BY <1>1, Failing
  <1>2. CASE e # Fails(d)
    <2>1. ln \in DOMAIN d.types /\ sym \in LegalSyms /\ e = Answers(With(d, ln, u).types, i)
      BY <1>2 DEF addRef, Has
    <2>2. TypeOK(t) /\ sym \in Symbols
      BY <2>1, ProgramSymbols DEF DefInv, BaseInv, DefOK
    <2>3. /\ TypeOK(u) /\ KeepsDecl(t, u) /\ u.slots = t.slots
          /\ u.members = t.members /\ KeepsParams(t, u)
      BY <2>2, WithRefKeeps
    <2> HIDE DEF u, i
    <2> QED  BY <2>1, <2>3, WithAnswers
  <1> QED  BY <1>1, <1>2

----------------------------------------------------------------------------
\* Properties.

\* What addCallable registered, with its first param.
HasOneParam(u, k, user, ret, assigner, n, sym) ==
    /\ TypeOK(u) /\ u.kind = k /\ u.slots = 0 /\ u.user = user
    /\ u.definingNamed = FALSE /\ u.initializer = 0
    /\ u.return \in 1 .. Len(u.consts) /\ ConstAt(u, u.return) = ret
    /\ assigner = NoSym <=> u.assigner = 0
    /\ assigner # NoSym => ConstAt(u, u.assigner) = assigner
    /\ Len(u.params) = 1 /\ u.params[1].name = n /\ Symbol(u, 1) = sym

IsPropertyAssigner(s, k, user, sym) ==
    /\ TypeOK(s) /\ s.kind = k /\ s.slots = 0 /\ s.user = user
    /\ s.assigner = 0 /\ s.initializer = 0
    /\ ConstAt(s, s.return) = NoneSym
    /\ Len(s.params) = 2 /\ Symbol(s, 1) = SelfSym /\ Symbol(s, 2) = sym

LEMMA OneParam ==
    ASSUME NEW t, NEW k, NEW ln, NEW user, NEW ret, NEW assigner,
           IsCallable(t, k, ln, user, ret, assigner, NoSym),
           NEW n \in Names, NEW sym \in Symbols, NEW u, u = WithParam(t, n, sym)
    PROVE  HasOneParam(u, k, user, ret, assigner, n, sym)
  <1>1. /\ TypeOK(t) /\ t.kind = k /\ t.slots = 0 /\ t.user = user
        /\ t.definingNamed = FALSE /\ t.initializer = 0 /\ Len(t.params) = 0
        /\ t.return \in 1 .. Len(t.consts) /\ ConstAt(t, t.return) = ret
        /\ assigner = NoSym <=> t.assigner = 0
        /\ assigner # NoSym => ConstAt(t, t.assigner) = assigner
    BY DEF IsCallable
  <1>2. /\ TypeOK(u) /\ KeepsDecl(t, u) /\ u.slots = t.slots
        /\ u.definingNamed = t.definingNamed
        /\ Len(u.params) = Len(t.params) + 1 /\ Symbol(u, Len(t.params) + 1) = sym
        /\ u.params[Len(t.params) + 1].name = n
    BY <1>1, WithParamKeeps
  <1>3. Len(t.params) + 1 = 1  BY <1>1
  <1>4. Len(u.params) = 1 /\ Symbol(u, 1) = sym /\ u.params[1].name = n
    BY <1>2, <1>3
  <1>5. ConstAt(u, t.return) = ConstAt(t, t.return)  BY <1>1, <1>2, ConstStays
  <1>6. assigner # NoSym => ConstAt(u, t.assigner) = ConstAt(t, t.assigner)
    <2> SUFFICES ASSUME assigner # NoSym
                 PROVE  ConstAt(u, t.assigner) = ConstAt(t, t.assigner)
      OBVIOUS
    <2>1. t.assigner \in 1 .. Len(t.consts)  BY <1>1, TypeIndices
    <2> QED  BY <1>2, <2>1, ConstStays
  <1>7. /\ u.kind = t.kind /\ u.user = t.user /\ u.return = t.return
        /\ u.assigner = t.assigner /\ u.initializer = t.initializer
    BY <1>2 DEF KeepsDecl
  <1>8. u.return \in 1 .. Len(u.consts)
    <2>1. Len(t.consts) \in Nat /\ Len(u.consts) \in Nat  BY <1>1, <1>2, TypeIndices
    <2>2. Len(t.consts) <= Len(u.consts)  BY <1>2 DEF KeepsDecl, Begins
    <2> QED  BY <1>1, <1>7, <2>1, <2>2
  <1> QED  BY <1>1, <1>2, <1>4, <1>5, <1>6, <1>7, <1>8 DEF HasOneParam

LEMMA SecondParamFits ==
    ASSUME NEW t, NEW k, HasCallSig(k), NEW user, NEW ret, NEW assigner, NEW sym,
           HasOneParam(t, k, user, ret, assigner, HostName("self"), sym)
    PROVE  CanAddParam(t, HostName("x"))
  <1>1. /\ t.kind = k /\ t.definingNamed = FALSE
        /\ Len(t.params) = 1 /\ t.params[1].name = HostName("self")
    BY DEF HasOneParam
  <1>2. HostName("self") # HostName("x")  BY DEF HostName
  <1>3. ~ HasName(t.params, HostName("x"))  BY <1>1, <1>2 DEF HasName
  <1>4. positionalParams(t) <= 1 /\ positionalParams(t) \in Nat
    <2> DEFINE P == {i \in 1 .. Len(t.params) : ~ t.params[i].named}
    <2>1. P \subseteq {1}  BY <1>1
    <2>2. IsFiniteSet({1}) /\ Cardinality({1}) = 1  BY FS_Singleton
    <2> HIDE DEF P
    <2>3. IsFiniteSet(P) /\ Cardinality(P) <= 1  BY <2>1, <2>2, FS_Subset
    <2>4. Cardinality(P) \in Nat  BY <2>3, FS_CardinalityType
    <2> QED  BY <2>3, <2>4 DEF positionalParams, P
  <1> QED  BY <1>1, <1>3, <1>4, LimitsAssumption DEF CanAddParam

LEMMA TwoParams ==
    ASSUME NEW t, NEW k, NEW user,
           HasOneParam(t, k, user, NoneSym, NoSym, HostName("self"), SelfSym),
           NEW sym \in Symbols, NEW u, u = WithParam(t, HostName("x"), sym)
    PROVE  IsPropertyAssigner(u, k, user, sym)
  <1>1. /\ TypeOK(t) /\ t.kind = k /\ t.slots = 0 /\ t.user = user
        /\ t.initializer = 0 /\ t.assigner = 0 /\ Len(t.params) = 1 /\ Symbol(t, 1) = SelfSym
        /\ t.return \in 1 .. Len(t.consts) /\ ConstAt(t, t.return) = NoneSym
    BY DEF HasOneParam
  <1>2. /\ TypeOK(u) /\ KeepsDecl(t, u) /\ u.slots = t.slots
        /\ Len(u.params) = Len(t.params) + 1 /\ Symbol(u, Len(t.params) + 1) = sym
        /\ \A i \in 1 .. Len(t.params) : Symbol(u, i) = Symbol(t, i)
    BY <1>1, ProgramNames, WithParamKeeps
  <1>3. Len(t.params) + 1 = 2 /\ 1 \in 1 .. Len(t.params)  BY <1>1
  <1>4. Len(u.params) = 2 /\ Symbol(u, 2) = sym /\ Symbol(u, 1) = SelfSym
    BY <1>1, <1>2, <1>3
  <1>5. ConstAt(u, t.return) = NoneSym  BY <1>1, <1>2, ConstStays
  <1> QED  BY <1>1, <1>2, <1>4, <1>5 DEF IsPropertyAssigner, KeepsDecl

\* The kinds that addProperty is given.
PropertyKinds(getK, setK) ==
    \/ getK = "StoredPropertyGet" /\ setK \in {"None", "StoredPropertySet"}
    \/ getK = "Property" /\ setK \in {"None", "PropertyAssigner"}

PropertyAssignerSym(m, setK) == IF setK # "None" THEN SelfMember(AssignerOf(m)) ELSE NoSym

\* A property is declared with its assigner.
IsPropertyDeclared(d, e, o, m, sym, user, getK, setK) ==
    /\ DefShape(e) /\ BaseInv(e) /\ KeepsAll(d, e) /\ KeepsRest(d, e)
    /\ HostMember(d, getK, o, m)
    /\ <<o, m>> \in DOMAIN e.types
    /\ HasOneParam(e.types[<<o, m>>], getK, user, sym, PropertyAssignerSym(m, setK),
                   HostName("self"), SelfSym)
    /\ \A l \in DOMAIN e.types :
        \/ l \in DOMAIN d.types
        \/ l = <<o, m>>
        \/ setK # "None" /\ l = <<o, AssignerOf(m)>>
    /\ setK # "None" =>
        /\ <<o, AssignerOf(m)>> \in DOMAIN e.types
        /\ <<o, AssignerOf(m)>> \notin DOMAIN d.types
        /\ IsPropertyAssigner(e.types[<<o, AssignerOf(m)>>], setK, user, sym)

LEMMA PropertyFails ==
    ASSUME NEW d, BaseInv(d), NEW o, NEW m, NEW sym, NEW user, NEW getK, NEW setK,
           ~ CanDeclare(d, getK, <<o, m>>, sym),
           NEW e, e = addProperty(d, o, m, sym, user, getK, setK)
    PROVE  Refused(d, e)
  <1> DEFINE d1 == addCallable(d, getK, <<o, m>>, user, sym,
                    PropertyAssignerSym(m, setK), NoSym, FALSE)
  <1>1. d1 = Fails(d)  BY DEF addCallable, CanDeclare
  <1>2. DefShape(d)  BY DEF BaseInv, DefOK, DefShape
  <1>3. Refused(d, d1) /\ d1.ok = FALSE  BY <1>1, <1>2, FailsIs DEF Refused
  <1>4. d1.ok = FALSE => e = d1  BY DEF addProperty, PropertyAssignerSym
  <1> QED  BY <1>3, <1>4

\* One member is added to o, and nothing else changes.
AddsMember(d, e, o, ln) ==
    /\ DefShape(e) /\ BaseInv(e) /\ KeepsAll(d, e) /\ KeepsRest(d, e)
    /\ DOMAIN e.types = DOMAIN d.types \cup {ln}
    /\ \A l \in DOMAIN d.types : l # o => e.types[l] = d.types[l]

\* ... by addCallable.
MemberCallable(d, e, o, k, ln, user, ret, assigner) ==
    /\ AddsMember(d, e, o, ln) /\ e.ok = TRUE
    /\ IsCallable(e.types[ln], k, ln, user, ret, assigner, NoSym)

LEMMA MemberRegistered ==
    ASSUME NEW d, BaseInv(d), NEW o \in DOMAIN d.types, NEW ln \in MemberLNs, ln[1] = o,
           CanHaveMembers(d.types[o].kind), NEW k, NEW user, NEW ret \in LegalSyms,
           NEW assigner, NEW skip \in BOOLEAN, Askable(d, k, ln, user, assigner, NoSym),
           CanMake(d, k, ln, skip),
           NEW e, e = addCallable(d, k, ln, user, ret, assigner, NoSym, skip)
    PROVE  MemberCallable(d, e, o, k, ln, user, ret, assigner)
  <1> DEFINE t == Callable(k, ln, user, ret, assigner, NoSym)
  <1>1. /\ DefShape(e) /\ BaseInv(e) /\ e.ok = TRUE /\ KeepsAll(d, e)
        /\ Registered(d, ln, t, e) /\ IsCallable(t, k, ln, user, ret, assigner, NoSym)
    <2>1. CallableAdded(d, e, k, ln, user, ret, assigner, NoSym)
      BY addCallableIs
    <2> QED  BY <2>1 DEF CallableAdded
  <1> HIDE DEF t
  <1>2. KeepsRest(d, e)  BY <1>1, RegisteredKeepsRest
  <1>3. /\ DOMAIN e.types = DOMAIN d.types \cup {ln} /\ e.types[ln] = t
        /\ \A l \in DOMAIN d.types : l # o => e.types[l] = d.types[l]
    BY <1>1 DEF Registered
  <1> QED  BY <1>1, <1>2, <1>3 DEF AddsMember, MemberCallable

\* ... and a param of it.
MemberParam(d, d1, e, o, ln, n, sym) ==
    AddsMember(d, e, o, ln) /\ e.types[ln] = WithParam(d1.types[ln], n, sym)

LEMMA MemberParamAdded ==
    ASSUME NEW d, NEW d1, DefOK(d), NEW o, NEW ln, AddsMember(d, d1, o, ln),
           ln \notin DOMAIN d.types, NEW n \in {HostName("self"), HostName("x")},
           NEW sym \in LegalSyms, CanAddParam(d1.types[ln], n),
           NEW e, e = addParam(d1, ln, n, sym, TRUE)
    PROVE  MemberParam(d, d1, e, o, ln, n, sym)
  <1>1. BaseInv(d1) /\ DefOK(d1) /\ ln \in DOMAIN d1.types  BY DEF AddsMember, BaseInv
  <1>2. ParamAdded(d1, ln, n, sym, e)  BY <1>1, addParamIs
  <1>3. /\ DefShape(e) /\ BaseInv(e) /\ DefOK(e) /\ KeepsAll(d1, e)
        /\ DOMAIN e.types = DOMAIN d1.types
        /\ e.types[ln] = WithParam(d1.types[ln], n, sym)
        /\ \A l \in DOMAIN d1.types : l # ln => e.types[l] = d1.types[l]
    BY <1>2 DEF ParamAdded, BaseInv
  <1>4. KeepsAll(d, e)  BY <1>1, <1>3, KeepsAllIsTransitive DEF AddsMember
  <1>5. KeepsRest(d, e) /\ \A l \in DOMAIN d.types : l # o => e.types[l] = d.types[l]
    BY <1>3 DEF AddsMember, KeepsRest
  <1> QED  BY <1>1, <1>3, <1>4, <1>5 DEF AddsMember, MemberParam

LEMMA GetterIs ==
    ASSUME NEW d, BaseInv(d), NEW o, NEW m, NEW k, HostMember(d, k, o, m),
           k \in {"StoredPropertyGet", "Property"},
           NEW user \in Nat \cup {NoUser}, NEW sym \in LegalSyms,
           NEW assigner \in Symbols \cup {NoSym},
           NEW d1, d1 = addCallable(d, k, <<o, m>>, user, sym, assigner, NoSym, FALSE),
           NEW e, e = addParam(d1, <<o, m>>, HostName("self"), SelfSym, TRUE)
    PROVE  /\ d1.ok = TRUE /\ AddsMember(d, e, o, <<o, m>>)
           /\ HasOneParam(e.types[<<o, m>>], k, user, sym, assigner, HostName("self"), SelfSym)
  <1> DEFINE ln == <<o, m>>
  <1>1. /\ o \in DOMAIN d.types /\ CanHaveMembers(d.types[o].kind) /\ m[2] = ""
        /\ ln \in MemberLNs /\ ln \notin DOMAIN d.types
        /\ CanMakeMember(d, k, o, m, FALSE)
    BY DEF HostMember
  <1>2. /\ ln \in LocalNames /\ ln \notin OwnerLNs /\ ln[1] = o /\ ln[2] = m /\ Len(ln) # 1
    <2>1. ln[1] = o /\ ln[2] = m  OBVIOUS
    <2> HIDE DEF ln
    <2>2. Len(ln) = 2 /\ ln \notin OwnerLNs  BY <1>1, MemberNameParts
    <2>3. ln \in MemberLNs  BY <1>1
    <2>4. ln \in LocalNames /\ ln \notin OwnerLNs /\ Len(ln) # 1
      BY ONLY <2>2, <2>3 DEF LocalNames
    <2> QED  BY <2>1, <2>4
  <1> HIDE DEF ln
  <1>3. CanMake(d, k, ln, FALSE)
    BY <1>1, <1>2 DEF CanMake, ownerName, memberName
  <1>4. /\ k \in KindExs /\ HasCallSig(k) /\ IsMember(k) /\ k # "MethodReq"
        /\ kindOf[k] = "Property"
    BY KindOfEach DEF HasCallSig, IsMember
  <1>5. Askable(d, k, ln, user, assigner, NoSym)
    BY <1>1, <1>2, <1>4 DEF Askable
  <1>6. d1 = addCallable(d, k, ln, user, sym, assigner, NoSym, FALSE)  BY DEF ln
  <1>7. /\ AddsMember(d, d1, o, ln) /\ d1.ok = TRUE
        /\ IsCallable(d1.types[ln], k, ln, user, sym, assigner, NoSym)
    <2>1. MemberCallable(d, d1, o, k, ln, user, sym, assigner)
      BY <1>1, <1>2, <1>3, <1>5, <1>6, MemberRegistered
    <2> QED  BY <2>1 DEF MemberCallable
  <1>8. CanAddParam(d1.types[ln], HostName("self"))
    BY <1>4, <1>7, FirstParamFits DEF IsCallable
  <1>9. SelfSym \in LegalSyms /\ SelfSym \in Symbols /\ HostName("self") \in Names
    BY ProgramSymbols, ProgramNames
  <1>10. DefOK(d) /\ e = addParam(d1, ln, HostName("self"), SelfSym, TRUE)
    BY DEF BaseInv, ln
  <1>11. /\ AddsMember(d, e, o, ln)
         /\ e.types[ln] = WithParam(d1.types[ln], HostName("self"), SelfSym)
    <2>1. MemberParam(d, d1, e, o, ln, HostName("self"), SelfSym)
      BY <1>1, <1>7, <1>8, <1>9, <1>10, MemberParamAdded
    <2> QED  BY <2>1 DEF MemberParam
  <1>12. HasOneParam(e.types[ln], k, user, sym, assigner, HostName("self"), SelfSym)
    BY <1>7, <1>9, <1>11, OneParam
  <1> QED  BY <1>7, <1>11, <1>12 DEF ln

\* The assigner of a property gets a name that is free.
SetterAdded(d, e, o, m, k, user, sym) ==
    /\ AddsMember(d, e, o, <<o, AssignerOf(m)>>)
    /\ IsPropertyAssigner(e.types[<<o, AssignerOf(m)>>], k, user, sym)

LEMMA SetterIs ==
    ASSUME NEW d, BaseInv(d), NEW o \in DOMAIN d.types, o \in OwnerLNs,
           CanHaveMembers(d.types[o].kind), d.types[o].kind # "Protocol",
           NEW m \in Names, m[2] = "", m = HostName(m[1]), <<o, m>> \in DOMAIN d.types,
           <<o, AssignerOf(m)>> \notin DOMAIN d.types,
           NEW k \in {"StoredPropertySet", "PropertyAssigner"},
           NEW user \in Nat \cup {NoUser}, NEW sym \in LegalSyms,
           NEW d1, d1 = addCallable(d, k, <<o, AssignerOf(m)>>, user, NoneSym, NoSym, NoSym, TRUE),
           NEW e, e = addParam(addParam(d1, <<o, AssignerOf(m)>>, HostName("self"), SelfSym, TRUE),
                               <<o, AssignerOf(m)>>, HostName("x"), sym, TRUE)
    PROVE  SetterAdded(d, e, o, m, k, user, sym)
  <1> DEFINE a == AssignerOf(m)
             ln == <<o, a>>
             d2 == addParam(d1, ln, HostName("self"), SelfSym, TRUE)
  <1>1. a \in Names /\ a[2] = "$assigner" /\ HostName(a[1]) = m
    BY NameParts DEF AssignerOf
  <1>2. /\ ln \in MemberLNs /\ ln \in LocalNames /\ ln \notin OwnerLNs
        /\ ln[1] = o /\ ln[2] = a /\ Len(ln) # 1 /\ ln \notin DOMAIN d.types
    <2>1. ln \in MemberLNs  BY <1>1, MakeNames
    <2>2. ln[1] = o /\ ln[2] = a /\ ln \notin DOMAIN d.types  OBVIOUS
    <2> HIDE DEF ln
    <2>3. Len(ln) = 2 /\ ln \notin OwnerLNs  BY <2>1, MemberNameParts
    <2>4. ln \in LocalNames /\ ln \notin OwnerLNs /\ Len(ln) # 1
      BY ONLY <2>1, <2>3 DEF LocalNames
    <2> QED  BY <2>1, <2>2, <2>4
  <1>3. TypeOK(d.types[o]) /\ MembersOf(d, o)  BY DEF BaseInv, DefOK, NamesOK
  <1>4. NoMemberLevelNameConflict(d.types[o], a)
    <2>1. a # HostName("Self")
      <3>1. HostName("Self")[2] = ""  BY DEF HostName
      <3> QED  BY ONLY <1>1, <3>1
    <2>2. ~ HasName(d.types[o].typeParams, a)
      BY <1>1, <1>3 DEF TypeOK, HasName
    <2>3. ~ HasName(d.types[o].members, a)
      BY <1>2, <1>3 DEF MembersOf, HasName
    <2> QED  BY <2>1, <2>2, <2>3 DEF NoMemberLevelNameConflict
  <1> HIDE DEF a
  <1>5. /\ k \in KindExs /\ HasCallSig(k) /\ IsMember(k) /\ k # "MethodReq"
        /\ kindOf[k] = "PropertyAssigner"
    BY KindOfEach DEF HasCallSig, IsMember
  <1>6. CanMakeMember(d, k, o, a, TRUE)
    BY <1>2, <1>4, <1>5 DEF CanMakeMember, Has
  <1>7. d1 = addCallable(d, k, ln, user, NoneSym, NoSym, NoSym, TRUE)  BY DEF a
  <1>8. e = addParam(d2, ln, HostName("x"), sym, TRUE)  BY DEF a
  <1> HIDE DEF ln, d2
  <1>9. CanMake(d, k, ln, TRUE)
    BY <1>2, <1>6 DEF CanMake, ownerName, memberName
  <1>10. Askable(d, k, ln, user, NoSym, NoSym)
    BY <1>1, <1>2, <1>5 DEF Askable
  <1>11. /\ SelfSym \in LegalSyms /\ NoneSym \in LegalSyms /\ SelfSym \in Symbols
         /\ sym \in Symbols /\ HostName("self") \in Names /\ DefOK(d)
    BY ProgramSymbols, ProgramNames DEF BaseInv
  <1>12. /\ AddsMember(d, d1, o, ln)
         /\ IsCallable(d1.types[ln], k, ln, user, NoneSym, NoSym, NoSym)
    <2>1. MemberCallable(d, d1, o, k, ln, user, NoneSym, NoSym)
      BY <1>2, <1>7, <1>9, <1>10, <1>11, MemberRegistered
    <2> QED  BY <2>1 DEF MemberCallable
  <1>13. CanAddParam(d1.types[ln], HostName("self"))
    BY <1>5, <1>12, FirstParamFits DEF IsCallable
  <1>14. /\ AddsMember(d, d2, o, ln)
         /\ d2.types[ln] = WithParam(d1.types[ln], HostName("self"), SelfSym)
    <2>1. d2 = addParam(d1, ln, HostName("self"), SelfSym, TRUE)  BY DEF d2
    <2>2. MemberParam(d, d1, d2, o, ln, HostName("self"), SelfSym)
      BY <1>2, <1>11, <1>12, <1>13, <2>1, MemberParamAdded
    <2> QED  BY <2>2 DEF MemberParam
  <1>15. HasOneParam(d2.types[ln], k, user, NoneSym, NoSym, HostName("self"), SelfSym)
    BY <1>11, <1>12, <1>14, OneParam
  <1>16. CanAddParam(d2.types[ln], HostName("x"))
    BY <1>5, <1>15, SecondParamFits
  <1>17. /\ AddsMember(d, e, o, ln)
         /\ e.types[ln] = WithParam(d2.types[ln], HostName("x"), sym)
    <2>1. MemberParam(d, d2, e, o, ln, HostName("x"), sym)
      BY <1>2, <1>8, <1>11, <1>14, <1>16, MemberParamAdded
    <2> QED  BY <2>1 DEF MemberParam
  <1>18. IsPropertyAssigner(e.types[ln], k, user, sym)
    BY <1>11, <1>15, <1>17, TwoParams
  <1> QED  BY <1>17, <1>18 DEF ln, a, SetterAdded

LEMMA PropertyIs ==
    ASSUME NEW d, BaseInv(d), NEW o, NEW m \in MemberNames, NEW sym,
           NEW user \in Nat \cup {NoUser}, NEW getK, NEW setK, PropertyKinds(getK, setK),
           CanDeclare(d, getK, <<o, m>>, sym),
           NEW e, e = addProperty(d, o, m, sym, user, getK, setK)
    PROVE  e.ok = TRUE /\ IsPropertyDeclared(d, e, o, m, sym, user, getK, setK)
  <1> DEFINE get == <<o, m>>
             set == <<o, AssignerOf(m)>>
             asg == PropertyAssignerSym(m, setK)
             d1 == addCallable(d, getK, get, user, sym, asg, NoSym, FALSE)
             d2 == addParam(d1, get, HostName("self"), SelfSym, TRUE)
             d3 == addCallable(d2, setK, set, user, NoneSym, NoSym, NoSym, TRUE)
             d4 == addParam(addParam(d3, set, HostName("self"), SelfSym, TRUE),
                            set, HostName("x"), sym, TRUE)
             T == IF setK # "None" THEN d4.types ELSE d2.types
  <1>1. d1.ok = TRUE => e = Answers(T, 0)
    BY DEF addProperty, PropertyAssignerSym
  <1>2. HostMember(d, getK, o, m) /\ sym \in LegalSyms
    BY HostMembers DEF CanDeclare
  <1>3. /\ o \in DOMAIN d.types /\ o \in OwnerLNs /\ CanHaveMembers(d.types[o].kind)
        /\ m \in Names /\ m = HostName(m[1])
        /\ get \in MemberLNs /\ get \notin DOMAIN d.types
        /\ CanMakeMember(d, getK, o, m, FALSE)
    BY <1>2 DEF HostMember
  <1>4. m[2] = ""  BY <1>2 DEF HostMember
  <1>5. getK \in {"StoredPropertyGet", "Property"} /\ kindOf[getK] = "Property"
    BY KindOfEach DEF PropertyKinds
  <1>6. d.types[o].kind # "Protocol"
    BY <1>3, <1>5 DEF CanMakeMember
  <1>7. asg \in Symbols \cup {NoSym}
    <2>1. AssignerOf(m) \in Names  BY <1>3, NameParts
    <2> QED  BY <2>1, ProgramSymbols DEF PropertyAssignerSym
  <1>8. AssignerOf(m) \in Names /\ AssignerOf(m) # m /\ HostName(AssignerOf(m)[1]) = m
    <2>1. AssignerOf(m) \in Names  BY <1>3, NameParts
    <2>2. AssignerOf(m)[2] = "$assigner" /\ AssignerOf(m)[1] = m[1]  BY DEF AssignerOf
    <2> QED  BY <1>3, <1>4, <2>1, <2>2
  <1>9. AssignerOf(m)[2] # ""  BY DEF AssignerOf
  <1>10. set \notin DOMAIN d.types /\ set # get /\ get # o
    <2>1. set \in MemberLNs /\ set[1] = o /\ set[2] = AssignerOf(m)  BY <1>3, <1>8, MakeNames
    <2>2. \A ln \in DOMAIN d.types \cap MemberLNs :
                ln[2][2] # "" => <<ln[1], HostName(ln[2][1])>> \in DOMAIN d.types
      BY DEF BaseInv, NamesOK
    <2>3. set \notin DOMAIN d.types
      <3> SUFFICES ASSUME set \in DOMAIN d.types PROVE FALSE
        OBVIOUS
      <3> HIDE DEF set
      <3>1. <<set[1], HostName(set[2][1])>> \in DOMAIN d.types  BY <1>9, <2>1, <2>2
      <3> QED  BY <1>3, <1>8, <2>1, <3>1
    <2>4. get # o  BY <1>3, MemberNameParts
    <2>5. set # get  BY <1>8
    <2> QED  BY <2>3, <2>4, <2>5
  <1>11. /\ d1.ok = TRUE /\ AddsMember(d, d2, o, get)
         /\ HasOneParam(d2.types[get], getK, user, sym, asg, HostName("self"), SelfSym)
    <2> HIDE DEF asg
    <2> HIDE DEF d1, d2
    <2>1. d1 = addCallable(d, getK, <<o, m>>, user, sym, asg, NoSym, FALSE)
          /\ d2 = addParam(d1, <<o, m>>, HostName("self"), SelfSym, TRUE)
      BY DEF d1, d2
    <2> QED  BY <1>2, <1>5, <1>7, <2>1, GetterIs
  <1>12. DefShape(e) /\ e.ok = TRUE /\ e.types = T
    <2> HIDE DEF T, d1
    <2>1. e = Answers(T, 0)  BY <1>1, <1>11
    <2> QED  BY ONLY <2>1, AnswersIs
  <1> HIDE DEF asg, d1, d2
  <1>13. /\ BaseInv(d2) /\ DefOK(d2) /\ KeepsAll(d, d2) /\ KeepsRest(d, d2) /\ DefOK(d)
         /\ DOMAIN d2.types = DOMAIN d.types \cup {get}
    BY <1>11 DEF AddsMember, BaseInv
  <1>14. setK # "None" =>
            /\ AddsMember(d2, d4, o, set)
            /\ IsPropertyAssigner(d4.types[set], setK, user, sym)
    <2> SUFFICES ASSUME setK # "None"
                 PROVE  /\ AddsMember(d2, d4, o, set)
                        /\ IsPropertyAssigner(d4.types[set], setK, user, sym)
      OBVIOUS
    <2>1. setK \in {"StoredPropertySet", "PropertyAssigner"}  BY DEF PropertyKinds
    <2>2. /\ o \in DOMAIN d2.types /\ d2.types[o].kind = d.types[o].kind
          /\ get \in DOMAIN d2.types /\ set \notin DOMAIN d2.types
      BY <1>3, <1>10, <1>13 DEF KeepsAll, KeepsDecl
    <2>3. d3 = addCallable(d2, setK, <<o, AssignerOf(m)>>, user, NoneSym, NoSym, NoSym, TRUE)
          /\ d4 = addParam(addParam(d3, <<o, AssignerOf(m)>>, HostName("self"), SelfSym, TRUE),
                           <<o, AssignerOf(m)>>, HostName("x"), sym, TRUE)
      OBVIOUS
    <2> HIDE DEF d3, d4
    <2>4. CanHaveMembers(d2.types[o].kind) /\ d2.types[o].kind # "Protocol"
      BY <1>3, <1>6, <2>2
    <2>5. SetterAdded(d2, d4, o, m, setK, user, sym)
      <3>1. /\ BaseInv(d2) /\ o \in DOMAIN d2.types /\ o \in OwnerLNs
            /\ m \in Names /\ m = HostName(m[1]) /\ user \in Nat \cup {NoUser}
            /\ sym \in LegalSyms
        BY <1>2, <1>3, <1>13, <2>2
      <3>2. <<o, m>> \in DOMAIN d2.types /\ <<o, AssignerOf(m)>> \notin DOMAIN d2.types
        BY <2>2
      <3> QED  BY ONLY <1>4, <2>1, <2>3, <2>4, <3>1, <3>2, SetterIs
    <2> QED  BY <2>5 DEF SetterAdded
  <1> HIDE DEF d3, d4
  <1>15. /\ BaseInv(e) /\ KeepsAll(d, e) /\ KeepsRest(d, e)
         /\ get \in DOMAIN e.types /\ e.types[get] = d2.types[get]
         /\ DOMAIN e.types = DOMAIN d.types \cup (IF setK # "None" THEN {get, set} ELSE {get})
         /\ setK # "None" => e.types[set] = d4.types[set]
    <2>1. CASE setK = "None"
      <3>1. e.types = d2.types  BY <1>12, <2>1
      <3>2. BaseInv(e) /\ KeepsAll(d, e) /\ KeepsRest(d, e)
        BY <1>12, <1>13, <3>1, SameTypes DEF KeepsAll, KeepsRest
      <3> QED  BY <1>13, <2>1, <3>1, <3>2
    <2>2. CASE setK # "None"
      <3>1. e.types = d4.types  BY <1>12, <2>2
      <3>2. /\ BaseInv(d4) /\ DefOK(d4) /\ KeepsAll(d2, d4) /\ KeepsRest(d2, d4)
            /\ DOMAIN d4.types = DOMAIN d2.types \cup {set}
            /\ \A l \in DOMAIN d2.types : l # o => d4.types[l] = d2.types[l]
        BY <1>14, <2>2 DEF AddsMember, BaseInv
      <3>3. KeepsAll(d, d4)  BY <1>13, <3>2, KeepsAllIsTransitive
      <3>4. KeepsRest(d, d4)  BY <1>13, <3>2 DEF KeepsRest
      <3>5. BaseInv(e) /\ KeepsAll(d, e) /\ KeepsRest(d, e)
        BY <1>12, <3>1, <3>2, <3>3, <3>4, SameTypes DEF KeepsAll, KeepsRest
      <3> HIDE DEF get, set
      <3> QED  BY <1>10, <1>13, <2>2, <3>1, <3>2, <3>5
    <2> QED  BY <2>1, <2>2
  <1>16. HasOneParam(e.types[get], getK, user, sym, asg, HostName("self"), SelfSym)
    BY <1>11, <1>15
  <1>17. setK # "None" =>
            /\ set \in DOMAIN e.types /\ set \notin DOMAIN d.types
            /\ IsPropertyAssigner(e.types[set], setK, user, sym)
    BY <1>10, <1>14, <1>15
  <1>18. \A l \in DOMAIN e.types :
            l \in DOMAIN d.types \/ l = get \/ (setK # "None" /\ l = set)
    BY <1>15
  <1> QED
    BY ONLY <1>2, <1>12, <1>15, <1>16, <1>17, <1>18 DEF IsPropertyDeclared, asg

LEMMA PropertyPartners ==
    ASSUME NEW d, BaseInv(d), PartnersInv(d), NEW o, NEW m, NEW sym, NEW user,
           NEW getK, NEW setK, PropertyKinds(getK, setK),
           NEW e, IsPropertyDeclared(d, e, o, m, sym, user, getK, setK)
    PROVE  PartnersInv(e)
  <1> DEFINE get == <<o, m>>
             set == <<o, AssignerOf(m)>>
             asg == PropertyAssignerSym(m, setK)
             t == e.types[get]
             s == e.types[set]
  <1>1. /\ m \in Names /\ get \in MemberLNs /\ get[1] = o /\ get[2] = m
        /\ KeepsAll(d, e) /\ KeepsFixedParams(d, e) /\ DefOK(d)
    BY DEF IsPropertyDeclared, HostMember, KeepsRest, KeepsFixedParams, BaseInv
  <1>2. Len(get) = 2  OBVIOUS
  <1>3. HasOneParam(t, getK, user, sym, asg, HostName("self"), SelfSym)
    BY DEF IsPropertyDeclared
  <1>4. setK # "None" => set \in DOMAIN e.types /\ IsPropertyAssigner(s, setK, user, sym)
    BY DEF IsPropertyDeclared
  <1>5. \A l \in DOMAIN e.types :
            l \in DOMAIN d.types \/ l = get \/ (setK # "None" /\ l = set)
    BY DEF IsPropertyDeclared
  <1>6. ASSUME NEW l \in DOMAIN d.types PROVE PartnersOf(e, l)
    <2>1. PartnersOf(d, l)  BY DEF PartnersInv
    <2> QED  BY <1>1, <2>1, PartnersStay
  <1>7. setK # "None" => PartnersOf(e, set)
    <2> SUFFICES ASSUME setK # "None" PROVE PartnersOf(e, set)
      OBVIOUS
    <2>1. s.assigner = 0 /\ s.initializer = 0 /\ s.kind = setK  BY <1>4 DEF IsPropertyAssigner
    <2>2. kindOf[setK] = "PropertyAssigner"  BY KindOfEach DEF PropertyKinds
    <2> QED  BY <2>1, <2>2, PlainPartners
  <1>8. PartnersOf(e, get)
    <2>1. asg = IF setK # "None" THEN SelfMember(AssignerOf(m)) ELSE NoSym
      BY DEF PropertyAssignerSym
    <2>2. /\ kindOf[getK] = "Property" /\ HasCallSig(getK) /\ IsMember(getK)
          /\ getK # "StoredVarGet"
          /\ setK # "None" =>
                /\ kindOf[setK] = "PropertyAssigner"
                /\ setK \in StoredKinds <=> getK \in StoredKinds
      BY KindOfEach DEF PropertyKinds, HasCallSig, IsMember, StoredKinds
    <2>3. AssignerSym(get) = SelfMember(AssignerOf(m)) /\ AssignerLN(get) = set
      BY <1>1, <1>2 DEF AssignerSym, AssignerLN
    <2> HIDE DEF asg, get, set, t, s
    <2>4. /\ t.kind = getK /\ Len(t.params) = 1 /\ Symbol(t, 1) = SelfSym
          /\ ConstAt(t, t.return) = sym /\ t.initializer = 0
          /\ t.assigner # 0 =>
                setK # "None" /\ ConstAt(t, t.assigner) = SelfMember(AssignerOf(m))
      BY <1>3, <2>1 DEF HasOneParam
    <2>5. setK # "None" => Assigns(t, s)
      BY <1>4, <2>2, <2>4 DEF IsPropertyAssigner, Assigns
    <2>6. IsMember(t.kind) /\ HasCallSig(t.kind) /\ kindOf[t.kind] = "Property"
          /\ t.kind # "StoredVarGet"
      BY <2>2, <2>4
    <2> QED  BY <1>1, <1>4, <2>3, <2>4, <2>5, <2>6 DEF PartnersOf, t, s
  <1> HIDE DEF get, set
  <1> QED  BY <1>5, <1>6, <1>7, <1>8 DEF PartnersInv

LEMMA ComputedPropertyKeeps ==
    ASSUME NEW d, DefInv(d), NEW o, NEW m \in MemberNames, NEW sym,
           NEW setK \in {"None", "PropertyAssigner"},
           NEW e, e = addProperty(d, o, m, sym, NoUser, "Property", setK)
    PROVE  Amends(d, e)
  <1>1. BaseInv(d) /\ SlotsInv(d) /\ PartnersInv(d)  BY DEF DefInv
  <1>2. PropertyKinds("Property", setK)  BY DEF PropertyKinds
  <1>3. CASE ~ CanDeclare(d, "Property", <<o, m>>, sym)
    <2>1. Refused(d, e)  BY <1>1, <1>3, PropertyFails
    <2> QED  BY <2>1, NothingDeclared
  <1>4. CASE CanDeclare(d, "Property", <<o, m>>, sym)
    <2>1. /\ e.ok = TRUE
          /\ IsPropertyDeclared(d, e, o, m, sym, NoUser, "Property", setK)
      BY <1>1, <1>2, <1>4, PropertyIs
    <2>2. PartnersInv(e)  BY <1>1, <1>2, <2>1, PropertyPartners
    <2>3. ASSUME NEW l \in DOMAIN e.types, l \notin DOMAIN d.types
          PROVE  e.types[l].slots = 0 /\ e.types[l].kind \in {"Property", "PropertyAssigner"}
      <3>1. CASE l = <<o, m>>
        BY <2>1, <3>1 DEF IsPropertyDeclared, HasOneParam
      <3>2. CASE setK # "None" /\ l = <<o, AssignerOf(m)>>
        BY <2>1, <3>2 DEF IsPropertyDeclared, IsPropertyAssigner
      <3> QED  BY <2>1, <2>3, <3>1, <3>2 DEF IsPropertyDeclared
    <2>4. BaseInv(e) /\ KeepsAll(d, e)
          /\ \A l \in DOMAIN d.types : e.types[l].slots = d.types[l].slots
      BY <2>1 DEF IsPropertyDeclared, KeepsRest
    <2>5. SlotsInv(e)  BY <1>1, <2>3, <2>4, SlotsStay
    <2> QED  BY <2>1, <2>2, <2>4, <2>5 DEF DefInv, Amends
  <1> QED  BY <1>3, <1>4

\* The new slot of the owner is that of the new property, and no other's.
SlotTaken(d, e, o) ==
    /\ DOMAIN e.types = DOMAIN d.types
    /\ e.types[o].slots = d.types[o].slots + 1
    /\ \A l \in DOMAIN d.types :
        /\ e.types[l].kind = d.types[l].kind /\ e.types[l].user = d.types[l].user
        /\ l # o => e.types[l].slots = d.types[l].slots

LEMMA StoredPropertySlots ==
    ASSUME NEW d, BaseInv(d), SlotsInv(d), NEW o \in DOMAIN d.types, NEW m, NEW sym, NEW d1,
           NEW setK \in {"None", "StoredPropertySet"}, NEW e,
           SlotTaken(d, d1, o),
           IsPropertyDeclared(d1, e, o, m, sym, d.types[o].slots, "StoredPropertyGet", setK)
    PROVE  SlotsInv(e)
  <1> SUFFICES ASSUME NEW p \in DOMAIN e.types PROVE SlotsOf(e, p)
    BY DEF SlotsInv
  <1> DEFINE n == d.types[o].slots
             get == <<o, m>>
             set == <<o, AssignerOf(m)>>
             G(x) == Stored(x, p, "StoredPropertyGet")
             S(x) == Stored(x, p, "StoredPropertySet")
  <1>1. n \in Nat /\ IsFiniteSet(DOMAIN d.types)
    BY TypeIndices DEF BaseInv, DefOK
  <1>2. /\ get \notin DOMAIN d.types /\ get \in DOMAIN e.types /\ get \in MemberLNs
        /\ get[1] = o /\ get[2] = m /\ o \in OwnerLNs
    BY DEF IsPropertyDeclared, HostMember, SlotTaken
  <1>3. Len(get) = 2 /\ Len(set) = 2 /\ set[1] = o /\ set[2] = AssignerOf(m)
    OBVIOUS
  <1>4. /\ e.types[get].kind = "StoredPropertyGet" /\ e.types[get].user = n
        /\ e.types[get].slots = 0
    BY DEF IsPropertyDeclared, HasOneParam
  <1>5. setK # "None" =>
            /\ set \in DOMAIN e.types /\ set \notin DOMAIN d.types
            /\ e.types[set].kind = "StoredPropertySet" /\ e.types[set].user = n
            /\ e.types[set].slots = 0
    BY DEF IsPropertyDeclared, IsPropertyAssigner, SlotTaken
  <1>6. \A l \in DOMAIN e.types :
            l \in DOMAIN d.types \/ l = get \/ (setK # "None" /\ l = set)
    BY DEF IsPropertyDeclared, SlotTaken
  <1>7. \A l \in DOMAIN d.types :
            /\ l \in DOMAIN e.types
            /\ e.types[l].kind = d.types[l].kind /\ e.types[l].user = d.types[l].user
            /\ l # o => e.types[l].slots = d.types[l].slots
    <2>1. KeepsAll(d1, e) /\ KeepsRest(d1, e)  BY DEF IsPropertyDeclared
    <2> QED  BY <2>1 DEF KeepsAll, KeepsDecl, KeepsRest, SlotTaken
  <1>8. e.types[o].slots = n + 1
    BY DEF IsPropertyDeclared, KeepsRest, SlotTaken
  <1> HIDE DEF get, set, n
  <1>9. CASE p = o
    <2>1. G(e) = G(d) \cup {get} /\ get \notin G(d)
      BY <1>2, <1>3, <1>4, <1>5, <1>6, <1>7, <1>9 DEF Stored
    <2>2. SlotsOf(d, p) /\ d.types[p].slots = n  BY <1>9 DEF SlotsInv, n
    <2>3. /\ {d.types[l].user : l \in G(d)} = 0 .. n - 1
          /\ Cardinality(G(d)) = n
          /\ \A l \in S(d) : \E g \in G(d) :
                l[2] = AssignerOf(g[2]) /\ d.types[l].user = d.types[g].user
      BY <2>2 DEF SlotsOf
    <2>4. \A l \in G(d) \cup S(d) : l \in DOMAIN d.types  BY DEF Stored
    <2> HIDE DEF G, S
    <2>5. {e.types[l].user : l \in G(e)} = {d.types[l].user : l \in G(d)} \cup {n}
      BY <1>4, <1>7, <2>1, <2>4
    <2>6. (0 .. n - 1) \cup {n} = 0 .. (n + 1) - 1  BY <1>1
    <2>7. Cardinality(G(e)) = n + 1
      <3>1. G(d) \subseteq DOMAIN d.types  BY <2>4
      <3>2. IsFiniteSet(G(d))  BY <1>1, <3>1, FS_Subset
      <3> QED  BY <2>1, <2>3, <3>2, FS_AddElement
    <2>8. ASSUME NEW l \in S(e)
          PROVE  \E g \in G(e) : l[2] = AssignerOf(g[2]) /\ e.types[l].user = e.types[g].user
      <3>1. CASE l = set /\ setK # "None"
        BY <1>2, <1>3, <1>4, <1>5, <2>1, <3>1
      <3>2. CASE ~ (l = set /\ setK # "None")
        <4>1. l \in DOMAIN e.types /\ Len(l) = 2 /\ l[1] = p
              /\ e.types[l].kind = "StoredPropertySet"
          BY DEF S, Stored
        <4>2. l # get  BY <1>4, <4>1
        <4>3. l \in DOMAIN d.types  BY <1>6, <3>2, <4>1, <4>2
        <4>4. l \in S(d)  BY <1>7, <4>1, <4>3 DEF S, Stored
        <4>5. PICK g \in G(d) : l[2] = AssignerOf(g[2]) /\ d.types[l].user = d.types[g].user
          BY <2>3, <4>4
        <4> QED  BY <1>7, <2>1, <2>4, <4>3, <4>5
      <3> QED  BY <3>1, <3>2
    <2>9. e.types[p].slots = n + 1  BY <1>8, <1>9
    <2> QED  BY <2>3, <2>5, <2>6, <2>7, <2>8, <2>9 DEF SlotsOf, G, S
  <1>10. CASE p # o /\ p \in DOMAIN d.types
    <2>1. G(e) = G(d) /\ S(e) = S(d)
      BY <1>2, <1>3, <1>6, <1>7, <1>10 DEF Stored
    <2>2. SlotsOf(d, p) /\ e.types[p].slots = d.types[p].slots
      BY <1>7, <1>10 DEF SlotsInv
    <2>3. \A l \in G(d) \cup S(d) : e.types[l].user = d.types[l].user
      BY <1>7 DEF Stored
    <2>4. {e.types[l].user : l \in G(e)} = {d.types[l].user : l \in G(d)}
      BY <2>1, <2>3
    <2> QED  BY <2>1, <2>2, <2>3, <2>4 DEF SlotsOf
  <1>11. CASE p \notin DOMAIN d.types
    <2>1. p = get \/ (setK # "None" /\ p = set)  BY <1>6, <1>11
    <2>2. e.types[p].slots = 0  BY <1>4, <1>5, <2>1
    <2>3. p \notin OwnerLNs
      <3>1. CASE p = get  BY <1>2, <3>1, MemberNameParts
      <3>2. CASE p # get
        <4>1. p = set  BY <2>1, <3>2
        <4>2. p \in OwnerLNs => Len(p) = 1  BY OwnerNameParts
        <4> QED  BY <1>3, <4>1, <4>2
      <3> QED  BY <3>1, <3>2
    <2>4. \A l \in DOMAIN e.types : Len(l) = 2 => l[1] \in OwnerLNs
      <3>1. \A l \in DOMAIN e.types : l \in LocalNames
        BY DEF IsPropertyDeclared, BaseInv, DefOK
      <3>2. \A l \in OwnerLNs : Len(l) # 2  BY OwnerNameParts
      <3>3. \A l \in MemberLNs : l[1] \in OwnerLNs  BY MemberNameParts
      <3> QED  BY <3>1, <3>2, <3>3 DEF LocalNames
    <2>5. G(e) = {} /\ S(e) = {}  BY <2>3, <2>4 DEF Stored
    <2>6. {e.types[l].user : l \in G(e)} = 0 .. 0 - 1  BY <2>5
    <2>7. Cardinality(G(e)) = 0  BY <2>5, FS_EmptySet
    <2> QED  BY <2>2, <2>5, <2>6, <2>7 DEF SlotsOf
  <1> QED  BY <1>9, <1>10, <1>11

LEMMA StoredPropertyKeeps ==
    ASSUME NEW d, DefInv(d), NEW o, NEW m \in MemberNames, NEW sym,
           NEW setK \in {"None", "StoredPropertySet"},
           NEW e, e = addStoredProperty(d, o, m, sym, setK)
    PROVE  Amends(d, e)
  <1>1. BaseInv(d) /\ SlotsInv(d) /\ PartnersInv(d) /\ DefOK(d) /\ DefShape(d)
    BY DEF DefInv, BaseInv, DefOK, DefShape
  <1>2. PropertyKinds("StoredPropertyGet", setK)  BY DEF PropertyKinds
  <1>3. CASE ~ Has(d, o)
    <2>1. e = addProperty(d, o, m, sym, 0, "StoredPropertyGet", setK)
      BY <1>3 DEF addStoredProperty
    <2>2. ~ CanDeclare(d, "StoredPropertyGet", <<o, m>>, sym)
      BY <1>1, <1>3, HostMembers DEF CanDeclare, HostMember, Has
    <2>3. Refused(d, e)  BY <1>1, <2>1, <2>2, PropertyFails
    <2> QED  BY <2>3, NothingDeclared
  <1>4. CASE Has(d, o)
    <2> DEFINE t == d.types[o]
               u == nextSlot(t)
               d1 == With(d, o, u)
               d2 == addProperty(d1, o, m, sym, t.slots, "StoredPropertyGet", setK)
    <2>1. e = IF d2.ok THEN d2 ELSE With(d2, o, unwindSlots(d2.types[o]))
      BY <1>4 DEF addStoredProperty
    <2>2. o \in DOMAIN d.types /\ TypeOK(t) /\ t.slots \in Nat
      BY <1>1, <1>4, TypeIndices DEF Has, DefOK
    <2>3. /\ TypeOK(u) /\ KeepsDecl(t, u) /\ u.members = t.members /\ KeepsParams(t, u)
          /\ u.slots = t.slots + 1 /\ unwindSlots(u) = t
      BY <2>2, SlotsAndNamedKeep
    <2> HIDE DEF u
    <2>4. DefShape(d1) /\ d1.types = [d.types EXCEPT ![o] = u]  BY <1>1, WithIs
    <2> HIDE DEF d1
    <2>5. /\ BaseInv(d1) /\ KeepsAll(d, d1)
          /\ DOMAIN d1.types = DOMAIN d.types /\ d1.types[o] = u
          /\ \A l \in DOMAIN d.types : l # o => d1.types[l] = d.types[l]
      BY <1>1, <2>2, <2>3, <2>4, AmendKeepsBase
    <2>6. PartnersInv(d1)
      <3>1. KeepsFixedParams(d, d1)
        BY <2>3, <2>5 DEF KeepsFixedParams, KeepsParams
      <3>2. ASSUME NEW l \in DOMAIN d1.types PROVE PartnersOf(d1, l)
        <4>1. l \in DOMAIN d.types /\ PartnersOf(d, l)  BY <1>1, <2>5 DEF PartnersInv
        <4> QED  BY <1>1, <2>5, <3>1, <4>1, PartnersStay
      <3> QED  BY <3>2 DEF PartnersInv
    <2>7. d2 = addProperty(d1, o, m, sym, t.slots, "StoredPropertyGet", setK)
      OBVIOUS
    <2> HIDE DEF d2
    <2>8. CASE ~ CanDeclare(d1, "StoredPropertyGet", <<o, m>>, sym)
      <3>1. Refused(d1, d2)  BY <2>5, <2>7, <2>8, PropertyFails
      <3>2. DefShape(d2) /\ d2.ok = FALSE /\ d2.types = d1.types  BY <3>1 DEF Refused
      <3>3. e = With(d2, o, t)  BY <2>1, <2>3, <2>5, <3>2
      <3>4. DefShape(e) /\ e.ok = FALSE /\ e.types = [d2.types EXCEPT ![o] = t]
        <4> HIDE DEF t
        <4>1. DefShape(e) /\ e.ok = d2.ok /\ e.types = [d2.types EXCEPT ![o] = t]
          BY ONLY <3>2, <3>3, WithIs
        <4> QED  BY <3>2, <4>1
      <3>5. e.types = d.types
        <4>1. d.types = [ln \in DOMAIN d.types |-> d.types[ln]]  BY <1>1 DEF DefOK
        <4> QED  BY <2>2, <2>4, <3>2, <3>4, <4>1
      <3>6. Refused(d, e)  BY <3>4, <3>5 DEF Refused
      <3> QED  BY <3>6, NothingDeclared
    <2>9. CASE CanDeclare(d1, "StoredPropertyGet", <<o, m>>, sym)
      <3>1. /\ d2.ok = TRUE
            /\ IsPropertyDeclared(d1, d2, o, m, sym, t.slots, "StoredPropertyGet", setK)
        BY <1>2, <2>2, <2>5, <2>7, <2>9, PropertyIs
      <3>2. e = d2  BY <2>1, <3>1
      <3>3. PartnersInv(d2)  BY <1>2, <2>5, <2>6, <3>1, PropertyPartners
      <3>4. SlotTaken(d, d1, o)
        BY <2>3, <2>5 DEF KeepsAll, KeepsDecl, SlotTaken
      <3>5. SlotsInv(d2)
        BY <1>1, <2>2, <3>1, <3>4, StoredPropertySlots
      <3> QED  BY <3>1, <3>2, <3>3, <3>5 DEF IsPropertyDeclared, DefInv, Amends
    <2> QED  BY <2>8, <2>9
  <1> QED  BY <1>3, <1>4

----------------------------------------------------------------------------
\* The calls of the host, one by one.

LEMMA InitIsSound ==
    ASSUME Init
    PROVE  DefInv(def)
  <1>1. DOMAIN def = {"types", "ok", "id"} /\ def.ok = TRUE /\ def.types = <<>>
    BY DEF Init
  <1>2. DOMAIN def.types = {} /\ def.types = [ln \in DOMAIN def.types |-> def.types[ln]]
    BY <1>1
  <1>3. DefOK(def)  BY <1>1, <1>2, FS_EmptySet DEF DefOK
  <1> QED  BY <1>2, <1>3 DEF DefInv, BaseInv, NamesOK, SlotsInv, PartnersInv

\* What declares a type only adds to the definition.
LEMMA DeclareTypeAdds ==
    ASSUME DefInv(def), DeclareType
    PROVE  Declares(def, def')
  <1>1. CASE AddStruct
    <2>1. PICK n \in OwnerNames : def' = addType(def, "Struct", n)
      BY <1>1 DEF AddStruct, Call
    <2> QED  BY <2>1, TypeKeeps
  <1>2. CASE AddProtocol
    <2>1. PICK n \in OwnerNames : def' = addType(def, "Protocol", n)
      BY <1>2 DEF AddProtocol, Call
    <2> QED  BY <2>1, TypeKeeps
  <1>3. CASE AddFn
    <2>1. PICK n \in OwnerNames, ret \in TypeSyms :
            def' = addCallable(def, "Fn", <<n>>, NoUser, ret, NoSym, NoSym, FALSE)
      BY <1>3 DEF AddFn, Call
    <2> QED  BY <2>1, FnKeeps
  <1>4. CASE AddReadOnlyStoredVar
    <2>1. PICK n \in OwnerNames, sym \in TypeSyms :
            def' = addVar(def, n, sym, "StoredVarGet", "None")
      BY <1>4 DEF AddReadOnlyStoredVar, Call
    <2>2. VarKinds("StoredVarGet", "None")  BY DEF VarKinds
    <2> QED  BY <2>1, <2>2, VarKeeps
  <1>5. CASE AddStoredVar
    <2>1. PICK n \in OwnerNames, sym \in TypeSyms :
            def' = addVar(def, n, sym, "StoredVarGet", "StoredVarSet")
      BY <1>5 DEF AddStoredVar, Call
    <2>2. VarKinds("StoredVarGet", "StoredVarSet")  BY DEF VarKinds
    <2> QED  BY <2>1, <2>2, VarKeeps
  <1>6. CASE AddReadOnlyComputedVar
    <2>1. PICK n \in OwnerNames, sym \in TypeSyms : def' = addVar(def, n, sym, "Var", "None")
      BY <1>6 DEF AddReadOnlyComputedVar, Call
    <2>2. VarKinds("Var", "None")  BY DEF VarKinds
    <2> QED  BY <2>1, <2>2, VarKeeps
  <1>7. CASE AddComputedVar
    <2>1. PICK n \in OwnerNames, sym \in TypeSyms :
            def' = addVar(def, n, sym, "Var", "VarAssigner")
      BY <1>7 DEF AddComputedVar, Call
    <2>2. VarKinds("Var", "VarAssigner")  BY DEF VarKinds
    <2> QED  BY <2>1, <2>2, VarKeeps
  <1> QED  BY <1>1, <1>2, <1>3, <1>4, <1>5, <1>6, <1>7 DEF DeclareType

LEMMA AddMethodKeeps ==
    ASSUME DefInv(def), AddMethod
    PROVE  Amends(def, def')
  <1>1. PICK o \in TypeNames, m \in MemberNames, ret \in TypeSyms :
            def' = addCallable(def, "Method", <<o, m>>, NoUser, ret, NoSym, NoSym, FALSE)
    BY DEF AddMethod, Call
  <1> QED  BY <1>1, MethodKeeps

LEMMA AddMethodReqKeeps ==
    ASSUME DefInv(def), AddMethodReq
    PROVE  Amends(def, def')
  <1>1. PICK o \in TypeNames, m \in MemberNames, ret \in TypeSyms :
            def' = addMethodReq(def, o, m, ret)
    BY DEF AddMethodReq, Call
  <1> DEFINE user == IF Has(def, o) THEN Len(def.types[o].members) ELSE NoUser
  <1>2. def' = addCallable(def, "MethodReq", <<o, m>>, user, ret, NoSym, NoSym, FALSE)
    BY <1>1 DEF addMethodReq
  <1>3. /\ user = NoUser \/ (Has(def, o) /\ user = Len(def.types[o].members))
        /\ Has(def, o) => user = Len(def.types[o].members)
    OBVIOUS
  <1> HIDE DEF user
  <1> QED  BY <1>2, <1>3, MethodKeeps

\* What adds to a type that is declared keeps the definition sound.
LEMMA AmendTypeKeeps ==
    ASSUME DefInv(def), AmendType
    PROVE  Amends(def, def')
  <1>1. CASE AddMethod  BY <1>1, AddMethodKeeps
  <1>2. CASE AddMethodReq  BY <1>2, AddMethodReqKeeps
  <1>3. CASE AddReadOnlyStoredProperty
    <2>1. PICK o \in TypeNames, m \in MemberNames, sym \in TypeSyms :
            def' = addStoredProperty(def, o, m, sym, "None")
      BY <1>3 DEF AddReadOnlyStoredProperty, Call
    <2> QED  BY <2>1, StoredPropertyKeeps
  <1>4. CASE AddStoredProperty
    <2>1. PICK o \in TypeNames, m \in MemberNames, sym \in TypeSyms :
            def' = addStoredProperty(def, o, m, sym, "StoredPropertySet")
      BY <1>4 DEF AddStoredProperty, Call
    <2> QED  BY <2>1, StoredPropertyKeeps
  <1>5. CASE AddReadOnlyComputedProperty
    <2>1. PICK o \in TypeNames, m \in MemberNames, sym \in TypeSyms :
            def' = addProperty(def, o, m, sym, NoUser, "Property", "None")
      BY <1>5 DEF AddReadOnlyComputedProperty, Call
    <2> QED  BY <2>1, ComputedPropertyKeeps
  <1>6. CASE AddComputedProperty
    <2>1. PICK o \in TypeNames, m \in MemberNames, sym \in TypeSyms :
            def' = addProperty(def, o, m, sym, NoUser, "Property", "PropertyAssigner")
      BY <1>6 DEF AddComputedProperty, Call
    <2> QED  BY <2>1, ComputedPropertyKeeps
  <1>7. CASE AddTypeParam
    <2>1. PICK ln \in TypeNames, n \in MemberNames, sym \in Constraints :
            def' = addTypeParam(def, ln, n, sym)
      BY <1>7 DEF AddTypeParam, Call
    <2> QED  BY <2>1, AddTypeParamKeeps
  <1>8. CASE AddParam
    <2>1. PICK ln \in TypeNames, n \in MemberNames, sym \in ParamSyms :
            def' = addParam(def, ln, n, sym, FALSE)
      BY <1>8 DEF AddParam, Call
    <2> QED  BY <2>1, AddParamKeeps
  <1>9. CASE BeginNamedParams
    <2>1. PICK ln \in TypeNames : def' = beginNamedParams(def, ln)
      BY <1>9 DEF BeginNamedParams, Call
    <2> QED  BY <2>1, BeginNamedParamsKeeps
  <1>10. CASE AddRef
    <2>1. PICK ln \in TypeNames, sym \in RefSyms : def' = addRef(def, ln, sym)
      BY <1>10 DEF AddRef, Call
    <2> QED  BY <2>1, AddRefKeeps
  <1> QED
    BY <1>1, <1>2, <1>3, <1>4, <1>5, <1>6, <1>7, <1>8, <1>9, <1>10 DEF AmendType

LEMMA EveryCallAmends ==
    ASSUME DefInv(def), Next
    PROVE  Amends(def, def')
  <1>1. CASE DeclareType
    <2>1. Declares(def, def')  BY <1>1, DeclareTypeAdds
    <2>2. def'.types = def.types => Declared(def') = Declared(def)  BY DEF Declared
    <2> QED  BY <2>1, <2>2 DEF Declares, Amends
  <1>2. CASE AmendType  BY <1>2, AmendTypeKeeps
  <1> QED  BY <1>1, <1>2 DEF Next, DeclareType, AmendType

----------------------------------------------------------------------------
\* What the invariant says, in the words of the properties.

LEMMA SlotsFollow ==
    ASSUME DefInv(def)
    PROVE  SlotsNumberStoredProperties
  BY DEF DefInv, SlotsInv, SlotsOf, Stored, SlotsNumberStoredProperties, Types

LEMMA RequirementsFollow ==
    ASSUME DefInv(def)
    PROVE  RequirementsIndexTheirTable
  BY DEF DefInv, BaseInv, NamesOK, MembersOf, RequirementsIndexTheirTable, Types

\* The symbols that the program derives name what it declares by them.
LEMMA Targets ==
    ASSUME NEW ln \in LocalNames
    PROVE  /\ Target(ln, AssignerSym(ln)) = AssignerLN(ln)
           /\ \A n : Target(ln, Here(n)) = <<n>>
           /\ ln \notin MemberLNs => ln = <<ln[1]>>
  <1>1. \A n : Target(ln, Here(n)) = <<n>>
    BY DEF Target, Here
  <1>2. CASE ln \in OwnerLNs
    <2>1. Len(ln) = 1 /\ ln = <<ln[1]>>  BY <1>2, OwnerNameParts
    <2> QED  BY <1>1, <2>1 DEF AssignerSym, AssignerLN
  <1>3. CASE ln \in MemberLNs
    <2>1. Len(ln) = 2  BY <1>3, MemberNameParts
    <2>2. \A n : Target(ln, SelfMember(n)) = <<ln[1], n>>
      <3> TAKE n
      <3> DEFINE sym == SelfMember(n)
      <3>1. sym[1] = "self" /\ sym[2] = n  BY DEF SelfMember
      <3>2. sym[1] # "here"  BY <3>1
      <3>3. Len(sym) = 2  BY DEF SelfMember
      <3> HIDE DEF sym
      <3>4. Target(ln, sym) = <<ln[1], n>>  BY <2>1, <3>1, <3>2, <3>3 DEF Target
      <3> QED  BY <3>4 DEF sym
    <2>3. AssignerSym(ln) = SelfMember(AssignerOf(ln[2]))
          /\ AssignerLN(ln) = <<ln[1], AssignerOf(ln[2])>>
      BY <2>1 DEF AssignerSym, AssignerLN
    <2> QED  BY <1>1, <1>3, <2>2, <2>3
  <1> QED  BY <1>2, <1>3 DEF LocalNames

LEMMA PartnersFollow ==
    ASSUME DefInv(def)
    PROVE  PartnersAreDeclared
  <1> SUFFICES ASSUME NEW ln \in Types
               PROVE  LET t == def.types[ln] IN
        /\ t.assigner # 0 =>
            LET a == Target(ln, ConstAt(t, t.assigner)) IN
            /\ a \in Types
            /\ LET s == def.types[a] IN
                /\ kindOf[s.kind] = IF IsMember(t.kind) THEN "PropertyAssigner" ELSE "VarAssigner"
                /\ (s.kind \in StoredKinds) <=> (t.kind \in StoredKinds)
                /\ ConstAt(s, s.return) = NoneSym
                /\ Len(s.params) = IF IsMember(t.kind) THEN 2 ELSE 1
                /\ IsMember(t.kind) => Symbol(s, 1) = SelfSym
                /\ Symbol(s, Len(s.params)) = ConstAt(t, t.return)
                /\ ~ IsMember(t.kind) => Target(a, ConstAt(s, s.var)) = ln
        /\ kindOf[t.kind] = "Property" =>
            Len(t.params) = 1 /\ Symbol(t, 1) = SelfSym
        /\ kindOf[t.kind] = "Var" => Len(t.params) = 0
        /\ (t.kind = "StoredVarGet") <=> (t.initializer # 0)
        /\ t.initializer # 0 =>
            LET i == Target(ln, ConstAt(t, t.initializer)) IN
            /\ i \in Types /\ def.types[i].kind = "Fn"
            /\ ConstAt(def.types[i], def.types[i].return) = ConstAt(t, t.return)
    BY DEF PartnersAreDeclared
  <1> DEFINE t == def.types[ln]
             a == Target(ln, ConstAt(t, t.assigner))
             s == def.types[a]
             i == Target(ln, ConstAt(t, t.initializer))
  <1>1. PartnersOf(def, ln) /\ DOMAIN def.types \subseteq LocalNames /\ ln \in LocalNames
    BY DEF DefInv, PartnersInv, BaseInv, DefOK, Types
  <1>2. ASSUME t.assigner # 0
        PROVE  /\ a \in Types /\ Assigns(t, s)
               /\ ~ IsMember(t.kind) => Target(a, ConstAt(s, s.var)) = ln
    <2>1. /\ ln \in MemberLNs <=> IsMember(t.kind)
          /\ ConstAt(t, t.assigner) = AssignerSym(ln)
          /\ AssignerLN(ln) \in DOMAIN def.types
          /\ Assigns(t, def.types[AssignerLN(ln)])
          /\ ln \notin MemberLNs =>
                ConstAt(def.types[AssignerLN(ln)], def.types[AssignerLN(ln)].var) = Here(ln[1])
      BY <1>1, <1>2 DEF PartnersOf
    <2>2. a = AssignerLN(ln) /\ a \in LocalNames  BY <1>1, <2>1, Targets
    <2> HIDE DEF a, t
    <2>3. a \in Types /\ Assigns(t, s)  BY <2>1, <2>2 DEF Types
    <2>4. ~ IsMember(t.kind) => Target(a, ConstAt(s, s.var)) = ln
      BY <1>1, <2>1, <2>2, Targets
    <2> QED  BY <2>3, <2>4
  <1>3. ASSUME t.initializer # 0
        PROVE  /\ i \in Types /\ def.types[i].kind = "Fn"
               /\ ConstAt(def.types[i], def.types[i].return) = ConstAt(t, t.return)
    <2>1. /\ ConstAt(t, t.initializer) = Here(InitOf(ln[1]))
          /\ InitLN(ln) \in DOMAIN def.types /\ def.types[InitLN(ln)].kind = "Fn"
          /\ ConstAt(def.types[InitLN(ln)], def.types[InitLN(ln)].return) = ConstAt(t, t.return)
      BY <1>1, <1>3 DEF PartnersOf
    <2>2. i = InitLN(ln)  BY <1>1, <2>1, Targets DEF InitLN
    <2> HIDE DEF i, t
    <2> QED  BY <2>1, <2>2 DEF Types
  <1>4. /\ kindOf[t.kind] = "Property" => Len(t.params) = 1 /\ Symbol(t, 1) = SelfSym
        /\ kindOf[t.kind] = "Var" => Len(t.params) = 0
        /\ (t.kind = "StoredVarGet") <=> (t.initializer # 0)
    BY <1>1 DEF PartnersOf
  <1> HIDE DEF t, a, i
  <1>5. t.assigner # 0 =>
            /\ a \in Types
            /\ kindOf[s.kind] = IF IsMember(t.kind) THEN "PropertyAssigner" ELSE "VarAssigner"
            /\ (s.kind \in StoredKinds) <=> (t.kind \in StoredKinds)
            /\ ConstAt(s, s.return) = NoneSym
            /\ Len(s.params) = IF IsMember(t.kind) THEN 2 ELSE 1
            /\ IsMember(t.kind) => Symbol(s, 1) = SelfSym
            /\ Symbol(s, Len(s.params)) = ConstAt(t, t.return)
            /\ ~ IsMember(t.kind) => Target(a, ConstAt(s, s.var)) = ln
    BY <1>2 DEF Assigns
  <1> QED  BY <1>3, <1>4, <1>5 DEF t, a, i

----------------------------------------------------------------------------
\* The theorems about ParcelDefs.

DefSound == DefInv(def)

\* A definition is complete and consistent after any sequence of calls, whatever
\* of them failed: this is the inductive invariant of the properties below.
THEOREM DefinitionsAreSound == Spec => []DefSound
  <1>1. Init => DefSound
    BY InitIsSound DEF DefSound
  <1>2. DefSound /\ [Next]_vars => DefSound'
    <2> SUFFICES ASSUME DefSound, [Next]_vars PROVE DefSound'
      OBVIOUS
    <2>1. CASE Next
      <3>1. Amends(def, def')  BY <2>1, EveryCallAmends DEF DefSound
      <3> QED  BY <3>1 DEF Amends, DefSound
    <2>2. CASE UNCHANGED vars
      BY <2>2 DEF vars, DefSound
    <2> QED  BY <2>1, <2>2
  <1> QED  BY <1>1, <1>2, PTL DEF Spec

\* The stored properties of a struct have the slots 0 .. slots - 1, one each, and
\* a property and its assigner the same one, whatever declarations failed in
\* between: what StructInit and cleanup (YmObj.cpp) count on.
THEOREM SlotsAreNumbered == Spec => []SlotsNumberStoredProperties
  <1>1. DefSound => SlotsNumberStoredProperties
    BY SlotsFollow DEF DefSound
  <1> QED  BY <1>1, DefinitionsAreSound, PTL

\* The members of a protocol are requirements, each of which knows its place
\* among them: the index of its entry in a protocol table.
THEOREM RequirementsKnowTheirPlace == Spec => []RequirementsIndexTheirTable
  <1>1. DefSound => RequirementsIndexTheirTable
    BY RequirementsFollow DEF DefSound
  <1> QED  BY <1>1, DefinitionsAreSound, PTL

\* The assigner and the initializer that a declaration names are declared with
\* it, with the params and the results it takes them to have, though addVar and
\* addProperty ignore whether the calls that declare them succeed.
THEOREM PartnersAreThere == Spec => []PartnersAreDeclared
  <1>1. DefSound => PartnersAreDeclared
    BY PartnersFollow DEF DefSound
  <1> QED  BY <1>1, DefinitionsAreSound, PTL

\* A call that fails declares nothing.
THEOREM FailuresDeclareNothing == Spec => FailedCallsDeclareNothing
  <1>1. DefSound /\ [Next]_vars => [def'.ok \/ Declared(def') = Declared(def)]_vars
    <2> SUFFICES ASSUME DefSound, Next
                 PROVE  def'.ok \/ Declared(def') = Declared(def)
      OBVIOUS
    <2>1. Amends(def, def')  BY EveryCallAmends DEF DefSound
    <2>2. def'.ok \in BOOLEAN  BY <2>1 DEF Amends, DefInv, BaseInv, DefOK
    <2> QED  BY <2>1, <2>2 DEF Amends
  <1> QED  BY <1>1, DefinitionsAreSound, PTL DEF Spec, FailedCallsDeclareNothing

----------------------------------------------------------------------------
\* The theorems about DefBinding.

\* To bind a definition, to load from it and to make objects are no calls on it:
\* what is proved of definitions holds of bound ones.
THEOREM BoundDefinitionsAreDefinitions == SpecBinding => Spec
  <1>1. InitBinding => Init
    BY DEF InitBinding
  <1>2. [NextBinding]_allVars => [Next]_vars
    BY DEF NextBinding, Declare, Amend, Bind, Load, NewObject, DeclareType, AmendType,
       Next, allVars, bindVars, vars
  <1> QED  BY <1>1, <1>2, PTL DEF SpecBinding, Spec

LEMMA LoadKeeps ==
    ASSUME DefSound, LoadedInv, Load
    PROVE  LoadedInv'
  <1>1. PICK o \in Types :
            /\ Len(o) = 1 /\ o \notin DOMAIN loaded
            /\ loaded' = [ln \in DOMAIN loaded \cup GroupOf(o) |->
                            IF ln \in DOMAIN loaded THEN loaded[ln]
                            ELSE Len(def.types[ln].consts)]
    BY DEF Load
  <1>2. /\ bound /\ bound' = bound /\ def' = def /\ objects' = objects
        /\ DefOK(def) /\ NamesOK(def)
    BY DEF Load, DefSound, DefInv, BaseInv
  <1>3. /\ DOMAIN loaded' = DOMAIN loaded \cup GroupOf(o)
        /\ \A ln \in DOMAIN loaded : loaded'[ln] = loaded[ln]
        /\ \A ln \in GroupOf(o) \ DOMAIN loaded : loaded'[ln] = Len(def.types[ln].consts)
    BY <1>1
  <1>4. GroupOf(o) \subseteq DOMAIN def.types
    BY DEF GroupOf, Types
  <1>5. ASSUME NEW ln \in DOMAIN loaded'
        PROVE  /\ loaded'[ln] = Len(def.types[ln].consts)
               /\ \A i \in 1 .. Len(def.types[ln].members) :
                    <<ln, def.types[ln].members[i].name>> \in DOMAIN loaded'
    <2>1. CASE ln \in DOMAIN loaded
      BY <1>3, <2>1 DEF LoadedInv
    <2>2. CASE ln \in GroupOf(o) /\ ln \notin DOMAIN loaded
      <3>1. loaded'[ln] = Len(def.types[ln].consts)  BY <1>3, <2>2
      <3>2. ln \in DOMAIN def.types  BY <1>4, <2>2
      <3>3. ASSUME NEW i \in 1 .. Len(def.types[ln].members)
            PROVE  <<ln, def.types[ln].members[i].name>> \in DOMAIN loaded'
        <4>1. CASE ln = o
          <5> DEFINE m == <<o, def.types[o].members[i].name>>
          <5>1. m \in DOMAIN def.types
            BY <1>2, <3>2, <3>3, <4>1 DEF NamesOK, MembersOf
          <5>2. Len(m) = 2 /\ m[1] = o  OBVIOUS
          <5>3. m \in GroupOf(o)  BY <5>1, <5>2 DEF GroupOf, Types
          <5> QED  BY <1>3, <4>1, <5>3
        <4>2. CASE ln # o
          <5>1. Len(ln) = 2  BY <2>2, <4>2 DEF GroupOf
          <5>2. ln \notin OwnerLNs  BY <5>1, OwnerNameParts
          <5>3. ln \in MemberLNs  BY <1>2, <3>2, <5>2 DEF DefOK, LocalNames
          <5>4. IsMember(def.types[ln].kind) /\ TypeOK(def.types[ln])
            BY <1>2, <3>2, <5>3 DEF NamesOK, DefOK
          <5>5. ~ CanHaveMembers(def.types[ln].kind)
            BY <5>4, TypeIndices, KindsThatReq
          <5>6. Len(def.types[ln].members) = 0  BY <5>4, <5>5 DEF TypeOK
          <5> QED  BY <3>3, <5>6
        <4> QED  BY <4>1, <4>2
      <3> QED  BY <3>1, <3>3
    <2> QED  BY <1>3, <2>1, <2>2
  <1>6. ASSUME NEW obj \in objects
        PROVE  obj[1] \in DOMAIN loaded' /\ obj[2] = def.types[obj[1]].slots
    BY <1>3 DEF LoadedInv
  <1> QED  BY <1>2, <1>3, <1>4, <1>5, <1>6 DEF LoadedInv

LEMMA LoadedKeeps ==
    ASSUME "amend" \in Discipline, DefSound, LoadedInv, [NextBinding]_allVars
    PROVE  LoadedInv'
  <1>1. CASE Declare
    <2>1. OnlyAdds(def, def')
      BY <1>1, DeclareTypeAdds DEF Declare, DefSound, Declares
    <2>2. bound' = bound /\ loaded' = loaded /\ objects' = objects
      BY <1>1 DEF Declare, bindVars
    <2>3. \A ln \in DOMAIN loaded :
            ln \in DOMAIN def'.types /\ def'.types[ln] = def.types[ln]
      BY <2>1 DEF OnlyAdds, LoadedInv
    <2> QED  BY <2>2, <2>3 DEF LoadedInv
  <1>2. CASE Amend
    <2>1. /\ ~ bound /\ bound' = bound /\ loaded' = loaded /\ objects' = objects
      BY <1>2 DEF Amend, bindVars
    <2>2. loaded = <<>> /\ objects = {} /\ DOMAIN loaded = {}
      BY <2>1 DEF LoadedInv
    <2> QED  BY <2>1, <2>2 DEF LoadedInv
  <1>3. CASE Bind
    BY <1>3 DEF Bind, LoadedInv
  <1>4. CASE Load
    BY <1>4, LoadKeeps
  <1>5. CASE NewObject
    <2>1. PICK ln \in DOMAIN loaded : objects' = objects \cup {<<ln, def.types[ln].slots>>}
      BY <1>5 DEF NewObject
    <2>2. def' = def /\ bound' = bound /\ loaded' = loaded
      BY <1>5 DEF NewObject
    <2>3. bound
      <3>1. loaded = <<>> => DOMAIN loaded = {}  OBVIOUS
      <3> QED  BY <2>1, <3>1 DEF LoadedInv
    <2> QED  BY <2>1, <2>2, <2>3 DEF LoadedInv
  <1>6. CASE UNCHANGED allVars
    BY <1>6 DEF allVars, bindVars, LoadedInv
  <1> QED  BY <1>1, <1>2, <1>3, <1>4, <1>5, <1>6 DEF NextBinding

LEMMA LoadedFollows ==
    ASSUME DefSound, LoadedInv
    PROVE  LoadedTypesMatchTheirInfo
  <1>1. ASSUME NEW ln \in DOMAIN loaded
        PROVE  IndicesOf(def.types[ln]) \subseteq 1 .. loaded[ln]
    <2> DEFINE t == def.types[ln]
               n == Len(t.consts)
    <2>1. TypeOK(t) /\ loaded[ln] = n
      BY DEF DefSound, DefInv, BaseInv, DefOK, LoadedInv
    <2> HIDE DEF t
    <2>2. IndicesOK(t) /\ n \in Nat
      BY <2>1, TypeIndices DEF TypeOK
    <2>3. /\ t.return \in Nat /\ t.assigner \in Nat /\ t.initializer \in Nat
          /\ t.owner \in Nat /\ t.var \in Nat
      BY <2>1 DEF TypeOK, TypeInfo
    <2>4. {t.return, t.assigner, t.initializer, t.owner, t.var} \ {0} \subseteq 1 .. n
      BY <2>2, <2>3 DEF IndicesOK
    <2>5. /\ Elements(t.refs) \subseteq 1 .. n
          /\ \A e \in Elements(t.params) \cup Elements(t.typeParams) \cup Elements(t.members) :
                e.const \in 1 .. n
      BY <2>2 DEF IndicesOK, Elements
    <2> QED  BY <2>1, <2>4, <2>5 DEF IndicesOf, t
  <1> QED  BY <1>1 DEF LoadedTypesMatchTheirInfo, LoadedInv

\* If the host leaves a bound definition's types as they are, and only declares
\* others, then a type object's table has every constant that its information
\* refers to, its members were loaded with it, and an object has the slots that
\* its type says.
THEOREM LoadedTypesStayTrue ==
    ASSUME "amend" \in Discipline
    PROVE  SpecBinding => []LoadedTypesMatchTheirInfo
  <1>1. InitBinding => LoadedInv
    <2> SUFFICES ASSUME InitBinding PROVE LoadedInv
      OBVIOUS
    <2>1. bound = FALSE /\ loaded = <<>> /\ objects = {} /\ DOMAIN loaded = {}
      BY DEF InitBinding
    <2> QED  BY <2>1 DEF LoadedInv
  <1>2. DefSound /\ LoadedInv /\ [NextBinding]_allVars => LoadedInv'
    BY LoadedKeeps
  <1>3. DefSound /\ LoadedInv => LoadedTypesMatchTheirInfo
    BY LoadedFollows
  <1>4. SpecBinding => []DefSound
    BY BoundDefinitionsAreDefinitions, DefinitionsAreSound, PTL
  <1> QED  BY <1>1, <1>2, <1>3, <1>4, PTL DEF SpecBinding

================================================================================
