------------------------------ MODULE DefBinding ------------------------------
(***************************************************************************)
(* A parcel definition that is bound to a domain and loaded from, and the  *)
(* host's later calls on it (Yama/internal/Loader.cpp bindParcelDef,       *)
(* YmType.h, YmObj.cpp).                                                   *)
(*                                                                         *)
(* Binding shares the definition's information with the parcel, and a type *)
(* object keeps reading it: what its members and parameters are is read    *)
(* now, but its table of constants got its size when the type was loaded,  *)
(* and an object its slots when it was made. Only loads that resolve every *)
(* symbol are taken here; DomainLoader has the others.                     *)
(***************************************************************************)
EXTENDS ParcelDefs

CONSTANTS
    Discipline,     \* what the host refrains from: "amend" a bound definition's types
    MaxObjects      \* bound: objects made

ASSUME DisciplineAssumption == Discipline \subseteq {"amend"}

VARIABLES
    bound,      \* whether the definition is bound
    loaded,     \* the size of the constant table of each loaded type
    objects     \* <<type, number of slots>> of each kind of object made

bindVars == <<bound, loaded, objects>>
allVars == <<def, bindVars>>

DeclareType ==
    \/ AddStruct \/ AddProtocol \/ AddFn
    \/ AddReadOnlyStoredVar \/ AddStoredVar
    \/ AddReadOnlyComputedVar \/ AddComputedVar

AmendType ==
    \/ AddMethod \/ AddMethodReq
    \/ AddReadOnlyStoredProperty \/ AddStoredProperty
    \/ AddReadOnlyComputedProperty \/ AddComputedProperty
    \/ AddTypeParam \/ AddParam \/ BeginNamedParams \/ AddRef

Declare == DeclareType /\ UNCHANGED bindVars
Amend ==
    /\ "amend" \in Discipline => ~ bound
    /\ AmendType
    /\ UNCHANGED bindVars

\* verify() accepts every definition.
Bind ==
    /\ ~ bound
    /\ bound' = TRUE
    /\ UNCHANGED <<def, loaded, objects>>

\* Fault: only the type that was asked for becomes an object.
OwnerOnly(o) == {o}

\* An owner and all of its members become type objects together.
GroupOf(o) == {ln \in Types : ln = o \/ (Len(ln) = 2 /\ ln[1] = o)}

Load ==
    /\ bound
    /\ \E o \in Types :
        /\ Len(o) = 1 /\ o \notin DOMAIN loaded
        /\ loaded' = [ln \in DOMAIN loaded \cup GroupOf(o) |->
                        IF ln \in DOMAIN loaded THEN loaded[ln]
                        ELSE Len(def.types[ln].consts)]
    /\ UNCHANGED <<def, bound, objects>>

NewObject ==
    /\ Cardinality(objects) < MaxObjects
    /\ \E ln \in DOMAIN loaded :
        /\ isRegularStruct(def.types[ln])
        /\ objects' = objects \cup {<<ln, def.types[ln].slots>>}
    /\ UNCHANGED <<def, bound, loaded>>

InitBinding ==
    /\ Init
    /\ bound = FALSE
    /\ loaded = <<>>
    /\ objects = {}

NextBinding == Declare \/ Amend \/ Bind \/ Load \/ NewObject

SpecBinding == InitBinding /\ [][NextBinding]_allVars

\* Every constant that a loaded type's information refers to is inside the table
\* the type object was made with (constAs asserts it), every member it lists was
\* loaded with it, and an object has as many slots as its type says, since its
\* cleanup releases what is in that many.
LoadedTypesMatchTheirInfo ==
    /\ \A ln \in DOMAIN loaded : LET t == def.types[ln] IN
        /\ IndicesOf(t) \subseteq 1 .. loaded[ln]
        /\ \A i \in 1 .. Len(t.members) : <<ln, t.members[i].name>> \in DOMAIN loaded
    /\ \A obj \in objects : obj[2] = def.types[obj[1]].slots
================================================================================
