-------------------------------- MODULE Parcels --------------------------------
(***************************************************************************)
(* Parcel definitions and the parcel and type objects made from them       *)
(* (Yama/internal/ParcelInfo.h, YmParcel.h, YmType.h, Area.h).             *)
(*                                                                         *)
(* A parcel object is [path, def, redirs]; a type object is [parcel, name].*)
(* So two objects made under one fullname from different bindings or       *)
(* redirects differ, as they do in the program. An area's links are the    *)
(* non-null entries of its types' constant tables.                         *)
(***************************************************************************)
EXTENDS Redirects, FiniteSets

CONSTANTS
    Paths,          \* paths that are bound, redirected or asked for
    YamaPath,       \* "yama"
    Defs,           \* verified parcel definitions
    YamaDef,        \* the definition of the yama parcel
    Names,          \* local names of types, members included
    OwnerOf,        \* the owner of a member; any other type is its own
    Declares,       \* the types each definition declares
    RefSyms,        \* reference symbols [path, name, suff] of each type's constants
    CallSig,        \* the call suffix of each type, NoSuff if it cannot be called
    Unsatisfied,    \* types whose type arguments miss their constraints
    NoSuff,         \* no call suffix
    Here,           \* the path %here
    Self,           \* $Self, as the path of a symbol: '$Self' or '$Self::m'
    NoParcel

ASSUME PathAssumption ==
    /\ YamaPath \in Paths
    /\ Here \notin Paths /\ Self \notin Paths /\ Here # Self

ASSUME DefAssumption ==
    /\ YamaDef \in Defs
    /\ OwnerOf \in [Names -> Names]
    /\ \A n \in Names : OwnerOf[OwnerOf[n]] = OwnerOf[n]
    /\ Declares \in [Defs -> SUBSET Names]
    /\ \A d \in Defs : \A n \in Declares[d] : OwnerOf[n] \in Declares[d]
    /\ DOMAIN RefSyms = Defs
    /\ \A d \in Defs : DOMAIN RefSyms[d] = Names
    /\ Unsatisfied \in [Defs -> SUBSET Names]
    /\ DOMAIN CallSig = Defs

EmptyArea == [parcels |-> {}, types |-> {}, links |-> {}]

Key(type) == <<type.parcel.path, type.name>>        \* YmType::fullname
Group(type) ==                                      \* an owner and its members
    {[parcel |-> type.parcel, name |-> n] :
        n \in {m \in Declares[type.parcel.def] : OwnerOf[m] = OwnerOf[type.name]}}

SymsOf(type) == RefSyms[type.parcel.def][type.name]
EarlySyms(type) == {s \in SymsOf(type) : s.path = Self}
LateSyms(type) == SymsOf(type) \ EarlySyms(type)

\* YmType::checkCallSuff: types that cannot be called have no suffix to miss.
Conforms(type, suff) ==
    LET ours == CallSig[type.parcel.def][type.name]
    IN suff = NoSuff \/ ours = NoSuff \/ suff = ours

\* A dependency path goes through the redirects locked for the type's parcel.
TargetPath(type, sym) ==
    IF sym.path = Here THEN type.parcel.path ELSE Resolve(type.parcel.redirs, sym.path)
Want(type, sym) == <<TargetPath(type, sym), sym.name>>
================================================================================
