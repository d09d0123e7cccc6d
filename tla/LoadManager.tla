------------------------------ MODULE LoadManager ------------------------------
(***************************************************************************)
(* One import or load as the LoadManager and its TermStk perform it        *)
(* (Yama/internal/LoadManager.cpp, TermStk.cpp, Section.h, Area.h): parcel *)
(* and type data is generated in the staging area, whose look-ups fall     *)
(* through to the committed area, and the constant tables of the new types *)
(* are linked by a queue of late resolutions.                              *)
(*                                                                         *)
(* Abstracted: type arguments (every type here is concrete), and how a     *)
(* constraint is decided (Unsatisfied); the queue's order, since a load    *)
(* either resolves all of it or is dropped as a whole.                     *)
(***************************************************************************)
EXTENDS Parcels

VARIABLES
    binds,      \* PathBindings: the definition bound to each bound path
    redirects,  \* Redirects: the domain's table
    commits,    \* Area of the domain: what has been imported and loaded
    staging,    \* Area of the load in progress
    pending,    \* _lateResolveQueue
    failFlag    \* _failFlag

managerVars == <<binds, redirects, commits, staging, pending, failFlag>>

--------------------------------------------------------------------------------
(* Areas *)

\* What a look-up in the staging area sees: its own, then its upstream's.
VisibleParcels == staging.parcels \cup commits.parcels
VisibleTypes == staging.types \cup commits.types

--------------------------------------------------------------------------------
(* TermStk *)

\* Fault: only the staging area is searched, not its upstream.
ParcelAtLocalOnly(path) ==
    IF \E p \in staging.parcels : p.path = path
    THEN CHOOSE p \in staging.parcels : p.path = path
    ELSE IF path \in DOMAIN binds
         THEN [path |-> path, def |-> binds[path], redirs |-> Compute(redirects, path)]
         ELSE NoParcel

\* TermStk::_import: an imported parcel stays the one its path names; another
\* is the bound one, whose redirects are locked as it is staged.
ParcelAt(path) ==
    IF \E p \in VisibleParcels : p.path = path
    THEN CHOOSE p \in VisibleParcels : p.path = path
    ELSE IF path \in DOMAIN binds
         THEN [path |-> path, def |-> binds[path], redirs |-> Compute(redirects, path)]
         ELSE NoParcel

Imported(paths) == {ParcelAt(p) : p \in paths} \ {NoParcel}

\* typeInParcel and member: wants are <<path, name>> pairs.
Found(want) == ParcelAt(want[1]) # NoParcel /\ want[2] \in Declares[ParcelAt(want[1]).def]
TypeAt(want) == [parcel |-> ParcelAt(want[1]), name |-> want[2]]

--------------------------------------------------------------------------------
(* LoadManager *)

\* _genNonMemberTypeData: a type not seen yet is generated with its whole group.
Generated(wants) == (UNION {Group(TypeAt(w)) : w \in {v \in wants : Found(v)}}) \ VisibleTypes

\* _earlyResolveConsts: '$Self' and '$Self::m'.
EarlyTarget(type, sym) == [parcel |-> type.parcel, name |-> sym.name]
EarlyLinks(type) ==
    {[from |-> type, sym |-> s, to |-> EarlyTarget(type, s)] :
        s \in {x \in EarlySyms(type) : EarlyTarget(type, x) \in Group(type)}}
EarlyResolved(types) == UNION {EarlyLinks(t) : t \in types}
EarlyFails(types) == \E t \in types : \E s \in EarlySyms(t) : EarlyTarget(t, s) \notin Group(t)

\* Fault: member data is generated but not scheduled for late resolution.
StageOwnersOnly(wants, newLinks, resolved, failed) ==
    LET new == Generated(wants)
    IN  /\ staging' = [parcels |-> staging.parcels \cup (Imported({w[1] : w \in wants}) \ commits.parcels),
                       types   |-> staging.types \cup new,
                       links   |-> staging.links \cup newLinks \cup EarlyResolved(new)]
        /\ pending' = (pending \ resolved) \cup {t \in new : OwnerOf[t.name] = t.name}
        /\ failFlag' = (failed \/ (\E w \in wants : ~Found(w)) \/ EarlyFails(new))

(***************************************************************************)
(* What evaluating the specifiers of wants adds: parcels (also those that  *)
(* turn out not to hold the type), new types with their early links, and   *)
(* a late resolution for each new type, whether owner or member.           *)
(***************************************************************************)
Stage(wants, newLinks, resolved, failed) ==
    LET new == Generated(wants)
    IN  /\ staging' = [parcels |-> staging.parcels \cup (Imported({w[1] : w \in wants}) \ commits.parcels),
                       types   |-> staging.types \cup new,
                       links   |-> staging.links \cup newLinks \cup EarlyResolved(new)]
        /\ pending' = (pending \ resolved) \cup new
        /\ failFlag' = (failed \/ (\E w \in wants : ~Found(w)) \/ EarlyFails(new))

\* _clearFlag and _initialImport.
InitialImport(path) ==
    /\ staging' = [staging EXCEPT !.parcels = @ \cup (Imported({path}) \ commits.parcels)]
    /\ failFlag' = (ParcelAt(path) = NoParcel)
    /\ UNCHANGED pending

\* _clearFlag and _initialLoad.
InitialLoad(path, name) == Stage({<<path, name>>}, {}, {}, FALSE)

LateLinks(type) ==
    {[from |-> type, sym |-> s, to |-> TypeAt(Want(type, s))] :
        s \in {x \in LateSyms(type) : Found(Want(type, x))}}

\* One round of _processLateResolveQueue.
LateResolve(type) ==
    /\ ~failFlag
    /\ type \in pending
    /\ Stage({Want(type, s) : s \in LateSyms(type)}, LateLinks(type), {type}, FALSE)

\* _processLateResolveQueue has ended.
QueueDone == failFlag \/ pending = {}

\* _checkConstraintTypeLegality, _enforceConstraints.
ConstraintsHold == \A t \in staging.types : t.name \notin Unsatisfied[t.parcel.def]

\* _checkRefConstCallSigConformance.
RefsConform ==
    \A l \in staging.links : l.from \in staging.types => Conforms(l.to, l.sym.suff)

\* Fault: the call suffixes of reference symbols are not checked.
ChecksPassNoSuffix == ConstraintsHold

ChecksPass == ConstraintsHold /\ RefsConform
================================================================================
