------------------------------ MODULE LoaderProofs ------------------------------
(***************************************************************************)
(* What holds of DomainLoader for every set of threads, parcels, bindings  *)
(* and requests.                                                           *)
(***************************************************************************)
EXTENDS DomainLoader, TLAPS

--------------------------------------------------------------------------------
(* The locks *)

LocksOK ==
    /\ pc \in [Threads -> Labels]
    /\ updateLock \in Threads \cup {NoThread}
    /\ writer \in Threads \cup {NoThread}

Record(x) == x = [parcels |-> x.parcels, types |-> x.types, links |-> x.links]

\* StagingIsPrivate and what its preservation needs of the moments in between.
LockInv ==
    /\ LocksOK
    /\ Record(staging) /\ Record(commits)
    /\ StagingIsPrivate
    /\ \A t \in Threads : pc[t] = "begin" => staging = EmptyArea /\ pending = {}
    /\ \A t \in Threads : pc[t] \in {"commit", "commitParcels"} => pending = {} /\ ~failFlag
    /\ \A t \in Threads : pc[t] = "commitParcels" => staging.types = {} /\ staging.links = {}
    /\ writer # NoThread => visiting = {}

\* Initially no lock is taken and nothing is staged.
LEMMA LockInvInit == Init => LockInv
  BY ThreadAssumption DEF Init, LockInv, LocksOK, StagingIsPrivate, Labels, Loading, EmptyArea, Record

\* Every step keeps the locks in order: only the holder of updateLock stages.
LEMMA LockInvNext == LockInv /\ [Next]_vars => LockInv'
  <1> SUFFICES ASSUME LockInv, [Next]_vars PROVE LockInv'
    OBVIOUS
  <1> USE ThreadAssumption DEF LockInv, LocksOK, StagingIsPrivate, Labels, Loading, Goto, Record
  <1>1. CASE UNCHANGED vars
    BY <1>1 DEF vars, managerVars, lockVars, visitVars, callVars
  <1>2. ASSUME NEW b \in Bindings, BindParcelDef(b[1], b[2]) PROVE LockInv'
    BY <1>2 DEF BindParcelDef, lockVars, visitVars, callVars
  <1>3. ASSUME NEW r \in RedirectCalls, AddRedirect(r[1], r[2], r[3]) PROVE LockInv'
    BY <1>3 DEF AddRedirect, lockVars, visitVars, callVars
  <1>4. ASSUME NEW t \in Visitors, BeginVisit(t) PROVE LockInv'
    BY <1>4 DEF BeginVisit, managerVars, lockVars, callVars
  <1>5. ASSUME NEW t \in Visitors, Visit(t) \/ EndVisit(t) PROVE LockInv'
    BY <1>5 DEF Visit, EndVisit, managerVars, lockVars, callVars
  <1>6. ASSUME NEW t \in Threads, NEW r \in Requests, Call(t, r) PROVE LockInv'
    BY <1>6 DEF Call, managerVars, lockVars, visitVars
  <1>7. ASSUME NEW t \in Threads, Fetch(t) PROVE LockInv'
    BY <1>7 DEF Fetch, managerVars, lockVars, visitVars
  <1>8. ASSUME NEW t \in Threads, LockUpdate(t) PROVE LockInv'
    BY <1>8 DEF LockUpdate, managerVars, visitVars
  <1>9. ASSUME NEW t \in Threads, Begin(t) PROVE LockInv'
    BY <1>9 DEF Begin, InitialImport, InitialLoad, Stage, lockVars, visitVars
  <1>10. ASSUME NEW t \in Threads, ResolveNext(t) PROVE LockInv'
    BY <1>10 DEF ResolveNext, LateResolve, Stage, lockVars, visitVars, callVars
  <1>11. ASSUME NEW t \in Threads, Succeed(t) PROVE LockInv'
    BY <1>11 DEF Succeed, EndLoad, visitVars
  <1>12. ASSUME NEW t \in Threads, Fail(t) \/ Refuse(t) PROVE LockInv'
    BY <1>12 DEF Fail, Refuse, EndLoad, EmptyArea, visitVars
  <1>13. ASSUME NEW t \in Threads, CommitTypes(t) PROVE LockInv'
    BY <1>13 DEF CommitTypes, visitVars
  <1>14. ASSUME NEW t \in Threads, CommitParcels(t) PROVE LockInv'
    BY <1>14 DEF CommitParcels, EmptyArea, visitVars
  <1>15. ASSUME NEW t \in Threads, Deliver(t) PROVE LockInv'
    BY <1>15 DEF Deliver, managerVars, lockVars, visitVars
  <1> QED
    BY <1>1, <1>2, <1>3, <1>4, <1>5, <1>6, <1>7, <1>8, <1>9, <1>10, <1>11, <1>12,
       <1>13, <1>14, <1>15 DEF Next, Step

LEMMA LockInvHolds == Spec => []LockInv
  BY LockInvInit, LockInvNext, PTL DEF Spec

(***************************************************************************)
(* The discipline of updateLock and accessLock: no thread touches the      *)
(* staging area of another, and every way an import or load ends leaves    *)
(* the staging area empty for the next.                                    *)
(***************************************************************************)
THEOREM StagingStaysPrivate == Spec => []StagingIsPrivate
  <1>1. LockInv => StagingIsPrivate
    BY DEF LockInv
  <1> QED
    BY <1>1, LockInvHolds, PTL

--------------------------------------------------------------------------------
(* What a step may do to the committed area *)

\* Commits only grow, and never under a visitor.
LEMMA CommitsGrow ==
  LockInv /\ [Next]_vars =>
    /\ commits.parcels \subseteq commits'.parcels
    /\ commits.types \subseteq commits'.types
    /\ commits.links \subseteq commits'.links
    /\ visiting # {} => commits' = commits
  <1> SUFFICES ASSUME LockInv, [Next]_vars
               PROVE  \/ UNCHANGED commits
                      \/ /\ visiting = {}
                         /\ commits' = [commits EXCEPT !.types = @ \cup staging.types,
                                                       !.links = @ \cup staging.links]
                      \/ /\ visiting = {}
                         /\ commits' = [commits EXCEPT !.parcels = @ \cup staging.parcels]
    BY DEF LockInv, Record
  <1>1. CASE UNCHANGED vars
    BY <1>1 DEF vars, managerVars
  <1>2. ASSUME NEW b \in Bindings, BindParcelDef(b[1], b[2]) PROVE UNCHANGED commits
    BY <1>2 DEF BindParcelDef
  <1>3. ASSUME NEW r \in RedirectCalls, AddRedirect(r[1], r[2], r[3]) PROVE UNCHANGED commits
    BY <1>3 DEF AddRedirect
  <1>4. ASSUME NEW t \in Visitors, BeginVisit(t) \/ Visit(t) \/ EndVisit(t)
        PROVE  UNCHANGED commits
    BY <1>4 DEF BeginVisit, Visit, EndVisit, managerVars
  <1>5. ASSUME NEW t \in Threads, NEW r \in Requests, Call(t, r) PROVE UNCHANGED commits
    BY <1>5 DEF Call, managerVars
  <1>6. ASSUME NEW t \in Threads,
               \/ Fetch(t) \/ LockUpdate(t) \/ Begin(t) \/ ResolveNext(t)
               \/ Succeed(t) \/ Fail(t) \/ Refuse(t) \/ Deliver(t)
        PROVE  UNCHANGED commits
    BY <1>6 DEF Fetch, LockUpdate, Begin, ResolveNext, Succeed, Fail, Refuse, Deliver, managerVars
  <1>7. ASSUME NEW t \in Threads, CommitTypes(t)
        PROVE  /\ visiting = {}
               /\ commits' = [commits EXCEPT !.types = @ \cup staging.types,
                                             !.links = @ \cup staging.links]
    BY <1>7 DEF CommitTypes
  <1>8. ASSUME NEW t \in Threads, CommitParcels(t)
        PROVE  /\ visiting = {}
               /\ commits' = [commits EXCEPT !.parcels = @ \cup staging.parcels]
    BY <1>8, ThreadAssumption DEF CommitParcels, LockInv, StagingIsPrivate
  <1> QED
    BY <1>1, <1>2, <1>3, <1>4, <1>5, <1>6, <1>7, <1>8 DEF Next, Step

(***************************************************************************)
(* An imported parcel, a loaded type and their links are never dropped,    *)
(* replaced or linked anew: not by a later binding or redirect, and not by *)
(* a load that fails.                                                      *)
(***************************************************************************)
THEOREM CommittedStaysPermanent == Spec => CommittedIsPermanent
  <1>1. LockInv /\ [Next]_vars =>
           [/\ commits.parcels \subseteq commits'.parcels
            /\ commits.types \subseteq commits'.types
            /\ commits.links \subseteq commits'.links]_vars
    BY CommitsGrow
  <1> QED
    BY <1>1, LockInvHolds, PTL DEF Spec, CommittedIsPermanent

\* What a visitor walks over does not change while it walks.
THEOREM VisitedStaysStable == Spec => VisitedIsStable
  <1>1. LockInv /\ [Next]_vars => [visiting # {} => commits' = commits]_vars
    BY CommitsGrow
  <1> QED
    BY <1>1, LockInvHolds, PTL DEF Spec, VisitedIsStable

--------------------------------------------------------------------------------
(* Names *)

IsType(t) == t = [parcel |-> t.parcel, name |-> t.name] /\ t.name \in Declares[t.parcel.def]

\* NamesAreUnique, with what makes a fullname determine a type.
NamesInv ==
    /\ \A p, q \in VisibleParcels : p.path = q.path => p = q
    /\ \A t \in VisibleTypes : IsType(t) /\ t.parcel \in VisibleParcels
    /\ writer = NoThread => \A t \in commits.types : t.parcel \in commits.parcels

\* TermStk finds under a path the one parcel that is there.
LEMMA ParcelAtFinds ==
  ASSUME NamesInv
  PROVE  /\ \A p \in VisibleParcels : ParcelAt(p.path) = p
         /\ \A path : ParcelAt(path) # NoParcel => ParcelAt(path).path = path
  BY DEF NamesInv, ParcelAt

\* The members of a group have the same group.
LEMMA GroupIsShared ==
  ASSUME NEW u, NEW t \in Group(u)
  PROVE  Group(t) = Group(u) /\ t.parcel = u.parcel /\ IsType(t)
  BY DEF Group, IsType

\* What a look-up can see once an import or a round of a load is staged.
LEMMA StageAdds ==
  ASSUME NEW wants, NEW newLinks, NEW resolved, NEW failed,
         Stage(wants, newLinks, resolved, failed), UNCHANGED commits
  PROVE  /\ VisibleParcels' = VisibleParcels \cup Imported({w[1] : w \in wants})
         /\ VisibleTypes' = VisibleTypes \cup Generated(wants)
         /\ staging'.types = staging.types \cup Generated(wants)
         /\ staging'.links = staging.links \cup newLinks \cup EarlyResolved(Generated(wants))
  BY DEF Stage, VisibleParcels, VisibleTypes

\* Generated types are declared by parcels that are staged with them.
LEMMA GeneratedTypes ==
  ASSUME NEW wants, NEW t \in Generated(wants)
  PROVE  /\ IsType(t)
         /\ t.parcel \in Imported({w[1] : w \in wants})
         /\ \A u \in Group(t) : u \in Generated(wants) \/ u \in VisibleTypes
  <1>1. PICK want \in wants : Found(want) /\ t \in Group(TypeAt(want))
    BY DEF Generated
  <1>2. t.parcel = ParcelAt(want[1]) /\ ParcelAt(want[1]) # NoParcel
    BY <1>1, GroupIsShared DEF TypeAt, Found
  <1>3. t.parcel \in Imported({v[1] : v \in wants})
    BY <1>2 DEF Imported
  <1>4. Group(t) = Group(TypeAt(want)) /\ IsType(t)
    BY <1>1, GroupIsShared
  <1>5. ASSUME NEW u \in Group(TypeAt(want)) PROVE u \in Generated(wants) \/ u \in VisibleTypes
    <2> DEFINE groups == {Group(TypeAt(w)) : w \in {v \in wants : Found(v)}}
    <2>1. Group(TypeAt(want)) \in groups
      BY <1>1
    <2>2. u \in UNION groups
      BY <2>1
    <2>3. Generated(wants) = (UNION groups) \ VisibleTypes
      BY DEF Generated
    <2> HIDE DEF groups
    <2> QED
      BY <2>2, <2>3
  <1> QED
    BY <1>3, <1>4, <1>5

\* Importing parcels leaves one to a path.
LEMMA ImportKeepsNames ==
  ASSUME NamesInv, NEW paths, VisibleParcels' = VisibleParcels \cup Imported(paths)
  PROVE  \A p, q \in VisibleParcels' : p.path = q.path => p = q
  <1>1. \A p \in VisibleParcels' : p = ParcelAt(p.path)
    BY ParcelAtFinds DEF Imported
  <1> QED
    BY <1>1

LEMMA StageKeepsNames ==
  ASSUME NamesInv, NEW wants, NEW newLinks, NEW resolved, NEW failed,
         Stage(wants, newLinks, resolved, failed), UNCHANGED <<commits, writer>>
  PROVE  NamesInv'
  <1>1. VisibleParcels' = VisibleParcels \cup Imported({w[1] : w \in wants})
    BY StageAdds
  <1>2. VisibleTypes' = VisibleTypes \cup Generated(wants)
    BY StageAdds
  <1>3. \A p, q \in VisibleParcels' : p.path = q.path => p = q
    BY <1>1, ImportKeepsNames
  <1>4. \A t \in VisibleTypes' : IsType(t) /\ t.parcel \in VisibleParcels'
    BY <1>1, <1>2, GeneratedTypes DEF NamesInv
  <1> QED
    BY <1>3, <1>4 DEF NamesInv, IsType

\* The steps that change what is staged or committed.
AreaStep(t) ==
    Begin(t) \/ ResolveNext(t) \/ Succeed(t) \/ Fail(t) \/ Refuse(t) \/ CommitTypes(t) \/ CommitParcels(t)

LEMMA AreaSteps ==
  ASSUME [Next]_vars
  PROVE  \/ UNCHANGED <<commits, staging, pending, failFlag, writer>>
         \/ \E t \in Threads : AreaStep(t)
  <1>1. CASE UNCHANGED vars
    BY <1>1 DEF vars, managerVars, lockVars
  <1>2. ASSUME NEW b \in Bindings, BindParcelDef(b[1], b[2])
        PROVE  UNCHANGED <<commits, staging, pending, failFlag, writer>>
    BY <1>2 DEF BindParcelDef, lockVars
  <1>3. ASSUME NEW r \in RedirectCalls, AddRedirect(r[1], r[2], r[3])
        PROVE  UNCHANGED <<commits, staging, pending, failFlag, writer>>
    BY <1>3 DEF AddRedirect, lockVars
  <1>4. ASSUME NEW t \in Visitors, BeginVisit(t) \/ Visit(t) \/ EndVisit(t)
        PROVE  UNCHANGED <<commits, staging, pending, failFlag, writer>>
    BY <1>4 DEF BeginVisit, Visit, EndVisit, managerVars, lockVars
  <1>5. ASSUME NEW t \in Threads, NEW r \in Requests, Call(t, r)
        PROVE  UNCHANGED <<commits, staging, pending, failFlag, writer>>
    BY <1>5 DEF Call, managerVars, lockVars
  <1>6. ASSUME NEW t \in Threads, Fetch(t) \/ LockUpdate(t) \/ Deliver(t)
        PROVE  UNCHANGED <<commits, staging, pending, failFlag, writer>>
    BY <1>6 DEF Fetch, LockUpdate, Deliver, managerVars, lockVars
  <1> QED
    BY <1>1, <1>2, <1>3, <1>4, <1>5, <1>6 DEF Next, Step, AreaStep

\* A load begins, or goes on, with a stage; an import with its parcel alone.
LEMMA StagingSteps ==
  ASSUME NEW t, Begin(t) \/ ResolveNext(t)
  PROVE  /\ UNCHANGED <<commits, writer>>
         /\ \/ \E path : InitialImport(path) /\ Begin(t)
            \/ \E path, name : InitialLoad(path, name) /\ Begin(t)
            \/ \E type \in pending : LateResolve(type)
  BY DEF Begin, ResolveNext, lockVars

LEMMA NamesInvNext == LockInv /\ NamesInv /\ [Next]_vars => NamesInv'
  <1> SUFFICES ASSUME LockInv, NamesInv, [Next]_vars PROVE NamesInv'
    OBVIOUS
  <1>1. CASE UNCHANGED <<commits, staging, pending, failFlag, writer>>
    BY <1>1 DEF NamesInv, VisibleParcels, VisibleTypes, IsType
  <1>2. ASSUME NEW t \in Threads, Begin(t) \/ ResolveNext(t) PROVE NamesInv'
    <2>1. CASE \E path : InitialImport(path)
      <3>1. PICK path : InitialImport(path)
        BY <2>1
      <3>2. /\ VisibleParcels' = VisibleParcels \cup Imported({path})
            /\ VisibleTypes' = VisibleTypes
        BY <3>1, <1>2, StagingSteps DEF InitialImport, VisibleParcels, VisibleTypes, LockInv, Record
      <3>3. \A p, q \in VisibleParcels' : p.path = q.path => p = q
        BY <3>2, ImportKeepsNames
      <3> QED
        BY <1>2, StagingSteps, <3>2, <3>3 DEF NamesInv, IsType
    <2>2. CASE \E path, name : InitialLoad(path, name)
      BY <2>2, <1>2, StagingSteps, StageKeepsNames DEF InitialLoad
    <2>3. CASE \E type \in pending : LateResolve(type)
      BY <2>3, <1>2, StagingSteps, StageKeepsNames DEF LateResolve
    <2> QED
      BY <1>2, <2>1, <2>2, <2>3, StagingSteps
  <1>3. ASSUME NEW t \in Threads, Succeed(t) PROVE NamesInv'
    BY <1>3 DEF Succeed, EndLoad, NamesInv, VisibleParcels, VisibleTypes, IsType
  <1>4. ASSUME NEW t \in Threads, CommitTypes(t) \/ CommitParcels(t) PROVE NamesInv'
    <2>1. VisibleParcels' = VisibleParcels /\ VisibleTypes' = VisibleTypes
      BY <1>4 DEF CommitTypes, CommitParcels, VisibleParcels, VisibleTypes, LockInv, Record
    <2>2. writer' = NoThread => \A u \in commits'.types : u.parcel \in commits'.parcels
      BY <1>4, ThreadAssumption
         DEF CommitTypes, CommitParcels, NamesInv, VisibleParcels, VisibleTypes, LockInv, Record
    <2> QED
      BY <2>1, <2>2 DEF NamesInv, IsType
  <1>5. ASSUME NEW t \in Threads, Fail(t) \/ Refuse(t) PROVE NamesInv'
    <2>1. staging' = EmptyArea /\ commits' = commits
      BY <1>5 DEF Fail, Refuse, EndLoad
    <2>2. VisibleParcels' \subseteq VisibleParcels /\ VisibleTypes' \subseteq VisibleTypes
      BY <2>1 DEF EmptyArea, VisibleParcels, VisibleTypes
    <2>3. writer = NoThread /\ writer' = NoThread
      BY <1>5, ThreadAssumption DEF Fail, Refuse, EndLoad, LockInv, LocksOK, StagingIsPrivate, Loading
    <2> QED
      BY <2>1, <2>2, <2>3 DEF NamesInv, IsType, EmptyArea, VisibleParcels, VisibleTypes
  <1> QED
    BY <1>1, <1>2, <1>3, <1>4, <1>5, AreaSteps DEF AreaStep

LEMMA NamesInvHolds == Spec => []NamesInv
  <1>1. Init => NamesInv
    BY DEF Init, NamesInv, EmptyArea, VisibleParcels, VisibleTypes
  <1> QED
    BY <1>1, NamesInvNext, LockInvHolds, PTL DEF Spec

(***************************************************************************)
(* A name means one parcel or type over both areas, at every moment, so    *)
(* also while a load runs: what a load links to is what readers will find. *)
(***************************************************************************)
THEOREM NamesStayUnique == Spec => []NamesAreUnique
  <1>1. NamesInv => NamesAreUnique
    BY DEF NamesInv, NamesAreUnique, IsType, Key
  <1> QED
    BY <1>1, NamesInvHolds, PTL

--------------------------------------------------------------------------------
(* Links *)

VisibleLinks == staging.links \cup commits.links

Linked(t, s) == \E l \in VisibleLinks : l.from = t /\ l.sym = s /\ l.to \in VisibleTypes

(***************************************************************************)
(* The argument why nothing incomplete is committed: a load owes each new  *)
(* type its members and '$Self' links at once, and its other links until   *)
(* its late resolution has run, which pending records; what it cannot give *)
(* raises failFlag; and it is committed with nothing pending and no flag.  *)
(***************************************************************************)
ClosedInv ==
    /\ LinkedWithin(commits.types, commits.links)
    /\ \A t \in commits.types : Group(t) \subseteq commits.types
    /\ pending \subseteq staging.types
    /\ \A t \in staging.types : Group(t) \subseteq VisibleTypes
    /\ ~failFlag =>
          /\ \A t \in staging.types : \A s \in EarlySyms(t) : Linked(t, s)
          /\ \A t \in staging.types \ pending : \A s \in LateSyms(t) : Linked(t, s)

\* A stage that raises no flag has found all it wanted.
LEMMA StageFinds ==
  ASSUME NEW wants, NEW newLinks, NEW resolved, NEW failed,
         Stage(wants, newLinks, resolved, failed), UNCHANGED commits, ~failFlag'
  PROVE  /\ \A w \in wants : Found(w) /\ TypeAt(w) \in VisibleTypes'
         /\ \A t \in Generated(wants) : \A s \in EarlySyms(t) : EarlyTarget(t, s) \in Group(t)
  <1>1. \A w \in wants : Found(w)
    BY DEF Stage
  <1>2. ASSUME NEW want \in wants PROVE TypeAt(want) \in VisibleTypes'
    <2> DEFINE groups == {Group(TypeAt(w)) : w \in {v \in wants : Found(v)}}
    <2>1. TypeAt(want) \in Group(TypeAt(want))
      BY <1>1 DEF TypeAt, Group, Found
    <2>2. Group(TypeAt(want)) \in groups
      BY <1>1
    <2>3. Generated(wants) = (UNION groups) \ VisibleTypes
      BY DEF Generated
    <2> HIDE DEF groups
    <2> QED
      BY <2>1, <2>2, <2>3, StageAdds
  <1>3. \A t \in Generated(wants) : \A s \in EarlySyms(t) : EarlyTarget(t, s) \in Group(t)
    BY DEF Stage, EarlyFails
  <1> QED
    BY <1>1, <1>2, <1>3

\* Every '$Self' symbol of a type whose group has its target gets its link.
LEMMA EarlyLinksLink ==
  ASSUME NEW types, NEW t \in types, NEW s \in EarlySyms(t), EarlyTarget(t, s) \in Group(t)
  PROVE  [from |-> t, sym |-> s, to |-> EarlyTarget(t, s)] \in EarlyResolved(types)
  <1>1. [from |-> t, sym |-> s, to |-> EarlyTarget(t, s)] \in EarlyLinks(t)
    BY DEF EarlyLinks
  <1> QED
    BY <1>1 DEF EarlyResolved

\* A stage keeps ClosedInv if the types it resolves are linked by it.
LEMMA StageKeepsClosed ==
  ASSUME ClosedInv, NEW wants, NEW newLinks, NEW resolved, NEW failed,
         Stage(wants, newLinks, resolved, failed), UNCHANGED commits,
         ~failFlag \/ staging.types = {},
         ~failFlag' => \A t \in resolved : \A s \in LateSyms(t) : Linked(t, s)'
  PROVE  ClosedInv'
  <1> DEFINE new == Generated(wants)
  <1>1. /\ VisibleTypes' = VisibleTypes \cup new
        /\ staging'.types = staging.types \cup new
        /\ staging'.links = staging.links \cup newLinks \cup EarlyResolved(new)
    BY StageAdds
  <1>2. pending' = (pending \ resolved) \cup new
    BY DEF Stage
  <1>3. \A t \in new : \A u \in Group(t) : u \in VisibleTypes'
    BY <1>1, GeneratedTypes
  <1> HIDE DEF new
  <1>4. \A t, s : Linked(t, s) => Linked(t, s)'
    BY <1>1 DEF Linked, VisibleLinks
  <1>5. ASSUME ~failFlag', NEW t \in staging'.types, NEW s \in EarlySyms(t)
        PROVE  Linked(t, s)'
    <2>1. CASE t \in staging.types
      BY <1>4, <2>1 DEF ClosedInv
    <2>2. CASE t \in new
      <3> DEFINE link == [from |-> t, sym |-> s, to |-> EarlyTarget(t, s)]
      <3>1. EarlyTarget(t, s) \in Group(t)
        BY <1>5, <2>2, StageFinds DEF new
      <3>2. link \in EarlyResolved(new)
        BY <2>2, <3>1, EarlyLinksLink
      <3>3. link \in VisibleLinks' /\ link.to \in VisibleTypes'
        BY <1>1, <1>3, <2>2, <3>1, <3>2 DEF VisibleLinks
      <3> QED
        BY <3>3 DEF Linked
    <2> QED
      BY <1>1, <2>1, <2>2
  <1>6. ASSUME ~failFlag', NEW t \in staging'.types \ pending', NEW s \in LateSyms(t)
        PROVE  Linked(t, s)'
    <2>1. t \in staging.types /\ (t \notin pending \/ t \in resolved)
      BY <1>1, <1>2
    <2> QED
      BY <1>4, <1>6, <2>1 DEF ClosedInv
  <1>7. \A t \in staging'.types : Group(t) \subseteq VisibleTypes'
    BY <1>1, <1>3 DEF ClosedInv
  <1>8. pending' \subseteq staging'.types
    BY <1>1, <1>2 DEF ClosedInv
  <1> QED
    BY <1>5, <1>6, <1>7, <1>8 DEF ClosedInv, LinkedWithin

\* A round of late resolution links all of its type's late symbols, or fails.
LEMMA LateResolveKeepsClosed ==
  ASSUME ClosedInv, NEW type \in pending, LateResolve(type), UNCHANGED commits
  PROVE  ClosedInv'
  <1> DEFINE wants == {Want(type, s) : s \in LateSyms(type)}
  <1> DEFINE links == LateLinks(type)
  <1>1. ~failFlag /\ Stage(wants, links, {type}, FALSE)
    BY DEF LateResolve
  <1>2. \A s \in LateSyms(type) : Want(type, s) \in wants
    OBVIOUS
  <1> HIDE DEF wants, links
  <1>3. PICK failed : Stage(wants, links, {type}, failed)
    BY <1>1, Zenon
  <1>4. ASSUME ~failFlag', NEW s \in LateSyms(type) PROVE Linked(type, s)'
    <2> DEFINE link == [from |-> type, sym |-> s, to |-> TypeAt(Want(type, s))]
    <2>1. Found(Want(type, s)) /\ TypeAt(Want(type, s)) \in VisibleTypes'
      BY <1>2, <1>3, <1>4, StageFinds
    <2>2. link \in links
      BY <2>1 DEF LateLinks, links
    <2>3. links \subseteq VisibleLinks'
      BY <1>3, StageAdds DEF VisibleLinks
    <2> QED
      BY <2>1, <2>2, <2>3 DEF Linked
  <1> QED
    BY <1>1, <1>3, <1>4, StageKeepsClosed

\* When nothing is pending and nothing failed, what is staged is complete.
LEMMA StagedIsLinked ==
  ASSUME ClosedInv, ~failFlag, pending = {}
  PROVE  LinkedWithin(VisibleTypes, VisibleLinks)
  <1> SUFFICES ASSUME NEW t \in VisibleTypes, NEW s \in SymsOf(t) PROVE Linked(t, s)
    BY DEF LinkedWithin, Linked
  <1>1. CASE t \in staging.types
    BY <1>1 DEF ClosedInv, LateSyms
  <1>2. CASE t \in commits.types
    BY <1>2 DEF ClosedInv, LinkedWithin, Linked, VisibleLinks, VisibleTypes
  <1> QED
    BY <1>1, <1>2 DEF VisibleTypes

LEMMA ClosedInvNext == LockInv /\ ClosedInv /\ [Next]_vars => ClosedInv'
  <1> SUFFICES ASSUME LockInv, ClosedInv, [Next]_vars PROVE ClosedInv'
    OBVIOUS
  <1>1. CASE UNCHANGED <<commits, staging, pending, failFlag, writer>>
    BY <1>1 DEF ClosedInv, LinkedWithin, Linked, VisibleLinks, VisibleTypes
  <1>2. ASSUME NEW t \in Threads, Begin(t) PROVE ClosedInv'
    <2>1. staging = EmptyArea /\ pending = {} /\ commits' = commits
      BY <1>2 DEF Begin, LockInv
    <2>2. CASE \E path : InitialImport(path)
      <3>1. staging'.types = {} /\ pending' = {}
        BY <2>1, <2>2 DEF InitialImport, EmptyArea
      <3>2. /\ LinkedWithin(commits.types, commits.links)'
            /\ \A u \in commits'.types : Group(u) \subseteq commits'.types
        BY <2>1 DEF ClosedInv, LinkedWithin
      <3> QED
        BY <3>1, <3>2 DEF ClosedInv
    <2>3. CASE \E path, name : InitialLoad(path, name)
      <3>1. PICK wants, links, resolved, failed :
               Stage(wants, links, resolved, failed) /\ resolved = {}
        BY <2>3 DEF InitialLoad
      <3> QED
        BY <2>1, <3>1, StageKeepsClosed DEF EmptyArea
    <2> QED
      BY <1>2, <2>2, <2>3 DEF Begin
  <1>3. ASSUME NEW t \in Threads, ResolveNext(t) PROVE ClosedInv'
    BY <1>3, LateResolveKeepsClosed DEF ResolveNext
  <1>4. ASSUME NEW t \in Threads, Succeed(t) PROVE ClosedInv'
    <2>1. UNCHANGED <<commits, staging>> /\ ~failFlag /\ pending = {} /\ pending' = {}
      BY <1>4 DEF Succeed, EndLoad, QueueDone
    <2> QED
      BY <2>1 DEF ClosedInv, LinkedWithin, Linked, VisibleLinks, VisibleTypes
  <1>5. ASSUME NEW t \in Threads, Fail(t) \/ Refuse(t) PROVE ClosedInv'
    <2>1. staging' = EmptyArea /\ commits' = commits /\ pending' = {}
      BY <1>5 DEF Fail, Refuse, EndLoad
    <2> QED
      BY <2>1 DEF ClosedInv, EmptyArea, LinkedWithin
  <1>6. ASSUME NEW t \in Threads, CommitTypes(t) PROVE ClosedInv'
    <2>1. ~failFlag /\ pending = {} /\ pending' = {}
      BY <1>6 DEF CommitTypes, LockInv
    <2>2. /\ commits'.types = VisibleTypes /\ commits'.links = VisibleLinks
          /\ staging'.types = {}
      BY <1>6 DEF CommitTypes, LockInv, Record, VisibleTypes, VisibleLinks
    <2>3. LinkedWithin(commits'.types, commits'.links)
      BY <2>1, <2>2, StagedIsLinked
    <2>4. \A u \in commits'.types : Group(u) \subseteq commits'.types
      BY <2>2 DEF ClosedInv, VisibleTypes
    <2> QED
      BY <2>1, <2>2, <2>3, <2>4 DEF ClosedInv, LinkedWithin
  <1>7. ASSUME NEW t \in Threads, CommitParcels(t) PROVE ClosedInv'
    <2>1. /\ commits'.types = commits.types /\ commits'.links = commits.links
          /\ staging'.types = {} /\ pending' = {}
      BY <1>7 DEF CommitParcels, LockInv, Record
    <2> QED
      BY <2>1 DEF ClosedInv, LinkedWithin
  <1> QED
    BY <1>1, <1>2, <1>3, <1>4, <1>5, <1>6, <1>7, AreaSteps DEF AreaStep

LEMMA ClosedInvHolds == Spec => []ClosedInv
  <1>1. Init => ClosedInv
    BY DEF Init, ClosedInv, EmptyArea, LinkedWithin
  <1> QED
    BY <1>1, ClosedInvNext, LockInvHolds, PTL DEF Spec

(***************************************************************************)
(* Whatever the definitions, and however loads are interleaved, refused or *)
(* fail half way, a reader never meets a committed type with a symbol that *)
(* is not linked, a member missing, or its parcel absent.                  *)
(***************************************************************************)
THEOREM CommittedStaysClosed == Spec => []CommittedIsClosed
  <1>1. NamesInv /\ ClosedInv => CommittedIsClosed
    BY DEF NamesInv, ClosedInv, CommittedIsClosed
  <1> QED
    BY <1>1, NamesInvHolds, ClosedInvHolds, PTL

--------------------------------------------------------------------------------
(* Answers *)

\* x, unless Nil, is what r asks for, found among parcels and types.
Meets(x, r, parcels, types) ==
    x # Nil =>
        IF IsImport(r) THEN x \in parcels /\ x.path = r.path
        ELSE x \in types /\ Key(x) = RequestKey(r) /\ Conforms(x, r.suff)

\* What a thread holds is committed; its answer is, or is about to be.
AnswersOf(t) ==
    /\ held[t] = [parcels |-> held[t].parcels, types |-> held[t].types]
    /\ held[t].parcels \subseteq commits.parcels /\ held[t].types \subseteq commits.types
    /\ pc[t] \in {"idle", "deliver"} =>
          Meets(result[t], request[t], commits.parcels, commits.types)
    /\ pc[t] \in {"commit", "commitParcels"} =>
          Meets(result[t], request[t], VisibleParcels, VisibleTypes)

AnswersInv ==
    /\ DOMAIN request = Threads /\ request = [t \in Threads |-> request[t]]
    /\ DOMAIN result = Threads /\ result = [t \in Threads |-> result[t]]
    /\ DOMAIN held = Threads /\ held = [t \in Threads |-> held[t]]
    /\ \A t \in Threads : AnswersOf(t)

\* A look-up answers with what it was asked for, or Nil.
LEMMA FetchMeets ==
  ASSUME NEW parcels, NEW types, NEW r
  PROVE  Meets(Answer(Fetched(parcels, types, r), r), r, parcels, types)
  <1>1. CASE IsImport(r)
    BY <1>1 DEF Meets, Answer, Refused, Fetched
  <1>2. CASE ~IsImport(r)
    BY <1>2 DEF Meets, Answer, Refused, Fetched
  <1> QED
    BY <1>1, <1>2

LEMMA MeetsMore ==
  ASSUME NEW x, NEW r, NEW ps, NEW ts, NEW qs, NEW us,
         Meets(x, r, ps, ts), ps \subseteq qs, ts \subseteq us
  PROVE  Meets(x, r, qs, us)
  BY DEF Meets

\* A step of others keeps what a thread was answered.
LEMMA OthersKept ==
  ASSUME LockInv, [Next]_vars, NEW u \in Threads, AnswersOf(u),
         request'[u] = request[u], result'[u] = result[u], held'[u] = held[u],
         pc'[u] \in {"idle", "deliver"} => pc[u] \in {"idle", "deliver"},
         pc'[u] \in {"commit", "commitParcels"} =>
            /\ pc[u] \in {"commit", "commitParcels"}
            /\ VisibleParcels \subseteq VisibleParcels'
            /\ VisibleTypes \subseteq VisibleTypes'
  PROVE  AnswersOf(u)'
  BY CommitsGrow, MeetsMore DEF AnswersOf

\* The thread t that works on the staging area is the only one about to commit.
LEMMA OnlyOneLoads ==
  ASSUME LockInv, NEW t \in Threads, NEW u \in Threads, Loading(t), Loading(u)
  PROVE  t = u
  BY DEF LockInv, StagingIsPrivate

LEMMA AnswersInvNext == LockInv /\ AnswersInv /\ [Next]_vars => AnswersInv'
  <1> SUFFICES ASSUME LockInv, AnswersInv, [Next]_vars PROVE AnswersInv'
    OBVIOUS
  <1> USE DEF Goto, Answers
  <1>1. ASSUME UNCHANGED <<commits, staging, pc, request, result, held>> PROVE AnswersInv'
    BY <1>1 DEF AnswersInv, AnswersOf, VisibleParcels, VisibleTypes
  <1>2. ASSUME NEW b \in Bindings, BindParcelDef(b[1], b[2]) PROVE AnswersInv'
    BY <1>1, <1>2 DEF BindParcelDef, callVars
  <1>3. ASSUME NEW r \in RedirectCalls, AddRedirect(r[1], r[2], r[3]) PROVE AnswersInv'
    BY <1>1, <1>3 DEF AddRedirect, callVars
  <1>4. ASSUME NEW t \in Visitors, BeginVisit(t) \/ Visit(t) \/ EndVisit(t) PROVE AnswersInv'
    BY <1>1, <1>4 DEF BeginVisit, Visit, EndVisit, managerVars, callVars
  <1>5. ASSUME NEW t \in Threads, NEW r \in Requests, Call(t, r) PROVE AnswersInv'
    <2>1. UNCHANGED <<commits, staging, held>>
      BY <1>5 DEF Call, managerVars
    <2>2. \A u \in Threads \ {t} : AnswersOf(u)'
      BY <1>5, <2>1, OthersKept DEF Call, AnswersInv, LockInv, LocksOK, VisibleParcels, VisibleTypes
    <2>3. Meets(result'[t], request'[t], held[t].parcels, held[t].types)
      BY <1>5, FetchMeets DEF Call, AnswersInv
    <2>4. AnswersOf(t)'
      BY <1>5, <2>1, <2>3, MeetsMore DEF Call, AnswersInv, AnswersOf, LockInv, LocksOK
    <2> QED
      BY <1>5, <2>1, <2>2, <2>4 DEF Call, AnswersInv
  <1>6. ASSUME NEW t \in Threads, Fetch(t) PROVE AnswersInv'
    <2>1. UNCHANGED <<commits, staging, request, held>>
      BY <1>6 DEF Fetch, managerVars
    <2>2. \A u \in Threads \ {t} : AnswersOf(u)'
      BY <1>6, <2>1, OthersKept DEF Fetch, AnswersInv, LockInv, LocksOK, VisibleParcels, VisibleTypes
    <2>3. Meets(result'[t], request'[t], commits'.parcels, commits'.types)
      BY <1>6, <2>1, FetchMeets DEF Fetch, AnswersInv
    <2>4. AnswersOf(t)'
      BY <1>6, <2>1, <2>3 DEF Fetch, AnswersInv, AnswersOf, LockInv, LocksOK
    <2> QED
      BY <1>6, <2>1, <2>2, <2>4 DEF Fetch, AnswersInv
  <1>7. ASSUME NEW t \in Threads, LockUpdate(t) \/ Begin(t) \/ ResolveNext(t) PROVE AnswersInv'
    <2>1. UNCHANGED <<commits, request, result, held>>
      BY <1>7 DEF LockUpdate, Begin, ResolveNext, managerVars, callVars
    <2>2. /\ \A u \in Threads \ {t} : pc'[u] = pc[u]
          /\ pc'[t] \in {"begin", "resolve"}
      BY <1>7 DEF LockUpdate, Begin, ResolveNext, LateResolve, callVars, LockInv, LocksOK
    <2>3. \A u \in Threads \ {t} : Loading(u) => LockUpdate(t)
      BY <1>7, OnlyOneLoads DEF Begin, ResolveNext, Loading
    <2>4. ASSUME NEW u \in Threads PROVE AnswersOf(u)'
      BY <1>7, <2>1, <2>2, <2>3, OthersKept
         DEF LockUpdate, managerVars, AnswersInv, Loading, VisibleParcels, VisibleTypes
    <2> QED
      BY <2>1, <2>4 DEF AnswersInv
  <1>8. ASSUME NEW t \in Threads, Succeed(t) PROVE AnswersInv'
    <2>1. UNCHANGED <<commits, staging, request, held>>
      BY <1>8 DEF Succeed, EndLoad
    <2>2. \A u \in Threads \ {t} : AnswersOf(u)'
      BY <1>8, <2>1, OthersKept DEF Succeed, AnswersInv, LockInv, LocksOK, VisibleParcels, VisibleTypes
    <2>3. Meets(result'[t], request'[t], VisibleParcels', VisibleTypes')
      BY <1>8, <2>1, FetchMeets
         DEF Succeed, Loaded, Answer, AnswersInv, VisibleParcels, VisibleTypes
    <2>4. AnswersOf(t)'
      BY <1>8, <2>1, <2>3 DEF Succeed, AnswersInv, AnswersOf, LockInv, LocksOK
    <2> QED
      BY <1>8, <2>1, <2>2, <2>4 DEF Succeed, AnswersInv
  <1>9. ASSUME NEW t \in Threads, Fail(t) \/ Refuse(t) PROVE AnswersInv'
    <2>1. UNCHANGED <<commits, request, held>> /\ result' = [result EXCEPT ![t] = Nil]
      BY <1>9 DEF Fail, Refuse, EndLoad
    <2>2. pc' = [pc EXCEPT ![t] = "deliver"] /\ pc[t] = "resolve"
      BY <1>9 DEF Fail, Refuse, EndLoad
    <2>3. \A u \in Threads \ {t} : ~Loading(u)
      BY <2>2, OnlyOneLoads DEF Loading
    <2>4. \A u \in Threads \ {t} : AnswersOf(u)'
      BY <2>1, <2>2, <2>3, OthersKept DEF AnswersInv, Loading, LockInv, LocksOK
    <2>5. AnswersOf(t)'
      BY <2>1, <2>2 DEF AnswersInv, AnswersOf, Meets, LockInv, LocksOK
    <2> QED
      BY <2>1, <2>4, <2>5 DEF AnswersInv
  <1>10. ASSUME NEW t \in Threads, CommitTypes(t) \/ CommitParcels(t) PROVE AnswersInv'
    <2>1. UNCHANGED <<request, result, held>>
      BY <1>10 DEF CommitTypes, CommitParcels
    <2>2. /\ pc[t] \in {"commit", "commitParcels"}
          /\ \/ pc' = [pc EXCEPT ![t] = "commitParcels"]
             \/ pc' = [pc EXCEPT ![t] = "deliver"] /\ CommitParcels(t)
      BY <1>10 DEF CommitTypes, CommitParcels
    <2>3. VisibleParcels' = VisibleParcels /\ VisibleTypes' = VisibleTypes
      BY <1>10 DEF CommitTypes, CommitParcels, VisibleParcels, VisibleTypes, LockInv, Record
    <2>4. CommitParcels(t) => commits'.parcels = VisibleParcels /\ commits'.types = VisibleTypes
      BY DEF CommitParcels, VisibleParcels, VisibleTypes, LockInv, Record
    <2>5. \A u \in Threads \ {t} : AnswersOf(u)'
      BY <2>1, <2>2, <2>3, OthersKept DEF AnswersInv, LockInv, LocksOK
    <2>6. AnswersOf(t)'
      BY <2>1, <2>2, <2>3, <2>4, CommitsGrow DEF AnswersInv, AnswersOf, LockInv, LocksOK
    <2> QED
      BY <2>1, <2>5, <2>6 DEF AnswersInv
  <1>11. ASSUME NEW t \in Threads, Deliver(t) PROVE AnswersInv'
    <2>1. UNCHANGED <<commits, staging, request, result>> /\ pc[t] = "deliver"
      BY <1>11 DEF Deliver, managerVars
    <2>2. \A u \in Threads \ {t} : AnswersOf(u)'
      BY <1>11, <2>1, OthersKept DEF Deliver, AnswersInv, LockInv, LocksOK, VisibleParcels, VisibleTypes
    <2>3. AnswersOf(t)'
      <3>1. /\ held[t] = [parcels |-> held[t].parcels, types |-> held[t].types]
            /\ DOMAIN held = Threads
        BY DEF AnswersInv, AnswersOf
      <3>2. \/ held'[t] = held[t]
            \/ /\ IsImport(request[t]) /\ result[t] # Nil
               /\ held'[t] = [parcels |-> held[t].parcels \cup {result[t]}, types |-> held[t].types]
            \/ /\ ~IsImport(request[t]) /\ result[t] # Nil
               /\ held'[t] = [parcels |-> held[t].parcels, types |-> held[t].types \cup {result[t]}]
        BY <1>11, <3>1 DEF Deliver
      <3>3. Meets(result[t], request[t], commits.parcels, commits.types)
        BY <2>1 DEF AnswersInv, AnswersOf
      <3>4. /\ held'[t] = [parcels |-> held'[t].parcels, types |-> held'[t].types]
            /\ held'[t].parcels \subseteq commits.parcels /\ held'[t].types \subseteq commits.types
        BY <3>1, <3>2, <3>3 DEF AnswersInv, AnswersOf, Meets
      <3> QED
        BY <1>11, <2>1, <3>3, <3>4 DEF Deliver, AnswersOf, LockInv, LocksOK
    <2> QED
      BY <1>11, <2>1, <2>2, <2>3 DEF Deliver, AnswersInv
  <1>12. CASE UNCHANGED vars
    BY <1>1, <1>12 DEF vars, managerVars, callVars
  <1> QED
    BY <1>2, <1>3, <1>4, <1>5, <1>6, <1>7, <1>8, <1>9, <1>10, <1>11, <1>12 DEF Next, Step

LEMMA AnswersInvHolds == Spec => []AnswersInv
  <1>1. Init => AnswersInv
    BY DEF Init, AnswersInv, AnswersOf, Meets
  <1> QED
    BY <1>1, AnswersInvNext, LockInvHolds, PTL DEF Spec

\* Where names are unique, what meets a request is what a look-up answers.
LEMMA MeetsIsFetched ==
  ASSUME NamesAreUnique, NEW x, NEW r, x # Nil, Meets(x, r, commits.parcels, commits.types)
  PROVE  x = Fetched(commits.parcels, commits.types, r) /\ ~Refused(x, r)
  <1>1. CASE IsImport(r)
    BY <1>1 DEF Meets, Fetched, Refused, NamesAreUnique, VisibleParcels
  <1>2. CASE ~IsImport(r)
    BY <1>2 DEF Meets, Fetched, Refused, NamesAreUnique, VisibleTypes
  <1> QED
    BY <1>1, <1>2

(***************************************************************************)
(* Contexts agree with the domain, and so with each other, on what every   *)
(* name means, also when two of them raced to load it; and a call answers  *)
(* nothing that does not conform to the suffix it asked for.               *)
(***************************************************************************)
THEOREM ContextsStayAgreed == Spec => []ContextsAgree
  <1>1. NamesInv => NamesAreUnique
    BY DEF NamesInv, NamesAreUnique, IsType, Key
  <1>2. NamesAreUnique /\ AnswersInv => ContextsAgree
    BY MeetsIsFetched DEF AnswersInv, AnswersOf, ContextsAgree
  <1> QED
    BY <1>1, <1>2, NamesInvHolds, AnswersInvHolds, PTL

--------------------------------------------------------------------------------
(* Checks *)

\* The link is the one its symbol asks for.
Follows(l) ==
    Key(l.to) = IF l.sym.path = Self THEN <<l.from.parcel.path, l.sym.name>>
                ELSE Want(l.from, l.sym)

\* Links follow their symbols as they are made; conformance is known of those
\* committed, and once a load has passed its checks.
CheckedInv ==
    /\ \A l \in VisibleLinks : Follows(l)
    /\ \A l \in staging.links : l.from \in staging.types
    /\ \A l \in commits.links : Conforms(l.to, l.sym.suff)
    /\ \A t \in commits.types : t.name \notin Unsatisfied[t.parcel.def]
    /\ \A t \in Threads :
          /\ Loading(t) /\ IsImport(request[t]) => staging.types = {} /\ pending = {}
          /\ pc[t] = "commit" => ChecksPass

LEMMA EarlyLinksFollow ==
  ASSUME NEW types, NEW l \in EarlyResolved(types)
  PROVE  Follows(l) /\ l.from \in types
  <1>1. PICK t \in types : l \in EarlyLinks(t)
    BY DEF EarlyResolved
  <1>2. PICK s \in EarlySyms(t) : l = [from |-> t, sym |-> s, to |-> EarlyTarget(t, s)]
    BY <1>1 DEF EarlyLinks
  <1>3. s.path = Self
    BY DEF EarlySyms
  <1>4. Key(EarlyTarget(t, s)) = <<t.parcel.path, s.name>>
    BY DEF Key, EarlyTarget
  <1> QED
    BY <1>2, <1>3, <1>4 DEF Follows

LEMMA LateLinksFollow ==
  ASSUME NamesInv, NEW type, NEW l \in LateLinks(type)
  PROVE  Follows(l) /\ l.from = type
  <1>1. PICK s \in LateSyms(type) :
           /\ Found(Want(type, s))
           /\ l = [from |-> type, sym |-> s, to |-> TypeAt(Want(type, s))]
    BY DEF LateLinks
  <1>2. s.path # Self
    BY DEF LateSyms, EarlySyms
  <1>3. ParcelAt(Want(type, s)[1]).path = Want(type, s)[1]
    BY <1>1, ParcelAtFinds DEF Found
  <1>4. Key(TypeAt(Want(type, s))) = Want(type, s)
    BY <1>3 DEF Key, TypeAt, Want
  <1> QED
    BY <1>1, <1>2, <1>4 DEF Follows

\* A stage whose new links follow keeps what CheckedInv says of links.
LEMMA StageFollows ==
  ASSUME CheckedInv, NEW wants, NEW newLinks, NEW resolved, NEW failed,
         Stage(wants, newLinks, resolved, failed), UNCHANGED commits,
         \A l \in newLinks : Follows(l) /\ l.from \in staging.types
  PROVE  /\ \A l \in VisibleLinks' : Follows(l)
         /\ \A l \in staging'.links : l.from \in staging'.types
  <1> DEFINE new == Generated(wants)
  <1>1. /\ staging'.types = staging.types \cup new
        /\ staging'.links = staging.links \cup newLinks \cup EarlyResolved(new)
    BY StageAdds
  <1>2. \A l \in EarlyResolved(new) : Follows(l) /\ l.from \in new
    BY EarlyLinksFollow
  <1> HIDE DEF new
  <1> QED
    BY <1>1, <1>2 DEF CheckedInv, VisibleLinks

LEMMA CheckedInvNext ==
  LockInv /\ NamesInv /\ ClosedInv /\ AnswersInv /\ CheckedInv /\ [Next]_vars => CheckedInv'
  <1> SUFFICES ASSUME LockInv, NamesInv, ClosedInv, AnswersInv, CheckedInv, [Next]_vars
               PROVE  CheckedInv'
    OBVIOUS
  <1> USE DEF Goto, Answers
  <1>1. ASSUME UNCHANGED <<commits, staging, pending>>,
               \A t \in Threads :
                  /\ Loading(t)' => Loading(t) /\ request'[t] = request[t]
                  /\ pc'[t] = "commit" => pc[t] = "commit"
        PROVE  CheckedInv'
    BY <1>1 DEF CheckedInv, VisibleLinks, ChecksPass, ConstraintsHold, RefsConform
  <1>2. CASE UNCHANGED vars
    BY <1>1, <1>2 DEF vars, managerVars, callVars, Loading
  <1>3. ASSUME NEW b \in Bindings, BindParcelDef(b[1], b[2]) PROVE CheckedInv'
    BY <1>1, <1>3 DEF BindParcelDef, callVars, Loading
  <1>4. ASSUME NEW r \in RedirectCalls, AddRedirect(r[1], r[2], r[3]) PROVE CheckedInv'
    BY <1>1, <1>4 DEF AddRedirect, callVars, Loading
  <1>5. ASSUME NEW t \in Visitors, BeginVisit(t) \/ Visit(t) \/ EndVisit(t) PROVE CheckedInv'
    BY <1>1, <1>5 DEF BeginVisit, Visit, EndVisit, managerVars, callVars, Loading
  <1>6. ASSUME NEW t \in Threads, NEW r \in Requests, Call(t, r) PROVE CheckedInv'
    BY <1>1, <1>6 DEF Call, managerVars, Loading, LockInv, LocksOK, AnswersInv
  <1>7. ASSUME NEW t \in Threads, Fetch(t) \/ Deliver(t) PROVE CheckedInv'
    BY <1>1, <1>7 DEF Fetch, Deliver, managerVars, Loading, LockInv, LocksOK
  <1>8. ASSUME NEW t \in Threads, LockUpdate(t) PROVE CheckedInv'
    <2>1. staging = EmptyArea /\ pending = {}
      BY <1>8 DEF LockUpdate, LockInv, StagingIsPrivate
    <2>2. UNCHANGED <<commits, staging, pending, request>> /\ pc' = [pc EXCEPT ![t] = "begin"]
      BY <1>8 DEF LockUpdate, managerVars
    <2> QED
      BY <2>1, <2>2 DEF CheckedInv, VisibleLinks, ChecksPass, ConstraintsHold, RefsConform,
                        Loading, LockInv, LocksOK, EmptyArea
  <1>9. ASSUME NEW t \in Threads, Begin(t) \/ ResolveNext(t) PROVE CheckedInv'
    <2>1. /\ UNCHANGED <<commits, request>>
          /\ Loading(t) /\ \A u \in Threads \ {t} : ~Loading(u)
          /\ \A u \in Threads \ {t} : pc'[u] = pc[u]
          /\ pc'[t] = "resolve"
      BY <1>9, OnlyOneLoads DEF Begin, ResolveNext, callVars, Loading, LockInv, LocksOK
    <2>2. ASSUME \A l \in VisibleLinks' : Follows(l),
                 \A l \in staging'.links : l.from \in staging'.types,
                 IsImport(request[t]) => staging'.types = {} /\ pending' = {}
          PROVE  CheckedInv'
      BY <2>1, <2>2 DEF CheckedInv, Loading
    <2>3. CASE Begin(t) /\ IsImport(request[t])
      <3>1. /\ staging = EmptyArea /\ pending = {}
            /\ staging'.types = {} /\ staging'.links = {} /\ pending' = {}
        BY <2>3 DEF Begin, InitialImport, LockInv, EmptyArea
      <3> QED
        BY <2>1, <2>2, <3>1 DEF CheckedInv, VisibleLinks
    <2>4. CASE Begin(t) /\ ~IsImport(request[t])
      <3>1. PICK wants, links, resolved, failed :
               Stage(wants, links, resolved, failed) /\ links = {}
        BY <2>4 DEF Begin, InitialLoad
      <3> QED
        BY <2>1, <2>2, <2>4, <3>1, StageFollows
    <2>5. CASE ResolveNext(t)
      <3>1. PICK type \in pending : LateResolve(type)
        BY <2>5 DEF ResolveNext
      <3>2. PICK wants, links, resolved, failed :
               Stage(wants, links, resolved, failed) /\ links = LateLinks(type)
        BY <3>1 DEF LateResolve
      <3>3. \A l \in links : Follows(l) /\ l.from \in staging.types
        BY <3>2, LateLinksFollow DEF ClosedInv
      <3>4. ~IsImport(request[t])
        BY <2>1 DEF CheckedInv
      <3> QED
        BY <2>1, <2>2, <3>2, <3>3, <3>4, StageFollows
    <2> QED
      BY <1>9, <2>3, <2>4, <2>5
  <1>10. ASSUME NEW t \in Threads, Succeed(t) PROVE CheckedInv'
    <2>1. /\ UNCHANGED <<commits, staging, request>> /\ pending' = {}
          /\ Loading(t) /\ pc' = [pc EXCEPT ![t] = "commit"] /\ Passed(t)
      BY <1>10 DEF Succeed, EndLoad, Loading
    <2>2. ChecksPass
      BY <2>1 DEF Passed, CheckedInv, ChecksPass, ConstraintsHold, RefsConform
    <2>3. ChecksPass'
      BY <2>1, <2>2 DEF ChecksPass, ConstraintsHold, RefsConform
    <2> QED
      BY <2>1, <2>3 DEF CheckedInv, VisibleLinks, Loading, LockInv, LocksOK
  <1>11. ASSUME NEW t \in Threads, Fail(t) \/ Refuse(t) PROVE CheckedInv'
    <2>1. /\ staging' = EmptyArea /\ UNCHANGED <<commits, request>> /\ pending' = {}
          /\ pc' = [pc EXCEPT ![t] = "deliver"]
      BY <1>11 DEF Fail, Refuse, EndLoad
    <2> QED
      BY <2>1 DEF CheckedInv, VisibleLinks, Loading, LockInv, LocksOK, EmptyArea,
                  ChecksPass, ConstraintsHold, RefsConform
  <1>12. ASSUME NEW t \in Threads, CommitTypes(t) PROVE CheckedInv'
    <2>1. /\ commits'.types = VisibleTypes /\ commits'.links = VisibleLinks
          /\ staging'.types = {} /\ staging'.links = {} /\ UNCHANGED request
          /\ pending' = {} /\ pc' = [pc EXCEPT ![t] = "commitParcels"]
      BY <1>12 DEF CommitTypes, LockInv, Record, VisibleTypes, VisibleLinks
    <2>2. ChecksPass
      BY <1>12 DEF CommitTypes, CheckedInv
    <2>3. /\ \A l \in commits'.links : Follows(l) /\ Conforms(l.to, l.sym.suff)
          /\ \A u \in commits'.types : u.name \notin Unsatisfied[u.parcel.def]
      BY <2>1, <2>2 DEF CheckedInv, ChecksPass, ConstraintsHold, RefsConform, VisibleLinks, VisibleTypes
    <2>4. \A u \in Threads : pc'[u] # "commit"
      <3>1. \A u \in Threads \ {t} : ~Loading(u)
        BY <1>12, OnlyOneLoads DEF CommitTypes, Loading
      <3> QED
        BY <2>1, <3>1 DEF Loading, LockInv, LocksOK
    <2> QED
      BY <2>1, <2>3, <2>4 DEF CheckedInv, VisibleLinks
  <1>13. ASSUME NEW t \in Threads, CommitParcels(t) PROVE CheckedInv'
    <2>1. /\ commits'.types = commits.types /\ commits'.links = commits.links
          /\ staging'.types = {} /\ staging'.links = {} /\ UNCHANGED request
          /\ pending' = {} /\ pc' = [pc EXCEPT ![t] = "deliver"]
      BY <1>13 DEF CommitParcels, LockInv, Record
    <2> QED
      BY <2>1 DEF CheckedInv, VisibleLinks, Loading, LockInv, LocksOK,
                  ChecksPass, ConstraintsHold, RefsConform
  <1> QED
    BY <1>2, <1>3, <1>4, <1>5, <1>6, <1>7, <1>8, <1>9, <1>10, <1>11, <1>12, <1>13 DEF Next, Step

LEMMA CheckedInvHolds == Spec => []CheckedInv
  <1>1. Init => CheckedInv
    BY DEF Init, CheckedInv, VisibleLinks, EmptyArea, Loading
  <1> QED
    BY <1>1, CheckedInvNext, LockInvHolds, NamesInvHolds, ClosedInvHolds, AnswersInvHolds, PTL
       DEF Spec

(***************************************************************************)
(* No committed link leads anywhere but where the redirects locked for its *)
(* parcel say, to a type that conforms to its symbol's call suffix; and no *)
(* committed type misses its constraints. An import skips the checks only  *)
(* because it stages no types.                                             *)
(***************************************************************************)
THEOREM CommittedStaysChecked == Spec => []CommittedIsChecked
  <1>1. CheckedInv => CommittedIsChecked
    BY DEF CheckedInv, CommittedIsChecked, Follows, VisibleLinks
  <1> QED
    BY <1>1, CheckedInvHolds, PTL

--------------------------------------------------------------------------------
(* Types *)

Link(l) == DOMAIN l = {"from", "sym", "to"}

\* What TypeOK says beyond LockInv and AnswersInv.
ShapeInv ==
    /\ DOMAIN binds \subseteq Paths /\ \A p \in DOMAIN binds : binds[p] \in Defs
    /\ \A l \in VisibleLinks : Link(l)
    /\ failFlag \in BOOLEAN
    /\ visiting \subseteq Visitors /\ DOMAIN visited = Threads
    /\ request \in [Threads -> Requests \cup {Nil}]

LEMMA StageLinks ==
  ASSUME NEW wants, NEW newLinks, NEW resolved, NEW failed,
         Stage(wants, newLinks, resolved, failed), UNCHANGED commits,
         \A l \in VisibleLinks : Link(l), \A l \in newLinks : Link(l)
  PROVE  (\A l \in VisibleLinks' : Link(l)) /\ failFlag' \in BOOLEAN
  <1>1. \A l \in EarlyResolved(Generated(wants)) : Link(l)
    BY DEF EarlyResolved, EarlyLinks, Link
  <1>2. staging'.links = staging.links \cup newLinks \cup EarlyResolved(Generated(wants))
    BY StageAdds
  <1>3. failFlag' \in BOOLEAN
    BY DEF Stage
  <1> QED
    BY <1>1, <1>2, <1>3 DEF VisibleLinks

LEMMA ShapeInvNext == LockInv /\ ShapeInv /\ [Next]_vars => ShapeInv'
  <1> SUFFICES ASSUME LockInv, ShapeInv, [Next]_vars PROVE ShapeInv'
    OBVIOUS
  <1>1. CASE UNCHANGED vars
    BY <1>1 DEF ShapeInv, VisibleLinks, vars, managerVars, visitVars, callVars
  <1>2. ASSUME NEW b \in Bindings, BindParcelDef(b[1], b[2]) PROVE ShapeInv'
    BY <1>2, RequestAssumption DEF BindParcelDef, Assign, ShapeInv, VisibleLinks, visitVars, callVars
  <1>3. ASSUME NEW r \in RedirectCalls, AddRedirect(r[1], r[2], r[3]) PROVE ShapeInv'
    BY <1>3 DEF AddRedirect, ShapeInv, VisibleLinks, visitVars, callVars
  <1>4. ASSUME NEW t \in Visitors, BeginVisit(t) \/ Visit(t) \/ EndVisit(t) PROVE ShapeInv'
    BY <1>4 DEF BeginVisit, Visit, EndVisit, ShapeInv, VisibleLinks, managerVars, callVars
  <1>5. ASSUME NEW t \in Threads, NEW r \in Requests, Call(t, r) PROVE ShapeInv'
    BY <1>5 DEF Call, ShapeInv, VisibleLinks, managerVars, visitVars
  <1>6. ASSUME NEW t \in Threads, Fetch(t) \/ LockUpdate(t) \/ Deliver(t) PROVE ShapeInv'
    BY <1>6 DEF Fetch, LockUpdate, Deliver, ShapeInv, VisibleLinks, managerVars, visitVars
  <1>7. ASSUME NEW t \in Threads, Begin(t) \/ ResolveNext(t) PROVE ShapeInv'
    <2>1. UNCHANGED <<binds, commits, visiting, visited, request>>
      BY <1>7 DEF Begin, ResolveNext, visitVars, callVars
    <2>2. ASSUME (\A l \in VisibleLinks' : Link(l)) /\ failFlag' \in BOOLEAN PROVE ShapeInv'
      BY <2>1, <2>2 DEF ShapeInv
    <2>3. CASE \E path : InitialImport(path)
      BY <2>1, <2>2, <2>3 DEF InitialImport, ShapeInv, VisibleLinks, LockInv, Record
    <2>4. CASE \E path, name : InitialLoad(path, name)
      <3>1. PICK wants, links, resolved, failed :
               Stage(wants, links, resolved, failed) /\ links = {}
        BY <2>4 DEF InitialLoad
      <3> QED
        BY <2>1, <2>2, <3>1, StageLinks DEF ShapeInv
    <2>5. CASE \E type \in pending : LateResolve(type)
      <3>1. PICK type, wants, links, resolved, failed :
               Stage(wants, links, resolved, failed) /\ links = LateLinks(type)
        BY <2>5 DEF LateResolve
      <3>2. \A l \in links : Link(l)
        BY <3>1 DEF LateLinks, Link
      <3> QED
        BY <2>1, <2>2, <3>1, <3>2, StageLinks DEF ShapeInv
    <2> QED
      BY <1>7, <2>3, <2>4, <2>5 DEF Begin, ResolveNext
  <1>8. ASSUME NEW t \in Threads, Succeed(t) \/ Fail(t) \/ Refuse(t) PROVE ShapeInv'
    <2>1. failFlag' = (failFlag \/ ~Passed(t))
      BY <1>8 DEF Succeed, Fail, Refuse, EndLoad
    <2>2. failFlag' \in BOOLEAN
      BY <2>1
    <2>3. UNCHANGED <<binds, commits, visiting, visited, request>>
      BY <1>8 DEF Succeed, Fail, Refuse, EndLoad, visitVars
    <2>4. staging' = staging \/ staging' = EmptyArea
      BY <1>8 DEF Succeed, Fail, Refuse
    <2> QED
      BY <2>2, <2>3, <2>4 DEF ShapeInv, VisibleLinks, EmptyArea
  <1>9. ASSUME NEW t \in Threads, CommitTypes(t) \/ CommitParcels(t) PROVE ShapeInv'
    <2>1. VisibleLinks' = VisibleLinks
      BY <1>9 DEF CommitTypes, CommitParcels, VisibleLinks, LockInv, Record
    <2> QED
      BY <1>9, <2>1 DEF CommitTypes, CommitParcels, ShapeInv, visitVars
  <1> QED
    BY <1>1, <1>2, <1>3, <1>4, <1>5, <1>6, <1>7, <1>8, <1>9 DEF Next, Step

LEMMA ShapeInvHolds == Spec => []ShapeInv
  <1>1. Init => ShapeInv
    <2> SUFFICES ASSUME Init PROVE ShapeInv
      OBVIOUS
    <2>1. DOMAIN binds \subseteq Paths /\ \A p \in DOMAIN binds : binds[p] \in Defs
      BY PathAssumption, DefAssumption DEF Init
    <2>2. VisibleLinks = {}
      BY DEF Init, EmptyArea, VisibleLinks
    <2>3. failFlag \in BOOLEAN /\ visiting = {} /\ DOMAIN visited = Threads
      BY DEF Init
    <2>4. request \in [Threads -> Requests \cup {Nil}]
      BY DEF Init
    <2> QED
      BY <2>1, <2>2, <2>3, <2>4 DEF ShapeInv
  <1> QED
    BY <1>1, ShapeInvNext, LockInvHolds, PTL DEF Spec

\* The state keeps its shape: in particular no context ever holds a null.
THEOREM TypesStayOK == Spec => []TypeOK
  <1>1. LockInv /\ AnswersInv /\ ShapeInv => TypeOK
    <2> SUFFICES ASSUME LockInv, AnswersInv, ShapeInv PROVE TypeOK
      OBVIOUS
    <2>1. IsArea(commits) /\ IsArea(staging)
      BY DEF LockInv, Record, ShapeInv, VisibleLinks, Link, IsArea
    <2>2. held \in [Threads -> [parcels : SUBSET VisibleParcels, types : SUBSET VisibleTypes]]
      BY DEF AnswersInv, AnswersOf, VisibleParcels, VisibleTypes
    <2> QED
      BY <2>1, <2>2 DEF LockInv, LocksOK, AnswersInv, ShapeInv, TypeOK
  <1> QED
    BY <1>1, LockInvHolds, AnswersInvHolds, ShapeInvHolds, PTL

--------------------------------------------------------------------------------
(* Refinement *)

\* What a commit publishes is a complete world.
LEMMA PublishedIsComplete ==
  ASSUME NamesInv', ClosedInv', staging'.types = {}, writer' # NoThread
  PROVE  Promise!Complete(Published)'
  <1>1. /\ Published'.parcels = VisibleParcels'
        /\ Published'.types = commits'.types /\ Published'.types = VisibleTypes'
        /\ commits'.links \subseteq Published'.links
    BY DEF Published, VisibleTypes
  <1>2. Promise!Unambiguous(Published)'
    BY <1>1 DEF NamesInv, IsType, Promise!Unambiguous, Promise!Key
  <1>3. \A t \in Published'.types : t.parcel \in Published'.parcels
    BY <1>1 DEF NamesInv
  <1>4. \A t \in Published'.types : Promise!Group(t) \subseteq Published'.types
    BY <1>1 DEF ClosedInv, Group, Promise!Group
  <1>5. \A t \in Published'.types : \A s \in Promise!SymsOf(t) :
           \E l \in Published'.links : l.from = t /\ l.sym = s /\ l.to \in Published'.types
    BY <1>1 DEF ClosedInv, LinkedWithin, SymsOf, Promise!SymsOf
  <1> QED
    BY <1>2, <1>3, <1>4, <1>5 DEF Promise!Complete, Promise!SelfContained

\* A step that neither commits nor delivers changes nothing a thread can see.
LEMMA QuietSteps ==
  ASSUME LockInv, AnswersInv, [Next]_vars,
         \A t \in Threads : ~CommitTypes(t) /\ ~CommitParcels(t) /\ ~Deliver(t)
  PROVE  UNCHANGED <<Published, Given>>
  <1>1. CASE UNCHANGED <<commits, staging, writer, held>>
    BY <1>1 DEF Published, Given, VisibleParcels, VisibleTypes
  <1>2. ASSUME NEW t \in Threads,
               Begin(t) \/ ResolveNext(t) \/ Succeed(t) \/ Fail(t) \/ Refuse(t)
        PROVE  UNCHANGED <<Published, Given>>
    <2>1. UNCHANGED <<commits, writer, held>> /\ pc[t] \in {"begin", "resolve"}
      BY <1>2 DEF Begin, ResolveNext, Succeed, Fail, Refuse, EndLoad, lockVars, callVars
    <2> QED
      BY <1>2, <2>1, ThreadAssumption
         DEF Begin, ResolveNext, Succeed, Fail, Refuse, EndLoad, lockVars, callVars,
             LockInv, LocksOK, StagingIsPrivate, Loading, Published, Given
  <1>3. \/ UNCHANGED <<commits, staging, writer, held>>
        \/ \E t \in Threads : Begin(t) \/ ResolveNext(t) \/ Succeed(t) \/ Fail(t) \/ Refuse(t)
    BY DEF Next, Step, vars, managerVars, lockVars, callVars, BindParcelDef, AddRedirect,
           BeginVisit, Visit, EndVisit, Call, Fetch, LockUpdate
  <1> QED
    BY <1>1, <1>2, <1>3

\* The first half of a commit publishes all of it; the second shows nothing new.
LEMMA CommitPublishes ==
  ASSUME LockInv, NamesInv', ClosedInv', NEW t \in Threads,
         CommitTypes(t) \/ CommitParcels(t)
  PROVE  Promise!Publish \/ UNCHANGED <<Published, Given>>
  <1>1. UNCHANGED Given
    BY DEF CommitTypes, CommitParcels, Given
  <1>2. CASE CommitTypes(t)
    <2>1. writer = NoThread /\ writer' # NoThread
      BY <1>2, ThreadAssumption DEF CommitTypes
    <2>2. staging'.types = {} /\ staging'.links = {}
      BY <1>2 DEF CommitTypes, LockInv, Record
    <2>3. Promise!Complete(Published)'
      BY <2>1, <2>2, PublishedIsComplete
    <2>4. /\ commits.parcels \subseteq VisibleParcels'
          /\ commits.types \subseteq VisibleTypes'
          /\ commits.links \subseteq commits'.links \cup staging'.links
      BY <1>2 DEF CommitTypes, LockInv, Record, VisibleParcels, VisibleTypes
    <2>5. Promise!Extends(Published', Published)
      BY <2>1, <2>4 DEF Promise!Extends, Published
    <2> QED
      BY <1>1, <2>3, <2>5 DEF Promise!Publish
  <1>3. CASE CommitParcels(t)
    <2>1. writer # NoThread /\ writer' = NoThread
      BY <1>3, ThreadAssumption DEF CommitParcels, LockInv, StagingIsPrivate
    <2>2. staging.types = {} /\ staging.links = {}
      BY <1>3 DEF CommitParcels, LockInv
    <2>3. commits' = [parcels |-> VisibleParcels, types |-> commits.types, links |-> commits.links]
      BY <1>3 DEF CommitParcels, LockInv, Record, VisibleParcels
    <2>4. Published' = Published
      BY <2>1, <2>2, <2>3 DEF Published, VisibleTypes
    <2> QED
      BY <1>1, <2>4
  <1> QED
    BY <1>2, <1>3

\* What a context is given has been published.
LEMMA DeliverGives ==
  ASSUME LockInv, AnswersInv, NEW t \in Threads, Deliver(t)
  PROVE  Promise!Give(t) \/ UNCHANGED <<Published, Given>>
  <1>1. UNCHANGED Published
    BY DEF Deliver, managerVars, lockVars, Published, VisibleParcels, VisibleTypes
  <1>2. /\ held[t] = [parcels |-> held[t].parcels, types |-> held[t].types]
        /\ DOMAIN held = Threads
        /\ Meets(result[t], request[t], commits.parcels, commits.types)
    BY DEF AnswersInv, AnswersOf, Deliver
  <1>3. CASE result[t] = Nil
    BY <1>1, <1>3 DEF Deliver, Given
  <1>4. CASE result[t] # Nil
    <2>1. result[t] \in Published.parcels \cup Published.types
      BY <1>2, <1>4 DEF Meets, Published, VisibleParcels, VisibleTypes
    <2>2. /\ held'[t].parcels \cup held'[t].types
                = (held[t].parcels \cup held[t].types) \cup {result[t]}
          /\ \A u \in Threads \ {t} : held'[u] = held[u]
      BY <1>2, <1>4 DEF Deliver
    <2>3. Given' = [Given EXCEPT ![t] = @ \cup {result[t]}]
      BY <2>2 DEF Given
    <2> QED
      BY <1>1, <2>1, <2>3 DEF Promise!Give
  <1> QED
    BY <1>3, <1>4

(***************************************************************************)
(* Seen by the threads, the locked, staged and queued loads of DomainLoader*)
(* are single atomic publications of complete worlds (LoadedWorld).        *)
(***************************************************************************)
THEOREM LoaderRefines == Spec => ImplementsLoadedWorld
  <1>1. Init => Promise!Init
    BY DEF Init, Promise!Init, Published, Given, EmptyArea, Promise!EmptyArea
  <1>2. ASSUME LockInv, NamesInv', ClosedInv', AnswersInv, [Next]_vars
        PROVE  [Promise!Next]_<<Published, Given>>
    <2>1. CASE \E t \in Threads : CommitTypes(t) \/ CommitParcels(t)
      BY <1>2, <2>1, CommitPublishes DEF Promise!Next
    <2>2. CASE \E t \in Threads : Deliver(t)
      BY <1>2, <2>2, DeliverGives DEF Promise!Next
    <2>3. CASE \A t \in Threads : ~CommitTypes(t) /\ ~CommitParcels(t) /\ ~Deliver(t)
      BY <1>2, <2>3, QuietSteps
    <2> QED
      BY <2>1, <2>2, <2>3
  <1> QED
    BY <1>1, <1>2, LockInvHolds, NamesInvHolds, ClosedInvHolds, AnswersInvHolds, PTL
       DEF Spec, ImplementsLoadedWorld, Promise!Spec

================================================================================
