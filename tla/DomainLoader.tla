------------------------------ MODULE DomainLoader ------------------------------
(***************************************************************************)
(* The loader of a domain shared by threads, and the loaders of the        *)
(* contexts (one per thread) downstream of it (Yama/internal/Loader.cpp).  *)
(*                                                                         *)
(* updateLock guards bindings, redirects, staging and the LoadManager;     *)
(* accessLock guards commits, shared for readers and exclusive to commit.  *)
(* A call looks in its context, then in commits under a shared lock, lets  *)
(* go of it, and only then takes updateLock to import or load.             *)
(*                                                                         *)
(* NDEBUG build: the assertions of LoadManager are stated as properties.   *)
(* DmLoader::reset and CtxLoader::reset, which nothing calls, are left out.*)
(***************************************************************************)
EXTENDS LoadManager

CONSTANTS
    Threads,
    NoThread,
    Visitors,       \* threads that call ymDm_ForEachParcel
    Requests,       \* [path, name, suff] asked for
    NoName,         \* the name in a request to import a path
    Bindings,       \* <<path, def>> pairs bound while the threads run
    RedirectCalls,  \* <<subject, before, after>> added while they run
    Nil

ASSUME ThreadAssumption == NoThread \notin Threads /\ Visitors \subseteq Threads

ASSUME RequestAssumption ==
    /\ NoName \notin Names
    /\ \A r \in Requests : r.path \in Paths /\ r.name \in Names \cup {NoName}
    /\ Bindings \subseteq Paths \X Defs

VARIABLES
    updateLock,     \* the thread that holds _updateLock, or NoThread
    writer,         \* the thread that holds _accessLock exclusively, or NoThread
    visiting,       \* threads inside forEachParcel, which share _accessLock
    visited,        \* the parcels each of them has been called back with
    pc,             \* where each thread is in import or load
    request,        \* what it asked for
    result,         \* what DmLoader, or the context, answers
    held            \* _commits of each context's CtxLoader

lockVars == <<updateLock, writer>>
visitVars == <<visiting, visited>>
callVars == <<pc, request, result, held>>
vars == <<managerVars, lockVars, visitVars, callVars>>

IsImport(r) == r.name = NoName
RequestKey(r) == <<r.path, r.name>>

\* Section::fetch in an area that has no upstream, or Nil.
Fetched(parcels, types, r) ==
    IF IsImport(r)
    THEN IF \E p \in parcels : p.path = r.path
         THEN CHOOSE p \in parcels : p.path = r.path ELSE Nil
    ELSE IF \E t \in types : Key(t) = RequestKey(r)
         THEN CHOOSE t \in types : Key(t) = RequestKey(r) ELSE Nil

\* A type found under the name that does not conform to the suffix is refused.
Refused(found, r) == ~IsImport(r) /\ found # Nil /\ ~Conforms(found, r.suff)
Answer(found, r) == IF Refused(found, r) THEN Nil ELSE found

Goto(t, label) == pc' = [pc EXCEPT ![t] = label]
Answers(t, x) == result' = [result EXCEPT ![t] = x]

Init ==
    /\ binds = [p \in {YamaPath} |-> YamaDef]
    /\ redirects = NoRedirects
    /\ commits = EmptyArea
    /\ staging = EmptyArea
    /\ pending = {}
    /\ failFlag = FALSE
    /\ updateLock = NoThread
    /\ writer = NoThread
    /\ visiting = {}
    /\ visited = [t \in Threads |-> {}]
    /\ pc = [t \in Threads |-> "idle"]
    /\ request = [t \in Threads |-> Nil]
    /\ result = [t \in Threads |-> Nil]
    /\ held = [t \in Threads |-> [parcels |-> {}, types |-> {}]]

--------------------------------------------------------------------------------
(* Calls that set up the domain *)

\* DmLoader::bindParcelDef; a later binding of a path overwrites an earlier one.
BindParcelDef(path, def) ==
    /\ updateLock = NoThread
    /\ path # YamaPath
    /\ binds' = Assign(binds, path, def)
    /\ UNCHANGED <<redirects, commits, staging, pending, failFlag, lockVars, visitVars, callVars>>

\* DmLoader::addRedirect.
AddRedirect(subject, before, after) ==
    /\ updateLock = NoThread
    /\ redirects' = Add(redirects, subject, before, after)
    /\ UNCHANGED <<binds, commits, staging, pending, failFlag, lockVars, visitVars, callVars>>

--------------------------------------------------------------------------------
(* DmLoader::forEachParcel *)

BeginVisit(t) ==
    /\ pc[t] = "idle" /\ t \notin visiting
    /\ writer = NoThread
    /\ visiting' = visiting \cup {t}
    /\ visited' = [visited EXCEPT ![t] = {}]
    /\ UNCHANGED <<managerVars, lockVars, callVars>>

Visit(t) ==
    /\ t \in visiting
    /\ \E p \in commits.parcels \ visited[t] :
          visited' = [visited EXCEPT ![t] = @ \cup {p}]
    /\ UNCHANGED <<managerVars, lockVars, visiting, callVars>>

EndVisit(t) ==
    /\ t \in visiting
    /\ commits.parcels \subseteq visited[t]
    /\ visiting' = visiting \ {t}
    /\ UNCHANGED <<managerVars, lockVars, visited, callVars>>

--------------------------------------------------------------------------------
(* import and load *)

\* CtxLoader: what the context already holds is answered at once.
Call(t, r) ==
    LET mine == Fetched(held[t].parcels, held[t].types, r)
    IN  /\ pc[t] = "idle" /\ t \notin visiting
        /\ request' = [request EXCEPT ![t] = r]
        /\ Answers(t, Answer(mine, r))
        /\ Goto(t, IF mine = Nil THEN "fetch" ELSE "idle")
        /\ UNCHANGED <<managerVars, lockVars, visitVars, held>>

\* Fault: fetchType does not check the call suffix.
FetchAnySignature(t) ==
    LET found == Fetched(commits.parcels, commits.types, request[t])
    IN  /\ pc[t] = "fetch"
        /\ writer = NoThread
        /\ Answers(t, found)
        /\ Goto(t, IF found = Nil THEN "lock" ELSE "deliver")
        /\ UNCHANGED <<managerVars, lockVars, visitVars, request, held>>

\* fetchParcel or fetchType, under a shared accessLock.
Fetch(t) ==
    LET found == Fetched(commits.parcels, commits.types, request[t])
    IN  /\ pc[t] = "fetch"
        /\ writer = NoThread
        /\ Answers(t, Answer(found, request[t]))
        /\ Goto(t, IF found = Nil THEN "lock" ELSE "deliver")
        /\ UNCHANGED <<managerVars, lockVars, visitVars, request, held>>

LockUpdate(t) ==
    /\ pc[t] = "lock"
    /\ updateLock = NoThread
    /\ updateLock' = t
    /\ Goto(t, "begin")
    /\ UNCHANGED <<managerVars, writer, visitVars, request, result, held>>

Begin(t) ==
    /\ pc[t] = "begin"
    /\ IF IsImport(request[t])
       THEN InitialImport(request[t].path)
       ELSE InitialLoad(request[t].path, request[t].name)
    /\ Goto(t, "resolve")
    /\ UNCHANGED <<binds, redirects, commits, lockVars, visitVars, request, result, held>>

ResolveNext(t) ==
    /\ pc[t] = "resolve"
    /\ \E type \in pending : LateResolve(type)
    /\ UNCHANGED <<binds, redirects, commits, lockVars, visitVars, callVars>>

(***************************************************************************)
(* The end of LoadManager::import or load, which flushes the queue, and    *)
(* the suffix check of DmLoader::load. A staging area that is not to be    *)
(* committed is discarded and the lock released.                           *)
(***************************************************************************)
Loaded(t) == Fetched(VisibleParcels, VisibleTypes, request[t])
Passed(t) == IsImport(request[t]) \/ ChecksPass

EndLoad(t) ==
    /\ pc[t] = "resolve"
    /\ QueueDone
    /\ pending' = {}
    /\ failFlag' = (failFlag \/ ~Passed(t))
    /\ UNCHANGED <<binds, redirects, writer, visitVars, request, held>>

Succeed(t) ==
    /\ EndLoad(t)
    /\ ~failFlag /\ Passed(t) /\ ~Refused(Loaded(t), request[t])
    /\ Answers(t, Loaded(t)) /\ Goto(t, "commit")
    /\ UNCHANGED <<commits, staging, updateLock>>

\* Fault: discard propagates upstream.
FailDiscardsUpstream(t) ==
    /\ EndLoad(t)
    /\ failFlag \/ ~Passed(t)
    /\ Answers(t, Nil) /\ Goto(t, "deliver")
    /\ staging' = EmptyArea /\ commits' = EmptyArea /\ updateLock' = NoThread

Fail(t) ==
    /\ EndLoad(t)
    /\ failFlag \/ ~Passed(t)
    /\ Answers(t, Nil) /\ Goto(t, "deliver")
    /\ staging' = EmptyArea /\ updateLock' = NoThread
    /\ UNCHANGED commits

\* Fault: a load refused for its suffix leaves its staging area behind.
RefuseKeepsStaging(t) ==
    /\ EndLoad(t)
    /\ ~failFlag /\ Passed(t) /\ Refused(Loaded(t), request[t])
    /\ Answers(t, Nil) /\ Goto(t, "deliver")
    /\ updateLock' = NoThread
    /\ UNCHANGED <<commits, staging>>

\* Fault: the lock is not released when a load is refused for its suffix.
RefuseKeepsLock(t) ==
    /\ EndLoad(t)
    /\ ~failFlag /\ Passed(t) /\ Refused(Loaded(t), request[t])
    /\ Answers(t, Nil) /\ Goto(t, "deliver")
    /\ staging' = EmptyArea
    /\ UNCHANGED <<commits, updateLock>>

Refuse(t) ==
    /\ EndLoad(t)
    /\ ~failFlag /\ Passed(t) /\ Refused(Loaded(t), request[t])
    /\ Answers(t, Nil) /\ Goto(t, "deliver")
    /\ staging' = EmptyArea /\ updateLock' = NoThread
    /\ UNCHANGED commits

\* Fault: the commit does not wait for visitors.
CommitTypesShared(t) ==
    /\ pc[t] = "commit"
    /\ writer = NoThread
    /\ writer' = t
    /\ commits' = [commits EXCEPT !.types = @ \cup staging.types, !.links = @ \cup staging.links]
    /\ staging' = [staging EXCEPT !.types = {}, !.links = {}]
    /\ Goto(t, "commitParcels")
    /\ UNCHANGED <<binds, redirects, pending, failFlag, updateLock, visitVars, request, result, held>>

\* Fault: accessLock is let go of between the two sections.
CommitTypesApart(t) ==
    /\ pc[t] = "commit"
    /\ writer = NoThread /\ visiting = {}
    /\ UNCHANGED writer
    /\ commits' = [commits EXCEPT !.types = @ \cup staging.types, !.links = @ \cup staging.links]
    /\ staging' = [staging EXCEPT !.types = {}, !.links = {}]
    /\ Goto(t, "commitParcels")
    /\ UNCHANGED <<binds, redirects, pending, failFlag, updateLock, visitVars, request, result, held>>

\* Area::commitOrDiscard takes accessLock exclusively, then commits types ...
CommitTypes(t) ==
    /\ pc[t] = "commit"
    /\ writer = NoThread /\ visiting = {}
    /\ writer' = t
    /\ commits' = [commits EXCEPT !.types = @ \cup staging.types, !.links = @ \cup staging.links]
    /\ staging' = [staging EXCEPT !.types = {}, !.links = {}]
    /\ Goto(t, "commitParcels")
    /\ UNCHANGED <<binds, redirects, pending, failFlag, updateLock, visitVars, request, result, held>>

\* ... and parcels, and both locks go.
CommitParcels(t) ==
    /\ pc[t] = "commitParcels"
    /\ commits' = [commits EXCEPT !.parcels = @ \cup staging.parcels]
    /\ staging' = [staging EXCEPT !.parcels = {}]
    /\ writer' = NoThread
    /\ updateLock' = NoThread
    /\ Goto(t, "deliver")
    /\ UNCHANGED <<binds, redirects, pending, failFlag, visitVars, request, result, held>>

\* Fault: a null answer is pushed too.
DeliverNull(t) ==
    /\ pc[t] = "deliver"
    /\ held' = IF IsImport(request[t])
               THEN [held EXCEPT ![t].parcels = @ \cup {result[t]}]
               ELSE [held EXCEPT ![t].types = @ \cup {result[t]}]
    /\ Goto(t, "idle")
    /\ UNCHANGED <<managerVars, lockVars, visitVars, request, result>>

\* CtxLoader pushes what upstream answered into its own area.
Deliver(t) ==
    /\ pc[t] = "deliver"
    /\ held' = IF result[t] = Nil THEN held
               ELSE IF IsImport(request[t])
                    THEN [held EXCEPT ![t].parcels = @ \cup {result[t]}]
                    ELSE [held EXCEPT ![t].types = @ \cup {result[t]}]
    /\ Goto(t, "idle")
    /\ UNCHANGED <<managerVars, lockVars, visitVars, request, result>>

Step(t) ==
    \/ Fetch(t) \/ LockUpdate(t) \/ Begin(t) \/ ResolveNext(t)
    \/ Succeed(t) \/ Fail(t) \/ Refuse(t) \/ CommitTypes(t) \/ CommitParcels(t) \/ Deliver(t)

Next ==
    \/ \E b \in Bindings : BindParcelDef(b[1], b[2])
    \/ \E r \in RedirectCalls : AddRedirect(r[1], r[2], r[3])
    \/ \E t \in Visitors : BeginVisit(t) \/ Visit(t) \/ EndVisit(t)
    \/ \E t \in Threads : Step(t) \/ \E r \in Requests : Call(t, r)

Spec == Init /\ [][Next]_vars

--------------------------------------------------------------------------------
(* Invariants *)

Labels == {"idle", "fetch", "lock", "begin", "resolve", "commit", "commitParcels", "deliver"}
Loading(t) == pc[t] \in {"begin", "resolve", "commit", "commitParcels"}

IsArea(x) ==
    /\ DOMAIN x = {"parcels", "types", "links"}
    /\ \A l \in x.links : DOMAIN l = {"from", "sym", "to"}

\* Shape of the state.
TypeOK ==
    /\ DOMAIN binds \subseteq Paths /\ \A p \in DOMAIN binds : binds[p] \in Defs
    /\ IsArea(commits) /\ IsArea(staging)
    /\ failFlag \in BOOLEAN
    /\ updateLock \in Threads \cup {NoThread}
    /\ writer \in Threads \cup {NoThread}
    /\ visiting \subseteq Visitors
    /\ pc \in [Threads -> Labels]
    /\ request \in [Threads -> Requests \cup {Nil}]
    /\ DOMAIN result = Threads /\ DOMAIN visited = Threads
    /\ held \in [Threads -> [parcels : SUBSET VisibleParcels, types : SUBSET VisibleTypes]]

(***************************************************************************)
(* A thread that is past LockUpdate holds updateLock, alone, and accessLock*)
(* is exclusive only within its commit. Outside of any import or load the  *)
(* staging area and the queue are empty, however the last one ended: a     *)
(* failed one may leave nothing behind for the next (Loader.cpp:151).      *)
(***************************************************************************)
StagingIsPrivate ==
    /\ \A t \in Threads : Loading(t) <=> updateLock = t
    /\ \A t \in Threads : pc[t] = "commitParcels" <=> writer = t
    /\ updateLock = NoThread => staging = EmptyArea /\ pending = {}

(***************************************************************************)
(* No two parcels share a path and no two types a fullname, over both      *)
(* areas, and a type's parcel is the imported one: so an answer to a name  *)
(* does not depend on who asks, or when.                                   *)
(***************************************************************************)
NamesAreUnique ==
    /\ \A p, q \in VisibleParcels : p.path = q.path => p = q
    /\ \A t, u \in VisibleTypes : Key(t) = Key(u) => t = u
    /\ \A t \in VisibleTypes : t.parcel \in VisibleParcels

LinkedWithin(types, links) ==
    \A t \in types : \A s \in SymsOf(t) :
        \E l \in links : l.from = t /\ l.sym = s /\ l.to \in types

(***************************************************************************)
(* What is committed is complete: every symbol of every committed type is  *)
(* linked to a committed type and every member is there with its owner.    *)
(* A reader may use any type it is given without taking a lock again.      *)
(***************************************************************************)
CommittedIsClosed ==
    /\ LinkedWithin(commits.types, commits.links)
    /\ \A t \in commits.types : Group(t) \subseteq commits.types
    /\ writer = NoThread => \A t \in commits.types : t.parcel \in commits.parcels

(***************************************************************************)
(* A committed link is the one the redirects locked for the type's parcel  *)
(* give its symbol, it conforms to the symbol's call suffix, and no        *)
(* committed type misses its constraints: no load gets past its checks.    *)
(***************************************************************************)
CommittedIsChecked ==
    /\ \A l \in commits.links :
          /\ Key(l.to) = IF l.sym.path = Self
                         THEN <<l.from.parcel.path, l.sym.name>>
                         ELSE Want(l.from, l.sym)
          /\ Conforms(l.to, l.sym.suff)
    /\ \A t \in commits.types : t.name \notin Unsatisfied[t.parcel.def]

(***************************************************************************)
(* Everything a context was ever given is still what the domain has under  *)
(* that name: contexts agree on what a name means, and a type may be used  *)
(* across them. What a call answers conforms to the suffix it asked for.   *)
(***************************************************************************)
ContextsAgree ==
    \A t \in Threads :
        /\ held[t].parcels \subseteq commits.parcels
        /\ held[t].types \subseteq commits.types
        /\ pc[t] \in {"idle", "deliver"} /\ result[t] # Nil =>
              /\ result[t] = Fetched(commits.parcels, commits.types, request[t])
              /\ ~Refused(result[t], request[t])

--------------------------------------------------------------------------------
(* Action properties *)

(***************************************************************************)
(* Once imported, a path always refers to that parcel, with the redirects  *)
(* it was imported with, whatever is bound or redirected later (yama.h,    *)
(* "The redirects of a parcel are locked for it upon import"); likewise a  *)
(* type, and its links.                                                    *)
(***************************************************************************)
CommittedIsPermanent ==
    [][/\ commits.parcels \subseteq commits'.parcels
       /\ commits.types \subseteq commits'.types
       /\ commits.links \subseteq commits'.links]_vars

(***************************************************************************)
(* "ymDm_ForEachParcel blocks loads/imports for the duration of the call"  *)
(* (yama.h:688): what is walked over does not change under a visitor.      *)
(***************************************************************************)
VisitedIsStable == [][visiting # {} => commits' = commits]_vars

(***************************************************************************)
(* LoadManager::import and load assert that what they are asked for is not *)
(* there yet (LoadManager.cpp:23, 35).                                     *)
(***************************************************************************)
LoadsOnlyWhatIsAbsent ==
    \A t \in Threads :
        pc[t] = "begin" => Fetched(VisibleParcels, VisibleTypes, request[t]) = Nil

--------------------------------------------------------------------------------
(* What the loader promises *)

\* The world as readers will find it: they wait while a commit is half done.
Published ==
    IF writer = NoThread THEN commits
    ELSE [parcels |-> VisibleParcels, types |-> VisibleTypes,
          links |-> commits.links \cup staging.links]

Given == [t \in Threads |-> held[t].parcels \cup held[t].types]

Promise == INSTANCE LoadedWorld WITH world <- Published, given <- Given

(***************************************************************************)
(* Seen through the locks, the staging area, the queue and the commit in   *)
(* two halves are one atomic publication of a complete world, and contexts *)
(* get nothing but what is published.                                      *)
(***************************************************************************)
ImplementsLoadedWorld == Promise!Spec
================================================================================
