------------------------------- MODULE Lifetimes -------------------------------
(***************************************************************************)
(* Who keeps what alive: the atomic reference counts of domains, contexts  *)
(* and parcel definitions (RefCounter.h, yama.cpp), the handles of the C++ *)
(* front end that manage them (yama++/Handle.h), and the parcels and types *)
(* that live as long as a loader that has them.                            *)
(*                                                                         *)
(* A count is dropped in one step and the resource deleted in a later one, *)
(* so threads interleave between the two. A context points to its domain   *)
(* without a count, and its loader's pointer upstream is weak: Discipline  *)
(* says what the program that uses the library refrains from.              *)
(*                                                                         *)
(* One path, whose parcel defines a type "user" that refers to a type      *)
(* "used": a type points to its parcel, to the info of its definition and  *)
(* to the types it refers to, and owns none of them.                       *)
(***************************************************************************)
EXTENDS Naturals, FiniteSets

CONSTANTS
    Threads,
    Slots,          \* the handles of each thread
    Domains, Contexts, Defs,
    RefCounts,      \* the number of values of YmRefCount: 2^32
    Discipline,     \* "copyAssign", "domainOutlives"
    Null

Resources == Domains \cup Contexts \cup Defs
Handles == Threads \X Slots

ASSUME ResourceAssumption ==
    /\ Domains \cap Contexts = {} /\ Domains \cap Defs = {} /\ Contexts \cap Defs = {}
    /\ Null \notin Resources
    /\ IsFiniteSet(Handles)
    /\ RefCounts \in Nat /\ Cardinality(Handles) < RefCounts

Parts == {"parcel", "user", "used"}

VARIABLES
    alive,          \* the resources that exist
    refs,           \* their counts
    handle,         \* what each handle is for, or Null
    pending,        \* what each thread has dropped, with the count it was told
    dmOf,           \* the domain each context points to
    bound,          \* the definition each domain has bound to the path
    imported,       \* the definition of the parcel each domain has imported
    held            \* the <<definition, part>> pairs each context's loader has

countVars == <<alive, refs, handle, pending>>
worldVars == <<dmOf, bound, imported, held>>
vars == <<countVars, worldVars>>

Nothing == [res |-> Null, old |-> 0]
Owns(t, h) == h[1] = t
Idle(t) == pending[t] = Nothing

Init ==
    /\ alive = {}
    /\ refs = [r \in Resources |-> 0]
    /\ handle = [h \in Handles |-> Null]
    /\ pending = [t \in Threads |-> Nothing]
    /\ dmOf = [c \in Contexts |-> Null]
    /\ bound = [d \in Domains |-> Null]
    /\ imported = [d \in Domains |-> Null]
    /\ held = [c \in Contexts |-> {}]

----------------------------------------------------------------------------
\* ymDm_Create and its kind, and the handle that takes the one reference.
Created(r, h) ==
    /\ r \notin alive
    /\ handle[h] = Null
    /\ alive' = alive \cup {r}
    /\ refs' = [refs EXCEPT ![r] = 1]
    /\ handle' = [handle EXCEPT ![h] = r]

\* A new resource never gets an address that something still points to.
CreateDomain(t, h, d) ==
    /\ Owns(t, h) /\ Idle(t)
    /\ \A c \in Contexts \cap alive : dmOf[c] # d
    /\ Created(d, h)
    /\ UNCHANGED <<pending, worldVars>>

CreateParcelDef(t, h, f) ==
    /\ Owns(t, h) /\ Idle(t)
    /\ \A d \in Domains \cap alive : f \notin {bound[d], imported[d]}
    /\ Created(f, h)
    /\ UNCHANGED <<pending, worldVars>>

\* The context keeps the domain's address; the domain's count does not change.
CreateContext(t, h, c, via) ==
    /\ Owns(t, h) /\ Owns(t, via) /\ Idle(t)
    /\ handle[via] \in Domains
    /\ Created(c, h)
    /\ dmOf' = [dmOf EXCEPT ![c] = handle[via]]
    /\ UNCHANGED <<pending, bound, imported, held>>

\* AtomicRefCounter::addRef and drop, which wrap in a build without assertions.
Added(r) == [refs EXCEPT ![r] = (@ + 1) % RefCounts]
Dropped(r) == [refs EXCEPT ![r] = (@ + RefCounts - 1) % RefCounts]

\* Handle(const Handle&): the new handle may be another thread's, which gets it
\* by whatever means the two have.
CopyConstruct(t, from, to) ==
    /\ Owns(t, from) /\ Idle(t)
    /\ handle[from] # Null /\ handle[to] = Null
    /\ refs' = Added(handle[from])
    /\ handle' = [handle EXCEPT ![to] = handle[from]]
    /\ UNCHANGED <<alive, pending, worldVars>>

\* Handle(Handle&&).
MoveConstruct(t, from, to) ==
    /\ Owns(t, from) /\ Idle(t)
    /\ handle[from] # Null /\ handle[to] = Null
    /\ handle' = [handle EXCEPT ![to] = handle[from], ![from] = Null]
    /\ UNCHANGED <<alive, refs, pending, worldVars>>

\* What a program that keeps each domain longer than its contexts does not let go.
MayDrop(r) ==
    "domainOutlives" \in Discipline /\ r \in Domains /\ refs[r] = 1 =>
        \A c \in Contexts \cap alive : dmOf[c] # r

\* Handle::release: the count is dropped, and the thread is told what it was.
Drop(t, r) ==
    IF r = Null THEN UNCHANGED <<refs, pending>>
    ELSE /\ MayDrop(r)
         /\ refs' = Dropped(r)
         /\ pending' = [pending EXCEPT ![t] = [res |-> r, old |-> refs[r]]]

\* Handle::release and ~Handle.
Release(t, h) ==
    /\ Owns(t, h) /\ Idle(t)
    /\ handle[h] # Null
    /\ Drop(t, handle[h])
    /\ handle' = [handle EXCEPT ![h] = Null]
    /\ UNCHANGED <<alive, worldVars>>

\* operator=(const Handle&): the other's resource is taken without a reference.
CopyAssign(t, from, to) ==
    /\ Owns(t, from) /\ Owns(t, to) /\ Idle(t)
    /\ "copyAssign" \in Discipline => from = to \/ handle[from] = Null
    /\ IF from = to
       THEN UNCHANGED countVars
       ELSE /\ Drop(t, handle[to])
            /\ handle' = [handle EXCEPT ![to] = handle[from]]
            /\ UNCHANGED alive
    /\ UNCHANGED worldVars

\* Fault: the two are swapped, and the old one is not released.
MoveAssignBySwap(t, from, to) ==
    /\ Owns(t, from) /\ Owns(t, to) /\ Idle(t)
    /\ handle' = [handle EXCEPT ![to] = handle[from], ![from] = Null]
    /\ UNCHANGED <<alive, refs, pending, worldVars>>

\* operator=(Handle&&).
MoveAssign(t, from, to) ==
    /\ Owns(t, from) /\ Owns(t, to) /\ Idle(t)
    /\ IF from = to
       THEN UNCHANGED countVars
       ELSE /\ Drop(t, handle[to])
            /\ handle' = [handle EXCEPT ![to] = handle[from], ![from] = Null]
            /\ UNCHANGED alive
    /\ UNCHANGED worldVars

\* Fault: the domain is handed out as it stands.
BorrowDomainOf(t, via, to) ==
    /\ Owns(t, via) /\ Owns(t, to) /\ Idle(t)
    /\ handle[via] \in Contexts /\ handle[to] = Null
    /\ handle' = [handle EXCEPT ![to] = dmOf[handle[via]]]
    /\ UNCHANGED <<alive, refs, pending, worldVars>>

\* Context::domain: ymCtx_Dm with YM_TAKE.
DomainOf(t, via, to) ==
    /\ Owns(t, via) /\ Owns(t, to) /\ Idle(t)
    /\ handle[via] \in Contexts /\ handle[to] = Null
    /\ refs' = Added(dmOf[handle[via]])
    /\ handle' = [handle EXCEPT ![to] = dmOf[handle[via]]]
    /\ UNCHANGED <<alive, pending, worldVars>>

\* Fault: the count is read again after the drop.
DeleteIfZero(t) ==
    /\ ~Idle(t)
    /\ LET r == pending[t].res IN
        IF refs[r] # 0 THEN UNCHANGED <<alive, worldVars>>
        ELSE /\ alive' = alive \ {r}
             /\ bound' = [d \in Domains |-> IF d = r THEN Null ELSE bound[d]]
             /\ imported' = [d \in Domains |-> IF d = r THEN Null ELSE imported[d]]
             /\ dmOf' = [c \in Contexts |-> IF c = r THEN Null ELSE dmOf[c]]
             /\ held' = [c \in Contexts |-> IF c = r THEN {} ELSE held[c]]
    /\ pending' = [pending EXCEPT ![t] = Nothing]
    /\ UNCHANGED <<refs, handle>>

\* The end of ymDm_Release and its kind: whoever was told 1 deletes. A loader
\* goes with its domain or context, and with it what it owns.
Delete(t) ==
    /\ ~Idle(t)
    /\ LET r == pending[t].res IN
        IF pending[t].old # 1 THEN UNCHANGED <<alive, worldVars>>
        ELSE /\ alive' = alive \ {r}
             /\ bound' = [d \in Domains |-> IF d = r THEN Null ELSE bound[d]]
             /\ imported' = [d \in Domains |-> IF d = r THEN Null ELSE imported[d]]
             /\ dmOf' = [c \in Contexts |-> IF c = r THEN Null ELSE dmOf[c]]
             /\ held' = [c \in Contexts |-> IF c = r THEN {} ELSE held[c]]
    /\ pending' = [pending EXCEPT ![t] = Nothing]
    /\ UNCHANGED <<refs, handle>>

----------------------------------------------------------------------------
\* Fault: what the replaced binding had imported goes with it.
BindReplacing(t, via, f) ==
    /\ Owns(t, via) /\ Owns(t, f) /\ Idle(t)
    /\ handle[via] \in Domains /\ handle[f] \in Defs
    /\ bound' = [bound EXCEPT ![handle[via]] = handle[f]]
    /\ imported' = [imported EXCEPT ![handle[via]] = IF @ = Null THEN Null ELSE handle[f]]
    /\ UNCHANGED <<countVars, dmOf, held>>

\* Domain::bind: the parcel made for the path shares the info of the definition.
Bind(t, via, f) ==
    /\ Owns(t, via) /\ Owns(t, f) /\ Idle(t)
    /\ handle[via] \in Domains /\ handle[f] \in Defs
    /\ bound' = [bound EXCEPT ![handle[via]] = handle[f]]
    /\ UNCHANGED <<countVars, dmOf, imported, held>>

\* Context::import or load: the domain's loader commits the whole parcel of the
\* binding, the context's the one thing that was asked for.
Load(t, via, part) ==
    /\ Owns(t, via) /\ Idle(t)
    /\ handle[via] \in Contexts
    /\ LET c == handle[via]
           d == dmOf[c]
           f == IF imported[d] = Null THEN bound[d] ELSE imported[d]
       IN IF f = Null THEN UNCHANGED <<imported, held>>
          ELSE /\ imported' = [imported EXCEPT ![d] = f]
               /\ held' = [held EXCEPT ![c] = @ \cup {<<f, part>>}]
    /\ UNCHANGED <<countVars, dmOf, bound>>

Next ==
    \E t \in Threads :
        \/ \E h \in Handles :
            \/ \E d \in Domains : CreateDomain(t, h, d)
            \/ \E f \in Defs : CreateParcelDef(t, h, f)
            \/ \E c \in Contexts, via \in Handles : CreateContext(t, h, c, via)
            \/ Release(t, h)
            \/ \E part \in Parts : Load(t, h, part)
        \/ \E from, to \in Handles :
            \/ CopyConstruct(t, from, to)
            \/ MoveConstruct(t, from, to)
            \/ CopyAssign(t, from, to)
            \/ MoveAssign(t, from, to)
            \/ DomainOf(t, from, to)
            \/ Bind(t, from, to)
        \/ Delete(t)

\* A release that has dropped the count goes on to its end.
Fairness == \A t \in Threads : WF_vars(Delete(t))

Spec == Init /\ [][Next]_vars /\ Fairness

----------------------------------------------------------------------------
\* A context that exists points to a domain and its loader holds parts only of
\* what that domain imported; a thread in a release knows what it has dropped.
TypeOK ==
    /\ alive \subseteq Resources
    /\ refs \in [Resources -> 0 .. RefCounts - 1]
    /\ handle \in [Handles -> Resources \cup {Null}]
    /\ pending \in [Threads -> [res : Resources \cup {Null}, old : 0 .. RefCounts - 1]]
    /\ dmOf \in [Contexts -> Domains \cup {Null}]
    /\ bound \in [Domains -> Defs \cup {Null}]
    /\ imported \in [Domains -> Defs \cup {Null}]
    /\ held \in [Contexts -> SUBSET (Defs \X Parts)]
    /\ \A c \in Contexts : c \in alive <=> dmOf[c] # Null

HandlesOf(r) == {h \in Handles : handle[h] = r}

\* The count of a resource is the number of its handles, across all threads and
\* in the middle of their releases ("RAII manages RC/ARC resources").
CountsMatchHandles == \A r \in Resources : refs[r] = Cardinality(HandlesOf(r))

\* No handle is for a resource that is gone, whatever thread destroyed it.
HandlesAreValid == \A h \in Handles : handle[h] = Null \/ handle[h] \in alive

\* Of the threads that drop the counts of one resource concurrently one is told
\* it was the last, when no handle is left, and the resource is still there.
DeletedOnce ==
    \A t \in Threads : pending[t].old = 1 =>
        /\ pending[t].res \in alive
        /\ HandlesOf(pending[t].res) = {}
        /\ \A u \in Threads : pending[u] = pending[t] => u = t

\* What a context can reach through a pointer that owns nothing is there: its
\* domain, and behind each part its loader has the parcel, the info and the types
\* it refers to, which the domain's loader keeps. The context's objects, and its
\* destructor, read all of them.
ContextsReachWhatLives ==
    \A c \in Contexts \cap alive :
        /\ dmOf[c] \in alive
        /\ \A p \in held[c] : imported[dmOf[c]] = p[1]

\* What no handle is for is destroyed in the end.
OrphansGo == \A r \in Resources : HandlesOf(r) = {} ~> r \notin alive \/ HandlesOf(r) # {}
================================================================================
