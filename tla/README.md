# Formal models of Yama

TLA+ models of the current implementation of Yama (`src/Yama`), TLC runs that
check them on small instances, and TLAPS proofs of the main properties of the
loader, the call machine, ownership of objects, parcel definitions, handles and names
for every instance. Where a comment names a line, it is of `src/Yama/internal` unless it says
otherwise.

There are four groups of modules, each of which can be read by itself:

| Group | Modules | What it is about |
|---|---|---|
| the loader | `Redirects`, `Parcels`, `LoadManager`, `DomainLoader`, `LoadedWorld`, `LoaderProofs` | threads that import and load types into a shared domain |
| the context | `Objects`, `Context`, `ContextProofs`, `OwnershipProofs`, `CallProofs`; `ArgPacks` | the call machine, ownership of objects, stored vars, struct and protocol values |
| definitions and lifetimes | `TypeInfos`, `ParcelDefs`, `DefBinding`, `ParcelDefProofs`; `Lifetimes`, `LifetimeProofs` | filling in a parcel definition and using it; who keeps what alive |
| names and text | `RedirectTables`, `Specs`, `Specifiers`, `Conformance`, `Conforming`, `Scalars`; `AlgorithmProofs` (and of `ArgPacks`), `ConformanceProofs` | specifiers, what they name, which type conforms to which protocol, text of numbers |

The `MC*` modules and the `.cfg` files are instances for TLC.

## The system

Yama is a language runtime in the form of a library. An end-user (below: the
*host*) binds *parcel definitions* to paths of a *domain*, makes *contexts* of
the domain, and through a context loads types and calls Yama fns, which are
callbacks of the host. A program has any number of threads; a context belongs
to one thread, a domain is shared.

| Component | State | Operations | Interacts with |
|---|---|---|---|
| Redirects (`Redirects.*`) | map from (subject, before) to after; per parcel, a locked `RedirectSet` | `add`, `compute`, `resolve` | domain loader adds and computes, late resolution resolves |
| Domain loader (`Loader.*`, `Area.h`, `Section.h`, `PathBindings.*`) | bindings, redirects, areas `_commits` and `_staging`, `_updateLock` (mutex), `_accessLock` (shared_mutex); per context, a `CtxLoader` with its own area | `bindParcelDef`, `addRedirect`, `forEachParcel`, `import`, `load`, commit or discard | calls the load manager under `_updateLock`; context loaders call it from several threads |
| Load manager (`LoadManager.*`) | late resolve queue, fail flag, scratch term stack | generate type data, early and late resolution, constraint and call suffix checks | fills the staging area |
| Term stack (`TermStk.*`) | a stack of terms | import parcels, find types and members, apply type args | load manager, specifier solver |
| Types (`YmType.*`), parcels (`YmParcel.*`) | constant tables, ptables; path, definition, redirects | conformance, call suffixes, members | everything |
| Parcel definitions (`ParcelInfo.*`, `YmParcelDef.*`, `ConstTableInfo.h`) | declared types, members, params | the builder's calls, verification | bound by sharing, not by copying |
| Specifiers (`Spec*`) | none | parse, normalise, solve; the same events drive the term stack | every API fn that takes a path or a fullname |
| Context (`YmCtx.*`, `ArgPackInfo.h`) | global object stack, call stack, object set | stack fns, struct and protocol values, calls, `arg`, `setArg`, `ret`, reset | objects, vars, ptables; calls back the host |
| Stored vars (`VarStorage.*`) | storage per var | fetch, pull, push, initialise by a call | context |
| Objects (`YmObj.*`, `RefCounter.h`) | reference count, slots | create, secure, release with its cascade | context, vars, boxes and structs that own others |
| Protocol tables (`PTableManager.*`) | cache of tables, generation | find or build the table of a (protocol, type) | dispatch |
| Public API (`yama/yama.*`) | atomic reference counts of domain, context, definition | entry points, argument checks | all of the above |
| C++ front end (`yama++/*`) | handles that own a count each | copy, move, assign, release | the public API |
| Scalars (`scalars.cpp`, `scalar-utils.*`) | none | measure, format, parse | code generation, hosts |
| Errors, asserts, allocators | none that a protocol depends on | | |

`src/yamalib`, `src/tests` and `src/sandbox` are a previous implementation that
the build no longer contains; `src/vendor` and the generated parser are third
party or generated code.

What is hard here, and what each part must get right:

* **Loading is concurrent and transactional.** Threads look things up under a
  shared lock, let go of it and take another to load. A load touches an
  unbounded part of the dependency graph, may fail at every step, also after
  all is staged, and must publish all of it or nothing, complete and checked,
  under names that mean the same to everyone for ever.
* **The call machine shares one stack.** Args, dummies for omitted args, and
  locals of all frames are windows of one vector whose bounds move during
  dispatch; result slots are addressed in the caller's window and filled when
  the callee's is gone. A call can fail after parts of it took effect.
* **Ownership is manual.** Every object has a reference count moved by hand in
  some forty places under three policies (borrow, take, take if ok), through
  stack, return values, var storage, struct slots and boxes. One missing
  increment is a use after free a long time later.
* **Callbacks re-enter.** A fn, a getter and the initializer of a var run host
  code in the middle of an operation; so does `forEachParcel`, under a lock.
* **Definitions are live.** A parcel definition is bound by sharing, a declaration
  may be made of several others that can fail half way, and what was loaded keeps
  reading it.
* **Names are keys.** A specifier is read by two interpreters of the same events,
  one that rewrites text and one that finds types; the text of a type's name is
  its identity in every cache, and conformance mixes comparisons of text with
  comparisons of types.
* **Nothing owns a domain for a context.** Its pointer carries no count, its
  loader's is weak, and types point at other types that nobody owns for them.

`PROJECT.json` lists each hazard with its line and the properties that would
catch it going wrong.

## Conventions of the models

* They follow the build with `NDEBUG`: `ymAssert` checks nothing (`YM_DEBUG`
  off). Where an assertion states something about the design it is a property.
* An API call is one action, unless a callback of the host or another thread can
  run in its middle; then it is one action up to that point and one from it.
  Fns called on the way are operators, and a call made of a sequence of them
  threads a state through (`Machine` in `Context`).
* Types, fullnames and objects are model values. Names are sequences where their
  text decides something: of tokens in `Redirects`, `Specs` and `Conformance`, of
  ASCII codes in `Scalars`.
* `Discipline` is a set of strings that name what the user of a component refrains
  from in a run. Each element stands for a way the code fails that would hide
  everything else; taking it out of the `.cfg` lets TLC find that failure.
* Each definition that begins with `\* Fault:` is a plausible bug, in place of
  the definition that follows it, that one run's property must detect. None of
  them is reachable from a specification.

## The loader

**`Redirects`** — `Add`, `Compute` and `Resolve` are `Redirects::add`,
`Redirects::compute` and `RedirectSet::resolve` with the order in which the code
walks its maps. Keys match as *string* prefixes. **`RedirectTables`** adds redirects
to a table; its `RedirectsPickTheMostSpecific` (run `algorithms`) compares the walks to what `yama.h` says of them, for every
table of up to three entries over four paths, one of which is a string prefix of
two others and a path prefix of one, built in every order.

**`Parcels`** — the static data: definitions, types, their members (`Group`),
the symbols in their constant tables (early: their own members and owner; late:
all others), the path a symbol leads to under the redirects locked for its
parcel. A definition is a parameter (`Declares`, `RefSyms`, `CallSig`,
`Unsatisfied`), so a run chooses which cyclic, missing, ill-suffixed or
constraint-missing definitions occur.

**`LoadManager`** — one import or load, between `_beginImportOrLoad` and
`_endImportOrLoad`, on the staging area. `Stage` is type data generation with
its recursion into members and early resolution; `LateResolve` takes one type
off the queue, resolves its symbols in one step, and may import and stage more.
The order of the queue is free in the model: a set, of which any member comes
next. `ChecksPass` stands for `_enforceConstraints` and
`_checkRefConstCallSigConformance`.

**`DomainLoader`** — the threads. `pc` follows a thread through
`CtxLoader::load` and `DmLoader::load`:

| `pc` | code | action |
|---|---|---|
| `idle` | `CtxLoader` looks in its own area | `Call` |
| `fetch` | `fetchParcel`, `fetchType` under shared `_accessLock` | `Fetch` |
| `lock` | waits for `_updateLock` | `LockUpdate` |
| `begin` | `_initialImport`, `_initialLoad` | `Begin` |
| `resolve` | `_processLateResolveQueue`, then the checks | `ResolveNext`, `Succeed`, `Fail`, `Refuse` |
| `commit` | `commitOrDiscard`: takes `_accessLock`, commits the types | `CommitTypes` |
| `commitParcels` | commits the parcels, both locks go | `CommitParcels` |
| `deliver` | `CtxLoader` pushes what it was given | `Deliver` |

Meanwhile `BindParcelDef`, `AddRedirect` and the visitors of `forEachParcel`
(`BeginVisit`, `Visit`, `EndVisit`) run whenever the locks let them.

**`LoadedWorld`** — what all this promises: one growing world of parcels, types
and links, published in atomic steps that each leave it unambiguous and
self-contained, out of which threads are given things. `ImplementsLoadedWorld`
is the refinement: while a commit holds `_accessLock` the world is what the two
areas together hold.

*Run `domain_loader`*: two threads, one of which also visits; two paths with a
definition each that refers to the other (a dependency cycle with members), a
second and a third definition for one of them (other call suffix; missing member
and constraint), a third path and a redirect to it; requests for an import, a
type, and a type with a suffix it may not have. That is enough for every kind
of failure at every stage, rebinding before, between and after loads, a second
thread's load in each window of the first, and a commit under a visitor.
*Run `domain_loader_race`* refutes the assertion at `LoadManager.cpp:35` (and
`:23`), see below. *Run `domain_loader_live`*: `EveryCallReturns`.

**Fairness.** `std::mutex` and `std::shared_mutex` are not fair, and the models
do not claim it: each thread makes a bounded number of calls and visits
(`MaxCalls`, `MaxVisits`), so it can be overtaken but not for ever. The fairness
assumed is weak fairness of each thread's own steps (a thread that can go on is
scheduled) and of a visitor's callbacks (they return). Nothing forces anyone to
call, bind or redirect.

## The context

**`Objects`** — a heap: per address a type, a count and the slots it owns.
`Released` is `YmCtx::release` with the cascade of `YmObj::cleanup`, in its
order; `DropAll` is the loop of `YmCtx::reset` over the objects that are left.
Addresses are reused. A release at an address that holds nothing leaves a
negative count there: use after free and double release stay visible.

**`Context`** — `stk` is `_globalObjStk`, `frames` is `_callStk`, `vars` the
storage, `host` the references the host owns. The host calls any API fn at any
time in the current frame; `BeginCall` enters a callee and `EndCall` is its
return, with everything `_endCall` does. `GetVar` and `SetVar` of a var that has
no value yet enter its initializer, and a frame's `then` says what
`VarStorage::initialize` does once it is back. A frame's `entry` is a ghost: the
caller's local stack when the host made the call.

Which named arg goes to which param is abstracted: `TakeArg` and `SetArg` take
any position in the arg window, and `Dummies` counts what `ArgPackInfo` leaves
unbound, for the fn called and, in a forwarded call, again for the method.
`Targets` is the dispatch: by the type that the protocol value boxes, and if that
object is gone, any method that implements the requirement.

**What the host promises.** The code has failures that a careful host avoids.
So that they do not hide everything else, `Discipline` names what the host of a
run refrains from; each was found by TLC.

| Discipline | Without it | Fails then |
|---|---|---|
| keeps what it borrows | `put`, `ret` and `ymCtx_Copy` onto the last reference to the object itself release it before they secure it (`YmCtx.cpp:370`, `539`) | `NothingDangles`: run `context_copy` |
| leaves room | `returnTo` or `where` that is in bounds only while the args are on the stack: a call fails with its args consumed (`1043`), `structInit`, `getProperty` and `convert` lose the value, and report success (`516`, `655`) | `CallHasItsStackEffect` |
| initializes vars | an initializer fails, for its own reasons or because the call stack is full, and the storage takes the top of the *caller's* stack as its value, of whatever type (`VarStorage.cpp:65`); or an initializer touches its own var | `VarsKeepTheirType` |
| releases | objects that own others are left to the destructor, whose loop over a copy of the object set then releases what a cascade has freed (`126`) | `DestroyedIsEmpty` |
| keeps its args | a callee replaces its args, which stand on its caller's stack, and then fails (`294`): the caller's stack has changed although the call failed | `CallHasItsStackEffect` |
| reads vars | each overwriting of a var loses the reference the storage owned (`VarStorage.cpp:52`) | `RefsMatchOwners` |

Only the first has a run of its own. The others show when `Stacking` or
`WritingVars` of `MCContext` is given up one element at a time in
`ContextCalls.cfg` (leaves room, keeps its args), `ContextVars.cfg` (initializes
vars) and `ContextValues.cfg` (releases, with `DestroyedIsEmpty` checked). The run
`context_vars` is without the last one, and checks `NothingDangles` in place of
`RefsMatchOwners`. A third small failure is modelled as it is: in a forwarded call
`arg(0)` returns null after `setArg(0)` with an object that is no protocol value
(`259`).

*The passing runs* split the API by what can interact:

| Run | Instance | Bounds |
|---|---|---|
| `context_calls` | a method with a positional and a named param, called directly and, forwarded, through a protocol; calls in calls; its own results of the wrong type or none; all three policies | 3 objects, stack 3, call stack 2 |
| `context_values` | a struct with a property of protocol type, boxes in structs in boxes | 4 objects, stack 3, no calls |
| `context_vars` | one var with an initializer; destruction | 3 objects, stack 2, call stack 2 |

`Objects` is symmetric (addresses are interchangeable). `MaxStack` bounds the
stack, `MaxHost` (1 everywhere) how many references the host itself holds to one
object, `MaxRefs` a count, where something leaks without bound. They are enough
because ownership errors show with one object too few or one reference too many:
two frames with an arg, a dummy, a local and a return value between them already
use three objects, and each of the runs' mutants is found with them. `MaxStack`
and `MaxRefs` disable the step that would exceed them; `MaxCallStack` is the
program's own `YM_MAX_CALL_STACK_HEIGHT` and makes the call fail as it does.

*Properties*: `RefsMatchOwners` (every count is the number of owners, nothing
leaks or dangles), `NothingDangles`, `CallHasItsStackEffect` (over whatever the
callee did), `FailureLeavesStack`, `FramesNested`, `CallersUntouched`,
`ValuesAreWellFormed`, `VarsKeepTheirType`, `DestroyedIsEmpty`.

**`ArgPacks`** — which named arg goes to which param, where `Context` takes any
position. The state is `ArgPackInfo`; `specifyNextNamedArg`, `done` and
`addDummies` are its steps in the order `_beginCall`, `_dispatchCall` and
`structInit` take them; `window` is a ghost, what was pushed at each index.
`ArgsReachTheirParams` (run `algorithms`): each named param reads the arg that was
given for it, each param that was not named reads a dummy of its own, also after a
forwarded call has appended further dummies. Every signature of up to two positional
and three named params, every way to name them, every method to forward to. A struct
with more stored properties than the map has entries is outside of it: the code
checks no such limit (`YmCtx.cpp:460`).

## Definitions

**`TypeInfos`** is the record a definition keeps of one type (`TypeInfo`,
`ConstTableInfo`): constants, type params, params, members, slots, and the fns that
add to it. **`ParcelDefs`** has an action for each `ymParcelDef_Add*` call, composed
as the code composes them: a var is up to three types (getter, assigner,
initializer), a property up to two, declared one after the other with later results
unread, and a stored property takes a slot before its declaration is checked. Legal
and illegal names, duplicate names, members of what has none, symbols that do not
parse and constraints over unknown type params are all passed.
**`DefBinding`** adds `Bind`, `Load` and `NewObject`: a loaded type's constant table
and an object's slots get their size at one moment, and the definition they go by
may grow later.

*Run `parcel_defs`*: two legal and one illegal owner name, two member names and
`Self`, limits of one type param, two positional and one named param and two
constants (so that each limit is met and exceeded), four items in all.
`SlotsNumberStoredProperties` (slots 0..n-1, one per stored property, whatever failed
in between), `RequirementsIndexTheirTable` (a requirement's behaviour carries its
place in the protocol table), `PartnersAreDeclared` (a getter's assigner and a stored
var's initializer exist, with the types that match), `FailedCallsDeclareNothing`,
and `LoadedTypesMatchTheirInfo`. The last one needs `"amend"` in `Discipline`: the
host adds to no type of a definition once it is bound. Without it TLC binds, loads a
type, adds a ref, member or stored property to it, and the info refers to a constant
or slot that the loaded type or object does not have; nothing in the code stops it.

## Lifetimes

**`Lifetimes`** — threads that share a domain, a context and parcel definitions
through the counted handles of `yama++/Handle.h`: `CopyConstruct`, `MoveConstruct`,
`CopyAssign`, `MoveAssign`, `Release`, `DomainOf`, and the `Create`s. `Drop` is the
atomic decrement, and `Delete` what the thread that was told "1" does later;
everything else may happen in between. `Bind` and `Load` keep what the raw pointers
between context, domain, parcel and definition's info rely on.

*Run `lifetimes`* (two threads with two handles each, one domain, one context, two
definitions to rebind a path): `CountsMatchHandles`, `HandlesAreValid`,
`DeletedOnce`, `ContextsReachWhatLives`, and `OrphansGo`: what no handle is for is
destroyed in the end. Discipline:

| Discipline | Without it | Fails then |
|---|---|---|
| copyAssign | the copy assignment takes the other's resource without a reference (`Handle.h:89`) | `HandlesAreValid`: run `handle_copy` |
| domainOutlives | the last handle of a domain goes while a context of it exists: `ymCtx_Dm` and the loader's upstream point at nothing | `ContextsReachWhatLives` |

*Fairness*: weak fairness of each thread's `Delete`. A release that has dropped the
count is a straight line of code to its end; no thread needs to release anything.

## Names and text

**`Specs`** — `Events` are those of `SpecEval`, the event an identifier is depending
on the mark before it. `Solve` is `SpecSolver`, a fold over them with its stack of
scopes: substitution of `%here`, `$Self` and type params, and redirects. `Eval` is
`TermStk`, a fold over the same events with a stack of terms, each operation with
its error paths. **`Specifiers`** writes the specifiers of the grammar (`sigs.taul`)
part by part, but for empty brackets and call suffixes, and states what the two
readers make of them. **`Conformance`** — `conforms`, `callsuff`, `ptable` and the type a
forwarded call's args have, under the redirects of each parcel. `Meaning` is the
reference: plain substitution, then a load. **`Conforming`** — loaded types asked about
protocols, under any redirects: `Redirect` is `DmLoader::addRedirect`, `Ask` is a call
of `YmType::conforms`, made when the redirects are between paths (`PathsOnly`:
`addRedirect` takes no others; those of run `algorithms` may be of lone letters). Symbols are specifiers of the grammar, but for the ones with a
call suffix or empty brackets, and a type's args are types made before it
(`Generated`).

**`Scalars`** — measuring, formatting and parsing of ints, uints and runes, with
wrap-around at `Bits`. `ValueOf` in `MCAlgorithms` is the reference.

*Run `algorithms`* puts inputs together step by step, one kind per behaviour:
specifiers of up to four parts from seven operands (paths, generics with too few,
too many and ill-kinded args, `$Self`, a type param, errors in each position); 22
protocols and 22 types of a member each (`MCWorld`: each symbol once as a return type
and once as a param after the self param, two signatures without one), without a
redirect and with each redirect between the paths of their parcels; texts of up to five
of nine characters; all 5-bit ints and uints in all bases and the runes at each
escape's boundary.

| Property | Says |
|---|---|
| `EverySpecifierIsOneTerm` | evaluation leaves one term, whatever went wrong where |
| `FullnamesLoadThemselves` | a type's fullname is in normal form and loads it and no other |
| `NormalizedSymbolsNameTheSame` | the two interpreters agree |
| `ConformsAsMeant` | conformance is equality of signatures after substitution |
| `ForwardedCallsAreTyped` | a forwarded call has the args its method declares, and its result is the one promised |
| `CallSigsAreNormal` | call signatures compare as text |
| `ScalarsReadBack`, `ParsedScalarsAreExact` | text has the measured size and reads back; what is refused is no number |

Three of them hold for protocols of some discipline only, each for its own:

| Discipline | Without it | Fails then |
|---|---|---|
| selfAlone | a symbol with both `$Self` and type params: the params are looked up with their `$` (`SpecSolver.cpp:237`) and the type does not conform | `ConformsAsMeant` |
| selfUnredirected | a symbol with `$Self` and a redirect: it is compared without redirects (`YmType.cpp:383`) | `ConformsAsMeant` |
| selfFirst | `$Self` beyond the first param or as the result: the method gets protocol values where it declares its own type (`YmCtx.cpp:1057`) | `ForwardedCallsAreTyped` |
| oneArgReturned | a type with several args, or with one that has, is returned: a comma in the type args of a call suffix's return type is a dead end (`SpecParser.cpp:55`) | `CallSigsAreNormal` |

*Run `scalar_overflow`* refutes `OverflowIsReported`, see below.

## What is proved

`LoaderProofs` proves, for any sets of threads, paths, names, definitions,
requests, bindings and redirects that meet the named assumptions (a member's
owner is its own owner and is declared along with it; there is a `yama` parcel;
`$Self` and relative symbols are not paths):

| Theorem | Property |
|---|---|
| `StagingStaysPrivate` | `StagingIsPrivate` |
| `NamesStayUnique` | `NamesAreUnique` |
| `CommittedStaysClosed` | `CommittedIsClosed` |
| `CommittedStaysChecked` | `CommittedIsChecked` |
| `ContextsStayAgreed` | `ContextsAgree` |
| `CommittedStaysPermanent`, `VisitedStaysStable` | the action properties |
| `TypesStayOK` | `TypeOK` |
| `LoaderRefines` | `ImplementsLoadedWorld` |

None of the properties is inductive. The inductive invariant has a part for each
argument:

1. `LockInv`: who is past `LockUpdate` holds `updateLock`; what the staging area,
   the queue and the fail flag may be at each `pc`. It says that at most one
   thread is at work on them, and that each load starts with them empty, which
   all other parts rest on.
2. `NamesInv`: no two *visible* (staged or committed) parcels share a path, and a
   type is determined by its parcel and its name. What is staged must be
   included: a commit would publish a clash.
3. `ClosedInv`: the debts of a load. A type that is staged has its members and
   early links at once; its late links are owed as long as it is in `pending`;
   what cannot be found raises `failFlag`. A commit happens with no flag and
   nothing pending, so with no debt.
4. `AnswersInv`: an answer is what was asked for, and is committed, or is about
   to be by the thread that has it.
5. `CheckedInv`: links follow their symbols from the moment they are made;
   conformance is known of what is committed, and at `commit` of what is staged.
6. `ShapeInv`: shapes that `TypeOK` asks for.

The refinement then has three kinds of steps: `CommitTypes` is the publication
(complete by 2 and 3, and `CommitParcels` only moves what is already part of
`Published`), `Deliver` gives what 4 says is published, and all others stutter.

`ContextProofs` proves of the call machine, for any types, fns, vars, depth of
calls and number of objects, and for any host, with or without discipline:

| Theorem | Property |
|---|---|
| `FramesStayNested` | `FramesNested` |
| `CallersStayUntouched` | the action property `CallersUntouched` |

So no fault of a host, not even one that leaves dangling references on the stack,
lets a call reach out of its frame: nothing of the heap is assumed, and no lemma
looks at what `Released` returns. A chain of lemmas (`...Keeps`) says how much of
the stack below each part of an API fn keeps; `StepShapes` then sorts all steps
into four: one stays in its frame, enters a callee, leaves to the caller, or ends
the context. The invariant `FramesInv` compares *any* two frames where
`FramesNested` compares neighbours. With that, a step at the top says something
of each frame below it directly; neighbours alone would need an induction along
the call stack. It also has the shape of a frame (at least as many args as
dummies, no more args than there is stack below its locals), without which the
end of a call could pop more than its own.

`OwnershipProofs` and `CallProofs` prove what the context's other
properties say, for any finite set of addresses (`ObjectsAssumption`), any types,
fns and vars, any depth of calls and of objects that own each other:

| Theorem | Property | Host's discipline |
|---|---|---|
| `NothingEverDangles` | `NothingDangles` | `Careful`: keeps what it borrows, releases |
| `ValuesStayWellFormed` | `ValuesAreWellFormed` | `Careful` |
| `DestructionLeavesNothing` | `DestroyedIsEmpty` | `Careful` |
| `VarsAlwaysKeepTheirType` | `VarsKeepTheirType` | `Careful`, initializes vars |
| `RefsAlwaysMatchOwners` | `RefsMatchOwners` | `Careful`, initializes vars, reads vars |
| `FailuresLeaveTheStack` | the action property `FailureLeavesStack` | leaves room, initializes vars |
| `CallsHaveTheirStackEffect` | the action property `CallHasItsStackEffect` | all but reads vars |

Each takes the elements of `Discipline` without which TLC refutes its property, or
that its argument rests on, and no others; the runs that check the properties have
them all. The constants are assumed to be what the code's loader makes of them
(`TypesAssumption`, `FunctionAssumption`); a var's initializer returns the var's type
(`InitializerAssumption`), for `_addVar` declares them together
(`YmParcelDef.cpp:221`), which `ParcelDefProofs` shows.

1. *A release does what it is for* (`ReleaseIsExact`). `Outer(h, o)` is an object's
   count less the slots that hold it, `Left` that less what is still to be released.
   If `Left` is nowhere negative, the cascade ends, no count is wrong after it, and
   `Outer` has gone down by what was released and nothing else: what a dying object
   owned moves from slots to the queue, and `Left` does not see it. That the
   recursion ends, and that each step keeps this, are inductions over the heap. The
   library's induction theorems cannot be instantiated, but that a set of numbers
   has a least element (`WFMin`) can be cited, and each induction is made as the
   search for a least counterexample. `ResetLeavesNothing` is another.
2. *A machine that owns enough* (`FitMachine`): each object has at least as many
   references outside slots as places on the stack. Each part of an API fn (`Popped`,
   `Borrowed`, `PutIn`, ...) says what `Spare`, the difference, becomes. So an API fn
   adds up, policy by policy, whatever branch it takes.
3. `OwnInv`, the inductive invariant: the frames fit (`FramesInv`), values are
   well-formed, and `Surplus`, `Spare` less what host, vars and frames claim, is
   nowhere negative. `NothingDangles` follows. That values are well-formed is needed
   for it as well, as what a box holds is taken out unchecked; and it depends on it in
   turn, as an object that dangles could change its type.
4. `Awaiting`: a var whose initializer runs is empty, and no two frames wait for the
   same. With that the end of an initializer overwrites nothing, and `Surplus` is
   always 0 (`NoLeak`), also when calls fail: `RefsMatchOwners`.
5. `Typed` adds the values that wait in frames to those in vars. The end of a call has
   two outcomes (`ReturnedCases`): its dummies go, or all args go and a result *of the
   fn's type* is put. The second is what a var gets.
6. `EntryInv`: what the ghost `entry` of a frame has below the args is still what is
   on the stack below them, for the steps since have kept it (`CallersKept`, of
   `ContextProofs`), and what the caller asked for fits what will be left. At the end
   of the call the lower part is that of the entry, and `put` does to it what `Placed`
   says (`PutAbove`).

`LifetimeProofs` proves, for any number of threads, handles, domains, contexts and
definitions and any width of the counter that exceeds the number of handles
(`ResourceAssumption`):

| Theorem | Property |
|---|---|
| `CountsStayMatched` | `CountsMatchHandles` |
| `HandlesStayValid` | `HandlesAreValid` |
| `ResourcesAreDeletedOnce` | `DeletedOnce` |
| `ContextsKeepReaching` | `ContextsReachWhatLives` |
| `LifetimesStayTyped` | `TypeOK` (no run checks it) |

Each assumes `Disciplined`: both elements of the `Discipline` above, without which
TLC refutes them. None is inductive alone: a copy keeps the count right, but only of
what exists (validity); a new resource starts with a count of one, but only if no
stale handle is for it (validity again); a deletion keeps handles valid, because
whoever was told "1" left no handle behind (`DeletedOnce`), which holds because the
count was right. `ContextsInv` adds that an existing context's domain has a *count*,
not just exists: the domain might be between the drop of its last count and its
deletion. `SetHandle` is the one lemma about cardinalities; `TakingCounts`,
`DroppingCounts` and `MovingCounts` say what each kind of step does to all counts,
and that no counter reaches its width.

`AlgorithmProofs` proves `ArgsReachTheirParams` (theorem `ArgsAreReadAsGiven`) for any
signature, any choice and order of named args, and any method a call is forwarded
to. Its invariant has three parts: `WindowInv` says which of the pushed objects stand
where (positional args first, then named args in the order they were given, then
dummies), `NamesInv` that a named param is in the map at most once and that the
counters of the pack say how many there are, and `BindingInv` that each entry of the
map points at the place where its arg, or its dummy, was pushed. The property speaks
of the end of a call only; the steps before it are what the invariant adds.

`ParcelDefProofs` proves, for any names, any limits (`LimitsAssumption`) and any
sequence of calls, failed ones among them:

| Theorem | Property |
|---|---|
| `SlotsAreNumbered` | `SlotsNumberStoredProperties` |
| `RequirementsKnowTheirPlace` | `RequirementsIndexTheirTable` |
| `PartnersAreThere` | `PartnersAreDeclared` |
| `FailuresDeclareNothing` | the action property `FailedCallsDeclareNothing` |
| `LoadedTypesStayTrue` | `LoadedTypesMatchTheirInfo`, if `"amend"` is in `Discipline` |
| `DefinitionsAreSound` | `DefSound`, the inductive invariant |

`NamesAssumption` says what the host's names are: owners and member names it passes,
never one the code derives (`$assigner`, `$init`). The invariant, `DefInv`, has a
part for each argument:

1. `DefOK`: shapes, and each index into a constant table lies inside that table.
2. `NamesOK`: an owner lists a member if and only if the member is declared with
   that owner; and a derived name is declared only after the host's name it derives
   from. So the derived name is free whenever that name is.
3. `SlotsInv`: the slots of a type are those of its stored properties, in order.
4. `PartnersInv`: getters have their assigners, stored vars their initializers.

The code declares a var by up to three calls and reads only the first result. The
proof shows why that is right: the later calls meet names that are free by 2, limits
they cannot exceed (`MaxPositional` is at least 2) and type params that are those of
the owner. The lemmas follow the code: one `...Keeps` for each call on the record of a
type, then for each call of the builder that what was declared stays (constants grow
at the end only), then one per action. `BoundDefinitionsAreDefinitions` shows that
`DefBinding` implements `ParcelDefs`, which carries all of this over to definitions
that are bound, the ones the run checks. For `LoadedTypesStayTrue` the invariant adds
that nothing is loaded before the definition is bound; with `"amend"`, the calls that
are left only add types.

Of redirects and specifiers `AlgorithmProofs` proves, for any paths and number of
redirects, any parcels (names and paths are those of the grammar: `ParcelsAssumption`),
any operands and suffixes of the grammar's shape (`PartsAssumption`), specifiers of any
length and depth, and the sessions of any types that generation can make, whose args
are such types (`KnownTypesAssumption`):

| Theorem | Property | Inductive invariant |
|---|---|---|
| `RedirectTheorem` | `RedirectsPickTheMostSpecific` | `TableInv` |
| `OneTermTheorem` | `EverySpecifierIsOneTerm` | `StackInv` |
| `NormalTheorem` | `NormalizedSymbolsNameTheSame` | `ReadersInv` |
| `FullnameTheorem` | `FullnamesLoadThemselves` | `HonestInv` |

1. *Folds*. What a fold computes is an induction over data, with an operator as a
   parameter, which the prover cannot instantiate. `Fold` makes the folded operation a
   part of the data (`Apply` has a case for each), `FoldHasRun` proves once that the
   library's recursion is defined, by least counterexamples, and `FoldAppend` is what
   all else uses.
2. *Sorted maps*. `Keys` chooses the keys in order: that there is such an order is
   `SortedExists`, that it is a total one `LexTotal` and `LexTransitive`. Of two
   prefixes of a path the lesser is the shorter (`PrefixesByLength`), and this is why
   the walks find the most specific redirect.
3. `StackInv`: the stack has a mark for each open bracket, and a bottom that awaits
   args unless it is the only term. Operations that fail at different depths of the
   stack keep this alike, and at the end of the specifier nothing awaits.
4. `ReadersInv`: the solver's scopes, joined, are the text so far, and `latest` says
   what kind of term is on top; or the solver has refused, and then the stack is
   `Doomed`: it has an error, or a term where no end of its brackets can make one
   concrete type of it. The evaluator goes on after an error, so that it is doomed
   has to be kept by all that follows.
5. `HonestInv`: each type on the stack is the one its fullname is read as,
   *after any text that is open at that place* (`Reads`). Only so can a fullname be
   read where it stands among the args of another; a fullname that loads its type
   when it stands alone would not be enough. Sessions bring in types that were loaded
   before; that those are honest is a least counterexample by length (`KnownHonest`).

Of conformance `ConformanceProofs` proves, for any loaded types and protocols whose
members' symbols are specifiers (`LoadedAssumption`), any redirects between paths, and
with `"selfFirst"` in the `Discipline` (without which TLC refutes the property):

| Theorem | Property | Inductive invariant |
|---|---|---|
| `ForwardedTheorem` | `ForwardedCallsAreTyped` | `AskInv` |

1. `AskInv`: redirects are from paths to paths, and those asked about were loaded. The
   rest is about one question.
2. Under redirects the solver turns a symbol, token by token, into text that the
   evaluator then reads; between tokens the two hold the same brackets open (`Opening`,
   `Holding`), and at the end a type it comes to is honest (`SymbolIsRead`,
   `ResolvedHonest`).
3. One fullname is read as one type (`FullnameOfOne`). So it does not matter that
   `conforms` compares symbols with `$Self` as text and the others as types. A first
   param `$Self` stands for the fullname of the member's owner (`SelfTransformed`),
   and the first param of the member is therefore that owner: the type that is unboxed.

## What is only model-checked

* Liveness (`EveryCallReturns`, `OrphansGo`): out of the prover's reach.
* The meaning of conformance, and call signatures (`ConformsAsMeant`,
  `CallSigsAreNormal`): they need symbols as they are read with `$Self` substituted
  and without redirects, and what the readers make of call suffixes. The proofs have
  the readers with redirects, but without these.
* Text of scalars (`ScalarsReadBack`, `ParsedScalarsAreExact`): products and powers of
  a base, which are beyond the solver's arithmetic.

## Where code and documentation disagree

`PROJECT.json` "findings" quotes each.

* `domain_loader_race`: a load looks the name up before it takes `_updateLock` and
  not after, so two threads that miss the same name both reach `LoadManager`, which
  asserts that the name is absent. A release build is saved by the look-ups in the
  term stack: the proofs show that names stay unique all the same.
* `context_copy`: copying a local onto itself destroys the object.
* `handle_copy`: the copy assignment of a handle takes no reference.
* `scalar_overflow`: `parseUInt` takes a digit for an overflow when the new value is
  below the old one; a product that wraps past the old value is reported as a
  success (`30000000000000000000u` reads as 11553255926290448384).

The other elements of the `Discipline`s are deviations of the same sort that no line
of the repository contradicts outright, or that show only with a host's help.

## What is not modelled

| Part | Why |
|---|---|
| Generic types in the concurrent loader | its definitions are concrete types; `Specs` has what a symbol with type args resolves to, one at a time. A type that refers to a larger instance of itself keeps the queue busy for ever, a hazard on the list |
| Whether type args meet their constraints | a parameter of `LoadManager` |
| Callbacks of `forEachParcel` that load | they wait for themselves, in every order |
| Values of scalars in `Context` (literals, conversions between them) | ownership does not depend on them |
| Queries that only read (`ymType_*`, `ymParcel_*`, kind predicates) | no state, no decision |
| Methods of `yama++` that forward to the C API | one line each; its counted handles are in `Lifetimes` |
| Floats and bools as text, text beyond ASCII | done by the standard library and the lexer generator |
| The grammar of specifiers | an external parser's; the models begin with its events |
| Wrap-around of a count | `Lifetimes` has its width as a constant and fewer handles than that; for objects it needs 2^32 calls |
| `argOffset` of an unbound param (`ArgPackInfo.h:76`, a condition that parses otherwise than it is laid out) | no caller asks before the param is bound |
| Allocators, error reports, asserts, parser code generation | no protocol state |
| `reset` of the loaders, `YmCtx::swap` | nothing calls them |
| Two bindings of one definition that share their vars (`VarStorage.cpp:23`) | a hazard on the list; `Context` has one binding |
| `src/yamalib`, `src/tests`, `src/sandbox`, `src/Yama.Tests` | a previous implementation the build no longer contains, and tests |

The implementation that runs, `src/Yama/internal`, has some 10,000 lines, comments
included; most of the repository is tests, documentation in headers and the previous
implementation.

## Plan

Done: 1. `Redirects`. 2. `Parcels`, `LoadManager`, `DomainLoader`, their refinement
of `LoadedWorld`, liveness, proofs. 3. `Objects`, `Context`, proofs. 4. `ArgPacks`.
5. `Specs` (terms with args). 6. `TypeInfos`, `ParcelDefs`, `DefBinding`.
7. `Conformance`. 8. `Lifetimes`. 9. `Scalars`.
10. Proofs of `Lifetimes`. 11. Proofs of `ArgPacks` and `ParcelDefs`. 12. Proofs of
ownership, of vars and of what calls leave behind. 13. Proofs of `RedirectTables` and
`Specifiers`.

Next:

14. Generic types in `LoadManager`, with a bound on the queue.
15. An abstract specification of ownership (owners as a bag) that `Context`
    implements, and vars keyed by definition as the storage keys them.
