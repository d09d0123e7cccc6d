-------------------------------- MODULE Context --------------------------------
(***************************************************************************)
(* A context: its object stack, its call stack, its stored vars, and who   *)
(* owns a reference to which object (Yama/internal/YmCtx.cpp, VarStorage). *)
(*                                                                         *)
(* The end-user (the host) makes one API call after another. A Yama fn is  *)
(* a callback of the host, so between BeginCall and EndCall the same host  *)
(* makes its calls in the callee's frame. Every action is one API call, or *)
(* the part of one up to, or from, a callback.                             *)
(*                                                                         *)
(* Discipline names what the host of a run refrains from, or provides.     *)
(***************************************************************************)
EXTENDS Objects

CONSTANTS
    Push, Discard,  \* YM_PUSH, YM_DISCARD
    Indices,        \* the local indices the host passes
    Policies,       \* YM_BORROW, YM_TAKE, YM_TAKE_IF_OK: those it passes
    OutOfBounds,
    Nil,
    Functions,      \* callable types; the computed vars and properties too
    Signature,      \* [positional, named, returns] of each
    MethodReqs,     \* those that forward to what a protocol value boxes
    PTable,         \* the method that implements each, per type boxed
    Vars,           \* stored vars
    VarType,
    Initializer,    \* their initializers
    MaxCallStack,   \* YM_MAX_CALL_STACK_HEIGHT
    MaxStack,       \* bound: objects on the stack
    MaxHost,        \* bound: references the host owns to one object
    MaxRefs,        \* bound: an object's reference count, for what is leaked
    Discipline

ASSUME IndexAssumption ==
    /\ Indices \subseteq Int /\ Policies \subseteq {"borrow", "take", "take if ok"}
    /\ {Push, Discard, OutOfBounds} \cap Int = {}
    /\ Push # Discard /\ OutOfBounds \notin {Push, Discard}
    /\ Nil \notin Objects

ASSUME FunctionAssumption ==
    /\ Signature \in [Functions -> [positional : Seq(Types), named : Seq(Types), returns : Types]]
    /\ MethodReqs \subseteq Functions
    /\ \A f \in MethodReqs :    \* YmType::isCallable: their call object is the first
            Signature[f].positional # <<>> /\ Head(Signature[f].positional) \in Protocols
    /\ PTable \in [MethodReqs -> [Types \ Protocols -> Functions]]
    /\ IsFiniteSet(Vars) /\ Vars \cap Functions = {} /\ VarType \in [Vars -> Types]
    /\ Initializer \in [Vars -> Functions \ MethodReqs]

\* YmParcelDef::_addVar declares a var and its initializer with one type.
ASSUME InitializerAssumption == \A v \in Vars : Signature[Initializer[v]].returns = VarType[v]

ASSUME BoundAssumption == MaxCallStack \in Nat \ {0} /\ {MaxStack, MaxHost, MaxRefs} \subseteq Nat

ASSUME DisciplineAssumption ==
    Discipline \subseteq {"keeps what it borrows", "leaves room", "keeps its args",
                          "initializes vars", "reads vars", "releases"}

VARIABLES
    heap,
    stk,            \* _globalObjStk
    frames,         \* _callStk
    vars,           \* the storage of _vars
    host,           \* how many references to each object the host owns
    result          \* what the last API call returned

ctxVars == <<heap, stk, frames, vars, host, result>>

(***************************************************************************)
(* A frame: the fn called, how many args and dummies it has below          *)
(* localsOffset, where its result goes, whether it was forwarded from a    *)
(* protocol, the return value bound so far, and what the code that made    *)
(* the call does with the result. entry is the caller's local stack when   *)
(* the host made the call; nothing reads it but the properties.            *)
(***************************************************************************)
UserFrame ==
    [fn |-> Nil, args |-> 0, dummies |-> 0, returnTo |-> Push, localsOffset |-> 0,
     fwdFromProto |-> FALSE, returnValue |-> Nil, then |-> <<>>, entry |-> <<>>]

Frame == Last(frames)
IsUser == Len(frames) = 1
Locals == Len(stk) - Frame.localsOffset
LocalStack == SubSeq(stk, Frame.localsOffset + 1, Len(stk))

\* YmCtx::_absIndex: an index from 0 up, whatever the sign it was given with.
AbsIndex(where, locals) ==
    IF where \in {Push, Discard} THEN where
    ELSE IF where >= locals \/ locals + where < 0 THEN OutOfBounds
    ELSE IF where >= 0 THEN where ELSE locals + where

Wheres == Indices \cup {Push, Discard}

Init ==
    /\ heap = [o \in Objects |-> Nothing]
    /\ stk = <<>>
    /\ frames = <<UserFrame>>
    /\ vars = [v \in Vars |-> Nil]
    /\ host = [o \in Objects |-> 0]
    /\ result = "ok"

--------------------------------------------------------------------------------
(***************************************************************************)
(* What the API fns are made of, on a machine m: heap and stk at some      *)
(* point inside a call, and whether the last of them succeeded.            *)
(***************************************************************************)
Machine == [heap |-> heap, stk |-> stk, ok |-> TRUE]

ReleasedIn(m, os) == [m EXCEPT !.heap = Released(m.heap, os)]

Popped(m, n) ==
    LET rest == Len(m.stk) - n
    IN [ReleasedIn(m, Reverse(SubSeq(m.stk, rest + 1, Len(m.stk)))) EXCEPT
            !.stk = SubSeq(m.stk, 1, rest)]

Pushed(m, o) == [m EXCEPT !.stk = Append(m.stk, o)]

Borrowed(m, o, policy) ==
    IF policy = "borrow" THEN [m EXCEPT !.heap = Secured(m.heap, o)] ELSE m

\* YmCtx::put of o in the frame whose locals start at offset.
PutIn(m, offset, where, o, policy) ==
    LET at == AbsIndex(where, Len(m.stk) - offset)
        pos == offset + at + 1
    IN CASE at = Discard -> IF policy = "borrow" THEN m ELSE ReleasedIn(m, <<o>>)
         [] at = Push -> Borrowed(Pushed(m, o), o, policy)
         [] at = OutOfBounds ->
                [(IF policy = "take" THEN ReleasedIn(m, <<o>>) ELSE m) EXCEPT !.ok = FALSE]
         [] OTHER ->
                Borrowed([ReleasedIn(m, <<m.stk[pos]>>) EXCEPT !.stk[pos] = o], o, policy)

\* The same in the current frame.
PutNow(m, where, o, policy) == PutIn(m, Frame.localsOffset, where, o, policy)

Outcome(ok) == IF ok THEN "ok" ELSE "failed"

Becomes(m) ==
    /\ Len(m.stk) <= MaxStack /\ \A o \in Objects : m.heap[o].refs <= MaxRefs
    /\ heap' = m.heap /\ stk' = m.stk /\ result' = Outcome(m.ok)

\* An API call that fails before it changes anything.
Refused == result' = "failed" /\ UNCHANGED <<heap, stk, frames, vars, host>>

\* What the host offers a call: the object lives, and the host owns a reference
\* to it unless it lends it.
Offered(o, policy) == o \in Live(heap) /\ (policy # "borrow" => host[o] > 0)

\* The host pays with its reference.
Pays(o, policy, ok) ==
    host' = IF policy = "take" \/ (policy = "take if ok" /\ ok)
            THEN [host EXCEPT ![o] = @ - 1] ELSE host

Gets(o) == host[o] < MaxHost /\ host' = [host EXCEPT ![o] = @ + 1]

\* What the host's discipline promises of a call.
KeepsBorrowed(before, after, o, policy) ==
    "keeps what it borrows" \in Discipline /\ policy = "borrow" =>
        o \in Live(Released(before, after))
LeavesRoom(where, left) ==
    "leaves room" \in Discipline => AbsIndex(where, left) # OutOfBounds

--------------------------------------------------------------------------------
(***************************************************************************)
(* References the host holds itself.                                       *)
(***************************************************************************)

\* ymCtx_NewNone, ymCtx_NewInt, ...
New(type) ==
    \E os \in Room(heap, 1) :
        /\ Gets(os[1])
        /\ heap' = Created(heap, os[1], type, <<>>)
        /\ result' = "ok"
        /\ UNCHANGED <<stk, frames, vars>>

\* ymObj_Secure. A borrowed reference becomes one of the host's own.
Secure(o) ==
    /\ o \in Live(heap) /\ Gets(o)
    /\ heap' = Secured(heap, o)
    /\ result' = "ok"
    /\ UNCHANGED <<stk, frames, vars>>

\* ymObj_Release.
Release(o) ==
    /\ host[o] > 0
    /\ host' = [host EXCEPT ![o] = @ - 1]
    /\ Becomes(ReleasedIn(Machine, <<o>>))
    /\ UNCHANGED <<frames, vars>>

\* ymCtx_Local with YM_TAKE.
TakeLocal(where) ==
    LET at == AbsIndex(where, Locals) IN
    IF at \in {Push, Discard, OutOfBounds} THEN Refused
    ELSE Secure(LocalStack[at + 1])

\* Fault: off by one.
ArgWindowBelow == {pos \in Frame.localsOffset - Frame.args .. Frame.localsOffset - 1 : pos > 0}

\* The window of stk that holds the args and dummies of the current frame.
ArgWindow == Frame.localsOffset - Frame.args + 1 .. Frame.localsOffset

\* ymCtx_Arg with YM_TAKE. The first arg of a forwarded call is the protocol
\* value; the method is shown what it boxes.
TakeArg ==
    IF ArgWindow = {} THEN Refused
    ELSE \E pos \in ArgWindow :
            LET o == stk[pos] IN
            IF Frame.fwdFromProto /\ pos = Frame.localsOffset - Frame.args + 1
            THEN IF heap[o].type \in Protocols THEN Secure(heap[o].slots[1]) ELSE Refused
            ELSE Secure(o)

--------------------------------------------------------------------------------
(***************************************************************************)
(* The local object stack.                                                 *)
(***************************************************************************)

\* Fault: limited by the whole stack, not by the locals.
PopPastLocals(n) ==
    /\ Becomes(Popped(Machine, IF n > Len(stk) THEN Len(stk) ELSE n))
    /\ UNCHANGED <<frames, vars, host>>

\* ymCtx_Pop and ymCtx_PopAll.
Pop(n) ==
    /\ Becomes(Popped(Machine, IF n > Locals THEN Locals ELSE n))
    /\ UNCHANGED <<frames, vars, host>>

\* ymCtx_Pull.
Pull ==
    IF Locals = 0 THEN Refused
    ELSE /\ Gets(Last(stk))
         /\ stk' = Front(stk)
         /\ result' = "ok"
         /\ UNCHANGED <<heap, frames, vars>>

\* ymCtx_Put.
Put(where, o, policy) ==
    LET m == PutNow(Machine, where, o, policy)
        at == AbsIndex(where, Locals)
    IN /\ Offered(o, policy)
       /\ at \in Int =>
            KeepsBorrowed(heap, <<stk[Frame.localsOffset + at + 1]>>, o, policy)
       /\ Pays(o, policy, m.ok)
       /\ Becomes(m)
       /\ UNCHANGED <<frames, vars>>

\* ymCtx_PutNone, ymCtx_PutInt, ..., ymCtx_DefaultInit.
PutNew(type, where) ==
    IF ~HasDefault(type) THEN Refused
    ELSE \E os \in Room(heap, 1) :
            /\ Becomes(PutNow([Machine EXCEPT !.heap = Created(heap, os[1], type, <<>>)],
                              where, os[1], "take"))
            /\ UNCHANGED <<frames, vars, host>>

\* ymCtx_Copy: lends Put what stands at from.
Copy(from, to) ==
    LET at == AbsIndex(from, Locals) IN
    IF at \in {Push, Discard, OutOfBounds} THEN Refused
    ELSE Put(to, LocalStack[at + 1], "borrow")

--------------------------------------------------------------------------------
(***************************************************************************)
(* Struct and protocol values.                                             *)
(***************************************************************************)

\* ymCtx_StructInit of a struct with stored properties; names are the properties
\* that the topmost locals are for. The new object steals them from the stack.
StructInit(type, names, where) ==
    LET n == Len(names)
        first == Len(stk) - n
        slots == [i \in 1..n |-> stk[first + (CHOOSE j \in 1..n : names[j] = i)]]
        stolen == [Machine EXCEPT !.stk = SubSeq(stk, 1, first)]
    IN IF \/ AbsIndex(where, Locals) = OutOfBounds
          \/ n > Locals
          \/ ~IsInjective(names) \/ n # Len(Properties[type])
          \/ \E j \in 1..n : heap[stk[first + j]].type # Properties[type][names[j]]
       THEN Refused
       ELSE \E os \in Room(heap, 1) :
                /\ LeavesRoom(where, Locals - n)
                /\ Becomes([PutNow([stolen EXCEPT !.heap = Created(heap, os[1], type, slots)],
                                   where, os[1], "take") EXCEPT !.ok = TRUE])
                /\ UNCHANGED <<frames, vars, host>>

\* Fault: the subject is off the stack before its type is looked at.
GetPropertyPopsFirst(type, i, where) ==
    LET m == Popped(Machine, 1) IN
    IF AbsIndex(where, Locals) = OutOfBounds \/ Locals = 0 THEN Refused
    ELSE IF heap[Last(stk)].type # type
    THEN Becomes([m EXCEPT !.ok = FALSE]) /\ UNCHANGED <<frames, vars, host>>
    ELSE /\ Becomes(PutNow(Popped(Borrowed(Machine, heap[Last(stk)].slots[i], "borrow"), 1),
                          where, heap[Last(stk)].slots[i], "take"))
         /\ UNCHANGED <<frames, vars, host>>

\* ymCtx_GetProperty of a stored property.
GetProperty(type, i, where) ==
    LET value == heap[Last(stk)].slots[i] IN
    IF AbsIndex(where, Locals) = OutOfBounds \/ Locals = 0 \/ heap[Last(stk)].type # type
    THEN Refused
    ELSE /\ LeavesRoom(where, Locals - 1)
         /\ Becomes([PutNow(Popped(Borrowed(Machine, value, "borrow"), 1), where, value, "take")
                        EXCEPT !.ok = TRUE])
         /\ UNCHANGED <<frames, vars, host>>

\* Fault: the value's type is not checked.
SetPropertyUnchecked(type, i) ==
    LET subject == stk[Len(stk) - 1]
        emptied == ReleasedIn(Machine, <<heap[subject].slots[i]>>)
    IN /\ Locals >= 2 /\ heap[subject].type = type
       /\ Becomes(Popped([emptied EXCEPT !.stk = Front(stk),
                                         !.heap[subject].slots[i] = Last(stk)], 1))
       /\ UNCHANGED <<frames, vars, host>>

\* ymCtx_SetProperty of a stored property: the slot steals the value.
SetProperty(type, i) ==
    LET subject == stk[Len(stk) - 1]
        value == Last(stk)
        emptied == ReleasedIn(Machine, <<heap[subject].slots[i]>>)
        stored == [emptied.heap EXCEPT ![subject].slots[i] = value]
    IN IF Locals < 2 THEN Refused
       ELSE IF heap[subject].type # type \/ heap[value].type # Properties[type][i]
       THEN Refused
       ELSE /\ Becomes(Popped([emptied EXCEPT !.stk = Front(stk), !.heap = stored], 1))
            /\ UNCHANGED <<frames, vars, host>>

\* ymCtx_Convert of the top of the stack: a new value of a primitive type.
Cast(type, where) ==
    \E os \in Room(heap, 1) :
        LET m == Popped(Machine, 1)
        IN Becomes(PutNow([m EXCEPT !.heap = Created(m.heap, os[1], type, <<>>)],
                          where, os[1], "take"))

\* T to P: the box takes the object off the stack.
Box(type, where) ==
    \E os \in Room(heap, 1) :
        Becomes(PutNow([Machine EXCEPT !.stk = Front(stk),
                                       !.heap = Created(heap, os[1], type, <<Last(stk)>>)],
                       where, os[1], "take"))

\* Fault: the stack takes the reference that the box owns.
UnboxStealing(where) ==
    LET old == Last(stk) IN
    Becomes(ReleasedIn(PutNow([Machine EXCEPT !.stk = Front(stk)], where,
                              heap[old].slots[1], "take"), <<old>>))

\* P to T: what was boxed is lent to the stack, then the box let go of.
Unbox(where) ==
    LET old == Last(stk) IN
    Becomes(ReleasedIn(PutNow([Machine EXCEPT !.stk = Front(stk)], where,
                              heap[old].slots[1], "borrow"), <<old>>))

\* P to P: a second box of what was boxed.
Rebox(type, where) ==
    LET old == Last(stk)
        boxed == heap[old].slots[1]
    IN \E os \in Room(heap, 1) :
        Becomes(ReleasedIn(PutNow([Machine EXCEPT
                    !.stk = Front(stk),
                    !.heap = Secured(Created(heap, os[1], type, <<boxed>>), boxed)],
                    where, os[1], "take"), <<old>>))

\* ymCtx_Convert.
Convert(type, where) ==
    LET input == Last(stk)
        from == heap[input].type
        boxed == heap[heap[input].slots[1]].type
    IN IF AbsIndex(where, Locals) = OutOfBounds \/ Locals = 0 THEN Refused
       ELSE IF ~Converts(from, type) THEN Refused
       ELSE IF from \in Protocols /\ from # type /\ type # None
               /\ (IF type \in Protocols THEN <<boxed, type>> \notin Conforming
                                         ELSE boxed # type)
       THEN Refused
       ELSE /\ LeavesRoom(where, Locals - 1)
            /\ IF from = type
               THEN Becomes(PutNow([Machine EXCEPT !.stk = Front(stk)], where, input, "take"))
               ELSE IF type = None THEN Cast(None, where)
               ELSE IF from \in Protocols
               THEN IF type \in Protocols THEN Rebox(type, where) ELSE Unbox(where)
               ELSE IF type \in Protocols THEN Box(type, where) ELSE Cast(type, where)
            /\ UNCHANGED <<frames, vars, host>>

--------------------------------------------------------------------------------
(***************************************************************************)
(* Calls.                                                                  *)
(***************************************************************************)

\* What _beginCall pushes for the named params that names leaves out, and then
\* _dispatchCall for all those of the method a requirement is forwarded to.
Dummies(f, target, names) ==
    Len(Signature[f].named) - Len(names)
        + (IF f \in MethodReqs THEN Len(Signature[target].named) ELSE 0)

\* The method that is called. A box keeps the ptable of the type it boxed, which is
\* the type of what it boxes, unless that is gone; then it may be any ptable.
Targets(f, callobj) ==
    LET type == heap[heap[callobj].slots[1]].type IN
    IF f \notin MethodReqs THEN {f}
    ELSE {PTable[f][t] : t \in IF type \in Types \ Protocols THEN {type} ELSE Types \ Protocols}

\* _beginCall and _dispatchCall, once the call is found in order. The frames
\* below are those of the caller when the callee starts.
Enter(f, given, names, returnTo, below, then) ==
    \E target \in Targets(f, stk[Len(stk) - given + 1]) :
    LET dummies == Dummies(f, target, names) IN
    \E os \in Room(heap, dummies) :
        /\ Len(below) + dummies <= MaxStack
        /\ heap' = [o \in Objects |-> IF \E i \in DOMAIN os : os[i] = o
                                      THEN Created(heap, o, None, <<>>)[o] ELSE heap[o]]
        /\ stk' = below \o os
        /\ frames' = Append(frames,
                [fn |-> target, args |-> given + dummies, dummies |-> dummies,
                 returnTo |-> returnTo, localsOffset |-> Len(below) + dummies,
                 fwdFromProto |-> f \in MethodReqs, returnValue |-> Nil,
                 then |-> then, entry |-> LocalStack])
        /\ result' = "calling"
        /\ UNCHANGED <<vars, host>>

\* ymCtx_Call up to the call behaviour. The topmost locals are the positional
\* args and, in the order of names, the named ones.
BeginCall(f, names, returnTo) ==
    LET sig == Signature[f]
        given == Len(sig.positional) + Len(names)
        expected == sig.positional \o [j \in 1..Len(names) |-> sig.named[names[j]]]
    IN IF \/ AbsIndex(returnTo, Locals) = OutOfBounds
          \/ given > Locals
          \/ Len(frames) = MaxCallStack
          \/ ~IsInjective(names)
          \/ \E i \in 1..given : heap[stk[Len(stk) - given + i]].type # expected[i]
       THEN Refused
       ELSE /\ LeavesRoom(returnTo, Locals - given)
            /\ Enter(f, given, names, returnTo, stk, <<>>)

\* ymCtx_SetArg.
SetArg(o, policy) ==
    /\ Offered(o, policy)
    /\ UNCHANGED <<frames, vars>>
    /\ IF ArgWindow = {}
       THEN /\ Pays(o, policy, FALSE)
            /\ Becomes([(IF policy = "take" THEN ReleasedIn(Machine, <<o>>) ELSE Machine)
                            EXCEPT !.ok = FALSE])
       ELSE \E pos \in ArgWindow :
            /\ Pays(o, policy, TRUE)
            /\ Becomes([ReleasedIn(Borrowed(Machine, o, policy), <<stk[pos]>>)
                            EXCEPT !.stk[pos] = o])

\* Fault: a return value bound before is overwritten.
RetOverwriting(o, policy) ==
    /\ Offered(o, policy) /\ ~IsUser
    /\ Pays(o, policy, TRUE)
    /\ Becomes(Borrowed(Machine, o, policy))
    /\ frames' = [frames EXCEPT ![Len(frames)].returnValue = o]
    /\ UNCHANGED vars

\* ymCtx_Ret.
Ret(o, policy) ==
    LET old == Frame.returnValue
        dropped == IF old = Nil THEN Machine ELSE ReleasedIn(Machine, <<old>>)
    IN /\ Offered(o, policy)
       /\ UNCHANGED vars
       /\ IF IsUser
          THEN /\ Pays(o, policy, FALSE)
               /\ Becomes([(IF policy = "take" THEN ReleasedIn(Machine, <<o>>) ELSE Machine)
                               EXCEPT !.ok = FALSE])
               /\ UNCHANGED frames
          ELSE /\ old # Nil => KeepsBorrowed(heap, <<old>>, o, policy)
               /\ Pays(o, policy, TRUE)
               /\ Becomes(Borrowed(dropped, o, policy))
               /\ frames' = [frames EXCEPT ![Len(frames)].returnValue = o]

--------------------------------------------------------------------------------
(***************************************************************************)
(* Stored vars.                                                            *)
(***************************************************************************)

\* Fault: what is in the storage is not secured for the stack.
GotVarUnsecured(m, offset, o, where) ==
    IF o = Nil THEN [m EXCEPT !.ok = FALSE] ELSE PutIn(m, offset, where, o, "take")

\* VarStorage::pull once the storage has been initialized: lends what is there
\* to put. With nothing there, put fails.
GotVar(m, offset, o, where) ==
    IF o = Nil THEN [m EXCEPT !.ok = FALSE]
    ELSE PutIn(Borrowed(m, o, "borrow"), offset, where, o, "take")

\* VarStorage::initialize when its call is over, and what GetVar or SetVar then
\* does. It pulls the top of the local stack, whatever the call came to.
Resume(m, offset, then) ==
    LET some == Len(m.stk) > offset
        pulled == [m EXCEPT !.stk = IF some THEN Front(m.stk) ELSE m.stk, !.ok = TRUE]
        stored == IF some THEN [vars EXCEPT ![then.var] = Last(m.stk)] ELSE vars
    IN IF then.op = "get"
       THEN /\ vars' = stored
            /\ Becomes(GotVar(pulled, offset, stored[then.var], then.where))
       ELSE /\ vars' = [stored EXCEPT ![then.var] = then.value]
            /\ Becomes(pulled)

\* VarStorage::initialize up to the initializer's behaviour; with the call stack
\* at its limit the call fails at once. below is the stack without what the
\* caller has pulled off it.
Initialize(v, below, then) ==
    IF Len(frames) = MaxCallStack
    THEN /\ "initializes vars" \notin Discipline
         /\ Resume([Machine EXCEPT !.stk = below], Frame.localsOffset, then)
         /\ UNCHANGED <<frames, host>>
    ELSE /\ "initializes vars" \in Discipline =>
                \A k \in DOMAIN frames : frames[k].then # <<>> => frames[k].then.var # v
         /\ Enter(Initializer[v], 0, <<>>, Push, below, then)

\* ymCtx_GetVar.
GetVar(v, where) ==
    IF AbsIndex(where, Locals) = OutOfBounds THEN Refused
    ELSE IF vars[v] = Nil
    THEN Initialize(v, stk, [op |-> "get", var |-> v, where |-> where])
    ELSE /\ Becomes(GotVar(Machine, Frame.localsOffset, vars[v], where))
         /\ UNCHANGED <<frames, vars, host>>

\* Fault: the value's type is not checked.
SetVarUnchecked(v) ==
    /\ Locals > 0 /\ vars[v] # Nil /\ "reads vars" \notin Discipline
    /\ vars' = [vars EXCEPT ![v] = Last(stk)]
    /\ Becomes([Machine EXCEPT !.stk = Front(stk)])
    /\ UNCHANGED <<frames, host>>

\* ymCtx_SetVar.
SetVar(v) ==
    IF Locals = 0 THEN Refused
    ELSE IF heap[Last(stk)].type # VarType[v] THEN Refused
    ELSE /\ "reads vars" \notin Discipline
         /\ IF vars[v] = Nil
            THEN Initialize(v, Front(stk), [op |-> "set", var |-> v, value |-> Last(stk)])
            ELSE /\ vars' = [vars EXCEPT ![v] = Last(stk)]
                 /\ Becomes([Machine EXCEPT !.stk = Front(stk)])
                 /\ UNCHANGED <<frames, host>>

--------------------------------------------------------------------------------
(***************************************************************************)
(* The end of a call, and of the context.                                  *)
(***************************************************************************)

\* Fault: a call that fails leaves its dummies on the stack.
ReturnedWithDummies(offset) ==
    LET m == Popped(Machine, Locals)
        o == Frame.returnValue
    IN IF o = Nil THEN [m EXCEPT !.ok = FALSE]
       ELSE IF m.heap[o].type # Signature[Frame.fn].returns
       THEN [ReleasedIn(m, <<o>>) EXCEPT !.ok = FALSE]
       ELSE PutIn(Popped(m, Frame.args), offset, Frame.returnTo, o, "take")

\* _endCall, on the machine and into the caller's frame, which starts at offset.
Returned(offset) ==
    LET m == Popped(Machine, Locals)
        o == Frame.returnValue
    IN IF o = Nil THEN [Popped(m, Frame.dummies) EXCEPT !.ok = FALSE]
       ELSE IF m.heap[o].type # Signature[Frame.fn].returns
       THEN [ReleasedIn(Popped(m, Frame.dummies), <<o>>) EXCEPT !.ok = FALSE]
       ELSE PutIn(Popped(m, Frame.args), offset, Frame.returnTo, o, "take")

\* The given args are those the call was made with.
ArgsKept ==
    LET given == Frame.args - Frame.dummies
        first == Frame.localsOffset - Frame.args
    IN SubSeq(stk, first + 1, first + given)
        = SubSeq(Frame.entry, Len(Frame.entry) - given + 1, Len(Frame.entry))

\* The call behaviour returns to ymCtx_Call.
EndCall ==
    LET caller == frames[Len(frames) - 1].localsOffset
        m == Returned(caller)
    IN /\ ~IsUser
       /\ ~m.ok /\ Frame.then = <<>> /\ "keeps its args" \in Discipline => ArgsKept
       /\ ~m.ok /\ Frame.then # <<>> => "initializes vars" \notin Discipline
       /\ frames' = Front(frames)
       /\ UNCHANGED host
       /\ IF Frame.then = <<>> THEN Becomes(m) /\ UNCHANGED vars
                               ELSE Resume(m, caller, Frame.then)

\* Fault: the storage of the vars is not reset.
ResetWithoutVars(m, inVars, left) == DropAll[<<m.heap, left>>]

\* YmCtx::reset, called by the destructor: the stack goes, the vars, and then in
\* the order of an unordered_set each object that is left, as often as counted.
Reset(m, inVars, left) == DropAll[<<Released(m.heap, inVars), left>>]

\* The host lets go of the context, and creates another.
Destroy ==
    LET m == Popped(Machine, Locals)
    IN /\ IsUser
       /\ \E inUse \in SetToSeqs({v \in Vars : vars[v] # Nil}) :
            LET inVars == [i \in DOMAIN inUse |-> vars[inUse[i]]]
                left == Live(Released(m.heap, inVars))
            IN /\ "releases" \in Discipline => \A o \in left : heap[o].slots = <<>>
               /\ \E order \in SetToSeqs(left) : heap' = Reset(m, inVars, order)
       /\ stk' = m.stk
       /\ frames' = <<UserFrame>>
       /\ vars' = [v \in Vars |-> Nil]
       /\ host' = [o \in Objects |-> 0]
       /\ result' = "gone"

--------------------------------------------------------------------------------
NameLists(n) == UNION {[1..k -> 1..n] : k \in 0..n}

HostCalls ==
    \/ \E type \in Primitives : New(type)
    \/ \E o \in Objects : Secure(o) \/ Release(o)
    \/ TakeArg
    \/ \E where \in Wheres : TakeLocal(where)

StackCalls ==
    \/ \E n \in 1..MaxStack : Pop(n)
    \/ Pull
    \/ \E where \in Wheres, o \in Objects, policy \in Policies : Put(where, o, policy)
    \/ \E where \in Wheres, type \in Types : PutNew(type, where)
    \/ \E from, to \in Wheres : Copy(from, to)

ValueCalls ==
    \/ \E type \in Structs, where \in Wheres :
        \E names \in NameLists(Len(Properties[type])) :
            Properties[type] # <<>> /\ StructInit(type, names, where)
    \/ \E type \in Structs : \E i \in DOMAIN Properties[type] :
        \/ \E where \in Wheres : GetProperty(type, i, where)
        \/ SetProperty(type, i)
    \/ \E type \in Types, where \in Wheres : Convert(type, where)

FnCalls ==
    \/ \E f \in Functions, returnTo \in Wheres :
        \E names \in NameLists(Len(Signature[f].named)) : BeginCall(f, names, returnTo)
    \/ \E o \in Objects, policy \in Policies : SetArg(o, policy) \/ Ret(o, policy)
    \/ EndCall

VarCalls == \E v \in Vars : SetVar(v) \/ \E where \in Wheres : GetVar(v, where)

Next == HostCalls \/ StackCalls \/ ValueCalls \/ FnCalls \/ VarCalls \/ Destroy

Spec == Init /\ [][Next]_ctxVars

--------------------------------------------------------------------------------
(***************************************************************************)
(* Properties.                                                             *)
(***************************************************************************)

\* Who owns a reference to o: the host, the stack, the vars, the return values
\* bound, a value on its way into a var, the slots of other objects.
Owners(o) ==
    host[o]
    + Cardinality({i \in DOMAIN stk : stk[i] = o})
    + Cardinality({v \in Vars : vars[v] = o})
    + Cardinality({k \in DOMAIN frames : frames[k].returnValue = o})
    + Cardinality({k \in DOMAIN frames : /\ frames[k].then # <<>>
                                         /\ frames[k].then.op = "set"
                                         /\ frames[k].then.value = o})
    + Cardinality(UNION {{p} \X {i \in DOMAIN heap[p].slots : heap[p].slots[i] = o} :
                            p \in Objects})

\* An object's count is the number of its owners, and it lives as long as that
\* is not 0: nothing leaks, nothing dangles, nothing is released twice, across
\* the ownership policies, the args and dummies of calls, return values and
\* their failures, and the stealing of references by structs and boxes.
RefsMatchOwners ==
    \A o \in Objects :
        /\ heap[o].refs = Owners(o)
        /\ heap[o].refs > 0 <=> o \in Live(heap)

\* No owner is left with an object that is gone, and no count moves at an
\* address where nothing lives.
NothingDangles ==
    \A o \in Objects :
        /\ heap[o].refs >= Owners(o)
        /\ heap[o].refs > 0 <=> o \in Live(heap)

\* Every struct holds values of its properties' types and every protocol value
\* boxes what conforms to it, whatever is stored, boxed, unboxed and boxed again.
ValuesAreWellFormed == \A o \in Objects : WellFormed(heap, o)

Floor(frame) == frame.localsOffset - frame.args

\* The frames divide the one stack: a callee's args and dummies lie within the
\* locals of its caller, its own locals above them (YmCtx.h, localsOffset).
FramesNested ==
    /\ \A k \in 1..Len(frames) - 1 : frames[k].localsOffset <= Floor(frames[k + 1])
    /\ Frame.localsOffset <= Len(stk)

\* No call of the host, whatever it passes, touches the stack below the args of
\* a frame that goes on, or the frames of its callers.
CallersUntouched ==
    [][\A k \in 2..Len(frames) :
            k <= Len(frames') =>
                /\ SubSeq(stk', 1, Floor(frames[k])) = SubSeq(stk, 1, Floor(frames[k]))
                /\ frames'[k - 1] = frames[k - 1]]_ctxVars

\* What put does to a stack, of the objects only.
Placed(s, where, o) ==
    LET at == AbsIndex(where, Len(s)) IN
    CASE at = Push -> Append(s, o)
      [] at = Discard -> s
      [] OTHER -> ReplaceAt(s, at + 1, o)

\* ymCtx_Call: "...positionalArgs ...namedArgs -- result->returnTo". Whatever the
\* callee did in between, and with the dummies pushed for it, a call that
\* succeeds takes its args off the stack the caller had and loads a result of
\* the fn's return type, and one that fails leaves the caller's stack alone. So
\* for ymCtx_GetVar and ymCtx_SetVar across an initializer.
CallHasItsStackEffect ==
    [][Len(frames') < Len(frames) =>
        LET after == SubSeq(stk', Last(frames').localsOffset + 1, Len(stk'))
            given == Frame.args - Frame.dummies
            o == Frame.returnValue
        IN IF result' = "failed" THEN after = Frame.entry
           ELSE IF Frame.then = <<>>
           THEN /\ after = Placed(SubSeq(Frame.entry, 1, Len(Frame.entry) - given),
                                  Frame.returnTo, o)
                /\ heap[o].type = Signature[Frame.fn].returns
           ELSE IF Frame.then.op = "get"
           THEN after = Placed(Frame.entry, Frame.then.where, vars'[Frame.then.var])
           ELSE after = Front(Frame.entry) /\ vars'[Frame.then.var] = Last(Frame.entry)
      ]_ctxVars

\* "API fns w/ stack effects by default do NOT modify the stack, at all, in the
\* event of the API fn failing" (yama.h:979).
FailureLeavesStack ==
    [][result' = "failed" /\ Len(frames') = Len(frames) => stk' = stk]_ctxVars

\* A var's value is of the var's type.
VarsKeepTheirType ==
    \A v \in Vars : vars[v] # Nil => heap[vars[v]].type = VarType[v]

\* The destructor leaves no object behind, and touches none that is gone.
DestroyedIsEmpty == result = "gone" => stk = <<>> /\ \A o \in Objects : heap[o] = Nothing

================================================================================
