------------------------------ MODULE CallProofs ------------------------------
(***************************************************************************)
(* Calls, and the vars that wait for one. A var waits for one initializer  *)
(* at most, nothing leaks with a host that lets its vars be initialized    *)
(* and then only reads them, the vars keep their types, and nothing        *)
(* outlives its context. An API call that fails leaves the stack alone,    *)
(* and a call of a fn has the effect on the caller's stack it should.      *)
(***************************************************************************)
EXTENDS OwnershipProofs

--------------------------------------------------------------------------------
(* What a step may do to the vars *)

\* The frames and the vars stay, and the context too.
Quiet == UNCHANGED <<frames, vars>> /\ result' # "gone"

\* What an API call returns.
LEMMA BecomesReturns ==
  /\ \A m : Becomes(m) => result' # "gone"
  /\ Refused => Quiet
  BY DEF Becomes, Outcome, Refused, Quiet

\* The host's own references are none of the vars'.
LEMMA HostCallsQuiet == HostCalls => Quiet
  <1>1. ASSUME NEW type, New(type) PROVE Quiet
    BY <1>1 DEF New, Quiet
  <1>2. ASSUME NEW o, Secure(o) PROVE Quiet
    BY <1>2 DEF Secure, Quiet
  <1>3. ASSUME NEW o, Release(o) PROVE Quiet
    BY <1>3, BecomesReturns DEF Release, Quiet
  <1>4. ASSUME NEW where, TakeLocal(where) PROVE Quiet
    BY <1>2, <1>4, BecomesReturns, Zenon DEF TakeLocal
  <1>5. ASSUME TakeArg PROVE Quiet
    BY <1>2, <1>5, BecomesReturns, Zenon DEF TakeArg
  <1> QED
    BY <1>1, <1>2, <1>3, <1>4, <1>5 DEF HostCalls

\* Nor is the stack.
LEMMA StackCallsQuiet == StackCalls => Quiet
  <1>1. ASSUME NEW n, Pop(n) PROVE Quiet
    BY <1>1, BecomesReturns DEF Pop, Quiet
  <1>2. ASSUME Pull PROVE Quiet
    BY <1>2, BecomesReturns DEF Pull, Quiet
  <1>3. ASSUME NEW where, NEW o, NEW policy, Put(where, o, policy) PROVE Quiet
    BY <1>3, BecomesReturns, Zenon DEF Put, Quiet
  <1>4. ASSUME NEW where, NEW type, PutNew(type, where) PROVE Quiet
    BY <1>4, BecomesReturns, Zenon DEF PutNew, Quiet
  <1>5. ASSUME NEW from, NEW to, Copy(from, to) PROVE Quiet
    BY <1>3, <1>5, BecomesReturns, Zenon DEF Copy
  <1> QED
    BY <1>1, <1>2, <1>3, <1>4, <1>5 DEF StackCalls

\* Nor are values.
LEMMA ValueCallsQuiet == ValueCalls => Quiet
  <1>1. ASSUME NEW type, NEW names, NEW where, StructInit(type, names, where) PROVE Quiet
    BY <1>1, BecomesReturns, Zenon DEF StructInit, Quiet
  <1>2. ASSUME NEW type, NEW i, NEW where, GetProperty(type, i, where) PROVE Quiet
    BY <1>2, BecomesReturns, Zenon DEF GetProperty, Quiet
  <1>3. ASSUME NEW type, NEW i, SetProperty(type, i) PROVE Quiet
    BY <1>3, BecomesReturns, Zenon DEF SetProperty, Quiet
  <1>4. ASSUME NEW type, NEW where, Convert(type, where) PROVE Quiet
    <2>1. ASSUME NEW t, Cast(t, where) PROVE result' # "gone"
      BY <2>1, BecomesReturns, Zenon DEF Cast
    <2>2. ASSUME Rebox(type, where) PROVE result' # "gone"
      BY <2>2, BecomesReturns, Zenon DEF Rebox
    <2>3. ASSUME Unbox(where) PROVE result' # "gone"
      BY <2>3, BecomesReturns, Zenon DEF Unbox
    <2>4. ASSUME Box(type, where) PROVE result' # "gone"
      BY <2>4, BecomesReturns, Zenon DEF Box
    <2> QED
      BY <1>4, <2>1, <2>2, <2>3, <2>4, BecomesReturns, Zenon DEF Convert, Quiet
  <1> QED
    BY <1>1, <1>2, <1>3, <1>4 DEF ValueCalls

\* The current frame goes on, with a return value bound or not.
Calm ==
    /\ UNCHANGED vars /\ result' # "gone"
    /\ \/ frames' = frames
       \/ \E o : frames' = [frames EXCEPT ![Len(frames)].returnValue = o]

\* SetArg and Ret.
LEMMA BindingIsCalm ==
  ASSUME NEW o, NEW policy, SetArg(o, policy) \/ Ret(o, policy)
  PROVE  Calm
  <1>1. CASE SetArg(o, policy)
    BY <1>1, BecomesReturns, Zenon DEF SetArg, Calm
  <1>2. CASE Ret(o, policy)
    BY <1>2, BecomesReturns, Zenon DEF Ret, Calm
  <1> QED
    BY <1>1, <1>2

--------------------------------------------------------------------------------
(* Who waits for an initializer *)

InitializesVars == "initializes vars" \in Discipline
ReadsVars == "reads vars" \in Discipline

Writes(next) == next.op = "set"

\* A frame that a call adds: none waits for it, or a var that no other waits for.
Begins(f) ==
    f.then # <<>> =>
        /\ f.then.var \in Vars /\ vars[f.then.var] = Nil
        /\ f.fn = Initializer[f.then.var] /\ f.returnTo = Push
        /\ Writes(f.then) => heap[f.then.value].type = VarType[f.then.var]
        /\ ReadsVars => Reads(f.then)
        /\ \A k \in DOMAIN frames : frames[k].then # <<>> => frames[k].then.var # f.then.var

Adds ==
    /\ UNCHANGED vars /\ result' # "gone"
    /\ \E f : frames' = Append(frames, f) /\ Begins(f)

\* A var in use is set.
Assigns ==
    /\ UNCHANGED frames /\ result' # "gone" /\ ~ReadsVars
    /\ \E v \in Vars : /\ vars[v] # Nil /\ vars' = [vars EXCEPT ![v] = Last(stk)]
                       /\ heap[Last(stk)].type = VarType[v]

\* What enters a fn.
LEMMA EnterAdds ==
  ASSUME NEW f, NEW given, NEW names, NEW returnTo, NEW below, NEW next,
         Enter(f, given, names, returnTo, below, next),
         \A target \in Targets(f, stk[Len(stk) - given + 1]) :
            \A g : g.fn = target /\ g.then = next /\ g.returnTo = returnTo => Begins(g)
  PROVE  Adds
  <1>1. PICK target \in Targets(f, stk[Len(stk) - given + 1]) :
            /\ UNCHANGED vars /\ result' = "calling"
            /\ \E a, d, l, p, e : frames' = Append(frames,
                    [fn |-> target, args |-> a, dummies |-> d,
                     returnTo |-> returnTo, localsOffset |-> l,
                     fwdFromProto |-> p, returnValue |-> Nil,
                     then |-> next, entry |-> e])
    BY Zenon DEF Enter
  <1>2. PICK a, d, l, p, e : frames' = Append(frames,
                    [fn |-> target, args |-> a, dummies |-> d,
                     returnTo |-> returnTo, localsOffset |-> l,
                     fwdFromProto |-> p, returnValue |-> Nil,
                     then |-> next, entry |-> e])
    BY <1>1
  <1> DEFINE g == [fn |-> target, args |-> a, dummies |-> d,
                   returnTo |-> returnTo, localsOffset |-> l,
                   fwdFromProto |-> p, returnValue |-> Nil, then |-> next, entry |-> e]
  <1>3. g.fn = target /\ g.then = next /\ g.returnTo = returnTo
    OBVIOUS
  <1>4. frames' = Append(frames, g)
    BY <1>2
  <1> HIDE DEF g
  <1>5. Begins(g)
    BY <1>3
  <1> QED
    BY <1>1, <1>4, <1>5 DEF Adds

\* A call of the host.
LEMMA BeginCallAdds ==
  ASSUME NEW f, NEW names, NEW returnTo, BeginCall(f, names, returnTo)
  PROVE  Calm \/ Adds
  <1>1. CASE Refused
    BY <1>1, BecomesReturns DEF Quiet, Calm
  <1>2. CASE ~Refused
    <2> DEFINE given == Len(Signature[f].positional) + Len(names)
               none == <<>>
    <2>1. Enter(f, given, names, returnTo, stk, none)
      BY <1>2, Zenon DEF BeginCall
    <2>2. \A g : g.then = none => Begins(g)
      BY DEF Begins
    <2> HIDE DEF given, none
    <2> QED
      BY <2>1, <2>2, EnterAdds
  <1> QED
    BY <1>1, <1>2

\* A call of an initializer.
LEMMA InitializeAdds ==
  ASSUME InitializesVars, NEW v \in Vars, NEW below, NEW next, Initialize(v, below, next),
         next # <<>>, next.var = v, vars[v] = Nil, ReadsVars => Reads(next),
         Writes(next) => heap[next.value].type = VarType[v]
  PROVE  Adds
  <1> DEFINE f == Initializer[v]
             none == <<>>
  <1>1. /\ \A k \in DOMAIN frames : frames[k].then # <<>> => frames[k].then.var # v
        /\ Enter(f, 0, none, Push, below, next)
    BY Zenon DEF Initialize, InitializesVars
  <1>2. f \notin MethodReqs
    BY FunctionAssumption
  <1> HIDE DEF none
  <1>3. \A o : Targets(f, o) = {f}
    BY <1>2 DEF Targets
  <1>4. ASSUME NEW g, g.fn = f, g.then = next, g.returnTo = Push PROVE Begins(g)
    BY <1>1, <1>4 DEF Begins
  <1> HIDE DEF f
  <1>5. \A target \in Targets(f, stk[Len(stk) - 0 + 1]) :
            \A g : g.fn = target /\ g.then = next /\ g.returnTo = Push => Begins(g)
    BY <1>3, <1>4
  <1> QED
    BY <1>1, <1>5, EnterAdds

\* ymCtx_GetVar.
LEMMA GetVarKind ==
  ASSUME InitializesVars, NEW v \in Vars, NEW where, GetVar(v, where)
  PROVE  Calm \/ Adds
  <1>1. CASE Refused
    BY <1>1, BecomesReturns DEF Quiet, Calm
  <1>2. CASE ~Refused /\ vars[v] = Nil
    <2> DEFINE next == [op |-> "get", var |-> v, where |-> where]
    <2>1. Initialize(v, stk, next)
      BY <1>2, Zenon DEF GetVar
    <2>2. next # <<>> /\ next.var = v /\ Reads(next) /\ ~Writes(next)
      BY DEF Reads, Writes
    <2> HIDE DEF next
    <2> QED
      BY <1>2, <2>1, <2>2, InitializeAdds
  <1>3. CASE ~Refused /\ vars[v] # Nil
    BY <1>3, BecomesReturns, Zenon DEF GetVar, Calm
  <1> QED
    BY <1>1, <1>2, <1>3

\* ymCtx_SetVar.
LEMMA SetVarKind ==
  ASSUME InitializesVars, NEW v \in Vars, SetVar(v)
  PROVE  Calm \/ Adds \/ Assigns
  <1>1. CASE Refused
    BY <1>1, BecomesReturns DEF Quiet, Calm
  <1>2. ASSUME ~Refused PROVE heap[Last(stk)].type = VarType[v] /\ ~ReadsVars
    BY <1>2, Zenon DEF SetVar, ReadsVars
  <1>3. CASE ~Refused /\ vars[v] = Nil
    <2> DEFINE next == [op |-> "set", var |-> v, value |-> Last(stk)]
               below == Front(stk)
    <2>1. Initialize(v, below, next)
      BY <1>3, Zenon DEF SetVar
    <2>2. next # <<>> /\ next.var = v /\ next.value = Last(stk)
      OBVIOUS
    <2> HIDE DEF next, below
    <2> QED
      BY <1>2, <1>3, <2>1, <2>2, InitializeAdds
  <1>4. CASE ~Refused /\ vars[v] # Nil
    <2>1. /\ vars' = [vars EXCEPT ![v] = Last(stk)] /\ UNCHANGED frames
          /\ result' # "gone"
      BY <1>4, BecomesReturns, Zenon DEF SetVar
    <2> QED
      BY <1>2, <1>4, <2>1 DEF Assigns
  <1> QED
    BY <1>1, <1>3, <1>4

\* Every step is one of five kinds, if vars are initialized.
LEMMA StepKinds ==
  ASSUME InitializesVars, [Next]_ctxVars
  PROVE  \/ Calm \/ Adds \/ Assigns \/ EndCall \/ Destroy
         \/ UNCHANGED ctxVars
  <1>1. CASE HostCalls \/ StackCalls \/ ValueCalls
    BY <1>1, HostCallsQuiet, StackCallsQuiet, ValueCallsQuiet DEF Quiet, Calm
  <1>2. CASE FnCalls
    BY <1>2, BeginCallAdds, BindingIsCalm, Zenon DEF FnCalls
  <1>3. CASE VarCalls
    BY <1>3, GetVarKind, SetVarKind, Zenon DEF VarCalls
  <1> QED
    BY <1>1, <1>2, <1>3 DEF Next

\* A frame that waits for its initializer's call to end: its var is empty, and it is the
\* only one that waits for it.
Awaiting ==
    /\ \A k \in 1..Len(frames) :
            frames[k].then # <<>> =>
                /\ frames[k].then.var \in Vars /\ vars[frames[k].then.var] = Nil
                /\ frames[k].fn = Initializer[frames[k].then.var] /\ frames[k].returnTo = Push
                /\ ReadsVars => Reads(frames[k].then)
    /\ \A j, k \in 1..Len(frames) :
            j < k /\ frames[j].then # <<>> /\ frames[k].then # <<>>
                => frames[j].then.var # frames[k].then.var

\* A frame and what it is for.
SameCall(f, g) ==
    /\ f.fn = g.fn /\ f.returnTo = g.returnTo /\ f.then = g.then /\ f.entry = g.entry
    /\ f.args = g.args /\ f.dummies = g.dummies /\ f.localsOffset = g.localsOffset

\* A calm step leaves the calls what they are.
LEMMA CalmFrames ==
  ASSUME FramesInv, Calm
  PROVE  /\ Len(frames') = Len(frames)
         /\ \A k \in 1..Len(frames) : SameCall(frames'[k], frames[k])
  <1> DEFINE n == Len(frames)
  <1>1. n \in Nat \ {0} /\ IsSeq(frames) /\ Frame = frames[n] /\ IsFrame(Frame)
    BY FrameFacts DEF FramesInv
  <1>2. CASE frames' = frames
    BY <1>2 DEF SameCall
  <1>3. ASSUME NEW o, frames' = [frames EXCEPT ![n].returnValue = o]
        PROVE  /\ Len(frames') = n
               /\ \A k \in 1..n : SameCall(frames'[k], frames[k])
    <2> DEFINE f == [Frame EXCEPT !.returnValue = o]
    <2>1. SameCall(f, Frame)
      BY <1>1 DEF IsFrame, SameCall
    <2>2. frames' = [frames EXCEPT ![n] = f]
      BY <1>1, <1>3
    <2> HIDE DEF f
    <2>3. Len(frames') = n /\ frames'[n] = f
      BY <1>1, <2>2 DEF IsSeq
    <2>4. \A k \in 1..n : k # n => frames'[k] = frames[k]
      BY <1>1, <2>2 DEF IsSeq
    <2> QED
      BY <1>1, <2>1, <2>3, <2>4 DEF SameCall
  <1> QED
    BY <1>2, <1>3 DEF Calm

\* A frame more.
LEMMA AddsFrame ==
  ASSUME FramesInv, NEW f, frames' = Append(frames, f)
  PROVE  /\ Len(frames) \in Nat /\ Len(frames') = Len(frames) + 1
         /\ frames'[Len(frames) + 1] = f
         /\ \A k \in 1..Len(frames) : frames'[k] = frames[k]
  <1>1. PICK S : frames \in Seq(S)
    BY DEF FramesInv, IsSeq
  <1>2. frames \in Seq(S \cup {f}) /\ f \in S \cup {f}
    BY <1>1
  <1> QED
    BY <1>2

\* The end of a call takes a frame away, and changes the var it is for alone.
LEMMA EndCallFrames ==
  ASSUME OwnInv, EndCall
  PROVE  /\ Len(frames) \in Nat /\ Len(frames) > 1 /\ Len(frames') = Len(frames) - 1
         /\ Frame = frames[Len(frames)]
         /\ \A k \in 1..Len(frames) - 1 : frames'[k] = frames[k]
         /\ Frame.then = <<>> => UNCHANGED vars
         /\ \A v \in Vars : v # Frame.then.var => vars'[v] = vars[v]
         /\ result' # "gone"
  <1> DEFINE offset == frames[Len(frames) - 1].localsOffset
             m == Returned(offset)
             n == Len(frames)
  <1>1. /\ ~IsUser /\ frames' = Front(frames)
        /\ \/ Frame.then = <<>> /\ Becomes(m) /\ UNCHANGED vars
           \/ Frame.then # <<>> /\ Resume(m, offset, Frame.then)
    BY Zenon DEF EndCall
  <1>2. n \in Nat /\ n > 1 /\ Frame = frames[n] /\ IsSeq(frames) /\ frames # <<>>
    BY <1>1, CallerIsBelow, FrameFacts DEF OwnInv, FramesInv
  <1>3. Len(frames') = n - 1 /\ \A k \in 1..n - 1 : frames'[k] = frames[k]
    BY <1>1, <1>2, KeepsFront DEF Keeps
  <1>4. DOMAIN vars = Vars
    BY DEF OwnInv, Owned, OwnerTypes
  <1>5. CASE Frame.then = <<>> /\ Becomes(m) /\ UNCHANGED vars
    BY <1>2, <1>3, <1>5, BecomesReturns
  <1>6. CASE Frame.then # <<>> /\ Resume(m, offset, Frame.then)
    <2> DEFINE w == Frame.then.var
    <2> HIDE DEF m, offset
    <2>1. /\ result' # "gone"
          /\ \/ vars' = vars
             \/ \E x : vars' = [vars EXCEPT ![w] = x]
             \/ \E x, y : vars' = [[vars EXCEPT ![w] = x] EXCEPT ![w] = y]
             \/ \E y : vars' = [vars EXCEPT ![w] = y]
      BY <1>6, BecomesReturns, Zenon DEF Resume
    <2> HIDE DEF w
    <2>2. \A v \in Vars : v # w => vars'[v] = vars[v]
      BY <1>4, <2>1
    <2> QED
      BY <1>2, <1>3, <1>6, <2>1, <2>2 DEF w
  <1> QED
    BY <1>1, <1>5, <1>6

\* Nobody waits in a context without calls.
LEMMA NobodyAwaits ==
  LET fr == <<UserFrame>>
  IN Len(fr) = 1 /\ \A k \in 1..Len(fr) : fr[k].then = <<>>
  <1> DEFINE fr == <<UserFrame>>
  <1>1. UserFrame.then = <<>>
    BY DEF UserFrame
  <1> HIDE DEF UserFrame
  <1> QED
    BY <1>1

\* Nobody waits for a var that is in use, or for one that another waits for.
LEMMA AwaitingNext ==
  ASSUME InitializesVars, OwnInv, Awaiting, [Next]_ctxVars
  PROVE  Awaiting'
  <1> DEFINE n == Len(frames)
  <1>1. FramesInv /\ n \in Nat \ {0}
    BY FrameFacts DEF OwnInv
  <1>2. ASSUME Len(frames') = n, \A k \in 1..n : SameCall(frames'[k], frames[k]),
               \A v \in Vars : vars[v] = Nil => vars'[v] = Nil
        PROVE  Awaiting'
    <2>1. ASSUME NEW k \in 1..n
          PROVE  /\ frames'[k].then = frames[k].then /\ frames'[k].fn = frames[k].fn
                 /\ frames'[k].returnTo = frames[k].returnTo
      BY <1>2 DEF SameCall
    <2>2. ASSUME NEW k \in 1..n, frames[k].then # <<>>
          PROVE  /\ frames[k].then.var \in Vars /\ vars'[frames[k].then.var] = Nil
                 /\ frames[k].fn = Initializer[frames[k].then.var] /\ frames[k].returnTo = Push
                 /\ ReadsVars => Reads(frames[k].then)
      BY <1>2, <2>2 DEF Awaiting
    <2>3. ASSUME NEW k \in 1..n, frames'[k].then # <<>>
          PROVE  /\ frames'[k].then.var \in Vars /\ vars'[frames'[k].then.var] = Nil
                 /\ frames'[k].fn = Initializer[frames'[k].then.var]
                 /\ frames'[k].returnTo = Push
                 /\ ReadsVars => Reads(frames'[k].then)
      BY <2>1, <2>2, <2>3, Zenon
    <2>4. ASSUME NEW j \in 1..n, NEW k \in 1..n, j < k,
                 frames'[j].then # <<>>, frames'[k].then # <<>>
          PROVE  frames'[j].then.var # frames'[k].then.var
      <3>1. frames[j].then # <<>> /\ frames[k].then # <<>>
        BY <2>1, <2>4
      <3>2. frames[j].then.var # frames[k].then.var
        BY <2>4, <3>1 DEF Awaiting
      <3> QED
        BY <2>1, <3>2
    <2> QED
      BY <1>2, <2>3, <2>4, Zenon DEF Awaiting
  <1>3. CASE Calm
    BY <1>1, <1>2, <1>3, CalmFrames DEF Calm
  <1>4. CASE Adds
    <2>1. PICK f : frames' = Append(frames, f) /\ Begins(f) /\ UNCHANGED vars
      BY <1>4 DEF Adds
    <2>2. /\ Len(frames') = n + 1 /\ frames'[n + 1] = f
          /\ \A k \in 1..n : frames'[k] = frames[k]
      BY <1>1, <2>1, AddsFrame
    <2>3. \A k \in 1..n : k \in DOMAIN frames
      BY <1>1 DEF FramesInv, IsSeq
    <2>4. \A k \in 1..n : frames[k].then # <<>> /\ f.then # <<>> => frames[k].then.var # f.then.var
      BY <2>1, <2>3 DEF Begins
    <2>5. ASSUME NEW k \in 1..n + 1, frames'[k].then # <<>>
          PROVE  /\ frames'[k].then.var \in Vars /\ vars'[frames'[k].then.var] = Nil
                 /\ frames'[k].fn = Initializer[frames'[k].then.var]
                 /\ frames'[k].returnTo = Push
                 /\ ReadsVars => Reads(frames'[k].then)
      <3>1. k \in 1..n \/ k = n + 1
        BY <1>1
      <3>2. CASE k = n + 1
        BY <2>1, <2>2, <2>5, <3>2, Zenon DEF Begins
      <3>3. CASE k \in 1..n
        BY <2>1, <2>2, <2>5, <3>3, Zenon DEF Awaiting
      <3> QED
        BY <3>1, <3>2, <3>3
    <2>6. ASSUME NEW j \in 1..n + 1, NEW k \in 1..n + 1, j < k,
                 frames'[j].then # <<>>, frames'[k].then # <<>>
          PROVE  frames'[j].then.var # frames'[k].then.var
      <3>1. j \in 1..n /\ (k \in 1..n \/ k = n + 1)
        BY <1>1, <2>6
      <3>2. CASE k = n + 1
        BY <2>2, <2>4, <2>6, <3>1, <3>2
      <3>3. CASE k \in 1..n
        BY <2>2, <2>6, <3>1, <3>3 DEF Awaiting
      <3> QED
        BY <3>1, <3>2, <3>3
    <2> QED
      BY <2>2, <2>5, <2>6, Zenon DEF Awaiting
  <1>5. CASE Assigns
    <2>1. PICK v \in Vars : vars[v] # Nil /\ vars' = [vars EXCEPT ![v] = Last(stk)]
      BY <1>5 DEF Assigns
    <2>2. UNCHANGED frames
      BY <1>5 DEF Assigns
    <2>3. vars \in [Vars -> Values]
      BY DEF OwnInv, Owned, OwnerTypes
    <2>4. \A w \in Vars : vars[w] = Nil => vars'[w] = Nil
      BY <2>1, <2>3
    <2> QED
      BY <1>2, <2>2, <2>4 DEF SameCall
  <1>6. CASE EndCall
    <2>1. /\ n > 1 /\ Len(frames') = n - 1 /\ Frame = frames[n]
          /\ \A k \in 1..n - 1 : frames'[k] = frames[k]
          /\ Frame.then = <<>> => UNCHANGED vars
          /\ \A v \in Vars : v # Frame.then.var => vars'[v] = vars[v]
      BY <1>6, EndCallFrames
    <2>2. \A k \in 1..n - 1 : k \in 1..n /\ n \in 1..n /\ k < n
      BY <1>1
    <2>3. ASSUME NEW k \in 1..n - 1, frames[k].then # <<>>
          PROVE  vars'[frames[k].then.var] = Nil
      <3> DEFINE w == frames[k].then.var
      <3>1. w \in Vars /\ vars[w] = Nil
        BY <2>2, <2>3 DEF Awaiting
      <3>2. CASE Frame.then = <<>>
        BY <2>1, <3>1, <3>2
      <3>3. CASE Frame.then # <<>>
        <4>1. w # Frame.then.var
          BY <2>1, <2>2, <2>3, <3>3 DEF Awaiting
        <4> QED
          BY <2>1, <3>1, <4>1
      <3> QED
        BY <3>2, <3>3
    <2>4. ASSUME NEW k \in 1..n - 1, frames'[k].then # <<>>
          PROVE  /\ frames'[k].then.var \in Vars /\ vars'[frames'[k].then.var] = Nil
                 /\ frames'[k].fn = Initializer[frames'[k].then.var]
                 /\ frames'[k].returnTo = Push
                 /\ ReadsVars => Reads(frames'[k].then)
      <3>1. frames'[k] = frames[k] /\ k \in 1..n
        BY <2>1, <2>2
      <3> QED
        BY <2>3, <2>4, <3>1 DEF Awaiting
    <2>5. ASSUME NEW j \in 1..n - 1, NEW k \in 1..n - 1, j < k,
                 frames'[j].then # <<>>, frames'[k].then # <<>>
          PROVE  frames'[j].then.var # frames'[k].then.var
      <3>1. frames'[j] = frames[j] /\ frames'[k] = frames[k] /\ j \in 1..n /\ k \in 1..n
        BY <2>1, <2>2
      <3> QED
        BY <2>5, <3>1 DEF Awaiting
    <2> QED
      BY <2>1, <2>4, <2>5, Zenon DEF Awaiting
  <1>7. CASE Destroy
    <2> DEFINE fr == <<UserFrame>>
    <2>1. frames' = fr
      BY <1>7, Zenon DEF Destroy
    <2>2. Len(fr) = 1 /\ \A k \in 1..Len(fr) : fr[k].then = <<>>
      BY NobodyAwaits
    <2> HIDE DEF fr, UserFrame
    <2> QED
      BY <2>1, <2>2 DEF Awaiting
  <1>8. CASE UNCHANGED ctxVars
    BY <1>2, <1>8 DEF ctxVars, SameCall
  <1> QED
    BY <1>3, <1>4, <1>5, <1>6, <1>7, <1>8, StepKinds

--------------------------------------------------------------------------------
(* Nothing leaks *)

\* The owners are as many as the count says.
NoLeak == \A o \in Objects : Surplus(o) = 0

\* A host that lets its vars be initialized, and then only reads them.
Reader == Careful /\ InitializesVars /\ ReadsVars

\* A destroyed context has leaked nothing.
LEMMA DestroyNoLeak ==
  ASSUME Careful, OwnInv, Destroy
  PROVE  NoLeak'
  <1>1. Releases
    BY DEF Careful, Releases
  <1>2. /\ stk' = <<>> /\ heap' = NoHeap
        /\ host' = NoHost /\ vars' = NoVars /\ frames' = <<UserFrame>>
    BY <1>1, DestroyKept
  <1>3. Machine' = NoMachine
    BY <1>2 DEF Machine, NoMachine
  <1> HIDE DEF NoHost, NoVars, UserFrame, NoMachine
  <1>4. ASSUME NEW o \in Objects PROVE Surplus(o)' = 0
    <2>1. Spare(NoMachine, o) = 0
      BY NoMachineIsFit
    <2>2. Claims(host, vars, frames, o)' = 0
      BY <1>2, NothingClaimed
    <2>3. Surplus(o)' = Spare(NoMachine, o) - Claims(host, vars, frames, o)'
      BY <1>3 DEF Surplus
    <2> QED
      BY <2>1, <2>2, <2>3
  <1> QED
    BY <1>4 DEF NoLeak

\* No step of such a host leaks a reference.
LEMMA NoLeakNext ==
  ASSUME Reader, OwnInv, Awaiting, NoLeak, [Next]_ctxVars
  PROVE  NoLeak'
  <1>1. KeepsLoans /\ InitializesVars /\ ReadsVars
    BY DEF Reader, Careful, KeepsLoans
  <1>2. ASSUME Steady PROVE NoLeak'
    BY <1>2 DEF Steady, NoLeak
  <1>3. CASE HostCalls \/ StackCalls \/ ValueCalls
    BY <1>1, <1>2, <1>3, HostCallsSteady, StackCallsSteady, ValueCallsSteady
  <1>4. CASE FnCalls
    <2>1. \A policy \in Policies : IsPolicy(policy)
      BY IndexAssumption DEF IsPolicy
    <2>2. ASSUME NEW f \in Functions, NEW returnTo \in Wheres,
                 NEW names \in NameLists(Len(Signature[f].named)), BeginCall(f, names, returnTo)
          PROVE  Steady
      BY <2>2, BeginCallSteady
    <2>3. ASSUME NEW o \in Objects, NEW policy \in Policies, SetArg(o, policy) PROVE Steady
      BY <2>1, <2>3, SetArgSteady
    <2>4. ASSUME NEW o \in Objects, NEW policy \in Policies, Ret(o, policy) PROVE Steady
      BY <1>1, <2>1, <2>4, RetSteady
    <2>5. ASSUME EndCall PROVE Steady
      <3>1. Len(frames) \in 1..Len(frames) /\ Frame = frames[Len(frames)]
        BY FrameFacts DEF OwnInv
      <3>2. Frame.then = <<>> \/ (Reads(Frame.then) /\ vars[Frame.then.var] = Nil)
        BY <1>1, <3>1 DEF Awaiting
      <3> QED
        BY <2>5, <3>2, EndCallKept
    <2> QED
      BY <1>2, <1>4, <2>2, <2>3, <2>4, <2>5, Zenon DEF FnCalls
  <1>5. CASE VarCalls
    <2>1. ASSUME NEW v \in Vars, SetVar(v) PROVE Steady
      <3>1. Refused
        BY <1>1, <2>1, Zenon DEF SetVar, ReadsVars
      <3> QED
        BY <3>1, RefusedSteady DEF OwnInv
    <2> QED
      BY <1>2, <1>5, <2>1, GetVarSteady DEF VarCalls
  <1>6. CASE Destroy
    BY <1>6, DestroyNoLeak DEF Reader
  <1>7. CASE UNCHANGED ctxVars
    BY <1>2, <1>7, SameSteady DEF OwnInv, ctxVars
  <1> QED
    BY <1>3, <1>4, <1>5, <1>6, <1>7 DEF Next

\* A context starts with no vars in use, nobody waiting and nothing leaked.
LEMMA InitNoLeak == Init => Awaiting /\ NoLeak
  <1> SUFFICES ASSUME Init PROVE Awaiting /\ NoLeak
    OBVIOUS
  <1>1. Machine = NoMachine
    BY DEF Init, Machine, NoMachine, NoHeap
  <1>2. host = NoHost /\ vars = NoVars /\ frames = <<UserFrame>>
    BY DEF Init, NoHost, NoVars
  <1> HIDE DEF NoHost, NoVars, UserFrame, NoMachine
  <1>3. ASSUME NEW o \in Objects PROVE Surplus(o) = 0
    <2>1. Spare(NoMachine, o) = 0
      BY NoMachineIsFit
    <2>2. Claims(host, vars, frames, o) = 0
      BY <1>2, NothingClaimed
    <2> QED
      BY <1>1, <2>1, <2>2 DEF Surplus
  <1>4. Awaiting
    BY <1>2, NobodyAwaits DEF Awaiting
  <1> QED
    BY <1>3, <1>4 DEF NoLeak

(***************************************************************************)
(* With a host that gives back what it borrows and reads its vars once     *)
(* they are initialized, the count of every object is always the number of *)
(* its owners: nothing leaks, whatever fails.                              *)
(***************************************************************************)
THEOREM RefsAlwaysMatchOwners ==
  ASSUME Reader
  PROVE  Spec => []RefsMatchOwners
  <1>1. Careful /\ InitializesVars
    BY DEF Reader
  <1>2. OwnInv /\ Awaiting /\ NoLeak /\ [Next]_ctxVars => Awaiting' /\ NoLeak'
    BY <1>1, AwaitingNext, NoLeakNext
  <1>3. OwnInv /\ NoLeak => RefsMatchOwners
    <2> SUFFICES ASSUME OwnInv, NoLeak, NEW o \in Objects
                 PROVE  heap[o].refs = Owners(o) /\ (heap[o].refs > 0 <=> o \in Live(heap))
      BY DEF RefsMatchOwners
    <2>1. Owned
      BY DEF OwnInv
    <2>2. Surplus(o) = 0
      BY DEF NoLeak
    <2>3. heap[o].refs = Owners(o) + Surplus(o) /\ Owners(o) \in Int
      BY <2>1, RefsAreOwned
    <2>4. heap[o].refs = Owners(o)
      BY <2>2, <2>3
    <2> QED
      BY <2>1, <2>4, RefsAreOwned
  <1> QED
    BY <1>1, <1>2, <1>3, InitNoLeak, OwnInvHolds, PTL DEF Spec

--------------------------------------------------------------------------------
(* The end of a context *)

\* No other call than the last destroys the context.
LEMMA OthersReturn ==
  ASSUME [Next]_ctxVars
  PROVE  result' # "gone" \/ Destroy \/ UNCHANGED ctxVars
  <1>1. CASE HostCalls \/ StackCalls \/ ValueCalls
    BY <1>1, HostCallsQuiet, StackCallsQuiet, ValueCallsQuiet DEF Quiet
  <1>2. ASSUME NEW m, NEW offset, NEW next, Resume(m, offset, next) PROVE result' # "gone"
    BY <1>2, BecomesReturns, Zenon DEF Resume
  <1>3. CASE FnCalls
    <2>1. ASSUME EndCall PROVE result' # "gone"
      BY <1>2, <2>1, BecomesReturns, Zenon DEF EndCall
    <2> QED
      BY <1>3, <2>1, BeginCallAdds, BindingIsCalm, Zenon DEF FnCalls, Calm, Adds
  <1>4. CASE VarCalls
    <2>1. ASSUME NEW v, NEW below, NEW next, Initialize(v, below, next)
          PROVE  result' # "gone"
      <3>1. CASE Len(frames) = MaxCallStack
        BY <1>2, <2>1, <3>1, Zenon DEF Initialize
      <3>2. CASE Len(frames) # MaxCallStack
        <4> DEFINE f == Initializer[v]
                   none == <<>>
        <4>1. Enter(f, 0, none, Push, below, next)
          BY <2>1, <3>2, Zenon DEF Initialize
        <4> HIDE DEF f, none
        <4>2. result' = "calling"
          BY <4>1, Zenon DEF Enter
        <4> QED
          BY <4>2
      <3> QED
        BY <3>1, <3>2
    <2>2. ASSUME NEW v, NEW where, GetVar(v, where) PROVE result' # "gone"
      BY <2>1, <2>2, BecomesReturns, Zenon DEF GetVar, Quiet
    <2>3. ASSUME NEW v, SetVar(v) PROVE result' # "gone"
      BY <2>1, <2>3, BecomesReturns, Zenon DEF SetVar, Quiet
    <2> QED
      BY <1>4, <2>2, <2>3 DEF VarCalls
  <1> QED
    BY <1>1, <1>3, <1>4 DEF Next

(***************************************************************************)
(* A destroyed context leaves no object and no stack behind, in whatever   *)
(* order it drops what its vars and its leaks have kept, if these own      *)
(* nothing in turn.                                                        *)
(***************************************************************************)
THEOREM DestructionLeavesNothing ==
  ASSUME Careful
  PROVE  Spec => []DestroyedIsEmpty
  <1>1. Init => DestroyedIsEmpty
    BY DEF Init, DestroyedIsEmpty
  <1>2. ASSUME OwnInv, DestroyedIsEmpty, [Next]_ctxVars
        PROVE  DestroyedIsEmpty'
    <2>1. CASE result' # "gone"
      BY <2>1 DEF DestroyedIsEmpty
    <2>2. CASE Destroy
      <3>1. stk' = <<>> /\ heap' = NoHeap
        BY <1>2, <2>2, DestroyKept DEF Careful, Releases
      <3> QED
        BY <3>1 DEF DestroyedIsEmpty, NoHeap
    <2>3. CASE UNCHANGED ctxVars
      BY <1>2, <2>3 DEF ctxVars, DestroyedIsEmpty
    <2> QED
      BY <1>2, <2>1, <2>2, <2>3, OthersReturn
  <1> QED
    BY <1>1, <1>2, OwnInvHolds, PTL DEF Spec

--------------------------------------------------------------------------------
(* What a call returns *)

\* The stack that put makes of s, in the frame whose locals start at offset.
PutStk(s, offset, where, o) ==
    LET at == AbsIndex(where, Len(s) - offset) IN
    IF at = Push THEN Append(s, o)
    ELSE IF at \in {Discard, OutOfBounds} THEN s ELSE [s EXCEPT ![offset + at + 1] = o]

\* m comes to be n by such a put, which fails if the index is out of bounds.
Puts(m, n, offset, where, o) ==
    /\ n.stk = PutStk(m.stk, offset, where, o)
    /\ AbsIndex(where, Len(m.stk) - offset) = OutOfBounds => n.ok = FALSE
    /\ AbsIndex(where, Len(m.stk) - offset) # OutOfBounds => n.ok = m.ok

\* put changes the stack as its index says, and fails if that is out of bounds.
LEMMA PutInStk ==
  ASSUME NEW m, NEW offset \in Nat, NEW where \in Wheres, NEW o, NEW policy,
         IsMachine(m), offset <= Len(m.stk)
  PROVE  Puts(m, PutIn(m, offset, where, o, policy), offset, where, o)
  <1> DEFINE at == AbsIndex(where, Len(m.stk) - offset)
             pos == offset + at + 1
             put == PutIn(m, offset, where, o, policy)
             s == PutStk(m.stk, offset, where, o)
  <1> SUFFICES /\ put.stk = s
               /\ at = OutOfBounds => put.ok = FALSE
               /\ at # OutOfBounds => put.ok = m.ok
    BY DEF Puts
  <1>1. IsSeq(m.stk) /\ Len(m.stk) \in Nat
    BY DEF IsMachine, IsSeq
  <1>2. at \in {Push, Discard, OutOfBounds} \cup 0..Len(m.stk) - offset - 1
    BY <1>1, AbsIndexIsLocal
  <1>3. /\ Push # Discard /\ OutOfBounds \notin {Push, Discard}
        /\ {Push, Discard, OutOfBounds} \cap Int = {}
    BY IndexAssumption
  <1>4. s = IF at = Push THEN Append(m.stk, o)
            ELSE IF at \in {Discard, OutOfBounds} THEN m.stk ELSE [m.stk EXCEPT ![pos] = o]
    BY DEF PutStk
  <1> HIDE DEF at, s
  <1>5. \A n, x : IsMachine(n) => /\ ReleasedIn(n, <<x>>).stk = n.stk
                                  /\ ReleasedIn(n, <<x>>).ok = n.ok
                                  /\ IsMachine(ReleasedIn(n, <<x>>))
    <2> TAKE n, x
    <2> HAVE IsMachine(n)
    <2> DEFINE h == Released(n.heap, <<x>>)
    <2>1. ReleasedIn(n, <<x>>) = [n EXCEPT !.heap = h]
      BY DEF ReleasedIn
    <2> HIDE DEF h
    <2>2. [n EXCEPT !.heap = h] = [heap |-> h, stk |-> n.stk, ok |-> n.ok]
      BY DEF IsMachine
    <2> QED
      BY <2>1, <2>2, ReleasedInKeeps
  <1>6. \A n : IsMachine(n) => /\ Borrowed(n, o, policy).stk = n.stk
                               /\ Borrowed(n, o, policy).ok = n.ok
    BY DEF Borrowed, IsMachine
  <1>7. CASE at = Discard
    <2>1. put = IF policy = "borrow" THEN m ELSE ReleasedIn(m, <<o>>)
      BY <1>7, <1>3 DEF PutIn, at
    <2>2. put.stk = m.stk /\ put.ok = m.ok
      BY <1>5, <2>1
    <2>3. s = m.stk /\ at # OutOfBounds
      BY <1>3, <1>4, <1>7
    <2> QED
      BY <2>2, <2>3 DEF s, at
  <1>8. CASE at = Push
    <2>1. put = Borrowed(Pushed(m, o), o, policy)
      BY <1>8, <1>3 DEF PutIn, at
    <2>2. /\ IsMachine(Pushed(m, o)) /\ Pushed(m, o).stk = Append(m.stk, o)
          /\ Pushed(m, o).ok = m.ok
      <3>1. IsSeq(Append(m.stk, o))
        BY <1>1, AppendKeeps
      <3> QED
        BY <3>1 DEF Pushed, IsMachine
    <2>3. put.stk = Append(m.stk, o) /\ put.ok = m.ok
      BY <1>6, <2>1, <2>2
    <2>4. s = Append(m.stk, o) /\ at # OutOfBounds
      BY <1>3, <1>4, <1>8
    <2> QED
      BY <2>3, <2>4 DEF s, at
  <1>9. CASE at = OutOfBounds
    <2> DEFINE left == IF policy = "take" THEN ReleasedIn(m, <<o>>) ELSE m
    <2>1. put = [left EXCEPT !.ok = FALSE]
      BY <1>9, <1>3 DEF PutIn, at
    <2>2. IsMachine(left) /\ left.stk = m.stk
      BY <1>5
    <2> HIDE DEF left
    <2>3. put.stk = m.stk /\ put.ok = FALSE
      BY <2>1, <2>2 DEF IsMachine
    <2>4. s = m.stk
      BY <1>3, <1>4, <1>9
    <2> QED
      BY <1>9, <2>3, <2>4 DEF s, at
  <1>10. CASE at \in 0..Len(m.stk) - offset - 1
    <2> DEFINE r == ReleasedIn(m, <<m.stk[pos]>>)
    <2>1. at \notin {Push, Discard, OutOfBounds}
      <3>1. at \in Int
        BY <1>1, <1>10
      <3> QED
        BY <3>1, <1>3, Zenon
    <2>2. put = Borrowed([r EXCEPT !.stk[pos] = o], o, policy)
      BY <2>1 DEF PutIn, at
    <2>3. IsMachine(r) /\ r.stk = m.stk /\ r.ok = m.ok
      BY <1>5
    <2> HIDE DEF r
    <2> DEFINE t == [m.stk EXCEPT ![pos] = o]
               q == [r EXCEPT !.stk = t]
    <2>4. put = Borrowed(q, o, policy)
      BY <2>2, <2>3
    <2>5. IsSeq(t)
      <3>1. pos \in Nat /\ 0 < pos /\ pos <= Len(m.stk)
        BY <1>1, <1>10
      <3> QED
        BY <1>1, <3>1, ReplaceKeeps
    <2>6. IsMachine(q) /\ q.stk = t /\ q.ok = m.ok
      <3> HIDE DEF t
      <3>1. q = [heap |-> r.heap, stk |-> t, ok |-> r.ok]
        BY <2>3 DEF IsMachine
      <3> QED
        BY <2>3, <2>5, <3>1 DEF IsMachine
    <2> HIDE DEF q, pos
    <2>7. put.stk = [m.stk EXCEPT ![pos] = o] /\ put.ok = m.ok
      BY <1>6, <2>4, <2>6
    <2>8. s = [m.stk EXCEPT ![pos] = o] /\ at # OutOfBounds
      BY <1>4, <2>1
    <2> QED
      BY <2>7, <2>8 DEF s, at
  <1> QED
    BY <1>2, <1>7, <1>8, <1>9, <1>10

\* A part of a part.
LEMMA CutTwice ==
  ASSUME NEW s \in Seq(Objects), NEW k \in 0..Len(s), NEW j \in 0..k
  PROVE  /\ SubSeq(SubSeq(s, 1, k), 1, j) = SubSeq(s, 1, j)
         /\ SubSeq(s, 1, k) \in Seq(Objects) /\ Len(SubSeq(s, 1, k)) = k
         /\ \A i \in 1..k : SubSeq(s, 1, k)[i] = s[i]
  <1>1. /\ SubSeq(s, 1, k) = [i \in 1..k |-> s[i]] /\ k \in Nat /\ j \in Nat
        /\ SubSeq(s, 1, j) = [i \in 1..j |-> s[i]]
    OBVIOUS
  <1> DEFINE t == SubSeq(s, 1, k)
  <1>2. t \in Seq(Objects) /\ Len(t) = k /\ \A i \in 1..k : t[i] = s[i]
    BY <1>1
  <1> HIDE DEF t
  <1>3. SubSeq(t, 1, j) = [i \in 1..j |-> t[i]]
    BY <1>2
  <1>4. [i \in 1..j |-> t[i]] = [i \in 1..j |-> s[i]]
    BY <1>1, <1>2
  <1> QED
    BY <1>1, <1>2, <1>3, <1>4 DEF t

\* What is bound as the return value is claimed by its frame.
LEMMA BoundLives ==
  ASSUME OwnInv, Frame.returnValue # Nil
  PROVE  Frame.returnValue \in Objects /\ Spare(Machine, Frame.returnValue) >= 1
  <1> DEFINE o == Frame.returnValue
  <1>1. o \in Objects
    BY BoundIsClaimed DEF Values
  <1>2. Owned
    BY DEF OwnInv
  <1>3. /\ host[o] \in Nat /\ Count(vars, o) \in Nat
        /\ Claims(host, vars, frames, o) = host[o] + Count(vars, o) + FramesClaim(frames, o)
    BY <1>1, <1>2, ClaimsType DEF Owned
  <1>4. /\ FramesClaim(frames, o) \in Nat
        /\ Turn(o, o) + Turn(Pending(Frame), o) <= FramesClaim(frames, o)
    BY <1>1, BoundIsClaimed
  <1>5. Turn(o, o) = 1 /\ Turn(Pending(Frame), o) \in Nat
    BY DEF Turn
  <1> HIDE DEF o
  <1>6. Claims(host, vars, frames, o) >= 1
    BY <1>3, <1>4, <1>5
  <1>7. Spare(Machine, o) >= 1
    BY <1>1, <1>2, <1>6, ClaimedIsSpare
  <1> QED
    BY <1>1, <1>7 DEF o

\* A call fails and takes the dummies off the stack, or takes all args off it and puts
\* a result of the fn's return type.
LEMMA ReturnedCases ==
  ASSUME OwnInv, NEW offset \in Nat, offset <= Floor(Frame)
  PROVE  LET n == Returned(offset)
             o == Frame.returnValue
             rest == SubSeq(stk, 1, Floor(Frame))
             at == AbsIndex(Frame.returnTo, Floor(Frame) - offset)
         IN \/ n.ok = FALSE /\ n.stk = SubSeq(stk, 1, Frame.localsOffset - Frame.dummies)
            \/ /\ o \in Objects /\ heap[o].type = Signature[Frame.fn].returns
               /\ n.stk = PutStk(rest, offset, Frame.returnTo, o)
               /\ at = OutOfBounds => n.ok = FALSE
               /\ at # OutOfBounds => n.ok = TRUE
  <1> DEFINE l == Popped(Machine, Locals)
             o == Frame.returnValue
             d == Popped(l, Frame.dummies)
             a == Popped(l, Frame.args)
             n == Returned(offset)
             lo == Frame.localsOffset
             where == Frame.returnTo
             rest == SubSeq(stk, 1, Floor(Frame))
             at == AbsIndex(where, Floor(Frame) - offset)
  <1>1. /\ lo \in Nat /\ Frame.args \in Nat /\ Frame.dummies \in Nat
        /\ Frame.dummies <= Frame.args /\ Frame.args <= lo
        /\ offset <= Floor(Frame) /\ Floor(Frame) = lo - Frame.args /\ where \in Wheres
    BY FrameFacts DEF IsFrame, Floor, OwnInv
  <1>2. /\ Owned /\ FitMachine(Machine) /\ Machine.heap = heap /\ Machine.stk = stk
        /\ Machine.ok = TRUE /\ stk \in Seq(Objects) /\ Len(stk) \in Nat
    <2>1. Owned
      BY DEF OwnInv
    <2>2. FitMachine(Machine) /\ stk \in Seq(Objects)
      BY <2>1, OwnFacts
    <2>3. Machine.heap = heap /\ Machine.stk = stk /\ Machine.ok = TRUE
      BY DEF Machine
    <2>4. Len(stk) \in Nat
      BY <2>2
    <2> QED
      BY <2>1, <2>2, <2>3, <2>4
  <1>3. Locals \in Nat /\ Locals = Len(stk) - lo /\ lo <= Len(stk)
    BY FrameFacts DEF OwnInv
  <1>4. /\ Follows(Machine, l, TRUE) /\ l.stk = SubSeq(stk, 1, lo)
        /\ \A x \in Objects : Spare(l, x) = Spare(Machine, x)
    <2>1. Locals \in 0..Len(Machine.stk) /\ Len(stk) - Locals = lo
      BY <1>1, <1>2, <1>3
    <2> QED
      BY <1>2, <2>1, PoppedFits
  <1> HIDE DEF l
  <1>5. ASSUME NEW k \in Nat, k <= Frame.args
        PROVE  /\ Follows(l, Popped(l, k), TRUE)
               /\ Popped(l, k).stk = SubSeq(stk, 1, lo - k)
    <2> DEFINE p == Popped(l, k)
    <2>1. lo \in 0..Len(stk) /\ lo - k \in 0..lo
      BY <1>1, <1>2, <1>3, <1>5
    <2>2. Len(l.stk) = lo /\ SubSeq(l.stk, 1, lo - k) = SubSeq(stk, 1, lo - k)
      <3> DEFINE j == lo - k
      <3>1. l.stk = SubSeq(stk, 1, lo) /\ stk \in Seq(Objects)
        BY <1>2, <1>4
      <3>2. lo \in 0..Len(stk) /\ j \in 0..lo
        BY <2>1
      <3> HIDE DEF j, lo
      <3>3. /\ SubSeq(SubSeq(stk, 1, lo), 1, j) = SubSeq(stk, 1, j)
            /\ Len(SubSeq(stk, 1, lo)) = lo
        BY <3>1, <3>2, CutTwice
      <3> QED
        BY <3>1, <3>3 DEF j
    <2>3. FitMachine(l) /\ l.ok = TRUE /\ k \in 0..Len(l.stk)
      BY <1>1, <1>4, <1>5, <2>2 DEF Follows
    <2>4. Follows(l, p, l.ok) /\ p.stk = SubSeq(l.stk, 1, Len(l.stk) - k)
      BY <2>3, PoppedFits
    <2> HIDE DEF p
    <2> QED
      BY <2>2, <2>3, <2>4 DEF p
  <1>6. d.stk = SubSeq(stk, 1, lo - Frame.dummies) /\ FitMachine(d)
    BY <1>1, <1>5 DEF Follows
  <1>7. a.stk = rest /\ FitMachine(a) /\ a.ok = TRUE /\ Len(rest) = Floor(Frame)
    <2>1. Frame.args \in Nat /\ Frame.args <= Frame.args
      BY <1>1
    <2>2. Follows(l, a, TRUE) /\ a.stk = SubSeq(stk, 1, lo - Frame.args)
      BY <1>5, <2>1
    <2>3. Floor(Frame) \in 0..Len(stk)
      BY <1>1, <1>2, <1>3
    <2>4. Len(rest) = Floor(Frame)
      BY <1>2, <2>3, CutTwice
    <2> QED
      BY <1>1, <2>2, <2>4 DEF Follows
  <1>8. \/ n = [d EXCEPT !.ok = FALSE]
        \/ n = [ReleasedIn(d, <<o>>) EXCEPT !.ok = FALSE]
        \/ /\ o # Nil /\ l.heap[o].type = Signature[Frame.fn].returns
           /\ n = PutIn(a, offset, where, o, "take")
    BY Zenon DEF Returned, l
  <1> HIDE DEF n, d, a, o, lo, where, rest
  <1>9. CASE n = [d EXCEPT !.ok = FALSE]
    <2>1. n.ok = FALSE /\ n.stk = d.stk
      BY <1>6, <1>9 DEF FitMachine
    <2> QED
      BY <1>6, <2>1 DEF n, lo
  <1>10. CASE n = [ReleasedIn(d, <<o>>) EXCEPT !.ok = FALSE]
    <2> DEFINE r == ReleasedIn(d, <<o>>)
    <2>1. IsMachine(d)
      BY <1>6 DEF FitMachine, IsMachine, IsSeq
    <2>2. IsMachine(r) /\ r.stk = d.stk
      BY <2>1, ReleasedInKeeps
    <2>3. n = [r EXCEPT !.ok = FALSE]
      BY <1>10
    <2> HIDE DEF r
    <2>4. n.ok = FALSE /\ n.stk = r.stk
      BY <2>2, <2>3 DEF IsMachine
    <2> QED
      BY <1>6, <2>2, <2>4 DEF n, lo
  <1>11. CASE /\ o # Nil /\ l.heap[o].type = Signature[Frame.fn].returns
              /\ n = PutIn(a, offset, where, o, "take")
    <2> DEFINE policy == "take"
               s == PutStk(rest, offset, where, o)
    <2>1. n = PutIn(a, offset, where, o, policy)
      BY <1>11
    <2> HIDE DEF policy
    <2>2. IsMachine(a) /\ offset <= Len(a.stk)
      BY <1>1, <1>7 DEF FitMachine, IsMachine, IsSeq
    <2>3. /\ n.stk = PutStk(a.stk, offset, where, o)
          /\ AbsIndex(where, Len(a.stk) - offset) = OutOfBounds => n.ok = FALSE
          /\ AbsIndex(where, Len(a.stk) - offset) # OutOfBounds => n.ok = a.ok
      <3>1. where \in Wheres /\ IsMachine(a) /\ offset <= Len(a.stk)
        BY <1>1, <2>2
      <3>2. Puts(a, n, offset, where, o)
        BY <2>1, <3>1, PutInStk
      <3> QED
        BY <3>2 DEF Puts
    <2>4. n.stk = s /\ (at = OutOfBounds => n.ok = FALSE) /\ (at # OutOfBounds => n.ok = TRUE)
      BY <1>7, <2>3
    <2>5. o \in Objects /\ Spare(Machine, o) >= 1
      BY <1>11, BoundLives DEF o
    <2>6. Spare(l, o) >= 1 /\ FitMachine(l)
      BY <1>4, <2>5 DEF Follows
    <2>7. l.heap[o].type # Vacant
      BY <2>5, <2>6, SpareIsLive
    <2>8. l.heap[o].type = heap[o].type
      BY <1>2, <1>4, <2>5, <2>7 DEF Follows, Fades
    <2>9. heap[o].type = Signature[Frame.fn].returns
      BY <1>11, <2>8
    <2> QED
      BY <2>4, <2>5, <2>9 DEF n, o, where, rest
  <1> QED
    BY <1>8, <1>9, <1>10, <1>11

--------------------------------------------------------------------------------
(* What the vars hold *)

\* What a function holds, it counts.
LEMMA HeldIsCounted ==
  ASSUME NEW g, IsFiniteSet(DOMAIN g), NEW v \in DOMAIN g
  PROVE  Count(g, g[v]) \in Nat /\ Count(g, g[v]) >= 1
  <1> DEFINE o == g[v]
             c == Count(g, o)
  <1>1. c \in Nat /\ (c = 0 <=> \A w \in DOMAIN g : g[w] \notin {o})
    BY TimesType DEF Count
  <1>2. g[v] \in {o}
    OBVIOUS
  <1> HIDE DEF o
  <1>3. c # 0
    BY <1>1, <1>2
  <1> HIDE DEF c
  <1>4. c >= 1
    BY <1>1, <1>3
  <1> QED
    BY <1>1, <1>4 DEF c, o

\* The vars and those that wait for one claim what they hold.
LEMMA HoldersClaim ==
  ASSUME NEW ho, NEW va, NEW fr, OwnerTypes(ho, va, fr), NEW o \in Objects,
         \/ \E v \in Vars : va[v] = o
         \/ \E k \in 1..Len(fr) : Pending(fr[k]) = o
  PROVE  Claims(ho, va, fr, o) \in Nat /\ Claims(ho, va, fr, o) >= 1
  <1>1. /\ ho[o] \in Nat /\ Count(va, o) \in Nat /\ FramesClaim(fr, o) \in Nat
        /\ Claims(ho, va, fr, o) = ho[o] + Count(va, o) + FramesClaim(fr, o)
    BY ClaimsType
  <1>2. CASE \E v \in Vars : va[v] = o
    <2>1. PICK v \in Vars : va[v] = o
      BY <1>2
    <2>2. IsFiniteSet(DOMAIN va) /\ v \in DOMAIN va
      BY FunctionAssumption DEF OwnerTypes
    <2>3. Count(va, o) >= 1
      BY <2>1, <2>2, HeldIsCounted
    <2> QED
      BY <1>1, <2>3
  <1>3. CASE \E k \in 1..Len(fr) : Pending(fr[k]) = o
    <2>1. PICK k \in 1..Len(fr) : Pending(fr[k]) = o
      BY <1>3
    <2>2. PICK S : fr \in Seq(S)
      BY DEF OwnerTypes
    <2>3. /\ Rets(fr) \in Seq(Values) /\ Pendings(fr) \in Seq(Values)
          /\ Len(Pendings(fr)) = Len(fr) /\ Pendings(fr)[k] = o
      BY <2>1, <2>2, FramesType DEF OwnerTypes
    <2>4. k \in DOMAIN Pendings(fr)
      BY <2>3
    <2>5. Count(Rets(fr), o) \in Nat /\ Count(Pendings(fr), o) \in Nat
      BY <2>3, CountType
    <2>6. Count(Pendings(fr), o) # 0
      BY <2>3, <2>4, CountType
    <2>7. FramesClaim(fr, o) >= 1
      BY <2>5, <2>6 DEF FramesClaim
    <2> QED
      BY <1>1, <2>7
  <1> QED
    BY <1>2, <1>3

\* What they hold lives.
HoldersLive(h, va, fr) ==
    /\ \A v \in Vars : va[v] # Nil => va[v] \in Objects /\ h[va[v]].type # Vacant
    /\ \A k \in 1..Len(fr) :
            Pending(fr[k]) # Nil
                => Pending(fr[k]) \in Objects /\ h[Pending(fr[k])].type # Vacant

\* Who owns a reference owns one to an object that lives.
LEMMA OwnedAreLive ==
  ASSUME NEW m, FitMachine(m), NEW ho, NEW va, NEW fr, OwnerTypes(ho, va, fr),
         \A x \in Objects : Spare(m, x) - Claims(ho, va, fr, x) >= 0
  PROVE  HoldersLive(m.heap, va, fr)
  <1>1. ASSUME NEW o \in Objects,
               \/ \E v \in Vars : va[v] = o
               \/ \E k \in 1..Len(fr) : Pending(fr[k]) = o
        PROVE  m.heap[o].type # Vacant
    <2>1. Claims(ho, va, fr, o) \in Nat /\ Claims(ho, va, fr, o) >= 1
      BY <1>1, HoldersClaim
    <2>2. Spare(m, o) \in Int /\ Spare(m, o) - Claims(ho, va, fr, o) >= 0
      BY SpareType DEF FitMachine
    <2>3. Spare(m, o) >= 1
      BY <2>1, <2>2
    <2> QED
      BY <2>3, SpareIsLive
  <1>2. ASSUME NEW v \in Vars, va[v] # Nil
        PROVE  va[v] \in Objects /\ m.heap[va[v]].type # Vacant
    <2>1. va[v] \in Objects
      BY <1>2 DEF OwnerTypes, Values
    <2> QED
      BY <1>1, <2>1
  <1>3. ASSUME NEW k \in 1..Len(fr), Pending(fr[k]) # Nil
        PROVE  Pending(fr[k]) \in Objects /\ m.heap[Pending(fr[k])].type # Vacant
    <2>1. Pending(fr[k]) \in Objects
      BY <1>3, PendingType DEF OwnerTypes, Values
    <2> QED
      BY <1>1, <2>1
  <1> QED
    BY <1>2, <1>3 DEF HoldersLive

\* What waits to be put in a var is of its type.
WaitsTyped(f, h) ==
    f.then # <<>> /\ Writes(f.then) => h[f.then.value].type = VarType[f.then.var]

Typed == VarsKeepTheirType /\ \A k \in 1..Len(frames) : WaitsTyped(frames[k], heap)

\* Both before and after a step of a careful host.
LEMMA HoldersLiveOn ==
  ASSUME Owned, Kept
  PROVE  /\ HoldersLive(heap, vars, frames) /\ HoldersLive(heap', vars', frames')
         /\ OwnerTypes(host, vars, frames) /\ OwnerTypes(host', vars', frames')
  <1>1. HoldersLive(Machine.heap, vars, frames)
    BY OwnedAreLive DEF Owned, Surplus
  <1>2. Machine.heap = heap
    BY DEF Machine
  <1>3. /\ FitMachine(Machine') /\ OwnerTypes(host', vars', frames')
        /\ \A x \in Objects : Spare(Machine', x) - Claims(host', vars', frames', x) >= 0
    BY DEF Kept, Owned, Surplus
  <1>4. HoldersLive((Machine').heap, vars', frames')
    BY <1>3, OwnedAreLive
  <1>5. (Machine').heap = heap'
    BY DEF Machine
  <1> QED
    BY <1>1, <1>2, <1>3, <1>4, <1>5 DEF Owned

\* A call whose value a var awaits ends with a value of the type of its fn on top.
LEMMA AwaitedIsPushed ==
  ASSUME OwnInv, NEW offset \in Nat, offset <= Floor(Frame), Frame.returnTo = Push,
         Returned(offset).ok
  PROVE  /\ Len(Returned(offset).stk) > offset
         /\ Last(Returned(offset).stk) \in Objects
         /\ heap[Last(Returned(offset).stk)].type = Signature[Frame.fn].returns
  <1> DEFINE n == Returned(offset)
             o == Frame.returnValue
             rest == SubSeq(stk, 1, Floor(Frame))
             at == AbsIndex(Frame.returnTo, Floor(Frame) - offset)
  <1>1. at = Push /\ at # OutOfBounds
    BY IndexAssumption, Zenon DEF AbsIndex
  <1>2. /\ o \in Objects /\ heap[o].type = Signature[Frame.fn].returns
        /\ n.stk = PutStk(rest, offset, Frame.returnTo, o)
    BY ReturnedCases
  <1>3. stk \in Seq(Objects) /\ Floor(Frame) \in Nat /\ Floor(Frame) <= Len(stk)
    BY OwnFacts, FrameFacts DEF OwnInv
  <1>4. rest \in Seq(Objects) /\ Len(rest) = Floor(Frame)
    BY <1>3, CutTwice
  <1>5. PutStk(rest, offset, Frame.returnTo, o) = Append(rest, o)
    BY Zenon DEF PutStk, AbsIndex
  <1> HIDE DEF n, o, rest
  <1>6. n.stk = Append(rest, o)
    BY <1>2, <1>5
  <1>7. Len(n.stk) = Floor(Frame) + 1 /\ Last(n.stk) = o
    BY <1>2, <1>4, <1>6, <1>3 DEF Last
  <1>8. Len(n.stk) > offset
    BY <1>3, <1>7
  <1> QED
    BY <1>2, <1>7, <1>8 DEF n

\* A var that a call was made for holds a value of its type when the call is over.
LEMMA AwaitedIsTyped ==
  ASSUME OwnInv, Awaiting, InitializesVars, EndCall, Frame.then # <<>>,
         WaitsTyped(Frame, heap)
  PROVE  LET w == Frame.then.var
         IN w \in Vars /\ vars'[w] \in Objects /\ heap[vars'[w]].type = VarType[w]
  <1> DEFINE w == Frame.then.var
             next == Frame.then
             offset == frames[Len(frames) - 1].localsOffset
             m == Returned(offset)
             s == m.stk
  <1>1. /\ ~IsUser /\ Resume(m, offset, next) /\ m.ok
    BY Zenon DEF EndCall, InitializesVars
  <1>2. /\ Len(frames) \in 1..Len(frames) /\ Frame = frames[Len(frames)]
    BY FrameFacts DEF OwnInv
  <1>3. w \in Vars /\ Frame.fn = Initializer[w] /\ Frame.returnTo = Push
    BY <1>2 DEF Awaiting
  <1>4. offset \in Nat /\ offset <= Floor(Frame)
    BY <1>1, CallerIsBelow DEF OwnInv
  <1>5. /\ Len(s) > offset /\ Last(s) \in Objects
        /\ heap[Last(s)].type = Signature[Frame.fn].returns
    BY <1>1, <1>3, <1>4, AwaitedIsPushed
  <1>6. Signature[Frame.fn].returns = VarType[w]
    BY <1>3, InitializerAssumption
  <1>7. DOMAIN vars = Vars /\ FrameOwns(Frame)
    BY <1>2 DEF OwnInv, Owned, OwnerTypes
  <1> HIDE DEF m, offset, w
  <1>8. CASE next.op = "get"
    <2>1. vars' = [vars EXCEPT ![w] = Last(s)]
      BY <1>1, <1>5, <1>8, Zenon DEF Resume, w
    <2> HIDE DEF s
    <2>2. vars'[w] = Last(s)
      BY <1>3, <1>7, <2>1
    <2> QED
      BY <1>3, <1>5, <1>6, <2>2 DEF w
  <1>9. CASE next.op # "get"
    <2>1. vars' = [[vars EXCEPT ![w] = Last(s)] EXCEPT ![w] = next.value]
      BY <1>1, <1>5, <1>9, Zenon DEF Resume, w
    <2>2. Writes(next) /\ next.value \in Objects
      BY <1>7, <1>9 DEF FrameOwns, Writes
    <2>3. heap[next.value].type = VarType[w]
      BY <2>2 DEF WaitsTyped, w
    <2> HIDE DEF s
    <2>4. vars'[w] = next.value
      BY <1>3, <1>7, <2>1
    <2> QED
      BY <1>3, <2>2, <2>3, <2>4 DEF w
  <1> QED
    BY <1>8, <1>9

\* The types last through every step of a careful host.
LEMMA TypedNext ==
  ASSUME Careful, InitializesVars, OwnInv, Awaiting, Typed, [Next]_ctxVars
  PROVE  Typed'
  <1> DEFINE n == Len(frames)
  <1>1. Kept /\ Owned
    BY NextKept DEF OwnInv
  <1>2. /\ HoldersLive(heap, vars, frames) /\ HoldersLive(heap', vars', frames')
        /\ OwnerTypes(host, vars, frames) /\ OwnerTypes(host', vars', frames')
    BY <1>1, HoldersLiveOn
  <1>3. ASSUME NEW o \in Objects, heap[o].type # Vacant, heap'[o].type # Vacant
        PROVE  heap'[o].type = heap[o].type
    BY <1>1, <1>3 DEF Kept, KeepsTypes
  <1>4. FramesInv /\ n \in Nat \ {0} /\ Frame = frames[n]
    BY FrameFacts DEF OwnInv
  <1>5. ASSUME NEW v \in Vars, vars'[v] = Nil \/ heap[vars'[v]].type = VarType[v]
        PROVE  vars'[v] # Nil => heap'[vars'[v]].type = VarType[v]
    <2>1. VarType[v] # Vacant
      BY FunctionAssumption, TypesAssumption
    <2> QED
      BY <1>2, <1>3, <1>5, <2>1 DEF HoldersLive
  <1>6. ASSUME NEW v \in Vars, vars'[v] = vars[v]
        PROVE  vars'[v] = Nil \/ heap[vars'[v]].type = VarType[v]
    BY <1>6 DEF Typed, VarsKeepTheirType
  <1>7. ASSUME NEW k \in 1..Len(frames'), WaitsTyped(frames'[k], heap)
        PROVE  WaitsTyped(frames'[k], heap')
    <2> DEFINE f == frames'[k]
               o == f.then.value
    <2> SUFFICES ASSUME f.then # <<>>, Writes(f.then)
                 PROVE  heap'[o].type = VarType[f.then.var]
      BY DEF WaitsTyped
    <2>1. FrameOwns(f)
      BY <1>2 DEF OwnerTypes
    <2>2. Pending(f) = o /\ o \in Objects /\ f.then.var \in Vars
      BY <2>1 DEF Pending, FrameOwns, Writes
    <2>3. o # Nil
      BY <2>2, IndexAssumption
    <2>4. heap'[o].type # Vacant
      BY <1>2, <2>2, <2>3 DEF HoldersLive
    <2>5. heap[o].type = VarType[f.then.var]
      BY <1>7 DEF WaitsTyped
    <2>6. VarType[f.then.var] # Vacant
      BY <2>2, FunctionAssumption, TypesAssumption
    <2> QED
      BY <1>3, <2>2, <2>4, <2>5, <2>6
  <1>8. ASSUME \A v \in Vars : vars'[v] = Nil \/ heap[vars'[v]].type = VarType[v],
               \A k \in 1..Len(frames') : WaitsTyped(frames'[k], heap)
        PROVE  Typed'
    BY <1>5, <1>7, <1>8 DEF Typed, VarsKeepTheirType
  <1>9. ASSUME NEW k \in 1..n, NEW j \in 1..Len(frames'), frames'[j].then = frames[k].then
        PROVE  WaitsTyped(frames'[j], heap)
    BY <1>9 DEF Typed, WaitsTyped
  <1>10. CASE Calm
    <2>1. /\ Len(frames') = n
          /\ \A k \in 1..n : frames'[k].then = frames[k].then
      BY <1>4, <1>10, CalmFrames DEF SameCall
    <2> QED
      BY <1>6, <1>8, <1>9, <1>10, <2>1 DEF Calm
  <1>11. CASE Adds
    <2>1. PICK f : frames' = Append(frames, f) /\ Begins(f) /\ UNCHANGED vars
      BY <1>11 DEF Adds
    <2>2. /\ Len(frames') = n + 1 /\ frames'[n + 1] = f
          /\ \A k \in 1..n : frames'[k] = frames[k]
      BY <1>4, <2>1, AddsFrame
    <2>3. WaitsTyped(f, heap)
      BY <2>1 DEF Begins, WaitsTyped
    <2>4. ASSUME NEW k \in 1..Len(frames') PROVE WaitsTyped(frames'[k], heap)
      <3>1. k \in 1..n \/ k = n + 1
        BY <1>4, <2>2
      <3> QED
        BY <1>9, <2>2, <2>3, <3>1
    <2> QED
      BY <1>6, <1>8, <2>1, <2>4
  <1>12. CASE Assigns
    <2>1. PICK v \in Vars : /\ vars' = [vars EXCEPT ![v] = Last(stk)]
                            /\ heap[Last(stk)].type = VarType[v]
      BY <1>12 DEF Assigns
    <2>2. DOMAIN vars = Vars
      BY <1>2 DEF OwnerTypes
    <2>3. \A w \in Vars : vars'[w] = IF w = v THEN Last(stk) ELSE vars[w]
      BY <2>1, <2>2
    <2>4. ASSUME NEW w \in Vars PROVE vars'[w] = Nil \/ heap[vars'[w]].type = VarType[w]
      BY <1>6, <2>1, <2>3
    <2>5. frames' = frames
      BY <1>12 DEF Assigns
    <2> QED
      BY <1>8, <1>9, <2>4, <2>5
  <1>13. CASE EndCall
    <2>1. /\ n > 1 /\ Len(frames') = n - 1
          /\ \A k \in 1..n - 1 : frames'[k] = frames[k]
          /\ Frame.then = <<>> => UNCHANGED vars
          /\ \A v \in Vars : v # Frame.then.var => vars'[v] = vars[v]
      BY <1>13, EndCallFrames
    <2>2. ASSUME NEW k \in 1..Len(frames') PROVE WaitsTyped(frames'[k], heap)
      <3>1. k \in 1..n /\ frames'[k] = frames[k]
        BY <1>4, <2>1
      <3> QED
        BY <1>9, <3>1
    <2>3. CASE Frame.then = <<>>
      BY <1>6, <1>8, <2>1, <2>2, <2>3
    <2>4. CASE Frame.then # <<>>
      <3>1. WaitsTyped(Frame, heap)
        BY <1>4 DEF Typed
      <3>2. heap[vars'[Frame.then.var]].type = VarType[Frame.then.var]
        BY <1>13, <2>4, <3>1, AwaitedIsTyped
      <3>3. ASSUME NEW v \in Vars PROVE vars'[v] = Nil \/ heap[vars'[v]].type = VarType[v]
        BY <1>6, <2>1, <3>2
      <3> QED
        BY <1>8, <2>2, <3>3
    <2> QED
      BY <2>3, <2>4
  <1>14. CASE Destroy
    <2>1. vars' = NoVars /\ frames' = <<UserFrame>>
      BY <1>14, DestroyKept DEF OwnInv, Careful, Releases
    <2>2. \A v \in Vars : vars'[v] = Nil
      BY <2>1 DEF NoVars
    <2>3. \A k \in 1..Len(frames') : frames'[k].then = <<>>
      BY <2>1, NobodyAwaits
    <2> QED
      BY <1>8, <2>2, <2>3 DEF WaitsTyped
  <1>15. CASE UNCHANGED ctxVars
    BY <1>15 DEF Typed, VarsKeepTheirType, ctxVars
  <1> QED
    BY <1>10, <1>11, <1>12, <1>13, <1>14, <1>15, StepKinds

(***************************************************************************)
(* With a careful host that lets one call at a time initialize a var, a    *)
(* var only ever holds a value of its type, which is what lets its users   *)
(* read it unchecked.                                                      *)
(***************************************************************************)
THEOREM VarsAlwaysKeepTheirType ==
  ASSUME Careful /\ InitializesVars
  PROVE  Spec => []VarsKeepTheirType
  <1>1. Init => Awaiting /\ Typed
    <2> SUFFICES ASSUME Init PROVE Awaiting /\ Typed
      OBVIOUS
    <2>1. vars = NoVars /\ frames = <<UserFrame>>
      BY DEF Init, NoVars
    <2>2. \A v \in Vars : vars[v] = Nil
      BY <2>1 DEF NoVars
    <2>3. \A k \in 1..Len(frames) : frames[k].then = <<>>
      BY <2>1, NobodyAwaits
    <2>4. Typed
      BY <2>2, <2>3 DEF Typed, VarsKeepTheirType, WaitsTyped
    <2> QED
      BY <2>4, InitNoLeak
  <1>2. OwnInv /\ Awaiting /\ Typed /\ [Next]_ctxVars => Awaiting' /\ Typed'
    BY AwaitingNext, TypedNext
  <1>3. Typed => VarsKeepTheirType
    BY DEF Typed
  <1> QED
    BY <1>1, <1>2, <1>3, OwnInvHolds, PTL DEF Spec

--------------------------------------------------------------------------------
(* What a call leaves when it fails *)

RoomIsLeft == "leaves room" \in Discipline

\* A step that fails within its frame leaves the stack alone.
Unspoilt == result' = "failed" /\ Len(frames') = Len(frames) => stk' = stk

\* A machine that has not failed, or whose stack is as it was.
Fair(m) == IsMachine(m) /\ (m.ok = TRUE \/ m.stk = stk)

\* It may become the context's.
LEMMA FairIsUnspoilt ==
  ASSUME NEW m, Fair(m), Becomes(m)
  PROVE  Unspoilt
  <1>1. CASE m.ok = TRUE
    BY <1>1 DEF Becomes, Outcome, Unspoilt
  <1>2. CASE m.stk = stk
    BY <1>2 DEF Becomes, Unspoilt
  <1> QED
    BY <1>1, <1>2 DEF Fair

\* To set ok is fair.
LEMMA OkIsFair ==
  ASSUME NEW m, IsMachine(m)
  PROVE  /\ Fair([m EXCEPT !.ok = TRUE])
         /\ m.stk = stk => Fair([m EXCEPT !.ok = FALSE])
  <1> DEFINE yes == TRUE
             no == FALSE
  <1> HIDE DEF yes, no
  <1>1. ASSUME NEW b PROVE IsMachine([m EXCEPT !.ok = b]) /\ [m EXCEPT !.ok = b].stk = m.stk
    BY OkUpdateKeeps
  <1>2. ASSUME NEW b PROVE [m EXCEPT !.ok = b].ok = b
    BY DEF IsMachine
  <1>3. IsMachine([m EXCEPT !.ok = yes]) /\ [m EXCEPT !.ok = yes].ok = yes
    BY <1>1, <1>2
  <1>4. IsMachine([m EXCEPT !.ok = no]) /\ [m EXCEPT !.ok = no].stk = m.stk
    BY <1>1
  <1> QED
    BY <1>3, <1>4 DEF Fair, yes, no

\* So is to release.
LEMMA ReleasedIsFair ==
  ASSUME NEW m, NEW os, Fair(m)
  PROVE  Fair(ReleasedIn(m, os))
  <1> DEFINE h == Released(m.heap, os)
             n == ReleasedIn(m, os)
  <1>1. IsMachine(n) /\ n.stk = m.stk
    BY ReleasedInKeeps DEF Fair
  <1>2. n = [m EXCEPT !.heap = h]
    BY DEF ReleasedIn
  <1> HIDE DEF h, n
  <1>3. n.ok = m.ok
    BY <1>2 DEF Fair, IsMachine
  <1> QED
    BY <1>1, <1>3 DEF Fair, n

\* So is pop, of a machine that has not failed.
LEMMA PoppedIsFair ==
  ASSUME NEW m, NEW n \in Nat, IsMachine(m), n <= Len(m.stk), m.ok = TRUE
  PROVE  /\ Fair(Popped(m, n)) /\ Popped(m, n).ok = TRUE
         /\ Len(Popped(m, n).stk) = Len(m.stk) - n /\ Len(m.stk) \in Nat
  <1> DEFINE os == Reverse(SubSeq(m.stk, Len(m.stk) - n + 1, Len(m.stk)))
             s == SubSeq(m.stk, 1, Len(m.stk) - n)
             r == ReleasedIn(m, os)
             p == Popped(m, n)
  <1>1. /\ IsMachine(p) /\ Len(m.stk) \in Nat /\ Len(p.stk) = Len(m.stk) - n
    BY PoppedKeeps
  <1>2. p = [r EXCEPT !.stk = s]
    BY DEF Popped
  <1>3. Fair(m)
    BY DEF Fair
  <1>4. IsMachine(r) /\ r.ok = m.ok
    <2> DEFINE h == Released(m.heap, os)
    <2>1. r = [m EXCEPT !.heap = h]
      BY DEF ReleasedIn
    <2>2. IsMachine(r)
      BY ReleasedInKeeps
    <2> HIDE DEF h, r
    <2>3. r.ok = m.ok
      BY <2>1 DEF IsMachine
    <2> QED
      BY <2>2, <2>3
  <1> HIDE DEF r, s, os, p
  <1>5. p.ok = r.ok
    BY <1>2, <1>4 DEF IsMachine
  <1> QED
    BY <1>1, <1>4, <1>5 DEF Fair, p

\* put fails where it is out of bounds alone, and leaves the stack it is given.
LEMMA PutIsFair ==
  ASSUME FramesInv, NEW m, NEW where \in Wheres, NEW o, NEW policy,
         IsMachine(m), Frame.localsOffset <= Len(m.stk), m.ok = TRUE,
         \/ AbsIndex(where, Len(m.stk) - Frame.localsOffset) # OutOfBounds
         \/ m.stk = stk
  PROVE  Fair(PutNow(m, where, o, policy))
  <1> DEFINE offset == Frame.localsOffset
             n == PutNow(m, where, o, policy)
             at == AbsIndex(where, Len(m.stk) - offset)
  <1>1. offset \in Nat
    BY FrameFacts
  <1>2. n = PutIn(m, offset, where, o, policy)
    BY DEF PutNow
  <1> HIDE DEF n, offset
  <1>3. IsMachine(n) /\ Puts(m, n, offset, where, o)
    BY <1>1, <1>2, PutInKeeps, PutInStk DEF MachineKeeps, offset
  <1>4. CASE at # OutOfBounds
    <2>1. n.ok = m.ok
      BY <1>3, <1>4 DEF Puts
    <2> QED
      BY <1>3, <2>1 DEF Fair, n
  <1>5. CASE at = OutOfBounds /\ m.stk = stk
    <2>1. n.stk = m.stk
      <3>1. n.stk = PutStk(m.stk, offset, where, o)
        BY <1>3 DEF Puts
      <3>2. Push # OutOfBounds
        BY IndexAssumption
      <3>3. PutStk(m.stk, offset, where, o) = m.stk
        BY <1>5, <3>2, Zenon DEF PutStk, at
      <3> QED
        BY <3>1, <3>3
    <2> QED
      BY <1>3, <1>5, <2>1 DEF Fair, n
  <1> QED
    BY <1>4, <1>5 DEF at, offset

\* The machine a call starts with is fair.
LEMMA MachineIsFair ==
  ASSUME FramesInv
  PROVE  /\ IsMachine(Machine) /\ Machine.stk = stk /\ Machine.ok = TRUE /\ Fair(Machine)
         /\ Frame.localsOffset \in Nat /\ Frame.localsOffset <= Len(stk) /\ Len(stk) \in Nat
         /\ Locals = Len(stk) - Frame.localsOffset
  <1>1. IsMachine(Machine) /\ Machine.stk = stk /\ Machine.ok = TRUE
    BY FrameFacts DEF Machine
  <1> QED
    BY <1>1, FrameFacts DEF Fair

\* Nothing that the host does for itself touches the stack.
LEMMA HostCallsUnspoilt == FramesInv /\ HostCalls => Unspoilt
  <1> SUFFICES ASSUME FramesInv, HostCalls PROVE Unspoilt
    OBVIOUS
  <1>1. ASSUME NEW o, Secure(o) PROVE Unspoilt
    BY <1>1 DEF Secure, Unspoilt
  <1>2. ASSUME NEW type, New(type) PROVE Unspoilt
    BY <1>2 DEF New, Unspoilt
  <1>3. ASSUME NEW o, Release(o) PROVE Unspoilt
    <2>1. Fair(ReleasedIn(Machine, <<o>>))
      BY MachineIsFair, ReleasedIsFair
    <2> QED
      BY <1>3, <2>1, FairIsUnspoilt DEF Release
  <1>4. CASE Refused
    BY <1>4 DEF Refused, Unspoilt
  <1>5. CASE TakeArg
    BY <1>1, <1>4, <1>5, Zenon DEF TakeArg
  <1>6. ASSUME NEW where, TakeLocal(where) PROVE Unspoilt
    BY <1>1, <1>4, <1>6, Zenon DEF TakeLocal
  <1> QED
    BY <1>1, <1>2, <1>3, <1>5, <1>6 DEF HostCalls

\* put upon a stack of the locals, all of them or fewer.
LEMMA PutUponIsFair ==
  ASSUME FramesInv, NEW m, NEW h, NEW s, NEW where \in Wheres, NEW o, NEW policy,
         IsMachine(m), m.ok = TRUE, m.stk = s, Frame.localsOffset <= Len(s),
         \/ AbsIndex(where, Len(s) - Frame.localsOffset) # OutOfBounds
         \/ s = stk
  PROVE  /\ Fair(PutNow(m, where, o, policy))
         /\ Fair(PutNow([m EXCEPT !.heap = h], where, o, policy))
  <1> DEFINE n == [m EXCEPT !.heap = h]
  <1>1. IsMachine(n) /\ n.stk = s
    BY HeapUpdateKeeps
  <1>2. n.ok = m.ok
    BY DEF IsMachine
  <1> HIDE DEF n
  <1>3. n.ok = TRUE
    BY <1>2
  <1>4. Fair(PutNow(n, where, o, policy))
    BY <1>1, <1>3, PutIsFair
  <1>5. Fair(PutNow(m, where, o, policy))
    BY PutIsFair
  <1> QED
    BY <1>4, <1>5 DEF n

\* The calls on the local stack.
LEMMA StackCallsUnspoilt == FramesInv /\ StackCalls => Unspoilt
  <1> SUFFICES ASSUME FramesInv, StackCalls PROVE Unspoilt
    OBVIOUS
  <1>1. CASE Refused
    BY <1>1 DEF Refused, Unspoilt
  <1>2. ASSUME NEW n \in 1..MaxStack, Pop(n) PROVE Unspoilt
    <2> DEFINE some == IF n > Locals THEN Locals ELSE n
    <2>1. some \in Nat /\ some <= Len(stk)
      BY FrameFacts, BoundAssumption
    <2> HIDE DEF some
    <2>2. Fair(Popped(Machine, some))
      BY <2>1, MachineIsFair, PoppedIsFair
    <2> QED
      BY <1>2, <2>2, FairIsUnspoilt DEF Pop, some
  <1>3. CASE Pull
    BY <1>1, <1>3 DEF Pull, Unspoilt
  <1>4. ASSUME NEW where \in Wheres, NEW o, NEW policy, Put(where, o, policy) PROVE Unspoilt
    <2>1. Fair(PutNow(Machine, where, o, policy))
      BY MachineIsFair, PutIsFair
    <2> QED
      BY <1>4, <2>1, FairIsUnspoilt DEF Put
  <1>5. ASSUME NEW where \in Wheres, NEW type, PutNew(type, where) PROVE Unspoilt
    <2>1. ASSUME NEW h, NEW o, Becomes(PutNow([Machine EXCEPT !.heap = h], where, o, "take"))
          PROVE  Unspoilt
      <3>1. Fair(PutNow([Machine EXCEPT !.heap = h], where, o, "take"))
        BY MachineIsFair, PutUponIsFair
      <3> QED
        BY <2>1, <3>1, FairIsUnspoilt
    <2> QED
      BY <1>1, <1>5, <2>1, Zenon DEF PutNew
  <1>6. ASSUME NEW from \in Wheres, NEW to \in Wheres, Copy(from, to) PROVE Unspoilt
    BY <1>1, <1>4, <1>6, Zenon DEF Copy
  <1> QED
    BY <1>2, <1>3, <1>4, <1>5, <1>6 DEF StackCalls

\* ymCtx_StructInit and ymCtx_GetProperty never fail once they have begun.
LEMMA StructInitUnspoilt ==
  ASSUME FramesInv, NEW type \in Structs, NEW where \in Wheres,
         NEW names \in NameLists(Len(Properties[type])), StructInit(type, names, where)
  PROVE  Unspoilt
  <1>1. CASE Refused
    BY <1>1 DEF Refused, Unspoilt
  <1>2. ASSUME ~Refused PROVE Unspoilt
    <2> DEFINE rest == SubSeq(stk, 1, Len(stk) - Len(names))
               stolen == [Machine EXCEPT !.stk = rest]
    <2>1. Len(names) \in Nat /\ Len(names) <= Locals
      <3>1. Len(Properties[type]) \in Nat
        BY TypesAssumption
      <3>2. ~(Len(names) > Locals)
        BY <1>2, Zenon DEF StructInit
      <3>3. Len(names) \in Nat
        BY <3>1 DEF NameLists
      <3> QED
        BY <3>2, <3>3, FrameFacts
    <2>2. IsSeq(rest) /\ Keeps(stk, rest, Frame.localsOffset)
      BY <2>1, CutWithin
    <2>3. MachineKeeps(stk, stolen, Frame.localsOffset)
      BY <2>2, FrameFacts, StkUpdateKeeps DEF MachineKeeps
    <2>4. PICK h, o :
            Becomes([PutNow([stolen EXCEPT !.heap = h], where, o, "take") EXCEPT !.ok = TRUE])
      BY <1>2 DEF StructInit
    <2> DEFINE put == PutNow([stolen EXCEPT !.heap = h], where, o, "take")
    <2> HIDE DEF stolen
    <2>5. IsMachine(put)
      BY <2>3, PutCreatedKeeps DEF MachineKeeps
    <2>6. Becomes([put EXCEPT !.ok = TRUE])
      BY <2>4
    <2> HIDE DEF put
    <2> QED
      BY <2>5, <2>6, OkIsFair, FairIsUnspoilt
  <1> QED
    BY <1>1, <1>2

\* ymCtx_GetProperty.
LEMMA GetPropertyUnspoilt ==
  ASSUME FramesInv, NEW type, NEW i, NEW where \in Wheres, GetProperty(type, i, where)
  PROVE  Unspoilt
  <1>1. CASE Refused
    BY <1>1 DEF Refused, Unspoilt
  <1>2. ASSUME ~Refused PROVE Unspoilt
    <2> DEFINE value == heap[Last(stk)].slots[i]
               popped == Popped(Borrowed(Machine, value, "borrow"), 1)
               put == PutNow(popped, where, value, "take")
    <2>1. 1 \in Nat /\ 1 <= Locals
      BY <1>2, FrameFacts DEF GetProperty
    <2>2. MachineKeeps(stk, popped, Frame.localsOffset)
      BY <2>1, FrameFacts, BorrowedKeeps, PoppedWithin
    <2> HIDE DEF popped, value
    <2>3. IsMachine(put)
      BY <2>2, PutNowKeeps DEF MachineKeeps
    <2>4. Becomes([put EXCEPT !.ok = TRUE])
      BY <1>2 DEF GetProperty, popped, value
    <2> HIDE DEF put
    <2> QED
      BY <2>3, <2>4, OkIsFair, FairIsUnspoilt
  <1> QED
    BY <1>1, <1>2

\* ymCtx_SetProperty.
LEMMA SetPropertyUnspoilt ==
  ASSUME FramesInv, NEW type, NEW i, SetProperty(type, i)
  PROVE  Unspoilt
  <1>1. CASE Refused
    BY <1>1 DEF Refused, Unspoilt
  <1>2. ASSUME ~Refused PROVE Unspoilt
    <2>1. ~(Locals < 2)
      BY <1>2, Zenon DEF SetProperty
    <2>2. Locals # 0 /\ 1 <= Len(stk) - 1 /\ Len(stk) - 1 \in Nat
      BY <2>1, FrameFacts
    <2>3. IsSeq(Front(stk)) /\ Len(Front(stk)) = Len(stk) - 1
      BY <2>2, FrontWithin
    <2>4. PICK os, h : Becomes(Popped([ReleasedIn(Machine, os) EXCEPT !.stk = Front(stk),
                                                                     !.heap = h], 1))
      BY <1>2, <2>1, Zenon DEF SetProperty
    <2> DEFINE r == ReleasedIn(Machine, os)
               left == [r EXCEPT !.stk = Front(stk), !.heap = h]
    <2>5. IsMachine(r) /\ r.ok = TRUE
      <3>1. IsMachine(r)
        BY FrameFacts, ReleasedInKeeps
      <3> QED
        BY <3>1 DEF ReleasedIn, Machine
    <2>6. Becomes(Popped(left, 1))
      BY <2>4
    <2> HIDE DEF r
    <2>7. IsMachine(left) /\ left.stk = Front(stk)
      <3>1. IsMachine(r) /\ IsSeq(Front(stk))
        BY <2>3, <2>5
      <3> QED
        BY <3>1, StkHeapUpdateKeeps, Zenon
    <2>8. left.ok = r.ok
      BY <2>5 DEF IsMachine
    <2> HIDE DEF left
    <2>9. 1 \in Nat /\ 1 <= Len(left.stk)
      BY <2>2, <2>3, <2>7
    <2>10. Fair(Popped(left, 1))
      BY <2>5, <2>7, <2>8, <2>9, PoppedIsFair
    <2> QED
      BY <2>6, <2>10, FairIsUnspoilt
  <1> QED
    BY <1>1, <1>2

\* ymCtx_Convert: the input is off the stack when the result is put, so that only a
\* host that leaves room for it is safe.
LEMMA ConvertUnspoilt ==
  ASSUME FramesInv, RoomIsLeft, NEW type, NEW where \in Wheres, Convert(type, where)
  PROVE  Unspoilt
  <1>1. CASE Refused
    BY <1>1 DEF Refused, Unspoilt
  <1>2. ASSUME ~Refused PROVE Unspoilt
    <2> DEFINE input == Last(stk)
               boxed == heap[input].slots[1]
               rest == Front(stk)
               cut == [Machine EXCEPT !.stk = rest]
    <2>1. Locals # 0 /\ LeavesRoom(where, Locals - 1)
      BY <1>2, Zenon DEF Convert
    <2>2. \/ Becomes(PutNow(cut, where, input, "take"))
          \/ Cast(None, where) \/ Cast(type, where) \/ Rebox(type, where)
          \/ Unbox(where) \/ Box(type, where)
      BY <1>2, Zenon DEF Convert
    <2>3. /\ IsSeq(rest) /\ Len(rest) = Len(stk) - 1 /\ Frame.localsOffset <= Len(rest)
          /\ Len(rest) - Frame.localsOffset = Locals - 1
      <3>1. /\ IsSeq(rest) /\ Keeps(stk, rest, Frame.localsOffset)
            /\ Len(rest) = Len(stk) - 1
        BY <2>1, FrontWithin
      <3> QED
        BY <3>1, FrameFacts DEF Keeps
    <2>4. AbsIndex(where, Len(rest) - Frame.localsOffset) # OutOfBounds
      BY <2>1, <2>3 DEF LeavesRoom, RoomIsLeft
    <2>5. IsMachine(cut) /\ cut.stk = rest
      BY <2>3, FrameFacts, StkUpdateKeeps
    <2>6. cut.ok = TRUE
      BY DEF Machine
    <2>7. ASSUME NEW h, NEW o, NEW policy
          PROVE  /\ Fair(PutNow(cut, where, o, policy))
                 /\ Fair(PutNow([cut EXCEPT !.heap = h], where, o, policy))
      <3> HIDE DEF cut, rest
      <3> QED
        BY <2>3, <2>4, <2>5, <2>6, PutUponIsFair
    <2>8. ASSUME NEW h
          PROVE  [Machine EXCEPT !.stk = rest, !.heap = h] = [cut EXCEPT !.heap = h]
      BY DEF Machine
    <2>9. ASSUME NEW h, NEW o, NEW policy
          PROVE  Fair(PutNow([Machine EXCEPT !.stk = rest, !.heap = h], where, o, policy))
      BY <2>7, <2>8
    <2>10. ASSUME NEW to, Cast(to, where) PROVE Unspoilt
      <3> DEFINE m == Popped(Machine, 1)
      <3>1. PICK os : Becomes(PutNow([m EXCEPT !.heap = Created(m.heap, os[1], to, <<>>)],
                                     where, os[1], "take"))
        BY <2>10, Zenon DEF Cast
      <3>2. 1 \in Nat /\ 1 <= Len(stk) /\ 1 <= Locals
        BY <2>1, FrameFacts
      <3>3. /\ IsMachine(m) /\ m.ok = TRUE /\ Len(m.stk) = Len(rest)
        BY <2>3, <3>2, MachineIsFair, PoppedIsFair DEF Fair
      <3> DEFINE h == Created(m.heap, os[1], to, <<>>)
                 s == m.stk
      <3>4. Becomes(PutNow([m EXCEPT !.heap = h], where, os[1], "take"))
        BY <3>1
      <3> HIDE DEF m, h, rest
      <3>5. /\ Frame.localsOffset <= Len(s)
            /\ AbsIndex(where, Len(s) - Frame.localsOffset) # OutOfBounds
        BY <2>3, <2>4, <3>3
      <3>6. Fair(PutNow([m EXCEPT !.heap = h], where, os[1], "take"))
        BY <3>3, <3>5, PutUponIsFair
      <3> QED
        BY <3>4, <3>6, FairIsUnspoilt
    <2>11. ASSUME Box(type, where) PROVE Unspoilt
      <3>1. PICK h, o : Becomes(PutNow([Machine EXCEPT !.stk = rest, !.heap = h],
                                       where, o, "take"))
        BY <2>11, Zenon DEF Box
      <3> QED
        BY <2>9, <3>1, FairIsUnspoilt
    <2>12. ASSUME Unbox(where) PROVE Unspoilt
      <3>1. Becomes(ReleasedIn(PutNow(cut, where, boxed, "borrow"), <<input>>))
        BY <2>12, Zenon DEF Unbox
      <3>2. Fair(ReleasedIn(PutNow(cut, where, boxed, "borrow"), <<input>>))
        BY <2>7, ReleasedIsFair
      <3> QED
        BY <3>1, <3>2, FairIsUnspoilt
    <2>13. ASSUME Rebox(type, where) PROVE Unspoilt
      <3>1. PICK h, o : Becomes(ReleasedIn(PutNow([Machine EXCEPT !.stk = rest, !.heap = h],
                                                  where, o, "take"), <<input>>))
        BY <2>13, Zenon DEF Rebox
      <3>2. Fair(ReleasedIn(PutNow([Machine EXCEPT !.stk = rest, !.heap = h],
                                   where, o, "take"), <<input>>))
        BY <2>9, ReleasedIsFair
      <3> QED
        BY <3>1, <3>2, FairIsUnspoilt
    <2>14. ASSUME Becomes(PutNow(cut, where, input, "take")) PROVE Unspoilt
      BY <2>7, <2>14, FairIsUnspoilt
    <2> QED
      BY <2>2, <2>10, <2>11, <2>12, <2>13, <2>14
  <1> QED
    BY <1>1, <1>2

\* Calls on values.
LEMMA ValueCallsUnspoilt == FramesInv /\ RoomIsLeft /\ ValueCalls => Unspoilt
  BY StructInitUnspoilt, GetPropertyUnspoilt, SetPropertyUnspoilt, ConvertUnspoilt, Zenon
     DEF ValueCalls

\* What enters a fn has not failed.
LEMMA EnterUnspoilt ==
  ASSUME NEW f, NEW given, NEW names, NEW returnTo, NEW below, NEW next,
         Enter(f, given, names, returnTo, below, next)
  PROVE  Unspoilt
  <1>1. result' = "calling"
    BY Zenon DEF Enter
  <1> QED
    BY <1>1 DEF Unspoilt

\* ymCtx_Call, ymCtx_SetArg, ymCtx_Ret.
LEMMA FnCallsUnspoilt == FramesInv /\ FnCalls => Unspoilt
  <1> SUFFICES ASSUME FramesInv, FnCalls PROVE Unspoilt
    OBVIOUS
  <1>1. CASE Refused
    BY <1>1 DEF Refused, Unspoilt
  <1>2. ASSUME NEW m, IsMachine(m), m.stk = stk, Becomes([m EXCEPT !.ok = FALSE])
        PROVE  Unspoilt
    BY <1>2, OkIsFair, FairIsUnspoilt
  <1>3. ASSUME NEW os
        PROVE  IsMachine(ReleasedIn(Machine, os)) /\ ReleasedIn(Machine, os).stk = stk
    BY FrameFacts, ReleasedInKeeps
  <1>4. ASSUME NEW f, NEW names, NEW returnTo, BeginCall(f, names, returnTo) PROVE Unspoilt
    BY <1>1, <1>4, EnterUnspoilt, Zenon DEF BeginCall
  <1>5. ASSUME NEW o, NEW policy, SetArg(o, policy) PROVE Unspoilt
    <2>1. CASE ArgWindow = {}
      <3> DEFINE left == IF policy = "take" THEN ReleasedIn(Machine, <<o>>) ELSE Machine
      <3>1. Becomes([left EXCEPT !.ok = FALSE])
        BY <1>5, <2>1 DEF SetArg
      <3>2. IsMachine(left) /\ left.stk = stk
        BY <1>3, FrameFacts
      <3> HIDE DEF left
      <3> QED
        BY <1>2, <3>1, <3>2
    <2>2. CASE ArgWindow # {}
      <3>1. PICK pos \in ArgWindow :
              Becomes([ReleasedIn(Borrowed(Machine, o, policy), <<stk[pos]>>)
                            EXCEPT !.stk[pos] = o])
        BY <1>5, <2>2 DEF SetArg
      <3> DEFINE b == Borrowed(Machine, o, policy)
                 r == ReleasedIn(b, <<stk[pos]>>)
                 n == [r EXCEPT !.stk[pos] = o]
      <3>2. b.ok = TRUE /\ IsMachine(b)
        BY FrameFacts, BorrowedKeeps DEF Borrowed, Machine
      <3>3. IsMachine(r) /\ r.ok = b.ok
        <4>1. IsMachine(r)
          BY <3>2, ReleasedInKeeps
        <4> HIDE DEF b
        <4>2. r.ok = b.ok
          BY <3>2 DEF ReleasedIn, IsMachine
        <4> QED
          BY <4>1, <4>2
      <3>4. Becomes(n)
        BY <3>1
      <3> HIDE DEF b, r
      <3>5. n.ok = r.ok
        BY <3>3 DEF IsMachine
      <3> HIDE DEF n
      <3>6. n.ok = TRUE
        BY <3>2, <3>3, <3>5
      <3>7. result' = Outcome(n.ok)
        BY <3>4 DEF Becomes
      <3> QED
        BY <3>6, <3>7 DEF Outcome, Unspoilt
    <2> QED
      BY <2>1, <2>2
  <1>6. ASSUME NEW o, NEW policy, Ret(o, policy) PROVE Unspoilt
    <2> DEFINE left == IF policy = "take" THEN ReleasedIn(Machine, <<o>>) ELSE Machine
               dropped == IF Frame.returnValue = Nil THEN Machine
                          ELSE ReleasedIn(Machine, <<Frame.returnValue>>)
    <2>1. /\ IsMachine(left) /\ left.stk = stk
          /\ IsMachine(dropped) /\ dropped.stk = stk
      BY <1>3, FrameFacts
    <2>2. \/ Becomes([left EXCEPT !.ok = FALSE])
          \/ Becomes(Borrowed(dropped, o, policy))
      BY <1>6, Zenon DEF Ret
    <2> HIDE DEF left, dropped
    <2>3. ASSUME Becomes(Borrowed(dropped, o, policy)) PROVE Unspoilt
      BY <2>1, <2>3, BorrowedKeeps DEF Becomes, Unspoilt
    <2> QED
      BY <1>2, <2>1, <2>2, <2>3
  <1>7. CASE EndCall
    <2>1. Leaves
      BY <1>7, EndCallLeaves
    <2>2. Len(frames') = Len(frames) - 1 /\ Len(frames) \in Nat
      <3>1. frames # <<>> /\ IsSeq(frames) /\ frames' = Front(frames)
        BY <2>1 DEF FramesInv, Leaves
      <3> QED
        BY <3>1, FrameFacts, KeepsFront
    <2> QED
      BY <2>2 DEF Unspoilt
  <1> QED
    BY <1>4, <1>5, <1>6, <1>7 DEF FnCalls

\* ymCtx_GetVar and ymCtx_SetVar, whose initializers are calls of their own.
LEMMA VarCallsUnspoilt == FramesInv /\ InitializesVars /\ VarCalls => Unspoilt
  <1> SUFFICES ASSUME FramesInv, InitializesVars, VarCalls PROVE Unspoilt
    OBVIOUS
  <1>1. CASE Refused
    BY <1>1 DEF Refused, Unspoilt
  <1>2. ASSUME NEW v, NEW below, NEW next, Initialize(v, below, next) PROVE Unspoilt
    BY <1>2, EnterUnspoilt, Zenon DEF Initialize, InitializesVars
  <1>3. ASSUME NEW v, NEW where \in Wheres, GetVar(v, where) PROVE Unspoilt
    <2> DEFINE o == vars[v]
               b == Borrowed(Machine, o, "borrow")
               n == GotVar(Machine, Frame.localsOffset, o, where)
    <2>1. CASE vars[v] # Nil /\ Becomes(n)
      <3>1. n = PutNow(b, where, o, "take")
        BY <2>1 DEF GotVar, PutNow
      <3>2. IsMachine(b) /\ b.stk = stk /\ b.ok = TRUE
        BY FrameFacts, BorrowedKeeps DEF Borrowed, Machine
      <3>3. Frame.localsOffset <= Len(stk)
        BY FrameFacts
      <3> HIDE DEF b, o
      <3>4. Fair(PutNow(b, where, o, "take"))
        BY <3>2, <3>3, PutIsFair
      <3> HIDE DEF n
      <3> QED
        BY <2>1, <3>1, <3>4, FairIsUnspoilt
    <2> QED
      BY <1>1, <1>2, <1>3, <2>1, Zenon DEF GetVar
  <1>4. ASSUME NEW v, SetVar(v) PROVE Unspoilt
    <2>1. CASE Locals # 0 /\ Becomes([Machine EXCEPT !.stk = Front(stk)])
      <3> DEFINE n == [Machine EXCEPT !.stk = Front(stk)]
      <3>1. result' = Outcome(n.ok)
        BY <2>1 DEF Becomes
      <3>2. n.ok = TRUE
        BY DEF Machine
      <3> HIDE DEF n
      <3> QED
        BY <3>1, <3>2 DEF Outcome, Unspoilt
    <2> QED
      BY <1>1, <1>2, <1>4, <2>1, Zenon DEF SetVar
  <1> QED
    BY <1>3, <1>4 DEF VarCalls

(***************************************************************************)
(* With a host that leaves room for the results and lets vars be           *)
(* initialized, an API call that fails within its frame has not touched    *)
(* the stack, as the fns' documentation has it (yama.h:979).               *)
(***************************************************************************)
THEOREM FailuresLeaveTheStack ==
  ASSUME RoomIsLeft /\ InitializesVars
  PROVE  Spec => FailureLeavesStack
  <1>1. ASSUME FramesInv, [Next]_ctxVars PROVE Unspoilt
    <2>1. CASE Destroy
      BY <2>1 DEF Destroy, Unspoilt
    <2>2. CASE UNCHANGED ctxVars
      BY <2>2 DEF ctxVars, Unspoilt
    <2> QED
      BY <1>1, <2>1, <2>2, HostCallsUnspoilt, StackCallsUnspoilt, ValueCallsUnspoilt,
         FnCallsUnspoilt, VarCallsUnspoilt DEF Next
  <1>2. FramesInv /\ [Next]_ctxVars
            => [result' = "failed" /\ Len(frames') = Len(frames) => stk' = stk]_ctxVars
    BY <1>1 DEF Unspoilt
  <1> QED
    BY <1>2, FramesInvHolds, PTL DEF Spec, FailureLeavesStack

--------------------------------------------------------------------------------
(* What a call does to its caller's stack *)

\* Above off, s holds e and no more.
Above(s, off, e) ==
    /\ s \in Seq(Objects) /\ e \in Seq(Objects) /\ Len(s) = off + Len(e)
    /\ \A i \in 1..Len(e) : s[off + i] = e[i]

\* That is what its locals are.
LEMMA AboveIsSlice ==
  ASSUME NEW s, NEW e, NEW off \in Nat, Above(s, off, e)
  PROVE  SubSeq(s, off + 1, Len(s)) = e
  <1> DEFINE t == SubSeq(s, off + 1, Len(s))
  <1>1. s \in Seq(Objects) /\ e \in Seq(Objects) /\ Len(s) = off + Len(e) /\ Len(e) \in Nat
    BY DEF Above
  <1>2. Len(t) = Len(e) /\ t \in Seq(Objects)
    BY <1>1
  <1>3. ASSUME NEW i \in 1..Len(e) PROVE t[i] = e[i]
    <2>1. t[i] = s[off + i]
      BY <1>1
    <2> QED
      BY <2>1 DEF Above
  <1> HIDE DEF t
  <1>4. t = [i \in 1..Len(t) |-> t[i]] /\ e = [i \in 1..Len(e) |-> e[i]]
    BY <1>1, <1>2
  <1> QED
    BY <1>2, <1>3, <1>4 DEF t

\* put does to the whole stack what it does to the locals.
LEMMA PutAbove ==
  ASSUME NEW s, NEW e, NEW off \in Nat, Above(s, off, e), NEW where \in Wheres,
         NEW o \in Objects, AbsIndex(where, Len(e)) # OutOfBounds
  PROVE  Above(PutStk(s, off, where, o), off, Placed(e, where, o))
  <1> DEFINE at == AbsIndex(where, Len(e))
             p == PutStk(s, off, where, o)
             q == Placed(e, where, o)
  <1>1. /\ s \in Seq(Objects) /\ e \in Seq(Objects) /\ Len(s) = off + Len(e)
        /\ Len(e) \in Nat /\ Len(s) \in Nat /\ Len(s) - off = Len(e)
    BY DEF Above
  <1>2. p = IF at = Push THEN Append(s, o)
            ELSE IF at \in {Discard, OutOfBounds} THEN s ELSE [s EXCEPT ![off + at + 1] = o]
    BY <1>1 DEF PutStk
  <1>3. q = CASE at = Push -> Append(e, o)
              [] at = Discard -> e
              [] OTHER -> [e EXCEPT ![at + 1] = o]
    BY DEF Placed, ReplaceAt
  <1>4. at \in {Push, Discard} \cup 0..Len(e) - 1
    BY <1>1, AbsIndexIsLocal
  <1>5. /\ Push # Discard /\ OutOfBounds \notin {Push, Discard}
        /\ {Push, Discard, OutOfBounds} \cap Int = {}
    BY IndexAssumption
  <1> HIDE DEF at, p, q
  <1>6. CASE at = Push
    <2>1. p = Append(s, o) /\ q = Append(e, o)
      BY <1>2, <1>3, <1>5, <1>6
    <2>2. /\ p \in Seq(Objects) /\ Len(p) = Len(s) + 1
          /\ q \in Seq(Objects) /\ Len(q) = Len(e) + 1
      <3>1. \A r \in Seq(Objects) : /\ Append(r, o) \in Seq(Objects)
                                    /\ Len(Append(r, o)) = Len(r) + 1
        OBVIOUS
      <3> QED
        BY <1>1, <2>1, <3>1, Zenon
    <2>3. ASSUME NEW i \in 1..Len(e) + 1 PROVE p[off + i] = q[i]
      <3>1. /\ p[Len(s) + 1] = o /\ \A j \in 1..Len(s) : p[j] = s[j]
            /\ q[Len(e) + 1] = o /\ \A j \in 1..Len(e) : q[j] = e[j]
        BY <1>1, <2>1
      <3>2. CASE i = Len(e) + 1
        <4>1. off + i = Len(s) + 1
          BY <1>1, <3>2
        <4> QED
          BY <3>1, <3>2, <4>1
      <3>3. CASE i \in 1..Len(e)
        <4>1. off + i \in 1..Len(s) /\ s[off + i] = e[i]
          BY <1>1, <3>3 DEF Above
        <4> QED
          BY <3>1, <3>3, <4>1
      <3> QED
        BY <1>1, <3>2, <3>3
    <2>4. Len(p) = off + Len(q)
      BY <1>1, <2>2
    <2>5. \A i \in 1..Len(q) : p[off + i] = q[i]
      BY <2>2, <2>3
    <2> QED
      BY <2>2, <2>4, <2>5 DEF Above, p, q
  <1>7. CASE at = Discard
    <2>1. p = s /\ q = e
      BY <1>2, <1>3, <1>5, <1>7
    <2> QED
      BY <2>1 DEF p, q
  <1>8. CASE at \in 0..Len(e) - 1
    <2>1. at \in Int /\ at \notin {Push, Discard, OutOfBounds}
      <3>1. at \in Int
        BY <1>1, <1>8
      <3> QED
        BY <3>1, <1>5, Zenon
    <2>2. p = [s EXCEPT ![off + at + 1] = o] /\ q = [e EXCEPT ![at + 1] = o]
      BY <1>2, <1>3, <2>1
    <2>3. at + 1 \in 1..Len(e) /\ off + at + 1 \in 1..Len(s)
      BY <1>1, <1>8
    <2>4. /\ p \in Seq(Objects) /\ Len(p) = Len(s)
          /\ q \in Seq(Objects) /\ Len(q) = Len(e)
      BY <1>1, <2>2, <2>3
    <2>5. ASSUME NEW i \in 1..Len(e) PROVE p[off + i] = q[i]
      <3>1. off + i \in 1..Len(s) /\ (off + i = off + at + 1 <=> i = at + 1)
        BY <1>1, <2>1, <2>3
      <3>2. s[off + i] = e[i]
        BY DEF Above
      <3> QED
        BY <1>1, <2>2, <2>3, <3>1, <3>2
    <2> QED
      BY <1>1, <2>4, <2>5 DEF Above, p, q
  <1> QED
    BY <1>4, <1>6, <1>7, <1>8 DEF p, q

KeepsArgs == "keeps its args" \in Discipline

\* How many of the topmost locals of its caller a call is given, and how many it takes:
\* ymCtx_SetVar pulls its value before the initializer is called.
Given(f) == f.args - f.dummies

Pulls(next) == IF next # <<>> /\ Writes(next) THEN 1 ELSE 0

\* What the caller, whose locals were e, has asked for.
Asked(next, given, returnTo, e) ==
    IF next = <<>> THEN AbsIndex(returnTo, Len(e) - given) # OutOfBounds
    ELSE /\ given = 0
         /\ IF Writes(next) THEN next.value = Last(e)
                            ELSE AbsIndex(next.where, Len(e)) # OutOfBounds

\* f was entered from locals that started at off. What was not taken is still there.
Entered(f, off, s) ==
    /\ f.entry \in Seq(Objects) /\ Given(f) \in Nat
    /\ Given(f) + Pulls(f.then) <= Len(f.entry)
    /\ Floor(f) = off + Len(f.entry) - (Given(f) + Pulls(f.then))
    /\ \A i \in 1..Len(f.entry) - (Given(f) + Pulls(f.then)) : s[off + i] = f.entry[i]
    /\ Asked(f.then, Given(f), f.returnTo, f.entry)

EntryInv ==
    \A k \in 2..Len(frames) : Entered(frames[k], frames[k - 1].localsOffset, stk)

\* It stays so while what is below the args does.
LEMMA EnteredStays ==
  ASSUME NEW f, NEW g, NEW off \in Nat, NEW s, NEW t, Entered(f, off, s), SameCall(g, f),
         Keeps(s, t, Floor(f))
  PROVE  Entered(g, off, t)
  <1> DEFINE l == Len(f.entry)
             n == Given(f) + Pulls(f.then)
  <1>1. /\ g.entry = f.entry /\ g.then = f.then /\ g.returnTo = f.returnTo
        /\ Given(g) = Given(f) /\ Floor(g) = Floor(f)
    BY DEF SameCall, Given, Floor
  <1>2. /\ f.entry \in Seq(Objects) /\ Given(f) \in Nat /\ n <= l
        /\ Floor(f) = off + l - n /\ \A i \in 1..l - n : s[off + i] = f.entry[i]
        /\ Asked(f.then, Given(f), f.returnTo, f.entry)
    BY DEF Entered
  <1>3. l \in Nat /\ n \in Nat
    BY <1>2 DEF Pulls
  <1>4. ASSUME NEW i \in 1..l - n PROVE t[off + i] = f.entry[i]
    <2>1. off + i \in 1..Floor(f)
      BY <1>2, <1>3
    <2> QED
      BY <1>2, <2>1 DEF Keeps
  <1> QED
    BY <1>1, <1>2, <1>4 DEF Entered

\* The frame that a call adds is one that was entered.
EntryAdds ==
    \E f : frames' = Append(frames, f) /\ Entered(f, Frame.localsOffset, stk')

\* What is above off, is above off.
LEMMA SliceIsAbove ==
  ASSUME NEW s \in Seq(Objects), NEW off \in Nat, off <= Len(s)
  PROVE  Above(s, off, SubSeq(s, off + 1, Len(s)))
  <1> DEFINE t == SubSeq(s, off + 1, Len(s))
  <1>1. Len(s) \in Nat
    OBVIOUS
  <1>2. t \in Seq(Objects)
    BY <1>1
  <1>3. Len(t) = Len(s) - off
    BY <1>1
  <1>4. ASSUME NEW i \in 1..Len(s) - off PROVE t[i] = s[off + i]
    BY <1>1
  <1> HIDE DEF t
  <1>5. Len(s) = off + Len(t)
    BY <1>1, <1>3
  <1>6. \A i \in 1..Len(t) : s[off + i] = t[i]
    BY <1>3, <1>4
  <1>7. Above(s, off, t)
    BY <1>2, <1>5, <1>6 DEF Above
  <1> QED
    BY <1>7 DEF t

\* The locals are above their offset.
LEMMA LocalsAreAbove ==
  ASSUME OwnInv
  PROVE  /\ Above(stk, Frame.localsOffset, LocalStack) /\ Len(LocalStack) = Locals
         /\ LocalStack \in Seq(Objects) /\ Locals \in Nat /\ Frame.localsOffset \in Nat
  <1>1. /\ stk \in Seq(Objects) /\ Len(stk) \in Nat
        /\ Frame.localsOffset \in Nat /\ Frame.localsOffset <= Len(stk)
    BY OwnFacts, FrameFacts DEF OwnInv
  <1>2. Above(stk, Frame.localsOffset, LocalStack)
    BY <1>1, SliceIsAbove DEF LocalStack
  <1>3. LocalStack \in Seq(Objects) /\ Len(stk) = Frame.localsOffset + Len(LocalStack)
    BY <1>2 DEF Above
  <1>4. Len(LocalStack) \in Nat /\ Len(LocalStack) = Len(stk) - Frame.localsOffset
    BY <1>1, <1>3
  <1> QED
    BY <1>1, <1>2, <1>3, <1>4, Zenon DEF Locals

\* Some of the topmost locals go, and others come: what is left below is still there.
Makes(s, off, e, pulls, os) ==
    LET below == SubSeq(s, 1, Len(s) - pulls) IN
    /\ Len(below) = off + Len(e) - pulls
    /\ \A i \in 1..Len(e) - pulls : (below \o os)[off + i] = e[i]

\* What is left below is where it was.
LEMMA LocalsMake ==
  ASSUME NEW s, NEW off \in Nat, NEW e, Above(s, off, e), NEW pulls \in Nat, pulls <= Len(e),
         NEW os \in Seq(Objects)
  PROVE  Makes(s, off, e, pulls, os)
  <1> DEFINE k == Len(s) - pulls
             below == SubSeq(s, 1, k)
             n == Len(e) - pulls
             t == below \o os
  <1>1. s \in Seq(Objects) /\ Len(s) = off + Len(e) /\ Len(e) \in Nat /\ Len(s) \in Nat
    BY DEF Above
  <1>2. k \in 0..Len(s) /\ k = off + n /\ n \in 0..Len(e)
    BY <1>1
  <1> HIDE DEF k, n
  <1>3. below \in Seq(Objects) /\ Len(below) = k /\ \A i \in 1..k : below[i] = s[i]
    <2>1. k \in 0..k
      BY <1>1, <1>2
    <2> QED
      BY <1>1, <1>2, <2>1, CutTwice
  <1> HIDE DEF below
  <1>4. \A i \in 1..k : t[i] = below[i]
    BY <1>3
  <1> HIDE DEF t
  <1>5. ASSUME NEW i \in 1..n PROVE t[off + i] = e[i]
    <2>1. off + i \in 1..k /\ i \in 1..Len(e)
      BY <1>1, <1>2
    <2>2. t[off + i] = s[off + i]
      BY <1>3, <1>4, <2>1
    <2> QED
      BY <2>1, <2>2 DEF Above
  <1>6. Len(below) = off + Len(e) - pulls
    BY <1>1, <1>2, <1>3 DEF n
  <1> QED
    BY <1>5, <1>6 DEF Makes, below, k, n, t

\* The call behaviour starts with its caller's locals on record.
LEMMA EnterRecords ==
  ASSUME OwnInv, NEW f \in Functions, NEW given \in Nat, NEW names,
         Len(names) \in Nat, Len(names) <= Len(Signature[f].named),
         NEW returnTo, NEW next, given + Pulls(next) <= Locals,
         Asked(next, given, returnTo, LocalStack),
         Enter(f, given, names, returnTo, SubSeq(stk, 1, Len(stk) - Pulls(next)), next)
  PROVE  EntryAdds
  <1> DEFINE pulls == Pulls(next)
             off == Frame.localsOffset
             below == SubSeq(stk, 1, Len(stk) - pulls)
             e == LocalStack
  <1>1. PICK target \in Targets(f, stk[Len(stk) - given + 1]) :
          \E os \in Room(heap, Dummies(f, target, names)) :
            /\ stk' = below \o os
            /\ frames' = Append(frames,
                [fn |-> target, args |-> given + Dummies(f, target, names),
                 dummies |-> Dummies(f, target, names), returnTo |-> returnTo,
                 localsOffset |-> Len(below) + Dummies(f, target, names),
                 fwdFromProto |-> f \in MethodReqs, returnValue |-> Nil,
                 then |-> next, entry |-> LocalStack])
    BY DEF Enter
  <1> DEFINE d == Dummies(f, target, names)
             g == [fn |-> target, args |-> given + d, dummies |-> d, returnTo |-> returnTo,
                   localsOffset |-> Len(below) + d, fwdFromProto |-> f \in MethodReqs,
                   returnValue |-> Nil, then |-> next, entry |-> LocalStack]
  <1>2. PICK os \in Room(heap, d) : stk' = below \o os /\ frames' = Append(frames, g)
    BY <1>1
  <1>3. d \in Nat
    BY TargetIsFunction, DummiesAreCounted
  <1> HIDE DEF d
  <1>4. os \in Seq(Objects)
    <2>1. os \in [1..d -> Objects \ Live(heap)]
      BY <1>2 DEF Room
    <2> QED
      BY <1>3, <2>1
  <1>5. /\ Above(stk, off, e) /\ Len(e) = Locals /\ e \in Seq(Objects) /\ off \in Nat
        /\ Locals \in Nat
    BY LocalsAreAbove
  <1>6. pulls \in Nat
    BY DEF Pulls
  <1>7. Asked(next, given, returnTo, e)
    OBVIOUS
  <1>8. given + pulls <= Len(e)
    BY <1>5
  <1> HIDE DEF e, pulls
  <1>9. pulls <= Len(e)
    BY <1>5, <1>6, <1>8
  <1>10. /\ Len(below) = off + Len(e) - pulls
         /\ \A i \in 1..Len(e) - pulls : (below \o os)[off + i] = e[i]
    <2>1. Makes(stk, off, e, pulls, os)
      <3> HIDE DEF off
      <3> QED
        BY <1>4, <1>5, <1>6, <1>9, LocalsMake
    <2> QED
      BY <2>1 DEF Makes
  <1> HIDE DEF below, off
  <1>11. Len(below) \in Int
    BY <1>5, <1>6, <1>10
  <1>12. /\ g.entry = e /\ g.then = next /\ g.returnTo = returnTo
         /\ g.args = given + d /\ g.dummies = d /\ g.localsOffset = Len(below) + d
    BY DEF e
  <1> HIDE DEF g
  <1>13. Given(g) = given /\ Floor(g) = Len(below) - given
    BY <1>3, <1>11, <1>12 DEF Given, Floor
  <1>14. ASSUME NEW i \in 1..Len(e) - (given + pulls) PROVE stk'[off + i] = e[i]
    <2>1. i \in 1..Len(e) - pulls
      BY <1>5, <1>6, <1>8
    <2> QED
      BY <1>2, <1>10, <2>1
  <1>15. Floor(g) = off + Len(e) - (given + pulls)
    BY <1>5, <1>6, <1>10, <1>13
  <1>16. Entered(g, off, stk')
    BY <1>5, <1>7, <1>8, <1>12, <1>13, <1>14, <1>15 DEF Entered, pulls
  <1> QED
    BY <1>2, <1>16 DEF EntryAdds, off, g

\* ymCtx_Call.
LEMMA BeginCallIsEntry ==
  ASSUME OwnInv, RoomIsLeft, NEW f \in Functions, NEW returnTo \in Wheres,
         NEW names \in NameLists(Len(Signature[f].named)), BeginCall(f, names, returnTo)
  PROVE  UNCHANGED frames \/ EntryAdds
  <1> DEFINE given == Len(Signature[f].positional) + Len(names)
             none == <<>>
             l == Locals
             out == AbsIndex(returnTo, l - given)
  <1>1. PICK j \in 0..Len(Signature[f].named) : names \in [1..j -> 1..Len(Signature[f].named)]
    BY DEF NameLists
  <1>2. Len(Signature[f].positional) \in Nat /\ Len(Signature[f].named) \in Nat
    BY FunctionAssumption
  <1>3. Len(names) \in Nat /\ Len(names) <= Len(Signature[f].named)
    BY <1>1, <1>2
  <1>4. given \in Nat
    BY <1>2, <1>3
  <1>5. CASE Refused
    BY <1>5 DEF Refused
  <1>6. CASE ~Refused
    <2>1. /\ ~(given > l) /\ ("leaves room" \in Discipline => out # OutOfBounds)
          /\ Enter(f, given, names, returnTo, stk, none)
      BY <1>6, Zenon DEF BeginCall, LeavesRoom
    <2>2. out # OutOfBounds
      BY <2>1 DEF RoomIsLeft
    <2>3. Pulls(none) = 0
      BY DEF Pulls
    <2>4. /\ l \in Nat /\ Len(LocalStack) = l /\ stk \in Seq(Objects) /\ Len(stk) \in Nat
      BY LocalsAreAbove, OwnFacts DEF OwnInv
    <2>5. stk = SubSeq(stk, 1, Len(stk) - Pulls(none))
      <3>1. Len(stk) - Pulls(none) = Len(stk)
        BY <2>3, <2>4
      <3>2. SubSeq(stk, 1, Len(stk)) = stk
        BY <2>4
      <3> QED
        BY <3>1, <3>2
    <2>6. Asked(none, given, returnTo, LocalStack)
      BY <2>2, <2>4 DEF Asked
    <2> HIDE DEF given, none, l
    <2>7. given + Pulls(none) <= l
      <3>1. ~(given > l) /\ l \in Nat /\ given \in Nat
        BY <1>4, <2>1, <2>4
      <3> DEFINE p == Pulls(none)
      <3>2. p = 0
        BY <2>3
      <3> HIDE DEF p
      <3>3. given + p <= l
        BY <3>1, <3>2
      <3> QED
        BY <3>3 DEF p
    <2>8. Enter(f, given, names, returnTo, SubSeq(stk, 1, Len(stk) - Pulls(none)), none)
      BY <2>1, <2>5
    <2> QED
      BY <1>3, <1>4, <2>6, <2>7, <2>8, EnterRecords DEF l
  <1> QED
    BY <1>5, <1>6

\* The call of an initializer.
LEMMA InitializeIsEntry ==
  ASSUME OwnInv, InitializesVars, NEW v \in Vars, NEW next, Pulls(next) <= Locals,
         Asked(next, 0, Push, LocalStack),
         Initialize(v, SubSeq(stk, 1, Len(stk) - Pulls(next)), next)
  PROVE  EntryAdds
  <1> DEFINE f == Initializer[v]
             none == <<>>
             below == SubSeq(stk, 1, Len(stk) - Pulls(next))
  <1> HIDE DEF below, none
  <1>1. Enter(f, 0, <<>>, Push, below, next)
    BY Zenon DEF Initialize, InitializesVars, below
  <1>2. f \in Functions
    BY FunctionAssumption
  <1>3. Len(none) = 0 /\ Len(none) \in Nat /\ 0 \in Nat
    BY DEF none
  <1>4. Len(none) <= Len(Signature[f].named)
    <2>1. Len(Signature[f].named) \in Nat
      BY <1>2, FunctionAssumption
    <2> QED
      BY <1>3, <2>1
  <1>5. 0 + Pulls(next) <= Locals
    BY DEF Pulls
  <1> HIDE DEF f
  <1>6. Enter(f, 0, none, Push, below, next)
    BY <1>1 DEF none
  <1> QED
    BY <1>2, <1>3, <1>4, <1>5, <1>6, EnterRecords DEF below

\* ymCtx_GetVar.
LEMMA GetVarIsEntry ==
  ASSUME OwnInv, InitializesVars, NEW v \in Vars, NEW where \in Wheres, GetVar(v, where)
  PROVE  UNCHANGED frames \/ EntryAdds
  <1> DEFINE next == [op |-> "get", var |-> v, where |-> where]
             at == AbsIndex(where, Locals)
  <1>1. CASE Refused
    BY <1>1 DEF Refused
  <1>2. CASE ~Refused /\ vars[v] # Nil
    BY <1>2, Zenon DEF GetVar
  <1>3. CASE ~Refused /\ vars[v] = Nil
    <2>1. at # OutOfBounds /\ Initialize(v, stk, next)
      BY <1>3, Zenon DEF GetVar
    <2>2. next.where = where /\ ~Writes(next) /\ next # <<>>
      BY DEF Writes
    <2> HIDE DEF next
    <2>3. Pulls(next) = 0
      BY <2>2 DEF Pulls
    <2>4. /\ Locals \in Nat /\ Len(LocalStack) = Locals /\ stk \in Seq(Objects)
          /\ Len(stk) \in Nat
      BY LocalsAreAbove, OwnFacts DEF OwnInv
    <2>5. Asked(next, 0, Push, LocalStack)
      BY <2>1, <2>2, <2>4 DEF Asked
    <2>6. stk = SubSeq(stk, 1, Len(stk) - Pulls(next))
      <3>1. Len(stk) - Pulls(next) = Len(stk)
        BY <2>3, <2>4
      <3>2. SubSeq(stk, 1, Len(stk)) = stk
        BY <2>4
      <3> QED
        BY <3>1, <3>2
    <2>7. Initialize(v, SubSeq(stk, 1, Len(stk) - Pulls(next)), next)
      BY <2>1, <2>6
    <2>8. Pulls(next) <= Locals
      BY <2>3, <2>4
    <2> QED
      BY <2>5, <2>7, <2>8, InitializeIsEntry
  <1> QED
    BY <1>1, <1>2, <1>3

\* ymCtx_SetVar.
LEMMA SetVarIsEntry ==
  ASSUME OwnInv, InitializesVars, NEW v \in Vars, SetVar(v)
  PROVE  UNCHANGED frames \/ EntryAdds
  <1> DEFINE next == [op |-> "set", var |-> v, value |-> Last(stk)]
             front == Front(stk)
  <1>1. CASE Refused
    BY <1>1 DEF Refused
  <1>2. CASE ~Refused /\ vars[v] # Nil
    BY <1>2, Zenon DEF SetVar
  <1>3. CASE ~Refused /\ vars[v] = Nil
    <2>1. Locals # 0 /\ Initialize(v, front, next)
      BY <1>3, Zenon DEF SetVar
    <2>2. next.value = Last(stk) /\ Writes(next) /\ next # <<>>
      BY DEF Writes
    <2> HIDE DEF next
    <2>3. Pulls(next) = 1
      BY <2>2 DEF Pulls
    <2>4. /\ Above(stk, Frame.localsOffset, LocalStack) /\ Len(LocalStack) = Locals
          /\ LocalStack \in Seq(Objects) /\ Locals \in Nat /\ stk \in Seq(Objects)
          /\ Len(stk) \in Nat
      BY LocalsAreAbove, OwnFacts DEF OwnInv
    <2>5. Last(LocalStack) = Last(stk)
      <3>1. Len(stk) = Frame.localsOffset + Len(LocalStack)
        BY <2>4 DEF Above
      <3>2. Len(LocalStack) \in 1..Len(LocalStack)
        BY <2>1, <2>4
      <3>3. stk[Len(stk)] = LocalStack[Len(LocalStack)]
        BY <2>4, <3>1, <3>2 DEF Above
      <3> QED
        BY <3>3 DEF Last
    <2>6. Asked(next, 0, Push, LocalStack)
      BY <2>2, <2>5 DEF Asked
    <2>7. front = SubSeq(stk, 1, Len(stk) - Pulls(next))
      BY <2>3 DEF Front
    <2>8. Initialize(v, SubSeq(stk, 1, Len(stk) - Pulls(next)), next)
      BY <2>1, <2>7
    <2>9. Pulls(next) <= Locals
      BY <2>1, <2>3, <2>4
    <2> QED
      BY <2>6, <2>8, <2>9, InitializeIsEntry
  <1> QED
    BY <1>1, <1>2, <1>3

\* Every frame that a step adds was entered.
LEMMA GrowthIsEntry ==
  ASSUME OwnInv, InitializesVars, RoomIsLeft, [Next]_ctxVars, Adds
  PROVE  EntryAdds
  <1>1. /\ FramesInv /\ Len(frames) \in Nat /\ Len(frames') = Len(frames) + 1
    BY AddsFrame DEF Adds, OwnInv
  <1>2. frames' # frames /\ ~Calm
    BY <1>1, CalmFrames
  <1>3. CASE HostCalls \/ StackCalls \/ ValueCalls
    BY <1>2, <1>3, HostCallsQuiet, StackCallsQuiet, ValueCallsQuiet DEF Quiet
  <1>4. CASE FnCalls
    <2>1. ~EndCall
      BY <1>1, EndCallFrames
    <2> QED
      BY <1>2, <1>4, <2>1, BeginCallIsEntry, BindingIsCalm DEF FnCalls
  <1>5. CASE VarCalls
    BY <1>2, <1>5, GetVarIsEntry, SetVarIsEntry DEF VarCalls
  <1>6. ~Destroy
    <2>1. Destroy => Len(frames') = 1
      BY NobodyAwaits DEF Destroy
    <2> QED
      BY <1>1, <2>1, FrameFacts
  <1>7. UNCHANGED ctxVars => frames' = frames
    BY DEF ctxVars
  <1> QED
    BY <1>2, <1>3, <1>4, <1>5, <1>6, <1>7 DEF Next

\* All frames were entered, from the locals of the frame below.
LEMMA EntryInvNext ==
  ASSUME OwnInv, InitializesVars, RoomIsLeft, EntryInv, [Next]_ctxVars
  PROVE  EntryInv'
  <1> DEFINE n == Len(frames)
  <1>1. /\ FramesInv /\ n \in Nat \ {0} /\ Frame = frames[n]
    BY FrameFacts DEF OwnInv
  <1>2. ASSUME NEW k \in 2..n, k <= Len(frames'), SameCall(frames'[k], frames[k])
        PROVE  Entered(frames'[k], frames'[k - 1].localsOffset, stk')
    <2> DEFINE off == frames[k - 1].localsOffset
    <2>1. Keeps(stk, stk', Floor(frames[k])) /\ frames'[k - 1] = frames[k - 1]
      BY <1>1, <1>2, CallersKept
    <2>2. Entered(frames[k], off, stk)
      BY DEF EntryInv
    <2>3. off \in Nat
      <3>1. k - 1 \in 1..n
        BY <1>1
      <3> QED
        BY <1>1, <3>1, FrameNumbers DEF FramesInv
    <2> HIDE DEF off
    <2>4. Entered(frames'[k], off, stk')
      BY <1>2, <2>1, <2>2, <2>3, EnteredStays
    <2> QED
      BY <2>1, <2>4 DEF off
  <1>3. \A f : SameCall(f, f)
    BY DEF SameCall
  <1>4. CASE Calm
    <2>1. Len(frames') = n /\ \A k \in 1..n : SameCall(frames'[k], frames[k])
      BY <1>1, <1>4, CalmFrames
    <2>2. \A k \in 2..n : k \in 1..n /\ k <= Len(frames')
      BY <1>1, <2>1
    <2> QED
      BY <1>2, <2>1, <2>2 DEF EntryInv
  <1>5. CASE Adds
    <2>1. PICK f : frames' = Append(frames, f) /\ Entered(f, Frame.localsOffset, stk')
      BY <1>5, GrowthIsEntry DEF EntryAdds
    <2>2. /\ Len(frames') = n + 1 /\ frames'[n + 1] = f
          /\ \A k \in 1..n : frames'[k] = frames[k]
      BY <1>1, <2>1, AddsFrame
    <2>3. ASSUME NEW k \in 2..n
          PROVE  Entered(frames'[k], frames'[k - 1].localsOffset, stk')
      <3>1. k \in 1..n /\ k <= Len(frames')
        BY <1>1, <2>2
      <3>2. SameCall(frames'[k], frames[k])
        BY <1>3, <2>2, <3>1
      <3> QED
        BY <1>2, <3>1, <3>2
    <2>4. Entered(frames'[n + 1], frames'[n + 1 - 1].localsOffset, stk')
      <3>1. n \in 1..n /\ n + 1 - 1 = n
        BY <1>1
      <3> QED
        BY <1>1, <2>1, <2>2, <3>1
    <2>5. ASSUME NEW k \in 2..Len(frames') PROVE k \in 2..n \/ k = n + 1
      BY <1>1, <2>2
    <2> QED
      BY <2>3, <2>4, <2>5 DEF EntryInv
  <1>6. CASE EndCall
    <2>1. n > 1 /\ Len(frames') = n - 1 /\ \A k \in 1..n - 1 : frames'[k] = frames[k]
      BY <1>6, EndCallFrames
    <2>2. ASSUME NEW k \in 2..Len(frames')
          PROVE  Entered(frames'[k], frames'[k - 1].localsOffset, stk')
      <3>1. k \in 1..n - 1 /\ k \in 2..n /\ k <= Len(frames')
        BY <1>1, <2>1
      <3>2. SameCall(frames'[k], frames[k])
        BY <1>3, <2>1, <3>1
      <3> QED
        BY <1>2, <3>1, <3>2
    <2> QED
      BY <2>2 DEF EntryInv
  <1>7. CASE Destroy
    <2>1. Len(frames') = 1
      BY <1>7, NobodyAwaits DEF Destroy
    <2> QED
      BY <2>1 DEF EntryInv
  <1>8. CASE Assigns \/ UNCHANGED ctxVars
    <2>1. frames' = frames
      BY <1>8 DEF Assigns, ctxVars
    <2>2. ASSUME NEW k \in 2..n
          PROVE  Entered(frames'[k], frames'[k - 1].localsOffset, stk')
      <3>1. k <= Len(frames')
        BY <1>1, <2>1
      <3> QED
        BY <1>2, <1>3, <2>1, <3>1
    <2> QED
      BY <2>1, <2>2 DEF EntryInv
  <1> QED
    BY <1>4, <1>5, <1>6, <1>7, <1>8, StepKinds

--------------------------------------------------------------------------------
(* What the end of a call does to its caller's stack *)

\* Below the args is what the call has not taken from its caller.
LEMMA RestIsAbove ==
  ASSUME NEW f, NEW off \in Nat, NEW s \in Seq(Objects), Entered(f, off, s),
         Floor(f) \in Nat, Floor(f) <= Len(s), NEW n, n = Given(f) + Pulls(f.then)
  PROVE  /\ Above(SubSeq(s, 1, Floor(f)), off, SubSeq(f.entry, 1, Len(f.entry) - n))
         /\ Len(SubSeq(f.entry, 1, Len(f.entry) - n)) = Len(f.entry) - n
         /\ Len(SubSeq(s, 1, Floor(f))) = Floor(f) /\ Floor(f) - off = Len(f.entry) - n
         /\ SubSeq(s, 1, Floor(f)) \in Seq(Objects)
  <1> DEFINE e == f.entry
             k == Len(e) - n
             down == Floor(f)
             t == SubSeq(s, 1, down)
             r == SubSeq(e, 1, k)
  <1>1. /\ e \in Seq(Objects) /\ n \in Nat /\ n <= Len(e) /\ Len(e) \in Nat
        /\ \A i \in 1..Len(e) - n : s[off + i] = e[i]
    BY DEF Entered, Pulls
  <1>2. down = off + Len(e) - n
    BY DEF Entered
  <1> HIDE DEF e, down
  <1>3. k \in 0..Len(e) /\ down = off + k /\ Len(s) \in Nat /\ down \in 0..Len(s) /\ k \in Nat
    <2>1. Len(s) \in Nat /\ down <= Len(s)
      BY DEF down
    <2> QED
      BY <1>1, <1>2, <2>1
  <1> HIDE DEF k
  <1>4. t \in Seq(Objects) /\ Len(t) = down /\ \A i \in 1..down : t[i] = s[i]
    <2>1. down \in 0..down
      BY <1>3
    <2> QED
      BY <1>3, <2>1, CutTwice
  <1>5. r \in Seq(Objects) /\ Len(r) = k /\ \A i \in 1..k : r[i] = e[i]
    <2>1. k \in 0..k
      BY <1>3
    <2> QED
      BY <1>1, <1>3, <2>1, CutTwice
  <1> HIDE DEF t, r
  <1>6. ASSUME NEW i \in 1..Len(r) PROVE t[off + i] = r[i]
    <2>1. i \in 1..k /\ off + i \in 1..down
      BY <1>3, <1>5
    <2>2. s[off + i] = e[i]
      BY <1>1, <2>1 DEF k
    <2> QED
      BY <1>4, <1>5, <2>1, <2>2
  <1>7. Len(t) = off + Len(r)
    BY <1>3, <1>4, <1>5
  <1>8. Above(t, off, r)
    BY <1>4, <1>5, <1>6, <1>7 DEF Above
  <1>9. Len(r) = k /\ Len(t) = down /\ down - off = k
    BY <1>3, <1>4, <1>5
  <1> QED
    BY <1>4, <1>8, <1>9 DEF t, r, k, e, down

\* A slice has its elements one after another.
LEMMA SliceAt ==
  ASSUME NEW s \in Seq(Objects), NEW b \in Nat, NEW n \in Nat, NEW top, top = b + n,
         top <= Len(s), NEW j \in 1..n
  PROVE  SubSeq(s, b + 1, top)[j] = s[b + j]
  OBVIOUS

\* The args given to f are the topmost locals of its caller still.
HasArgs(f, s) ==
    SubSeq(s, Floor(f) + 1, Floor(f) + Given(f))
        = SubSeq(f.entry, Len(f.entry) - Given(f) + 1, Len(f.entry))

\* With the args it was given, it is all of the caller's locals.
LEMMA AllIsAbove ==
  ASSUME NEW f, NEW off \in Nat, NEW s \in Seq(Objects), Entered(f, off, s), IsFrame(f),
         f.then = <<>>, f.localsOffset <= Len(s), HasArgs(f, s)
  PROVE  Above(SubSeq(s, 1, f.localsOffset - f.dummies), off, f.entry)
  <1> DEFINE e == f.entry
             l == Len(e)
             down == Floor(f)
             a == Given(f)
             top == f.localsOffset - f.dummies
             t == SubSeq(s, 1, top)
  <1>1. Pulls(f.then) = 0
    BY DEF Pulls
  <1>2. /\ e \in Seq(Objects) /\ a \in Nat /\ a + 0 <= l
        /\ down = off + l - (a + 0)
        /\ \A i \in 1..l - (a + 0) : s[off + i] = e[i]
    BY <1>1 DEF Entered
  <1>3. l \in Nat /\ Len(s) \in Nat /\ a \in Nat /\ a <= l
    BY <1>2
  <1>4. top = down + a /\ top \in Nat /\ top <= Len(s)
    <2> DEFINE lo == f.localsOffset
               args == f.args
               d == f.dummies
    <2>1. lo \in Nat /\ args \in Nat /\ d \in Nat /\ d <= args /\ args <= lo /\ lo <= Len(s)
      BY DEF IsFrame
    <2>2. down = lo - args /\ a = args - d /\ top = lo - d
      BY DEF Floor, Given
    <2> HIDE DEF lo, args, d, down, top, a
    <2> QED
      BY <1>3, <2>1, <2>2
  <1>5. SubSeq(s, down + 1, down + a) = SubSeq(e, l - a + 1, l)
    BY DEF HasArgs
  <1> HIDE DEF e, l, down, top, a
  <1>6. top = off + l /\ l - a \in Nat /\ down = off + (l - a) /\ top \in 0..Len(s)
    BY <1>2, <1>3, <1>4
  <1>12. down \in Nat /\ down + a = off + l /\ off + l <= Len(s)
    BY <1>3, <1>6
  <1>7. t \in Seq(Objects) /\ Len(t) = top /\ \A i \in 1..top : t[i] = s[i]
    <2>1. top \in 0..top
      BY <1>4
    <2> QED
      BY <1>6, <2>1, CutTwice
  <1> HIDE DEF t
  <1>8. ASSUME NEW i \in 1..l - a PROVE s[off + i] = e[i]
    BY <1>2, <1>3
  <1>9. ASSUME NEW j \in 1..a PROVE s[down + j] = e[l - a + j]
    <2>1. SubSeq(s, down + 1, down + a)[j] = s[down + j]
      <3>1. down + a <= Len(s)
        BY <1>12
      <3> QED
        BY <1>3, <1>12, <3>1, SliceAt
    <2>2. SubSeq(e, l - a + 1, l)[j] = e[l - a + j]
      <3>1. e \in Seq(Objects) /\ l - a \in Nat /\ l = l - a + a /\ l <= Len(e)
        BY <1>2, <1>3, <1>6 DEF l
      <3> QED
        BY <1>3, <3>1, SliceAt
    <2> QED
      BY <1>5, <2>1, <2>2
  <1>10. ASSUME NEW i \in 1..l PROVE t[off + i] = e[i]
    <2>1. off + i \in 1..top
      BY <1>3, <1>6
    <2>2. CASE i <= l - a
      <3>1. i \in 1..l - a
        BY <1>2, <1>3, <2>2
      <3> QED
        BY <1>7, <1>8, <2>1, <3>1
    <2>3. CASE ~(i <= l - a)
      <3> DEFINE j == i - (l - a)
      <3>1. j \in 1..a /\ down + j = off + i /\ l - a + j = i
        BY <1>3, <1>6, <2>3
      <3> HIDE DEF j
      <3>2. s[down + j] = e[l - a + j]
        BY <1>9, <3>1
      <3> QED
        BY <1>7, <2>1, <3>1, <3>2
    <2> QED
      BY <2>2, <2>3
  <1>11. Above(t, off, e)
    BY <1>2, <1>6, <1>7, <1>10 DEF Above, l
  <1> QED
    BY <1>11 DEF t, e, top

\* What the property asks of the end of a call.
HasEffect ==
    LET after == SubSeq(stk', Last(frames').localsOffset + 1, Len(stk'))
        given == Frame.args - Frame.dummies
        o == Frame.returnValue
    IN IF result' = "failed" THEN after = Frame.entry
       ELSE IF Frame.then = <<>>
       THEN /\ after = Placed(SubSeq(Frame.entry, 1, Len(Frame.entry) - given),
                              Frame.returnTo, o)
            /\ heap[o].type = Signature[Frame.fn].returns
       ELSE IF Frame.then.op = "get"
       THEN after = Placed(Frame.entry, Frame.then.where, vars'[Frame.then.var])
       ELSE after = Front(Frame.entry) /\ vars'[Frame.then.var] = Last(Frame.entry)

\* The caller's locals start where its frame says, and its own frame is the last that is left.
LEMMA EndsInCaller ==
  ASSUME OwnInv, EntryInv, EndCall
  PROVE  LET off == frames[Len(frames) - 1].localsOffset IN
         /\ Last(frames').localsOffset = off /\ off \in Nat /\ off <= Floor(Frame)
         /\ Entered(Frame, off, stk)
         /\ Floor(Frame) \in Nat /\ Floor(Frame) <= Len(stk) /\ Frame.localsOffset <= Len(stk)
         /\ stk \in Seq(Objects) /\ IsFrame(Frame)
  <1> DEFINE n == Len(frames)
             off == frames[n - 1].localsOffset
  <1>1. /\ n \in Nat /\ n > 1 /\ Len(frames') = n - 1 /\ Frame = frames[n]
        /\ \A k \in 1..n - 1 : frames'[k] = frames[k]
    BY EndCallFrames
  <1>2. /\ Floor(Frame) \in Nat /\ Floor(Frame) <= Frame.localsOffset /\ IsFrame(Frame)
        /\ Frame.localsOffset \in Nat /\ Frame.localsOffset <= Len(stk) /\ Len(stk) \in Nat
    BY FrameFacts DEF OwnInv
  <1>3. Last(frames') = frames[n - 1]
    <2>1. n - 1 \in 1..n - 1
      BY <1>1
    <2>2. frames'[Len(frames')] = frames[n - 1]
      BY <1>1, <2>1
    <2> QED
      BY <2>2 DEF Last
  <1>4. off \in Nat /\ off <= Floor(Frame)
    <2>1. ~IsUser
      BY <1>1 DEF IsUser
    <2> QED
      BY <2>1, CallerIsBelow DEF OwnInv
  <1>5. Entered(Frame, off, stk)
    <2>1. n \in 2..n
      BY <1>1
    <2> QED
      BY <1>1, <2>1 DEF EntryInv
  <1>6. stk \in Seq(Objects)
    BY OwnFacts DEF OwnInv
  <1>7. Floor(Frame) <= Len(stk)
    BY <1>2
  <1> QED
    BY <1>2, <1>3, <1>4, <1>5, <1>6, <1>7

\* ymCtx_Call from the end of the call behaviour.
LEMMA CallEffect ==
  ASSUME KeepsArgs, OwnInv, EntryInv, EndCall, Frame.then = <<>>
  PROVE  HasEffect
  <1> DEFINE off == frames[Len(frames) - 1].localsOffset
             m == Returned(off)
             e == Frame.entry
             given == Given(Frame)
             o == Frame.returnValue
             where == Frame.returnTo
             down == Floor(Frame)
             rest == SubSeq(stk, 1, down)
             left == SubSeq(e, 1, Len(e) - given)
             none == <<>>
  <1>1. /\ ~m.ok => ArgsKept
        /\ Becomes(m)
    <2>1. /\ ~m.ok /\ Frame.then = none /\ "keeps its args" \in Discipline => ArgsKept
          /\ IF Frame.then = none THEN Becomes(m) /\ UNCHANGED vars
                                  ELSE Resume(m, off, Frame.then)
      BY Zenon DEF EndCall
    <2>2. Frame.then = none
      OBVIOUS
    <2> HIDE DEF m, none
    <2> QED
      BY <2>1, <2>2 DEF KeepsArgs
  <1>2. /\ Last(frames').localsOffset = off /\ off \in Nat /\ off <= down
        /\ Entered(Frame, off, stk) /\ down \in Nat /\ down <= Len(stk)
        /\ Frame.localsOffset <= Len(stk) /\ stk \in Seq(Objects) /\ IsFrame(Frame)
    BY EndsInCaller
  <1>3. Pulls(Frame.then) = 0
    BY DEF Pulls
  <1>4. /\ e \in Seq(Objects) /\ given \in Nat /\ given + Pulls(Frame.then) = given
        /\ AbsIndex(where, Len(e) - given) # OutOfBounds
    BY <1>2, <1>3 DEF Entered, Asked
  <1>5. /\ Above(rest, off, left) /\ Len(left) = Len(e) - given
        /\ down - off = Len(e) - given
    <2>1. given = Given(Frame) + Pulls(Frame.then)
      BY <1>4
    <2> HIDE DEF off, given
    <2> QED
      BY <1>2, <2>1, RestIsAbove
  <1>6. AbsIndex(where, down - off) # OutOfBounds
    BY <1>4, <1>5
  <1>7. \/ m.ok = FALSE /\ m.stk = SubSeq(stk, 1, Frame.localsOffset - Frame.dummies)
        \/ /\ o \in Objects /\ heap[o].type = Signature[Frame.fn].returns
           /\ m.stk = PutStk(rest, off, where, o) /\ m.ok = TRUE
    <2>1. off \in Nat /\ off <= Floor(Frame)
      BY <1>2
    <2> HIDE DEF off
    <2> QED
      BY <1>6, <2>1, ReturnedCases
  <1>8. result' = Outcome(m.ok) /\ stk' = m.stk
    BY <1>1 DEF Becomes
  <1>9. where \in Wheres /\ given = Frame.args - Frame.dummies
    BY <1>2 DEF IsFrame, Given
  <1> HIDE DEF off, m, e, o, where, down
  <1>10. CASE m.ok = FALSE /\ m.stk = SubSeq(stk, 1, Frame.localsOffset - Frame.dummies)
    <2>1. HasArgs(Frame, stk)
      BY <1>1, <1>10, Zenon DEF ArgsKept, HasArgs, Given, Floor
    <2>2. Above(stk', off, Frame.entry)
      BY <1>2, <1>8, <1>10, <2>1, AllIsAbove
    <2>3. SubSeq(stk', off + 1, Len(stk')) = Frame.entry
      BY <1>2, <2>2, AboveIsSlice
    <2>4. result' = "failed"
      BY <1>8, <1>10 DEF Outcome
    <2> QED
      BY <1>2, <2>3, <2>4, Zenon DEF HasEffect
  <1>11. CASE /\ o \in Objects /\ heap[o].type = Signature[Frame.fn].returns
              /\ m.stk = PutStk(rest, off, where, o) /\ m.ok = TRUE
    <2> DEFINE p == Placed(left, where, o)
    <2>1. AbsIndex(where, Len(left)) # OutOfBounds
      BY <1>4, <1>5
    <2> HIDE DEF rest, left
    <2>2. Above(PutStk(rest, off, where, o), off, p)
      BY <1>2, <1>5, <1>9, <1>11, <2>1, PutAbove
    <2> HIDE DEF p
    <2>3. SubSeq(stk', off + 1, Len(stk')) = p
      BY <1>2, <1>8, <1>11, <2>2, AboveIsSlice
    <2>4. result' # "failed"
      BY <1>8, <1>11 DEF Outcome
    <2>5. left = SubSeq(Frame.entry, 1, Len(Frame.entry) - (Frame.args - Frame.dummies))
      BY <1>9 DEF left, e
    <2> QED
      BY <1>2, <1>11, <2>3, <2>4, <2>5, Zenon DEF HasEffect, p, where, o
  <1> QED
    BY <1>7, <1>10, <1>11

\* What is left when storage has pulled the result of an initializer.
Pulled(m) == [m EXCEPT !.stk = Front(m.stk), !.ok = TRUE]

\* An initializer's call has ended well: its result is on the stack, and pulled off it.
LEMMA ResultIsPulled ==
  ASSUME InitializesVars, OwnInv, Awaiting, EntryInv, EndCall, Frame.then # <<>>
  PROVE  LET off == frames[Len(frames) - 1].localsOffset
             m == Returned(off)
             w == Frame.then.var
             p == Pulled(m)
         IN /\ w \in Vars /\ DOMAIN vars = Vars
            /\ IsMachine(p) /\ p.ok = TRUE /\ p.stk = SubSeq(stk, 1, Floor(Frame))
            /\ \/ /\ Frame.then.op = "get" /\ vars' = [vars EXCEPT ![w] = Last(m.stk)]
                  /\ Becomes(GotVar(p, off, Last(m.stk), Frame.then.where))
               \/ /\ Frame.then.op # "get"
                  /\ vars' = [[vars EXCEPT ![w] = Last(m.stk)] EXCEPT ![w] = Frame.then.value]
                  /\ Becomes(p)
            /\ Last(m.stk) \in Objects
  <1> DEFINE off == frames[Len(frames) - 1].localsOffset
             m == Returned(off)
             w == Frame.then.var
             p == Pulled(m)
             o == Frame.returnValue
             rest == SubSeq(stk, 1, Floor(Frame))
  <1>1. /\ ~IsUser /\ Resume(m, off, Frame.then) /\ m.ok
    BY Zenon DEF EndCall, InitializesVars
  <1>2. /\ Len(frames) \in 1..Len(frames) /\ Frame = frames[Len(frames)]
    BY FrameFacts DEF OwnInv
  <1>3. w \in Vars /\ Frame.returnTo = Push
    BY <1>2 DEF Awaiting
  <1>4. DOMAIN vars = Vars
    BY DEF OwnInv, Owned, OwnerTypes
  <1>5. off \in Nat /\ off <= Floor(Frame) /\ Floor(Frame) \in 0..Len(stk) /\ stk \in Seq(Objects)
    BY EndsInCaller
  <1>6. Len(m.stk) > off /\ Last(m.stk) \in Objects
    BY <1>1, <1>3, <1>5, AwaitedIsPushed
  <1>7. IsMachine(m)
    BY <1>5, ReturnedKeeps DEF OwnInv, MachineKeeps
  <1>8. o \in Objects /\ m.stk = Append(rest, o)
    <2>1. AbsIndex(Frame.returnTo, Floor(Frame) - off) = Push
      BY <1>3, Zenon DEF AbsIndex
    <2>2. AbsIndex(Frame.returnTo, Len(rest) - off) = Push
      BY <1>3, Zenon DEF AbsIndex
    <2>3. o \in Objects /\ m.stk = PutStk(rest, off, Frame.returnTo, o)
      BY <1>1, <1>5, ReturnedCases
    <2> QED
      BY <2>2, <2>3 DEF PutStk
  <1>9. rest \in Seq(Objects) /\ Len(rest) = Floor(Frame)
    BY <1>5, CutTwice
  <1> HIDE DEF off, m, o, rest, w
  <1>10. Front(m.stk) = rest
    <2> DEFINE t == Append(rest, o)
    <2>1. Len(t) = Len(rest) + 1 /\ t \in Seq(Objects) /\ Len(rest) \in Nat
      BY <1>8, <1>9
    <2>2. Front(t) = SubSeq(t, 1, Len(rest))
      BY <2>1 DEF Front
    <2>3. SubSeq(t, 1, Len(rest)) = rest
      BY <1>8, <1>9
    <2> QED
      BY <1>8, <2>2, <2>3
  <1>11. IsMachine(p) /\ p.ok = TRUE /\ p.stk = rest
    <2>1. m = [heap |-> m.heap, stk |-> m.stk, ok |-> m.ok]
      BY <1>7 DEF IsMachine
    <2> DEFINE s == Front(m.stk)
    <2>2. p = [m EXCEPT !.stk = s, !.ok = TRUE]
      BY DEF Pulled
    <2> HIDE DEF s
    <2>3. p = [heap |-> m.heap, stk |-> s, ok |-> TRUE]
      BY <2>1, <2>2
    <2>4. s = rest /\ IsSeq(s)
      BY <1>9, <1>10 DEF s, IsSeq
    <2> QED
      BY <2>3, <2>4 DEF IsMachine
  <1>12. p = [m EXCEPT !.stk = IF Len(m.stk) > off THEN Front(m.stk) ELSE m.stk, !.ok = TRUE]
    BY <1>6 DEF Pulled
  <1> HIDE DEF p
  <1>13. \/ /\ Frame.then.op = "get" /\ vars' = [vars EXCEPT ![w] = Last(m.stk)]
            /\ Becomes(GotVar(p, off, [vars EXCEPT ![w] = Last(m.stk)][w], Frame.then.where))
         \/ /\ Frame.then.op # "get"
            /\ vars' = [[vars EXCEPT ![w] = Last(m.stk)] EXCEPT ![w] = Frame.then.value]
            /\ Becomes(p)
    BY <1>1, <1>6, <1>12, Zenon DEF Resume, w
  <1>14. [vars EXCEPT ![w] = Last(m.stk)][w] = Last(m.stk)
    BY <1>3, <1>4
  <1>15. \/ /\ Frame.then.op = "get" /\ vars' = [vars EXCEPT ![w] = Last(m.stk)]
            /\ Becomes(GotVar(p, off, Last(m.stk), Frame.then.where))
         \/ /\ Frame.then.op # "get"
            /\ vars' = [[vars EXCEPT ![w] = Last(m.stk)] EXCEPT ![w] = Frame.then.value]
            /\ Becomes(p)
    BY <1>13, <1>14, Zenon
  <1> QED
    BY <1>3, <1>4, <1>6, <1>11, <1>15, Zenon DEF off, m, w, p, rest

\* ymCtx_GetVar from the end of the initializer's behaviour.
LEMMA GetEffect ==
  ASSUME InitializesVars, OwnInv, Awaiting, EntryInv, EndCall, Frame.then # <<>>,
         Frame.then.op = "get"
  PROVE  HasEffect
  <1> DEFINE off == frames[Len(frames) - 1].localsOffset
             m == Returned(off)
             w == Frame.then.var
             p == Pulled(m)
             x == Last(m.stk)
             e == Frame.entry
             where == Frame.then.where
             down == Floor(Frame)
             rest == SubSeq(stk, 1, down)
             b == Borrowed(p, x, "borrow")
             n == PutIn(b, off, where, x, "take")
  <1>1. /\ w \in Vars /\ DOMAIN vars = Vars /\ IsMachine(p) /\ p.ok = TRUE /\ p.stk = rest
        /\ vars' = [vars EXCEPT ![w] = x] /\ Becomes(GotVar(p, off, x, where)) /\ x \in Objects
    BY ResultIsPulled
  <1>2. /\ Last(frames').localsOffset = off /\ off \in Nat /\ off <= down
        /\ Entered(Frame, off, stk) /\ down \in Nat /\ down <= Len(stk)
        /\ stk \in Seq(Objects) /\ IsFrame(Frame)
    BY EndsInCaller
  <1>3. where \in Wheres
    BY <1>2 DEF IsFrame
  <1>4. Becomes(n)
    <2>1. x # Nil
      BY <1>1, IndexAssumption
    <2> QED
      BY <1>1, <2>1, Zenon DEF GotVar
  <1> DEFINE given == Given(Frame)
             next == Frame.then
             at == AbsIndex(where, Len(e))
  <1>5. /\ e \in Seq(Objects) /\ given = 0 /\ at # OutOfBounds /\ Pulls(next) = 0
    <2>1. ~Writes(next)
      BY DEF Writes
    <2> QED
      BY <1>2, <2>1 DEF Entered, Asked, Pulls
  <1>6. /\ Above(rest, off, SubSeq(e, 1, Len(e) - 0)) /\ Len(rest) = down
    <2>1. 0 = Given(Frame) + Pulls(Frame.then)
      BY <1>5
    <2> HIDE DEF off
    <2> QED
      BY <1>2, <2>1, RestIsAbove
  <1>7. SubSeq(e, 1, Len(e) - 0) = e
    <2> HIDE DEF e
    <2> QED
      BY <1>5
  <1>8. vars'[w] = x
    BY <1>1
  <1> HIDE DEF off, p, x, e, where, down, rest, at, given, next
  <1>9. IsMachine(b) /\ b.stk = rest /\ b.ok = TRUE
    BY <1>1, BorrowedKeeps, Zenon DEF b, Borrowed, IsMachine
  <1>10. Len(rest) - off = Len(e)
    <2>1. Above(rest, off, e)
      BY <1>6, <1>7
    <2>2. Len(rest) = off + Len(e) /\ Len(e) \in Nat
      BY <1>5, <2>1 DEF Above
    <2> QED
      BY <1>2, <2>2
  <1> HIDE DEF b
  <1>11. n.stk = PutStk(rest, off, where, x) /\ n.ok = TRUE
    <2>1. off <= Len(b.stk)
      BY <1>2, <1>6, <1>9
    <2> DEFINE policy == "take"
    <2> HIDE DEF policy
    <2>2. Puts(b, PutIn(b, off, where, x, policy), off, where, x)
      BY <1>2, <1>3, <1>9, <2>1, PutInStk
    <2>3. Puts(b, n, off, where, x)
      BY <2>2 DEF policy
    <2> HIDE DEF n
    <2>4. AbsIndex(where, Len(b.stk) - off) # OutOfBounds
      BY <1>5, <1>9, <1>10 DEF at
    <2> QED
      BY <1>9, <2>3, <2>4 DEF Puts
  <1> HIDE DEF n
  <1>12. Above(PutStk(rest, off, where, x), off, Placed(e, where, x))
    <2>1. Above(rest, off, e) /\ AbsIndex(where, Len(e)) # OutOfBounds
      BY <1>5, <1>6, <1>7 DEF at
    <2> QED
      BY <1>1, <1>2, <1>3, <2>1, PutAbove
  <1>13. stk' = n.stk /\ result' = Outcome(n.ok)
    BY <1>4 DEF Becomes
  <1>14. SubSeq(stk', off + 1, Len(stk')) = Placed(e, where, x)
    BY <1>2, <1>11, <1>12, <1>13, AboveIsSlice
  <1>15. result' # "failed"
    BY <1>11, <1>13 DEF Outcome
  <1> QED
    BY <1>2, <1>8, <1>14, <1>15, Zenon DEF HasEffect, e, where

\* ymCtx_SetVar from the end of the initializer's behaviour.
LEMMA SetEffect ==
  ASSUME InitializesVars, OwnInv, Awaiting, EntryInv, EndCall, Frame.then # <<>>,
         Frame.then.op # "get"
  PROVE  HasEffect
  <1> DEFINE off == frames[Len(frames) - 1].localsOffset
             m == Returned(off)
             w == Frame.then.var
             p == Pulled(m)
             x == Last(m.stk)
             e == Frame.entry
             down == Floor(Frame)
             rest == SubSeq(stk, 1, down)
             given == Given(Frame)
             next == Frame.then
  <1>1. /\ w \in Vars /\ DOMAIN vars = Vars /\ p.ok = TRUE /\ p.stk = rest
        /\ vars' = [[vars EXCEPT ![w] = x] EXCEPT ![w] = next.value] /\ Becomes(p)
    BY ResultIsPulled
  <1>2. /\ Last(frames').localsOffset = off /\ off \in Nat /\ off <= down
        /\ Entered(Frame, off, stk) /\ down \in Nat /\ down <= Len(stk)
        /\ stk \in Seq(Objects)
    BY EndsInCaller
  <1>3. Writes(next)
    <2>1. FrameOwns(Frame)
      <3>1. Len(frames) \in 1..Len(frames) /\ Frame = frames[Len(frames)]
        BY FrameFacts DEF OwnInv
      <3> QED
        BY <3>1 DEF OwnInv, Owned, OwnerTypes
    <2> QED
      BY <2>1 DEF FrameOwns, Writes
  <1>4. e \in Seq(Objects) /\ given = 0 /\ next.value = Last(e) /\ Pulls(next) = 1
    BY <1>2, <1>3 DEF Entered, Asked, Pulls
  <1>5. Above(rest, off, SubSeq(e, 1, Len(e) - 1))
    <2>1. 1 = Given(Frame) + Pulls(Frame.then)
      BY <1>4
    <2> HIDE DEF off
    <2> QED
      BY <1>2, <2>1, RestIsAbove
  <1>6. vars'[w] = Last(e)
    <2> HIDE DEF x, w, next
    <2> QED
      BY <1>1, <1>4
  <1> HIDE DEF off, p, x, e, down, rest, given, next
  <1>7. Above(rest, off, Front(e))
    BY <1>5 DEF Front
  <1>8. stk' = rest /\ result' = Outcome(TRUE)
    BY <1>1 DEF Becomes
  <1>9. SubSeq(stk', off + 1, Len(stk')) = Front(e)
    BY <1>2, <1>7, <1>8, AboveIsSlice
  <1>10. result' # "failed"
    BY <1>8 DEF Outcome
  <1> QED
    BY <1>2, <1>6, <1>9, <1>10, Zenon DEF HasEffect, e

(***************************************************************************)
(* Whatever the callee has done, with its args still those it was given if *)
(* it fails, a call has on its caller's stack the effect that is           *)
(* documented: a result instead of the args, or nothing at all. So has the *)
(* use of a var that called its initializer.                               *)
(***************************************************************************)
THEOREM CallsHaveTheirStackEffect ==
  ASSUME Careful, RoomIsLeft, KeepsArgs, InitializesVars
  PROVE  Spec => CallHasItsStackEffect
  <1>1. Init => Awaiting /\ EntryInv
    <2> SUFFICES ASSUME Init PROVE EntryInv
      BY InitNoLeak
    <2>1. Len(frames) = 1
      BY NobodyAwaits DEF Init
    <2> QED
      BY <2>1 DEF EntryInv
  <1>2. OwnInv /\ Awaiting /\ EntryInv /\ [Next]_ctxVars => Awaiting' /\ EntryInv'
    BY AwaitingNext, EntryInvNext
  <1>3. ASSUME OwnInv, Awaiting, EntryInv, [Next]_ctxVars, Len(frames') < Len(frames)
        PROVE  HasEffect
    <2>1. FramesInv /\ Len(frames) \in Nat
      <3>1. FramesInv
        BY <1>3, Zenon DEF OwnInv
      <3> QED
        BY <3>1, FrameFacts
    <2>2. Len(frames') # Len(frames) /\ Len(frames') # Len(frames) + 1
      <3>1. \A n \in Nat : ~(n < n) /\ ~(n + 1 < n)
        OBVIOUS
      <3> QED
        BY <1>3, <2>1, <3>1, Zenon
    <2>3. ~Calm /\ ~Adds
      BY <2>1, <2>2, CalmFrames, AddsFrame DEF Adds
    <2>4. ~Assigns /\ ~UNCHANGED ctxVars
      BY <2>2 DEF Assigns, ctxVars
    <2>5. ~Destroy
      <3>1. Destroy => Len(frames') = 1 /\ Len(frames) = 1
        BY NobodyAwaits DEF Destroy, IsUser
      <3> QED
        BY <1>3, <3>1
    <2>6. EndCall
      BY <1>3, <2>3, <2>4, <2>5, StepKinds
    <2> QED
      BY <1>3, <2>6, CallEffect, GetEffect, SetEffect
  <1>4. OwnInv /\ Awaiting /\ EntryInv /\ [Next]_ctxVars
            => [Len(frames') < Len(frames) => HasEffect]_ctxVars
    BY <1>3
  <1>5. Spec => [][Len(frames') < Len(frames) => HasEffect]_ctxVars
    BY <1>1, <1>2, <1>4, OwnInvHolds, PTL DEF Spec
  <1> QED
    BY <1>5 DEF CallHasItsStackEffect, HasEffect

================================================================================
