------------------------------ MODULE ContextProofs ------------------------------
(***************************************************************************)
(* That the frames of a context divide its one stack, and that no call of  *)
(* the host reaches out of the current one, for every host, with or        *)
(* without discipline: nothing is assumed of the heap.                     *)
(***************************************************************************)
EXTENDS Context, TLAPS

--------------------------------------------------------------------------------
(* Sequences of whatever there is *)

IsSeq(s) == \E S : s \in Seq(S)

\* t has not less than n elements, and starts with the first n of s.
Keeps(s, t, n) == n <= Len(s) /\ n <= Len(t) /\ \A i \in 1..n : t[i] = s[i]

\* A sequence keeps all of itself.
LEMMA KeepsAll == \A s : IsSeq(s) => Keeps(s, s, Len(s))
  BY DEF IsSeq, Keeps

\* What keeps n objects keeps any fewer.
LEMMA KeepsLess ==
  ASSUME NEW s, NEW t, NEW n \in Nat, NEW k \in Nat, IsSeq(s), IsSeq(t), k <= n, Keeps(s, t, n)
  PROVE  Keeps(s, t, k)
  BY DEF IsSeq, Keeps

\* Keeping n objects is transitive.
LEMMA KeepsTrans ==
  ASSUME NEW s, NEW t, NEW u, NEW n \in Nat, Keeps(s, t, n), Keeps(t, u, n)
  PROVE  Keeps(s, u, n)
  BY DEF Keeps

\* push keeps what there was.
LEMMA AppendKeeps ==
  ASSUME NEW s, NEW o, IsSeq(s)
  PROVE  /\ IsSeq(Append(s, o)) /\ Len(Append(s, o)) = Len(s) + 1
         /\ Keeps(s, Append(s, o), Len(s))
  <1>1. PICK S : s \in Seq(S)
    BY DEF IsSeq
  <1>2. s \in Seq(S \cup {o})
    BY <1>1
  <1> QED
    BY <1>2 DEF IsSeq, Keeps

\* A prefix keeps its own length of what there was.
LEMMA PrefixKeeps ==
  ASSUME NEW s, NEW n \in Nat, IsSeq(s), n <= Len(s)
  PROVE  /\ IsSeq(SubSeq(s, 1, n)) /\ Len(SubSeq(s, 1, n)) = n
         /\ Keeps(s, SubSeq(s, 1, n), n)
  BY DEF IsSeq, Keeps

\* Replacing an element keeps what is below it.
LEMMA ReplaceKeeps ==
  ASSUME NEW s, NEW o, NEW pos \in Nat, NEW n \in Nat, IsSeq(s), n < pos, pos <= Len(s)
  PROVE  /\ IsSeq([s EXCEPT ![pos] = o]) /\ Len([s EXCEPT ![pos] = o]) = Len(s)
         /\ Keeps(s, [s EXCEPT ![pos] = o], n)
  <1>1. PICK S : s \in Seq(S)
    BY DEF IsSeq
  <1>2. s \in Seq(S \cup {o})
    BY <1>1
  <1>3. [s EXCEPT ![pos] = o] \in Seq(S \cup {o})
    BY <1>2
  <1> QED
    BY <1>2, <1>3 DEF IsSeq, Keeps

\* Pushing dummies keeps what there was.
LEMMA ConcatKeeps ==
  ASSUME NEW s, NEW S, NEW k \in Nat, NEW t \in [1..k -> S], IsSeq(s)
  PROVE  IsSeq(s \o t) /\ Len(s \o t) = Len(s) + k /\ Keeps(s, s \o t, Len(s))
  <1>1. PICK R : s \in Seq(R)
    BY DEF IsSeq
  <1>2. s \in Seq(R \cup S) /\ t \in Seq(R \cup S) /\ Len(t) = k
    BY <1>1
  <1> QED
    BY <1>2 DEF IsSeq, Keeps

\* Pulling the top keeps the rest.
LEMMA KeepsFront ==
  ASSUME NEW s, IsSeq(s), s # <<>>
  PROVE  IsSeq(Front(s)) /\ Len(s) \in Nat \ {0} /\ Len(Front(s)) = Len(s) - 1 /\ Keeps(s, Front(s), Len(s) - 1)
  <1>1. Len(s) \in Nat /\ Len(s) # 0
    BY DEF IsSeq
  <1>2. Len(s) - 1 \in Nat /\ Len(s) - 1 <= Len(s)
    BY <1>1
  <1>3. /\ IsSeq(SubSeq(s, 1, Len(s) - 1)) /\ Len(SubSeq(s, 1, Len(s) - 1)) = Len(s) - 1
        /\ Keeps(s, SubSeq(s, 1, Len(s) - 1), Len(s) - 1)
    BY <1>2, PrefixKeeps
  <1> QED
    BY <1>1, <1>3 DEF Front

\* What is kept is the same prefix.
LEMMA KeptPrefix ==
  ASSUME NEW s, NEW t, NEW n \in Nat, IsSeq(s), IsSeq(t), Keeps(s, t, n)
  PROVE  SubSeq(t, 1, n) = SubSeq(s, 1, n)
  <1>1. SubSeq(s, 1, n) = [i \in 1..n |-> s[i]] /\ SubSeq(t, 1, n) = [i \in 1..n |-> t[i]]
    BY DEF IsSeq, Keeps
  <1> QED
    BY <1>1 DEF Keeps

--------------------------------------------------------------------------------
(* What the API fns are made of *)

IsMachine(m) == m = [heap |-> m.heap, stk |-> m.stk, ok |-> m.ok] /\ IsSeq(m.stk)

\* m is a machine that has kept the first n objects of s.
MachineKeeps(s, m, n) == IsMachine(m) /\ Keeps(s, m.stk, n)

\* release moves no stack.
LEMMA ReleasedInKeeps ==
  ASSUME NEW m, NEW os, IsMachine(m)
  PROVE  IsMachine(ReleasedIn(m, os)) /\ ReleasedIn(m, os).stk = m.stk
  <1> DEFINE h == Released(m.heap, os)
  <1>1. ReleasedIn(m, os) = [m EXCEPT !.heap = h]
    BY DEF ReleasedIn
  <1> HIDE DEF h
  <1>2. [m EXCEPT !.heap = h] = [heap |-> h, stk |-> m.stk, ok |-> m.ok]
    BY DEF IsMachine
  <1> QED
    BY <1>1, <1>2 DEF IsMachine

\* secure moves no stack.
LEMMA BorrowedKeeps ==
  ASSUME NEW m, NEW o, NEW policy, IsMachine(m)
  PROVE  IsMachine(Borrowed(m, o, policy)) /\ Borrowed(m, o, policy).stk = m.stk
  BY DEF IsMachine, Borrowed

\* pop of n objects keeps all others.
LEMMA PoppedKeeps ==
  ASSUME NEW m, NEW n \in Nat, IsMachine(m), n <= Len(m.stk)
  PROVE  /\ IsMachine(Popped(m, n)) /\ Len(m.stk) \in Nat
         /\ Len(Popped(m, n).stk) = Len(m.stk) - n
         /\ Keeps(m.stk, Popped(m, n).stk, Len(m.stk) - n)
  <1> DEFINE rest == Len(m.stk) - n
             os == Reverse(SubSeq(m.stk, rest + 1, Len(m.stk)))
  <1>1. rest \in Nat /\ rest <= Len(m.stk) /\ Len(m.stk) \in Nat
    BY DEF IsMachine, IsSeq
  <1>2. IsMachine(ReleasedIn(m, os))
    BY ReleasedInKeeps
  <1>3. Popped(m, n) = [ReleasedIn(m, os) EXCEPT !.stk = SubSeq(m.stk, 1, rest)]
    BY DEF Popped
  <1> HIDE DEF os
  <1>4. IsSeq(SubSeq(m.stk, 1, rest)) /\ Len(SubSeq(m.stk, 1, rest)) = rest
        /\ Keeps(m.stk, SubSeq(m.stk, 1, rest), rest)
    BY <1>1, PrefixKeeps DEF IsMachine
  <1> QED
    BY <1>1, <1>2, <1>3, <1>4 DEF IsMachine

\* An index is one of the caller's choices or lies within the locals.
LEMMA AbsIndexIsLocal ==
  ASSUME NEW where \in Wheres, NEW locals \in Nat
  PROVE  AbsIndex(where, locals) \in {Push, Discard, OutOfBounds} \cup 0..locals - 1
  <1>1. CASE where \in {Push, Discard}
    BY <1>1 DEF AbsIndex
  <1>2. CASE where \in Int /\ where \notin {Push, Discard}
    BY <1>2 DEF AbsIndex
  <1> QED
    BY <1>1, <1>2, IndexAssumption DEF Wheres

\* put into the frame whose locals start at offset keeps what is below.
LEMMA PutInKeeps ==
  ASSUME NEW m, NEW offset \in Nat, NEW where \in Wheres, NEW o, NEW policy,
         IsMachine(m), offset <= Len(m.stk)
  PROVE  MachineKeeps(m.stk, PutIn(m, offset, where, o, policy), offset)
  <1> DEFINE at == AbsIndex(where, Len(m.stk) - offset)
             pos == offset + at + 1
             put == PutIn(m, offset, where, o, policy)
  <1>1. IsSeq(m.stk) /\ Len(m.stk) \in Nat /\ Keeps(m.stk, m.stk, offset)
    BY KeepsAll, KeepsLess DEF IsMachine, IsSeq
  <1>2. at \in {Push, Discard, OutOfBounds} \cup 0..Len(m.stk) - offset - 1
    BY <1>1, AbsIndexIsLocal
  <1>3. /\ Push # Discard /\ OutOfBounds \notin {Push, Discard}
        /\ {Push, Discard, OutOfBounds} \cap Int = {}
    BY IndexAssumption
  <1> HIDE DEF at
  <1>4. CASE at = Discard
    <2>1. put = IF policy = "borrow" THEN m ELSE ReleasedIn(m, <<o>>)
      BY <1>4, <1>3 DEF PutIn, at
    <2> QED
      BY <2>1, <1>1, ReleasedInKeeps DEF MachineKeeps
  <1>5. CASE at = Push
    <2>1. put = Borrowed(Pushed(m, o), o, policy)
      BY <1>5, <1>3 DEF PutIn, at
    <2>2. IsMachine(Pushed(m, o)) /\ Pushed(m, o).stk = Append(m.stk, o)
      <3>1. IsSeq(Append(m.stk, o))
        BY <1>1, AppendKeeps
      <3> QED
        BY <3>1 DEF Pushed, IsMachine
    <2>3. Keeps(m.stk, Append(m.stk, o), offset)
      BY <1>1, AppendKeeps, KeepsLess
    <2> QED
      BY <2>1, <2>2, <2>3, BorrowedKeeps DEF MachineKeeps
  <1>6. CASE at = OutOfBounds
    <2> DEFINE left == IF policy = "take" THEN ReleasedIn(m, <<o>>) ELSE m
    <2>1. put = [left EXCEPT !.ok = FALSE]
      BY <1>6, <1>3 DEF PutIn, at
    <2>2. IsMachine(left) /\ left.stk = m.stk
      BY ReleasedInKeeps
    <2> HIDE DEF left
    <2> QED
      BY <2>1, <2>2, <1>1 DEF MachineKeeps, IsMachine
  <1>7. CASE at \in 0..Len(m.stk) - offset - 1
    <2> DEFINE r == ReleasedIn(m, <<m.stk[pos]>>)
    <2>1. at \notin {Push, Discard, OutOfBounds}
      <3>1. at \in Int
        BY <1>1, <1>7
      <3> QED
        BY <3>1, <1>3, Zenon
    <2>2. put = Borrowed([r EXCEPT !.stk[pos] = o], o, policy)
      BY <2>1 DEF PutIn, at
    <2>3. IsMachine(r) /\ r.stk = m.stk
      BY ReleasedInKeeps
    <2>4. /\ IsSeq([m.stk EXCEPT ![pos] = o])
          /\ Keeps(m.stk, [m.stk EXCEPT ![pos] = o], offset)
      <3>1. pos \in Nat /\ offset < pos /\ pos <= Len(m.stk)
        BY <1>1, <1>7
      <3> QED
        BY <1>1, <3>1, ReplaceKeeps
    <2> HIDE DEF r
    <2> DEFINE q == [r EXCEPT !.stk = [m.stk EXCEPT ![pos] = o]]
    <2>5. put = Borrowed(q, o, policy)
      BY <2>2, <2>3
    <2>6. IsMachine(q) /\ q.stk = [m.stk EXCEPT ![pos] = o]
      BY <2>3, <2>4 DEF IsMachine
    <2> HIDE DEF q, put, pos
    <2>7. IsMachine(Borrowed(q, o, policy)) /\ Borrowed(q, o, policy).stk = q.stk
      BY <2>6, BorrowedKeeps
    <2>8. MachineKeeps(m.stk, put, offset)
      BY <2>4, <2>5, <2>6, <2>7 DEF MachineKeeps
    <2> QED
      BY <2>8 DEF put
  <1> QED
    BY <1>2, <1>4, <1>5, <1>6, <1>7

\* Any change of the heap alone moves no stack.
LEMMA HeapUpdateKeeps ==
  ASSUME NEW m, NEW h, IsMachine(m)
  PROVE  IsMachine([m EXCEPT !.heap = h]) /\ [m EXCEPT !.heap = h].stk = m.stk
  <1>1. [m EXCEPT !.heap = h] = [heap |-> h, stk |-> m.stk, ok |-> m.ok]
    BY DEF IsMachine
  <1> QED
    BY <1>1 DEF IsMachine

\* Nor does the success of a call.
LEMMA OkUpdateKeeps ==
  ASSUME NEW m, NEW b, IsMachine(m)
  PROVE  IsMachine([m EXCEPT !.ok = b]) /\ [m EXCEPT !.ok = b].stk = m.stk
  <1>1. [m EXCEPT !.ok = b] = [heap |-> m.heap, stk |-> m.stk, ok |-> b]
    BY DEF IsMachine
  <1> QED
    BY <1>1 DEF IsMachine

\* A machine with another stack is a machine.
LEMMA StkUpdateKeeps ==
  ASSUME NEW m, NEW s, IsMachine(m), IsSeq(s)
  PROVE  IsMachine([m EXCEPT !.stk = s]) /\ [m EXCEPT !.stk = s].stk = s
  <1>1. [m EXCEPT !.stk = s] = [heap |-> m.heap, stk |-> s, ok |-> m.ok]
    BY DEF IsMachine
  <1> QED
    BY <1>1 DEF IsMachine

\* The same, with another heap too.
LEMMA StkHeapUpdateKeeps ==
  ASSUME NEW m, NEW s, NEW h, IsMachine(m), IsSeq(s)
  PROVE  /\ IsMachine([m EXCEPT !.stk = s, !.heap = h])
         /\ [m EXCEPT !.stk = s, !.heap = h].stk = s
  <1> DEFINE cut == [m EXCEPT !.stk = s]
  <1>1. IsMachine(cut) /\ cut.stk = s
    BY StkUpdateKeeps
  <1> HIDE DEF cut
  <1>2. IsMachine([cut EXCEPT !.heap = h]) /\ [cut EXCEPT !.heap = h].stk = s
    BY <1>1, HeapUpdateKeeps
  <1> QED
    BY <1>2, Zenon DEF cut

\* The same, with another outcome too.
LEMMA StkOkUpdateKeeps ==
  ASSUME NEW m, NEW s, NEW b, IsMachine(m), IsSeq(s)
  PROVE  /\ IsMachine([m EXCEPT !.stk = s, !.ok = b])
         /\ [m EXCEPT !.stk = s, !.ok = b].stk = s
  <1> DEFINE cut == [m EXCEPT !.stk = s]
  <1>1. IsMachine(cut) /\ cut.stk = s
    BY StkUpdateKeeps
  <1> HIDE DEF cut
  <1>2. IsMachine([cut EXCEPT !.ok = b]) /\ [cut EXCEPT !.ok = b].stk = s
    BY <1>1, OkUpdateKeeps
  <1> QED
    BY <1>2, Zenon DEF cut

--------------------------------------------------------------------------------
(* The frames *)

IsFrame(f) ==
    /\ f = [fn |-> f.fn, args |-> f.args, dummies |-> f.dummies, returnTo |-> f.returnTo,
            localsOffset |-> f.localsOffset, fwdFromProto |-> f.fwdFromProto,
            returnValue |-> f.returnValue, then |-> f.then, entry |-> f.entry]
    /\ f.args \in Nat /\ f.dummies \in Nat /\ f.localsOffset \in Nat
    /\ f.dummies <= f.args /\ f.args <= f.localsOffset
    /\ f.returnTo \in Wheres
    /\ f.then # <<>> /\ f.then.op = "get" => f.then.where \in Wheres

(***************************************************************************)
(* The inductive invariant. FramesNested compares neighbours; any two      *)
(* frames are compared here, so that a step in one of them says something  *)
(* of all below without an induction along the call stack.                 *)
(***************************************************************************)
FramesInv ==
    /\ IsSeq(stk)
    /\ IsSeq(frames) /\ frames # <<>>
    /\ \A k \in 1..Len(frames) : IsFrame(frames[k])
    /\ \A j, k \in 1..Len(frames) : j < k => frames[j].localsOffset <= Floor(frames[k])
    /\ Frame.localsOffset <= Len(stk)
    /\ frames[1].localsOffset = 0

\* A frame's window of args starts at or above the bottom of the stack.
LEMMA FrameNumbers ==
  ASSUME NEW f, IsFrame(f)
  PROVE  /\ f.localsOffset \in Nat /\ f.args \in Nat /\ f.args <= f.localsOffset
         /\ Floor(f) \in Nat /\ Floor(f) <= f.localsOffset
  <1>1. f.localsOffset \in Nat /\ f.args \in Nat /\ f.args <= f.localsOffset
    BY DEF IsFrame
  <1> QED
    BY <1>1 DEF Floor

\* What the invariant says of the current frame.
LEMMA FrameFacts ==
  ASSUME FramesInv
  PROVE  /\ Len(frames) \in Nat \ {0} /\ Len(stk) \in Nat
         /\ IsFrame(Frame) /\ Frame = frames[Len(frames)]
         /\ Frame.localsOffset \in Nat /\ Frame.localsOffset <= Len(stk)
         /\ Floor(Frame) \in Nat /\ Floor(Frame) <= Frame.localsOffset
         /\ Locals \in Nat /\ Locals = Len(stk) - Frame.localsOffset
         /\ IsMachine(Machine) /\ Machine.stk = stk /\ Machine.heap = heap
         /\ Keeps(stk, stk, Frame.localsOffset)
         /\ MachineKeeps(stk, Machine, Frame.localsOffset)
  <1>1. Len(frames) \in Nat \ {0} /\ Len(stk) \in Nat
    BY DEF FramesInv, IsSeq
  <1>2. IsFrame(Frame) /\ Frame = frames[Len(frames)]
    BY <1>1 DEF FramesInv, Frame, Last
  <1>3. /\ Frame.localsOffset \in Nat /\ Frame.localsOffset <= Len(stk)
        /\ Floor(Frame) \in Nat /\ Floor(Frame) <= Frame.localsOffset
    BY <1>2 DEF FramesInv, IsFrame, Floor
  <1>4. Locals \in Nat /\ Locals = Len(stk) - Frame.localsOffset
    BY <1>1, <1>3 DEF Locals
  <1>5. IsMachine(Machine) /\ Machine.stk = stk /\ Machine.heap = heap
    BY DEF FramesInv, Machine, IsMachine
  <1>6. Keeps(stk, stk, Frame.localsOffset)
    BY <1>3 DEF Keeps
  <1> QED
    BY <1>1, <1>2, <1>3, <1>4, <1>5, <1>6 DEF MachineKeeps

\* The step of a frame that goes on and leaves alone what is below its locals.
Within == frames' = frames /\ IsSeq(stk') /\ Keeps(stk, stk', Frame.localsOffset)

\* A call that changes neither stack stays within its frame.
LEMMA SameWithin == FramesInv /\ UNCHANGED <<stk, frames>> => Within
  BY FrameFacts DEF FramesInv, Within

\* So does one that ends in a machine that has kept what is below its locals.
LEMMA BecomesWithin ==
  ASSUME FramesInv, NEW m, MachineKeeps(stk, m, Frame.localsOffset), Becomes(m), UNCHANGED frames
  PROVE  Within
  BY DEF MachineKeeps, IsMachine, Becomes, Within

\* put in the current frame keeps what is below its locals.
LEMMA PutNowKeeps ==
  ASSUME FramesInv, NEW m, NEW where \in Wheres, NEW o, NEW policy,
         MachineKeeps(stk, m, Frame.localsOffset)
  PROVE  MachineKeeps(stk, PutNow(m, where, o, policy), Frame.localsOffset)
  <1>1. Frame.localsOffset \in Nat /\ Frame.localsOffset <= Len(m.stk) /\ IsMachine(m)
    BY FrameFacts DEF MachineKeeps, Keeps
  <1>2. MachineKeeps(m.stk, PutNow(m, where, o, policy), Frame.localsOffset)
    BY <1>1, PutInKeeps DEF PutNow
  <1> QED
    BY <1>1, <1>2, KeepsTrans DEF MachineKeeps

\* A machine that has popped off no more than the locals.
LEMMA PoppedWithin ==
  ASSUME FramesInv, NEW m, NEW n \in Nat, IsMachine(m), m.stk = stk, n <= Locals
  PROVE  MachineKeeps(stk, Popped(m, n), Frame.localsOffset)
  <1>1. /\ Len(stk) - n \in Nat /\ n <= Len(stk)
        /\ Frame.localsOffset <= Len(stk) - n /\ Frame.localsOffset \in Nat
    BY FrameFacts
  <1>2. IsMachine(Popped(m, n)) /\ Keeps(stk, Popped(m, n).stk, Len(stk) - n)
    BY <1>1, PoppedKeeps
  <1> QED
    BY <1>1, <1>2, KeepsLess DEF MachineKeeps, FramesInv, IsMachine

\* A machine whose stack is what is left of stk after n of the locals.
LEMMA CutWithin ==
  ASSUME FramesInv, NEW n \in Nat, n <= Locals
  PROVE  /\ IsSeq(SubSeq(stk, 1, Len(stk) - n))
         /\ Keeps(stk, SubSeq(stk, 1, Len(stk) - n), Frame.localsOffset)
         /\ Len(SubSeq(stk, 1, Len(stk) - n)) = Len(stk) - n
  <1>1. /\ Len(stk) - n \in Nat /\ Len(stk) - n <= Len(stk)
        /\ Frame.localsOffset <= Len(stk) - n /\ Frame.localsOffset \in Nat
    BY FrameFacts
  <1>2. /\ IsSeq(SubSeq(stk, 1, Len(stk) - n)) /\ Len(SubSeq(stk, 1, Len(stk) - n)) = Len(stk) - n
        /\ Keeps(stk, SubSeq(stk, 1, Len(stk) - n), Len(stk) - n)
    BY <1>1, PrefixKeeps DEF FramesInv
  <1> QED
    BY <1>1, <1>2, KeepsLess DEF FramesInv

\* The stack without one of the locals.
LEMMA FrontWithin ==
  ASSUME FramesInv, Locals # 0
  PROVE  /\ IsSeq(Front(stk)) /\ Keeps(stk, Front(stk), Frame.localsOffset)
         /\ Len(Front(stk)) = Len(stk) - 1
  <1>1. 1 <= Locals /\ 1 \in Nat
    BY FrameFacts
  <1> QED
    BY <1>1, CutWithin DEF Front

--------------------------------------------------------------------------------
(* The calls that stay in their frame *)

\* What the host holds itself moves no stack.
LEMMA HostCallsWithin == FramesInv /\ HostCalls => Within
  <1> SUFFICES ASSUME FramesInv, HostCalls PROVE Within
    OBVIOUS
  <1>1. ASSUME NEW o, Secure(o) PROVE Within
    BY <1>1, SameWithin DEF Secure
  <1>2. ASSUME NEW type, New(type) PROVE Within
    BY <1>2, SameWithin DEF New
  <1>3. ASSUME NEW o, Release(o) PROVE Within
    <2>1. MachineKeeps(stk, ReleasedIn(Machine, <<o>>), Frame.localsOffset)
      BY FrameFacts, ReleasedInKeeps DEF MachineKeeps
    <2> QED
      BY <1>3, <2>1, BecomesWithin DEF Release
  <1>4. CASE TakeArg
    BY <1>4, <1>1, SameWithin DEF TakeArg, Refused
  <1>5. ASSUME NEW where, TakeLocal(where) PROVE Within
    BY <1>5, <1>1, SameWithin DEF TakeLocal, Refused
  <1> QED
    BY <1>1, <1>2, <1>3, <1>4, <1>5 DEF HostCalls

\* ymCtx_Put reaches no further than the locals.
LEMMA PutWithin ==
  ASSUME FramesInv, NEW where \in Wheres, NEW o, NEW policy, Put(where, o, policy)
  PROVE  Within
  <1>1. MachineKeeps(stk, PutNow(Machine, where, o, policy), Frame.localsOffset)
    BY FrameFacts, PutNowKeeps
  <1> QED
    BY <1>1, BecomesWithin DEF Put

\* A new object put into the current frame.
LEMMA PutCreatedKeeps ==
  ASSUME FramesInv, NEW m, NEW h, NEW where \in Wheres, NEW o,
         MachineKeeps(stk, m, Frame.localsOffset)
  PROVE  MachineKeeps(stk, PutNow([m EXCEPT !.heap = h], where, o, "take"), Frame.localsOffset)
  <1> DEFINE n == [m EXCEPT !.heap = h]
  <1>1. IsMachine(n) /\ n.stk = m.stk
    BY HeapUpdateKeeps DEF MachineKeeps
  <1> HIDE DEF n
  <1>2. MachineKeeps(stk, n, Frame.localsOffset)
    BY <1>1 DEF MachineKeeps
  <1>3. MachineKeeps(stk, PutNow(n, where, o, "take"), Frame.localsOffset)
    BY <1>2, PutNowKeeps
  <1> QED
    BY <1>3, Zenon DEF n

\* Nor do the other calls that work on the local stack.
LEMMA StackCallsWithin == FramesInv /\ StackCalls => Within
  <1> SUFFICES ASSUME FramesInv, StackCalls PROVE Within
    OBVIOUS
  <1>1. ASSUME NEW n \in 1..MaxStack, Pop(n) PROVE Within
    <2> DEFINE some == IF n > Locals THEN Locals ELSE n
    <2>1. some \in Nat /\ some <= Locals
      BY FrameFacts, BoundAssumption
    <2> HIDE DEF some
    <2>2. MachineKeeps(stk, Popped(Machine, some), Frame.localsOffset)
      BY <2>1, FrameFacts, PoppedWithin
    <2> QED
      BY <1>1, <2>2, BecomesWithin DEF Pop, some
  <1>2. CASE Pull
    BY <1>2, SameWithin, FrontWithin DEF Pull, Refused, Within
  <1>3. ASSUME NEW where \in Wheres, NEW type, PutNew(type, where) PROVE Within
    <2>1. CASE Refused
      BY <2>1, SameWithin DEF Refused
    <2>2. ASSUME NEW o, NEW h, UNCHANGED frames,
                 Becomes(PutNow([Machine EXCEPT !.heap = h], where, o, "take"))
          PROVE  Within
      BY <2>2, FrameFacts, PutCreatedKeeps, BecomesWithin
    <2> QED
      BY <1>3, <2>1, <2>2 DEF PutNew
  <1>4. ASSUME NEW from \in Wheres, NEW to \in Wheres, Copy(from, to) PROVE Within
    BY <1>4, SameWithin, PutWithin DEF Copy, Refused
  <1> QED
    BY <1>1, <1>2, <1>3, <1>4, PutWithin DEF StackCalls

\* StructInit takes the objects of its names off the stack and puts a new one.
LEMMA StructInitWithin ==
  ASSUME FramesInv, NEW type \in Structs, NEW where \in Wheres,
         NEW names \in NameLists(Len(Properties[type])), StructInit(type, names, where)
  PROVE  Within
  <1>1. Len(names) \in Nat
    <2>1. Len(Properties[type]) \in Nat
      BY TypesAssumption
    <2> QED
      BY <2>1 DEF NameLists
  <1>2. CASE Refused
    BY <1>2, SameWithin DEF Refused
  <1>3. ASSUME ~Refused PROVE Within
    <2> DEFINE rest == SubSeq(stk, 1, Len(stk) - Len(names))
               stolen == [Machine EXCEPT !.stk = rest]
    <2>1. Len(names) <= Locals
      <3>1. ~(Len(names) > Locals)
        BY <1>3, Zenon DEF StructInit
      <3> QED
        BY <1>1, <3>1, FrameFacts
    <2>2. IsSeq(rest) /\ Keeps(stk, rest, Frame.localsOffset)
      BY <1>1, <2>1, CutWithin
    <2>3. MachineKeeps(stk, stolen, Frame.localsOffset)
      BY <2>2, FrameFacts, StkUpdateKeeps DEF MachineKeeps
    <2>4. PICK h, o :
            /\ Becomes([PutNow([stolen EXCEPT !.heap = h], where, o, "take") EXCEPT !.ok = TRUE])
            /\ UNCHANGED frames
      BY <1>3 DEF StructInit
    <2> DEFINE put == PutNow([stolen EXCEPT !.heap = h], where, o, "take")
    <2> HIDE DEF stolen
    <2>5. MachineKeeps(stk, put, Frame.localsOffset)
      BY <2>3, PutCreatedKeeps
    <2> HIDE DEF put
    <2>6. MachineKeeps(stk, [put EXCEPT !.ok = TRUE], Frame.localsOffset)
      BY <2>5, OkUpdateKeeps DEF MachineKeeps
    <2>7. Becomes([put EXCEPT !.ok = TRUE])
      BY <2>4, Zenon DEF put
    <2> QED
      BY <2>4, <2>6, <2>7, BecomesWithin
  <1> QED
    BY <1>2, <1>3

\* The subject is popped off the locals, the value put in its frame.
LEMMA GetPropertyWithin ==
  ASSUME FramesInv, NEW type, NEW i, NEW where \in Wheres, GetProperty(type, i, where)
  PROVE  Within
  <1>1. CASE Refused
    BY <1>1, SameWithin DEF Refused
  <1>2. ASSUME ~Refused PROVE Within
    <2> DEFINE value == heap[Last(stk)].slots[i]
               popped == Popped(Borrowed(Machine, value, "borrow"), 1)
               put == PutNow(popped, where, value, "take")
    <2>1. 1 \in Nat /\ 1 <= Locals
      BY <1>2, FrameFacts DEF GetProperty
    <2>2. MachineKeeps(stk, popped, Frame.localsOffset)
      BY <2>1, FrameFacts, BorrowedKeeps, PoppedWithin
    <2> HIDE DEF popped, value
    <2>3. MachineKeeps(stk, put, Frame.localsOffset)
      BY <2>2, PutNowKeeps
    <2>4. Becomes([put EXCEPT !.ok = TRUE]) /\ UNCHANGED frames
      BY <1>2 DEF GetProperty, popped, value
    <2> HIDE DEF put
    <2>5. MachineKeeps(stk, [put EXCEPT !.ok = TRUE], Frame.localsOffset)
      BY <2>3, OkUpdateKeeps DEF MachineKeeps
    <2> QED
      BY <2>4, <2>5, BecomesWithin
  <1> QED
    BY <1>1, <1>2

\* What releases objects keeps what was kept.
LEMMA ReleasedInWithin ==
  ASSUME NEW s, NEW m, NEW os, NEW n, MachineKeeps(s, m, n)
  PROVE  MachineKeeps(s, ReleasedIn(m, os), n)
  BY ReleasedInKeeps DEF MachineKeeps

\* Subject and value are two of the locals.
LEMMA SetPropertyWithin ==
  ASSUME FramesInv, NEW type, NEW i, SetProperty(type, i)
  PROVE  Within
  <1>1. CASE Refused
    BY <1>1, SameWithin DEF Refused
  <1>2. ASSUME ~Refused PROVE Within
    <2>1. ~(Locals < 2) /\ UNCHANGED frames
      BY <1>2, Zenon DEF SetProperty
    <2>2. /\ 1 \in Nat /\ Frame.localsOffset <= Len(stk) - 2 /\ Frame.localsOffset \in Nat
          /\ Len(stk) - 2 \in Nat /\ Locals # 0
      BY <2>1, FrameFacts
    <2>3. /\ IsSeq(Front(stk)) /\ Keeps(stk, Front(stk), Frame.localsOffset)
          /\ Len(Front(stk)) = Len(stk) - 1
      BY <2>2, FrontWithin
    <2>4. PICK os, h : Becomes(Popped([ReleasedIn(Machine, os) EXCEPT !.stk = Front(stk),
                                                                     !.heap = h], 1))
      BY <1>2, <2>1, Zenon DEF SetProperty
    <2> DEFINE left == [ReleasedIn(Machine, os) EXCEPT !.stk = Front(stk), !.heap = h]
    <2>5. IsMachine(ReleasedIn(Machine, os))
      BY FrameFacts, ReleasedInKeeps
    <2>6. IsMachine(left) /\ left.stk = Front(stk)
      BY <2>3, <2>5, StkHeapUpdateKeeps, Zenon
    <2>7. Becomes(Popped(left, 1))
      BY <2>4
    <2> HIDE DEF left
    <2>8. IsMachine(Popped(left, 1)) /\ Keeps(Front(stk), Popped(left, 1).stk, Len(stk) - 2)
      <3>1. 1 <= Len(left.stk) /\ Len(left.stk) - 1 = Len(stk) - 2
        BY <2>2, <2>3, <2>6
      <3> QED
        BY <2>2, <2>6, <3>1, PoppedKeeps
    <2>9. Keeps(Front(stk), Popped(left, 1).stk, Frame.localsOffset)
      BY <2>2, <2>3, <2>8, KeepsLess DEF IsMachine
    <2>10. MachineKeeps(stk, Popped(left, 1), Frame.localsOffset)
      BY <2>2, <2>3, <2>8, <2>9, KeepsTrans DEF MachineKeeps
    <2> QED
      BY <2>1, <2>7, <2>10, BecomesWithin
  <1> QED
    BY <1>1, <1>2

\* To pull the input off the locals and put the result.
LEMMA PutUponFrontKeeps ==
  ASSUME FramesInv, NEW h, NEW where \in Wheres, NEW o, NEW policy, Locals # 0
  PROVE  /\ MachineKeeps(stk, PutNow([Machine EXCEPT !.stk = Front(stk)], where, o, policy),
                         Frame.localsOffset)
         /\ MachineKeeps(stk, PutNow([Machine EXCEPT !.stk = Front(stk), !.heap = h],
                                     where, o, policy), Frame.localsOffset)
  <1> DEFINE cut == [Machine EXCEPT !.stk = Front(stk)]
             filled == [Machine EXCEPT !.stk = Front(stk), !.heap = h]
  <1>1. IsSeq(Front(stk)) /\ Keeps(stk, Front(stk), Frame.localsOffset)
    BY FrontWithin
  <1>2. MachineKeeps(stk, cut, Frame.localsOffset)
    BY <1>1, FrameFacts, StkUpdateKeeps DEF MachineKeeps
  <1>3. MachineKeeps(stk, filled, Frame.localsOffset)
    <2>1. IsMachine(Machine) /\ IsSeq(Front(stk))
      BY <1>1, FrameFacts
    <2>2. IsMachine(filled) /\ filled.stk = Front(stk)
      BY <2>1, StkHeapUpdateKeeps, Zenon
    <2> HIDE DEF filled
    <2> QED
      BY <1>1, <2>2 DEF MachineKeeps
  <1> HIDE DEF cut, filled
  <1>4. /\ MachineKeeps(stk, PutNow(cut, where, o, policy), Frame.localsOffset)
        /\ MachineKeeps(stk, PutNow(filled, where, o, policy), Frame.localsOffset)
    BY <1>2, <1>3, PutNowKeeps
  <1> QED
    BY <1>4, Zenon DEF cut, filled

\* Each way to convert pops the input off the locals, and puts the result.
LEMMA ConvertWithin ==
  ASSUME FramesInv, NEW type, NEW where \in Wheres, Convert(type, where)
  PROVE  Within
  <1>1. CASE Refused
    BY <1>1, SameWithin DEF Refused
  <1>2. ASSUME ~Refused PROVE Within
    <2> DEFINE input == Last(stk)
               boxed == heap[input].slots[1]
    <2>1. Locals # 0 /\ UNCHANGED frames
      BY <1>2, Zenon DEF Convert
    <2>2. \/ Becomes(PutNow([Machine EXCEPT !.stk = Front(stk)], where, input, "take"))
          \/ Cast(None, where) \/ Cast(type, where) \/ Rebox(type, where)
          \/ Unbox(where) \/ Box(type, where)
      BY <1>2, Zenon DEF Convert
    <2>3. ASSUME Becomes(PutNow([Machine EXCEPT !.stk = Front(stk)], where, input, "take"))
          PROVE  Within
      BY <2>1, <2>3, PutUponFrontKeeps, BecomesWithin
    <2>4. ASSUME NEW to, Cast(to, where) PROVE Within
      <3> DEFINE m == Popped(Machine, 1)
      <3>1. MachineKeeps(stk, m, Frame.localsOffset)
        BY <2>1, FrameFacts, PoppedWithin
      <3>2. PICK os : Becomes(PutNow([m EXCEPT !.heap = Created(m.heap, os[1], to, <<>>)],
                                     where, os[1], "take"))
        BY <2>4, Zenon DEF Cast
      <3> HIDE DEF m
      <3>3. MachineKeeps(stk, PutNow([m EXCEPT !.heap = Created(m.heap, os[1], to, <<>>)],
                                     where, os[1], "take"), Frame.localsOffset)
        BY <3>1, PutCreatedKeeps
      <3> QED
        BY <2>1, <3>2, <3>3, BecomesWithin
    <2>5. ASSUME Box(type, where) PROVE Within
      <3>1. PICK h, o : Becomes(PutNow([Machine EXCEPT !.stk = Front(stk), !.heap = h],
                                       where, o, "take"))
        BY <2>5, Zenon DEF Box
      <3> QED
        BY <2>1, <3>1, PutUponFrontKeeps, BecomesWithin
    <2>6. ASSUME Unbox(where) PROVE Within
      <3>1. Becomes(ReleasedIn(PutNow([Machine EXCEPT !.stk = Front(stk)], where,
                                      boxed, "borrow"), <<input>>))
        BY <2>6, Zenon DEF Unbox
      <3>2. MachineKeeps(stk, ReleasedIn(PutNow([Machine EXCEPT !.stk = Front(stk)], where,
                                      boxed, "borrow"), <<input>>), Frame.localsOffset)
        BY <2>1, PutUponFrontKeeps, ReleasedInWithin
      <3> QED
        BY <2>1, <3>1, <3>2, BecomesWithin
    <2>7. ASSUME Rebox(type, where) PROVE Within
      <3>1. PICK h, o : Becomes(ReleasedIn(PutNow([Machine EXCEPT !.stk = Front(stk),
                                                                  !.heap = h],
                                                  where, o, "take"), <<input>>))
        BY <2>7, Zenon DEF Rebox
      <3>2. MachineKeeps(stk, ReleasedIn(PutNow([Machine EXCEPT !.stk = Front(stk), !.heap = h],
                                                where, o, "take"), <<input>>),
                         Frame.localsOffset)
        BY <2>1, PutUponFrontKeeps, ReleasedInWithin
      <3> QED
        BY <2>1, <3>1, <3>2, BecomesWithin
    <2> QED
      BY <2>2, <2>3, <2>4, <2>5, <2>6, <2>7
  <1> QED
    BY <1>1, <1>2

\* None of them leaves its frame.
LEMMA ValueCallsWithin == FramesInv /\ ValueCalls => Within
  BY StructInitWithin, GetPropertyWithin, SetPropertyWithin, ConvertWithin DEF ValueCalls

--------------------------------------------------------------------------------
(* What a step may do to the frames *)

\* The current frame goes on, and leaves alone what is below its args.
Stays ==
    /\ \/ frames' = frames
       \/ \E o : frames' = [frames EXCEPT ![Len(frames)].returnValue = o]
    /\ IsSeq(stk') /\ Frame.localsOffset <= Len(stk') /\ Keeps(stk, stk', Floor(Frame))

\* A frame is added whose args are locals of the current one.
Enters ==
    \E f :
        /\ IsFrame(f) /\ frames' = Append(frames, f)
        /\ Frame.localsOffset <= Floor(f) /\ f.localsOffset = Len(stk')
        /\ IsSeq(stk') /\ Keeps(stk, stk', Frame.localsOffset)

\* The current frame goes, and leaves alone what is below its caller's locals.
Leaves ==
    /\ Len(frames) > 1 /\ frames' = Front(frames)
    /\ IsSeq(stk') /\ Keeps(stk, stk', frames[Len(frames) - 1].localsOffset)

Goes == frames' = <<UserFrame>> /\ IsSeq(stk')

\* What keeps all below the locals keeps all below the args.
LEMMA WithinStays == FramesInv /\ Within => Stays
  <1> SUFFICES ASSUME FramesInv, Within PROVE Stays
    OBVIOUS
  <1>1. /\ Floor(Frame) \in Nat /\ Floor(Frame) <= Frame.localsOffset
        /\ Frame.localsOffset \in Nat
    BY FrameFacts
  <1>2. Keeps(stk, stk', Floor(Frame))
    BY <1>1, KeepsLess DEF Within, FramesInv
  <1> QED
    BY <1>2 DEF Within, Stays, Keeps

\* What a call is dispatched to is a fn.
LEMMA TargetIsFunction ==
  ASSUME NEW f \in Functions, NEW callobj, NEW target \in Targets(f, callobj)
  PROVE  target \in Functions
  BY FunctionAssumption DEF Targets

\* There are not less than none of them.
LEMMA DummiesAreCounted ==
  ASSUME NEW f \in Functions, NEW target \in Functions, NEW names,
         Len(names) \in Nat, Len(names) <= Len(Signature[f].named)
  PROVE  Dummies(f, target, names) \in Nat
  <1>1. Len(Signature[f].named) \in Nat /\ Len(Signature[target].named) \in Nat
    BY FunctionAssumption
  <1>2. Dummies(f, target, names) =
            Len(Signature[f].named) - Len(names)
                + (IF f \in MethodReqs THEN Len(Signature[target].named) ELSE 0)
    BY DEF Dummies
  <1> DEFINE ours == Len(Signature[f].named)
             theirs == IF f \in MethodReqs THEN Len(Signature[target].named) ELSE 0
  <1>3. ours \in Nat /\ theirs \in Nat /\ Len(names) <= ours
    BY <1>1
  <1>4. Dummies(f, target, names) = ours - Len(names) + theirs
    BY <1>2
  <1> HIDE DEF ours, theirs
  <1> QED
    BY <1>3, <1>4

\* With the args on the stack, the dummies go on top: the new frame's window
\* starts where the first arg is.
LEMMA EnterEnters ==
  ASSUME FramesInv, NEW f \in Functions, NEW given \in Nat, NEW names,
         Len(names) \in Nat, Len(names) <= Len(Signature[f].named),
         NEW returnTo \in Wheres, NEW below, NEW next,
         IsSeq(below), Keeps(stk, below, Frame.localsOffset),
         Frame.localsOffset <= Len(below) - given,
         next # <<>> /\ next.op = "get" => next.where \in Wheres,
         Enter(f, given, names, returnTo, below, next)
  PROVE  Enters
  <1>1. PICK target \in Targets(f, stk[Len(stk) - given + 1]) :
          \E os \in Room(heap, Dummies(f, target, names)) :
            /\ stk' = below \o os
            /\ frames' = Append(frames,
                [fn |-> target, args |-> given + Dummies(f, target, names),
                 dummies |-> Dummies(f, target, names), returnTo |-> returnTo,
                 localsOffset |-> Len(below) + Dummies(f, target, names),
                 fwdFromProto |-> f \in MethodReqs, returnValue |-> Nil,
                 then |-> next, entry |-> LocalStack])
    BY DEF Enter
  <1> DEFINE d == Dummies(f, target, names)
             new == [fn |-> target, args |-> given + d, dummies |-> d, returnTo |-> returnTo,
                     localsOffset |-> Len(below) + d, fwdFromProto |-> f \in MethodReqs,
                     returnValue |-> Nil, then |-> next, entry |-> LocalStack]
  <1>2. PICK os \in Room(heap, d) : stk' = below \o os /\ frames' = Append(frames, new)
    BY <1>1
  <1>3. d \in Nat
    BY TargetIsFunction, DummiesAreCounted
  <1> HIDE DEF d
  <1>4. os \in [1..d -> Objects \ Live(heap)]
    BY <1>2 DEF Room
  <1>5. /\ IsSeq(stk') /\ Len(stk') = Len(below) + d /\ Keeps(below, stk', Len(below))
    BY <1>2, <1>3, <1>4, ConcatKeeps
  <1>6. /\ Len(below) \in Nat /\ Frame.localsOffset \in Nat
        /\ Frame.localsOffset <= Len(below)
    BY FrameFacts DEF IsSeq
  <1>7. Keeps(stk, stk', Frame.localsOffset)
    <2>1. Keeps(below, stk', Frame.localsOffset)
      BY <1>5, <1>6, KeepsLess
    <2> QED
      BY <1>6, <2>1, KeepsTrans
  <1>8. /\ given <= Len(below) /\ Floor(new) = Len(below) - given
        /\ IsFrame(new)
    BY <1>3, <1>6 DEF IsFrame, Floor
  <1> HIDE DEF new
  <1>9. new.localsOffset = Len(stk')
    BY <1>5 DEF new
  <1> QED
    BY <1>2, <1>5, <1>7, <1>8, <1>9 DEF Enters

\* The args of a call are among the locals of its caller.
LEMMA BeginCallEnters ==
  ASSUME FramesInv, NEW f \in Functions, NEW returnTo \in Wheres,
         NEW names \in NameLists(Len(Signature[f].named)), BeginCall(f, names, returnTo)
  PROVE  Within \/ Enters
  <1> DEFINE n == Len(Signature[f].positional) + Len(names)
  <1>1. /\ Len(Signature[f].named) \in Nat /\ Len(Signature[f].positional) \in Nat
    BY FunctionAssumption
  <1>2. Len(names) \in Nat /\ Len(names) <= Len(Signature[f].named)
    BY <1>1 DEF NameLists
  <1>3. CASE Refused
    BY <1>3, SameWithin DEF Refused
  <1>4. ASSUME ~Refused PROVE Enters
    <2>1. \/ Refused
          \/ ~(n > Locals) /\ Enter(f, n, names, returnTo, stk, <<>>)
      BY DEF BeginCall
    <2>2. ~(n > Locals) /\ Enter(f, n, names, returnTo, stk, <<>>)
      BY <1>4, <2>1
    <2>3. n \in Nat
      BY <1>1, <1>2
    <2> HIDE DEF n
    <2>4. Frame.localsOffset <= Len(stk) - n
      BY <2>2, <2>3, FrameFacts
    <2>5. IsSeq(stk) /\ Keeps(stk, stk, Frame.localsOffset)
      BY FrameFacts DEF FramesInv
    <2> QED
      BY <1>2, <2>2, <2>3, <2>4, <2>5, EnterEnters
  <1> QED
    BY <1>3, <1>4

\* setArg reaches below the locals, but no further than the args.
LEMMA SetArgStays ==
  ASSUME FramesInv, NEW o, NEW policy, SetArg(o, policy)
  PROVE  Stays
  <1>1. UNCHANGED frames
    BY DEF SetArg
  <1>2. CASE ArgWindow = {}
    <2> DEFINE left == IF policy = "take" THEN ReleasedIn(Machine, <<o>>) ELSE Machine
    <2>1. Becomes([left EXCEPT !.ok = FALSE])
      BY <1>2 DEF SetArg
    <2>2. IsMachine(left) /\ left.stk = stk
      BY FrameFacts, ReleasedInKeeps
    <2> HIDE DEF left
    <2>3. MachineKeeps(stk, [left EXCEPT !.ok = FALSE], Frame.localsOffset)
      BY <2>2, FrameFacts, OkUpdateKeeps DEF MachineKeeps
    <2> QED
      BY <1>1, <2>1, <2>3, BecomesWithin, WithinStays
  <1>3. CASE ArgWindow # {}
    <2>1. PICK pos \in ArgWindow :
            Becomes([ReleasedIn(Borrowed(Machine, o, policy), <<stk[pos]>>)
                        EXCEPT !.stk[pos] = o])
      BY <1>3 DEF SetArg
    <2> DEFINE r == ReleasedIn(Borrowed(Machine, o, policy), <<stk[pos]>>)
               left == [r EXCEPT !.stk = [stk EXCEPT ![pos] = o]]
    <2>2. IsMachine(r) /\ r.stk = stk
      BY FrameFacts, BorrowedKeeps, ReleasedInKeeps
    <2>3. /\ pos \in Nat /\ Floor(Frame) \in Nat /\ Floor(Frame) < pos /\ pos <= Len(stk)
          /\ Frame.localsOffset <= Len(stk)
      BY FrameFacts DEF ArgWindow, Floor, IsFrame
    <2>4. /\ IsSeq([stk EXCEPT ![pos] = o]) /\ Len([stk EXCEPT ![pos] = o]) = Len(stk)
          /\ Keeps(stk, [stk EXCEPT ![pos] = o], Floor(Frame))
      BY <2>3, ReplaceKeeps DEF FramesInv
    <2>5. Becomes([r EXCEPT !.stk[pos] = o])
      BY <2>1
    <2> HIDE DEF r
    <2>6. [r EXCEPT !.stk[pos] = o] = left
      BY <2>2
    <2>7. left.stk = [stk EXCEPT ![pos] = o]
      BY <2>2, <2>4, StkUpdateKeeps
    <2>8. stk' = [stk EXCEPT ![pos] = o]
      <3>1. stk' = [r EXCEPT !.stk[pos] = o].stk
        BY <2>5, Zenon DEF Becomes
      <3> QED
        BY <2>6, <2>7, <3>1, Zenon
    <2> QED
      BY <1>1, <2>3, <2>4, <2>8 DEF Stays
  <1> QED
    BY <1>2, <1>3

\* ret changes the return value of its frame, and no stack.
LEMMA RetStays ==
  ASSUME FramesInv, NEW o, NEW policy, Ret(o, policy)
  PROVE  Stays
  <1> DEFINE left == IF policy = "take" THEN ReleasedIn(Machine, <<o>>) ELSE Machine
             dropped == IF Frame.returnValue = Nil THEN Machine
                        ELSE ReleasedIn(Machine, <<Frame.returnValue>>)
  <1>1. /\ IsMachine(left) /\ left.stk = stk
        /\ IsMachine(dropped) /\ dropped.stk = stk
    BY FrameFacts, ReleasedInKeeps
  <1>2. CASE IsUser
    <2>1. Becomes([left EXCEPT !.ok = FALSE]) /\ UNCHANGED frames
      BY <1>2 DEF Ret
    <2> HIDE DEF left
    <2>2. MachineKeeps(stk, [left EXCEPT !.ok = FALSE], Frame.localsOffset)
      BY <1>1, FrameFacts, OkUpdateKeeps DEF MachineKeeps
    <2> QED
      BY <2>1, <2>2, BecomesWithin, WithinStays
  <1>3. CASE ~IsUser
    <2>1. /\ Becomes(Borrowed(dropped, o, policy))
          /\ frames' = [frames EXCEPT ![Len(frames)].returnValue = o]
      BY <1>3, Zenon DEF Ret
    <2> HIDE DEF dropped
    <2>2. stk' = stk
      BY <1>1, <2>1, BorrowedKeeps DEF Becomes
    <2>3. Keeps(stk, stk, Floor(Frame))
      BY FrameFacts DEF Keeps
    <2> QED
      BY <2>1, <2>2, <2>3, FrameFacts DEF Stays, FramesInv
  <1> QED
    BY <1>2, <1>3

--------------------------------------------------------------------------------
(* Vars, and the end of a call *)

\* Putting the value of a var keeps what is below the locals.
LEMMA GotVarKeeps ==
  ASSUME NEW m, NEW offset \in Nat, NEW o, NEW where \in Wheres,
         IsMachine(m), offset <= Len(m.stk)
  PROVE  MachineKeeps(m.stk, GotVar(m, offset, o, where), offset)
  <1>1. IsSeq(m.stk) /\ Len(m.stk) \in Nat /\ Keeps(m.stk, m.stk, offset)
    BY KeepsAll, KeepsLess DEF IsMachine, IsSeq
  <1>2. CASE o = Nil
    BY <1>1, <1>2, OkUpdateKeeps DEF GotVar, MachineKeeps
  <1>3. CASE o # Nil
    <2> DEFINE lent == Borrowed(m, o, "borrow")
    <2>1. IsMachine(lent) /\ lent.stk = m.stk
      BY BorrowedKeeps
    <2>2. GotVar(m, offset, o, where) = PutIn(lent, offset, where, o, "take")
      BY <1>3 DEF GotVar
    <2> HIDE DEF lent
    <2>3. MachineKeeps(m.stk, PutIn(lent, offset, where, o, "take"), offset)
      BY <2>1, PutInKeeps
    <2> QED
      BY <2>2, <2>3
  <1> QED
    BY <1>2, <1>3

\* What comes after an initializer pulls no more than what is above offset.
LEMMA ResumeKeeps ==
  ASSUME NEW s, NEW m, NEW offset \in Nat, NEW next,
         MachineKeeps(s, m, offset), next.op = "get" => next.where \in Wheres,
         Resume(m, offset, next)
  PROVE  IsSeq(stk') /\ Keeps(s, stk', offset)
  <1> DEFINE left == IF Len(m.stk) > offset THEN Front(m.stk) ELSE m.stk
             pulled == [m EXCEPT !.stk = left, !.ok = TRUE]
  <1>1. IsMachine(m) /\ IsSeq(m.stk) /\ Len(m.stk) \in Nat /\ offset <= Len(m.stk)
        /\ Keeps(s, m.stk, offset)
    BY DEF MachineKeeps, IsMachine, IsSeq, Keeps
  <1>2. IsSeq(left) /\ Keeps(m.stk, left, offset)
    <2>1. CASE Len(m.stk) > offset
      <3>1. m.stk # <<>>
        BY <1>1, <2>1
      <3>2. IsSeq(Front(m.stk)) /\ Keeps(m.stk, Front(m.stk), Len(m.stk) - 1)
        BY <1>1, <3>1, KeepsFront
      <3>3. Len(m.stk) - 1 \in Nat /\ offset <= Len(m.stk) - 1
        BY <1>1, <2>1
      <3> QED
        BY <1>1, <2>1, <3>2, <3>3, KeepsLess
    <2>2. CASE ~(Len(m.stk) > offset)
      BY <1>1, <2>2, KeepsAll, KeepsLess
    <2> QED
      BY <2>1, <2>2
  <1>3. Keeps(s, left, offset)
    BY <1>1, <1>2, KeepsTrans
  <1>4. \/ next.op = "get" /\ \E o : Becomes(GotVar(pulled, offset, o, next.where))
        \/ Becomes(pulled)
    BY Zenon DEF Resume
  <1> HIDE DEF left
  <1>5. IsMachine(pulled) /\ pulled.stk = left
    BY <1>1, <1>2, StkOkUpdateKeeps, Zenon
  <1> HIDE DEF pulled
  <1>6. ASSUME NEW o, next.op = "get", Becomes(GotVar(pulled, offset, o, next.where))
        PROVE  IsSeq(stk') /\ Keeps(s, stk', offset)
    <2>1. next.where \in Wheres /\ offset <= Len(pulled.stk)
      BY <1>2, <1>5, <1>6 DEF Keeps
    <2>2. MachineKeeps(left, GotVar(pulled, offset, o, next.where), offset)
      BY <1>5, <2>1, GotVarKeeps
    <2> QED
      BY <1>3, <1>6, <2>2, KeepsTrans DEF MachineKeeps, IsMachine, Becomes
  <1>7. CASE Becomes(pulled)
    BY <1>2, <1>3, <1>5, <1>7 DEF Becomes
  <1> QED
    BY <1>4, <1>6, <1>7

\* An initializer's call, or its failure at the call stack's limit.
LEMMA InitializeGoesOn ==
  ASSUME FramesInv, NEW v \in Vars, NEW below, NEW next,
         IsSeq(below), Keeps(stk, below, Frame.localsOffset),
         next # <<>> /\ next.op = "get" => next.where \in Wheres,
         next.op = "get" => next.where \in Wheres,
         Initialize(v, below, next)
  PROVE  Within \/ Enters
  <1>1. CASE Len(frames) = MaxCallStack
    <2> DEFINE m == [Machine EXCEPT !.stk = below]
    <2>1. Resume(m, Frame.localsOffset, next) /\ UNCHANGED frames
      BY <1>1, Zenon DEF Initialize
    <2>2. MachineKeeps(stk, m, Frame.localsOffset)
      BY FrameFacts, StkUpdateKeeps DEF MachineKeeps
    <2> HIDE DEF m
    <2> QED
      BY <2>1, <2>2, ResumeKeeps, FrameFacts DEF Within
  <1>2. CASE Len(frames) # MaxCallStack
    <2>1. Enter(Initializer[v], 0, <<>>, Push, below, next)
      BY <1>2, Zenon DEF Initialize
    <2>2. Initializer[v] \in Functions
      BY FunctionAssumption
    <2>3. Len(<<>>) = 0 /\ Len(<<>>) \in Nat
      OBVIOUS
    <2>4. Len(Signature[Initializer[v]].named) \in Nat
      BY <2>2, FunctionAssumption
    <2>5. Frame.localsOffset <= Len(below) - 0
      BY FrameFacts DEF Keeps, IsSeq
    <2>6. Push \in Wheres
      BY DEF Wheres
    <2>7. 0 \in Nat /\ Len(<<>>) <= Len(Signature[Initializer[v]].named)
      BY <2>3, <2>4
    <2> QED
      BY <2>1, <2>2, <2>3, <2>5, <2>6, <2>7, EnterEnters
  <1> QED
    BY <1>1, <1>2

\* ymCtx_GetVar initializes the var first, or puts it within its frame.
LEMMA GetVarGoesOn ==
  ASSUME FramesInv, NEW v \in Vars, NEW where \in Wheres, GetVar(v, where)
  PROVE  Within \/ Enters
  <1>1. CASE Refused
    BY <1>1, SameWithin DEF Refused
  <1>2. CASE ~Refused /\ vars[v] = Nil
    <2> DEFINE next == [op |-> "get", var |-> v, where |-> where]
    <2>1. Initialize(v, stk, next)
      BY <1>2, Zenon DEF GetVar
    <2>2. IsSeq(stk) /\ Keeps(stk, stk, Frame.localsOffset) /\ next.where \in Wheres
      BY FrameFacts DEF FramesInv
    <2> HIDE DEF next
    <2> QED
      BY <2>1, <2>2, InitializeGoesOn
  <1>3. CASE ~Refused /\ vars[v] # Nil
    <2>1. Becomes(GotVar(Machine, Frame.localsOffset, vars[v], where)) /\ UNCHANGED frames
      BY <1>3, Zenon DEF GetVar
    <2>2. MachineKeeps(stk, GotVar(Machine, Frame.localsOffset, vars[v], where),
                       Frame.localsOffset)
      BY FrameFacts, GotVarKeeps
    <2> QED
      BY <2>1, <2>2, BecomesWithin
  <1> QED
    BY <1>1, <1>2, <1>3

\* ymCtx_SetVar pulls its value off the locals first.
LEMMA SetVarGoesOn ==
  ASSUME FramesInv, NEW v \in Vars, SetVar(v)
  PROVE  Within \/ Enters
  <1>1. CASE Refused
    BY <1>1, SameWithin DEF Refused
  <1>2. CASE ~Refused /\ vars[v] = Nil
    <2> DEFINE next == [op |-> "set", var |-> v, value |-> Last(stk)]
    <2>1. Initialize(v, Front(stk), next) /\ Locals # 0
      BY <1>2, Zenon DEF SetVar
    <2>2. IsSeq(Front(stk)) /\ Keeps(stk, Front(stk), Frame.localsOffset)
      BY <2>1, FrontWithin
    <2>3. next.op # "get"
      OBVIOUS
    <2> HIDE DEF next
    <2> QED
      BY <2>1, <2>2, <2>3, InitializeGoesOn
  <1>3. CASE ~Refused /\ vars[v] # Nil
    <2>1. Becomes([Machine EXCEPT !.stk = Front(stk)]) /\ UNCHANGED frames /\ Locals # 0
      BY <1>3, Zenon DEF SetVar
    <2>2. IsSeq(Front(stk)) /\ Keeps(stk, Front(stk), Frame.localsOffset)
      BY <2>1, FrontWithin
    <2>3. MachineKeeps(stk, [Machine EXCEPT !.stk = Front(stk)], Frame.localsOffset)
      BY <2>2, FrameFacts, StkUpdateKeeps DEF MachineKeeps
    <2> QED
      BY <2>1, <2>3, BecomesWithin
  <1> QED
    BY <1>1, <1>2, <1>3

\* _endCall pops the locals, then the args or the dummies, and puts at most one
\* result where the caller asked for it.
LEMMA ReturnedKeeps ==
  ASSUME FramesInv, NEW offset \in Nat, offset <= Floor(Frame)
  PROVE  MachineKeeps(stk, Returned(offset), offset)
  <1> DEFINE m == Popped(Machine, Locals)
             o == Frame.returnValue
  <1>1. /\ Frame.localsOffset \in Nat /\ Frame.args \in Nat /\ Frame.dummies \in Nat
        /\ Frame.dummies <= Frame.args /\ Frame.args <= Frame.localsOffset
        /\ offset <= Frame.localsOffset - Frame.args /\ Frame.returnTo \in Wheres
    BY FrameFacts DEF IsFrame, Floor
  <1>2. /\ IsMachine(m) /\ Len(m.stk) = Frame.localsOffset
        /\ Keeps(stk, m.stk, Frame.localsOffset)
    <2>1. /\ Locals \in Nat /\ Locals <= Len(stk)
          /\ Len(stk) - Locals = Frame.localsOffset
      BY FrameFacts
    <2> QED
      BY <2>1, FrameFacts, PoppedKeeps
  <1> HIDE DEF m
  <1>3. ASSUME NEW n \in Nat, n <= Frame.args
        PROVE  MachineKeeps(stk, Popped(m, n), offset)
    <2>1. n <= Len(m.stk) /\ offset <= Len(m.stk) - n /\ Len(m.stk) - n \in Nat
      BY <1>1, <1>2, <1>3
    <2>2. IsMachine(Popped(m, n)) /\ Keeps(m.stk, Popped(m, n).stk, Len(m.stk) - n)
      BY <1>2, <2>1, PoppedKeeps
    <2>3. Keeps(m.stk, Popped(m, n).stk, offset)
      BY <1>2, <2>1, <2>2, KeepsLess DEF IsMachine
    <2>4. Keeps(stk, m.stk, offset)
      BY <1>1, <1>2, KeepsLess DEF IsMachine, FramesInv
    <2> QED
      BY <2>2, <2>3, <2>4, KeepsTrans DEF MachineKeeps
  <1>4. MachineKeeps(stk, Popped(m, Frame.dummies), offset)
    BY <1>1, <1>3
  <1>5. MachineKeeps(stk, [Popped(m, Frame.dummies) EXCEPT !.ok = FALSE], offset)
    BY <1>4, OkUpdateKeeps DEF MachineKeeps
  <1>6. MachineKeeps(stk, [ReleasedIn(Popped(m, Frame.dummies), <<o>>) EXCEPT !.ok = FALSE],
                     offset)
    BY <1>4, ReleasedInKeeps, OkUpdateKeeps DEF MachineKeeps
  <1>7. MachineKeeps(stk, PutIn(Popped(m, Frame.args), offset, Frame.returnTo, o, "take"),
                     offset)
    <2> DEFINE rest == Popped(m, Frame.args)
    <2>1. MachineKeeps(stk, rest, offset)
      BY <1>1, <1>3
    <2> HIDE DEF rest
    <2>2. IsMachine(rest) /\ offset <= Len(rest.stk) /\ Keeps(stk, rest.stk, offset)
      BY <2>1 DEF MachineKeeps, Keeps
    <2>3. MachineKeeps(rest.stk, PutIn(rest, offset, Frame.returnTo, o, "take"), offset)
      BY <1>1, <2>2, PutInKeeps
    <2>4. MachineKeeps(stk, PutIn(rest, offset, Frame.returnTo, o, "take"), offset)
      BY <2>2, <2>3, KeepsTrans DEF MachineKeeps
    <2> QED
      BY <2>4 DEF rest
  <1>8. \/ Returned(offset) = [Popped(m, Frame.dummies) EXCEPT !.ok = FALSE]
        \/ Returned(offset) = [ReleasedIn(Popped(m, Frame.dummies), <<o>>) EXCEPT !.ok = FALSE]
        \/ Returned(offset) = PutIn(Popped(m, Frame.args), offset, Frame.returnTo, o, "take")
    BY Zenon DEF Returned, m
  <1> QED
    BY <1>5, <1>6, <1>7, <1>8, Zenon

\* The caller's locals start below the window of the current frame.
LEMMA CallerIsBelow ==
  ASSUME FramesInv, ~IsUser
  PROVE  /\ Len(frames) > 1 /\ Len(frames) \in Nat
         /\ frames[Len(frames) - 1].localsOffset \in Nat
         /\ frames[Len(frames) - 1].localsOffset <= Floor(Frame)
  <1>1. Len(frames) > 1 /\ Len(frames) \in Nat
    <2> DEFINE n == Len(frames)
    <2>1. n \in Nat \ {0} /\ n # 1
      BY FrameFacts DEF IsUser
    <2> HIDE DEF n
    <2>2. n > 1 /\ n \in Nat
      BY <2>1
    <2> QED
      BY <2>2 DEF n
  <1> DEFINE j == Len(frames) - 1
             k == Len(frames)
  <1>2. j \in 1..Len(frames) /\ k \in 1..Len(frames) /\ j < k
    BY <1>1
  <1>3. Frame = frames[k]
    BY FrameFacts
  <1> HIDE DEF j, k
  <1>4. frames[j].localsOffset \in Nat
    BY <1>2, FrameNumbers DEF FramesInv
  <1>5. frames[j].localsOffset <= Floor(frames[k])
    BY <1>2 DEF FramesInv
  <1> QED
    BY <1>1, <1>3, <1>4, <1>5 DEF j

\* The end of a call keeps all below its caller's locals.
LEMMA EndCallLeaves == FramesInv /\ EndCall => Leaves
  <1> SUFFICES ASSUME FramesInv, EndCall PROVE Leaves
    OBVIOUS
  <1> DEFINE offset == frames[Len(frames) - 1].localsOffset
             m == Returned(offset)
  <1>1. /\ ~IsUser /\ frames' = Front(frames)
        /\ \/ Becomes(m)
           \/ Frame.then # <<>> /\ Resume(m, offset, Frame.then)
    BY Zenon DEF EndCall
  <1>2. Len(frames) > 1 /\ Len(frames) \in Nat
    BY <1>1, CallerIsBelow
  <1>3. offset \in Nat /\ offset <= Floor(Frame)
    BY <1>1, CallerIsBelow
  <1>4. MachineKeeps(stk, m, offset)
    BY <1>3, ReturnedKeeps
  <1>5. Frame.then # <<>> /\ Frame.then.op = "get" => Frame.then.where \in Wheres
    BY FrameFacts DEF IsFrame
  <1> HIDE DEF m
  <1>6. IsSeq(stk') /\ Keeps(stk, stk', offset)
    <2>1. CASE Becomes(m)
      BY <1>4, <2>1 DEF MachineKeeps, IsMachine, Becomes
    <2>2. CASE Frame.then # <<>> /\ Resume(m, offset, Frame.then)
      BY <1>3, <1>4, <1>5, <2>2, ResumeKeeps
    <2> QED
      BY <1>1, <2>1, <2>2
  <1> QED
    BY <1>1, <1>2, <1>6 DEF Leaves

\* The end of a context leaves the user frame alone.
LEMMA DestroyGoes == FramesInv /\ Destroy => Goes
  <1> SUFFICES ASSUME FramesInv, Destroy PROVE Goes
    OBVIOUS
  <1> DEFINE m == Popped(Machine, Locals)
  <1>1. stk' = m.stk /\ frames' = <<UserFrame>>
    BY Zenon DEF Destroy
  <1>2. MachineKeeps(stk, m, Frame.localsOffset)
    BY FrameFacts, PoppedWithin
  <1> QED
    BY <1>1, <1>2 DEF Goes, MachineKeeps, IsMachine

\* Every step has one of the four shapes.
LEMMA StepShapes == FramesInv /\ [Next]_ctxVars => Stays \/ Enters \/ Leaves \/ Goes
  <1> SUFFICES ASSUME FramesInv, [Next]_ctxVars PROVE Stays \/ Enters \/ Leaves \/ Goes
    OBVIOUS
  <1>1. CASE HostCalls \/ StackCalls \/ ValueCalls
    BY <1>1, HostCallsWithin, StackCallsWithin, ValueCallsWithin, WithinStays
  <1>2. CASE FnCalls
    BY <1>2, BeginCallEnters, SetArgStays, RetStays, EndCallLeaves, WithinStays DEF FnCalls
  <1>3. CASE VarCalls
    BY <1>3, GetVarGoesOn, SetVarGoesOn, WithinStays DEF VarCalls
  <1>4. CASE Destroy
    BY <1>4, DestroyGoes
  <1>5. CASE UNCHANGED ctxVars
    BY <1>5, SameWithin, WithinStays DEF ctxVars
  <1> QED
    BY <1>1, <1>2, <1>3, <1>4, <1>5 DEF Next

--------------------------------------------------------------------------------
(* The invariant *)

\* Up the call stack, neither end of a frame's window of args goes down.
LEMMA FloorsRise ==
  ASSUME FramesInv, NEW j \in 1..Len(frames), NEW k \in 1..Len(frames), j <= k
  PROVE  /\ Floor(frames[j]) \in Nat /\ frames[j].localsOffset \in Nat
         /\ Floor(frames[j]) <= Floor(frames[k])
         /\ Floor(frames[j]) <= frames[j].localsOffset
         /\ frames[j].localsOffset <= frames[k].localsOffset
  <1>1. /\ Floor(frames[j]) \in Nat /\ frames[j].localsOffset \in Nat
        /\ Floor(frames[j]) <= frames[j].localsOffset
    BY FrameNumbers DEF FramesInv
  <1>2. /\ Floor(frames[k]) \in Nat /\ frames[k].localsOffset \in Nat
        /\ Floor(frames[k]) <= frames[k].localsOffset
    BY FrameNumbers DEF FramesInv
  <1>3. j < k => frames[j].localsOffset <= Floor(frames[k])
    BY DEF FramesInv
  <1> QED
    BY <1>1, <1>2, <1>3

\* The user's frame is one, at the bottom of the stack.
LEMMA UserFrameIsFrame == IsFrame(UserFrame) /\ UserFrame.localsOffset = 0
  BY DEF IsFrame, UserFrame, Wheres

\* The invariant holds at first ...
LEMMA FramesInvInit == Init => FramesInv
  <1> SUFFICES ASSUME Init PROVE FramesInv
    OBVIOUS
  <1>1. stk = <<>> /\ frames = <<UserFrame>>
    BY DEF Init
  <1> HIDE DEF UserFrame
  <1>2. IsSeq(stk) /\ Len(stk) = 0
    BY <1>1 DEF IsSeq
  <1>3. IsSeq(frames) /\ Len(frames) = 1 /\ frames[1] = UserFrame /\ frames # <<>>
    <2>1. frames \in Seq({UserFrame})
      BY <1>1
    <2> QED
      BY <1>1, <2>1 DEF IsSeq
  <1>4. Frame = UserFrame
    BY <1>3 DEF Frame, Last
  <1> QED
    BY <1>2, <1>3, <1>4, UserFrameIsFrame DEF FramesInv

\* ... every step keeps it ...
LEMMA FramesInvNext == FramesInv /\ [Next]_ctxVars => FramesInv'
  <1> SUFFICES ASSUME FramesInv, [Next]_ctxVars PROVE FramesInv'
    OBVIOUS
  <1> DEFINE n == Len(frames)
  <1>0. n \in Nat \ {0} /\ IsSeq(frames) /\ Frame = frames[n] /\ IsFrame(Frame)
    BY FrameFacts DEF FramesInv
  <1>1. CASE Stays
    <2>1. IsSeq(stk') /\ Frame.localsOffset <= Len(stk')
      BY <1>1 DEF Stays
    <2>2. /\ IsSeq(frames') /\ Len(frames') = n
          /\ \A k \in 1..n : /\ IsFrame(frames'[k]) /\ frames'[k].args = frames[k].args
                             /\ frames'[k].localsOffset = frames[k].localsOffset
      <3>1. CASE frames' = frames
        BY <3>1 DEF FramesInv
      <3>2. ASSUME NEW o, frames' = [frames EXCEPT ![n].returnValue = o] PROVE <2>2
        <4> DEFINE f == [Frame EXCEPT !.returnValue = o]
        <4>1. IsFrame(f) /\ f.args = Frame.args /\ f.localsOffset = Frame.localsOffset
          BY <1>0 DEF IsFrame
        <4>2. frames' = [frames EXCEPT ![n] = f]
          BY <1>0, <3>2
        <4> HIDE DEF f
        <4>3. IsSeq(frames') /\ Len(frames') = n
          <5>1. 0 \in Nat /\ n \in Nat /\ 0 < n /\ n <= Len(frames)
            BY <1>0
          <5> QED
            BY <1>0, <4>2, <5>1, ReplaceKeeps
        <4>4. ASSUME NEW k \in 1..n, k # n PROVE frames'[k] = frames[k]
          BY <1>0, <4>2, <4>4 DEF IsSeq
        <4>5. frames'[n] = f
          BY <1>0, <4>2 DEF IsSeq
        <4> QED
          BY <1>0, <4>1, <4>3, <4>4, <4>5 DEF FramesInv
      <3> QED
        BY <1>1, <3>1, <3>2 DEF Stays
    <2>3. Frame'.localsOffset = Frame.localsOffset
      BY <1>0, <2>2 DEF Frame, Last
    <2> QED
      BY <1>0, <2>1, <2>2, <2>3 DEF FramesInv, Floor
  <1>2. CASE Enters
    <2>1. PICK f : /\ IsFrame(f) /\ frames' = Append(frames, f)
                   /\ Frame.localsOffset <= Floor(f) /\ f.localsOffset = Len(stk')
                   /\ IsSeq(stk')
      BY <1>2 DEF Enters
    <2>2. /\ IsSeq(frames') /\ Len(frames') = n + 1 /\ frames'[n + 1] = f
          /\ \A k \in 1..n : frames'[k] = frames[k]
      <3>1. IsSeq(frames') /\ Len(frames') = n + 1 /\ Keeps(frames, frames', n)
        BY <1>0, <2>1, AppendKeeps
      <3>2. frames'[n + 1] = f
        <4>1. PICK S : frames \in Seq(S)
          BY <1>0 DEF IsSeq
        <4>2. frames \in Seq(S \cup {f})
          BY <4>1
        <4> QED
          BY <2>1, <4>2
      <3> QED
        BY <3>1, <3>2 DEF Keeps
    <2>3. Frame' = f
      BY <1>0, <2>2 DEF Frame, Last
    <2>4. ASSUME NEW j \in 1..n PROVE frames[j].localsOffset <= Floor(f)
      <3>1. /\ frames[j].localsOffset <= Frame.localsOffset
            /\ frames[j].localsOffset \in Nat /\ Frame.localsOffset \in Nat
        BY <1>0, FloorsRise, FrameFacts
      <3>2. Floor(f) \in Int
        BY <2>1 DEF IsFrame, Floor
      <3> QED
        BY <2>1, <3>1, <3>2
    <2>5. ASSUME NEW k \in 1..n + 1 PROVE IsFrame(frames'[k])
      BY <1>0, <2>1, <2>2 DEF FramesInv
    <2>6. ASSUME NEW j \in 1..n + 1, NEW k \in 1..n + 1, j < k
          PROVE  frames'[j].localsOffset <= Floor(frames'[k])
      <3>1. CASE k = n + 1
        BY <1>0, <2>2, <2>4, <2>6, <3>1
      <3>2. CASE k # n + 1
        BY <1>0, <2>2, <2>6, <3>2 DEF FramesInv
      <3> QED
        BY <3>1, <3>2
    <2>7. f.localsOffset <= Len(stk')
      BY <2>1 DEF IsFrame
    <2> QED
      BY <1>0, <2>1, <2>2, <2>3, <2>5, <2>6, <2>7 DEF FramesInv, Floor
  <1>3. CASE Leaves
    <2>1. /\ n > 1 /\ frames' = Front(frames) /\ IsSeq(stk')
          /\ frames[n - 1].localsOffset <= Len(stk')
      BY <1>3 DEF Leaves, Keeps
    <2>2. /\ IsSeq(frames') /\ Len(frames') = n - 1
          /\ \A k \in 1..n - 1 : frames'[k] = frames[k]
      BY <1>0, <2>1, KeepsFront DEF Keeps, FramesInv
    <2>3. Frame' = frames[n - 1] /\ frames' # <<>>
      BY <1>0, <2>1, <2>2 DEF Frame, Last
    <2>4. ASSUME NEW k \in 1..n - 1
          PROVE  frames'[k] = frames[k] /\ IsFrame(frames'[k]) /\ k \in 1..n
      BY <1>0, <2>2 DEF FramesInv
    <2>5. ASSUME NEW j \in 1..n - 1, NEW k \in 1..n - 1, j < k
          PROVE  frames'[j].localsOffset <= Floor(frames'[k])
      BY <2>4, <2>5 DEF FramesInv
    <2>6. Frame'.localsOffset <= Len(stk')
      BY <2>1, <2>3
    <2> QED
      BY <2>1, <2>2, <2>3, <2>4, <2>5, <2>6 DEF FramesInv, Floor
  <1>4. CASE Goes
    <2> HIDE DEF UserFrame
    <2>1. frames' = <<UserFrame>> /\ IsSeq(stk')
      BY <1>4 DEF Goes
    <2>2. IsSeq(frames') /\ Len(frames') = 1 /\ frames'[1] = UserFrame /\ frames' # <<>>
      <3>1. frames' \in Seq({UserFrame})
        BY <2>1
      <3> QED
        BY <2>1, <3>1 DEF IsSeq
    <2>3. Frame' = UserFrame
      BY <2>2 DEF Frame, Last
    <2>4. Frame'.localsOffset <= Len(stk')
      BY <2>1, <2>3, UserFrameIsFrame DEF IsSeq
    <2> QED
      BY <2>1, <2>2, <2>3, <2>4, UserFrameIsFrame DEF FramesInv
  <1> QED
    BY <1>1, <1>2, <1>3, <1>4, StepShapes

\* ... so that it always holds.
LEMMA FramesInvHolds == Spec => []FramesInv
  <1> QED
    BY FramesInvInit, FramesInvNext, PTL DEF Spec

--------------------------------------------------------------------------------
(* What follows from it *)

(***************************************************************************)
(* In every state of every run the args and dummies of a callee lie within *)
(* the locals of its caller, and its own locals above them, on the stack.  *)
(***************************************************************************)
THEOREM FramesStayNested == Spec => []FramesNested
  <1>1. FramesInv => FramesNested
    <2> SUFFICES ASSUME FramesInv PROVE FramesNested
      OBVIOUS
    <2>1. ASSUME NEW k \in 1..Len(frames) - 1
          PROVE  frames[k].localsOffset <= Floor(frames[k + 1])
      <3>1. k \in 1..Len(frames) /\ k + 1 \in 1..Len(frames) /\ k < k + 1
        BY FrameFacts
      <3> QED
        BY <3>1 DEF FramesInv
    <2> QED
      BY <2>1 DEF FramesNested, FramesInv
  <1> QED
    BY <1>1, FramesInvHolds, PTL

\* Below a frame that goes on, the stack and the frames are left alone.
LEMMA CallersKept ==
  ASSUME FramesInv, [Next]_ctxVars, NEW k \in 2..Len(frames), k <= Len(frames')
  PROVE  /\ IsSeq(stk') /\ Keeps(stk, stk', Floor(frames[k]))
         /\ frames'[k - 1] = frames[k - 1]
  <1> DEFINE n == Len(frames)
             down == Floor(frames[k])
  <1>1. /\ n \in Nat \ {0} /\ IsSeq(frames) /\ Frame = frames[n] /\ IsSeq(stk)
        /\ k \in 1..n /\ n \in 1..n /\ k <= n /\ n >= 2
    BY FrameFacts DEF FramesInv
  <1>2. /\ down \in Nat /\ Floor(Frame) \in Nat
        /\ down <= Floor(Frame) /\ Floor(Frame) <= Frame.localsOffset
        /\ Frame.localsOffset \in Nat
    BY <1>1, FloorsRise
  <1>3. ASSUME NEW c \in Nat, down <= c, IsSeq(stk'), Keeps(stk, stk', c)
        PROVE  Keeps(stk, stk', down)
    <2> HIDE DEF down
    <2>1. IsSeq(stk) /\ down \in Nat
      BY <1>1, <1>2
    <2> QED
      BY <1>3, <2>1, KeepsLess
  <1>4. CASE Stays
    <2>1. frames'[k - 1] = frames[k - 1]
      BY <1>1, <1>4 DEF Stays, IsSeq
    <2> QED
      BY <1>2, <1>3, <1>4, <2>1 DEF Stays
  <1>5. CASE Enters
    <2>1. PICK f : frames' = Append(frames, f) /\ IsSeq(stk')
                   /\ Keeps(stk, stk', Frame.localsOffset)
      BY <1>5 DEF Enters
    <2>2. frames'[k - 1] = frames[k - 1]
      BY <1>1, <2>1, AppendKeeps DEF Keeps
    <2> QED
      BY <1>2, <1>3, <2>1, <2>2
  <1>6. CASE Leaves
    <2>1. frames' = Front(frames) /\ n - 1 \in 1..n
      BY <1>1, <1>6 DEF Leaves
    <2>2. Len(frames') = n - 1 /\ Keeps(frames, frames', n - 1)
      BY <1>1, <2>1, KeepsFront DEF FramesInv
    <2>3. k <= n - 1 /\ frames'[k - 1] = frames[k - 1]
      BY <1>1, <2>2 DEF Keeps
    <2>4. /\ down <= Floor(frames[n - 1])
          /\ Floor(frames[n - 1]) \in Nat
          /\ Floor(frames[n - 1]) <= frames[n - 1].localsOffset
          /\ frames[n - 1].localsOffset \in Nat
      BY <1>1, <2>1, <2>3, FloorsRise
    <2>5. down <= frames[n - 1].localsOffset
      BY <1>2, <2>4
    <2> QED
      BY <1>3, <1>6, <2>3, <2>4, <2>5 DEF Leaves
  <1>7. CASE Goes
    <2>1. Len(frames') = 1
      BY <1>7 DEF Goes
    <2> QED
      BY <1>1, <2>1
  <1> QED
    BY <1>4, <1>5, <1>6, <1>7, StepShapes

(***************************************************************************)
(* No call of the host, in whatever frame and with whatever index, touches *)
(* the stack below the args of a frame that goes on, or a caller's frame.  *)
(***************************************************************************)
THEOREM CallersStayUntouched == Spec => CallersUntouched
  <1> DEFINE Untouched(k) ==
                /\ SubSeq(stk', 1, Floor(frames[k])) = SubSeq(stk, 1, Floor(frames[k]))
                /\ frames'[k - 1] = frames[k - 1]
  <1>1. ASSUME FramesInv, [Next]_ctxVars, NEW k \in 2..Len(frames), k <= Len(frames')
        PROVE  Untouched(k)
    <2>1. Floor(frames[k]) \in Nat
      BY <1>1, FrameFacts, FloorsRise
    <2> QED
      BY <1>1, <2>1, CallersKept, KeptPrefix DEF FramesInv
  <1>2. FramesInv /\ [Next]_ctxVars
            => [\A k \in 2..Len(frames) : k <= Len(frames') => Untouched(k)]_ctxVars
    BY <1>1
  <1> QED
    BY <1>2, FramesInvHolds, PTL DEF Spec, CallersUntouched

================================================================================
