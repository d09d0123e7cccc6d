----------------------------- MODULE LifetimeProofs -----------------------------
(***************************************************************************)
(* Proofs about Lifetimes, for any number of threads, handles, domains,    *)
(* contexts and definitions, of a program that keeps the discipline: it    *)
(* does not copy-assign handles that are for something, and keeps each     *)
(* domain longer than its contexts.                                        *)
(***************************************************************************)
EXTENDS Lifetimes, TLAPS, FiniteSetTheorems

Disciplined == {"copyAssign", "domainOutlives"} \subseteq Discipline

----------------------------------------------------------------------------
\* Arithmetic of a counter that does not reach its width.
LEMMA BelowWidth ==
    ASSUME NEW n \in Nat, NEW x \in Nat, x < n
    PROVE  x % n = x
OBVIOUS

LEMMA WrapsOnce ==
    ASSUME NEW n \in Nat, NEW x \in Nat, 0 < x, x < n
    PROVE  (x + n - 1) % n = x - 1
OBVIOUS

----------------------------------------------------------------------------
\* The handles that are for q, of any assignment of handles.
On(H, q) == {h \in Handles : H[h] = q}

One(x, q) == IF x = q THEN 1 ELSE 0

Assignments == [Handles -> Resources \cup {Null}]

LEMMA OnIsFinite ==
    ASSUME NEW H, NEW q
    PROVE  /\ IsFiniteSet(On(H, q))
           /\ Cardinality(On(H, q)) \in Nat
           /\ Cardinality(On(H, q)) < RefCounts
           /\ Cardinality(On(H, q)) = 0 <=> On(H, q) = {}
  <1>1. On(H, q) \subseteq Handles  BY DEF On
  <1>2. IsFiniteSet(Handles) /\ Cardinality(Handles) < RefCounts /\ RefCounts \in Nat
    BY ResourceAssumption
  <1>3. IsFiniteSet(On(H, q)) /\ Cardinality(On(H, q)) <= Cardinality(Handles)
    BY <1>1, <1>2, FS_Subset
  <1>4. Cardinality(On(H, q)) \in Nat /\ Cardinality(Handles) \in Nat
    BY <1>2, <1>3, FS_CardinalityType
  <1>5. Cardinality(On(H, q)) = 0 <=> On(H, q) = {}
    BY <1>3, FS_EmptySet
  <1> QED  BY <1>2, <1>3, <1>4, <1>5

\* A handle that is set to r is one more of r's, and one less of those it was.
LEMMA SetHandle ==
    ASSUME NEW H \in Assignments, NEW h \in Handles,
           NEW r \in Resources \cup {Null}, NEW q
    PROVE  /\ [H EXCEPT ![h] = r] \in Assignments
           /\ Cardinality(On([H EXCEPT ![h] = r], q))
                = Cardinality(On(H, q)) + One(r, q) - One(H[h], q)
  <1> DEFINE H1 == [H EXCEPT ![h] = r]
  <1>1. H1 \in Assignments  BY DEF Assignments
  <1>2. IsFiniteSet(On(H, q)) /\ Cardinality(On(H, q)) \in Nat  BY OnIsFinite
  <1>3. CASE r = q /\ H[h] = q
    <2>1. On(H1, q) = On(H, q)  BY <1>3 DEF On, Assignments
    <2> QED  BY <1>1, <1>2, <1>3, <2>1 DEF One
  <1>4. CASE r = q /\ H[h] # q
    <2>1. On(H1, q) = On(H, q) \cup {h}  BY <1>4 DEF On, Assignments
    <2>2. h \notin On(H, q)  BY <1>4 DEF On
    <2>3. Cardinality(On(H1, q)) = Cardinality(On(H, q)) + 1
      BY <1>2, <2>1, <2>2, FS_AddElement
    <2> QED  BY <1>1, <1>2, <1>4, <2>3 DEF One
  <1>5. CASE r # q /\ H[h] = q
    <2>1. On(H1, q) = On(H, q) \ {h}  BY <1>5 DEF On, Assignments
    <2>2. h \in On(H, q)  BY <1>5 DEF On
    <2>3. Cardinality(On(H1, q)) = Cardinality(On(H, q)) - 1
      BY <1>2, <2>1, <2>2, FS_RemoveElement
    <2> QED  BY <1>1, <1>2, <1>5, <2>3 DEF One
  <1>6. CASE r # q /\ H[h] # q
    <2>1. On(H1, q) = On(H, q)  BY <1>6 DEF On, Assignments
    <2> QED  BY <1>1, <1>2, <1>6, <2>1 DEF One
  <1> QED  BY <1>3, <1>4, <1>5, <1>6

----------------------------------------------------------------------------
\* What the raw pointers rely on: an existing context's domain still has a handle,
\* what the context's loader holds the domain's has imported, and a context that
\* does not exist holds nothing.
ContextsInv ==
    \A c \in Contexts :
        /\ c \notin alive => held[c] = {}
        /\ c \in alive => /\ refs[dmOf[c]] >= 1
                          /\ \A p \in held[c] : imported[dmOf[c]] = p[1]

IInv ==
    /\ TypeOK
    /\ CountsMatchHandles
    /\ HandlesAreValid
    /\ DeletedOnce
    /\ ContextsInv

\* What has a handle has a count, exists, and is not about to be deleted.
LEMMA HandledIsCounted ==
    ASSUME TypeOK, CountsMatchHandles, HandlesAreValid, DeletedOnce,
           NEW h \in Handles, handle[h] # Null
    PROVE  /\ handle[h] \in Resources
           /\ handle[h] \in alive
           /\ refs[handle[h]] \in Nat
           /\ refs[handle[h]] >= 1
           /\ refs[handle[h]] < RefCounts
           /\ \A t \in Threads : pending[t].old = 1 => pending[t].res # handle[h]
  <1> DEFINE r == handle[h]
  <1>1. r \in Resources  BY DEF TypeOK
  <1>2. r \in alive  BY DEF HandlesAreValid
  <1>3. h \in HandlesOf(r) /\ HandlesOf(r) = On(handle, r)  BY DEF HandlesOf, On
  <1>4. refs[r] = Cardinality(On(handle, r))  BY <1>1, <1>3 DEF CountsMatchHandles
  <1>5. Cardinality(On(handle, r)) \in Nat /\ Cardinality(On(handle, r)) < RefCounts
        /\ Cardinality(On(handle, r)) # 0
    BY <1>3, OnIsFinite
  <1>6. \A t \in Threads : pending[t].old = 1 => pending[t].res # r
    BY <1>3 DEF DeletedOnce
  <1> QED  BY <1>1, <1>2, <1>4, <1>5, <1>6

\* ... and what has a count has a handle.
LEMMA CountedIsHandled ==
    ASSUME TypeOK, CountsMatchHandles, NEW r \in Resources, refs[r] >= 1
    PROVE  \E h \in Handles : handle[h] = r
  <1>1. HandlesOf(r) = On(handle, r)  BY DEF HandlesOf, On
  <1>2. refs[r] = Cardinality(On(handle, r))  BY <1>1 DEF CountsMatchHandles
  <1>3. Cardinality(On(handle, r)) # 0  BY <1>2
  <1>4. On(handle, r) # {}  BY <1>3, OnIsFinite
  <1> QED  BY <1>4 DEF On

----------------------------------------------------------------------------
\* Counts, by what a step does to the handles.

\* One more handle of r, which was for nothing, and the count goes up.
LEMMA TakingCounts ==
    ASSUME TypeOK, CountsMatchHandles,
           NEW h \in Handles, NEW r \in Resources,
           handle[h] = Null,
           refs' = Added(r),
           handle' = [handle EXCEPT ![h] = r]
    PROVE  /\ CountsMatchHandles'
           /\ refs' \in [Resources -> 0 .. RefCounts - 1]
           /\ handle' \in [Handles -> Resources \cup {Null}]
           /\ \A q \in Resources : refs'[q] >= refs[q]
  <1>1. handle \in Assignments  BY DEF TypeOK, Assignments
  <1>2. handle' \in Assignments  BY <1>1, SetHandle
  <1> DEFINE H1 == [handle EXCEPT ![h] = r]
  <1>a. \A q \in Resources :
            Cardinality(On(H1, q)) = Cardinality(On(handle, q)) + One(r, q) - One(handle[h], q)
    <2>1. h \in Handles /\ r \in Resources \cup {Null}  OBVIOUS
    <2> QED  BY ONLY <1>1, <2>1, SetHandle
  <1>b. handle' = H1  OBVIOUS
  <1> HIDE DEF H1
  <1>3. \A q \in Resources :
            Cardinality(On(handle', q)) = Cardinality(On(handle, q)) + One(r, q)
    <2> TAKE q \in Resources
    <2>1. Cardinality(On(handle', q)) = Cardinality(On(handle, q)) + One(r, q) - One(Null, q)
      BY <1>a, <1>b
    <2>2. One(Null, q) = 0  BY ResourceAssumption DEF One
    <2>3. Cardinality(On(handle, q)) \in Nat  BY OnIsFinite
    <2> QED  BY <2>1, <2>2, <2>3 DEF One
  <1>4. \A q \in Resources : refs[q] = Cardinality(On(handle, q))
    BY DEF CountsMatchHandles, HandlesOf, On
  <1>5. \A q \in Resources : /\ refs[q] \in Nat
                             /\ refs[q] + One(r, q) \in Nat
                             /\ refs[q] + One(r, q) < RefCounts
    BY <1>3, <1>4, OnIsFinite
  <1>6. (refs[r] + 1) % RefCounts = refs[r] + 1
    BY <1>5, BelowWidth, ResourceAssumption DEF One
  <1>7. \A q \in Resources : refs'[q] = refs[q] + One(r, q)
    BY <1>5, <1>6 DEF Added, TypeOK, One
  <1>8. CountsMatchHandles'  BY <1>3, <1>4, <1>7 DEF CountsMatchHandles, HandlesOf, On
  <1>9. refs' \in [Resources -> 0 .. RefCounts - 1]
    <2>1. \A q \in Resources : refs'[q] \in 0 .. RefCounts - 1
      BY <1>5, <1>7, ResourceAssumption
    <2>2. refs' = [q \in Resources |-> refs'[q]]  BY DEF Added, TypeOK
    <2> QED  BY <2>1, <2>2
  <1>10. \A q \in Resources : refs'[q] >= refs[q]  BY <1>5, <1>7 DEF One
  <1> QED  BY <1>2, <1>8, <1>9, <1>10 DEF Assignments

\* The first handle of what did not exist.
LEMMA CreatingCounts ==
    ASSUME TypeOK, CountsMatchHandles, HandlesAreValid,
           NEW h \in Handles, NEW r \in Resources, Created(r, h)
    PROVE  /\ CountsMatchHandles'
           /\ refs' \in [Resources -> 0 .. RefCounts - 1]
           /\ handle' \in [Handles -> Resources \cup {Null}]
           /\ \A q \in Resources : refs'[q] >= refs[q]
  <1>1. \A k \in Handles : handle[k] # r
    BY ResourceAssumption DEF Created, HandlesAreValid
  <1>2. On(handle, r) = {} /\ HandlesOf(r) = On(handle, r)  BY <1>1 DEF On, HandlesOf
  <1>3. refs[r] = 0  BY <1>2, OnIsFinite DEF CountsMatchHandles
  <1>4. On([handle EXCEPT ![h] = r], r) = {h}  BY <1>1 DEF On, TypeOK
  <1>5. Cardinality({h}) < RefCounts /\ Cardinality({h}) = 1
    BY <1>4, OnIsFinite, FS_Singleton
  <1>6. (refs[r] + 1) % RefCounts = 1  BY <1>3, <1>5, BelowWidth, ResourceAssumption
  <1>7. refs' = Added(r)  BY <1>6 DEF Created, Added
  <1> QED  BY <1>7, TakingCounts DEF Created

\* One handle less of what h was for, if anything, and the count goes down.
LEMMA DroppingCounts ==
    ASSUME TypeOK, CountsMatchHandles, HandlesAreValid, DeletedOnce,
           NEW t \in Threads, NEW h \in Handles,
           Drop(t, handle[h]),
           handle' \in Assignments,
           \A q \in Resources :
                Cardinality(On(handle', q)) = Cardinality(On(handle, q)) - One(handle[h], q)
    PROVE  /\ CountsMatchHandles'
           /\ refs' \in [Resources -> 0 .. RefCounts - 1]
           /\ \A q \in Resources : refs'[q] = refs[q] - One(handle[h], q)
  <1> DEFINE r == handle[h]
  <1>1. \A q \in Resources : refs[q] = Cardinality(On(handle, q)) /\ refs[q] \in Nat
    <2>1. \A q \in Resources : refs[q] = Cardinality(On(handle, q))
      BY DEF CountsMatchHandles, HandlesOf, On
    <2> QED  BY <2>1, OnIsFinite
  <1>2. /\ refs' \in [Resources -> 0 .. RefCounts - 1]
        /\ \A q \in Resources : refs'[q] = refs[q] - One(r, q)
    <2>1. CASE r = Null
      <3>1. refs' = refs  BY <2>1 DEF Drop
      <3>2. \A q \in Resources : One(r, q) = 0  BY <2>1, ResourceAssumption DEF One
      <3> QED  BY <1>1, <3>1, <3>2 DEF TypeOK
    <2>2. CASE r # Null
      <3>1. r \in Resources /\ refs[r] \in Nat /\ refs[r] >= 1 /\ refs[r] < RefCounts
        BY <2>2, HandledIsCounted
      <3>2. (refs[r] + RefCounts - 1) % RefCounts = refs[r] - 1
        BY <3>1, WrapsOnce, ResourceAssumption
      <3>3. refs' = [refs EXCEPT ![r] = (@ + RefCounts - 1) % RefCounts]
        BY <2>2 DEF Drop, Dropped
      <3>4. refs' = [refs EXCEPT ![r] = refs[r] - 1]  BY <3>2, <3>3
      <3>5. refs[r] - 1 \in 0 .. RefCounts - 1  BY <3>1, ResourceAssumption
      <3>6. refs' \in [Resources -> 0 .. RefCounts - 1]  BY <3>4, <3>5 DEF TypeOK
      <3>7. \A q \in Resources : refs'[q] = refs[q] - One(r, q)
        BY <1>1, <3>1, <3>4 DEF TypeOK, One
      <3> QED  BY <3>6, <3>7
    <2> QED  BY <2>1, <2>2
  <1>3. CountsMatchHandles'  BY <1>1, <1>2 DEF CountsMatchHandles, HandlesOf, On
  <1> QED  BY <1>2, <1>3

\* A move leaves what the target was for with one handle less, and nothing else.
LEMMA MovingCounts ==
    ASSUME TypeOK, NEW from \in Handles, NEW to \in Handles, from # to,
           handle' = [handle EXCEPT ![to] = handle[from], ![from] = Null]
    PROVE  /\ handle' \in Assignments
           /\ \A q \in Resources :
                Cardinality(On(handle', q)) = Cardinality(On(handle, q)) - One(handle[to], q)
  <1> DEFINE H1 == [handle EXCEPT ![to] = handle[from]]
             H2 == [H1 EXCEPT ![from] = Null]
  <1>1. handle \in Assignments /\ handle[from] \in Resources \cup {Null}
    BY DEF TypeOK, Assignments
  <1>2. handle' = H2  BY <1>1 DEF Assignments
  <1>3. H1[from] = handle[from]  BY <1>1 DEF Assignments
  <1>4. H1 \in Assignments /\ \A q \in Resources :
            Cardinality(On(H1, q)) = Cardinality(On(handle, q))
                                       + One(handle[from], q) - One(handle[to], q)
    BY <1>1, SetHandle
  <1> HIDE DEF H1
  <1>5. H2 \in Assignments /\ \A q \in Resources :
            Cardinality(On(H2, q)) = Cardinality(On(H1, q)) + One(Null, q) - One(H1[from], q)
    <2>1. H1 \in Assignments  BY <1>4
    <2>2. Null \in Resources \cup {Null}  OBVIOUS
    <2> QED  BY <2>1, <2>2, SetHandle
  <1>6. \A q \in Resources : One(Null, q) = 0  BY ResourceAssumption DEF One
  <1> HIDE DEF H2
  <1>7. \A q \in Resources :
            Cardinality(On(H2, q)) = Cardinality(On(handle, q)) - One(handle[to], q)
    <2> TAKE q \in Resources
    <2>1. Cardinality(On(handle, q)) \in Nat  BY OnIsFinite
    <2> QED  BY <1>3, <1>4, <1>5, <1>6, <2>1 DEF One
  <1> QED  BY <1>2, <1>5, <1>7

----------------------------------------------------------------------------
\* Steps, by what they do to the handles.

\* A handle is set to what exists and is not about to be deleted.
LEMMA TakingKeeps ==
    ASSUME IInv,
           NEW h \in Handles, NEW r \in Resources,
           handle' = [handle EXCEPT ![h] = r],
           pending' = pending,
           alive \subseteq alive', r \in alive',
           \A u \in Threads : pending[u].old = 1 => pending[u].res # r
    PROVE  HandlesAreValid' /\ DeletedOnce'
  <1>1. handle \in [Handles -> Resources \cup {Null}]  BY DEF IInv, TypeOK
  <1>2. \A k \in Handles : handle'[k] = IF k = h THEN r ELSE handle[k]  BY <1>1
  <1>3. HandlesAreValid'  BY <1>2 DEF IInv, HandlesAreValid
  <1>4. DeletedOnce'
    <2> SUFFICES ASSUME NEW u \in Threads, pending[u].old = 1
                 PROVE  /\ pending[u].res \in alive'
                        /\ HandlesOf(pending[u].res)' = {}
                        /\ \A v \in Threads : pending[v] = pending[u] => v = u
      BY DEF DeletedOnce, HandlesOf
    <2>1. /\ pending[u].res \in alive
          /\ HandlesOf(pending[u].res) = {}
          /\ \A v \in Threads : pending[v] = pending[u] => v = u
      BY DEF IInv, DeletedOnce
    <2>2. pending[u].res # r  OBVIOUS
    <2>3. \A k \in Handles : handle'[k] # pending[u].res
      BY <1>2, <2>1, <2>2 DEF HandlesOf
    <2>4. HandlesOf(pending[u].res)' = {}  BY <2>3 DEF HandlesOf
    <2> QED  BY <2>1, <2>4
  <1> QED  BY <1>3, <1>4

\* No handle is for what none was for before.
LEMMA DroppingKeeps ==
    ASSUME IInv, "domainOutlives" \in Discipline,
           NEW t \in Threads, NEW h \in Handles,
           Idle(t),
           Drop(t, handle[h]),
           handle' \in Assignments,
           \A q \in Resources :
                Cardinality(On(handle', q)) = Cardinality(On(handle, q)) - One(handle[h], q),
           \A k \in Handles : handle'[k] = Null \/ \E j \in Handles : handle[j] = handle'[k],
           alive' = alive,
           UNCHANGED worldVars
    PROVE  IInv'
  <1> DEFINE r == handle[h]
  <1>1. TypeOK /\ CountsMatchHandles /\ HandlesAreValid /\ DeletedOnce /\ ContextsInv
    BY DEF IInv
  <1>2. /\ CountsMatchHandles'
        /\ refs' \in [Resources -> 0 .. RefCounts - 1]
        /\ \A q \in Resources : refs'[q] = refs[q] - One(r, q)
    BY <1>1, DroppingCounts
  <1>3. r # Null => /\ r \in Resources /\ r \in alive
                    /\ refs[r] \in Nat /\ refs[r] >= 1 /\ refs[r] < RefCounts
                    /\ \A u \in Threads : pending[u].old = 1 => pending[u].res # r
    BY <1>1, HandledIsCounted
  <1>4. \A u \in Threads : pending'[u] = IF r # Null /\ u = t THEN [res |-> r, old |-> refs[r]]
                                                              ELSE pending[u]
    BY <1>1 DEF Drop, TypeOK
  <1>5. TypeOK'
    <2>1. pending' \in [Threads -> [res : Resources \cup {Null}, old : 0 .. RefCounts - 1]]
      <3>1. CASE r = Null  BY <1>1, <3>1 DEF Drop, TypeOK
      <3>2. CASE r # Null
        <4>1. [res |-> r, old |-> refs[r]] \in [res : Resources \cup {Null}, old : 0 .. RefCounts - 1]
          BY <1>3, <3>2, ResourceAssumption
        <4>2. pending' = [pending EXCEPT ![t] = [res |-> r, old |-> refs[r]]]
          BY <3>2 DEF Drop
        <4> QED  BY <1>1, <4>1, <4>2 DEF TypeOK
      <3> QED  BY <3>1, <3>2
    <2>2. handle' \in [Handles -> Resources \cup {Null}]  BY DEF Assignments
    <2> QED  BY <1>1, <1>2, <2>1, <2>2 DEF TypeOK, worldVars
  <1>6. HandlesAreValid'  BY <1>1 DEF HandlesAreValid
  <1>7. DeletedOnce'
    <2> SUFFICES ASSUME NEW u \in Threads, pending'[u].old = 1
                 PROVE  /\ pending'[u].res \in alive
                        /\ HandlesOf(pending[u].res)' = {}
                        /\ \A v \in Threads : pending'[v] = pending'[u] => v = u
      BY DEF DeletedOnce, HandlesOf
    <2>1. CASE r # Null /\ u = t
      <3>1. pending'[u].res = r /\ refs[r] = 1  BY <1>4, <2>1
      <3>2. refs'[r] = 0  BY <1>2, <1>3, <2>1, <3>1 DEF One
      <3>3. On(handle', r) = {}
        <4>1. refs'[r] = Cardinality(On(handle', r))
          BY <1>2, <1>3, <2>1 DEF CountsMatchHandles, HandlesOf, On
        <4> QED  BY <3>2, <4>1, OnIsFinite
      <3>4. HandlesOf(pending[u].res)' = {}  BY <3>1, <3>3 DEF HandlesOf, On
      <3>5. \A v \in Threads : pending'[v] = pending'[u] => v = u
        <4> SUFFICES ASSUME NEW v \in Threads, v # t, pending'[v] = pending'[u]  PROVE FALSE
          BY <2>1
        <4>1. pending[v].old = 1 /\ pending[v].res = r  BY <1>4, <2>1, <3>1
        <4> QED  BY <1>3, <2>1, <4>1
      <3> QED  BY <1>3, <2>1, <3>1, <3>4, <3>5
    <2>2. CASE ~(r # Null /\ u = t)
      <3>1. pending'[u] = pending[u]  BY <1>4, <2>2
      <3>2. /\ pending[u].res \in alive
            /\ HandlesOf(pending[u].res) = {}
            /\ \A v \in Threads : pending[v] = pending[u] => v = u
        BY <1>1, <3>1 DEF DeletedOnce
      <3>3. \A k \in Handles : handle'[k] # pending[u].res
        <4>1. pending[u].res # Null
          BY <1>1, <3>2, ResourceAssumption DEF TypeOK
        <4> QED  BY <3>2, <4>1 DEF HandlesOf
      <3>4. HandlesOf(pending[u].res)' = {}  BY <3>1, <3>3 DEF HandlesOf
      <3>5. \A v \in Threads : pending'[v] = pending'[u] => v = u
        <4> SUFFICES ASSUME NEW v \in Threads, pending'[v] = pending'[u]  PROVE v = u
          OBVIOUS
        <4>1. CASE r # Null /\ v = t
          <5>1. pending'[v].res = r  BY <1>4, <4>1
          <5>2. pending[u].res = r  BY <3>1, <5>1
          <5> QED  BY <1>3, <3>1, <4>1, <5>2
        <4>2. CASE ~(r # Null /\ v = t)  BY <1>4, <3>1, <3>2, <4>2
        <4> QED  BY <4>1, <4>2
      <3> QED  BY <3>1, <3>2, <3>4, <3>5
    <2> QED  BY <2>1, <2>2
  <1>8. ContextsInv'
    <2> SUFFICES ASSUME NEW c \in Contexts
                 PROVE  /\ c \notin alive => held[c] = {}
                        /\ c \in alive => /\ refs'[dmOf[c]] >= 1
                                          /\ \A p \in held[c] : imported[dmOf[c]] = p[1]
      BY DEF ContextsInv, worldVars
    <2>1. CASE c \notin alive  BY <1>1, <2>1 DEF ContextsInv
    <2>2. CASE c \in alive
      <3>1. refs[dmOf[c]] >= 1 /\ \A p \in held[c] : imported[dmOf[c]] = p[1]
        BY <1>1, <2>2 DEF ContextsInv
      <3>2. dmOf[c] \in Domains /\ dmOf[c] \in Resources
        BY <1>1, <2>2 DEF TypeOK, Resources
      <3>3. refs[dmOf[c]] \in Nat  BY <1>1, <3>2 DEF TypeOK
      <3>4. refs'[dmOf[c]] = refs[dmOf[c]] - One(r, dmOf[c])  BY <1>2, <3>2
      <3>5. r = dmOf[c] => refs[dmOf[c]] # 1
        BY <2>2, <3>2, ResourceAssumption DEF Drop, MayDrop
      <3>6. refs'[dmOf[c]] >= 1  BY <3>1, <3>3, <3>4, <3>5 DEF One
      <3> QED  BY <2>2, <3>1, <3>6
    <2> QED  BY <2>1, <2>2
  <1> QED  BY <1>2, <1>5, <1>6, <1>7, <1>8 DEF IInv

----------------------------------------------------------------------------
\* One lemma for each kind of action.

\* A resource is created, with its first handle: what keeps the counts and the
\* releases under way.
LEMMA CreatingKeeps ==
    ASSUME IInv, NEW h \in Handles, NEW r \in Resources,
           Created(r, h), pending' = pending
    PROVE  /\ CountsMatchHandles' /\ HandlesAreValid' /\ DeletedOnce'
           /\ alive' = alive \cup {r} /\ r \notin alive
           /\ refs' \in [Resources -> 0 .. RefCounts - 1]
           /\ handle' \in [Handles -> Resources \cup {Null}]
           /\ \A q \in Resources : refs'[q] >= refs[q] /\ refs[q] \in Nat
           /\ refs'[r] = 1
  <1>1. /\ CountsMatchHandles'
        /\ refs' \in [Resources -> 0 .. RefCounts - 1]
        /\ handle' \in [Handles -> Resources \cup {Null}]
        /\ \A q \in Resources : refs'[q] >= refs[q]
    BY CreatingCounts DEF IInv
  <1>2. \A u \in Threads : pending[u].old = 1 => pending[u].res # r
    BY DEF IInv, DeletedOnce, Created
  <1>3. HandlesAreValid' /\ DeletedOnce'
    <2>1. /\ handle' = [handle EXCEPT ![h] = r]
          /\ alive \subseteq alive' /\ r \in alive'
      BY DEF Created
    <2> QED  BY <1>2, <2>1, TakingKeeps
  <1>4. \A q \in Resources : refs[q] \in Nat  BY DEF IInv, TypeOK
  <1> QED  BY <1>1, <1>3, <1>4 DEF Created, IInv, TypeOK

LEMMA CreateDomainKeeps ==
    ASSUME IInv, NEW t \in Threads, NEW h \in Handles, NEW d \in Domains,
           CreateDomain(t, h, d)
    PROVE  IInv'
  <1>1. d \in Resources /\ d \notin Contexts  BY ResourceAssumption DEF Resources
  <1>2. Created(d, h) /\ pending' = pending /\ UNCHANGED worldVars
    BY DEF CreateDomain
  <1>3. /\ CountsMatchHandles' /\ HandlesAreValid' /\ DeletedOnce'
        /\ alive' = alive \cup {d}
        /\ refs' \in [Resources -> 0 .. RefCounts - 1]
        /\ handle' \in [Handles -> Resources \cup {Null}]
        /\ \A q \in Resources : refs'[q] >= refs[q] /\ refs[q] \in Nat
    BY <1>1, <1>2, CreatingKeeps
  <1>4. TypeOK'  BY <1>1, <1>2, <1>3 DEF IInv, TypeOK, worldVars
  <1>5. ContextsInv'
    <2>1. \A c \in Contexts \cap alive : dmOf[c] \in Resources
      BY DEF IInv, TypeOK, Resources
    <2>2. \A c \in Contexts \cap alive : refs'[dmOf[c]] >= 1
      <3> TAKE c \in Contexts \cap alive
      <3>1. refs[dmOf[c]] >= 1  BY DEF IInv, ContextsInv
      <3>2. refs'[dmOf[c]] \in Nat  BY <1>3, <2>1
      <3> QED  BY <1>3, <2>1, <3>1, <3>2
    <2> QED  BY <1>1, <1>2, <1>3, <2>2 DEF IInv, ContextsInv, worldVars
  <1> QED  BY <1>3, <1>4, <1>5 DEF IInv

LEMMA CreateParcelDefKeeps ==
    ASSUME IInv, NEW t \in Threads, NEW h \in Handles, NEW f \in Defs,
           CreateParcelDef(t, h, f)
    PROVE  IInv'
  <1>1. f \in Resources /\ f \notin Contexts  BY ResourceAssumption DEF Resources
  <1>2. Created(f, h) /\ pending' = pending /\ UNCHANGED worldVars
    BY DEF CreateParcelDef
  <1>3. /\ CountsMatchHandles' /\ HandlesAreValid' /\ DeletedOnce'
        /\ alive' = alive \cup {f}
        /\ refs' \in [Resources -> 0 .. RefCounts - 1]
        /\ handle' \in [Handles -> Resources \cup {Null}]
        /\ \A q \in Resources : refs'[q] >= refs[q] /\ refs[q] \in Nat
    BY <1>1, <1>2, CreatingKeeps
  <1>4. TypeOK'  BY <1>1, <1>2, <1>3 DEF IInv, TypeOK, worldVars
  <1>5. ContextsInv'
    <2>1. \A c \in Contexts \cap alive : dmOf[c] \in Resources
      BY DEF IInv, TypeOK, Resources
    <2>2. \A c \in Contexts \cap alive : refs'[dmOf[c]] >= 1
      <3> TAKE c \in Contexts \cap alive
      <3>1. refs[dmOf[c]] >= 1  BY DEF IInv, ContextsInv
      <3>2. refs'[dmOf[c]] \in Nat  BY <1>3, <2>1
      <3> QED  BY <1>3, <2>1, <3>1, <3>2
    <2> QED  BY <1>1, <1>2, <1>3, <2>2 DEF IInv, ContextsInv, worldVars
  <1> QED  BY <1>3, <1>4, <1>5 DEF IInv

\* The new context's domain is the one a handle of the thread is for.
LEMMA CreateContextKeeps ==
    ASSUME IInv, NEW t \in Threads, NEW h \in Handles, NEW c \in Contexts, NEW via \in Handles,
           CreateContext(t, h, c, via)
    PROVE  IInv'
  <1> DEFINE d == handle[via]
  <1>1. c \in Resources /\ d \in Domains /\ d # Null /\ d \in Resources
    BY ResourceAssumption DEF Resources, CreateContext
  <1>2. /\ Created(c, h) /\ pending' = pending
        /\ dmOf' = [dmOf EXCEPT ![c] = d]
        /\ UNCHANGED <<bound, imported, held>>
    BY DEF CreateContext
  <1>3. /\ CountsMatchHandles' /\ HandlesAreValid' /\ DeletedOnce'
        /\ alive' = alive \cup {c} /\ c \notin alive
        /\ refs' \in [Resources -> 0 .. RefCounts - 1]
        /\ handle' \in [Handles -> Resources \cup {Null}]
        /\ \A q \in Resources : refs'[q] >= refs[q] /\ refs[q] \in Nat
    BY <1>1, <1>2, CreatingKeeps
  <1>4. \A e \in Contexts : dmOf'[e] = IF e = c THEN d ELSE dmOf[e]
    BY <1>2 DEF IInv, TypeOK
  <1>5. TypeOK'
    <2>1. dmOf' \in [Contexts -> Domains \cup {Null}]  BY <1>1, <1>2 DEF IInv, TypeOK
    <2>2. \A e \in Contexts : e \in alive' <=> dmOf'[e] # Null
      BY <1>1, <1>3, <1>4 DEF IInv, TypeOK
    <2> QED  BY <1>1, <1>2, <1>3, <2>1, <2>2 DEF IInv, TypeOK
  <1>6. refs[d] >= 1  BY <1>1, HandledIsCounted DEF IInv
  <1>7. ContextsInv'
    <2> SUFFICES ASSUME NEW e \in Contexts
                 PROVE  /\ e \notin alive' => held[e] = {}
                        /\ e \in alive' => /\ refs'[dmOf'[e]] >= 1
                                           /\ \A p \in held[e] : imported[dmOf'[e]] = p[1]
      BY <1>2 DEF ContextsInv
    <2>1. CASE e = c
      <3>1. held[c] = {}  BY <1>3 DEF IInv, ContextsInv
      <3>2. refs'[d] >= 1
        <4>1. refs'[d] \in Nat  BY <1>1, <1>3
        <4> QED  BY <1>1, <1>3, <1>6, <4>1
      <3> QED  BY <1>4, <2>1, <3>1, <3>2
    <2>2. CASE e # c
      <3>1. dmOf'[e] = dmOf[e] /\ (e \in alive' <=> e \in alive)  BY <1>3, <1>4, <2>2
      <3>2. /\ e \notin alive => held[e] = {}
            /\ e \in alive => refs[dmOf[e]] >= 1 /\ \A p \in held[e] : imported[dmOf[e]] = p[1]
        BY DEF IInv, ContextsInv
      <3>3. e \in alive => refs'[dmOf[e]] >= 1
        <4> HAVE e \in alive
        <4>1. dmOf[e] \in Resources  BY DEF IInv, TypeOK, Resources
        <4>2. refs'[dmOf[e]] \in Nat  BY <1>3, <4>1
        <4> QED  BY <1>3, <3>2, <4>1, <4>2
      <3> QED  BY <3>1, <3>2, <3>3
    <2> QED  BY <2>1, <2>2
  <1> QED  BY <1>3, <1>5, <1>7 DEF IInv

\* A handle is taken of what has one.
LEMMA SharingKeeps ==
    ASSUME IInv, NEW h \in Handles, NEW r \in Resources, NEW from \in Handles,
           handle[from] = r, handle[h] = Null,
           refs' = Added(r),
           handle' = [handle EXCEPT ![h] = r],
           UNCHANGED <<alive, pending, worldVars>>
    PROVE  IInv'
  <1>1. r # Null  BY ResourceAssumption
  <1>2. r \in alive /\ \A u \in Threads : pending[u].old = 1 => pending[u].res # r
    BY <1>1, HandledIsCounted DEF IInv
  <1>3. /\ CountsMatchHandles'
        /\ refs' \in [Resources -> 0 .. RefCounts - 1]
        /\ handle' \in [Handles -> Resources \cup {Null}]
        /\ \A q \in Resources : refs'[q] >= refs[q]
    BY TakingCounts DEF IInv
  <1>4. HandlesAreValid' /\ DeletedOnce'  BY <1>2, TakingKeeps
  <1>5. TypeOK'  BY <1>3 DEF IInv, TypeOK, worldVars
  <1>6. ContextsInv'
    <2>1. \A c \in Contexts \cap alive : refs'[dmOf[c]] >= 1
      <3> TAKE c \in Contexts \cap alive
      <3>1. refs[dmOf[c]] >= 1  BY DEF IInv, ContextsInv
      <3>2. dmOf[c] \in Resources  BY DEF IInv, TypeOK, Resources
      <3>3. refs'[dmOf[c]] \in Nat /\ refs[dmOf[c]] \in Nat  BY <1>3, <3>2 DEF IInv, TypeOK
      <3> QED  BY <1>3, <3>1, <3>2, <3>3
    <2> QED  BY <2>1 DEF IInv, ContextsInv, worldVars
  <1> QED  BY <1>3, <1>4, <1>5, <1>6 DEF IInv

LEMMA CopyConstructKeeps ==
    ASSUME IInv, NEW t \in Threads, NEW from \in Handles, NEW to \in Handles,
           CopyConstruct(t, from, to)
    PROVE  IInv'
  <1>1. handle[from] \in Resources  BY DEF CopyConstruct, IInv, TypeOK
  <1> QED  BY <1>1, SharingKeeps DEF CopyConstruct

\* The domain of a context has a handle, as its count says.
LEMMA DomainOfKeeps ==
    ASSUME IInv, NEW t \in Threads, NEW via \in Handles, NEW to \in Handles,
           DomainOf(t, via, to)
    PROVE  IInv'
  <1> DEFINE c == handle[via]
             d == dmOf[c]
  <1>1. c \in Contexts /\ c # Null  BY ResourceAssumption DEF DomainOf, Resources
  <1>2. c \in alive  BY <1>1, HandledIsCounted DEF IInv
  <1>3. d \in Resources /\ refs[d] >= 1
    BY <1>1, <1>2 DEF IInv, TypeOK, ContextsInv, Resources
  <1>4. PICK from \in Handles : handle[from] = d
    BY <1>3, CountedIsHandled DEF IInv
  <1>5. /\ handle[to] = Null /\ refs' = Added(d)
        /\ handle' = [handle EXCEPT ![to] = d]
        /\ UNCHANGED <<alive, pending, worldVars>>
    BY DEF DomainOf
  <1> HIDE DEF d
  <1> QED  BY <1>3, <1>4, <1>5, SharingKeeps

\* What moves into a handle that was for nothing changes no count.
LEMMA MoveConstructKeeps ==
    ASSUME IInv, "domainOutlives" \in Discipline,
           NEW t \in Threads, NEW from \in Handles, NEW to \in Handles,
           MoveConstruct(t, from, to)
    PROVE  IInv'
  <1>1. from # to  BY DEF MoveConstruct
  <1>2. /\ handle' \in Assignments
        /\ \A q \in Resources :
             Cardinality(On(handle', q)) = Cardinality(On(handle, q)) - One(handle[to], q)
    BY <1>1, MovingCounts DEF MoveConstruct, IInv
  <1>3. \A k \in Handles : handle'[k] = Null \/ \E j \in Handles : handle[j] = handle'[k]
    BY DEF MoveConstruct, IInv, TypeOK
  <1>4. Drop(t, handle[to])  BY DEF MoveConstruct, Drop
  <1> QED  BY <1>2, <1>3, <1>4, DroppingKeeps DEF MoveConstruct

\* One handle is given up.
LEMMA ReleasingKeeps ==
    ASSUME IInv, "domainOutlives" \in Discipline,
           NEW t \in Threads, NEW h \in Handles,
           Idle(t), Drop(t, handle[h]),
           handle' = [handle EXCEPT ![h] = Null],
           UNCHANGED <<alive, worldVars>>
    PROVE  IInv'
  <1>1. handle \in Assignments  BY DEF IInv, TypeOK, Assignments
  <1>2. handle' \in Assignments  BY <1>1, SetHandle
  <1> DEFINE H1 == [handle EXCEPT ![h] = Null]
  <1>3. \A q \in Resources :
            Cardinality(On(H1, q)) = Cardinality(On(handle, q)) + One(Null, q) - One(handle[h], q)
    <2>1. h \in Handles /\ Null \in Resources \cup {Null}  OBVIOUS
    <2> QED  BY ONLY <1>1, <2>1, SetHandle
  <1>4. handle' = H1  OBVIOUS
  <1> HIDE DEF H1
  <1>5. \A q \in Resources :
            Cardinality(On(handle', q)) = Cardinality(On(handle, q)) - One(handle[h], q)
    <2> TAKE q \in Resources
    <2>1. One(Null, q) = 0  BY ResourceAssumption DEF One
    <2>2. Cardinality(On(handle, q)) \in Nat  BY OnIsFinite
    <2>3. Cardinality(On(handle', q))
                = Cardinality(On(handle, q)) + One(Null, q) - One(handle[h], q)
      BY <1>3, <1>4
    <2> QED  BY <2>1, <2>2, <2>3 DEF One
  <1>6. \A k \in Handles : handle'[k] = Null \/ \E j \in Handles : handle[j] = handle'[k]
    BY <1>1 DEF Assignments
  <1> QED  BY <1>2, <1>5, <1>6, DroppingKeeps

LEMMA ReleaseKeeps ==
    ASSUME IInv, "domainOutlives" \in Discipline, NEW t \in Threads, NEW h \in Handles,
           Release(t, h)
    PROVE  IInv'
  BY ReleasingKeeps DEF Release

\* Under the discipline nothing is copied over another handle but nothing.
LEMMA CopyAssignKeeps ==
    ASSUME IInv, Disciplined, NEW t \in Threads, NEW from \in Handles, NEW to \in Handles,
           CopyAssign(t, from, to)
    PROVE  IInv'
  <1>1. CASE from = to
    <2>1. UNCHANGED vars  BY <1>1 DEF CopyAssign, vars
    <2> QED  BY <2>1 DEF IInv, TypeOK, CountsMatchHandles, HandlesAreValid, DeletedOnce,
                         ContextsInv, HandlesOf, vars, countVars, worldVars
  <1>2. CASE from # to
    <2>1. handle[from] = Null  BY <1>2 DEF CopyAssign, Disciplined
    <2>2. handle' = [handle EXCEPT ![to] = Null]  BY <1>2, <2>1 DEF CopyAssign
    <2> QED  BY <1>2, <2>2, ReleasingKeeps DEF CopyAssign, Disciplined
  <1> QED  BY <1>1, <1>2

LEMMA MoveAssignKeeps ==
    ASSUME IInv, "domainOutlives" \in Discipline,
           NEW t \in Threads, NEW from \in Handles, NEW to \in Handles,
           MoveAssign(t, from, to)
    PROVE  IInv'
  <1>1. CASE from = to
    <2>1. UNCHANGED vars  BY <1>1 DEF MoveAssign, vars
    <2> QED  BY <2>1 DEF IInv, TypeOK, CountsMatchHandles, HandlesAreValid, DeletedOnce,
                         ContextsInv, HandlesOf, vars, countVars, worldVars
  <1>2. CASE from # to
    <2>1. handle' = [handle EXCEPT ![to] = handle[from], ![from] = Null]
      BY <1>2 DEF MoveAssign
    <2>2. /\ handle' \in Assignments
          /\ \A q \in Resources :
               Cardinality(On(handle', q)) = Cardinality(On(handle, q)) - One(handle[to], q)
      BY <1>2, <2>1, MovingCounts DEF IInv
    <2>3. \A k \in Handles : handle'[k] = Null \/ \E j \in Handles : handle[j] = handle'[k]
      BY <2>1 DEF IInv, TypeOK
    <2> QED  BY <1>2, <2>2, <2>3, DroppingKeeps DEF MoveAssign
  <1> QED  BY <1>1, <1>2

\* The last one out deletes what nobody has a handle of, and no context has for
\* its domain.
LEMMA DeleteKeeps ==
    ASSUME IInv, NEW t \in Threads, Delete(t)
    PROVE  IInv'
  <1> DEFINE r == pending[t].res
  <1>1. TypeOK /\ CountsMatchHandles /\ HandlesAreValid /\ DeletedOnce /\ ContextsInv
    BY DEF IInv
  <1>2. /\ pending' = [pending EXCEPT ![t] = Nothing]
        /\ refs' = refs /\ handle' = handle
    BY DEF Delete
  <1>3. \A u \in Threads : pending'[u] = IF u = t THEN Nothing ELSE pending[u]
    BY <1>1, <1>2 DEF TypeOK
  <1>4. pending' \in [Threads -> [res : Resources \cup {Null}, old : 0 .. RefCounts - 1]]
    <2>1. 0 \in 0 .. RefCounts - 1
      <3>1. pending[t].old \in 0 .. RefCounts - 1  BY <1>1 DEF TypeOK
      <3> QED  BY <3>1, ResourceAssumption
    <2>2. Nothing \in [res : Resources \cup {Null}, old : 0 .. RefCounts - 1]
      BY <2>1 DEF Nothing
    <2> QED  BY <1>1, <1>2, <2>2 DEF TypeOK
  <1>5. CountsMatchHandles'  BY <1>1, <1>2 DEF CountsMatchHandles, HandlesOf
  <1>6. CASE pending[t].old # 1
    <2>1. UNCHANGED <<alive, worldVars>>  BY <1>6 DEF Delete
    <2>2. TypeOK'  BY <1>1, <1>2, <1>4, <2>1 DEF TypeOK, worldVars
    <2>3. HandlesAreValid'  BY <1>1, <1>2, <2>1 DEF HandlesAreValid
    <2>4. DeletedOnce'
      <3> SUFFICES ASSUME NEW u \in Threads, pending'[u].old = 1
                   PROVE  /\ pending'[u].res \in alive
                          /\ {h \in Handles : handle[h] = pending'[u].res} = {}
                          /\ \A v \in Threads : pending'[v] = pending'[u] => v = u
        BY <1>2, <2>1 DEF DeletedOnce, HandlesOf
      <3>1. u # t  BY <1>3 DEF Nothing
      <3>2. \A v \in Threads : pending'[v] = pending'[u] => v # t
        BY <1>3 DEF Nothing
      <3> QED  BY <1>1, <1>3, <3>1, <3>2 DEF DeletedOnce, HandlesOf
    <2>5. ContextsInv'  BY <1>1, <1>2, <2>1 DEF ContextsInv, worldVars
    <2> QED  BY <1>5, <2>2, <2>3, <2>4, <2>5 DEF IInv
  <1>7. CASE pending[t].old = 1
    <2>1. /\ alive' = alive \ {r}
          /\ bound' = [d \in Domains |-> IF d = r THEN Null ELSE bound[d]]
          /\ imported' = [d \in Domains |-> IF d = r THEN Null ELSE imported[d]]
          /\ dmOf' = [c \in Contexts |-> IF c = r THEN Null ELSE dmOf[c]]
          /\ held' = [c \in Contexts |-> IF c = r THEN {} ELSE held[c]]
      BY <1>7 DEF Delete
    <2>2. /\ r \in alive /\ HandlesOf(r) = {}
          /\ \A v \in Threads : pending[v] = pending[t] => v = t
      BY <1>1, <1>7 DEF DeletedOnce
    <2>3. r \in Resources /\ r # Null  BY <1>1, <2>2, ResourceAssumption DEF TypeOK
    <2>4. refs[r] = 0
      <3>1. HandlesOf(r) = On(handle, r)  BY DEF HandlesOf, On
      <3> QED  BY <1>1, <2>2, <2>3, <3>1, OnIsFinite DEF CountsMatchHandles
    <2>5. TypeOK'
      <3>1. \A c \in Contexts : c \in alive' <=> dmOf'[c] # Null
        BY <1>1, <2>1 DEF TypeOK
      <3>2. dmOf' \in [Contexts -> Domains \cup {Null}]  BY <1>1, <2>1 DEF TypeOK
      <3>3. /\ bound' \in [Domains -> Defs \cup {Null}]
            /\ imported' \in [Domains -> Defs \cup {Null}]
        BY <1>1, <2>1 DEF TypeOK
      <3>4. held' \in [Contexts -> SUBSET (Defs \X Parts)]  BY <1>1, <2>1 DEF TypeOK
      <3>5. alive' \subseteq Resources  BY <1>1, <2>1 DEF TypeOK
      <3> QED  BY <1>1, <1>2, <1>4, <3>1, <3>2, <3>3, <3>4, <3>5 DEF TypeOK
    <2>6. HandlesAreValid'
      BY <1>1, <1>2, <2>1, <2>2, <2>3 DEF HandlesAreValid, HandlesOf
    <2>7. DeletedOnce'
      <3> SUFFICES ASSUME NEW u \in Threads, pending'[u].old = 1
                   PROVE  /\ pending'[u].res \in alive \ {r}
                          /\ {h \in Handles : handle[h] = pending'[u].res} = {}
                          /\ \A v \in Threads : pending'[v] = pending'[u] => v = u
        BY <1>2, <2>1 DEF DeletedOnce, HandlesOf
      <3>1. u # t  BY <1>3 DEF Nothing
      <3>2. \A v \in Threads : pending'[v] = pending'[u] => v # t
        BY <1>3 DEF Nothing
      <3>3. pending'[u] = pending[u] /\ pending[u].old = 1  BY <1>3, <3>1
      <3>4. pending[u].res # r
        <4> SUFFICES ASSUME pending[u].res = r  PROVE FALSE  OBVIOUS
        <4>1. pending[u] = pending[t]  BY <1>1, <1>7, <3>3 DEF TypeOK
        <4> QED  BY <2>2, <3>1, <4>1
      <3> QED  BY <1>1, <1>3, <3>2, <3>3, <3>4 DEF DeletedOnce, HandlesOf
    <2>8. ContextsInv'
      <3> SUFFICES ASSUME NEW c \in Contexts
                   PROVE  /\ c \notin alive' => held'[c] = {}
                          /\ c \in alive' => /\ refs[dmOf'[c]] >= 1
                                             /\ \A p \in held'[c] : imported'[dmOf'[c]] = p[1]
        BY <1>2 DEF ContextsInv
      <3>1. CASE c = r  BY <2>1, <3>1
      <3>2. CASE c # r
        <4>1. held'[c] = held[c] /\ dmOf'[c] = dmOf[c] /\ (c \in alive' <=> c \in alive)
          BY <2>1, <3>2
        <4>2. c \in alive => dmOf[c] \in Domains /\ dmOf[c] # r
          BY <1>1, <2>4 DEF TypeOK, ContextsInv
        <4>3. c \in alive => imported'[dmOf[c]] = imported[dmOf[c]]  BY <2>1, <4>2
        <4> QED  BY <1>1, <4>1, <4>3 DEF ContextsInv
      <3> QED  BY <3>1, <3>2
    <2> QED  BY <1>5, <2>5, <2>6, <2>7, <2>8 DEF IInv
  <1> QED  BY <1>6, <1>7

LEMMA BindKeeps ==
    ASSUME IInv, NEW t \in Threads, NEW via \in Handles, NEW f \in Handles, Bind(t, via, f)
    PROVE  IInv'
  <1>1. UNCHANGED <<countVars, dmOf, imported, held>>  BY DEF Bind
  <1>2. bound' \in [Domains -> Defs \cup {Null}]  BY DEF Bind, IInv, TypeOK
  <1> QED
    BY <1>1, <1>2 DEF IInv, TypeOK, CountsMatchHandles, HandlesAreValid, DeletedOnce,
                      ContextsInv, HandlesOf, countVars

\* A domain imports a path once, so what other contexts hold of it stays.
LEMMA LoadKeeps ==
    ASSUME IInv, NEW t \in Threads, NEW via \in Handles, NEW part \in Parts,
           Load(t, via, part)
    PROVE  IInv'
  <1> DEFINE c == handle[via]
             d == dmOf[c]
             f == IF imported[d] = Null THEN bound[d] ELSE imported[d]
  <1>1. c \in Contexts /\ c # Null  BY ResourceAssumption DEF Load, Resources
  <1>2. c \in alive  BY <1>1, HandledIsCounted DEF IInv
  <1>3. d \in Domains  BY <1>1, <1>2 DEF IInv, TypeOK
  <1>4. UNCHANGED <<countVars, dmOf, bound>>  BY DEF Load
  <1>5. CountsMatchHandles' /\ HandlesAreValid' /\ DeletedOnce'
    BY <1>4 DEF IInv, CountsMatchHandles, HandlesAreValid, DeletedOnce, HandlesOf, countVars
  <1>6. CASE f = Null
    <2>1. UNCHANGED <<imported, held>>  BY <1>6 DEF Load
    <2> QED  BY <1>4, <1>5, <2>1 DEF IInv, TypeOK, ContextsInv, countVars
  <1>7. CASE f # Null
    <2>1. /\ imported' = [imported EXCEPT ![d] = f]
          /\ held' = [held EXCEPT ![c] = @ \cup {<<f, part>>}]
      BY <1>7 DEF Load
    <2>2. f \in Defs  BY <1>3, <1>7 DEF IInv, TypeOK
    <2>3. <<f, part>> \in Defs \X Parts  BY <2>2
    <2>4. TypeOK'
      <3>1. imported' \in [Domains -> Defs \cup {Null}]  BY <2>1, <2>2 DEF IInv, TypeOK
      <3>2. held' \in [Contexts -> SUBSET (Defs \X Parts)]
        <4>1. held \in [Contexts -> SUBSET (Defs \X Parts)]  BY DEF IInv, TypeOK
        <4> HIDE DEF c, f
        <4>2. held[c] \cup {<<f, part>>} \in SUBSET (Defs \X Parts)  BY <1>1, <2>3, <4>1
        <4> QED  BY <2>1, <4>1, <4>2
      <3> QED  BY <1>4, <3>1, <3>2 DEF IInv, TypeOK, countVars
    <2>5. \A e \in Domains : imported'[e] = IF e = d THEN f ELSE imported[e]
      BY <2>1 DEF IInv, TypeOK
    <2>6. \A e \in Contexts : held'[e] = IF e = c THEN held[c] \cup {<<f, part>>} ELSE held[e]
      BY <2>1 DEF IInv, TypeOK
    <2>7. ContextsInv'
      <3> SUFFICES ASSUME NEW e \in Contexts
                   PROVE  /\ e \notin alive => held'[e] = {}
                          /\ e \in alive => /\ refs[dmOf[e]] >= 1
                                            /\ \A p \in held'[e] : imported'[dmOf[e]] = p[1]
        BY <1>4 DEF ContextsInv, countVars
      <3>1. /\ e \notin alive => held[e] = {}
            /\ e \in alive => /\ refs[dmOf[e]] >= 1
                              /\ \A p \in held[e] : imported[dmOf[e]] = p[1]
        BY DEF IInv, ContextsInv
      <3>2. e \notin alive => held'[e] = {}  BY <1>2, <2>6, <3>1
      <3>3. ASSUME e \in alive, NEW p \in held'[e]  PROVE imported'[dmOf[e]] = p[1]
        <4>1. dmOf[e] \in Domains  BY <3>3 DEF IInv, TypeOK
        <4>2. CASE p \in held[e]
          <5>1. p[1] \in Defs /\ p[1] # Null
            BY <4>2, ResourceAssumption DEF IInv, TypeOK, Resources
          <5>2. imported[dmOf[e]] = p[1]  BY <3>1, <3>3, <4>2
          <5> QED  BY <2>5, <4>1, <5>1, <5>2
        <4>3. CASE p \notin held[e]
          <5>1. e = c /\ p = <<f, part>>  BY <2>6, <3>3, <4>3
          <5> QED  BY <2>5, <4>1, <5>1
        <4> QED  BY <4>2, <4>3
      <3> QED  BY <3>1, <3>2, <3>3
    <2> QED  BY <1>5, <2>4, <2>7 DEF IInv
  <1> QED  BY <1>6, <1>7

----------------------------------------------------------------------------
LEMMA InitIsOK == Init => IInv
  <1> SUFFICES ASSUME Init  PROVE IInv  OBVIOUS
  <1>1. RefCounts \in Nat /\ 0 \in 0 .. RefCounts - 1
    <2>1. Cardinality(Handles) \in Nat /\ Cardinality(Handles) < RefCounts /\ RefCounts \in Nat
      BY ResourceAssumption, FS_CardinalityType
    <2> QED  BY <2>1
  <1>2. TypeOK
    <2>1. Nothing \in [res : Resources \cup {Null}, old : 0 .. RefCounts - 1]
      BY <1>1 DEF Nothing
    <2> QED  BY <1>1, <2>1 DEF Init, TypeOK
  <1>3. CountsMatchHandles
    <2>1. \A r \in Resources : HandlesOf(r) = {}
      BY ResourceAssumption DEF Init, HandlesOf
    <2> QED  BY <2>1, FS_EmptySet DEF Init, CountsMatchHandles
  <1>4. HandlesAreValid  BY DEF Init, HandlesAreValid
  <1>5. DeletedOnce  BY DEF Init, DeletedOnce, Nothing
  <1>6. ContextsInv  BY DEF Init, ContextsInv
  <1> QED  BY <1>2, <1>3, <1>4, <1>5, <1>6 DEF IInv

LEMMA NextKeeps ==
    ASSUME Disciplined, IInv, [Next]_vars
    PROVE  IInv'
  <1>1. "domainOutlives" \in Discipline  BY DEF Disciplined
  <1>2. CASE UNCHANGED vars
    BY <1>2 DEF IInv, TypeOK, CountsMatchHandles, HandlesAreValid, DeletedOnce,
                ContextsInv, HandlesOf, vars, countVars, worldVars
  <1>3. ASSUME NEW t \in Threads, NEW h \in Handles, NEW d \in Domains, CreateDomain(t, h, d)
        PROVE  IInv'
    BY <1>3, CreateDomainKeeps
  <1>4. ASSUME NEW t \in Threads, NEW h \in Handles, NEW f \in Defs, CreateParcelDef(t, h, f)
        PROVE  IInv'
    BY <1>4, CreateParcelDefKeeps
  <1>5. ASSUME NEW t \in Threads, NEW h \in Handles, NEW c \in Contexts, NEW via \in Handles,
               CreateContext(t, h, c, via)
        PROVE  IInv'
    BY <1>5, CreateContextKeeps
  <1>6. ASSUME NEW t \in Threads, NEW h \in Handles, Release(t, h)  PROVE IInv'
    BY <1>1, <1>6, ReleaseKeeps
  <1>7. ASSUME NEW t \in Threads, NEW h \in Handles, NEW part \in Parts, Load(t, h, part)
        PROVE  IInv'
    BY <1>7, LoadKeeps
  <1>8. ASSUME NEW t \in Threads, NEW from \in Handles, NEW to \in Handles,
               CopyConstruct(t, from, to)
        PROVE  IInv'
    BY <1>8, CopyConstructKeeps
  <1>9. ASSUME NEW t \in Threads, NEW from \in Handles, NEW to \in Handles,
               MoveConstruct(t, from, to)
        PROVE  IInv'
    BY <1>1, <1>9, MoveConstructKeeps
  <1>10. ASSUME NEW t \in Threads, NEW from \in Handles, NEW to \in Handles,
                CopyAssign(t, from, to)
         PROVE  IInv'
    BY <1>10, CopyAssignKeeps
  <1>11. ASSUME NEW t \in Threads, NEW from \in Handles, NEW to \in Handles,
                MoveAssign(t, from, to)
         PROVE  IInv'
    BY <1>1, <1>11, MoveAssignKeeps
  <1>12. ASSUME NEW t \in Threads, NEW from \in Handles, NEW to \in Handles,
                DomainOf(t, from, to)
         PROVE  IInv'
    BY <1>12, DomainOfKeeps
  <1>13. ASSUME NEW t \in Threads, NEW from \in Handles, NEW to \in Handles, Bind(t, from, to)
         PROVE  IInv'
    BY <1>13, BindKeeps
  <1>14. ASSUME NEW t \in Threads, Delete(t)  PROVE IInv'
    BY <1>14, DeleteKeeps
  <1> QED
    BY <1>2, <1>3, <1>4, <1>5, <1>6, <1>7, <1>8, <1>9, <1>10, <1>11, <1>12, <1>13, <1>14
    DEF Next

LEMMA InvHolds ==
    ASSUME Disciplined
    PROVE  Spec => []IInv
  <1>1. Init => IInv  BY InitIsOK
  <1>2. IInv /\ [Next]_vars => IInv'  BY NextKeeps
  <1> QED  BY <1>1, <1>2, PTL DEF Spec

----------------------------------------------------------------------------
\* The state is well-typed, and a context exists exactly as long as it points to a
\* domain.
THEOREM LifetimesStayTyped ==
    ASSUME Disciplined
    PROVE  Spec => []TypeOK
  <1>1. IInv => TypeOK  BY DEF IInv
  <1> QED  BY <1>1, InvHolds, PTL

\* However many threads copy, move, assign and release handles, the count of a
\* resource is the number of its handles at each moment.
THEOREM CountsStayMatched ==
    ASSUME Disciplined
    PROVE  Spec => []CountsMatchHandles
  <1>1. IInv => CountsMatchHandles  BY DEF IInv
  <1> QED  BY <1>1, InvHolds, PTL

\* No handle outlives its resource.
THEOREM HandlesStayValid ==
    ASSUME Disciplined
    PROVE  Spec => []HandlesAreValid
  <1>1. IInv => HandlesAreValid  BY DEF IInv
  <1> QED  BY <1>1, InvHolds, PTL

\* Of the threads that drop the counts of one resource concurrently one is told it
\* was the last, when no handle is left, and finds the resource undeleted.
THEOREM ResourcesAreDeletedOnce ==
    ASSUME Disciplined
    PROVE  Spec => []DeletedOnce
  <1>1. IInv => DeletedOnce  BY DEF IInv
  <1> QED  BY <1>1, InvHolds, PTL

\* What a context reaches through pointers that own nothing is there: its domain,
\* and the parcel of every part its loader holds.
THEOREM ContextsKeepReaching ==
    ASSUME Disciplined
    PROVE  Spec => []ContextsReachWhatLives
  <1>1. IInv => ContextsReachWhatLives
    <2> SUFFICES ASSUME IInv, NEW c \in Contexts \cap alive
                 PROVE  dmOf[c] \in alive /\ \A p \in held[c] : imported[dmOf[c]] = p[1]
      BY DEF ContextsReachWhatLives
    <2>1. refs[dmOf[c]] >= 1 /\ \A p \in held[c] : imported[dmOf[c]] = p[1]
      BY DEF IInv, ContextsInv
    <2>2. dmOf[c] \in Resources  BY DEF IInv, TypeOK, Resources
    <2>3. PICK h \in Handles : handle[h] = dmOf[c]
      BY <2>1, <2>2, CountedIsHandled DEF IInv
    <2>4. dmOf[c] \in alive  BY <2>2, <2>3, ResourceAssumption DEF IInv, HandlesAreValid
    <2> QED  BY <2>1, <2>4
  <1> QED  BY <1>1, InvHolds, PTL
================================================================================
