---------------------------- MODULE OwnershipProofs ----------------------------
(***************************************************************************)
(* Who owns a reference to which object. First of a heap alone: that the   *)
(* cascade of a release comes to an end, and takes exactly the references  *)
(* it is asked to take, whatever objects own each other. Then of a         *)
(* context: that the counts of its objects are those of their owners after *)
(* whatever calls a host makes, if it keeps to the discipline that the     *)
(* comments of yama.h ask for.                                             *)
(***************************************************************************)
EXTENDS ContextProofs, FiniteSetTheorems, WellFoundedInduction

--------------------------------------------------------------------------------
(* Induction, as a least counterexample *)

\* A set of numbers has a least one.
LEMMA LeastNumber ==
  ASSUME NEW T, T \subseteq Nat, T # {}
  PROVE  \E n \in T : \A k \in T : n <= k
  <1>1. OpToRel(<, Nat) = {ss \in Nat \X Nat : ss[1] < ss[2]}
    BY SMT DEF OpToRel
  <1>2. \E n \in T : \A k \in T : ~ (<<k, n>> \in OpToRel(<, Nat))
    BY WFMin, NatLessThanWellFounded
  <1>3. \A n, k \in Nat : k < n => <<k, n>> \in OpToRel(<, Nat)
    BY <1>1, Zenon
  <1>4. \A n, k \in Nat : ~ (k < n) => n <= k
    OBVIOUS
  <1> QED
    BY <1>2, <1>3, <1>4, Zenon

--------------------------------------------------------------------------------
(* How often a function has a value in a set *)

Hits(f, T) == {x \in DOMAIN f : f[x] \in T}

Times(f, T) == Cardinality(Hits(f, T))

Hit(o, T) == IF o \in T THEN 1 ELSE 0

\* It is a number, and 0 if there is no such value.
LEMMA TimesType ==
  ASSUME NEW f, NEW T, IsFiniteSet(DOMAIN f)
  PROVE  /\ IsFiniteSet(Hits(f, T)) /\ Times(f, T) \in Nat
         /\ Times(f, T) = 0 <=> \A x \in DOMAIN f : f[x] \notin T
  <1>1. Hits(f, T) \subseteq DOMAIN f
    BY DEF Hits
  <1>2. IsFiniteSet(Hits(f, T)) /\ Times(f, T) \in Nat
    BY <1>1, FS_Subset, FS_CardinalityType DEF Times
  <1>3. Times(f, T) = 0 <=> Hits(f, T) = {}
    BY <1>2, FS_EmptySet DEF Times
  <1> QED
    BY <1>2, <1>3 DEF Hits

\* One value changes.
LEMMA TimesUpdate ==
  ASSUME NEW f, NEW g, NEW T, IsFiniteSet(DOMAIN f), NEW y \in DOMAIN f,
         DOMAIN g = DOMAIN f, \A x \in DOMAIN f \ {y} : g[x] = f[x]
  PROVE  Times(g, T) = Times(f, T) - Hit(f[y], T) + Hit(g[y], T)
  <1> DEFINE rest == Hits(f, T) \ {y}
  <1>1. IsFiniteSet(Hits(f, T)) /\ Times(f, T) \in Nat
    BY TimesType
  <1>2. IsFiniteSet(rest) /\ Cardinality(rest) = Times(f, T) - Hit(f[y], T)
    <2>1. /\ IsFiniteSet(rest)
          /\ Cardinality(rest) = IF y \in Hits(f, T) THEN Times(f, T) - 1 ELSE Times(f, T)
      BY <1>1, FS_RemoveElement DEF Times
    <2> QED
      BY <1>1, <2>1 DEF Hits, Hit
  <1>3. Hits(g, T) = IF g[y] \in T THEN rest \cup {y} ELSE rest
    BY DEF Hits
  <1>4. Cardinality(rest \cup {y}) = Cardinality(rest) + 1
    BY <1>2, FS_AddElement
  <1> HIDE DEF rest
  <1>5. Times(g, T) = Cardinality(rest) + Hit(g[y], T)
    <2>1. CASE g[y] \in T
      BY <1>3, <1>4, <2>1 DEF Times, Hit
    <2>2. CASE g[y] \notin T
      <3>1. Cardinality(rest) \in Nat
        BY <1>2, FS_CardinalityType
      <3> QED
        BY <1>3, <2>2, <3>1 DEF Times, Hit
    <2> QED
      BY <2>1, <2>2
  <1> QED
    BY <1>1, <1>2, <1>5 DEF Hit

\* A function of two parts.
LEMMA TimesParts ==
  ASSUME NEW f, NEW T, NEW A, NEW B, \A x : x \in DOMAIN f <=> x \in A \/ x \in B,
         \A x \in A : x \notin B, IsFiniteSet(A), IsFiniteSet(B)
  PROVE  Times(f, T) = Cardinality({x \in A : f[x] \in T}) + Cardinality({x \in B : f[x] \in T})
  <1> DEFINE a == {x \in A : f[x] \in T}
             b == {x \in B : f[x] \in T}
  <1>1. IsFiniteSet(a) /\ IsFiniteSet(b)
    <2>1. a \in SUBSET A /\ b \in SUBSET B
      OBVIOUS
    <2> QED
      BY <2>1, FS_Subset
  <1>2. Hits(f, T) = a \cup b /\ a \cap b = {}
    BY DEF Hits
  <1> HIDE DEF a, b
  <1>3. Cardinality(a \cup b) = Cardinality(a) + Cardinality(b) - Cardinality(a \cap b)
    BY <1>1, FS_Union
  <1>4. Cardinality(a) \in Nat /\ Cardinality(b) \in Nat
    BY <1>1, FS_CardinalityType
  <1>5. Cardinality(a \cap b) = 0 /\ Times(f, T) = Cardinality(a \cup b)
    BY <1>2, FS_EmptySet, Zenon DEF Times
  <1>6. Times(f, T) = Cardinality(a) + Cardinality(b)
    BY <1>3, <1>4, <1>5
  <1> QED
    BY <1>6 DEF a, b

\* Renaming what is counted.
LEMMA TimesRenamed ==
  ASSUME NEW A, IsFiniteSet(A), NEW B, NEW r \in [A -> B],
         \A x, y \in A : r[x] = r[y] => x = y, \A z \in B : \E x \in A : r[x] = z
  PROVE  IsFiniteSet(B) /\ Cardinality(B) = Cardinality(A)
  <1>1. r \in Bijection(A, B)
    BY DEF Bijection, Injection, Surjection, IsInjective
  <1>2. ExistsBijection(A, B)
    BY <1>1 DEF ExistsBijection
  <1> QED
    BY <1>2, FS_Bijection

\* A sequence's places are finitely many.
LEMMA PlacesFinite ==
  ASSUME NEW S, NEW s \in Seq(S)
  PROVE  IsFiniteSet(DOMAIN s) /\ Len(s) \in Nat /\ DOMAIN s = 1..Len(s)
  BY FS_Interval

\* Two sequences, one after the other.
LEMMA TimesConcat ==
  ASSUME NEW S, NEW s \in Seq(S), NEW t \in Seq(S), NEW T
  PROVE  Times(s \o t, T) = Times(s, T) + Times(t, T)
  <1> DEFINE n == Len(s)
             st == s \o t
             lower == 1..n
             upper == n + 1 .. n + Len(t)
             a == {i \in lower : st[i] \in T}
             b == {i \in upper : st[i] \in T}
  <1>1. n \in Nat /\ Len(t) \in Nat /\ DOMAIN s = 1..n /\ DOMAIN t = 1..Len(t)
    BY PlacesFinite
  <1>2. /\ st \in Seq(S) /\ \A i : i \in DOMAIN st <=> i \in lower \/ i \in upper
        /\ \A i \in lower : i \notin upper
        /\ \A i \in 1..n : st[i] = s[i]
        /\ \A i \in 1..Len(t) : st[n + i] = t[i]
    BY <1>1
  <1>3. IsFiniteSet(lower) /\ IsFiniteSet(upper) /\ IsFiniteSet(DOMAIN t)
    BY <1>1, FS_Interval
  <1> HIDE DEF n, st, lower, upper
  <1>4. Times(st, T) = Cardinality(a) + Cardinality(b)
    BY <1>2, <1>3, TimesParts
  <1> USE DEF n, st, lower, upper
  <1>5. a = Hits(s, T)
    BY <1>1, <1>2 DEF Hits
  <1>6. IsFiniteSet(Hits(t, T))
    BY <1>3, TimesType
  <1> DEFINE r == [i \in Hits(t, T) |-> n + i]
  <1>7. Hits(t, T) = {i \in 1..Len(t) : t[i] \in T}
    BY <1>1 DEF Hits
  <1>8. r \in [Hits(t, T) -> b]
    <2>1. \A i \in Hits(t, T) : n + i \in b
      BY <1>1, <1>2, <1>7
    <2> QED
      BY <2>1
  <1>9. /\ \A x, y \in Hits(t, T) : r[x] = r[y] => x = y
        /\ \A z \in b : \E x \in Hits(t, T) : r[x] = z
    <2>1. \A x, y \in Hits(t, T) : n + x = n + y => x = y
      BY <1>1, <1>7
    <2>2. \A z \in b : z - n \in Hits(t, T) /\ n + (z - n) = z
      BY <1>1, <1>2, <1>7
    <2> QED
      BY <2>1, <2>2
  <1> HIDE DEF a, b, r
  <1>10. Cardinality(b) = Times(t, T)
    BY <1>6, <1>8, <1>9, TimesRenamed DEF Times
  <1> QED
    BY <1>4, <1>5, <1>10 DEF Times

\* One element.
LEMMA TimesSingle ==
  ASSUME NEW o, NEW T
  PROVE  Times(<<o>>, T) = Hit(o, T)
  <1>1. Hits(<<o>>, T) = IF o \in T THEN {1} ELSE {}
    BY DEF Hits
  <1>2. Cardinality({1}) = 1 /\ Cardinality({}) = 0
    BY FS_Singleton, FS_EmptySet
  <1> QED
    BY <1>1, <1>2 DEF Times, Hit

\* Nothing has no elements.
LEMMA TimesEmpty ==
  ASSUME NEW T
  PROVE  Times(<<>>, T) = 0
  <1>1. Hits(<<>>, T) = {}
    BY DEF Hits
  <1> QED
    BY <1>1, FS_EmptySet DEF Times

\* push.
LEMMA TimesAppend ==
  ASSUME NEW S, NEW s \in Seq(S), NEW o \in S, NEW T
  PROVE  Append(s, o) \in Seq(S) /\ Times(Append(s, o), T) = Times(s, T) + Hit(o, T)
  <1>1. Append(s, o) = s \o <<o>> /\ Append(s, o) \in Seq(S) /\ <<o>> \in Seq(S)
    OBVIOUS
  <1>2. Times(s \o <<o>>, T) = Times(s, T) + Times(<<o>>, T)
    BY <1>1, TimesConcat
  <1> QED
    BY <1>1, <1>2, TimesSingle, Zenon

\* The first element and the others.
LEMMA TimesHead ==
  ASSUME NEW S, NEW s \in Seq(S), s # <<>>, NEW T
  PROVE  /\ Head(s) \in S /\ Tail(s) \in Seq(S)
         /\ Times(s, T) = Hit(Head(s), T) + Times(Tail(s), T)
  <1>1. s = <<Head(s)>> \o Tail(s) /\ Head(s) \in S /\ Tail(s) \in Seq(S)
    OBVIOUS
  <1>2. <<Head(s)>> \in Seq(S)
    BY <1>1
  <1>3. Times(<<Head(s)>> \o Tail(s), T) = Times(<<Head(s)>>, T) + Times(Tail(s), T)
    BY <1>1, <1>2, TimesConcat
  <1> QED
    BY <1>1, <1>3, TimesSingle, Zenon

\* A stack cut in two.
LEMMA TimesCut ==
  ASSUME NEW S, NEW s \in Seq(S), NEW n \in 0..Len(s), NEW T
  PROVE  /\ SubSeq(s, 1, n) \in Seq(S) /\ SubSeq(s, n + 1, Len(s)) \in Seq(S)
         /\ Times(s, T) = Times(SubSeq(s, 1, n), T) + Times(SubSeq(s, n + 1, Len(s)), T)
  <1>1. SubSeq(s, 1, n) \in Seq(S) /\ SubSeq(s, n + 1, Len(s)) \in Seq(S)
    OBVIOUS
  <1>2. s = SubSeq(s, 1, n) \o SubSeq(s, n + 1, Len(s))
    <2> DEFINE a == SubSeq(s, 1, n)
               b == SubSeq(s, n + 1, Len(s))
    <2>1. Len(s) \in Nat /\ n \in Nat /\ n <= Len(s) /\ a \in Seq(S) /\ b \in Seq(S)
      BY <1>1
    <2>2. Len(a) = n /\ Len(b) = Len(s) - n /\ \A i \in 1..n : a[i] = s[i]
      BY <2>1
    <2>3. \A i \in 1..Len(s) - n : b[i] = s[n + i]
      BY <2>1
    <2> HIDE DEF a, b
    <2>4. Len(a \o b) = Len(s) /\ a \o b \in Seq(S)
      BY <2>1, <2>2
    <2>5. \A i \in 1..Len(s) : (a \o b)[i] = s[i]
      <3>1. \A i \in 1..n : (a \o b)[i] = a[i]
        BY <2>1, <2>2
      <3>2. \A i \in n + 1..Len(s) : (a \o b)[i] = b[i - n] /\ i - n \in 1..Len(s) - n
        BY <2>1, <2>2
      <3>3. ASSUME NEW i \in n + 1..Len(s) PROVE (a \o b)[i] = s[i]
        <4>1. b[i - n] = s[n + (i - n)] /\ n + (i - n) = i
          BY <2>1, <2>3, <3>2
        <4> QED
          BY <3>2, <4>1
      <3>4. \A i \in 1..Len(s) : i \in 1..n \/ i \in n + 1..Len(s)
        BY <2>1
      <3> QED
        BY <2>2, <3>1, <3>3, <3>4
    <2> DEFINE c == a \o b
    <2>6. Len(c) = Len(s) /\ c \in Seq(S) /\ \A i \in 1..Len(s) : c[i] = s[i]
      BY <2>4, <2>5
    <2> HIDE DEF c
    <2>7. s = c
      BY <2>1, <2>6
    <2> QED
      BY <2>7 DEF a, b, c
  <1>3. Times(SubSeq(s, 1, n) \o SubSeq(s, n + 1, Len(s)), T)
            = Times(SubSeq(s, 1, n), T) + Times(SubSeq(s, n + 1, Len(s)), T)
    BY <1>1, TimesConcat
  <1> QED
    BY <1>1, <1>2, <1>3, Zenon

\* In what order does not matter.
LEMMA TimesReverse ==
  ASSUME NEW S, NEW s \in Seq(S), NEW T
  PROVE  Reverse(s) \in Seq(S) /\ Times(Reverse(s), T) = Times(s, T)
  <1> DEFINE n == Len(s)
             t == Reverse(s)
             r == [i \in Hits(s, T) |-> n - i + 1]
  <1>1. n \in Nat /\ DOMAIN s = 1..n /\ IsFiniteSet(DOMAIN s)
    BY PlacesFinite
  <1>2. t = [i \in 1..n |-> s[n - i + 1]]
    BY DEF Reverse
  <1>3. t \in Seq(S) /\ DOMAIN t = 1..n
    BY <1>1, <1>2
  <1>4. IsFiniteSet(Hits(s, T))
    BY <1>1, TimesType
  <1>5. Hits(s, T) = {i \in 1..n : s[i] \in T} /\ Hits(t, T) = {i \in 1..n : s[n - i + 1] \in T}
    BY <1>1, <1>2 DEF Hits
  <1> HIDE DEF t
  <1>6. r \in [Hits(s, T) -> Hits(t, T)]
    <2>1. \A i \in Hits(s, T) : n - i + 1 \in 1..n /\ n - (n - i + 1) + 1 = i
      BY <1>1, <1>5
    <2> QED
      BY <1>5, <2>1
  <1>7. /\ \A x, y \in Hits(s, T) : r[x] = r[y] => x = y
        /\ \A z \in Hits(t, T) : \E x \in Hits(s, T) : r[x] = z
    <2>1. \A x, y \in Hits(s, T) : n - x + 1 = n - y + 1 => x = y
      BY <1>1, <1>5
    <2>2. \A z \in Hits(t, T) : n - z + 1 \in Hits(s, T) /\ n - (n - z + 1) + 1 = z
      BY <1>1, <1>5
    <2> QED
      BY <2>1, <2>2
  <1> HIDE DEF r
  <1>8. Cardinality(Hits(t, T)) = Cardinality(Hits(s, T))
    BY <1>4, <1>6, <1>7, TimesRenamed
  <1> QED
    BY <1>3, <1>8 DEF t, Times

--------------------------------------------------------------------------------
(***************************************************************************)
(* A recursive function that goes on from one argument to the next, until  *)
(* it has a final one, is defined where a measure of its arguments falls.  *)
(* A run is what it goes through; each argument has one, which comes to    *)
(* one end.                                                                *)
(***************************************************************************)
IsRun(C, final, next, x, r, n) ==
    /\ n \in Nat /\ r \in [0..n -> C] /\ r[0] = x
    /\ \A i \in 0..n - 1 : r[i] \notin final /\ r[i + 1] = next[r[i]]
    /\ r[n] \in final

\* A run goes on from the second argument as it would from there.
LEMMA RunsGoOn ==
  ASSUME NEW C, NEW final, NEW next \in [C \ final -> C], NEW x \in C, NEW r, NEW n,
         IsRun(C, final, next, x, r, n), x \notin final
  PROVE  /\ n - 1 \in Nat /\ 0..n - 1 # {}
         /\ IsRun(C, final, next, next[x], [i \in 0..n - 1 |-> r[i + 1]], n - 1)
  <1> DEFINE q == [i \in 0..n - 1 |-> r[i + 1]]
  <1>1. n \in Nat /\ n # 0 /\ r \in [0..n -> C] /\ r[0] = x /\ r[n] \in final
    BY DEF IsRun
  <1>2. \A i \in 0..n - 1 : r[i] \notin final /\ r[i + 1] = next[r[i]]
    BY DEF IsRun
  <1>3. n - 1 \in Nat /\ (n - 1) + 1 = n /\ 0 \in 0..n - 1 /\ 0 + 1 = 1
    BY <1>1
  <1>4. q \in [0..n - 1 -> C] /\ q[0] = next[x] /\ q[n - 1] \in final
    <2>1. \A i \in 0..n - 1 : r[i + 1] \in C
      BY <1>1
    <2>2. q[0] = r[1] /\ q[n - 1] = r[n]
      BY <1>3
    <2> QED
      BY <1>1, <1>2, <1>3, <2>1, <2>2
  <1>5. \A i \in 0..(n - 1) - 1 : q[i] \notin final /\ q[i + 1] = next[q[i]]
    <2> TAKE i \in 0..(n - 1) - 1
    <2>1. i \in 0..n - 1 /\ i + 1 \in 0..n - 1
      BY <1>3
    <2> QED
      BY <1>2, <2>1
  <1> HIDE DEF q
  <1>6. IsRun(C, final, next, next[x], q, n - 1)
    BY <1>3, <1>4, <1>5 DEF IsRun
  <1> QED
    BY <1>3, <1>6 DEF q

\* One more argument before a run.
LEMMA RunsBegin ==
  ASSUME NEW C, NEW final, NEW next \in [C \ final -> C], NEW x \in C, x \notin final,
         NEW q, NEW n, IsRun(C, final, next, next[x], q, n)
  PROVE  IsRun(C, final, next, x, [i \in 0..n + 1 |-> IF i = 0 THEN x ELSE q[i - 1]], n + 1)
  <1> DEFINE r == [i \in 0..n + 1 |-> IF i = 0 THEN x ELSE q[i - 1]]
  <1>1. n \in Nat /\ q \in [0..n -> C] /\ q[0] = next[x] /\ q[n] \in final
    BY DEF IsRun
  <1>2. \A i \in 0..n - 1 : q[i] \notin final /\ q[i + 1] = next[q[i]]
    BY DEF IsRun
  <1>3. n + 1 \in Nat /\ r[0] = x /\ \A i \in 1..n + 1 : r[i] = q[i - 1]
    BY <1>1
  <1>4. r \in [0..n + 1 -> C]
    <2>1. \A i \in 0..n + 1 : i # 0 => i - 1 \in 0..n
      BY <1>1
    <2> QED
      BY <1>1, <2>1
  <1>5. r[n + 1] \in final
    BY <1>1, <1>3
  <1>6. \A i \in 0..(n + 1) - 1 : r[i] \notin final /\ r[i + 1] = next[r[i]]
    <2> TAKE i \in 0..(n + 1) - 1
    <2>1. CASE i = 0
      <3>1. r[i + 1] = q[0]
        BY <1>1, <1>3, <2>1
      <3> QED
        BY <1>1, <1>3, <2>1, <3>1
    <2>2. CASE i # 0
      <3>1. i - 1 \in 0..n - 1 /\ i \in 1..n + 1 /\ i + 1 \in 1..n + 1 /\ (i - 1) + 1 = i
            /\ (i + 1) - 1 = i
        BY <1>1, <2>2
      <3>2. q[i - 1] \notin final /\ q[i] = next[q[i - 1]] /\ r[i] = q[i - 1] /\ r[i + 1] = q[i]
        BY <1>2, <1>3, <3>1
      <3> QED
        BY <3>2
    <2> QED
      BY <2>1, <2>2
  <1> HIDE DEF r
  <1>7. IsRun(C, final, next, x, r, n + 1)
    BY <1>3, <1>4, <1>5, <1>6 DEF IsRun
  <1> QED
    BY <1>7 DEF r

Falls(C, final, next, size) ==
    /\ next \in [C \ final -> C] /\ size \in [C -> Nat]
    /\ \A x \in C \ final : size[next[x]] < size[x]

\* Each argument has a run.
LEMMA RunsExist ==
  ASSUME NEW C, NEW final, NEW next, NEW size, Falls(C, final, next, size)
  PROVE  \A x \in C : \E r, n : IsRun(C, final, next, x, r, n)
  <1> DEFINE Has(x) == \E r, n : IsRun(C, final, next, x, r, n)
             bad == {size[x] : x \in {y \in C : ~ Has(y)}}
  <1>1. SUFFICES ASSUME \E x \in C : ~ Has(x)
                 PROVE  FALSE
    OBVIOUS
  <1>2. bad \subseteq Nat /\ bad # {}
    BY <1>1 DEF Falls
  <1>3. PICK k \in bad : \A j \in bad : k <= j
    BY <1>2, LeastNumber
  <1>4. PICK x \in C : ~ Has(x) /\ size[x] = k
    BY <1>3
  <1>5. CASE x \in final
    <2> DEFINE r == [i \in 0..0 |-> x]
    <2>1. r \in [0..0 -> C] /\ r[0] = x /\ 0..0 - 1 = {}
      OBVIOUS
    <2>2. IsRun(C, final, next, x, r, 0)
      BY <1>5, <2>1 DEF IsRun
    <2> QED
      BY <1>4, <2>2
  <1>6. CASE x \notin final
    <2>1. next \in [C \ final -> C] /\ next[x] \in C /\ size[next[x]] < size[x]
      BY <1>6 DEF Falls
    <2>2. size[next[x]] \in Nat /\ size[x] \in Nat
      BY <2>1 DEF Falls
    <2>3. Has(next[x])
      BY <1>3, <1>4, <2>1, <2>2
    <2>4. PICK q, n : IsRun(C, final, next, next[x], q, n)
      BY <2>3
    <2>5. Has(x)
      BY <1>6, <2>1, <2>4, RunsBegin
    <2> QED
      BY <1>4, <2>5
  <1> QED
    BY <1>5, <1>6

\* A run that gets to the end ends in v.
EndsIn(C, final, next, x, v) == \A r, n : IsRun(C, final, next, x, r, n) => r[n] = v

\* All its runs come to one end.
LEMMA RunsAgree ==
  ASSUME NEW C, NEW final, NEW next, NEW size, Falls(C, final, next, size)
  PROVE  \A x \in C : \E v : EndsIn(C, final, next, x, v)
  <1> DEFINE Agree(x) == \E v : EndsIn(C, final, next, x, v)
             bad == {size[x] : x \in {y \in C : ~ Agree(y)}}
  <1>1. SUFFICES ASSUME \E x \in C : ~ Agree(x)
                 PROVE  FALSE
    OBVIOUS
  <1>2. bad \subseteq Nat /\ bad # {}
    BY <1>1 DEF Falls
  <1>3. PICK b \in bad : \A j \in bad : b <= j
    BY <1>2, LeastNumber
  <1>4. PICK x \in C : ~ Agree(x) /\ size[x] = b
    BY <1>3
  <1>5. CASE x \in final
    <2>1. EndsIn(C, final, next, x, x)
      <3> SUFFICES ASSUME NEW r, NEW n, IsRun(C, final, next, x, r, n)
                   PROVE  r[n] = x
        BY DEF EndsIn
      <3> QED
        BY <1>5 DEF IsRun
    <2> QED
      BY <1>4, <2>1
  <1>6. CASE x \notin final
    <2>1. next \in [C \ final -> C] /\ next[x] \in C /\ size[next[x]] < size[x]
      BY <1>6 DEF Falls
    <2>2. size[next[x]] \in Nat /\ size[x] \in Nat
      BY <2>1 DEF Falls
    <2>3. PICK v : EndsIn(C, final, next, next[x], v)
      BY <1>3, <1>4, <2>1, <2>2
    <2>4. EndsIn(C, final, next, x, v)
      <3> SUFFICES ASSUME NEW r, NEW n, IsRun(C, final, next, x, r, n)
                   PROVE  r[n] = v
        BY DEF EndsIn
      <3> DEFINE q == [i \in 0..n - 1 |-> r[i + 1]]
                 k == n - 1
      <3>1. IsRun(C, final, next, next[x], q, k) /\ k \in Nat
        BY <1>6, <2>1, RunsGoOn
      <3>2. q[k] = r[n]
        <4>1. n \in Nat
          BY DEF IsRun
        <4>2. k \in 0..n - 1 /\ k + 1 = n
          BY <3>1, <4>1
        <4> QED
          BY <4>2
      <3> HIDE DEF q, k
      <3>3. q[k] = v
        BY <2>3, <3>1, Zenon DEF EndsIn
      <3> QED
        BY <3>2, <3>3
    <2> QED
      BY <1>4, <2>4
  <1> QED
    BY <1>5, <1>6

\* So the function exists.
LEMMA TailRecursion ==
  ASSUME NEW C, NEW final, NEW next, NEW size, NEW end, Falls(C, final, next, size)
  PROVE  \E f : f = [x \in C |-> IF x \in final THEN end[x] ELSE f[next[x]]]
  <1> DEFINE Out(x) == CHOOSE v : \E r, n : IsRun(C, final, next, x, r, n) /\ v = end[r[n]]
             f == [x \in C |-> Out(x)]
             g == [x \in C |-> IF x \in final THEN end[x] ELSE f[next[x]]]
  <1>1. \A x \in C : \A r, n : IsRun(C, final, next, x, r, n) => Out(x) = end[r[n]]
    <2> TAKE x \in C
    <2> TAKE r, n
    <2> HAVE IsRun(C, final, next, x, r, n)
    <2>1. \E v : \E q, k : IsRun(C, final, next, x, q, k) /\ v = end[q[k]]
      OBVIOUS
    <2>2. \E q, k : IsRun(C, final, next, x, q, k) /\ Out(x) = end[q[k]]
      BY <2>1, Zenon
    <2> HIDE DEF Out
    <2>3. PICK q, k : IsRun(C, final, next, x, q, k) /\ Out(x) = end[q[k]]
      BY <2>2
    <2>4. PICK w : EndsIn(C, final, next, x, w)
      BY RunsAgree
    <2>5. r[n] = w /\ q[k] = w
      BY <2>3, <2>4, Zenon DEF EndsIn
    <2> QED
      BY <2>3, <2>5
  <1> HIDE DEF Out
  <1>2. \A x \in C : f[x] = g[x]
    <2> TAKE x \in C
    <2>1. PICK r, n : IsRun(C, final, next, x, r, n)
      BY RunsExist
    <2>2. CASE x \in final
      <3>1. r[n] = x
        BY <2>1, <2>2 DEF IsRun
      <3> QED
        BY <1>1, <2>1, <2>2, <3>1
    <2>3. CASE x \notin final
      <3> DEFINE q == [i \in 0..n - 1 |-> r[i + 1]]
      <3>1. next \in [C \ final -> C] /\ next[x] \in C
        BY <2>3 DEF Falls
      <3>2. IsRun(C, final, next, next[x], q, n - 1) /\ n - 1 \in Nat
        BY <2>1, <2>3, <3>1, RunsGoOn
      <3>3. q[n - 1] = r[n]
        <4>1. n \in Nat
          BY <2>1 DEF IsRun
        <4>2. n - 1 \in 0..n - 1 /\ (n - 1) + 1 = n
          BY <3>2, <4>1
        <4> QED
          BY <4>2
      <3> HIDE DEF q
      <3>4. Out(x) = end[r[n]] /\ Out(next[x]) = end[r[n]]
        BY <1>1, <2>1, <3>1, <3>2, <3>3
      <3> QED
        BY <2>3, <3>1, <3>4
    <2> QED
      BY <2>2, <2>3
  <1>3. f = g
    BY <1>2
  <1> QED
    BY <1>3

--------------------------------------------------------------------------------
(* The references that objects own to each other *)

\* The slots of the objects in A that hold an object in T.
SlotsOf(h, A, T) == UNION {{p} \X Hits(h[p].slots, T) : p \in A}

InSlots(h, T) == Cardinality(SlotsOf(h, Objects, T))

\* The parts of a heap.
LEMMA HeapParts ==
  ASSUME NEW h \in Heaps, NEW o \in Objects
  PROVE  /\ h[o].type \in Types \cup {Vacant} /\ h[o].refs \in Int
         /\ h[o].slots \in Seq(Objects) /\ IsFiniteSet(DOMAIN h[o].slots)
         /\ h[o] = [type |-> h[o].type, refs |-> h[o].refs, slots |-> h[o].slots]
  <1>1. h[o] \in [type : Types \cup {Vacant}, refs : Int, slots : Seq(Objects)]
    BY DEF Heaps
  <1>2. h[o].slots \in Seq(Objects)
    BY <1>1
  <1>3. IsFiniteSet(DOMAIN h[o].slots)
    BY <1>2, PlacesFinite
  <1> QED
    BY <1>1, <1>3

\* They are finitely many.
LEMMA SlotsFinite ==
  ASSUME NEW h \in Heaps, NEW A \in SUBSET Objects, NEW T
  PROVE  IsFiniteSet(SlotsOf(h, A, T)) /\ Cardinality(SlotsOf(h, A, T)) \in Nat
  <1> DEFINE parts == {{p} \X Hits(h[p].slots, T) : p \in A}
             f == [p \in A |-> {p} \X Hits(h[p].slots, T)]
  <1>1. IsFiniteSet(A)
    BY FS_Subset, ObjectsAssumption
  <1>2. f \in Surjection(A, parts)
    BY DEF Surjection
  <1>3. \A p \in A : IsFiniteSet({p} \X Hits(h[p].slots, T))
    <2> TAKE p \in A
    <2>1. IsFiniteSet(Hits(h[p].slots, T))
      BY HeapParts, TimesType
    <2> QED
      BY <2>1, FS_Singleton, FS_Product
  <1>4. \A P \in parts : IsFiniteSet(P)
    BY <1>3
  <1> HIDE DEF parts, f
  <1>5. IsFiniteSet(parts)
    BY <1>1, <1>2, FS_Surjection
  <1>6. IsFiniteSet(UNION parts)
    BY <1>4, <1>5, FS_UNION
  <1> QED
    BY <1>6, FS_CardinalityType DEF parts, SlotsOf

\* Those of one object, and those of the others.
LEMMA SlotsSplit ==
  ASSUME NEW h \in Heaps, NEW p \in Objects, NEW T
  PROVE  InSlots(h, T) = Cardinality(SlotsOf(h, Objects \ {p}, T)) + Times(h[p].slots, T)
  <1> DEFINE others == SlotsOf(h, Objects \ {p}, T)
             own == {p} \X Hits(h[p].slots, T)
  <1>1. IsFiniteSet(others) /\ Cardinality(others) \in Nat
    BY SlotsFinite
  <1>2. IsFiniteSet(own) /\ Cardinality(own) = Times(h[p].slots, T) /\ Cardinality(own) \in Nat
    <2>1. IsFiniteSet(Hits(h[p].slots, T)) /\ Times(h[p].slots, T) \in Nat
      BY HeapParts, TimesType
    <2>2. IsFiniteSet({p}) /\ Cardinality({p}) = 1
      BY FS_Singleton
    <2>3. /\ IsFiniteSet(own)
          /\ Cardinality(own) = Cardinality({p}) * Cardinality(Hits(h[p].slots, T))
      BY <2>1, <2>2, FS_Product
    <2> QED
      BY <2>1, <2>2, <2>3 DEF Times
  <1>3. SlotsOf(h, Objects, T) = others \cup own
    BY DEF SlotsOf
  <1>4. others \cap own = {}
    BY DEF SlotsOf
  <1> HIDE DEF others, own
  <1>5. /\ Cardinality(others \cup own)
            = Cardinality(others) + Cardinality(own) - Cardinality(others \cap own)
        /\ Cardinality(others \cap own) = 0
    BY <1>1, <1>2, <1>4, FS_Union, FS_EmptySet, Zenon
  <1>6. Cardinality(others \cup own) = Cardinality(others) + Cardinality(own)
    BY <1>1, <1>2, <1>5
  <1>7. InSlots(h, T) = Cardinality(others) + Cardinality(own)
    BY <1>3, <1>6, Zenon DEF InSlots
  <1> QED
    BY <1>2, <1>7, Zenon DEF others

\* The slots of one object change.
LEMMA SlotsUpdate ==
  ASSUME NEW h \in Heaps, NEW g \in Heaps, NEW p \in Objects, NEW T,
         \A o \in Objects \ {p} : g[o].slots = h[o].slots
  PROVE  /\ InSlots(h, T) \in Nat /\ InSlots(g, T) \in Nat
         /\ Times(h[p].slots, T) \in Nat /\ Times(g[p].slots, T) \in Nat
         /\ Times(h[p].slots, T) <= InSlots(h, T)
         /\ InSlots(g, T) = InSlots(h, T) - Times(h[p].slots, T) + Times(g[p].slots, T)
  <1>1. SlotsOf(h, Objects \ {p}, T) = SlotsOf(g, Objects \ {p}, T)
    BY DEF SlotsOf
  <1>2. Cardinality(SlotsOf(h, Objects \ {p}, T)) \in Nat
    BY SlotsFinite
  <1>3. Times(h[p].slots, T) \in Nat /\ Times(g[p].slots, T) \in Nat
    BY HeapParts, TimesType
  <1>4. InSlots(h, T) = Cardinality(SlotsOf(h, Objects \ {p}, T)) + Times(h[p].slots, T)
    BY SlotsSplit
  <1>5. InSlots(g, T) = Cardinality(SlotsOf(h, Objects \ {p}, T)) + Times(g[p].slots, T)
    BY <1>1, SlotsSplit, Zenon
  <1> QED
    BY <1>2, <1>3, <1>4, <1>5

\* No slots change.
LEMMA SlotsSame ==
  ASSUME NEW h, NEW g, NEW T, \A o \in Objects : g[o].slots = h[o].slots
  PROVE  InSlots(g, T) = InSlots(h, T)
  <1>1. SlotsOf(h, Objects, T) = SlotsOf(g, Objects, T)
    BY DEF SlotsOf
  <1> QED
    BY <1>1 DEF InSlots

--------------------------------------------------------------------------------
(* A release comes to an end *)

Calls == Heaps \X Seq(Objects)

\* From h, of which an o is released, to g, and what is then to be released after
\* the rest of the list.
OneReleased(h, o, g, next) ==
    /\ \A p \in Objects \ {o} : g[p] = h[p]
    /\ h[o].refs = 1 => g[o] = Nothing /\ next = h[o].slots
    /\ h[o].refs # 1 => /\ g[o].type = h[o].type /\ g[o].slots = h[o].slots
                        /\ g[o].refs = h[o].refs - 1 /\ next = <<>>

\* A release leaves a heap, and a list of what is to be released.
LEMMA ReleaseFirstType ==
  ASSUME NEW h \in Heaps, NEW os \in Seq(Objects), os # <<>>
  PROVE  /\ Head(os) \in Objects /\ Tail(os) \in Seq(Objects)
         /\ ReleaseFirst(h, os) \in Calls
         /\ \E g \in Heaps, next \in Seq(Objects) :
                /\ OneReleased(h, Head(os), g, next)
                /\ ReleaseFirst(h, os) = <<g, next \o Tail(os)>>
  <1> DEFINE o == Head(os)
             g == [h EXCEPT ![o] = Nothing]
             d == [h EXCEPT ![o].refs = @ - 1]
  <1>1. o \in Objects /\ Tail(os) \in Seq(Objects)
    OBVIOUS
  <1>2. h[o].slots \in Seq(Objects) /\ h[o].refs \in Int
    BY <1>1, HeapParts
  <1>3. Nothing \in [type : Types \cup {Vacant}, refs : Int, slots : Seq(Objects)]
    BY DEF Nothing
  <1>4. g \in Heaps /\ g[o] = Nothing /\ \A p \in Objects \ {o} : g[p] = h[p]
    BY <1>1, <1>3 DEF Heaps
  <1>5. /\ d \in Heaps /\ d[o].type = h[o].type /\ d[o].slots = h[o].slots
        /\ d[o].refs = h[o].refs - 1 /\ \A p \in Objects \ {o} : d[p] = h[p]
    <2> DEFINE rec == [h[o] EXCEPT !.refs = @ - 1]
    <2>1. h[o] \in [type : Types \cup {Vacant}, refs : Int, slots : Seq(Objects)]
      BY <1>1 DEF Heaps
    <2>2. rec \in [type : Types \cup {Vacant}, refs : Int, slots : Seq(Objects)]
          /\ rec.type = h[o].type /\ rec.slots = h[o].slots /\ rec.refs = h[o].refs - 1
      BY <1>2, <2>1
    <2>3. d = [h EXCEPT ![o] = rec]
      OBVIOUS
    <2> HIDE DEF rec, d
    <2> QED
      BY <1>1, <2>2, <2>3 DEF Heaps
  <1>6. h[o].slots \o Tail(os) \in Seq(Objects)
    BY <1>1, <1>2
  <1>7. ReleaseFirst(h, os) = IF h[o].refs = 1 THEN <<g, h[o].slots \o Tail(os)>>
                                               ELSE <<d, Tail(os)>>
    BY DEF ReleaseFirst
  <1> HIDE DEF g, d, o
  <1>8. CASE h[o].refs = 1
    <2>1. OneReleased(h, o, g, h[o].slots)
      BY <1>4, <1>8 DEF OneReleased
    <2>2. ReleaseFirst(h, os) = <<g, h[o].slots \o Tail(os)>>
      BY <1>7, <1>8
    <2> DEFINE w == h[o].slots \o Tail(os)
    <2>3. w \in Seq(Objects)
      BY <1>6
    <2> HIDE DEF w
    <2>4. <<g, w>> \in Calls
      BY <1>4, <2>3 DEF Calls
    <2>5. ReleaseFirst(h, os) \in Calls
      BY <2>2, <2>4 DEF w
    <2> QED
      BY <1>1, <1>2, <1>4, <2>1, <2>2, <2>5 DEF o
  <1>9. CASE h[o].refs # 1
    <2>1. OneReleased(h, o, d, <<>>)
      BY <1>5, <1>9 DEF OneReleased
    <2>2. ReleaseFirst(h, os) = <<d, Tail(os)>> /\ Tail(os) = <<>> \o Tail(os)
      BY <1>1, <1>7, <1>9
    <2>3. ReleaseFirst(h, os) \in Calls /\ <<>> \in Seq(Objects)
      BY <1>1, <1>5, <2>2 DEF Calls
    <2>4. ReleaseFirst(h, os) = <<d, <<>> \o Tail(os)>>
      BY <2>2, Zenon
    <2> QED
      BY <1>1, <1>5, <2>1, <2>3, <2>4, Zenon DEF o
  <1> QED
    BY <1>8, <1>9

\* What is to be released, and what can come to be.
CallSize(x) == Len(x[2]) + InSlots(x[1], Objects)

\* All elements of a list of objects are objects.
LEMMA TimesAll ==
  ASSUME NEW s \in Seq(Objects)
  PROVE  Times(s, Objects) = Len(s) /\ Len(s) \in Nat
  <1>1. Hits(s, Objects) = 1..Len(s) /\ Len(s) \in Nat
    BY PlacesFinite DEF Hits
  <1> QED
    BY <1>1, FS_Interval DEF Times

\* Either one reference less is to be released, or one slot less is left.
LEMMA CallsShrink ==
  ASSUME NEW h \in Heaps, NEW os \in Seq(Objects), os # <<>>
  PROVE  /\ CallSize(<<h, os>>) \in Nat /\ CallSize(ReleaseFirst(h, os)) \in Nat
         /\ CallSize(ReleaseFirst(h, os)) < CallSize(<<h, os>>)
  <1> DEFINE o == Head(os)
             rest == Tail(os)
  <1>1. o \in Objects /\ rest \in Seq(Objects) /\ Len(rest) \in Nat /\ Len(os) = Len(rest) + 1
    OBVIOUS
  <1>2. PICK g \in Heaps, next \in Seq(Objects) :
            OneReleased(h, o, g, next) /\ ReleaseFirst(h, os) = <<g, next \o rest>>
    BY ReleaseFirstType
  <1> HIDE DEF o, rest
  <1>3. /\ InSlots(h, Objects) \in Nat /\ InSlots(g, Objects) \in Nat
        /\ InSlots(g, Objects) = InSlots(h, Objects) - Times(h[o].slots, Objects)
                                    + Times(g[o].slots, Objects)
    <2>1. \A p \in Objects \ {o} : g[p].slots = h[p].slots
      BY <1>2 DEF OneReleased
    <2> QED
      BY <1>1, <2>1, SlotsUpdate
  <1>4. h[o].slots \in Seq(Objects) /\ g[o].slots \in Seq(Objects)
    BY <1>1, HeapParts
  <1>5. Len(next \o rest) = Len(next) + Len(rest) /\ Len(next) \in Nat
    BY <1>1
  <1>6. CallSize(ReleaseFirst(h, os)) = Len(next) + Len(rest) + InSlots(g, Objects)
    BY <1>2, <1>5 DEF CallSize
  <1>7. CallSize(<<h, os>>) = Len(rest) + 1 + InSlots(h, Objects)
    BY <1>1 DEF CallSize
  <1>8. InSlots(g, Objects) + Len(next) = InSlots(h, Objects)
    <2>1. CASE h[o].refs = 1
      <3>1. Times(g[o].slots, Objects) = 0
        BY <1>2, <2>1, TimesEmpty DEF OneReleased, Nothing
      <3>2. Times(h[o].slots, Objects) = Len(next)
        BY <1>2, <1>4, <2>1, TimesAll DEF OneReleased
      <3> QED
        BY <1>3, <1>5, <3>1, <3>2
    <2>2. CASE h[o].refs # 1
      <3>1. g[o].slots = h[o].slots /\ Len(next) = 0
        BY <1>2, <2>2 DEF OneReleased
      <3>2. Times(h[o].slots, Objects) \in Nat
        BY <1>4, TimesAll
      <3> QED
        BY <1>3, <3>1, <3>2
    <2> QED
      BY <2>1, <2>2
  <1> QED
    BY <1>1, <1>3, <1>5, <1>6, <1>7, <1>8

\* ReleaseAll is what its definition says.
LEMMA ReleaseAllDefined ==
  ReleaseAll = [x \in Calls |-> IF x[2] = <<>> THEN x[1]
                                ELSE ReleaseAll[ReleaseFirst(x[1], x[2])]]
  <1> DEFINE final == {x \in Calls : x[2] = <<>>}
             next == [x \in Calls \ final |-> ReleaseFirst(x[1], x[2])]
             size == [x \in Calls |-> CallSize(x)]
             end == [x \in Calls |-> x[1]]
  <1>1. \A x \in Calls \ final : /\ x[1] \in Heaps /\ x[2] \in Seq(Objects) /\ x[2] # <<>>
                                 /\ x = <<x[1], x[2]>>
    BY DEF Calls
  <1>2. next \in [Calls \ final -> Calls]
    BY <1>1, ReleaseFirstType
  <1>3. size \in [Calls -> Nat]
    <2>1. \A x \in Calls : Len(x[2]) \in Nat /\ InSlots(x[1], Objects) \in Nat
      BY SlotsFinite DEF Calls, InSlots
    <2> QED
      BY <2>1 DEF CallSize
  <1>4. \A x \in Calls \ final : size[next[x]] < size[x]
    <2> TAKE x \in Calls \ final
    <2>1. CallSize(ReleaseFirst(x[1], x[2])) < CallSize(x)
      BY <1>1, CallsShrink, Zenon
    <2> QED
      BY <1>2, <2>1
  <1>5. Falls(Calls, final, next, size)
    BY <1>2, <1>3, <1>4 DEF Falls
  <1> HIDE DEF final, next, size, end
  <1>6. \E f : f = [x \in Calls |-> IF x \in final THEN end[x] ELSE f[next[x]]]
    BY <1>5, TailRecursion
  <1> USE DEF final, next, end
  <1>7. PICK f : f = [x \in Calls |-> IF x \in final THEN end[x] ELSE f[next[x]]]
    BY <1>6
  <1>8. f = [x \in Calls |-> IF x[2] = <<>> THEN x[1] ELSE f[ReleaseFirst(x[1], x[2])]]
    <2>1. \A x \in Calls : (IF x \in final THEN end[x] ELSE f[next[x]])
                            = (IF x[2] = <<>> THEN x[1] ELSE f[ReleaseFirst(x[1], x[2])])
      OBVIOUS
    <2> HIDE DEF final, next, end
    <2> QED
      BY <1>7, <2>1, Zenon
  <1> HIDE DEF final, next, size, end
  <1> QED
    BY <1>8, Zenon DEF ReleaseAll, Calls

\* What holds when there is nothing to release, and holds before a release if it
\* does after, holds.
LEMMA CallsInduction ==
  ASSUME NEW P,
         \A h \in Heaps : <<h, <<>>>> \in P,
         \A h \in Heaps, os \in Seq(Objects) :
            os # <<>> /\ ReleaseFirst(h, os) \in P => <<h, os>> \in P
  PROVE  \A h \in Heaps, os \in Seq(Objects) : <<h, os>> \in P
  <1> DEFINE bad == {CallSize(x) : x \in {y \in Calls : y \notin P}}
  <1>1. SUFFICES ASSUME \E x \in Calls : x \notin P
                 PROVE  FALSE
    BY DEF Calls
  <1>2. \A x \in Calls : CallSize(x) \in Nat
    BY SlotsFinite DEF Calls, CallSize, InSlots
  <1>3. bad \subseteq Nat /\ bad # {}
    BY <1>1, <1>2
  <1>4. PICK n \in bad : \A k \in bad : n <= k
    BY <1>3, LeastNumber
  <1>5. PICK x \in Calls : x \notin P /\ CallSize(x) = n
    BY <1>4
  <1>6. PICK h \in Heaps, os \in Seq(Objects) : x = <<h, os>>
    BY <1>5 DEF Calls
  <1>7. os # <<>>
    BY <1>5, <1>6
  <1>8. /\ ReleaseFirst(h, os) \in Calls
        /\ CallSize(ReleaseFirst(h, os)) < n /\ CallSize(ReleaseFirst(h, os)) \in Nat
        /\ n \in Nat
    BY <1>5, <1>6, <1>7, ReleaseFirstType, CallsShrink
  <1>9. ReleaseFirst(h, os) \notin P
    BY <1>5, <1>6, <1>7
  <1>10. CallSize(ReleaseFirst(h, os)) \in bad
    BY <1>8, <1>9
  <1> HIDE DEF bad
  <1> QED
    BY <1>4, <1>8, <1>10

\* Nothing may be released.
LEMMA EmptyCall == \A h \in Heaps : <<h, <<>>>> \in Calls
  <1>1. <<>> \in Seq(Objects)
    OBVIOUS
  <1> QED
    BY <1>1, Zenon DEF Calls

\* Releasing nothing, and one after the other.
LEMMA ReleasedIs ==
  ASSUME NEW h \in Heaps
  PROVE  /\ Released(h, <<>>) = h
         /\ \A os \in Seq(Objects), g \in Heaps, rest \in Seq(Objects) :
                os # <<>> /\ ReleaseFirst(h, os) = <<g, rest>>
                    => Released(h, os) = Released(g, rest)
  <1>1. Released(h, <<>>) = h
    <2>1. <<h, <<>>>> \in Calls
      BY EmptyCall
    <2> QED
      BY <2>1, ReleaseAllDefined DEF Released
  <1>2. ASSUME NEW os \in Seq(Objects), os # <<>>, NEW g, NEW rest,
               ReleaseFirst(h, os) = <<g, rest>>
        PROVE  Released(h, os) = Released(g, rest)
    <2>1. <<h, os>> \in Calls
      BY DEF Calls
    <2>2. ReleaseAll[<<h, os>>] = ReleaseAll[ReleaseFirst(h, os)]
      BY <1>2, <2>1, ReleaseAllDefined
    <2> QED
      BY <1>2, <2>2 DEF Released
  <1> QED
    BY <1>1, <1>2

--------------------------------------------------------------------------------
(* What a release does *)

\* An object that is left is what it was; what goes leaves nothing.
RemainsOf(h, g, o) ==
    \/ g[o].type = Vacant /\ g[o].slots = <<>>
    \/ g[o].type = h[o].type /\ g[o].slots = h[o].slots

Remains(h, g) == \A o \in Objects : RemainsOf(h, g, o)

\* So with one release.
LEMMA OneRemains ==
  ASSUME NEW h, NEW o \in Objects, NEW g, NEW next, OneReleased(h, o, g, next)
  PROVE  \A p \in Objects : RemainsOf(h, g, p)
  <1> TAKE p \in Objects
  <1>1. CASE p = o /\ h[o].refs = 1
    BY <1>1 DEF OneReleased, RemainsOf, Nothing
  <1>2. CASE p = o /\ h[o].refs # 1
    BY <1>2 DEF OneReleased, RemainsOf
  <1>3. CASE p # o
    BY <1>3 DEF OneReleased, RemainsOf
  <1> QED
    BY <1>1, <1>2, <1>3

\* A release changes no object but for its count, or leaves nothing of it.
LEMMA ReleaseRemains ==
  ASSUME NEW h \in Heaps, NEW os \in Seq(Objects)
  PROVE  Released(h, os) \in Heaps /\ Remains(h, Released(h, os))
  <1> DEFINE Good(x) == Released(x[1], x[2]) \in Heaps /\ Remains(x[1], Released(x[1], x[2]))
             P == {x \in Calls : Good(x)}
  <1>1. \A g \in Heaps : <<g, <<>>>> \in P
    BY EmptyCall, ReleasedIs DEF Remains, RemainsOf
  <1>2. ASSUME NEW g \in Heaps, NEW s \in Seq(Objects), s # <<>>, ReleaseFirst(g, s) \in P
        PROVE  <<g, s>> \in P
    <2>1. Head(s) \in Objects /\ Tail(s) \in Seq(Objects)
      BY <1>2, ReleaseFirstType
    <2>2. PICK k \in Heaps, next \in Seq(Objects) :
            OneReleased(g, Head(s), k, next) /\ ReleaseFirst(g, s) = <<k, next \o Tail(s)>>
      BY <1>2, ReleaseFirstType
    <2> DEFINE rest == next \o Tail(s)
    <2>3. rest \in Seq(Objects)
      BY <2>1
    <2> HIDE DEF rest
    <2>4. ReleaseFirst(g, s) = <<k, rest>>
      BY <2>2 DEF rest
    <2>5. Released(g, s) = Released(k, rest)
      BY <1>2, <2>3, <2>4, ReleasedIs
    <2>6. Released(k, rest) \in Heaps /\ Remains(k, Released(k, rest))
      BY <1>2, <2>4
    <2>7. \A o \in Objects : RemainsOf(g, k, o)
      BY <2>1, <2>2, OneRemains
    <2>8. \A o \in Objects : RemainsOf(g, Released(k, rest), o)
      BY <2>6, <2>7 DEF Remains, RemainsOf
    <2>9. Good(<<g, s>>)
      BY <2>5, <2>6, <2>8 DEF Remains
    <2> QED
      BY <2>9 DEF Calls
  <1>3. <<h, os>> \in P
    <2> HIDE DEF P
    <2> QED
      BY <1>1, <1>2, CallsInduction
  <1> QED
    BY <1>3

--------------------------------------------------------------------------------
(* The references of one object *)

\* How often a sequence holds it, and how many slots do.
Count(s, o) == Times(s, {o})

Held(h, o) == InSlots(h, {o})

Turn(q, o) == IF o = q THEN 1 ELSE 0

\* The counts of sequences.
LEMMA CountType ==
  ASSUME NEW S, NEW s \in Seq(S), NEW o
  PROVE  /\ Count(s, o) \in Nat /\ Count(<<>>, o) = 0
         /\ Count(s, o) = 0 <=> \A i \in DOMAIN s : s[i] # o
  <1>1. /\ Times(s, {o}) \in Nat
        /\ Times(s, {o}) = 0 <=> \A i \in DOMAIN s : s[i] \notin {o}
    BY PlacesFinite, TimesType
  <1>2. Times(<<>>, {o}) = 0
    BY TimesEmpty
  <1> QED
    BY <1>1, <1>2 DEF Count

\* That of two sequences, one after the other.
LEMMA CountConcat ==
  ASSUME NEW S, NEW s \in Seq(S), NEW t \in Seq(S), NEW o
  PROVE  Count(s \o t, o) = Count(s, o) + Count(t, o)
  BY TimesConcat DEF Count

\* That of a sequence with a first element.
LEMMA CountHead ==
  ASSUME NEW S, NEW s \in Seq(S), s # <<>>, NEW o
  PROVE  Count(s, o) = Turn(Head(s), o) + Count(Tail(s), o)
  <1>1. Times(s, {o}) = Hit(Head(s), {o}) + Times(Tail(s), {o})
    BY TimesHead
  <1>2. Hit(Head(s), {o}) = Turn(Head(s), o)
    BY DEF Hit, Turn
  <1> QED
    BY <1>1, <1>2 DEF Count

\* The slots of one object change.
LEMMA HeldUpdate ==
  ASSUME NEW h \in Heaps, NEW g \in Heaps, NEW p \in Objects, NEW o,
         \A x \in Objects \ {p} : g[x].slots = h[x].slots
  PROVE  /\ Held(h, o) \in Nat /\ Held(g, o) \in Nat
         /\ Count(h[p].slots, o) \in Nat /\ Count(g[p].slots, o) \in Nat
         /\ Count(h[p].slots, o) <= Held(h, o)
         /\ Held(g, o) = Held(h, o) - Count(h[p].slots, o) + Count(g[p].slots, o)
  BY SlotsUpdate DEF Held, Count

\* What the slots of p hold of o is what all of them hold more, or less.
HeldMoves(h, g, p, o) ==
    /\ Held(h, o) \in Nat /\ Count(h[p].slots, o) \in Nat
    /\ Held(g, o) = Held(h, o) - Count(h[p].slots, o) + Count(g[p].slots, o)

\* The same, as one fact.
LEMMA SlotsMove ==
  ASSUME NEW h \in Heaps, NEW g \in Heaps, NEW p \in Objects, NEW o,
         \A x \in Objects \ {p} : g[x].slots = h[x].slots
  PROVE  HeldMoves(h, g, p, o)
  BY HeldUpdate DEF HeldMoves

\* One value changes.
LEMMA CountUpdate ==
  ASSUME NEW f, NEW g, IsFiniteSet(DOMAIN f), NEW y \in DOMAIN f,
         DOMAIN g = DOMAIN f, \A x \in DOMAIN f \ {y} : g[x] = f[x], NEW o
  PROVE  Count(g, o) = Count(f, o) - Turn(f[y], o) + Turn(g[y], o)
  <1>1. Times(g, {o}) = Times(f, {o}) - Hit(f[y], {o}) + Hit(g[y], {o})
    BY TimesUpdate
  <1>2. Hit(f[y], {o}) = Turn(f[y], o) /\ Hit(g[y], {o}) = Turn(g[y], o)
    BY DEF Hit, Turn
  <1> QED
    BY <1>1, <1>2 DEF Count

\* One value alone.
LEMMA CountSingle ==
  ASSUME NEW q, NEW o
  PROVE  Count(<<q>>, o) = Turn(q, o) /\ Turn(q, o) \in Nat
  <1>1. Times(<<q>>, {o}) = Hit(q, {o})
    BY TimesSingle
  <1>2. Hit(q, {o}) = Turn(q, o)
    BY DEF Hit, Turn
  <1> QED
    BY <1>1, <1>2 DEF Count, Turn

\* That of a sequence with a last element.
LEMMA CountAppend ==
  ASSUME NEW S, NEW s \in Seq(S), NEW q \in S, NEW o
  PROVE  /\ Append(s, q) \in Seq(S)
         /\ Count(Append(s, q), o) = Count(s, o) + Turn(q, o)
  <1>1. Append(s, q) \in Seq(S) /\ Times(Append(s, q), {o}) = Times(s, {o}) + Hit(q, {o})
    BY TimesAppend
  <1>2. Hit(q, {o}) = Turn(q, o)
    BY DEF Hit, Turn
  <1> QED
    BY <1>1, <1>2 DEF Count

\* That of a stack cut in two.
LEMMA CountCut ==
  ASSUME NEW S, NEW s \in Seq(S), NEW n \in 0..Len(s), NEW o
  PROVE  /\ SubSeq(s, 1, n) \in Seq(S) /\ SubSeq(s, n + 1, Len(s)) \in Seq(S)
         /\ Count(s, o) = Count(SubSeq(s, 1, n), o) + Count(SubSeq(s, n + 1, Len(s)), o)
  BY TimesCut DEF Count

\* In what order does not matter.
LEMMA CountReverse ==
  ASSUME NEW S, NEW s \in Seq(S), NEW o
  PROVE  Reverse(s) \in Seq(S) /\ Count(Reverse(s), o) = Count(s, o)
  BY TimesReverse DEF Count

(***************************************************************************)
(* A heap is sound if whatever lives is owned, and nothing is left where   *)
(* nothing lives. The references to an object that no object owns are      *)
(* owned from outside the heap: by the host, a stack, a var.               *)
(***************************************************************************)
SoundHeap(h) ==
    /\ h \in Heaps
    /\ \A o \in Objects : IF h[o].type = Vacant THEN h[o] = Nothing ELSE h[o].refs > 0

Outer(h, o) == h[o].refs - Held(h, o)

\* What is owned from outside when a release has begun, and os is still to be released.
Left(h, os, o) == Outer(h, o) - Count(os, o)

\* Who releases them owns them.
Releasable(h, os) == \A o \in Objects : Left(h, os, o) >= 0

\* The numbers are numbers.
LEMMA OuterType ==
  ASSUME NEW h \in Heaps, NEW os \in Seq(Objects), NEW o \in Objects
  PROVE  /\ Held(h, o) \in Nat /\ h[o].refs \in Int /\ Outer(h, o) \in Int
         /\ Count(os, o) \in Nat /\ Left(h, os, o) \in Int
  <1>1. Held(h, o) \in Nat
    BY HeldUpdate, Zenon
  <1>2. Count(os, o) \in Nat
    BY CountType
  <1>3. h[o].refs \in Int
    BY HeapParts
  <1> QED
    BY <1>1, <1>2, <1>3 DEF Outer, Left

\* What one release does to the counts.
LEMMA OneCounts ==
  ASSUME NEW h \in Heaps, NEW q \in Objects, NEW g \in Heaps, NEW next \in Seq(Objects),
         OneReleased(h, q, g, next), NEW rest \in Seq(Objects), NEW o \in Objects
  PROVE  /\ g[o].refs = IF o = q /\ h[q].refs = 1 THEN 0 ELSE h[o].refs - Turn(q, o)
         /\ Held(g, o) = Held(h, o) - Count(next, o)
  <1>1. g[o].refs = IF o = q /\ h[q].refs = 1 THEN 0 ELSE h[o].refs - Turn(q, o)
    <2>1. h[o].refs \in Int
      BY HeapParts
    <2>2. CASE o = q
      BY <2>1, <2>2 DEF OneReleased, Nothing, Turn
    <2>3. CASE o # q
      BY <2>1, <2>3 DEF OneReleased, Turn
    <2> QED
      BY <2>2, <2>3
  <1>2. /\ g \in Heaps /\ h \in Heaps
        /\ \A x \in Objects \ {q} : g[x].slots = h[x].slots
    BY DEF OneReleased
  <1>3. /\ Held(h, o) \in Nat /\ Count(h[q].slots, o) \in Nat
        /\ Held(g, o) = Held(h, o) - Count(h[q].slots, o) + Count(g[q].slots, o)
    <2>1. HeldMoves(h, g, q, o)
      BY <1>2, SlotsMove, Zenon
    <2> QED
      BY <2>1 DEF HeldMoves
  <1>4. CASE h[q].refs = 1
    <2>1. g[q].slots = <<>> /\ next = h[q].slots
      BY <1>4 DEF OneReleased, Nothing
    <2>2. Count(g[q].slots, o) = 0
      BY <2>1, CountType, Zenon
    <2> QED
      BY <1>1, <1>3, <2>1, <2>2
  <1>5. CASE h[q].refs # 1
    <2>1. g[q].slots = h[q].slots /\ next = <<>>
      BY <1>5 DEF OneReleased
    <2>2. Count(next, o) = 0 /\ Count(g[q].slots, o) = Count(h[q].slots, o)
      BY <2>1, CountType, Zenon
    <2> QED
      BY <1>1, <1>3, <2>2
  <1> QED
    BY <1>4, <1>5

\* One release takes one reference of its object, and none of any other: what the
\* object owned is then on the list.
LEMMA OneIsExact ==
  ASSUME NEW h \in Heaps, NEW q \in Objects, NEW rest \in Seq(Objects),
         NEW g \in Heaps, NEW next \in Seq(Objects), OneReleased(h, q, g, next), SoundHeap(h),
         \A o \in Objects : Outer(h, o) >= Turn(q, o) + Count(rest, o)
  PROVE  /\ SoundHeap(g)
         /\ \A o \in Objects : Outer(g, o) - Count(next \o rest, o)
                                = Outer(h, o) - Turn(q, o) - Count(rest, o)
  <1>1. h[q].refs >= 1 /\ h[q].refs \in Int
    <2>1. h[q].refs - Held(h, q) >= Turn(q, q) + Count(rest, q)
      BY DEF Outer
    <2>2. Turn(q, q) = 1
      BY DEF Turn
    <2>3. Held(h, q) \in Nat /\ h[q].refs \in Int /\ Count(rest, q) \in Nat
      BY OuterType, Zenon
    <2> QED
      BY <2>1, <2>2, <2>3
  <1>2. SoundHeap(g)
    <2>1. CASE h[q].refs = 1
      BY <2>1 DEF OneReleased, SoundHeap, Nothing
    <2>2. CASE h[q].refs # 1
      <3>1. g[q].refs > 0 /\ h[q].type # Vacant
        BY <1>1, <2>2 DEF OneReleased, SoundHeap, Nothing
      <3> QED
        BY <2>2, <3>1 DEF OneReleased, SoundHeap
    <2> QED
      BY <2>1, <2>2
  <1>3. ASSUME NEW o \in Objects
        PROVE  Outer(g, o) - Count(next \o rest, o) = Outer(h, o) - Turn(q, o) - Count(rest, o)
    <2>1. /\ g[o].refs = IF o = q /\ h[q].refs = 1 THEN 0 ELSE h[o].refs - Turn(q, o)
          /\ Held(g, o) = Held(h, o) - Count(next, o)
      BY OneCounts
    <2>2. Count(next \o rest, o) = Count(next, o) + Count(rest, o)
      BY CountConcat
    <2>3. /\ Count(next, o) \in Nat /\ Count(rest, o) \in Nat
          /\ Held(h, o) \in Nat /\ h[o].refs \in Int
      BY OuterType
    <2>4. g[o].refs = h[o].refs - Turn(q, o) /\ Turn(q, o) \in Nat
      BY <2>1, <2>3 DEF Turn
    <2> QED
      BY <2>1, <2>2, <2>3, <2>4 DEF Outer
  <1> QED
    BY <1>2, <1>3

\* So what is left to outside owners is the same before and after one release.
LEMMA StepIsExact ==
  ASSUME NEW h \in Heaps, NEW os \in Seq(Objects), os # <<>>, SoundHeap(h), Releasable(h, os),
         NEW g \in Heaps, NEW next \in Seq(Objects), OneReleased(h, Head(os), g, next)
  PROVE  /\ next \o Tail(os) \in Seq(Objects) /\ SoundHeap(g)
         /\ Releasable(g, next \o Tail(os))
         /\ \A o \in Objects : Left(g, next \o Tail(os), o) = Left(h, os, o)
  <1> DEFINE q == Head(os)
             rest == Tail(os)
             todo == next \o rest
  <1>1. q \in Objects /\ rest \in Seq(Objects) /\ todo \in Seq(Objects)
    BY ReleaseFirstType
  <1>2. \A o \in Objects : Count(os, o) = Turn(q, o) + Count(rest, o)
    BY CountHead
  <1>3. OneReleased(h, q, g, next)
    OBVIOUS
  <1> HIDE DEF q, rest
  <1>4. ASSUME NEW o \in Objects
        PROVE  /\ Outer(h, o) >= Turn(q, o) + Count(rest, o)
               /\ Left(h, os, o) = Outer(h, o) - Turn(q, o) - Count(rest, o)
    <2>1. Outer(h, o) \in Int /\ Count(rest, o) \in Nat /\ Turn(q, o) \in Nat
      BY <1>1, OuterType DEF Turn
    <2> QED
      BY <1>2, <2>1 DEF Releasable, Left
  <1>5. /\ SoundHeap(g)
        /\ \A o \in Objects : Outer(g, o) - Count(todo, o)
                                = Outer(h, o) - Turn(q, o) - Count(rest, o)
    BY <1>1, <1>3, <1>4, OneIsExact
  <1> HIDE DEF todo
  <1>6. \A o \in Objects : Left(g, todo, o) = Left(h, os, o)
    BY <1>4, <1>5 DEF Left
  <1>7. Releasable(g, todo)
    BY <1>6 DEF Releasable
  <1> QED
    BY <1>1, <1>5, <1>6, <1>7 DEF todo, rest

\* What a release is to do.
ExactRelease(h, os) ==
    SoundHeap(h) /\ Releasable(h, os)
        => /\ SoundHeap(Released(h, os))
           /\ \A o \in Objects : Outer(Released(h, os), o) = Left(h, os, o)

\* YmCtx::release and YmObj::cleanup: who owns the references it gives up takes them
\* from their objects, those that go with it take what they own, and the count of
\* every object is then that of its other owners: none is freed that has one, and
\* none is left that has none.
THEOREM ReleaseIsExact ==
  ASSUME NEW h \in Heaps, NEW os \in Seq(Objects)
  PROVE  ExactRelease(h, os)
  <1> DEFINE P == {x \in Calls : ExactRelease(x[1], x[2])}
  <1>1. ASSUME NEW g \in Heaps
        PROVE  <<g, <<>>>> \in P
    <2>1. Released(g, <<>>) = g
      BY ReleasedIs
    <2>2. \A o \in Objects : Outer(g, o) = Left(g, <<>>, o)
      <3> TAKE o \in Objects
      <3>1. Count(<<>>, o) = 0 /\ Outer(g, o) \in Int
        BY CountType, OuterType
      <3> QED
        BY <3>1 DEF Left
    <2>3. ExactRelease(g, <<>>)
      BY <2>1, <2>2, Zenon DEF ExactRelease
    <2> QED
      BY <2>3, EmptyCall
  <1>2. ASSUME NEW g \in Heaps, NEW s \in Seq(Objects), s # <<>>, ReleaseFirst(g, s) \in P
        PROVE  <<g, s>> \in P
    <2> DEFINE q == Head(s)
               rest == Tail(s)
    <2>1. q \in Objects /\ rest \in Seq(Objects)
      BY <1>2, ReleaseFirstType
    <2>2. PICK k \in Heaps, next \in Seq(Objects) :
            OneReleased(g, q, k, next) /\ ReleaseFirst(g, s) = <<k, next \o rest>>
      BY <1>2, ReleaseFirstType
    <2> DEFINE todo == next \o rest
    <2>3. todo \in Seq(Objects)
      BY <2>1
    <2> HIDE DEF q, rest, todo
    <2>4. ReleaseFirst(g, s) = <<k, todo>>
      BY <2>2 DEF todo
    <2>5. Released(g, s) = Released(k, todo)
      BY <1>2, <2>3, <2>4, ReleasedIs
    <2>6. ExactRelease(k, todo)
      BY <1>2, <2>4
    <2>7. ASSUME SoundHeap(g), Releasable(g, s)
          PROVE  /\ SoundHeap(k) /\ Releasable(k, todo)
                 /\ \A o \in Objects : Left(k, todo, o) = Left(g, s, o)
      BY <1>2, <2>2, <2>7, StepIsExact DEF todo, rest, q
    <2>8. ExactRelease(g, s)
      <3> SUFFICES ASSUME SoundHeap(g), Releasable(g, s)
                   PROVE  /\ SoundHeap(Released(k, todo))
                          /\ \A o \in Objects : Outer(Released(k, todo), o) = Left(g, s, o)
        BY <2>5, Zenon DEF ExactRelease
      <3> QED
        BY <2>6, <2>7 DEF ExactRelease
    <2> QED
      BY <2>8 DEF Calls
  <1>3. <<h, os>> \in P
    <2> HIDE DEF P
    <2> QED
      BY <1>1, <1>2, CallsInduction
  <1> QED
    BY <1>3

\* What is owned from outside is no vacant address.
LEMMA OwnedIsLive ==
  ASSUME NEW h, SoundHeap(h), NEW o \in Objects, Outer(h, o) > 0
  PROVE  h[o].type # Vacant
  <1>1. h \in Heaps
    BY DEF SoundHeap
  <1>2. Held(h, o) \in Nat /\ h[o].refs \in Int
    BY <1>1, HeldUpdate, HeapParts
  <1>3. h[o].refs > 0
    BY <1>2 DEF Outer
  <1> QED
    BY <1>3 DEF SoundHeap, Nothing

\* So what still has an owner outside is what it was.
LEMMA OwnedRemains ==
  ASSUME NEW h, SoundHeap(h), NEW os \in Seq(Objects), Releasable(h, os),
         NEW o \in Objects, Left(h, os, o) > 0
  PROVE  /\ Released(h, os)[o].type = h[o].type /\ Released(h, os)[o].slots = h[o].slots
         /\ Released(h, os)[o].type # Vacant
  <1>1. h \in Heaps
    BY DEF SoundHeap
  <1>2. RemainsOf(h, Released(h, os), o)
    BY <1>1, ReleaseRemains DEF Remains
  <1>3. SoundHeap(Released(h, os)) /\ Outer(Released(h, os), o) > 0
    BY <1>1, ReleaseIsExact DEF ExactRelease
  <1>4. Released(h, os)[o].type # Vacant
    BY <1>3, OwnedIsLive
  <1> QED
    BY <1>2, <1>4 DEF RemainsOf

--------------------------------------------------------------------------------
(* Heaps whose objects are well formed *)

GoodHeap(h) ==
    /\ SoundHeap(h)
    /\ \A o \in Objects : Outer(h, o) >= 0 /\ WellFormed(h, o)

\* No object comes to be, and those that live keep their type.
Fades(h, g) == \A o \in Objects : g[o].type \in {h[o].type, Vacant}

\* Those that live keep their type.
KeepsTypes(h, g) ==
    \A o \in Objects : h[o].type # Vacant => g[o].type \in {h[o].type, Vacant}

\* Nothing changes.
LEMMA FadesSame == \A h : Fades(h, h)
  BY DEF Fades

\* One change after the other.
LEMMA FadesOn ==
  ASSUME NEW h, NEW g, NEW k, Fades(h, g), Fades(g, k)
  PROVE  Fades(h, k)
  BY DEF Fades

\* So if the first brought new objects.
LEMMA KeepsTypesOn ==
  ASSUME NEW h, NEW g, NEW k, KeepsTypes(h, g), Fades(g, k)
  PROVE  KeepsTypes(h, k)
  BY DEF Fades, KeepsTypes

\* What lives keeps its type.
LEMMA FadesKeepsTypes ==
  ASSUME NEW h, NEW g, Fades(h, g)
  PROVE  KeepsTypes(h, g)
  BY DEF Fades, KeepsTypes

\* What an object owns lives.
LEMMA HeldIsLive ==
  ASSUME NEW h, GoodHeap(h), NEW p \in Objects, NEW i \in DOMAIN h[p].slots
  PROVE  /\ h[p].slots[i] \in Objects /\ h[h[p].slots[i]].type # Vacant
         /\ h[p].type # Vacant
  <1>1. h \in Heaps /\ h[p].slots \in Seq(Objects)
    BY HeapParts DEF GoodHeap, SoundHeap
  <1> DEFINE o == h[p].slots[i]
  <1>2. o \in Objects
    BY <1>1
  <1>3. Count(h[p].slots, o) # 0 /\ Count(h[p].slots, o) \in Nat
    BY <1>1, CountType
  <1>4. Held(h, o) \in Nat /\ Count(h[p].slots, o) <= Held(h, o)
    BY <1>1, HeldUpdate
  <1>5. h[o].refs - Held(h, o) >= 0 /\ h[o].refs \in Int
    BY <1>1, <1>2, HeapParts DEF GoodHeap, Outer
  <1>6. h[o].refs > 0
    BY <1>3, <1>4, <1>5
  <1>7. h[p].type # Vacant
    BY DEF GoodHeap, SoundHeap, Nothing
  <1> QED
    BY <1>2, <1>6, <1>7 DEF GoodHeap, SoundHeap, Nothing

\* Whether an object is well formed is a matter of its type, its slots, and the
\* types of what these hold.
LEMMA WellFormedSame ==
  ASSUME NEW h \in Heaps, NEW g \in Heaps, NEW o \in Objects, WellFormed(h, o),
         g[o].type = h[o].type, g[o].slots = h[o].slots,
         \A i \in DOMAIN h[o].slots : g[h[o].slots[i]].type = h[h[o].slots[i]].type
  PROVE  WellFormed(g, o)
  <1> DEFINE s == h[o].slots
  <1>1. s \in Seq(Objects)
    BY HeapParts
  <1>2. [i \in DOMAIN s |-> g[s[i]].type] = [i \in DOMAIN s |-> h[s[i]].type]
    OBVIOUS
  <1>3. Len(s) = 1 => g[s[1]].type = h[s[1]].type
    BY <1>1
  <1>4. CASE h[o].type \in Structs
    BY <1>2, <1>4 DEF WellFormed
  <1>5. CASE h[o].type \notin Structs /\ h[o].type \in Protocols
    BY <1>3, <1>5 DEF WellFormed
  <1>6. CASE h[o].type \notin Structs /\ h[o].type \notin Protocols
    BY <1>6 DEF WellFormed
  <1> QED
    BY <1>4, <1>5, <1>6

\* Nothing is well formed.
LEMMA VacantIsWellFormed ==
  ASSUME NEW h, NEW o, h[o].type = Vacant, h[o].slots = <<>>
  PROVE  WellFormed(h, o)
  BY TypesAssumption DEF WellFormed, Types

\* A release leaves what is left well formed.
LEMMA ReleasedIsGood ==
  ASSUME NEW h, GoodHeap(h), NEW os \in Seq(Objects), Releasable(h, os)
  PROVE  /\ GoodHeap(Released(h, os)) /\ Fades(h, Released(h, os))
         /\ \A o \in Objects : Outer(Released(h, os), o) = Left(h, os, o)
  <1> DEFINE g == Released(h, os)
  <1>1. h \in Heaps /\ SoundHeap(h)
    BY DEF GoodHeap, SoundHeap
  <1>2. SoundHeap(g) /\ \A o \in Objects : Outer(g, o) = Left(h, os, o)
    BY <1>1, ReleaseIsExact DEF ExactRelease
  <1>3. g \in Heaps /\ \A o \in Objects : RemainsOf(h, g, o)
    BY <1>1, ReleaseRemains DEF Remains
  <1> HIDE DEF g
  <1>4. \A o \in Objects : Outer(g, o) >= 0
    BY <1>2 DEF Releasable
  <1>5. ASSUME NEW o \in Objects
        PROVE  WellFormed(g, o)
    <2>1. CASE g[o].type = Vacant /\ g[o].slots = <<>>
      BY <2>1, VacantIsWellFormed
    <2>2. CASE g[o].type = h[o].type /\ g[o].slots = h[o].slots
      <3>1. ASSUME NEW i \in DOMAIN h[o].slots
            PROVE  g[h[o].slots[i]].type = h[h[o].slots[i]].type
        <4> DEFINE p == g[o].slots[i]
        <4>1. p \in Objects
          BY <1>1, <2>2, <3>1, HeldIsLive
        <4>2. Count(g[o].slots, p) # 0 /\ Count(g[o].slots, p) \in Nat
          <5>1. g[o].slots \in Seq(Objects) /\ i \in DOMAIN g[o].slots
            BY <1>3, <2>2, <3>1, HeapParts
          <5> QED
            BY <5>1, CountType
        <4>3. Held(g, p) \in Nat /\ Count(g[o].slots, p) <= Held(g, p)
          BY <1>3, HeldUpdate, Zenon
        <4>4. g[p].refs - Held(g, p) >= 0 /\ g[p].refs \in Int
          BY <1>3, <1>4, <4>1, HeapParts DEF Outer
        <4>5. g[p].refs > 0
          BY <4>2, <4>3, <4>4
        <4>6. g[p].type # Vacant
          BY <1>2, <4>1, <4>5 DEF SoundHeap, Nothing
        <4> QED
          BY <1>3, <2>2, <4>1, <4>6 DEF RemainsOf
      <3>2. WellFormed(h, o)
        BY DEF GoodHeap
      <3> QED
        BY <1>1, <1>3, <2>2, <3>1, <3>2, WellFormedSame
    <2> QED
      BY <1>3, <2>1, <2>2 DEF RemainsOf
  <1>6. GoodHeap(g)
    BY <1>2, <1>4, <1>5 DEF GoodHeap
  <1>7. Fades(h, g)
    BY <1>3 DEF Fades, RemainsOf
  <1> QED
    BY <1>2, <1>6, <1>7 DEF g

\* A count changes.
LEMMA RefsUpdate ==
  ASSUME NEW h \in Heaps, NEW o \in Objects, NEW n \in Int
  PROVE  LET g == [h EXCEPT ![o].refs = n]
         IN /\ g \in Heaps /\ \A p \in Objects \ {o} : g[p] = h[p]
            /\ g[o].type = h[o].type /\ g[o].slots = h[o].slots /\ g[o].refs = n
  <1> DEFINE rec == [h[o] EXCEPT !.refs = n]
             g == [h EXCEPT ![o] = rec]
  <1>1. h[o] \in [type : Types \cup {Vacant}, refs : Int, slots : Seq(Objects)]
    BY DEF Heaps
  <1>2. rec \in [type : Types \cup {Vacant}, refs : Int, slots : Seq(Objects)]
        /\ rec.type = h[o].type /\ rec.slots = h[o].slots /\ rec.refs = n
    BY <1>1
  <1>3. g = [h EXCEPT ![o].refs = n]
    OBVIOUS
  <1> HIDE DEF rec
  <1>4. g \in Heaps /\ g[o] = rec /\ \A p \in Objects \ {o} : g[p] = h[p]
    BY <1>2 DEF Heaps
  <1> HIDE DEF g
  <1> QED
    BY <1>2, <1>3, <1>4

\* secure of what lives adds a reference that is owned from outside.
LEMMA SecuredIsGood ==
  ASSUME NEW h, GoodHeap(h), NEW o \in Objects, h[o].type # Vacant
  PROVE  LET g == Secured(h, o)
         IN /\ GoodHeap(g) /\ Fades(h, g)
            /\ \A p \in Objects : /\ g[p].type = h[p].type /\ g[p].slots = h[p].slots
                                  /\ Outer(g, p) = Outer(h, p) + Turn(o, p)
  <1> DEFINE n == h[o].refs + 1
             g == [h EXCEPT ![o].refs = n]
  <1>1. h \in Heaps /\ h[o].refs \in Int /\ h[o].refs > 0
    BY HeapParts DEF GoodHeap, SoundHeap
  <1>2. n \in Int /\ n > 0
    BY <1>1
  <1>3. Secured(h, o) = g
    BY DEF Secured
  <1>4. n = h[o].refs + 1
    OBVIOUS
  <1> HIDE DEF n
  <1>5. /\ g \in Heaps /\ \A p \in Objects \ {o} : g[p] = h[p]
        /\ g[o].type = h[o].type /\ g[o].slots = h[o].slots /\ g[o].refs = n
    BY <1>1, <1>2, RefsUpdate
  <1> HIDE DEF g
  <1>6. \A p \in Objects : /\ g[p].type = h[p].type /\ g[p].slots = h[p].slots
                           /\ g[p].refs = h[p].refs + Turn(o, p)
    <2> TAKE p \in Objects
    <2>1. h[p].refs \in Int
      BY <1>1, HeapParts
    <2> QED
      BY <1>4, <1>5, <2>1 DEF Turn
  <1>7. ASSUME NEW p \in Objects
        PROVE  /\ Outer(g, p) = Outer(h, p) + Turn(o, p) /\ Outer(g, p) >= 0
               /\ WellFormed(g, p)
    <2>1. Held(g, p) \in Nat /\ Held(g, p) = Held(h, p)
      <3>1. /\ g \in Heaps /\ h \in Heaps
            /\ \A x \in Objects \ {o} : g[x].slots = h[x].slots
        BY <1>1, <1>5
      <3>2. /\ Held(h, p) \in Nat /\ Count(h[o].slots, p) \in Nat
            /\ Held(g, p) = Held(h, p) - Count(h[o].slots, p) + Count(g[o].slots, p)
        BY <3>1, HeldUpdate, Zenon
      <3> QED
        BY <1>5, <3>2
    <2>2. Turn(o, p) \in Nat /\ h[p].refs \in Int
      BY <1>1, HeapParts DEF Turn
    <2>3. Outer(g, p) = Outer(h, p) + Turn(o, p)
      BY <1>6, <2>1, <2>2 DEF Outer
    <2>4. Outer(h, p) >= 0 /\ Outer(h, p) \in Int /\ WellFormed(h, p)
      BY <2>1, <2>2 DEF Outer, GoodHeap
    <2>5. \A i \in DOMAIN h[p].slots : g[h[p].slots[i]].type = h[h[p].slots[i]].type
      BY <1>6, HeldIsLive
    <2> QED
      BY <1>1, <1>5, <1>6, <2>2, <2>3, <2>4, <2>5, WellFormedSame
  <1>8. SoundHeap(g)
    BY <1>2, <1>5 DEF GoodHeap, SoundHeap, Nothing
  <1>9. GoodHeap(g) /\ Fades(h, g)
    BY <1>6, <1>7, <1>8 DEF GoodHeap, Fades
  <1> QED
    BY <1>3, <1>6, <1>7, <1>9, Zenon

\* A new object owns what its slots steal, and is owned from outside once.
LEMMA CreatedIsGood ==
  ASSUME NEW h, GoodHeap(h), NEW o \in Objects, h[o].type = Vacant,
         NEW type \in Types, NEW slots \in Seq(Objects),
         \A p \in Objects : Outer(h, p) >= Count(slots, p),
         WellFormed(Created(h, o, type, slots), o)
  PROVE  LET g == Created(h, o, type, slots)
         IN /\ GoodHeap(g) /\ KeepsTypes(h, g)
            /\ g[o].type = type /\ g[o].slots = slots /\ \A p \in Objects \ {o} : g[p] = h[p]
            /\ \A p \in Objects : Outer(g, p) = Outer(h, p) + Turn(o, p) - Count(slots, p)
  <1> DEFINE rec == [type |-> type, refs |-> 1, slots |-> slots]
             g == [h EXCEPT ![o] = rec]
  <1>1. h \in Heaps /\ h[o] = Nothing
    BY DEF GoodHeap, SoundHeap
  <1>2. rec \in [type : Types \cup {Vacant}, refs : Int, slots : Seq(Objects)]
        /\ rec.type = type /\ rec.refs = 1 /\ rec.slots = slots
    OBVIOUS
  <1>3. Created(h, o, type, slots) = g
    BY DEF Created
  <1> HIDE DEF rec
  <1>4. g \in Heaps /\ g[o] = rec /\ \A p \in Objects \ {o} : g[p] = h[p]
    BY <1>1, <1>2 DEF Heaps
  <1> HIDE DEF g
  <1>5. type # Vacant
    BY TypesAssumption
  <1>6. SoundHeap(g)
    BY <1>2, <1>4, <1>5 DEF GoodHeap, SoundHeap
  <1>7. ASSUME NEW p \in Objects
        PROVE  /\ Outer(g, p) = Outer(h, p) + Turn(o, p) - Count(slots, p)
               /\ Outer(g, p) >= 0
    <2>1. /\ Held(h, p) \in Nat /\ Count(h[o].slots, p) \in Nat
          /\ Held(g, p) = Held(h, p) - Count(h[o].slots, p) + Count(g[o].slots, p)
      BY <1>1, <1>4, HeldUpdate, Zenon
    <2>2. Count(h[o].slots, p) = 0 /\ Count(g[o].slots, p) = Count(slots, p)
          /\ Count(slots, p) \in Nat
      <3>1. h[o].slots = <<>> /\ g[o].slots = slots
        BY <1>1, <1>2, <1>4 DEF Nothing
      <3> QED
        BY <3>1, CountType, Zenon
    <2>3. Held(g, p) = Held(h, p) + Count(slots, p)
      BY <2>1, <2>2
    <2>4. h[p].refs \in Int /\ g[p].refs = h[p].refs + Turn(o, p) /\ Turn(o, p) \in Nat
      <3>1. h[p].refs \in Int
        BY <1>1, HeapParts
      <3> QED
        BY <1>1, <1>2, <1>4, <3>1 DEF Turn, Nothing
    <2>5. Outer(h, p) >= Count(slots, p)
      OBVIOUS
    <2> QED
      BY <2>1, <2>2, <2>3, <2>4, <2>5 DEF Outer
  <1>8. ASSUME NEW p \in Objects
        PROVE  WellFormed(g, p)
    <2>1. CASE p = o
      BY <1>3, <2>1, Zenon
    <2>2. CASE p # o
      <3>1. ASSUME NEW i \in DOMAIN h[p].slots
            PROVE  g[h[p].slots[i]].type = h[h[p].slots[i]].type
        BY <1>4, HeldIsLive
      <3>2. WellFormed(h, p)
        BY DEF GoodHeap
      <3> QED
        BY <1>1, <1>4, <2>2, <3>1, <3>2, WellFormedSame
    <2> QED
      BY <2>1, <2>2
  <1>9. GoodHeap(g) /\ KeepsTypes(h, g)
    BY <1>4, <1>6, <1>7, <1>8 DEF GoodHeap, KeepsTypes
  <1> QED
    BY <1>2, <1>3, <1>4, <1>7, <1>9, Zenon

\* Different values are there once or not at all.
LEMMA CountInjective ==
  ASSUME NEW f, IsFiniteSet(DOMAIN f), IsInjective(f), NEW o
  PROVE  Count(f, o) = IF \E x \in DOMAIN f : f[x] = o THEN 1 ELSE 0
  <1>1. CASE \E x \in DOMAIN f : f[x] = o
    <2>1. PICK x \in DOMAIN f : f[x] = o
      BY <1>1
    <2>2. Hits(f, {o}) = {x}
      BY <2>1 DEF Hits, IsInjective
    <2>3. Cardinality({x}) = 1
      BY FS_Singleton
    <2>4. Count(f, o) = 1
      BY <2>2, <2>3 DEF Count, Times
    <2> QED
      BY <1>1, <2>4
  <1>2. CASE ~ \E x \in DOMAIN f : f[x] = o
    <2>1. Count(f, o) = 0
      BY <1>2, TimesType DEF Count
    <2> QED
      BY <1>2, <2>1
  <1> QED
    BY <1>1, <1>2

\* The heap with new objects of type None at some addresses.
WithNones(h, os) ==
    [o \in Objects |-> IF \E i \in DOMAIN os : os[i] = o THEN Created(h, o, None, <<>>)[o]
                       ELSE h[o]]

\* They own nothing, and each is owned from outside once.
LEMMA NonesAreGood ==
  ASSUME NEW h, GoodHeap(h), NEW n \in Nat, NEW os \in Room(h, n)
  PROVE  LET g == WithNones(h, os)
         IN /\ os \in Seq(Objects)
            /\ GoodHeap(g) /\ KeepsTypes(h, g)
            /\ \A p \in Objects : Outer(g, p) = Outer(h, p) + Count(os, p)
  <1> DEFINE g == WithNones(h, os)
             rec == [type |-> None, refs |-> 1, slots |-> <<>>]
             Made(p) == \E i \in DOMAIN os : os[i] = p
  <1>1. /\ os \in [1..n -> Objects \ Live(h)] /\ IsInjective(os) /\ DOMAIN os = 1..n
        /\ os \in Seq(Objects) /\ h \in Heaps /\ IsFiniteSet(DOMAIN os)
    BY PlacesFinite DEF Room, GoodHeap, SoundHeap
  <1>2. \A p \in Objects : Made(p) => h[p] = Nothing
    BY <1>1 DEF Live, GoodHeap, SoundHeap
  <1>3. \A p \in Objects : g[p] = IF Made(p) THEN rec ELSE h[p]
    <2>1. \A p \in Objects : Created(h, p, None, <<>>)[p] = rec
      BY <1>1 DEF Created, Heaps
    <2> QED
      BY <2>1 DEF WithNones
  <1>4. /\ rec \in [type : Types \cup {Vacant}, refs : Int, slots : Seq(Objects)]
        /\ rec.type = None /\ rec.refs = 1 /\ rec.slots = <<>>
        /\ None \in Types /\ None # Vacant /\ None \notin Structs \cup Protocols
    BY TypesAssumption DEF Types
  <1>5. g \in Heaps
    BY <1>1, <1>3, <1>4 DEF WithNones, Heaps
  <1> HIDE DEF g, rec
  <1>6. SoundHeap(g)
    BY <1>3, <1>4, <1>5 DEF SoundHeap, GoodHeap
  <1>7. \A p \in Objects : g[p].slots = h[p].slots
    BY <1>2, <1>3, <1>4 DEF Nothing
  <1>8. ASSUME NEW p \in Objects
        PROVE  Outer(g, p) = Outer(h, p) + Count(os, p) /\ Outer(g, p) >= 0
    <2>1. Held(g, p) = Held(h, p) /\ Held(h, p) \in Nat
      <3>1. Held(g, p) = Held(h, p)
        BY <1>7, SlotsSame DEF Held
      <3> QED
        BY <1>1, <3>1, HeldUpdate, Zenon
    <2>2. Count(os, p) = IF Made(p) THEN 1 ELSE 0
      BY <1>1, CountInjective
    <2> HIDE DEF Made
    <2>3. h[p].refs \in Int /\ g[p].refs = h[p].refs + Count(os, p) /\ Count(os, p) \in Nat
      <3>1. h[p].refs \in Int /\ Made(p) => h[p].refs = 0
        BY <1>1, <1>2, HeapParts DEF Nothing
      <3>2. h[p].refs \in Int
        BY <1>1, HeapParts
      <3> QED
        BY <1>3, <1>4, <2>2, <3>1, <3>2
    <2>4. Outer(h, p) >= 0
      BY DEF GoodHeap
    <2> QED
      BY <2>1, <2>3, <2>4 DEF Outer
  <1>9. ASSUME NEW p \in Objects
        PROVE  WellFormed(g, p)
    <2>1. CASE Made(p)
      BY <1>3, <1>4, <2>1 DEF WellFormed
    <2>2. CASE ~Made(p)
      <3>1. ASSUME NEW i \in DOMAIN h[p].slots
            PROVE  g[h[p].slots[i]].type = h[h[p].slots[i]].type
        <4>1. h[p].slots[i] \in Objects /\ h[h[p].slots[i]].type # Vacant
          BY HeldIsLive
        <4> QED
          BY <1>2, <1>3, <4>1 DEF Nothing
      <3>2. WellFormed(h, p)
        BY DEF GoodHeap
      <3> QED
        BY <1>1, <1>3, <1>5, <2>2, <3>1, <3>2, WellFormedSame
    <2> QED
      BY <2>1, <2>2
  <1>10. GoodHeap(g)
    BY <1>6, <1>8, <1>9 DEF GoodHeap
  <1>11. KeepsTypes(h, g)
    BY <1>2, <1>3 DEF KeepsTypes, Nothing
  <1> QED
    BY <1>1, <1>8, <1>10, <1>11 DEF g

--------------------------------------------------------------------------------
(* A release beside an object that stays *)

\* The same heap, but for what s owns.
SameBut(h, g, s) ==
    /\ \A o \in Objects \ {s} : g[o] = h[o]
    /\ g[s].type = h[s].type /\ g[s].refs = h[s].refs

\* One release of the same object in both.
LEMMA OneBeside ==
  ASSUME NEW s \in Objects, NEW h \in Heaps, NEW k \in Heaps, SameBut(h, k, s),
         NEW q \in Objects, q = s => k[s].refs # 1,
         NEW g \in Heaps, NEW next, OneReleased(h, q, g, next),
         NEW l \in Heaps, NEW also, OneReleased(k, q, l, also)
  PROVE  also = next /\ SameBut(g, l, s) /\ g[s].slots = h[s].slots
  <1>1. CASE q = s
    BY <1>1 DEF OneReleased, SameBut
  <1>2. CASE q # s
    <2>1. k[q] = h[q] /\ g[s] = h[s] /\ l[s] = k[s]
      BY <1>2 DEF OneReleased, SameBut
    <2>2. \A o \in Objects \ {q} : g[o] = h[o] /\ l[o] = k[o]
      BY DEF OneReleased
    <2>3. also = next /\ l[q] = g[q]
      <3>1. /\ l[q] = [type |-> l[q].type, refs |-> l[q].refs, slots |-> l[q].slots]
            /\ g[q] = [type |-> g[q].type, refs |-> g[q].refs, slots |-> g[q].slots]
        BY HeapParts
      <3> QED
        BY <2>1, <3>1 DEF OneReleased
    <2> QED
      BY <2>1, <2>2, <2>3 DEF SameBut
  <1> QED
    BY <1>1, <1>2

\* What a release does beside s, whatever s owns.
ReleasedBeside(s, k, os) ==
    SoundHeap(k) /\ Releasable(k, os) /\ Left(k, os, s) > 0
        => \A h \in Heaps :
                SameBut(h, k, s) => /\ SameBut(Released(h, os), Released(k, os), s)
                                    /\ Released(h, os)[s].slots = h[s].slots

\* An object that stays may be given other slots before the release as well as after.
LEMMA ReleaseBeside ==
  ASSUME NEW s \in Objects, NEW k \in Heaps, NEW os \in Seq(Objects)
  PROVE  ReleasedBeside(s, k, os)
  <1> DEFINE P == {x \in Calls : ReleasedBeside(s, x[1], x[2])}
  <1>1. ASSUME NEW g \in Heaps
        PROVE  <<g, <<>>>> \in P
    <2>1. \A h \in Heaps : Released(h, <<>>) = h
      BY ReleasedIs
    <2>2. ReleasedBeside(s, g, <<>>)
      BY <2>1 DEF ReleasedBeside
    <2> QED
      BY <2>2, EmptyCall
  <1>2. ASSUME NEW g \in Heaps, NEW t \in Seq(Objects), t # <<>>, ReleaseFirst(g, t) \in P
        PROVE  <<g, t>> \in P
    <2> DEFINE q == Head(t)
               rest == Tail(t)
    <2>1. q \in Objects /\ rest \in Seq(Objects)
      BY <1>2, ReleaseFirstType
    <2>2. PICK l \in Heaps, next \in Seq(Objects) :
            OneReleased(g, q, l, next) /\ ReleaseFirst(g, t) = <<l, next \o rest>>
      BY <1>2, ReleaseFirstType
    <2> DEFINE todo == next \o rest
    <2>3. todo \in Seq(Objects)
      BY <2>1
    <2> HIDE DEF todo
    <2>4. ReleaseFirst(g, t) = <<l, todo>>
      BY <2>2 DEF todo
    <2>5. Released(g, t) = Released(l, todo)
      BY <1>2, <2>3, <2>4, ReleasedIs
    <2>6. ReleasedBeside(s, l, todo)
      BY <1>2, <2>4
    <2>7. ASSUME SoundHeap(g), Releasable(g, t), Left(g, t, s) > 0,
                 NEW h \in Heaps, SameBut(h, g, s)
          PROVE  /\ SameBut(Released(h, t), Released(g, t), s)
                 /\ Released(h, t)[s].slots = h[s].slots
      <3>1. SoundHeap(l) /\ Releasable(l, todo) /\ Left(l, todo, s) > 0
        BY <1>2, <2>2, <2>7, StepIsExact DEF todo
      <3>2. PICK d \in Heaps, also \in Seq(Objects) :
              OneReleased(h, q, d, also) /\ ReleaseFirst(h, t) = <<d, also \o rest>>
        BY <1>2, ReleaseFirstType
      <3>3. q = s => g[s].refs # 1
        <4>1. Count(t, s) = Turn(q, s) + Count(rest, s)
          BY <1>2, CountHead
        <4>2. g[s].refs \in Int /\ Held(g, s) \in Nat /\ Count(rest, s) \in Nat
          BY <2>1, OuterType
        <4> HIDE DEF q, rest
        <4> QED
          BY <2>7, <4>1, <4>2 DEF Left, Outer, Turn
      <3> HIDE DEF q, rest
      <3>4. next = also /\ SameBut(d, l, s) /\ d[s].slots = h[s].slots
        BY <2>1, <2>2, <2>7, <3>2, <3>3, OneBeside
      <3>5. ReleaseFirst(h, t) = <<d, todo>>
        BY <3>2, <3>4 DEF todo
      <3>6. Released(h, t) = Released(d, todo)
        BY <1>2, <2>3, <3>5, ReleasedIs
      <3> QED
        BY <2>5, <2>6, <3>1, <3>4, <3>6 DEF ReleasedBeside
    <2>8. ReleasedBeside(s, g, t)
      BY <2>7 DEF ReleasedBeside
    <2> QED
      BY <2>8 DEF Calls
  <1>3. <<k, os>> \in P
    <2> HIDE DEF P
    <2> QED
      BY <1>1, <1>2, CallsInduction
  <1> QED
    BY <1>3

\* An object's slot changes.
LEMMA SlotUpdate ==
  ASSUME NEW h \in Heaps, NEW s \in Objects, NEW i \in DOMAIN h[s].slots, NEW v \in Objects
  PROVE  LET g == [h EXCEPT ![s].slots[i] = v]
         IN /\ g \in Heaps /\ SameBut(h, g, s)
            /\ g[s].slots = [h[s].slots EXCEPT ![i] = v]
  <1> DEFINE slots == [h[s].slots EXCEPT ![i] = v]
             rec == [h[s] EXCEPT !.slots = slots]
             g == [h EXCEPT ![s] = rec]
  <1>1. h[s] \in [type : Types \cup {Vacant}, refs : Int, slots : Seq(Objects)]
    BY DEF Heaps
  <1>2. slots \in Seq(Objects)
    BY <1>1
  <1>3. g = [h EXCEPT ![s].slots[i] = v]
    OBVIOUS
  <1> HIDE DEF slots
  <1>4. rec \in [type : Types \cup {Vacant}, refs : Int, slots : Seq(Objects)]
        /\ rec.type = h[s].type /\ rec.slots = slots /\ rec.refs = h[s].refs
    BY <1>1, <1>2
  <1> HIDE DEF rec
  <1>5. g \in Heaps /\ g[s] = rec /\ \A p \in Objects \ {s} : g[p] = h[p]
    BY <1>4 DEF Heaps
  <1> HIDE DEF g
  <1>6. g \in Heaps /\ SameBut(h, g, s) /\ g[s].slots = slots
    BY <1>4, <1>5 DEF SameBut
  <1> QED
    BY <1>3, <1>6 DEF slots

\* A slot gets a value for the one it held.
Stored(h, s, i, v) == [Released(h, <<h[s].slots[i]>>) EXCEPT ![s].slots[i] = v]

\* To take a value from outside into a slot, for another of its type that is released:
\* the object, owned from outside itself, outlives the release.
LEMMA StoredIsGood ==
  ASSUME NEW h, GoodHeap(h), NEW s \in Objects, NEW i \in DOMAIN h[s].slots, NEW v \in Objects,
         Outer(h, v) >= 1, Outer(h, s) >= 1 + Turn(v, s), h[v].type = h[h[s].slots[i]].type
  PROVE  LET g == Stored(h, s, i, v)
         IN /\ GoodHeap(g) /\ Fades(h, g)
            /\ \A o \in Objects : Outer(g, o) = Outer(h, o) - Turn(v, o)
  <1> DEFINE old == h[s].slots[i]
             k == [h EXCEPT ![s].slots[i] = v]
             d == Released(h, <<old>>)
             r == Released(k, <<old>>)
             g == [d EXCEPT ![s].slots[i] = v]
  <1>1. h \in Heaps /\ SoundHeap(h) /\ h[s].slots \in Seq(Objects)
    BY HeapParts DEF GoodHeap, SoundHeap
  <1>2. old \in Objects /\ <<old>> \in Seq(Objects)
    BY HeldIsLive
  <1>3. k \in Heaps /\ SameBut(h, k, s) /\ k[s].slots = [h[s].slots EXCEPT ![i] = v]
    BY <1>1, SlotUpdate
  <1> HIDE DEF k
  <1>4. \A o \in Objects : k[o].type = h[o].type /\ k[o].refs = h[o].refs
    BY <1>3 DEF SameBut
  <1>5. ASSUME NEW o \in Objects
        PROVE  Outer(k, o) = Outer(h, o) + Turn(old, o) - Turn(v, o) /\ Outer(h, o) \in Int
    <2>1. Count(k[s].slots, o) = Count(h[s].slots, o) - Turn(old, o) + Turn(v, o)
      <3> DEFINE f == h[s].slots
                 e == k[s].slots
      <3>1. /\ IsFiniteSet(DOMAIN f) /\ i \in DOMAIN f /\ DOMAIN e = DOMAIN f
            /\ \A x \in DOMAIN f \ {i} : e[x] = f[x]
        BY <1>1, <1>3, PlacesFinite
      <3>2. f[i] = old /\ e[i] = v
        BY <1>3
      <3> HIDE DEF f, e, old
      <3>3. Count(e, o) = Count(f, o) - Turn(f[i], o) + Turn(e[i], o)
        BY <3>1, CountUpdate
      <3> QED
        BY <3>2, <3>3 DEF f, e
    <2>2. /\ Held(h, o) \in Nat /\ Count(h[s].slots, o) \in Nat
          /\ Held(k, o) = Held(h, o) - Count(h[s].slots, o) + Count(k[s].slots, o)
      <3>1. /\ k \in Heaps /\ h \in Heaps
            /\ \A x \in Objects \ {s} : k[x].slots = h[x].slots
        BY <1>1, <1>3 DEF SameBut
      <3> QED
        BY <3>1, HeldUpdate, Zenon
    <2>3. h[o].refs \in Int /\ Turn(old, o) \in Nat /\ Turn(v, o) \in Nat
      BY <1>1, HeapParts DEF Turn
    <2> HIDE DEF old
    <2> QED
      BY <1>4, <2>1, <2>2, <2>3 DEF Outer
  <1>6. ASSUME NEW o \in Objects
        PROVE  /\ Left(k, <<old>>, o) = Outer(h, o) - Turn(v, o)
               /\ Left(k, <<old>>, o) >= 0 /\ Outer(k, o) >= 0
    <2>1. Count(<<old>>, o) = Turn(old, o) /\ Turn(old, o) \in Nat
      BY CountSingle
    <2>2. Outer(h, o) >= Turn(v, o) /\ Turn(v, o) \in Nat
      BY DEF GoodHeap, Turn
    <2> HIDE DEF old
    <2> QED
      BY <1>5, <2>1, <2>2 DEF Left
  <1>7. GoodHeap(k)
    <2>1. SoundHeap(k)
      <3>1. h[s].type # Vacant
        BY HeldIsLive
      <3> QED
        BY <1>1, <1>3, <1>4, <3>1 DEF SoundHeap, SameBut
    <2>2. ASSUME NEW o \in Objects
          PROVE  WellFormed(k, o)
      <3>1. \A j \in DOMAIN h[o].slots : h[o].slots[j] \in Objects
        BY HeldIsLive
      <3>2. WellFormed(h, o)
        BY DEF GoodHeap
      <3>3. CASE o # s
        <4>1. k[o] = h[o]
          BY <1>3, <3>3 DEF SameBut
        <4> QED
          BY <1>1, <1>3, <1>4, <3>1, <3>2, <4>1, WellFormedSame
      <3>4. CASE o = s
        <4> DEFINE f == h[s].slots
                   e == k[s].slots
        <4>1. f \in Seq(Objects) /\ e = [f EXCEPT ![i] = v] /\ i \in DOMAIN f
          BY <1>1, <1>3
        <4>2. e \in Seq(Objects) /\ DOMAIN e = DOMAIN f /\ Len(e) = Len(f)
          BY <4>1
        <4>3. \A j \in DOMAIN f : k[e[j]].type = h[f[j]].type
          BY <1>4, <3>1, <3>4, <4>1
        <4> HIDE DEF f, e
        <4>4. [j \in DOMAIN e |-> k[e[j]].type] = [j \in DOMAIN f |-> h[f[j]].type]
          BY <4>2, <4>3
        <4>5. Len(f) = 1 => k[e[1]].type = h[f[1]].type
          BY <4>1, <4>3
        <4>6. f # <<>>
          BY <4>1
        <4>7. CASE h[s].type \in Structs
          BY <1>4, <3>2, <3>4, <4>4, <4>7 DEF WellFormed, f, e
        <4>8. CASE h[s].type \notin Structs /\ h[s].type \in Protocols
          BY <1>4, <3>2, <3>4, <4>2, <4>5, <4>8 DEF WellFormed, f, e
        <4>9. CASE h[s].type \notin Structs /\ h[s].type \notin Protocols
          BY <3>2, <3>4, <4>6, <4>9 DEF WellFormed, f
        <4> QED
          BY <4>7, <4>8, <4>9
      <3> QED
        BY <3>3, <3>4
    <2> QED
      BY <1>6, <2>1, <2>2 DEF GoodHeap
  <1>8. Releasable(k, <<old>>) /\ Left(k, <<old>>, s) > 0
    <2>1. Left(k, <<old>>, s) = Outer(h, s) - Turn(v, s) /\ Outer(h, s) \in Int
      BY <1>5, <1>6
    <2>2. Turn(v, s) \in Nat
      BY DEF Turn
    <2> QED
      BY <1>6, <2>1, <2>2 DEF Releasable
  <1> HIDE DEF old
  <1>9. /\ GoodHeap(r) /\ Fades(k, r)
        /\ \A o \in Objects : Outer(r, o) = Left(k, <<old>>, o)
    BY <1>2, <1>7, <1>8, ReleasedIsGood
  <1>10. r[s].slots = k[s].slots
    BY <1>2, <1>7, <1>8, OwnedRemains DEF GoodHeap
  <1>11. SameBut(d, r, s) /\ d[s].slots = h[s].slots
    <2>1. ReleasedBeside(s, k, <<old>>)
      BY <1>2, <1>3, ReleaseBeside
    <2> QED
      BY <1>1, <1>3, <1>7, <1>8, <2>1 DEF ReleasedBeside, GoodHeap
  <1>12. d \in Heaps /\ r \in Heaps
    BY <1>1, <1>2, <1>3, ReleaseRemains
  <1> HIDE DEF d, r
  <1>13. g = r
    <2>1. i \in DOMAIN d[s].slots
      BY <1>11
    <2>2. g \in Heaps /\ SameBut(d, g, s) /\ g[s].slots = [d[s].slots EXCEPT ![i] = v]
      BY <1>12, <2>1, SlotUpdate
    <2> HIDE DEF g
    <2>3. \A o \in Objects : /\ g[o].type = r[o].type /\ g[o].refs = r[o].refs
                             /\ g[o].slots = r[o].slots
      BY <1>3, <1>10, <1>11, <2>2 DEF SameBut
    <2>4. \A o \in Objects : g[o] = r[o]
      <3> TAKE o \in Objects
      <3>1. /\ g[o] = [type |-> g[o].type, refs |-> g[o].refs, slots |-> g[o].slots]
            /\ r[o] = [type |-> r[o].type, refs |-> r[o].refs, slots |-> r[o].slots]
        BY <1>12, <2>2, HeapParts
      <3> QED
        BY <2>3, <3>1, Zenon
    <2> QED
      BY <1>12, <2>2, <2>4 DEF Heaps
  <1>14. Fades(h, r)
    BY <1>4, <1>9 DEF Fades
  <1>15. \A o \in Objects : Outer(r, o) = Outer(h, o) - Turn(v, o)
    BY <1>6, <1>9
  <1> QED
    BY <1>9, <1>13, <1>14, <1>15 DEF d, old, Stored

--------------------------------------------------------------------------------
(* The end of a context *)

\* To drop all the references to an object leaves a heap.
LEMMA DroppedType ==
  ASSUME NEW h \in Heaps, NEW o \in Objects
  PROVE  /\ Dropped(h, o) \in Heaps
         /\ [i \in 1..(IF h[o].refs > 1 THEN h[o].refs ELSE 1) |-> o] \in Seq(Objects)
  <1> DEFINE n == IF h[o].refs > 1 THEN h[o].refs ELSE 1
  <1>1. n \in Nat
    <2>1. h[o].refs \in Int
      BY HeapParts
    <2> QED
      BY <2>1
  <1>2. Dropped(h, o) = Released(h, [i \in 1..n |-> o])
    BY DEF Dropped
  <1> HIDE DEF n
  <1>3. [i \in 1..n |-> o] \in Seq(Objects)
    BY <1>1
  <1>4. Dropped(h, o) \in Heaps
    BY <1>2, <1>3, ReleaseRemains
  <1> QED
    BY <1>3, <1>4 DEF n

\* DropAll is what its definition says.
LEMMA DropAllDefined ==
  DropAll = [x \in Calls |-> IF x[2] = <<>> THEN x[1]
                             ELSE DropAll[<<Dropped(x[1], Head(x[2])), Tail(x[2])>>]]
  <1> DEFINE final == {x \in Calls : x[2] = <<>>}
             next == [x \in Calls \ final |-> <<Dropped(x[1], Head(x[2])), Tail(x[2])>>]
             size == [x \in Calls |-> Len(x[2])]
             end == [x \in Calls |-> x[1]]
  <1>1. \A x \in Calls \ final : /\ x[1] \in Heaps /\ x[2] \in Seq(Objects) /\ x[2] # <<>>
                                 /\ Head(x[2]) \in Objects /\ Tail(x[2]) \in Seq(Objects)
                                 /\ Len(x[2]) \in Nat /\ Len(Tail(x[2])) = Len(x[2]) - 1
    BY DEF Calls
  <1>2. next \in [Calls \ final -> Calls]
    <2>1. \A x \in Calls \ final : <<Dropped(x[1], Head(x[2])), Tail(x[2])>> \in Calls
      BY <1>1, DroppedType DEF Calls
    <2> QED
      BY <2>1
  <1>3. size \in [Calls -> Nat]
    <2>1. \A x \in Calls : Len(x[2]) \in Nat
      BY DEF Calls
    <2> QED
      BY <2>1
  <1>4. \A x \in Calls \ final : size[next[x]] < size[x]
    <2> TAKE x \in Calls \ final
    <2>1. next[x] \in Calls /\ next[x][2] = Tail(x[2])
      BY <1>2
    <2> HIDE DEF next
    <2>2. size[next[x]] = Len(Tail(x[2]))
      BY <2>1
    <2> QED
      BY <1>1, <2>2
  <1>5. Falls(Calls, final, next, size)
    BY <1>2, <1>3, <1>4 DEF Falls
  <1> HIDE DEF final, next, size, end
  <1>6. \E f : f = [x \in Calls |-> IF x \in final THEN end[x] ELSE f[next[x]]]
    BY <1>5, TailRecursion
  <1> USE DEF final, next, end
  <1>7. PICK f : f = [x \in Calls |-> IF x \in final THEN end[x] ELSE f[next[x]]]
    BY <1>6
  <1>8. f = [x \in Calls |-> IF x[2] = <<>> THEN x[1]
                             ELSE f[<<Dropped(x[1], Head(x[2])), Tail(x[2])>>]]
    <2>1. \A x \in Calls : (IF x \in final THEN end[x] ELSE f[next[x]])
                            = (IF x[2] = <<>> THEN x[1]
                               ELSE f[<<Dropped(x[1], Head(x[2])), Tail(x[2])>>])
      OBVIOUS
    <2> HIDE DEF final, next, end
    <2> QED
      BY <1>7, <2>1, Zenon
  <1> HIDE DEF final, next, size, end
  <1> QED
    BY <1>8, Zenon DEF DropAll, Calls

\* A heap of which no object owns another.
Loose(h) == GoodHeap(h) /\ \A o \in Objects : h[o].slots = <<>>

\* All references are then owned from outside.
LEMMA LooseOuter ==
  ASSUME NEW h, Loose(h), NEW o \in Objects
  PROVE  Outer(h, o) = h[o].refs /\ h[o].refs \in Int
  <1>1. h \in Heaps
    BY DEF Loose, GoodHeap, SoundHeap
  <1>2. SlotsOf(h, Objects, {o}) = {}
    <2>1. \A p \in Objects : DOMAIN h[p].slots = {}
      BY DEF Loose
    <2> QED
      BY <2>1 DEF SlotsOf, Hits
  <1>3. Held(h, o) = 0
    BY <1>2, FS_EmptySet DEF Held, InSlots
  <1>4. h[o].refs \in Int
    BY <1>1, HeapParts
  <1> QED
    BY <1>3, <1>4 DEF Outer

\* To drop one object changes no other.
LEMMA DroppedIsGone ==
  ASSUME NEW h, Loose(h), NEW o \in Objects, h[o].type # Vacant
  PROVE  /\ Loose(Dropped(h, o)) /\ Dropped(h, o)[o].type = Vacant
         /\ \A p \in Objects \ {o} : Dropped(h, o)[p].type = Vacant <=> h[p].type = Vacant
  <1> DEFINE n == h[o].refs
             os == [i \in 1..n |-> o]
             g == Dropped(h, o)
  <1>1. h \in Heaps /\ GoodHeap(h) /\ n \in Int /\ n > 0
    BY LooseOuter DEF Loose, GoodHeap, SoundHeap
  <1>2. os \in Seq(Objects) /\ g = Released(h, os)
    <2> DEFINE k == IF h[o].refs > 1 THEN h[o].refs ELSE 1
    <2>1. k = n
      BY <1>1
    <2>2. Dropped(h, o) = Released(h, [i \in 1..k |-> o]) /\ [i \in 1..k |-> o] \in Seq(Objects)
      BY <1>1, DroppedType DEF Dropped
    <2> HIDE DEF k, n
    <2> QED
      BY <2>1, <2>2
  <1>3. \A p \in Objects : Count(os, p) = IF p = o THEN n ELSE 0
    <2> TAKE p \in Objects
    <2>1. Hits(os, {p}) = IF p = o THEN 1..n ELSE {}
      BY DEF Hits
    <2>2. Cardinality(1..n) = n /\ Cardinality({}) = 0
      BY <1>1, FS_Interval, FS_EmptySet
    <2> QED
      BY <2>1, <2>2 DEF Count, Times
  <1> HIDE DEF os
  <1>4. \A p \in Objects : Left(h, os, p) = IF p = o THEN 0 ELSE h[p].refs
    <2> TAKE p \in Objects
    <2>1. Outer(h, p) = h[p].refs /\ h[p].refs \in Int
      BY LooseOuter
    <2> QED
      BY <1>3, <2>1 DEF Left
  <1>5. \A p \in Objects : h[p].refs >= 0 /\ (h[p].refs = 0 <=> h[p].type = Vacant)
    <2> TAKE p \in Objects
    <2>1. h[p].refs \in Int
      BY LooseOuter
    <2> QED
      BY <2>1 DEF Loose, GoodHeap, SoundHeap, Nothing
  <1>6. Releasable(h, os)
    BY <1>4, <1>5 DEF Releasable
  <1>7. GoodHeap(g) /\ \A p \in Objects : Outer(g, p) = Left(h, os, p)
    BY <1>1, <1>2, <1>6, ReleasedIsGood
  <1>8. \A p \in Objects : g[p].slots = <<>>
    BY <1>1, <1>2, ReleaseRemains DEF Remains, RemainsOf, Loose
  <1>9. Loose(g)
    BY <1>7, <1>8 DEF Loose
  <1>10. \A p \in Objects : g[p].refs = 0 <=> g[p].type = Vacant
    <2> TAKE p \in Objects
    <2>1. g[p].refs \in Int
      BY <1>9, LooseOuter
    <2> QED
      BY <1>9, <2>1 DEF Loose, GoodHeap, SoundHeap, Nothing
  <1>11. \A p \in Objects : g[p].refs = IF p = o THEN 0 ELSE h[p].refs
    BY <1>4, <1>7, <1>9, LooseOuter
  <1> QED
    BY <1>5, <1>9, <1>10, <1>11

\* The objects that live, one after the other.
Lists(s, h) ==
    /\ s \in Seq(Objects) /\ IsInjective(s)
    /\ \A o \in Objects : h[o].type # Vacant <=> \E i \in DOMAIN s : s[i] = o

\* YmCtx::reset leaves nothing behind, in whatever order it takes the objects that are
\* left, if these own nothing.
THEOREM ResetLeavesNothing ==
  ASSUME NEW h, NEW s, Loose(h), Lists(s, h)
  PROVE  DropAll[<<h, s>>] = [o \in Objects |-> Nothing]
  <1> DEFINE Bad(x) == /\ Loose(x[1]) /\ Lists(x[2], x[1])
                       /\ DropAll[x] # [o \in Objects |-> Nothing]
             lengths == {Len(x[2]) : x \in {y \in Calls : Bad(y)}}
  <1>1. SUFFICES ASSUME Bad(<<h, s>>) PROVE FALSE
    OBVIOUS
  <1>2. <<h, s>> \in Calls
    BY DEF Loose, GoodHeap, SoundHeap, Lists, Calls
  <1>3. lengths \subseteq Nat /\ lengths # {}
    <2>1. \A x \in Calls : Len(x[2]) \in Nat
      BY DEF Calls
    <2> HIDE DEF Bad
    <2> QED
      BY <1>1, <1>2, <2>1
  <1>4. PICK n \in lengths : \A k \in lengths : n <= k
    BY <1>3, LeastNumber
  <1>5. PICK x \in Calls : Bad(x) /\ Len(x[2]) = n
    BY <1>4
  <1>6. PICK g \in Heaps, t \in Seq(Objects) : x = <<g, t>>
    BY <1>5 DEF Calls
  <1>7. Loose(g) /\ Lists(t, g) /\ DropAll[<<g, t>>] # [o \in Objects |-> Nothing]
    BY <1>5, <1>6
  <1>8. CASE t = <<>>
    <2>1. DropAll[<<g, t>>] = g
      BY <1>5, <1>6, <1>8, DropAllDefined
    <2>2. \A o \in Objects : g[o] = Nothing
      <3>1. \A o \in Objects : g[o].type = Vacant
        BY <1>7, <1>8 DEF Lists
      <3> QED
        BY <1>7, <3>1 DEF Loose, GoodHeap, SoundHeap
    <2>3. g = [o \in Objects |-> Nothing]
      BY <2>2 DEF Heaps
    <2> QED
      BY <1>7, <2>1, <2>3
  <1>9. CASE t # <<>>
    <2> DEFINE o == Head(t)
               rest == Tail(t)
               d == Dropped(g, o)
    <2>1. /\ o \in Objects /\ rest \in Seq(Objects) /\ Len(t) \in Nat
          /\ Len(rest) = Len(t) - 1 /\ Len(rest) \in Nat
          /\ DOMAIN t = 1..Len(t) /\ DOMAIN rest = 1..Len(t) - 1
          /\ t[1] = o /\ 1 \in DOMAIN t /\ \A i \in 1..Len(t) - 1 : rest[i] = t[i + 1]
      BY <1>9
    <2>2. DropAll[<<g, t>>] = DropAll[<<d, rest>>]
      BY <1>5, <1>6, <1>9, DropAllDefined
    <2> HIDE DEF o, rest, d
    <2>3. g[o].type # Vacant
      BY <1>7, <2>1 DEF Lists
    <2>4. /\ Loose(d) /\ d[o].type = Vacant
          /\ \A p \in Objects \ {o} : d[p].type = Vacant <=> g[p].type = Vacant
      BY <1>7, <2>1, <2>3, DroppedIsGone DEF d
    <2>5. IsInjective(rest) /\ \A i \in DOMAIN rest : rest[i] # o
      <3>1. \A i, j \in DOMAIN t : t[i] = t[j] => i = j
        BY <1>7 DEF Lists, IsInjective
      <3>2. \A i \in DOMAIN rest : i + 1 \in DOMAIN t /\ i + 1 # 1 /\ rest[i] = t[i + 1]
        BY <2>1
      <3>3. \A i, j \in DOMAIN rest : i + 1 = j + 1 => i = j
        BY <2>1
      <3> QED
        BY <2>1, <3>1, <3>2, <3>3 DEF IsInjective
    <2>6. \A p \in Objects \ {o} : (\E i \in DOMAIN t : t[i] = p)
                                        <=> \E i \in DOMAIN rest : rest[i] = p
      <3> TAKE p \in Objects \ {o}
      <3>1. ASSUME NEW i \in DOMAIN t, t[i] = p
            PROVE  \E j \in DOMAIN rest : rest[j] = p
        <4>1. i # 1 /\ i - 1 \in DOMAIN rest /\ (i - 1) + 1 = i
          BY <2>1, <3>1
        <4> QED
          BY <2>1, <3>1, <4>1
      <3>2. ASSUME NEW i \in DOMAIN rest, rest[i] = p
            PROVE  \E j \in DOMAIN t : t[j] = p
        <4>1. i + 1 \in DOMAIN t /\ t[i + 1] = p
          BY <2>1, <3>2
        <4> QED
          BY <4>1
      <3> QED
        BY <3>1, <3>2
    <2>7. Lists(rest, d)
      BY <1>7, <2>1, <2>4, <2>5, <2>6 DEF Lists
    <2>8. <<d, rest>> \in Calls
      BY <2>1, <2>4 DEF Loose, GoodHeap, SoundHeap, Calls
    <2>9. Bad(<<d, rest>>)
      BY <1>7, <2>2, <2>4, <2>7
    <2> HIDE DEF Bad
    <2>10. Len(rest) \in lengths
      BY <2>8, <2>9
    <2> QED
      BY <1>4, <1>5, <1>6, <2>1, <2>10
  <1> QED
    BY <1>8, <1>9

--------------------------------------------------------------------------------
(* Machines whose stack owns what it holds *)

\* The references to o that neither an object nor the stack owns.
Spare(m, o) == Outer(m.heap, o) - Count(m.stk, o)

FitMachine(m) ==
    /\ m = [heap |-> m.heap, stk |-> m.stk, ok |-> m.ok]
    /\ GoodHeap(m.heap) /\ m.stk \in Seq(Objects)
    /\ \A o \in Objects : Spare(m, o) >= 0

\* The numbers are numbers.
LEMMA SpareType ==
  ASSUME NEW m, GoodHeap(m.heap), m.stk \in Seq(Objects), NEW o \in Objects
  PROVE  /\ m.heap \in Heaps /\ SoundHeap(m.heap)
         /\ Outer(m.heap, o) \in Int /\ Count(m.stk, o) \in Nat /\ Spare(m, o) \in Int
         /\ Spare(m, o) = Outer(m.heap, o) - Count(m.stk, o)
  <1>1. m.heap \in Heaps /\ SoundHeap(m.heap)
    BY DEF GoodHeap, SoundHeap
  <1>2. Outer(m.heap, o) \in Int /\ Count(m.stk, o) \in Nat
    BY <1>1, OuterType
  <1> QED
    BY <1>1, <1>2 DEF Spare

\* What is spare, or on the stack, lives.
LEMMA SpareIsLive ==
  ASSUME NEW m, FitMachine(m), NEW o \in Objects, Spare(m, o) >= 1 \/ Count(m.stk, o) >= 1
  PROVE  m.heap[o].type # Vacant
  <1>1. Outer(m.heap, o) > 0
    <2>1. Spare(m, o) >= 0
      BY DEF FitMachine
    <2> QED
      BY <2>1, SpareType DEF FitMachine
  <1> QED
    BY <1>1, OwnedIsLive DEF FitMachine, GoodHeap

\* A machine put together from its parts.
LEMMA FitParts ==
  ASSUME NEW h, NEW s, NEW b, NEW m, m = [heap |-> h, stk |-> s, ok |-> b],
         GoodHeap(h), s \in Seq(Objects), \A o \in Objects : Outer(h, o) >= Count(s, o)
  PROVE  FitMachine(m)
  <1>1. m.heap = h /\ m.stk = s /\ m = [heap |-> m.heap, stk |-> m.stk, ok |-> m.ok]
    OBVIOUS
  <1>2. \A o \in Objects : Spare(m, o) >= 0
    <2> TAKE o \in Objects
    <2>1. Outer(h, o) >= Count(s, o)
      OBVIOUS
    <2>2. Outer(h, o) \in Int /\ Count(s, o) \in Nat /\ Spare(m, o) = Outer(h, o) - Count(s, o)
      BY <1>1, SpareType
    <2> QED
      BY <2>1, <2>2
  <1> QED
    BY <1>1, <1>2 DEF FitMachine

\* m comes to be n, whose success is ok, with no new objects.
Follows(m, n, ok) == FitMachine(n) /\ n.ok = ok /\ Fades(m.heap, n.heap)

\* So, with or without success.
Became(m, n) == FitMachine(n) /\ Fades(m.heap, n.heap)

\* release of what is spare.
LEMMA ReleasedInFits ==
  ASSUME NEW m, FitMachine(m), NEW os \in Seq(Objects),
         \A o \in Objects : Spare(m, o) >= Count(os, o)
  PROVE  LET n == ReleasedIn(m, os)
         IN /\ Follows(m, n, m.ok) /\ n.stk = m.stk
            /\ \A o \in Objects : Spare(n, o) = Spare(m, o) - Count(os, o)
  <1> DEFINE n == ReleasedIn(m, os)
             h == Released(m.heap, os)
  <1>1. GoodHeap(m.heap) /\ m.stk \in Seq(Objects) /\ m.heap \in Heaps
    BY DEF FitMachine, GoodHeap, SoundHeap
  <1>2. n = [heap |-> h, stk |-> m.stk, ok |-> m.ok]
    BY DEF ReleasedIn, FitMachine
  <1>3. \A o \in Objects : Left(m.heap, os, o) = Outer(m.heap, o) - Count(os, o)
    BY DEF Left
  <1>4. \A o \in Objects : /\ Outer(m.heap, o) \in Int /\ Count(m.stk, o) \in Nat
                           /\ Spare(m, o) = Outer(m.heap, o) - Count(m.stk, o)
                           /\ Count(os, o) \in Nat
    BY <1>1, SpareType, CountType
  <1>5. Releasable(m.heap, os)
    BY <1>3, <1>4 DEF Releasable
  <1>6. /\ GoodHeap(h) /\ Fades(m.heap, h)
        /\ \A o \in Objects : Outer(h, o) = Left(m.heap, os, o)
    BY <1>1, <1>5, ReleasedIsGood
  <1> HIDE DEF h
  <1>7. \A o \in Objects : Outer(h, o) >= Count(m.stk, o)
    BY <1>3, <1>4, <1>6
  <1> HIDE DEF n
  <1>8. FitMachine(n)
    BY <1>1, <1>2, <1>6, <1>7, FitParts
  <1>9. n.heap = h /\ n.stk = m.stk /\ n.ok = m.ok
    BY <1>2
  <1>10. \A o \in Objects : Spare(n, o) = Spare(m, o) - Count(os, o)
    <2> TAKE o \in Objects
    <2>1. Spare(n, o) = Outer(h, o) - Count(m.stk, o)
      BY <1>9 DEF Spare
    <2> QED
      BY <1>3, <1>4, <1>6, <2>1
  <1> QED
    BY <1>6, <1>8, <1>9, <1>10 DEF Follows, n

\* secure of what lives.
LEMMA BorrowedFits ==
  ASSUME NEW m, FitMachine(m), NEW o \in Objects, m.heap[o].type # Vacant
  PROVE  LET n == Borrowed(m, o, "borrow")
         IN /\ Follows(m, n, m.ok) /\ n.stk = m.stk
            /\ \A x \in Objects : /\ Spare(n, x) = Spare(m, x) + Turn(o, x)
                                  /\ n.heap[x].type = m.heap[x].type
                                  /\ n.heap[x].slots = m.heap[x].slots
  <1> DEFINE n == Borrowed(m, o, "borrow")
             h == Secured(m.heap, o)
  <1>1. GoodHeap(m.heap) /\ m.stk \in Seq(Objects)
    BY DEF FitMachine
  <1>2. n = [heap |-> h, stk |-> m.stk, ok |-> m.ok]
    BY DEF Borrowed, FitMachine
  <1>3. /\ GoodHeap(h) /\ Fades(m.heap, h)
        /\ \A p \in Objects : /\ h[p].type = m.heap[p].type /\ h[p].slots = m.heap[p].slots
                              /\ Outer(h, p) = Outer(m.heap, p) + Turn(o, p)
    BY <1>1, SecuredIsGood
  <1> HIDE DEF h, n
  <1>4. n.heap = h /\ n.stk = m.stk /\ n.ok = m.ok
    BY <1>2
  <1>5. ASSUME NEW x \in Objects
        PROVE  Spare(n, x) = Spare(m, x) + Turn(o, x) /\ Outer(h, x) >= Count(m.stk, x)
    <2>1. /\ Outer(m.heap, x) \in Int /\ Count(m.stk, x) \in Nat
          /\ Spare(m, x) = Outer(m.heap, x) - Count(m.stk, x)
      BY <1>1, SpareType
    <2>2. Turn(o, x) \in Nat /\ Spare(m, x) >= 0
      BY DEF Turn, FitMachine
    <2>3. Spare(n, x) = Outer(h, x) - Count(m.stk, x)
      BY <1>4 DEF Spare
    <2> QED
      BY <1>3, <2>1, <2>2, <2>3
  <1>6. FitMachine(n)
    BY <1>1, <1>2, <1>3, <1>5, FitParts
  <1> QED
    BY <1>3, <1>4, <1>5, <1>6 DEF Follows, n

\* push of what is spare.
LEMMA PushedFits ==
  ASSUME NEW m, FitMachine(m), NEW o \in Objects, Spare(m, o) >= 1
  PROVE  LET n == Pushed(m, o)
         IN /\ Follows(m, n, m.ok) /\ n.stk = Append(m.stk, o) /\ n.heap = m.heap
            /\ \A x \in Objects : Spare(n, x) = Spare(m, x) - Turn(o, x)
  <1> DEFINE n == Pushed(m, o)
             s == Append(m.stk, o)
  <1>1. GoodHeap(m.heap) /\ m.stk \in Seq(Objects)
    BY DEF FitMachine
  <1>2. n = [heap |-> m.heap, stk |-> s, ok |-> m.ok]
    BY DEF Pushed, FitMachine
  <1>3. s \in Seq(Objects) /\ \A x : Count(s, x) = Count(m.stk, x) + Turn(o, x)
    BY <1>1, CountAppend
  <1> HIDE DEF s, n
  <1>4. n.heap = m.heap /\ n.stk = s /\ n.ok = m.ok
    BY <1>2
  <1>5. ASSUME NEW x \in Objects
        PROVE  Spare(n, x) = Spare(m, x) - Turn(o, x) /\ Outer(m.heap, x) >= Count(s, x)
    <2>1. /\ Outer(m.heap, x) \in Int /\ Count(m.stk, x) \in Nat
          /\ Spare(m, x) = Outer(m.heap, x) - Count(m.stk, x)
      BY <1>1, SpareType
    <2>2. Turn(o, x) \in Nat /\ Spare(m, x) >= Turn(o, x)
      BY DEF Turn, FitMachine
    <2>3. Spare(n, x) = Outer(m.heap, x) - Count(s, x)
      BY <1>4 DEF Spare
    <2> QED
      BY <1>3, <2>1, <2>2, <2>3
  <1>6. FitMachine(n)
    BY <1>1, <1>2, <1>3, <1>5, FitParts
  <1> QED
    BY <1>4, <1>5, <1>6, FadesSame DEF Follows, n, s

\* A stack without its topmost objects.
LEMMA CutFits ==
  ASSUME NEW m, FitMachine(m), NEW k \in 0..Len(m.stk)
  PROVE  LET n == [m EXCEPT !.stk = SubSeq(m.stk, 1, k)]
             top == SubSeq(m.stk, k + 1, Len(m.stk))
         IN /\ Follows(m, n, m.ok) /\ n.stk = SubSeq(m.stk, 1, k) /\ n.heap = m.heap
            /\ top \in Seq(Objects)
            /\ \A x \in Objects : Spare(n, x) = Spare(m, x) + Count(top, x)
  <1> DEFINE s == SubSeq(m.stk, 1, k)
             n == [m EXCEPT !.stk = s]
             top == SubSeq(m.stk, k + 1, Len(m.stk))
  <1> HIDE DEF s
  <1>1. /\ GoodHeap(m.heap) /\ m.stk \in Seq(Objects)
        /\ m = [heap |-> m.heap, stk |-> m.stk, ok |-> m.ok]
    BY DEF FitMachine
  <1>2. n = [heap |-> m.heap, stk |-> s, ok |-> m.ok]
    BY <1>1
  <1> USE DEF s
  <1>3. /\ s \in Seq(Objects) /\ top \in Seq(Objects)
        /\ \A x : Count(m.stk, x) = Count(s, x) + Count(top, x)
    BY <1>1, CountCut
  <1> HIDE DEF s, n, top
  <1>4. n.heap = m.heap /\ n.stk = s /\ n.ok = m.ok
    BY <1>2
  <1>5. ASSUME NEW x \in Objects
        PROVE  Spare(n, x) = Spare(m, x) + Count(top, x) /\ Outer(m.heap, x) >= Count(s, x)
    <2>1. /\ Outer(m.heap, x) \in Int /\ Spare(m, x) = Outer(m.heap, x) - Count(m.stk, x)
      BY <1>1, SpareType
    <2>2. Count(s, x) \in Nat /\ Count(top, x) \in Nat /\ Spare(m, x) >= 0
      BY <1>3, CountType DEF FitMachine
    <2>3. Spare(n, x) = Outer(m.heap, x) - Count(s, x)
      BY <1>4 DEF Spare
    <2> QED
      BY <1>3, <2>1, <2>2, <2>3
  <1>6. FitMachine(n)
    BY <1>1, <1>2, <1>3, <1>5, FitParts
  <1> QED
    BY <1>3, <1>4, <1>5, <1>6, FadesSame DEF Follows, n, s, top

\* pop releases what the stack owned.
LEMMA PoppedFits ==
  ASSUME NEW m, FitMachine(m), NEW k \in 0..Len(m.stk)
  PROVE  LET n == Popped(m, k)
         IN /\ Follows(m, n, m.ok) /\ n.stk = SubSeq(m.stk, 1, Len(m.stk) - k)
            /\ \A x \in Objects : Spare(n, x) = Spare(m, x)
  <1> DEFINE rest == Len(m.stk) - k
             s == SubSeq(m.stk, 1, rest)
             top == SubSeq(m.stk, rest + 1, Len(m.stk))
             os == Reverse(top)
             c == [m EXCEPT !.stk = s]
             n == Popped(m, k)
  <1>1. m.stk \in Seq(Objects) /\ Len(m.stk) \in Nat
    BY DEF FitMachine
  <1>2. rest \in 0..Len(m.stk)
    BY <1>1
  <1>3. n = [ReleasedIn(m, os) EXCEPT !.stk = s]
    BY DEF Popped
  <1> HIDE DEF rest
  <1>4. /\ Follows(m, c, m.ok) /\ c.stk = s /\ c.heap = m.heap /\ top \in Seq(Objects)
        /\ \A x \in Objects : Spare(c, x) = Spare(m, x) + Count(top, x)
    BY <1>2, CutFits
  <1>5. os \in Seq(Objects) /\ \A x : Count(os, x) = Count(top, x)
    BY <1>4, CountReverse
  <1> HIDE DEF s, top, os
  <1>6. n = ReleasedIn(c, os)
    <2>1. m = [heap |-> m.heap, stk |-> m.stk, ok |-> m.ok]
      BY DEF FitMachine
    <2> DEFINE h == Released(m.heap, os)
    <2>2. ReleasedIn(m, os) = [m EXCEPT !.heap = h] /\ ReleasedIn(c, os) = [c EXCEPT !.heap = h]
      BY <1>4 DEF ReleasedIn
    <2> HIDE DEF h
    <2> QED
      BY <1>3, <2>1, <2>2
  <1> HIDE DEF c, n
  <1>7. FitMachine(c) /\ c.ok = m.ok /\ Fades(m.heap, c.heap)
    BY <1>4 DEF Follows
  <1>8. ASSUME NEW x \in Objects
        PROVE  /\ Spare(c, x) >= Count(os, x)
               /\ Spare(c, x) - Count(os, x) = Spare(m, x)
    <2>1. Spare(m, x) \in Int /\ Spare(m, x) >= 0 /\ Count(top, x) \in Nat
      BY <1>4, SpareType, CountType DEF FitMachine
    <2> QED
      BY <1>4, <1>5, <2>1
  <1>9. /\ Follows(c, n, c.ok) /\ n.stk = c.stk
        /\ \A x \in Objects : Spare(n, x) = Spare(c, x) - Count(os, x)
    BY <1>5, <1>6, <1>7, <1>8, ReleasedInFits
  <1>10. Follows(m, n, m.ok)
    BY <1>4, <1>7, <1>9 DEF Follows
  <1> QED
    BY <1>4, <1>8, <1>9, <1>10 DEF n, s, rest

\* A sequence with one element replaced.
LEMMA CountReplace ==
  ASSUME NEW S, NEW s \in Seq(S), NEW pos \in 1..Len(s), NEW o \in S
  PROVE  /\ [s EXCEPT ![pos] = o] \in Seq(S) /\ s[pos] \in S
         /\ Len([s EXCEPT ![pos] = o]) = Len(s)
         /\ \A x : Count([s EXCEPT ![pos] = o], x) = Count(s, x) - Turn(s[pos], x) + Turn(o, x)
  <1> DEFINE t == [s EXCEPT ![pos] = o]
  <1>1. /\ t \in Seq(S) /\ s[pos] \in S /\ DOMAIN t = DOMAIN s /\ pos \in DOMAIN s
        /\ t[pos] = o /\ \A i \in DOMAIN s \ {pos} : t[i] = s[i] /\ Len(t) = Len(s)
    OBVIOUS
  <1>2. Len(t) = Len(s)
    OBVIOUS
  <1>3. IsFiniteSet(DOMAIN s)
    BY PlacesFinite
  <1> HIDE DEF t
  <1>4. \A x : Count(t, x) = Count(s, x) - Turn(s[pos], x) + Turn(t[pos], x)
    BY <1>1, <1>3, CountUpdate
  <1> QED
    BY <1>1, <1>2, <1>4 DEF t

\* The object at a position is released, and another one takes its place.
Replaced(m, pos, o) == [ReleasedIn(m, <<m.stk[pos]>>) EXCEPT !.stk[pos] = o]

\* What is spare takes a place of the stack, and what stood there is released.
LEMMA TakenFits ==
  ASSUME NEW m, FitMachine(m), NEW pos \in 1..Len(m.stk), NEW o \in Objects, Spare(m, o) >= 1
  PROVE  LET n == Replaced(m, pos, o)
         IN /\ Follows(m, n, m.ok)
            /\ \A x \in Objects : Spare(n, x) = Spare(m, x) - Turn(o, x)
  <1> DEFINE old == m.stk[pos]
             s == [m.stk EXCEPT ![pos] = o]
             c == [heap |-> m.heap, stk |-> s, ok |-> m.ok]
             n == Replaced(m, pos, o)
  <1>1. /\ GoodHeap(m.heap) /\ m.stk \in Seq(Objects)
        /\ m = [heap |-> m.heap, stk |-> m.stk, ok |-> m.ok]
    BY DEF FitMachine
  <1>2. /\ s \in Seq(Objects) /\ old \in Objects
        /\ \A x : Count(s, x) = Count(m.stk, x) - Turn(old, x) + Turn(o, x)
    BY <1>1, CountReplace
  <1>3. n = ReleasedIn(c, <<old>>)
    <2> DEFINE h == Released(m.heap, <<old>>)
               r == ReleasedIn(m, <<old>>)
    <2> HIDE DEF old
    <2>1. r = [m EXCEPT !.heap = h]
      BY DEF ReleasedIn
    <2>2. ReleasedIn(c, <<old>>) = [c EXCEPT !.heap = h]
      <3> HIDE DEF s
      <3> QED
        BY DEF ReleasedIn
    <2> HIDE DEF h, r
    <2>3. r = [heap |-> h, stk |-> m.stk, ok |-> m.ok]
      BY <1>1, <2>1
    <2>4. [r EXCEPT !.stk[pos] = o] = [r EXCEPT !.stk = s]
      BY <2>3
    <2> HIDE DEF s
    <2>5. [r EXCEPT !.stk[pos] = o] = [heap |-> h, stk |-> s, ok |-> m.ok]
      BY <2>3, <2>4
    <2> QED
      BY <2>2, <2>5 DEF r, Replaced, old
  <1>4. c.heap = m.heap /\ c.stk = s /\ c.ok = m.ok
    OBVIOUS
  <1>5. <<old>> \in Seq(Objects) /\ \A x : Count(<<old>>, x) = Turn(old, x)
    BY <1>2, CountSingle
  <1> HIDE DEF s, old, n
  <1>6. ASSUME NEW x \in Objects
        PROVE  /\ Spare(c, x) = Spare(m, x) + Turn(old, x) - Turn(o, x)
               /\ Outer(m.heap, x) >= Count(s, x) /\ Spare(c, x) >= Turn(old, x)
    <2>1. /\ Outer(m.heap, x) \in Int /\ Count(m.stk, x) \in Nat
          /\ Spare(m, x) = Outer(m.heap, x) - Count(m.stk, x)
      BY <1>1, SpareType
    <2>2. Turn(o, x) \in Nat /\ Turn(old, x) \in Nat /\ Spare(m, x) >= Turn(o, x)
      BY DEF Turn, FitMachine
    <2>3. Spare(c, x) = Outer(m.heap, x) - Count(s, x)
      BY <1>4 DEF Spare
    <2> QED
      BY <1>2, <2>1, <2>2, <2>3
  <1>7. FitMachine(c)
    BY <1>1, <1>2, <1>6, FitParts
  <1> HIDE DEF c
  <1>8. /\ Follows(c, n, c.ok) /\ n.stk = c.stk
        /\ \A x \in Objects : Spare(n, x) = Spare(c, x) - Count(<<old>>, x)
    <2>1. \A x \in Objects : Spare(c, x) >= Count(<<old>>, x)
      BY <1>5, <1>6
    <2> QED
      BY <1>3, <1>5, <1>7, <2>1, ReleasedInFits
  <1>9. \A x \in Objects : Spare(n, x) = Spare(m, x) - Turn(o, x)
    <2> TAKE x \in Objects
    <2>1. Spare(m, x) \in Int /\ Turn(o, x) \in Nat /\ Turn(old, x) \in Nat
      BY <1>1, SpareType DEF Turn
    <2> QED
      BY <1>5, <1>6, <1>8, <2>1
  <1> QED
    BY <1>4, <1>8, <1>9 DEF Follows, n, old

\* So if the stack owns a reference of its own to what is put there, secured once
\* the old one is released.
LEMMA LentFits ==
  ASSUME NEW m, FitMachine(m), NEW pos \in 1..Len(m.stk), NEW o \in Objects,
         Released(m.heap, <<m.stk[pos]>>)[o].type # Vacant
  PROVE  LET n == Borrowed(Replaced(m, pos, o), o, "borrow")
         IN /\ Follows(m, n, m.ok)
            /\ \A x \in Objects : Spare(n, x) = Spare(m, x)
  <1> DEFINE old == m.stk[pos]
             s == [m.stk EXCEPT ![pos] = o]
             h == Released(m.heap, <<old>>)
             g == Secured(h, o)
             n == Borrowed(Replaced(m, pos, o), o, "borrow")
  <1>1. /\ GoodHeap(m.heap) /\ m.stk \in Seq(Objects) /\ m.heap \in Heaps
        /\ m = [heap |-> m.heap, stk |-> m.stk, ok |-> m.ok]
    BY DEF FitMachine, GoodHeap, SoundHeap
  <1>2. /\ s \in Seq(Objects) /\ old \in Objects
        /\ \A x : Count(s, x) = Count(m.stk, x) - Turn(old, x) + Turn(o, x)
    BY <1>1, CountReplace
  <1>3. <<old>> \in Seq(Objects) /\ \A x : Count(<<old>>, x) = Turn(old, x)
    BY <1>2, CountSingle
  <1>4. n = [heap |-> g, stk |-> s, ok |-> m.ok]
    <2> DEFINE r == ReleasedIn(m, <<old>>)
    <2> HIDE DEF old
    <2>1. r = [m EXCEPT !.heap = h]
      BY DEF ReleasedIn
    <2> HIDE DEF h, r
    <2>2. r = [heap |-> h, stk |-> m.stk, ok |-> m.ok]
      BY <1>1, <2>1
    <2>3. [r EXCEPT !.stk[pos] = o] = [r EXCEPT !.stk = s]
      BY <2>2
    <2> HIDE DEF s
    <2>4. [r EXCEPT !.stk[pos] = o] = [heap |-> h, stk |-> s, ok |-> m.ok]
      BY <2>2, <2>3
    <2>5. Replaced(m, pos, o) = [heap |-> h, stk |-> s, ok |-> m.ok]
      BY <2>4 DEF Replaced, r, old
    <2> QED
      BY <2>5 DEF Borrowed
  <1>5. h[o].type # Vacant
    OBVIOUS
  <1> HIDE DEF s, old, n
  <1>6. ASSUME NEW x \in Objects
        PROVE  /\ Outer(m.heap, x) \in Int /\ Count(m.stk, x) \in Nat /\ Spare(m, x) >= 0
               /\ Spare(m, x) = Outer(m.heap, x) - Count(m.stk, x)
               /\ Turn(o, x) \in Nat /\ Turn(old, x) \in Nat /\ Count(s, x) \in Nat
               /\ Left(m.heap, <<old>>, x) = Outer(m.heap, x) - Turn(old, x)
    BY <1>1, <1>2, <1>3, SpareType, CountType DEF Turn, FitMachine, Left
  <1>7. ASSUME NEW x \in Objects PROVE Outer(m.heap, x) - Turn(old, x) >= 0
    <2>1. Count(m.stk, x) >= Turn(old, x)
      <3>1. Count(m.stk, x) = 0 => old # x
        BY <1>1, CountType DEF old
      <3> QED
        BY <1>6, <3>1 DEF Turn
    <2> QED
      BY <1>6, <2>1
  <1>8. Releasable(m.heap, <<old>>)
    BY <1>6, <1>7 DEF Releasable
  <1>9. /\ GoodHeap(h) /\ Fades(m.heap, h)
        /\ \A x \in Objects : Outer(h, x) = Left(m.heap, <<old>>, x)
    BY <1>1, <1>3, <1>8, ReleasedIsGood
  <1> HIDE DEF h
  <1>10. /\ GoodHeap(g) /\ Fades(h, g)
         /\ \A x \in Objects : Outer(g, x) = Outer(h, x) + Turn(o, x)
    BY <1>5, <1>9, SecuredIsGood
  <1> HIDE DEF g
  <1>11. ASSUME NEW x \in Objects
         PROVE  Outer(g, x) - Count(s, x) = Spare(m, x) /\ Outer(g, x) >= Count(s, x)
    <2>1. Count(s, x) = Count(m.stk, x) - Turn(old, x) + Turn(o, x)
      BY <1>2
    <2>2. Outer(h, x) = Outer(m.heap, x) - Turn(old, x)
      BY <1>6, <1>9
    <2>3. Outer(g, x) = Outer(h, x) + Turn(o, x)
      BY <1>10
    <2>4. /\ Outer(m.heap, x) \in Int /\ Count(m.stk, x) \in Nat /\ Spare(m, x) >= 0
          /\ Spare(m, x) = Outer(m.heap, x) - Count(m.stk, x)
          /\ Turn(o, x) \in Nat /\ Turn(old, x) \in Nat
      BY <1>6
    <2> HIDE DEF g
    <2> QED
      BY <2>1, <2>2, <2>3, <2>4
  <1>12. FitMachine(n)
    BY <1>2, <1>4, <1>10, <1>11, FitParts
  <1>13. n.heap = g /\ n.stk = s /\ n.ok = m.ok
    BY <1>4
  <1>14. Fades(m.heap, g)
    BY <1>9, <1>10, FadesOn
  <1>15. \A x \in Objects : Spare(n, x) = Spare(m, x)
    BY <1>11, <1>13 DEF Spare
  <1> QED
    BY <1>12, <1>13, <1>14, <1>15 DEF Follows, n, old

\* Whether a call succeeds is no matter of ownership.
LEMMA OkFits ==
  ASSUME NEW m, FitMachine(m), NEW b
  PROVE  LET n == [m EXCEPT !.ok = b]
         IN /\ Follows(m, n, b) /\ n.stk = m.stk /\ n.heap = m.heap
            /\ \A x \in Objects : Spare(n, x) = Spare(m, x)
  <1> DEFINE n == [m EXCEPT !.ok = b]
  <1>1. m = [heap |-> m.heap, stk |-> m.stk, ok |-> m.ok]
    BY DEF FitMachine
  <1>2. n = [heap |-> m.heap, stk |-> m.stk, ok |-> b]
    BY <1>1
  <1> HIDE DEF n
  <1>3. n.heap = m.heap /\ n.stk = m.stk /\ n.ok = b
    BY <1>2
  <1>4. \A x \in Objects : Spare(n, x) = Spare(m, x)
    BY <1>3 DEF Spare
  <1>5. FitMachine(n)
    BY <1>2, <1>3, <1>4 DEF FitMachine
  <1> QED
    BY <1>3, <1>4, <1>5, FadesSame DEF Follows, n

\* release of one that is spare.
LEMMA OneReleasedFits ==
  ASSUME NEW m, FitMachine(m), NEW o \in Objects, Spare(m, o) >= 1
  PROVE  LET n == ReleasedIn(m, <<o>>)
         IN /\ Follows(m, n, m.ok) /\ n.stk = m.stk
            /\ \A x \in Objects : Spare(n, x) = Spare(m, x) - Turn(o, x)
  <1>1. <<o>> \in Seq(Objects) /\ \A x : Count(<<o>>, x) = Turn(o, x)
    BY CountSingle
  <1>2. \A x \in Objects : Spare(m, x) >= Count(<<o>>, x)
    BY <1>1 DEF Turn, FitMachine
  <1> QED
    BY <1>1, <1>2, ReleasedInFits

\* secure and push.
LEMMA LentPushedFits ==
  ASSUME NEW m, FitMachine(m), NEW o \in Objects, m.heap[o].type # Vacant
  PROVE  LET n == Borrowed(Pushed(m, o), o, "borrow")
         IN /\ Follows(m, n, m.ok) /\ n.stk = Append(m.stk, o)
            /\ \A x \in Objects : Spare(n, x) = Spare(m, x)
  <1> DEFINE c == Borrowed(m, o, "borrow")
             n == Pushed(c, o)
  <1>1. /\ Follows(m, c, m.ok) /\ c.stk = m.stk
        /\ \A x \in Objects : Spare(c, x) = Spare(m, x) + Turn(o, x)
    BY BorrowedFits
  <1>2. Borrowed(Pushed(m, o), o, "borrow") = n
    <2> DEFINE s == Append(m.stk, o)
               h == Secured(m.heap, o)
    <2>1. m = [heap |-> m.heap, stk |-> m.stk, ok |-> m.ok]
      BY DEF FitMachine
    <2>2. Pushed(m, o) = [heap |-> m.heap, stk |-> s, ok |-> m.ok]
      <3>1. Pushed(m, o) = [m EXCEPT !.stk = s]
        BY Zenon DEF Pushed
      <3> HIDE DEF s, h, c, n
      <3> QED
        BY <2>1, <3>1
    <2>3. c = [heap |-> h, stk |-> m.stk, ok |-> m.ok]
      BY <2>1 DEF Borrowed
    <2>4. Borrowed(Pushed(m, o), o, "borrow") = [heap |-> h, stk |-> s, ok |-> m.ok]
      <3> HIDE DEF s
      <3> QED
        BY <2>2 DEF Borrowed
    <2> HIDE DEF h, c
    <2>5. n = [heap |-> h, stk |-> s, ok |-> m.ok]
      BY <2>3 DEF Pushed
    <2> QED
      BY <2>4, <2>5
  <1> HIDE DEF c
  <1>3. FitMachine(c) /\ c.ok = m.ok /\ Fades(m.heap, c.heap)
    BY <1>1 DEF Follows
  <1>4. ASSUME NEW x \in Objects
        PROVE  Spare(m, x) \in Int /\ Spare(m, x) >= 0 /\ Turn(o, x) \in Nat
    BY SpareType DEF FitMachine, Turn
  <1>5. Spare(c, o) >= 1
    BY <1>1, <1>4 DEF Turn
  <1>6. /\ Follows(c, n, c.ok) /\ n.stk = Append(c.stk, o)
        /\ \A x \in Objects : Spare(n, x) = Spare(c, x) - Turn(o, x)
    BY <1>3, <1>5, PushedFits
  <1> HIDE DEF n
  <1>7. Follows(m, n, m.ok)
    BY <1>3, <1>6, FadesOn DEF Follows
  <1>8. \A x \in Objects : Spare(n, x) = Spare(m, x)
    BY <1>1, <1>4, <1>6
  <1> QED
    BY <1>1, <1>2, <1>6, <1>7, <1>8

Lends(policy) == policy = "borrow"

IsPolicy(policy) == policy \in {"borrow", "take", "take if ok"}

\* What a policy costs who calls with it.
Cost(policy, ok, o, x) ==
    IF policy = "take" \/ (policy = "take if ok" /\ ok) THEN Turn(o, x) ELSE 0

\* What a policy asks of an object that is to be put at a position of the stack.
Puttable(m, o, policy) ==
    IF policy = "borrow" THEN m.heap[o].type # Vacant ELSE Spare(m, o) >= 1

\* And of one that is lent: that it outlives what stands there.
Outlives(m, offset, where, o) ==
    LET at == AbsIndex(where, Len(m.stk) - offset)
    IN at \in Int => Released(m.heap, <<m.stk[offset + at + 1]>>)[o].type # Vacant

\* YmCtx::put takes a reference from its caller as the policy says, for the stack.
LEMMA PutInFits ==
  ASSUME NEW m, FitMachine(m), m.ok = TRUE, NEW offset \in Nat, offset <= Len(m.stk),
         NEW where \in Wheres, NEW o \in Objects, NEW policy,
         IsPolicy(policy), Puttable(m, o, policy),
         Lends(policy) => Outlives(m, offset, where, o)
  PROVE  LET n == PutIn(m, offset, where, o, policy)
             at == AbsIndex(where, Len(m.stk) - offset)
         IN /\ Became(m, n) /\ n.ok = IF at = OutOfBounds THEN FALSE ELSE TRUE
            /\ \A x \in Objects : Spare(n, x) = Spare(m, x) - Cost(policy, n.ok, o, x)
            /\ at = Push => n.stk = Append(m.stk, o)
  <1> DEFINE at == AbsIndex(where, Len(m.stk) - offset)
             pos == offset + at + 1
             n == PutIn(m, offset, where, o, policy)
  <1>1. m.stk \in Seq(Objects) /\ Len(m.stk) \in Nat
    BY DEF FitMachine
  <1>2. at \in {Push, Discard, OutOfBounds} \cup 0..Len(m.stk) - offset - 1
    BY <1>1, AbsIndexIsLocal
  <1>3. /\ Push # Discard /\ OutOfBounds \notin {Push, Discard}
        /\ {Push, Discard, OutOfBounds} \cap Int = {}
    BY IndexAssumption
  <1>4. ASSUME NEW x \in Objects PROVE Spare(m, x) \in Int /\ Turn(o, x) \in Nat
    BY SpareType DEF FitMachine, Turn
  <1>5. policy = "borrow" /\ at \in Int => Released(m.heap, <<m.stk[pos]>>)[o].type # Vacant
    BY DEF Outlives, Lends
  <1> HIDE DEF at
  <1>6. CASE at = Discard
    <2>1. at # OutOfBounds /\ at # Push
      BY <1>3, <1>6
    <2>2. n = IF policy = "borrow" THEN m ELSE ReleasedIn(m, <<o>>)
      BY <1>3, <1>6 DEF PutIn, at
    <2>3. CASE policy = "borrow"
      <3>1. n = m
        BY <2>2, <2>3
      <3>2. \A x \in Objects : Spare(m, x) = Spare(m, x) - Cost(policy, n.ok, o, x)
        BY <1>4, <2>3 DEF Cost
      <3> QED
        BY <2>1, <3>1, <3>2, FadesSame DEF Became, at
    <2>4. CASE policy # "borrow"
      <3>1. n = ReleasedIn(m, <<o>>) /\ Spare(m, o) >= 1
        BY <2>2, <2>4 DEF Puttable
      <3>2. /\ Follows(m, n, m.ok)
            /\ \A x \in Objects : Spare(n, x) = Spare(m, x) - Turn(o, x)
        BY <3>1, OneReleasedFits
      <3> HIDE DEF n
      <3>3. \A x \in Objects : Cost(policy, TRUE, o, x) = Turn(o, x)
        BY <2>4 DEF Cost, IsPolicy
      <3> QED
        BY <2>1, <3>2, <3>3 DEF Follows, Became, at, n
    <2> QED
      BY <2>3, <2>4
  <1>7. CASE at = Push
    <2>1. at # OutOfBounds
      BY <1>3, <1>7
    <2>2. n = Borrowed(Pushed(m, o), o, policy)
      BY <1>3, <1>7 DEF PutIn, at
    <2>3. CASE policy = "borrow"
      <3>1. /\ Follows(m, n, m.ok) /\ n.stk = Append(m.stk, o)
            /\ \A x \in Objects : Spare(n, x) = Spare(m, x)
        BY <2>2, <2>3, LentPushedFits DEF Puttable
      <3> HIDE DEF n
      <3>2. \A x \in Objects : Spare(n, x) = Spare(m, x) - Cost(policy, n.ok, o, x)
        BY <1>4, <2>3, <3>1 DEF Cost
      <3> QED
        BY <2>1, <3>1, <3>2 DEF Follows, Became, at, n
    <2>4. CASE policy # "borrow"
      <3>1. n = Pushed(m, o) /\ Spare(m, o) >= 1
        BY <2>2, <2>4 DEF Puttable, Borrowed
      <3>2. /\ Follows(m, n, m.ok) /\ n.stk = Append(m.stk, o)
            /\ \A x \in Objects : Spare(n, x) = Spare(m, x) - Turn(o, x)
        BY <3>1, PushedFits
      <3> HIDE DEF n
      <3>3. \A x \in Objects : Cost(policy, TRUE, o, x) = Turn(o, x)
        BY <2>4 DEF Cost, IsPolicy
      <3> QED
        BY <2>1, <3>2, <3>3 DEF Follows, Became, at, n
    <2> QED
      BY <2>3, <2>4
  <1>8. CASE at = OutOfBounds
    <2> DEFINE left == IF policy = "take" THEN ReleasedIn(m, <<o>>) ELSE m
    <2>1. at # Push /\ n = [left EXCEPT !.ok = FALSE]
      BY <1>3, <1>8 DEF PutIn, at
    <2>2. /\ Follows(m, left, m.ok)
          /\ \A x \in Objects : Spare(left, x) = Spare(m, x) - Cost(policy, FALSE, o, x)
      <3>1. CASE policy = "take"
        <4>1. /\ Follows(m, left, m.ok)
              /\ \A x \in Objects : Spare(left, x) = Spare(m, x) - Turn(o, x)
          BY <3>1, OneReleasedFits DEF Puttable
        <4> QED
          BY <3>1, <4>1 DEF Cost
      <3>2. CASE policy # "take"
        <4>1. left = m
          BY <3>2
        <4>2. \A x \in Objects : Spare(m, x) = Spare(m, x) - Cost(policy, FALSE, o, x)
          BY <1>4, <3>2 DEF Cost
        <4> HIDE DEF left
        <4> QED
          BY <4>1, <4>2, FadesSame DEF Follows
      <3> QED
        BY <3>1, <3>2
    <2> HIDE DEF left, n
    <2>3. /\ Follows(left, n, FALSE) /\ \A x \in Objects : Spare(n, x) = Spare(left, x)
      BY <2>1, <2>2, OkFits DEF Follows
    <2>4. Follows(m, n, FALSE)
      BY <2>2, <2>3, FadesOn DEF Follows
    <2> QED
      BY <1>8, <2>1, <2>2, <2>3, <2>4 DEF Follows, Became, at, n
  <1>9. CASE at \in 0..Len(m.stk) - offset - 1
    <2>1. at \in Int
      BY <1>1, <1>9
    <2>2. at \notin {Push, Discard, OutOfBounds}
      BY <1>3, <2>1, Zenon
    <2>3. n = Borrowed(Replaced(m, pos, o), o, policy)
      BY <2>2 DEF PutIn, Replaced, at
    <2>4. pos \in 1..Len(m.stk)
      BY <1>1, <1>9
    <2> HIDE DEF pos
    <2>5. CASE policy = "borrow"
      <3>1. /\ Follows(m, n, m.ok) /\ \A x \in Objects : Spare(n, x) = Spare(m, x)
        BY <1>5, <2>1, <2>3, <2>4, <2>5, LentFits
      <3> HIDE DEF n
      <3>2. \A x \in Objects : Spare(n, x) = Spare(m, x) - Cost(policy, n.ok, o, x)
        BY <1>4, <2>5, <3>1 DEF Cost
      <3> QED
        BY <2>2, <3>1, <3>2 DEF Follows, Became, at, n
    <2>6. CASE policy # "borrow"
      <3>1. n = Replaced(m, pos, o) /\ Spare(m, o) >= 1
        BY <2>3, <2>6 DEF Puttable, Borrowed
      <3>2. /\ Follows(m, n, m.ok)
            /\ \A x \in Objects : Spare(n, x) = Spare(m, x) - Turn(o, x)
        BY <2>4, <3>1, TakenFits
      <3> HIDE DEF n
      <3>3. \A x \in Objects : Cost(policy, TRUE, o, x) = Turn(o, x)
        BY <2>6 DEF Cost, IsPolicy
      <3> QED
        BY <2>2, <3>2, <3>3 DEF Follows, Became, at, n
    <2> QED
      BY <2>5, <2>6
  <1> QED
    BY <1>2, <1>6, <1>7, <1>8, <1>9

\* What it is to be well formed.
LEMMA WellFormedCases ==
  ASSUME NEW h, NEW o
  PROVE  /\ h[o].type \in Structs
                => (WellFormed(h, o)
                        <=> [i \in DOMAIN h[o].slots |-> h[h[o].slots[i]].type]
                                = Properties[h[o].type])
         /\ h[o].type \in Protocols
                => (WellFormed(h, o) <=> /\ Len(h[o].slots) = 1
                                         /\ <<h[h[o].slots[1]].type, h[o].type>> \in Conforming)
  <1> DEFINE types == [i \in DOMAIN h[o].slots |-> h[h[o].slots[i]].type]
  <1>1. WellFormed(h, o) =
            CASE h[o].type \in Structs -> types = Properties[h[o].type]
              [] h[o].type \in Protocols ->
                    /\ Len(h[o].slots) = 1
                    /\ <<h[h[o].slots[1]].type, h[o].type>> \in Conforming
              [] OTHER -> h[o].slots = <<>>
    BY DEF WellFormed
  <1> HIDE DEF types
  <1>2. ~(h[o].type \in Structs /\ h[o].type \in Protocols)
    BY TypesAssumption
  <1>3. ASSUME h[o].type \in Structs
        PROVE  WellFormed(h, o) <=> types = Properties[h[o].type]
    BY <1>1, <1>2, <1>3
  <1>4. ASSUME h[o].type \in Protocols
        PROVE  WellFormed(h, o) <=> /\ Len(h[o].slots) = 1
                                    /\ <<h[h[o].slots[1]].type, h[o].type>> \in Conforming
    BY <1>1, <1>2, <1>4
  <1> QED
    BY <1>3, <1>4 DEF types

\* create, in a machine.
WithNew(m, p, type, slots) == [m EXCEPT !.heap = Created(m.heap, p, type, slots)]

\* create owns its new object once, which owns what its slots steal.
LEMMA CreatedFits ==
  ASSUME NEW m, FitMachine(m), NEW p \in Objects, m.heap[p].type = Vacant,
         NEW type \in Types, NEW slots \in Seq(Objects),
         \A x \in Objects : Spare(m, x) >= Count(slots, x),
         WellFormed(Created(m.heap, p, type, slots), p)
  PROVE  LET n == WithNew(m, p, type, slots)
         IN /\ FitMachine(n) /\ KeepsTypes(m.heap, n.heap) /\ n.stk = m.stk /\ n.ok = m.ok
            /\ n.heap = Created(m.heap, p, type, slots)
            /\ \A x \in Objects : Spare(n, x) = Spare(m, x) + Turn(p, x) - Count(slots, x)
  <1> DEFINE g == Created(m.heap, p, type, slots)
             n == WithNew(m, p, type, slots)
  <1>1. /\ GoodHeap(m.heap) /\ m.stk \in Seq(Objects)
        /\ m = [heap |-> m.heap, stk |-> m.stk, ok |-> m.ok]
    BY DEF FitMachine
  <1>2. ASSUME NEW x \in Objects
        PROVE  /\ Outer(m.heap, x) \in Int /\ Count(m.stk, x) \in Nat
               /\ Spare(m, x) = Outer(m.heap, x) - Count(m.stk, x)
               /\ Count(slots, x) \in Nat /\ Turn(p, x) \in Nat /\ Spare(m, x) >= Count(slots, x)
    BY <1>1, SpareType, CountType DEF Turn
  <1>3. \A x \in Objects : Outer(m.heap, x) >= Count(slots, x)
    BY <1>2
  <1>4. /\ GoodHeap(g) /\ KeepsTypes(m.heap, g)
        /\ \A x \in Objects : Outer(g, x) = Outer(m.heap, x) + Turn(p, x) - Count(slots, x)
    BY <1>1, <1>3, CreatedIsGood
  <1>5. n = [heap |-> g, stk |-> m.stk, ok |-> m.ok]
    <2>1. n = [m EXCEPT !.heap = g]
      BY DEF WithNew
    <2> HIDE DEF g, n
    <2> QED
      BY <1>1, <2>1
  <1> HIDE DEF g
  <1>6. n.heap = g /\ n.stk = m.stk /\ n.ok = m.ok
    BY <1>5
  <1> HIDE DEF n
  <1>7. ASSUME NEW x \in Objects
        PROVE  /\ Spare(n, x) = Spare(m, x) + Turn(p, x) - Count(slots, x)
               /\ Outer(g, x) >= Count(m.stk, x)
    <2>1. Outer(g, x) = Outer(m.heap, x) + Turn(p, x) - Count(slots, x)
      BY <1>4
    <2>2. Spare(n, x) = Outer(g, x) - Count(m.stk, x)
      BY <1>6 DEF Spare
    <2> QED
      BY <1>2, <2>1, <2>2
  <1>8. FitMachine(n)
    BY <1>1, <1>4, <1>5, <1>7, FitParts
  <1> QED
    BY <1>4, <1>6, <1>7, <1>8 DEF n, g

\* A new object without slots.
LEMMA CreatedAloneFits ==
  ASSUME NEW m, FitMachine(m), NEW p \in Objects, m.heap[p].type = Vacant,
         NEW type \in Types, HasDefault(type)
  PROVE  LET n == WithNew(m, p, type, <<>>)
         IN /\ FitMachine(n) /\ KeepsTypes(m.heap, n.heap) /\ n.stk = m.stk /\ n.ok = m.ok
            /\ \A x \in Objects : Spare(n, x) = Spare(m, x) + Turn(p, x)
  <1> DEFINE none == <<>>
             g == Created(m.heap, p, type, none)
             n == WithNew(m, p, type, none)
  <1>1. none \in Seq(Objects) /\ \A x : Count(none, x) = 0
    <2>1. none \in Seq(Objects)
      OBVIOUS
    <2> QED
      BY <2>1, CountType
  <1>2. ASSUME NEW x \in Objects PROVE Spare(m, x) \in Int /\ Spare(m, x) >= 0 /\ Turn(p, x) \in Nat
    BY SpareType DEF FitMachine, Turn
  <1>3. WellFormed(g, p)
    <2>1. g[p] = [type |-> type, refs |-> 1, slots |-> <<>>]
      BY DEF Created, FitMachine, GoodHeap, SoundHeap, Heaps
    <2> HIDE DEF g
    <2>2. g[p].type = type /\ g[p].slots = <<>> /\ DOMAIN <<>> = {}
      BY <2>1
    <2>3. CASE type \in Primitives
      BY <2>2, <2>3, TypesAssumption DEF WellFormed
    <2>4. CASE type \in Structs /\ Properties[type] = <<>>
      <3>1. [i \in DOMAIN g[p].slots |-> g[g[p].slots[i]].type] = <<>>
        BY <2>2
      <3> QED
        BY <2>2, <2>4, <3>1, WellFormedCases
    <2> QED
      BY <2>3, <2>4 DEF HasDefault
  <1>4. /\ FitMachine(n) /\ KeepsTypes(m.heap, n.heap) /\ n.stk = m.stk /\ n.ok = m.ok
        /\ \A x \in Objects : Spare(n, x) = Spare(m, x) + Turn(p, x) - Count(none, x)
    <2> HIDE DEF none
    <2>1. \A x \in Objects : Spare(m, x) >= Count(none, x)
      BY <1>1, <1>2
    <2> QED
      BY <2>1, <1>1, <1>3, CreatedFits
  <1> HIDE DEF n
  <1>5. \A x \in Objects : Spare(n, x) = Spare(m, x) + Turn(p, x)
    BY <1>1, <1>2, <1>4
  <1> QED
    BY <1>4, <1>5 DEF n

--------------------------------------------------------------------------------
(* The host, the vars and the frames *)

Values == Objects \cup {Nil}

\* The value on its way into a var.
Pending(f) == IF f.then # <<>> /\ f.then.op = "set" THEN f.then.value ELSE Nil

FrameOwns(f) ==
    /\ f.returnValue \in Values
    /\ f.then # <<>> => /\ f.then.var \in Vars /\ f.then.op \in {"get", "set"}
                        /\ f.then.op = "set" => f.then.value \in Objects

FrameClaim(f, o) == Turn(f.returnValue, o) + Turn(Pending(f), o)

Rets(fr) == [k \in DOMAIN fr |-> fr[k].returnValue]
Pendings(fr) == [k \in DOMAIN fr |-> Pending(fr[k])]

FramesClaim(fr, o) == Count(Rets(fr), o) + Count(Pendings(fr), o)

OwnerTypes(ho, va, fr) ==
    /\ ho \in [Objects -> Nat] /\ va \in [Vars -> Values]
    /\ \E S : fr \in Seq(S)
    /\ \A k \in 1..Len(fr) : FrameOwns(fr[k])

\* The references to o that the host, the vars and the frames own.
Claims(ho, va, fr, o) == ho[o] + Count(va, o) + FramesClaim(fr, o)

\* A frame owns what it may.
LEMMA PendingType ==
  ASSUME NEW f, FrameOwns(f), NEW o
  PROVE  Pending(f) \in Values /\ FrameClaim(f, o) \in Nat
  <1>1. Pending(f) \in Values
    BY DEF Pending, FrameOwns, Values
  <1>2. Turn(f.returnValue, o) \in Nat /\ Turn(Pending(f), o) \in Nat
    BY DEF Turn
  <1> QED
    BY <1>1, <1>2 DEF FrameClaim

\* What the frames own, one after the other.
LEMMA FramesType ==
  ASSUME NEW S, NEW fr \in Seq(S), \A k \in 1..Len(fr) : FrameOwns(fr[k])
  PROVE  /\ Rets(fr) \in Seq(Values) /\ Pendings(fr) \in Seq(Values)
         /\ Len(Rets(fr)) = Len(fr) /\ Len(Pendings(fr)) = Len(fr)
         /\ \A k \in 1..Len(fr) : /\ Rets(fr)[k] = fr[k].returnValue
                                  /\ Pendings(fr)[k] = Pending(fr[k])
         /\ \A o : FramesClaim(fr, o) \in Nat
  <1>1. DOMAIN fr = 1..Len(fr) /\ Len(fr) \in Nat
    OBVIOUS
  <1>2. \A k \in 1..Len(fr) : fr[k].returnValue \in Values /\ Pending(fr[k]) \in Values
    BY PendingType DEF FrameOwns
  <1>3. Rets(fr) \in [1..Len(fr) -> Values] /\ Pendings(fr) \in [1..Len(fr) -> Values]
    BY <1>1, <1>2 DEF Rets, Pendings
  <1>4. /\ Rets(fr) \in Seq(Values) /\ Pendings(fr) \in Seq(Values)
        /\ Len(Rets(fr)) = Len(fr) /\ Len(Pendings(fr)) = Len(fr)
    BY <1>1, <1>3
  <1>5. \A o : Count(Rets(fr), o) \in Nat /\ Count(Pendings(fr), o) \in Nat
    BY <1>4, CountType
  <1>6. \A o : FramesClaim(fr, o) \in Nat
    BY <1>5 DEF FramesClaim
  <1>7. \A k \in 1..Len(fr) : Rets(fr)[k] = fr[k].returnValue /\ Pendings(fr)[k] = Pending(fr[k])
    BY <1>1 DEF Rets, Pendings
  <1> QED
    BY <1>4, <1>6, <1>7

\* The claims are numbers, and those to one object not more than they are together.
LEMMA ClaimsType ==
  ASSUME NEW ho, NEW va, NEW fr, OwnerTypes(ho, va, fr), NEW o \in Objects
  PROVE  /\ ho[o] \in Nat /\ Count(va, o) \in Nat /\ FramesClaim(fr, o) \in Nat
         /\ Claims(ho, va, fr, o) \in Nat
         /\ Claims(ho, va, fr, o) = ho[o] + Count(va, o) + FramesClaim(fr, o)
  <1>1. IsFiniteSet(DOMAIN va)
    BY FunctionAssumption DEF OwnerTypes
  <1>2. Count(va, o) \in Nat
    BY <1>1, TimesType DEF Count
  <1>3. FramesClaim(fr, o) \in Nat
    BY FramesType DEF OwnerTypes
  <1>4. ho[o] \in Nat
    BY DEF OwnerTypes
  <1> QED
    BY <1>2, <1>3, <1>4 DEF Claims

\* A frame more.
LEMMA FramesAppended ==
  ASSUME NEW S, NEW fr \in Seq(S), \A k \in 1..Len(fr) : FrameOwns(fr[k]), NEW f, FrameOwns(f)
  PROVE  /\ \E T : Append(fr, f) \in Seq(T)
         /\ \A k \in 1..Len(Append(fr, f)) : FrameOwns(Append(fr, f)[k])
         /\ \A o : FramesClaim(Append(fr, f), o) = FramesClaim(fr, o) + FrameClaim(f, o)
  <1> DEFINE gr == Append(fr, f)
             T == S \cup {f}
  <1>1. fr \in Seq(T) /\ gr \in Seq(T) /\ Len(gr) = Len(fr) + 1 /\ Len(fr) \in Nat
    OBVIOUS
  <1>2. gr[Len(gr)] = f /\ \A k \in 1..Len(fr) : gr[k] = fr[k]
    OBVIOUS
  <1> HIDE DEF gr, T
  <1>3. \A k \in 1..Len(gr) : FrameOwns(gr[k])
    <2> TAKE k \in 1..Len(gr)
    <2>1. k \in 1..Len(fr) \/ k = Len(gr)
      BY <1>1
    <2> QED
      BY <1>2, <2>1
  <1>4. ASSUME NEW q, NEW r, q \in Seq(Values), r \in Seq(Values),
               Len(q) = Len(fr), Len(r) = Len(gr), NEW x \in Values, r[Len(gr)] = x,
               \A k \in 1..Len(fr) : r[k] = q[k]
        PROVE  \A o : Count(r, o) = Count(q, o) + Turn(x, o)
    <2>1. r = Append(q, x)
      BY <1>1, <1>4
    <2> QED
      BY <1>4, <2>1, CountAppend
  <1>5. /\ Rets(fr) \in Seq(Values) /\ Len(Rets(fr)) = Len(fr)
        /\ Rets(gr) \in Seq(Values) /\ Len(Rets(gr)) = Len(gr)
        /\ f.returnValue \in Values /\ Rets(gr)[Len(gr)] = f.returnValue
        /\ \A k \in 1..Len(fr) : Rets(gr)[k] = Rets(fr)[k]
    <2>1. \A k \in 1..Len(fr) : Rets(fr)[k] = fr[k].returnValue
      BY FramesType
    <2>2. \A k \in 1..Len(gr) : Rets(gr)[k] = gr[k].returnValue
      BY <1>1, <1>3, FramesType
    <2>3. Len(gr) \in 1..Len(gr) /\ 1..Len(fr) \subseteq 1..Len(gr)
      BY <1>1
    <2>4. /\ Rets(fr) \in Seq(Values) /\ Len(Rets(fr)) = Len(fr)
          /\ Rets(gr) \in Seq(Values) /\ Len(Rets(gr)) = Len(gr)
      BY <1>1, <1>3, FramesType
    <2> QED
      BY <1>2, <2>1, <2>2, <2>3, <2>4 DEF FrameOwns
  <1>6. /\ Pendings(fr) \in Seq(Values) /\ Len(Pendings(fr)) = Len(fr)
        /\ Pendings(gr) \in Seq(Values) /\ Len(Pendings(gr)) = Len(gr)
        /\ Pending(f) \in Values /\ Pendings(gr)[Len(gr)] = Pending(f)
        /\ \A k \in 1..Len(fr) : Pendings(gr)[k] = Pendings(fr)[k]
    <2>1. \A k \in 1..Len(fr) : Pendings(fr)[k] = Pending(fr[k])
      BY FramesType
    <2>2. \A k \in 1..Len(gr) : Pendings(gr)[k] = Pending(gr[k])
      BY <1>1, <1>3, FramesType
    <2>3. Len(gr) \in 1..Len(gr) /\ 1..Len(fr) \subseteq 1..Len(gr)
      BY <1>1
    <2>4. /\ Pendings(fr) \in Seq(Values) /\ Len(Pendings(fr)) = Len(fr)
          /\ Pendings(gr) \in Seq(Values) /\ Len(Pendings(gr)) = Len(gr)
      BY <1>1, <1>3, FramesType
    <2> QED
      BY <1>2, <2>1, <2>2, <2>3, <2>4, PendingType
  <1>7. ASSUME NEW o
        PROVE  FramesClaim(gr, o) = FramesClaim(fr, o) + FrameClaim(f, o)
    <2>1. Count(Rets(gr), o) = Count(Rets(fr), o) + Turn(f.returnValue, o)
      BY <1>4, <1>5
    <2>2. Count(Pendings(gr), o) = Count(Pendings(fr), o) + Turn(Pending(f), o)
      BY <1>4, <1>6
    <2>3. /\ Count(Rets(fr), o) \in Nat /\ Count(Pendings(fr), o) \in Nat
          /\ Turn(f.returnValue, o) \in Nat /\ Turn(Pending(f), o) \in Nat
      BY <1>5, <1>6, CountType DEF Turn
    <2> QED
      BY <2>1, <2>2, <2>3 DEF FramesClaim, FrameClaim
  <1> QED
    BY <1>1, <1>3, <1>7 DEF gr

\* A frame less.
LEMMA FramesCut ==
  ASSUME NEW S, NEW fr \in Seq(S), fr # <<>>, \A k \in 1..Len(fr) : FrameOwns(fr[k])
  PROVE  /\ Front(fr) \in Seq(S) /\ fr = Append(Front(fr), Last(fr)) /\ FrameOwns(Last(fr))
         /\ Len(Front(fr)) = Len(fr) - 1 /\ Len(fr) \in Nat \ {0}
         /\ \A k \in 1..Len(Front(fr)) : FrameOwns(Front(fr)[k])
         /\ \A o : FramesClaim(fr, o) = FramesClaim(Front(fr), o) + FrameClaim(Last(fr), o)
  <1> DEFINE q == Front(fr)
             f == Last(fr)
  <1>1. q \in Seq(S) /\ fr = Append(q, f) /\ Len(q) = Len(fr) - 1 /\ Len(fr) \in Nat \ {0}
    <2>1. Len(fr) \in Nat \ {0}
      OBVIOUS
    <2>2. q = SubSeq(fr, 1, Len(fr) - 1) /\ f = fr[Len(fr)]
      BY DEF Front, Last
    <2> HIDE DEF q, f
    <2>3. /\ q \in Seq(S) /\ Len(q) = Len(fr) - 1
          /\ \A k \in 1..Len(q) : q[k] = fr[k]
      <3>1. Len(fr) - 1 \in 0..Len(fr)
        BY <2>1
      <3>2. q \in Seq(S)
        BY <2>2, <3>1, CountCut
      <3>3. Len(q) = Len(fr) - 1 /\ Keeps(fr, q, Len(fr) - 1)
        BY KeepsFront DEF IsSeq, q
      <3> QED
        BY <3>2, <3>3 DEF Keeps
    <2>4. f \in S
      BY <2>1, <2>2
    <2>5. fr = Append(q, f)
      BY <2>1, <2>2, <2>3, <2>4
    <2> QED
      BY <2>1, <2>3, <2>5
  <1>2. f = fr[Len(fr)] /\ \A k \in 1..Len(q) : q[k] = fr[k]
    BY DEF Front, Last
  <1> HIDE DEF q, f
  <1>3. FrameOwns(f) /\ \A k \in 1..Len(q) : FrameOwns(q[k])
    BY <1>1, <1>2
  <1>4. \A o : FramesClaim(fr, o) = FramesClaim(q, o) + FrameClaim(f, o)
    BY <1>1, <1>3, FramesAppended
  <1> QED
    BY <1>1, <1>3, <1>4 DEF q, f

\* A frame's return value changes.
LEMMA FramesReturn ==
  ASSUME NEW S, NEW fr \in Seq(S), fr # <<>>, \A k \in 1..Len(fr) : FrameOwns(fr[k]),
         IsFrame(fr[Len(fr)]), NEW o \in Objects
  PROVE  LET gr == [fr EXCEPT ![Len(fr)].returnValue = o]
         IN /\ \E T : gr \in Seq(T)
            /\ \A k \in 1..Len(gr) : FrameOwns(gr[k])
            /\ \A x : FramesClaim(gr, x)
                        = FramesClaim(fr, x) - Turn(fr[Len(fr)].returnValue, x) + Turn(o, x)
  <1> DEFINE q == Front(fr)
             f == Last(fr)
             e == [f EXCEPT !.returnValue = o]
             gr == [fr EXCEPT ![Len(fr)].returnValue = o]
  <1>1. /\ q \in Seq(S) /\ fr = Append(q, f) /\ FrameOwns(f)
        /\ \A k \in 1..Len(q) : FrameOwns(q[k])
        /\ \A x : FramesClaim(fr, x) = FramesClaim(q, x) + FrameClaim(f, x)
    BY FramesCut
  <1>2. f = fr[Len(fr)] /\ Len(fr) \in Nat \ {0} /\ Len(q) = Len(fr) - 1
    BY FramesCut DEF Last
  <1> HIDE DEF q, f
  <1>3. e.returnValue = o /\ e.then = f.then
    BY <1>2 DEF IsFrame
  <1>4. gr = Append(q, e)
    <2>1. gr = [fr EXCEPT ![Len(fr)] = e]
      BY <1>2
    <2> DEFINE T == S \cup {e, f}
    <2> HIDE DEF e
    <2>2. Len(q) \in Nat /\ Len(fr) = Len(q) + 1
      BY <1>2
    <2>3. q \in Seq(T) /\ e \in T /\ f \in T
      BY <1>1
    <2> HIDE DEF T
    <2>4. [Append(q, f) EXCEPT ![Len(q) + 1] = e] = Append(q, e)
      <3> DEFINE a == [Append(q, f) EXCEPT ![Len(q) + 1] = e]
                 b == Append(q, e)
      <3>1. Append(q, f) \in Seq(T) /\ Len(Append(q, f)) = Len(q) + 1
        BY <2>3
      <3>2. Len(q) + 1 \in 1..Len(Append(q, f))
        BY <2>2, <3>1
      <3>3. a \in Seq(T) /\ Len(a) = Len(q) + 1
        BY <2>3, <3>1, <3>2, CountReplace
      <3>4. b \in Seq(T) /\ Len(b) = Len(q) + 1
        BY <2>3
      <3>5. ASSUME NEW k \in 1..Len(q) + 1 PROVE a[k] = b[k]
        <4> DEFINE p == Append(q, f)
        <4>1. /\ p \in Seq(T) /\ Len(p) = Len(q) + 1
              /\ \A i \in 1..Len(q) : p[i] = q[i] /\ b[i] = q[i]
              /\ b[Len(q) + 1] = e
          BY <2>3
        <4> HIDE DEF p, b
        <4>2. k \in 1..Len(q) \/ k = Len(q) + 1
          BY <2>2
        <4>3. CASE k = Len(q) + 1
          BY <3>2, <4>1, <4>3
        <4>4. CASE k \in 1..Len(q)
          <5>1. k # Len(q) + 1 /\ k \in 1..Len(p)
            BY <2>2, <4>1, <4>4
          <5>2. [p EXCEPT ![Len(q) + 1] = e][k] = p[k]
            BY <4>1, <5>1
          <5> QED
            BY <4>1, <4>4, <5>2 DEF p
        <4> QED
          BY <4>2, <4>3, <4>4
      <3> HIDE DEF a, b
      <3>6. a = b
        BY <3>3, <3>4, <3>5
      <3> QED
        BY <3>6 DEF a, b
    <2> QED
      BY <1>1, <2>1, <2>2, <2>4
  <1> HIDE DEF e, gr
  <1>5. Pending(e) = Pending(f)
    BY <1>3 DEF Pending
  <1>6. FrameOwns(e)
    BY <1>1, <1>3 DEF FrameOwns, Values
  <1>7. /\ \E T : gr \in Seq(T)
        /\ \A k \in 1..Len(gr) : FrameOwns(gr[k])
        /\ \A x : FramesClaim(gr, x) = FramesClaim(q, x) + FrameClaim(e, x)
    BY <1>1, <1>4, <1>6, FramesAppended
  <1>8. ASSUME NEW x
        PROVE  FramesClaim(gr, x)
                    = FramesClaim(fr, x) - Turn(fr[Len(fr)].returnValue, x) + Turn(o, x)
    <2>1. /\ FramesClaim(q, x) \in Nat /\ Turn(o, x) \in Nat /\ Turn(f.returnValue, x) \in Nat
          /\ Turn(Pending(f), x) \in Nat
      BY <1>1, FramesType DEF Turn
    <2>2. FrameClaim(f, x) = Turn(f.returnValue, x) + Turn(Pending(f), x)
      BY DEF FrameClaim
    <2>3. FrameClaim(e, x) = Turn(o, x) + Turn(Pending(f), x)
      BY <1>3, <1>5 DEF FrameClaim
    <2> QED
      BY <1>1, <1>2, <1>7, <2>1, <2>2, <2>3
  <1> QED
    BY <1>7, <1>8 DEF gr

\* A var gets another value.
LEMMA VarsUpdate ==
  ASSUME NEW va \in [Vars -> Values], NEW v \in Vars, NEW q \in Values,
         NEW wa \in [Vars -> Values], wa[v] = q, \A w \in Vars \ {v} : wa[w] = va[w]
  PROVE  /\ \A x : Count(wa, x) = Count(va, x) - Turn(va[v], x) + Turn(q, x)
         /\ \A x : Turn(va[v], x) <= Count(va, x) /\ Count(va, x) \in Nat
  <1>1. DOMAIN va = Vars /\ DOMAIN wa = Vars
    OBVIOUS
  <1>2. IsFiniteSet(DOMAIN va)
    BY <1>1, FunctionAssumption
  <1>3. \A x : Count(wa, x) = Count(va, x) - Turn(va[v], x) + Turn(wa[v], x)
    BY <1>1, <1>2, CountUpdate
  <1>4. ASSUME NEW x PROVE Turn(va[v], x) <= Count(va, x) /\ Count(va, x) \in Nat
    <2>1. Count(va, x) \in Nat /\ (Count(va, x) = 0 <=> \A w \in DOMAIN va : va[w] # x)
      <3>1. /\ Times(va, {x}) \in Nat
            /\ Times(va, {x}) = 0 <=> \A w \in DOMAIN va : va[w] \notin {x}
        BY <1>2, TimesType
      <3> QED
        BY <3>1 DEF Count
    <2> QED
      BY <1>1, <2>1 DEF Turn
  <1> QED
    BY <1>3, <1>4

--------------------------------------------------------------------------------
(***************************************************************************)
(* The inductive invariant: whatever lives is well formed, and the owners  *)
(* of an object are no more than its count. The surplus is what has leaked.*)
(***************************************************************************)
Surplus(o) == Spare(Machine, o) - Claims(host, vars, frames, o)

Owned ==
    /\ FitMachine(Machine) /\ OwnerTypes(host, vars, frames)
    /\ \A o \in Objects : Surplus(o) >= 0

OwnInv == FramesInv /\ Owned

\* The numbers are numbers, and the machine is what it is made of.
LEMMA OwnFacts ==
  ASSUME Owned
  PROVE  /\ FitMachine(Machine) /\ GoodHeap(heap) /\ heap \in Heaps /\ stk \in Seq(Objects)
         /\ Machine.heap = heap /\ Machine.stk = stk /\ Machine.ok = TRUE
         /\ OwnerTypes(host, vars, frames)
         /\ \A o \in Objects : /\ Surplus(o) \in Int /\ Surplus(o) >= 0
                               /\ Spare(Machine, o) \in Int /\ Outer(heap, o) \in Int
                               /\ Claims(host, vars, frames, o) \in Nat
                               /\ Count(stk, o) \in Nat
                               /\ Surplus(o) = Spare(Machine, o) - Claims(host, vars, frames, o)
                               /\ Spare(Machine, o) = Outer(heap, o) - Count(stk, o)
  <1>1. Machine.heap = heap /\ Machine.stk = stk /\ Machine.ok = TRUE
    BY DEF Machine
  <1>2. FitMachine(Machine) /\ OwnerTypes(host, vars, frames)
    BY DEF Owned
  <1>3. GoodHeap(heap) /\ heap \in Heaps /\ stk \in Seq(Objects)
    BY <1>1, <1>2 DEF FitMachine, GoodHeap, SoundHeap
  <1>4. ASSUME NEW o \in Objects
        PROVE  /\ Surplus(o) \in Int /\ Surplus(o) >= 0
               /\ Spare(Machine, o) \in Int /\ Outer(heap, o) \in Int
               /\ Claims(host, vars, frames, o) \in Nat
               /\ Count(stk, o) \in Nat
               /\ Surplus(o) = Spare(Machine, o) - Claims(host, vars, frames, o)
               /\ Spare(Machine, o) = Outer(heap, o) - Count(stk, o)
    <2>1. Claims(host, vars, frames, o) \in Nat
      BY <1>2, ClaimsType
    <2>2. /\ Spare(Machine, o) \in Int /\ Outer(heap, o) \in Int /\ Count(stk, o) \in Nat
          /\ Spare(Machine, o) = Outer(heap, o) - Count(stk, o)
      BY <1>1, <1>3, SpareType
    <2> QED
      BY <2>1, <2>2 DEF Surplus, Owned
  <1> QED
    BY <1>1, <1>2, <1>3, <1>4

\* A step that leaks nothing, and keeps the types of what lives.
Steady ==
    /\ Owned' /\ KeepsTypes(heap, heap')
    /\ \A o \in Objects : Surplus(o)' = Surplus(o)

\* A call that ends in a machine, and owners that claim no more than is spare there.
LEMMA BecomesOwned ==
  ASSUME NEW m, FitMachine(m), heap' = m.heap, stk' = m.stk, OwnerTypes(host, vars, frames)',
         \A o \in Objects : Spare(m, o) >= Claims(host, vars, frames, o)'
  PROVE  /\ Owned'
         /\ \A o \in Objects : Surplus(o)' = Spare(m, o) - Claims(host, vars, frames, o)'
  <1>1. Machine' = [heap |-> m.heap, stk |-> m.stk, ok |-> TRUE]
    BY DEF Machine
  <1>2. /\ FitMachine(Machine') /\ Machine'.heap = m.heap /\ Machine'.stk = m.stk
        /\ \A o \in Objects : Spare(Machine', o) = Spare(m, o)
    <2> DEFINE n == [m EXCEPT !.ok = TRUE]
    <2>1. /\ Follows(m, n, TRUE) /\ n.stk = m.stk /\ n.heap = m.heap
          /\ \A x \in Objects : Spare(n, x) = Spare(m, x)
      BY OkFits
    <2> HIDE DEF n
    <2>2. FitMachine(n) /\ n.ok = TRUE /\ n = [heap |-> n.heap, stk |-> n.stk, ok |-> n.ok]
      BY <2>1 DEF Follows, FitMachine
    <2>3. Machine' = n
      BY <1>1, <2>1, <2>2, Zenon
    <2> QED
      BY <2>1, <2>2, <2>3
  <1>3. ASSUME NEW o \in Objects
        PROVE  /\ Surplus(o)' = Spare(m, o) - Claims(host, vars, frames, o)'
               /\ Surplus(o)' >= 0
    <2>1. Claims(host, vars, frames, o)' \in Nat
      BY ClaimsType
    <2>2. Spare(m, o) \in Int
      BY SpareType DEF FitMachine
    <2>3. Surplus(o)' = Spare(m, o) - Claims(host, vars, frames, o)'
      BY <1>2 DEF Surplus
    <2> QED
      BY <2>1, <2>2, <2>3
  <1> QED
    BY <1>2, <1>3 DEF Owned

\* A call that ends in a machine where as much is spare as the owners claim anew.
LEMMA BecomesSteady ==
  ASSUME Owned, NEW m, FitMachine(m), heap' = m.heap, stk' = m.stk, KeepsTypes(heap, m.heap),
         OwnerTypes(host, vars, frames)',
         \A o \in Objects : Spare(m, o) - Claims(host, vars, frames, o)' = Surplus(o)
  PROVE  Steady
  <1>1. ASSUME NEW o \in Objects PROVE Spare(m, o) >= Claims(host, vars, frames, o)'
    <2>1. Spare(m, o) \in Int
      BY SpareType DEF FitMachine
    <2>2. Claims(host, vars, frames, o)' \in Nat
      BY ClaimsType
    <2>3. Surplus(o) \in Int /\ Surplus(o) >= 0
      BY OwnFacts
    <2>4. Spare(m, o) - Claims(host, vars, frames, o)' = Surplus(o)
      OBVIOUS
    <2> QED
      BY <2>1, <2>2, <2>3, <2>4
  <1>2. /\ Owned'
        /\ \A o \in Objects : Surplus(o)' = Spare(m, o) - Claims(host, vars, frames, o)'
    BY <1>1, BecomesOwned
  <1> QED
    BY <1>2 DEF Steady

--------------------------------------------------------------------------------
(* The calls that the host makes with references of its own *)

\* The host's own references alone change.
LEMMA HostClaims ==
  ASSUME Owned, host' \in [Objects -> Nat], UNCHANGED <<vars, frames>>
  PROVE  /\ OwnerTypes(host, vars, frames)'
         /\ \A x \in Objects : Claims(host, vars, frames, x)'
                                = Claims(host, vars, frames, x) - host[x] + host'[x]
  <1>1. OwnerTypes(host, vars, frames)
    BY DEF Owned
  <1>2. OwnerTypes(host', vars, frames)
    BY <1>1 DEF OwnerTypes
  <1>3. ASSUME NEW x \in Objects
        PROVE  Claims(host', vars, frames, x) = Claims(host, vars, frames, x) - host[x] + host'[x]
    <2>1. /\ host[x] \in Nat /\ Count(vars, x) \in Nat /\ FramesClaim(frames, x) \in Nat
          /\ Claims(host, vars, frames, x) = host[x] + Count(vars, x) + FramesClaim(frames, x)
      BY <1>1, ClaimsType
    <2>2. /\ host'[x] \in Nat
          /\ Claims(host', vars, frames, x) = host'[x] + Count(vars, x) + FramesClaim(frames, x)
      BY <1>2, ClaimsType
    <2> QED
      BY <2>1, <2>2
  <1> QED
    BY <1>2, <1>3

\* The host pays what a policy costs.
LEMMA PaidClaims ==
  ASSUME Owned, NEW o \in Objects, NEW policy, NEW ok \in BOOLEAN, Pays(o, policy, ok),
         IsPolicy(policy), policy # "borrow" => host[o] > 0
  PROVE  /\ host' \in [Objects -> Nat]
         /\ \A x \in Objects : host'[x] = host[x] - Cost(policy, ok, o, x)
  <1>1. host \in [Objects -> Nat]
    BY DEF Owned, OwnerTypes
  <1>2. CASE policy = "take" \/ (policy = "take if ok" /\ ok)
    <2>1. host[o] > 0
      BY <1>2
    <2>2. host' = [host EXCEPT ![o] = host[o] - 1]
      BY <1>2 DEF Pays
    <2>3. \A x \in Objects : Cost(policy, ok, o, x) = Turn(o, x)
      BY <1>2 DEF Cost
    <2> QED
      BY <1>1, <2>1, <2>2, <2>3 DEF Turn
  <1>3. CASE ~(policy = "take" \/ (policy = "take if ok" /\ ok))
    <2>1. host' = host
      BY <1>3 DEF Pays
    <2>2. \A x \in Objects : Cost(policy, ok, o, x) = 0
      BY <1>3 DEF Cost
    <2> QED
      BY <1>1, <2>1, <2>2
  <1> QED
    BY <1>2, <1>3

\* The host gets a reference.
LEMMA GotClaims ==
  ASSUME Owned, NEW o \in Objects, Gets(o)
  PROVE  /\ host' \in [Objects -> Nat]
         /\ \A x \in Objects : host'[x] = host[x] + Turn(o, x)
  BY DEF Owned, OwnerTypes, Gets, Turn

\* Nothing changes.
LEMMA SameSteady ==
  ASSUME Owned, UNCHANGED <<heap, stk, frames, vars, host>>
  PROVE  Steady
  <1>1. UNCHANGED <<heap, stk, frames, vars, host>>
    OBVIOUS
  <1>2. FitMachine(Machine) /\ Machine.heap = heap /\ Machine.stk = stk
        /\ OwnerTypes(host, vars, frames)
    BY OwnFacts
  <1>3. KeepsTypes(heap, Machine.heap)
    BY <1>2, FadesSame, FadesKeepsTypes
  <1>4. OwnerTypes(host, vars, frames)'
    BY <1>1, <1>2
  <1>5. \A o \in Objects : Spare(Machine, o) - Claims(host, vars, frames, o)' = Surplus(o)
    BY <1>1 DEF Surplus
  <1> QED
    BY <1>1, <1>2, <1>3, <1>4, <1>5, BecomesSteady

\* Nothing changes but the result.
LEMMA RefusedSteady ==
  ASSUME Owned, Refused
  PROVE  Steady
  BY SameSteady DEF Refused

\* ymObj_Secure: what it adds is the host's.
LEMMA SecureSteady ==
  ASSUME Owned, NEW o, Secure(o)
  PROVE  Steady
  <1>1. /\ o \in Objects /\ heap[o].type # Vacant /\ Gets(o)
        /\ heap' = Secured(heap, o) /\ UNCHANGED <<stk, frames, vars>>
    BY DEF Secure, Live
  <1> DEFINE n == Borrowed(Machine, o, "borrow")
  <1>2. FitMachine(Machine) /\ Machine.heap = heap /\ Machine.stk = stk
    BY OwnFacts
  <1>3. /\ Follows(Machine, n, Machine.ok) /\ n.stk = Machine.stk
        /\ \A x \in Objects : Spare(n, x) = Spare(Machine, x) + Turn(o, x)
    BY <1>1, <1>2, BorrowedFits
  <1>4. n.heap = Secured(heap, o)
    BY <1>2 DEF Borrowed, Machine
  <1> HIDE DEF n
  <1>5. FitMachine(n) /\ KeepsTypes(heap, n.heap)
    BY <1>2, <1>3, FadesKeepsTypes DEF Follows
  <1>6. host' \in [Objects -> Nat] /\ \A x \in Objects : host'[x] = host[x] + Turn(o, x)
    BY <1>1, GotClaims
  <1>7. /\ OwnerTypes(host, vars, frames)'
        /\ \A x \in Objects : Claims(host, vars, frames, x)'
                                = Claims(host, vars, frames, x) - host[x] + host'[x]
    BY <1>1, <1>6, HostClaims
  <1>8. ASSUME NEW x \in Objects
        PROVE  Spare(n, x) - Claims(host, vars, frames, x)' = Surplus(x)
    <2>1. host[x] \in Nat /\ Turn(o, x) \in Nat
      BY DEF Owned, OwnerTypes, Turn
    <2>2. /\ Spare(Machine, x) \in Int /\ Claims(host, vars, frames, x) \in Nat
          /\ Surplus(x) = Spare(Machine, x) - Claims(host, vars, frames, x)
      BY OwnFacts
    <2>3. Claims(host, vars, frames, x)' = Claims(host, vars, frames, x) + Turn(o, x)
      BY <1>6, <1>7, <2>1, <2>2
    <2>4. Spare(n, x) = Spare(Machine, x) + Turn(o, x)
      BY <1>3
    <2> QED
      BY <2>1, <2>2, <2>3, <2>4
  <1> QED
    BY <1>1, <1>2, <1>3, <1>4, <1>5, <1>7, <1>8, BecomesSteady

\* A call that ends in a machine, and costs the host what is no longer spare there.
LEMMA PayingSteady ==
  ASSUME Owned, UNCHANGED <<vars, frames>>, host' \in [Objects -> Nat],
         NEW m, FitMachine(m), heap' = m.heap, stk' = m.stk, KeepsTypes(heap, m.heap),
         \A x \in Objects : Spare(m, x) - host'[x] = Spare(Machine, x) - host[x]
  PROVE  Steady
  <1>1. /\ OwnerTypes(host, vars, frames)'
        /\ \A x \in Objects : Claims(host, vars, frames, x)'
                                = Claims(host, vars, frames, x) - host[x] + host'[x]
    BY HostClaims
  <1>2. ASSUME NEW x \in Objects
        PROVE  Spare(m, x) - Claims(host, vars, frames, x)' = Surplus(x)
    <2>1. Spare(m, x) \in Int
      BY SpareType DEF FitMachine
    <2>2. /\ Spare(Machine, x) \in Int /\ Claims(host, vars, frames, x) \in Nat
          /\ Surplus(x) = Spare(Machine, x) - Claims(host, vars, frames, x)
      BY OwnFacts
    <2>3. host[x] \in Nat /\ host'[x] \in Nat
      BY DEF Owned, OwnerTypes
    <2>4. Spare(m, x) - host'[x] = Spare(Machine, x) - host[x]
      OBVIOUS
    <2> QED
      BY <1>1, <2>1, <2>2, <2>3, <2>4
  <1> QED
    BY <1>1, <1>2, BecomesSteady

\* A call that leaves as much spare as there was.
LEMMA KeepingSteady ==
  ASSUME Owned, UNCHANGED <<vars, frames, host>>,
         NEW m, FitMachine(m), heap' = m.heap, stk' = m.stk, KeepsTypes(heap, m.heap),
         \A x \in Objects : Spare(m, x) = Spare(Machine, x)
  PROVE  Steady
  <1>1. host' \in [Objects -> Nat]
    BY DEF Owned, OwnerTypes
  <1>2. \A x \in Objects : Spare(m, x) - host'[x] = Spare(Machine, x) - host[x]
    OBVIOUS
  <1> QED
    BY <1>1, <1>2, PayingSteady

\* What the host, a var or a frame owns is spare.
LEMMA ClaimedIsSpare ==
  ASSUME Owned, NEW o \in Objects, Claims(host, vars, frames, o) >= 1
  PROVE  Spare(Machine, o) >= 1
  <1>1. /\ Spare(Machine, o) \in Int /\ Claims(host, vars, frames, o) \in Nat
        /\ Surplus(o) = Spare(Machine, o) - Claims(host, vars, frames, o) /\ Surplus(o) >= 0
    BY OwnFacts
  <1> QED
    BY <1>1

\* So is what the host owns a reference to.
LEMMA HostIsSpare ==
  ASSUME Owned, NEW o \in Objects, host[o] > 0
  PROVE  Spare(Machine, o) >= 1
  <1>1. /\ host[o] \in Nat /\ Count(vars, o) \in Nat /\ FramesClaim(frames, o) \in Nat
        /\ Claims(host, vars, frames, o) = host[o] + Count(vars, o) + FramesClaim(frames, o)
    BY ClaimsType DEF Owned
  <1>2. Claims(host, vars, frames, o) >= 1
    BY <1>1
  <1> QED
    BY <1>2, ClaimedIsSpare

\* ymObj_Release gives up the host's.
LEMMA ReleaseSteady ==
  ASSUME Owned, NEW o \in Objects, Release(o)
  PROVE  Steady
  <1> DEFINE n == ReleasedIn(Machine, <<o>>)
  <1>1. /\ host[o] > 0 /\ host' = [host EXCEPT ![o] = host[o] - 1]
        /\ heap' = n.heap /\ stk' = n.stk /\ UNCHANGED <<vars, frames>>
    BY DEF Release, Becomes
  <1>2. FitMachine(Machine) /\ Machine.heap = heap
    BY OwnFacts
  <1>3. /\ Follows(Machine, n, Machine.ok)
        /\ \A x \in Objects : Spare(n, x) = Spare(Machine, x) - Turn(o, x)
    BY <1>1, <1>2, HostIsSpare, OneReleasedFits
  <1> HIDE DEF n
  <1>4. FitMachine(n) /\ KeepsTypes(heap, n.heap)
    BY <1>2, <1>3, FadesKeepsTypes DEF Follows
  <1>5. host \in [Objects -> Nat]
    BY DEF Owned, OwnerTypes
  <1>6. host' \in [Objects -> Nat] /\ \A x \in Objects : host'[x] = host[x] - Turn(o, x)
    BY <1>1, <1>5 DEF Turn
  <1>7. ASSUME NEW x \in Objects
        PROVE  Spare(n, x) - host'[x] = Spare(Machine, x) - host[x]
    <2>1. Turn(o, x) \in Nat /\ Spare(Machine, x) \in Int /\ host[x] \in Nat
      BY <1>5, OwnFacts DEF Turn
    <2> QED
      BY <1>3, <1>6, <2>1
  <1> QED
    BY <1>1, <1>4, <1>6, <1>7, PayingSteady

\* An address for a new object is vacant.
LEMMA RoomIsVacant ==
  ASSUME NEW h, NEW os \in Room(h, 1)
  PROVE  os[1] \in Objects /\ h[os[1]].type = Vacant
  BY DEF Room, Live

\* ymCtx_NewInt, ...: the new object is the host's.
LEMMA NewSteady ==
  ASSUME Owned, NEW type \in Primitives, New(type)
  PROVE  Steady
  <1>1. PICK os \in Room(heap, 1) :
            /\ Gets(os[1]) /\ heap' = Created(heap, os[1], type, <<>>)
            /\ UNCHANGED <<stk, frames, vars>>
    BY DEF New
  <1> DEFINE p == os[1]
             n == WithNew(Machine, p, type, <<>>)
  <1>2. FitMachine(Machine) /\ Machine.heap = heap /\ Machine.stk = stk
    BY OwnFacts
  <1>3. p \in Objects /\ Machine.heap[p].type = Vacant
    BY <1>2, RoomIsVacant
  <1> HIDE DEF p
  <1>4. type \in Types /\ HasDefault(type)
    BY DEF Types, HasDefault
  <1>5. /\ FitMachine(n) /\ KeepsTypes(Machine.heap, n.heap) /\ n.stk = Machine.stk
        /\ \A x \in Objects : Spare(n, x) = Spare(Machine, x) + Turn(p, x)
    BY <1>2, <1>3, <1>4, CreatedAloneFits
  <1>6. n.heap = heap'
    BY <1>1, <1>2 DEF WithNew, Machine, p
  <1> HIDE DEF n
  <1>7. host' \in [Objects -> Nat] /\ \A x \in Objects : host'[x] = host[x] + Turn(p, x)
    BY <1>1, <1>3, GotClaims DEF p
  <1>8. ASSUME NEW x \in Objects
        PROVE  Spare(n, x) - host'[x] = Spare(Machine, x) - host[x]
    <2>1. Turn(p, x) \in Nat /\ Spare(Machine, x) \in Int /\ host[x] \in Nat
      BY OwnFacts DEF Turn, Owned, OwnerTypes
    <2> QED
      BY <1>5, <1>7, <2>1
  <1> QED
    BY <1>1, <1>2, <1>5, <1>6, <1>7, <1>8, PayingSteady

\* So with all of them.
LEMMA HostCallsSteady == OwnInv /\ HostCalls => Steady
  <1> SUFFICES ASSUME OwnInv, HostCalls PROVE Steady
    OBVIOUS
  <1>1. Owned
    BY DEF OwnInv
  <1>2. ASSUME NEW where \in Wheres, TakeLocal(where) PROVE Steady
    BY <1>1, <1>2, RefusedSteady, SecureSteady DEF TakeLocal
  <1>3. ASSUME TakeArg PROVE Steady
    BY <1>1, <1>3, RefusedSteady, SecureSteady DEF TakeArg
  <1> QED
    BY <1>1, <1>2, <1>3, NewSteady, SecureSteady, ReleaseSteady DEF HostCalls

--------------------------------------------------------------------------------
(* The calls that move objects on the stack *)

\* The object taken off a stack is spare.
LEMMA FrontFits ==
  ASSUME NEW m, FitMachine(m), m.stk # <<>>
  PROVE  LET n == [m EXCEPT !.stk = Front(m.stk)]
         IN /\ Follows(m, n, m.ok) /\ n.stk = Front(m.stk) /\ n.heap = m.heap
            /\ Last(m.stk) \in Objects /\ Len(n.stk) = Len(m.stk) - 1 /\ Len(m.stk) \in Nat \ {0}
            /\ \A x \in Objects : Spare(n, x) = Spare(m, x) + Turn(Last(m.stk), x)
  <1> DEFINE k == Len(m.stk) - 1
             n == [m EXCEPT !.stk = Front(m.stk)]
             top == SubSeq(m.stk, k + 1, Len(m.stk))
  <1>1. m.stk \in Seq(Objects) /\ Len(m.stk) \in Nat \ {0}
    BY DEF FitMachine
  <1>2. k \in 0..Len(m.stk) /\ k + 1 = Len(m.stk)
    BY <1>1
  <1>3. Front(m.stk) = SubSeq(m.stk, 1, k)
    BY DEF Front
  <1> HIDE DEF k
  <1>4. /\ Follows(m, n, m.ok) /\ n.stk = Front(m.stk) /\ n.heap = m.heap
        /\ \A x \in Objects : Spare(n, x) = Spare(m, x) + Count(top, x)
    BY <1>2, <1>3, CutFits
  <1>5. Last(m.stk) \in Objects /\ top = <<Last(m.stk)>>
    <2> DEFINE j == Len(m.stk)
    <2>1. top = SubSeq(m.stk, j, j) /\ Last(m.stk) = m.stk[j]
      BY <1>2 DEF Last
    <2>2. m.stk[j] \in Objects
      BY <1>1
    <2>3. SubSeq(m.stk, j, j) = <<m.stk[j]>>
      <3> DEFINE t == SubSeq(m.stk, j, j)
      <3>1. j \in 1..Len(m.stk)
        BY <1>1
      <3> HIDE DEF j
      <3>2. t \in Seq(Objects) /\ Len(t) = 1
        BY <1>1, <3>1
      <3>3. t[1] = m.stk[j]
        BY <1>1, <3>1
      <3> HIDE DEF t
      <3>4. t = <<m.stk[j]>>
        BY <3>2, <3>3
      <3> QED
        BY <3>4 DEF t
    <2> QED
      BY <2>1, <2>2, <2>3
  <1>6. Len(Front(m.stk)) = Len(m.stk) - 1
    BY <1>1, KeepsFront DEF IsSeq
  <1> HIDE DEF n, top
  <1>7. \A x : Count(top, x) = Turn(Last(m.stk), x)
    BY <1>5, CountSingle
  <1> QED
    BY <1>1, <1>4, <1>5, <1>6, <1>7 DEF n

\* ymCtx_Pop.
LEMMA PopSteady ==
  ASSUME OwnInv, NEW k \in 1..MaxStack, Pop(k)
  PROVE  Steady
  <1> DEFINE l == IF k > Locals THEN Locals ELSE k
             n == Popped(Machine, l)
  <1>1. Owned /\ heap' = n.heap /\ stk' = n.stk /\ UNCHANGED <<frames, vars, host>>
    BY DEF OwnInv, Pop, Becomes
  <1>2. FitMachine(Machine) /\ Machine.heap = heap /\ Machine.stk = stk
    BY <1>1, OwnFacts
  <1>3. l \in 0..Len(Machine.stk)
    <2>1. /\ Locals \in Nat /\ Locals = Len(stk) - Frame.localsOffset
          /\ Frame.localsOffset \in Nat /\ Len(stk) \in Nat
      BY FrameFacts DEF OwnInv
    <2>2. k \in Nat
      BY BoundAssumption
    <2> QED
      BY <1>2, <2>1, <2>2
  <1> HIDE DEF l
  <1>4. /\ Follows(Machine, n, Machine.ok)
        /\ \A x \in Objects : Spare(n, x) = Spare(Machine, x)
    BY <1>2, <1>3, PoppedFits
  <1> HIDE DEF n
  <1>5. FitMachine(n) /\ KeepsTypes(heap, n.heap)
    BY <1>2, <1>4, FadesKeepsTypes DEF Follows
  <1> QED
    BY <1>1, <1>4, <1>5, KeepingSteady

\* ymCtx_Pull: what the stack owned is the host's.
LEMMA PullSteady ==
  ASSUME OwnInv, Pull
  PROVE  Steady
  <1>1. Owned
    BY DEF OwnInv
  <1>2. CASE Locals = 0
    BY <1>1, <1>2, RefusedSteady DEF Pull
  <1>3. CASE Locals # 0
    <2> DEFINE n == [Machine EXCEPT !.stk = Front(Machine.stk)]
               o == Last(stk)
    <2>1. Gets(o) /\ stk' = Front(stk) /\ UNCHANGED <<heap, frames, vars>>
      BY <1>3 DEF Pull
    <2>2. FitMachine(Machine) /\ Machine.heap = heap /\ Machine.stk = stk
      BY <1>1, OwnFacts
    <2>3. stk # <<>>
      <3>1. /\ Locals \in Nat /\ Locals = Len(stk) - Frame.localsOffset
            /\ Frame.localsOffset \in Nat /\ Len(stk) \in Nat
        BY FrameFacts DEF OwnInv
      <3> QED
        BY <1>3, <3>1
    <2>4. /\ Follows(Machine, n, Machine.ok) /\ n.stk = Front(stk) /\ n.heap = heap
          /\ o \in Objects
          /\ \A x \in Objects : Spare(n, x) = Spare(Machine, x) + Turn(o, x)
      BY <2>2, <2>3, FrontFits
    <2> HIDE DEF n, o
    <2>5. FitMachine(n) /\ KeepsTypes(heap, n.heap)
      BY <2>2, <2>4, FadesKeepsTypes DEF Follows
    <2>6. host' \in [Objects -> Nat] /\ \A x \in Objects : host'[x] = host[x] + Turn(o, x)
      BY <1>1, <2>1, <2>4, GotClaims
    <2>7. ASSUME NEW x \in Objects
          PROVE  Spare(n, x) - host'[x] = Spare(Machine, x) - host[x]
      <3>1. Turn(o, x) \in Nat /\ Spare(Machine, x) \in Int /\ host[x] \in Nat
        BY <1>1, OwnFacts DEF Turn, Owned, OwnerTypes
      <3> QED
        BY <2>4, <2>6, <3>1
    <2> QED
      BY <1>1, <2>1, <2>4, <2>5, <2>6, <2>7, PayingSteady
  <1> QED
    BY <1>2, <1>3

\* put into the current frame of what is spare.
LEMMA TakeNowFits ==
  ASSUME FramesInv, NEW m, FitMachine(m), m.ok = TRUE, Frame.localsOffset <= Len(m.stk),
         NEW where \in Wheres, NEW o \in Objects, Spare(m, o) >= 1
  PROVE  LET n == PutNow(m, where, o, "take")
         IN /\ Became(m, n)
            /\ \A x \in Objects : Spare(n, x) = Spare(m, x) - Turn(o, x)
  <1> DEFINE policy == "take"
             offset == Frame.localsOffset
             n == PutIn(m, offset, where, o, policy)
  <1>1. IsPolicy(policy) /\ ~Lends(policy)
    BY DEF IsPolicy, Lends
  <1>2. \A b, x : Cost(policy, b, o, x) = Turn(o, x)
    BY DEF Cost
  <1>3. Puttable(m, o, policy)
    BY <1>1 DEF Puttable, Lends
  <1>4. offset \in Nat
    BY FrameFacts
  <1>5. n = PutNow(m, where, o, "take")
    BY DEF PutNow
  <1> HIDE DEF policy, offset
  <1>6. /\ Became(m, n)
        /\ \A x \in Objects : Spare(n, x) = Spare(m, x) - Cost(policy, n.ok, o, x)
    <2>1. offset <= Len(m.stk)
      BY DEF offset
    <2> QED
      BY <1>1, <1>3, <1>4, <2>1, PutInFits
  <1> HIDE DEF n
  <1>7. \A x \in Objects : Spare(n, x) = Spare(m, x) - Turn(o, x)
    BY <1>2, <1>6
  <1> QED
    BY <1>5, <1>6, <1>7 DEF offset

\* The host lends what outlives the call.
KeepsLoans == "keeps what it borrows" \in Discipline

\* ymCtx_Put.
LEMMA PutSteady ==
  ASSUME OwnInv, KeepsLoans,
         NEW where \in Wheres, NEW o \in Objects, NEW policy, IsPolicy(policy),
         Put(where, o, policy)
  PROVE  Steady
  <1> DEFINE offset == Frame.localsOffset
             at == AbsIndex(where, Len(stk) - offset)
             n == PutIn(Machine, offset, where, o, policy)
  <1>1. /\ Owned /\ Offered(o, policy) /\ Pays(o, policy, n.ok)
        /\ heap' = n.heap /\ stk' = n.stk /\ UNCHANGED <<frames, vars>>
    BY DEF OwnInv, Put, PutNow, Becomes
  <1>2. /\ FitMachine(Machine) /\ Machine.heap = heap /\ Machine.stk = stk
        /\ Machine.ok = TRUE
    BY <1>1, OwnFacts
  <1>3. /\ offset \in Nat /\ offset <= Len(stk) /\ Locals = Len(stk) - offset
    BY FrameFacts DEF OwnInv
  <1>4. policy # "borrow" => host[o] > 0
    BY <1>1 DEF Offered
  <1>5. Puttable(Machine, o, policy)
    BY <1>1, <1>2, <1>4, HostIsSpare DEF Puttable, Offered, Live
  <1>6. Lends(policy) => Outlives(Machine, offset, where, o)
    <2>1. policy = "borrow" /\ at \in Int => o \in Live(Released(heap, <<stk[offset + at + 1]>>))
      BY <1>3 DEF Put, KeepsBorrowed, KeepsLoans
    <2> QED
      BY <1>2, <2>1 DEF Outlives, Live, Lends
  <1> HIDE DEF offset
  <1>7. /\ Became(Machine, n) /\ n.ok = IF at = OutOfBounds THEN FALSE ELSE TRUE
        /\ \A x \in Objects : Spare(n, x) = Spare(Machine, x) - Cost(policy, n.ok, o, x)
    <2>1. FitMachine(Machine) /\ Machine.ok = TRUE /\ offset <= Len(Machine.stk)
      BY <1>2, <1>3
    <2>2. at = AbsIndex(where, Len(Machine.stk) - offset)
      BY <1>2
    <2> HIDE DEF at, n
    <2>3. LET k == PutIn(Machine, offset, where, o, policy)
              j == AbsIndex(where, Len(Machine.stk) - offset)
          IN /\ Became(Machine, k) /\ k.ok = IF j = OutOfBounds THEN FALSE ELSE TRUE
             /\ \A x \in Objects : Spare(k, x) = Spare(Machine, x) - Cost(policy, k.ok, o, x)
      BY <1>3, <1>5, <1>6, <2>1, PutInFits
    <2> QED
      BY <2>2, <2>3 DEF n
  <1> HIDE DEF n
  <1>8. FitMachine(n) /\ KeepsTypes(heap, n.heap) /\ n.ok \in BOOLEAN
    BY <1>2, <1>7, FadesKeepsTypes DEF Became
  <1>9. /\ host' \in [Objects -> Nat]
        /\ \A x \in Objects : host'[x] = host[x] - Cost(policy, n.ok, o, x)
    BY <1>1, <1>4, <1>8, PaidClaims
  <1>10. ASSUME NEW x \in Objects
         PROVE  Spare(n, x) - host'[x] = Spare(Machine, x) - host[x]
    <2> DEFINE c == Cost(policy, n.ok, o, x)
    <2>1. c \in Nat
      BY DEF Cost, Turn
    <2>2. Spare(Machine, x) \in Int /\ host[x] \in Nat
      BY <1>1, OwnFacts DEF Owned, OwnerTypes
    <2>3. Spare(n, x) = Spare(Machine, x) - c /\ host'[x] = host[x] - c
      BY <1>7, <1>9
    <2> HIDE DEF c
    <2> QED
      BY <2>1, <2>2, <2>3
  <1> QED
    BY <1>1, <1>8, <1>9, <1>10, PayingSteady

\* A call that ends with put of what it has made spare.
LEMMA PlacedSteady ==
  ASSUME OwnInv, NEW c, FitMachine(c), c.ok = TRUE, Frame.localsOffset <= Len(c.stk),
         KeepsTypes(heap, c.heap), NEW where \in Wheres, NEW p \in Objects,
         \A x \in Objects : Spare(c, x) = Spare(Machine, x) + Turn(p, x),
         heap' = PutNow(c, where, p, "take").heap, stk' = PutNow(c, where, p, "take").stk,
         UNCHANGED <<frames, vars, host>>
  PROVE  Steady
  <1> DEFINE n == PutNow(c, where, p, "take")
  <1>1. Owned /\ FramesInv
    BY DEF OwnInv
  <1>2. \A x \in Objects : Spare(Machine, x) \in Int /\ Spare(Machine, x) >= 0
    BY <1>1, OwnFacts DEF FitMachine
  <1>3. Spare(c, p) >= 1
    <2>1. Turn(p, p) = 1
      BY DEF Turn
    <2> QED
      BY <1>2, <2>1
  <1>4. /\ Became(c, n)
        /\ \A x \in Objects : Spare(n, x) = Spare(c, x) - Turn(p, x)
    BY <1>1, <1>3, TakeNowFits
  <1>5. heap' = n.heap /\ stk' = n.stk
    OBVIOUS
  <1> HIDE DEF n
  <1>6. FitMachine(n) /\ KeepsTypes(heap, n.heap)
    BY <1>4, KeepsTypesOn DEF Became
  <1>7. \A x \in Objects : Spare(n, x) = Spare(Machine, x)
    <2> TAKE x \in Objects
    <2>1. Turn(p, x) \in Nat
      BY DEF Turn
    <2> QED
      BY <1>2, <1>4, <2>1
  <1> QED
    BY <1>1, <1>5, <1>6, <1>7, KeepingSteady

\* ymCtx_PutInt, ...
LEMMA PutNewSteady ==
  ASSUME OwnInv, NEW where \in Wheres, NEW type \in Types, PutNew(type, where)
  PROVE  Steady
  <1>1. Owned
    BY DEF OwnInv
  <1>2. CASE ~HasDefault(type)
    BY <1>1, <1>2, RefusedSteady DEF PutNew
  <1>3. CASE HasDefault(type)
    <2>1. PICK os \in Room(heap, 1) :
            /\ Becomes(PutNow([Machine EXCEPT !.heap = Created(heap, os[1], type, <<>>)],
                              where, os[1], "take"))
            /\ UNCHANGED <<frames, vars, host>>
      BY <1>3 DEF PutNew
    <2> DEFINE p == os[1]
               c == WithNew(Machine, p, type, <<>>)
    <2>2. FitMachine(Machine) /\ Machine.heap = heap /\ Machine.stk = stk /\ Machine.ok = TRUE
      BY <1>1, OwnFacts
    <2>3. c = [Machine EXCEPT !.heap = Created(heap, p, type, <<>>)]
      BY <2>2 DEF WithNew
    <2>4. p \in Objects /\ Machine.heap[p].type = Vacant
      BY <2>2, RoomIsVacant
    <2>5. Becomes(PutNow(c, where, p, "take"))
      BY <2>1, <2>3
    <2> HIDE DEF p
    <2>6. /\ FitMachine(c) /\ KeepsTypes(Machine.heap, c.heap) /\ c.stk = Machine.stk
          /\ c.ok = Machine.ok
          /\ \A x \in Objects : Spare(c, x) = Spare(Machine, x) + Turn(p, x)
      BY <1>3, <2>2, <2>4, CreatedAloneFits
    <2> HIDE DEF c
    <2>7. Frame.localsOffset <= Len(c.stk)
      BY <2>2, <2>6, FrameFacts DEF OwnInv
    <2>8. heap' = PutNow(c, where, p, "take").heap /\ stk' = PutNow(c, where, p, "take").stk
      BY <2>5 DEF Becomes
    <2>9. KeepsTypes(heap, c.heap) /\ c.ok = TRUE
      BY <2>2, <2>6
    <2> QED
      BY <2>1, <2>4, <2>6, <2>7, <2>8, <2>9, PlacedSteady
  <1> QED
    BY <1>2, <1>3

\* ymCtx_Copy.
LEMMA CopySteady ==
  ASSUME OwnInv, KeepsLoans, NEW from \in Wheres, NEW to \in Wheres, Copy(from, to)
  PROVE  Steady
  <1> DEFINE at == AbsIndex(from, Locals)
             o == LocalStack[at + 1]
  <1>1. Owned
    BY DEF OwnInv
  <1>2. CASE Refused
    BY <1>1, <1>2, RefusedSteady
  <1>3. CASE Put(to, o, "borrow")
    <2>1. o \in Objects
      BY <1>3 DEF Put, Offered, Live
    <2>2. IsPolicy("borrow")
      BY DEF IsPolicy
    <2> HIDE DEF o
    <2> QED
      BY <1>3, <2>1, <2>2, PutSteady
  <1> QED
    BY <1>2, <1>3 DEF Copy

\* So with all of them.
LEMMA StackCallsSteady == OwnInv /\ KeepsLoans /\ StackCalls => Steady
  <1> SUFFICES ASSUME OwnInv, KeepsLoans, StackCalls PROVE Steady
    OBVIOUS
  <1>1. ASSUME NEW where \in Wheres, NEW o \in Objects, NEW policy \in Policies,
               Put(where, o, policy)
        PROVE  Steady
    <2>1. IsPolicy(policy)
      BY IndexAssumption DEF IsPolicy
    <2> QED
      BY <1>1, <2>1, PutSteady
  <1> QED
    BY <1>1, PopSteady, PullSteady, PutNewSteady, CopySteady DEF StackCalls

--------------------------------------------------------------------------------
(* The calls on struct and protocol values *)

\* Numbers that differ pairwise, as many as there are, are all of them.
LEMMA AllNumbered ==
  ASSUME NEW n \in Nat, NEW names \in [1..n -> 1..n], IsInjective(names)
  PROVE  \A i \in 1..n : \E j \in 1..n : names[j] = i
  <1>1. IsFiniteSet(1..n) /\ Cardinality(1..n) = Cardinality(1..n)
    BY FS_Interval
  <1>2. names \in Injection(1..n, 1..n)
    BY DEF Injection, IsInjective
  <1>3. names \in Surjection(1..n, 1..n)
    BY <1>1, <1>2, FS_Injection
  <1> QED
    BY <1>3 DEF Surjection

\* Places exchanged.
LEMMA CountPermuted ==
  ASSUME NEW n \in Nat, NEW s \in [1..n -> Objects], NEW t \in [1..n -> Objects],
         NEW names \in [1..n -> 1..n], IsInjective(names), \A j \in 1..n : t[names[j]] = s[j],
         NEW o
  PROVE  Count(t, o) = Count(s, o)
  <1> DEFINE A == Hits(s, {o})
             B == Hits(t, {o})
             r == [j \in A |-> names[j]]
  <1>1. A \subseteq 1..n /\ B \subseteq 1..n /\ DOMAIN s = 1..n /\ DOMAIN t = 1..n
    BY DEF Hits
  <1>2. IsFiniteSet(A)
    <2>1. IsFiniteSet(1..n)
      BY FS_Interval
    <2>2. A \in SUBSET (1..n)
      BY <1>1
    <2> QED
      BY <2>1, <2>2, FS_Subset
  <1>3. r \in [A -> B]
    BY <1>1 DEF Hits
  <1>4. \A x, y \in A : r[x] = r[y] => x = y
    BY <1>1 DEF IsInjective
  <1>5. \A z \in B : \E x \in A : r[x] = z
    <2> TAKE z \in B
    <2>1. PICK j \in 1..n : names[j] = z
      BY <1>1, AllNumbered
    <2>2. j \in A
      BY <1>1, <2>1 DEF Hits
    <2> QED
      BY <2>1, <2>2
  <1> HIDE DEF A, B, r
  <1>6. Cardinality(B) = Cardinality(A)
    BY <1>2, <1>3, <1>4, <1>5, TimesRenamed
  <1> QED
    BY <1>6 DEF Count, Times, A, B

\* A machine that says it succeeded.
Successful(m) == [m EXCEPT !.ok = TRUE]

\* Whether a call says so is no matter to the heap and the stack.
LEMMA PlacedAnyway ==
  ASSUME OwnInv, NEW c, FitMachine(c), c.ok = TRUE, Frame.localsOffset <= Len(c.stk),
         KeepsTypes(heap, c.heap), NEW where \in Wheres, NEW p \in Objects,
         \A x \in Objects : Spare(c, x) = Spare(Machine, x) + Turn(p, x),
         \/ Becomes(PutNow(c, where, p, "take"))
         \/ Becomes(Successful(PutNow(c, where, p, "take"))),
         UNCHANGED <<frames, vars, host>>
  PROVE  Steady
  <1> DEFINE n == PutNow(c, where, p, "take")
  <1>1. FramesInv
    BY DEF OwnInv
  <1>2. Spare(c, p) >= 1
    <2>1. Turn(p, p) = 1
      BY DEF Turn
    <2>2. Spare(Machine, p) \in Int /\ Spare(Machine, p) >= 0
      BY OwnFacts DEF OwnInv, FitMachine
    <2> QED
      BY <2>1, <2>2
  <1>3. Became(c, n)
    BY <1>1, <1>2, TakeNowFits
  <1>4. Becomes(n) \/ Becomes(Successful(n))
    OBVIOUS
  <1> HIDE DEF n
  <1>5. FitMachine(n)
    BY <1>3 DEF Became
  <1>6. Successful(n).heap = n.heap /\ Successful(n).stk = n.stk
    BY <1>5, OkFits DEF Successful
  <1>7. heap' = n.heap /\ stk' = n.stk
    BY <1>4, <1>6 DEF Becomes
  <1>8. heap' = PutNow(c, where, p, "take").heap /\ stk' = PutNow(c, where, p, "take").stk
    BY <1>7 DEF n
  <1> QED
    BY <1>8, PlacedSteady

\* The value of a property lives.
LEMMA PropertyLives ==
  ASSUME NEW h, GoodHeap(h), NEW s \in Objects, NEW type \in Structs, h[s].type = type,
         NEW i \in DOMAIN Properties[type]
  PROVE  /\ i \in DOMAIN h[s].slots /\ h[s].slots[i] \in Objects
         /\ h[h[s].slots[i]].type # Vacant /\ h[h[s].slots[i]].type = Properties[type][i]
  <1>1. WellFormed(h, s)
    BY DEF GoodHeap
  <1>2. [j \in DOMAIN h[s].slots |-> h[h[s].slots[j]].type] = Properties[type]
    BY <1>1, WellFormedCases
  <1>3. i \in DOMAIN h[s].slots /\ h[h[s].slots[i]].type = Properties[type][i]
    BY <1>2
  <1> QED
    BY <1>3, HeldIsLive

\* What a protocol value boxes lives.
LEMMA BoxedLives ==
  ASSUME NEW h, GoodHeap(h), NEW s \in Objects, h[s].type \in Protocols
  PROVE  /\ h[s].slots = <<h[s].slots[1]>> /\ h[s].slots[1] \in Objects
         /\ 1 \in DOMAIN h[s].slots
         /\ h[h[s].slots[1]].type # Vacant
         /\ <<h[h[s].slots[1]].type, h[s].type>> \in Conforming
  <1>1. WellFormed(h, s) /\ h[s].slots \in Seq(Objects)
    BY HeapParts DEF GoodHeap, SoundHeap
  <1>2. Len(h[s].slots) = 1 /\ <<h[h[s].slots[1]].type, h[s].type>> \in Conforming
    BY <1>1, WellFormedCases
  <1> DEFINE slots == h[s].slots
  <1>3. slots \in Seq(Objects) /\ Len(slots) = 1
    BY <1>1, <1>2
  <1> HIDE DEF slots
  <1>4. slots = <<slots[1]>> /\ 1 \in DOMAIN slots
    BY <1>3
  <1> QED
    BY <1>2, <1>4, HeldIsLive DEF slots

\* A stack is what is below its top, and its top.
LEMMA FrontAppended ==
  ASSUME NEW S, NEW s \in Seq(S), s # <<>>
  PROVE  /\ Front(s) \in Seq(S) /\ s = Append(Front(s), Last(s))
         /\ Len(Front(s)) = Len(s) - 1 /\ Last(s) \in S
  <1> DEFINE k == Len(s) - 1
             q == SubSeq(s, 1, k)
  <1>1. Front(s) = q /\ Last(s) = s[k + 1] /\ k \in Nat /\ Len(s) = k + 1
    BY DEF Front, Last
  <1> HIDE DEF k
  <1>2. q \in Seq(S) /\ Len(q) = k /\ s[k + 1] \in S /\ \A j \in 1..k : q[j] = s[j]
    BY <1>1
  <1> HIDE DEF q
  <1>3. s = Append(q, s[k + 1])
    BY <1>1, <1>2
  <1> QED
    BY <1>1, <1>2, <1>3

\* The top of a local stack.
LEMMA TopIsLocal ==
  ASSUME OwnInv, Locals # 0
  PROVE  /\ Last(stk) \in Objects /\ stk # <<>>
         /\ Len(stk) \in Nat \ {0} /\ Frame.localsOffset \in Nat
         /\ Locals \in Nat \ {0} /\ Locals = Len(stk) - Frame.localsOffset
         /\ Frame.localsOffset <= Len(stk) - 1
  <1>1. /\ Locals \in Nat /\ Locals = Len(stk) - Frame.localsOffset
        /\ Frame.localsOffset \in Nat /\ Len(stk) \in Nat
    BY FrameFacts DEF OwnInv
  <1>2. stk \in Seq(Objects)
    BY OwnFacts DEF OwnInv
  <1>3. Len(stk) \in 1..Len(stk)
    BY <1>1
  <1> QED
    BY <1>1, <1>2, <1>3 DEF Last

\* ymCtx_StructInit: the new object owns what the stack did.
LEMMA StructInitSteady ==
  ASSUME OwnInv, NEW type \in Structs, NEW where \in Wheres,
         NEW names \in NameLists(Len(Properties[type])), StructInit(type, names, where)
  PROVE  Steady
  <1> DEFINE n == Len(names)
             first == Len(stk) - n
             slots == [i \in 1..n |-> stk[first + (CHOOSE j \in 1..n : names[j] = i)]]
             stolen == [Machine EXCEPT !.stk = SubSeq(stk, 1, first)]
             fails == \/ AbsIndex(where, Locals) = OutOfBounds
                      \/ n > Locals
                      \/ ~IsInjective(names) \/ n # Len(Properties[type])
                      \/ \E j \in 1..n : heap[stk[first + j]].type # Properties[type][names[j]]
  <1>1. Owned /\ FramesInv
    BY DEF OwnInv
  <1>2. CASE fails
    BY <1>1, <1>2, RefusedSteady DEF StructInit
  <1>3. CASE ~ fails
    <2>1. PICK os \in Room(heap, 1) :
            /\ Becomes([PutNow([stolen EXCEPT !.heap = Created(heap, os[1], type, slots)],
                               where, os[1], "take") EXCEPT !.ok = TRUE])
            /\ UNCHANGED <<frames, vars, host>>
      BY <1>3 DEF StructInit
    <2> DEFINE p == os[1]
               c == WithNew(stolen, p, type, slots)
               top == SubSeq(stk, first + 1, Len(stk))
    <2>2. /\ FitMachine(Machine) /\ Machine.heap = heap /\ Machine.stk = stk /\ Machine.ok = TRUE
          /\ stk \in Seq(Objects) /\ Len(stk) \in Nat
      <3>1. stk \in Seq(Objects)
        BY <1>1, OwnFacts
      <3>2. Len(stk) \in Nat
        BY <3>1
      <3> QED
        BY <1>1, <3>1, <3>2, OwnFacts
    <2>3. /\ Properties[type] \in Seq(Types) /\ Len(Properties[type]) \in Nat
          /\ DOMAIN Properties[type] = 1..Len(Properties[type])
      BY TypesAssumption
    <2>4. /\ n \in Nat /\ names \in [1..n -> 1..n] /\ IsInjective(names)
          /\ n = Len(Properties[type])
          /\ \A j \in 1..n : heap[stk[first + j]].type = Properties[type][names[j]]
      BY <1>3, <2>3 DEF NameLists
    <2>5. /\ first \in Nat /\ first \in 0..Len(stk) /\ first + n = Len(stk)
          /\ Frame.localsOffset <= first /\ Frame.localsOffset \in Nat
      <3>1. ~ (n > Locals)
        BY <1>3
      <3>2. /\ Locals \in Nat /\ Locals = Len(stk) - Frame.localsOffset
            /\ Frame.localsOffset \in Nat /\ Len(stk) \in Nat
        BY <1>1, FrameFacts
      <3>3. n \in Nat
        BY <2>4
      <3> HIDE DEF n
      <3> QED
        BY <3>1, <3>2, <3>3
    <2>6. /\ Follows(Machine, stolen, TRUE) /\ stolen.stk = SubSeq(stk, 1, first)
          /\ stolen.heap = heap /\ top \in Seq(Objects)
          /\ \A x \in Objects : Spare(stolen, x) = Spare(Machine, x) + Count(top, x)
      BY <2>2, <2>5, CutFits
    <2>7. /\ top \in [1..n -> Objects]
          /\ \A j \in 1..n : top[j] = stk[first + j] /\ stk[first + j] \in Objects
      <3> HIDE DEF n, first
      <3>1. Len(top) = n
        BY <2>2, <2>4, <2>5
      <3>2. \A j \in 1..n : first + j \in 1..Len(stk)
        BY <2>4, <2>5
      <3>3. \A j \in 1..n : top[j] = stk[first + j] /\ stk[first + j] \in Objects
        BY <2>2, <2>4, <2>5, <3>1, <3>2
      <3>4. top \in Seq(Objects)
        BY <2>6
      <3> HIDE DEF top
      <3> QED
        BY <3>1, <3>3, <3>4
    <2>8. \A j \in 1..n : slots[names[j]] = top[j]
      <3> HIDE DEF n, first
      <3> TAKE j \in 1..n
      <3> DEFINE k == CHOOSE k \in 1..n : names[k] = names[j]
      <3>1. k \in 1..n /\ names[k] = names[j]
        OBVIOUS
      <3>2. k = j
        BY <2>4, <3>1 DEF IsInjective
      <3>3. names[j] \in 1..n
        BY <2>4
      <3>4. slots[names[j]] = stk[first + k]
        BY <3>3
      <3> HIDE DEF slots, k
      <3> QED
        BY <2>7, <3>2, <3>4
    <2>9. \A i \in 1..n : \E j \in 1..n : names[j] = i /\ slots[i] = top[j]
      <3> HIDE DEF n, slots, top
      <3> TAKE i \in 1..n
      <3>1. PICK j \in 1..n : names[j] = i
        BY <2>4, AllNumbered
      <3> QED
        BY <2>8, <3>1
    <2>10. slots \in [1..n -> Objects] /\ slots \in Seq(Objects)
      <3> HIDE DEF n, first, top
      <3>1. \A i \in 1..n : slots[i] \in Objects
        <4> HIDE DEF slots
        <4> QED
          BY <2>7, <2>9
      <3>2. slots = [i \in 1..n |-> slots[i]]
        OBVIOUS
      <3> HIDE DEF slots
      <3>3. slots \in [1..n -> Objects]
        BY <3>1, <3>2
      <3> QED
        BY <2>4, <3>3
    <2> HIDE DEF n, first, slots, top, stolen
    <2>11. \A x : Count(slots, x) = Count(top, x)
      <3>1. n \in Nat /\ names \in [1..n -> 1..n] /\ IsInjective(names)
        BY <2>4
      <3>2. top \in [1..n -> Objects] /\ slots \in [1..n -> Objects]
        BY <2>7, <2>10
      <3> QED
        BY <2>8, <3>1, <3>2, CountPermuted
    <2>12. p \in Objects /\ stolen.heap[p].type = Vacant
      BY <2>6, RoomIsVacant
    <2> HIDE DEF p
    <2>13. ASSUME NEW i \in 1..n
           PROVE  /\ slots[i] \in Objects \ {p}
                  /\ heap[slots[i]].type = Properties[type][i]
      <3>1. PICK j \in 1..n : names[j] = i /\ slots[i] = top[j]
        BY <2>9
      <3>2. heap[slots[i]].type = Properties[type][i]
        BY <2>4, <2>7, <3>1
      <3>3. Properties[type][i] \in Types
        BY <2>3, <2>4
      <3> QED
        BY <2>6, <2>10, <2>12, <3>2, <3>3, TypesAssumption
    <2>14. WellFormed(Created(stolen.heap, p, type, slots), p)
      <3> DEFINE g == Created(stolen.heap, p, type, slots)
      <3>1. /\ g[p].type = type /\ g[p].slots = slots
            /\ \A x \in Objects \ {p} : g[x] = heap[x]
        BY <2>2, <2>6, <2>12 DEF Created, FitMachine, GoodHeap, SoundHeap, Heaps
      <3> HIDE DEF g
      <3>2. [i \in DOMAIN slots |-> g[slots[i]].type] = Properties[type]
        <4>1. DOMAIN slots = 1..n
          BY <2>10
        <4>2. \A i \in 1..n : g[slots[i]].type = Properties[type][i]
          BY <2>13, <3>1
        <4>3. Properties[type] = [i \in 1..n |-> Properties[type][i]]
          BY <2>3, <2>4
        <4> QED
          BY <4>1, <4>2, <4>3
      <3>3. WellFormed(g, p)
        BY <3>1, <3>2, WellFormedCases
      <3> QED
        BY <3>3 DEF g
    <2>15. FitMachine(stolen) /\ stolen.ok = TRUE
      BY <2>6 DEF Follows
    <2>16. ASSUME NEW x \in Objects
           PROVE  /\ Spare(Machine, x) \in Int /\ Spare(Machine, x) >= 0
                  /\ Count(slots, x) \in Nat /\ Turn(p, x) \in Nat
                  /\ Spare(stolen, x) = Spare(Machine, x) + Count(slots, x)
      BY <2>2, <2>6, <2>10, <2>11, SpareType, CountType DEF Turn, FitMachine
    <2>17. /\ FitMachine(c) /\ KeepsTypes(stolen.heap, c.heap) /\ c.stk = stolen.stk
           /\ c.ok = stolen.ok
           /\ \A x \in Objects : Spare(c, x) = Spare(stolen, x) + Turn(p, x) - Count(slots, x)
      <3>1. \A x \in Objects : Spare(stolen, x) >= Count(slots, x)
        BY <2>16
      <3> QED
        BY <2>10, <2>12, <2>14, <2>15, <3>1, CreatedFits DEF Types
    <2>18. Becomes(Successful(PutNow(c, where, p, "take")))
      <3>1. c = [stolen EXCEPT !.heap = Created(heap, p, type, slots)]
        BY <2>6 DEF WithNew
      <3> QED
        BY <2>1, <3>1 DEF Successful, p, n, first, slots, stolen
    <2> HIDE DEF c
    <2>19. \A x \in Objects : Spare(c, x) = Spare(Machine, x) + Turn(p, x)
      BY <2>16, <2>17
    <2>20. c.ok = TRUE /\ Frame.localsOffset <= Len(c.stk) /\ KeepsTypes(heap, c.heap)
      <3>1. Len(SubSeq(stk, 1, first)) = first
        BY <2>2, <2>5
      <3> QED
        BY <2>5, <2>6, <2>15, <2>17, <3>1
    <2> QED
      BY <2>1, <2>12, <2>17, <2>18, <2>19, <2>20, PlacedAnyway
  <1> QED
    BY <1>2, <1>3

\* ymCtx_GetProperty: the property is lent to the stack before its owner goes.
LEMMA GetPropertySteady ==
  ASSUME OwnInv, NEW type \in Structs, NEW i \in DOMAIN Properties[type],
         NEW where \in Wheres, GetProperty(type, i, where)
  PROVE  Steady
  <1> DEFINE s == Last(stk)
             value == heap[s].slots[i]
             b == Borrowed(Machine, value, "borrow")
             c == Popped(b, 1)
             fails == AbsIndex(where, Locals) = OutOfBounds \/ Locals = 0 \/ heap[s].type # type
  <1>1. Owned /\ FramesInv
    BY DEF OwnInv
  <1>2. CASE fails
    BY <1>1, <1>2, RefusedSteady DEF GetProperty
  <1>3. CASE ~ fails
    <2>1. Becomes(Successful(PutNow(c, where, value, "take"))) /\ UNCHANGED <<frames, vars, host>>
      BY <1>3 DEF GetProperty, Successful
    <2>2. Locals # 0 /\ heap[s].type = type
      BY <1>3
    <2>3. /\ FitMachine(Machine) /\ Machine.heap = heap /\ Machine.stk = stk
          /\ Machine.ok = TRUE /\ GoodHeap(heap)
      BY <1>1, OwnFacts
    <2>4. /\ s \in Objects /\ Len(stk) \in Nat \ {0} /\ Frame.localsOffset \in Nat
          /\ Frame.localsOffset <= Len(stk) - 1
      BY <2>2, TopIsLocal
    <2> HIDE DEF s
    <2>5. value \in Objects /\ Machine.heap[value].type # Vacant
      BY <2>2, <2>3, <2>4, PropertyLives
    <2> HIDE DEF value
    <2>6. /\ Follows(Machine, b, Machine.ok) /\ b.stk = stk
          /\ \A x \in Objects : Spare(b, x) = Spare(Machine, x) + Turn(value, x)
      BY <2>3, <2>5, BorrowedFits
    <2> HIDE DEF b
    <2>7. FitMachine(b) /\ 1 \in 0..Len(b.stk)
      BY <2>4, <2>6 DEF Follows
    <2>8. /\ Follows(b, c, b.ok) /\ c.stk = SubSeq(b.stk, 1, Len(b.stk) - 1)
          /\ \A x \in Objects : Spare(c, x) = Spare(b, x)
      BY <2>7, PoppedFits
    <2> HIDE DEF c
    <2>9. FitMachine(c) /\ Fades(heap, c.heap)
      BY <2>3, <2>6, <2>8, FadesOn DEF Follows
    <2>10. c.ok = TRUE
      BY <2>3, <2>6, <2>8 DEF Follows
    <2>11. Len(c.stk) = Len(stk) - 1
      <3>1. stk \in Seq(Objects)
        BY <2>3 DEF FitMachine
      <3> DEFINE k == Len(stk) - 1
      <3>2. c.stk = SubSeq(stk, 1, k)
        BY <2>6, <2>8
      <3>3. k \in 0..Len(stk)
        BY <2>4
      <3> HIDE DEF k
      <3>4. Len(SubSeq(stk, 1, k)) = k
        BY <3>1, <3>3
      <3> QED
        BY <3>2, <3>4 DEF k
    <2>12. \A x \in Objects : Spare(c, x) = Spare(Machine, x) + Turn(value, x)
      BY <2>6, <2>8
    <2>13. KeepsTypes(heap, c.heap) /\ Frame.localsOffset <= Len(c.stk)
      BY <2>4, <2>9, <2>11, FadesKeepsTypes
    <2> QED
      BY <2>1, <2>5, <2>9, <2>10, <2>12, <2>13, PlacedAnyway
  <1> QED
    BY <1>2, <1>3

\* A machine with another stack, and another heap or outcome.
WithBoth(m, s, h) == [m EXCEPT !.stk = s, !.heap = h]
WithOutcome(m, s, b) == [m EXCEPT !.stk = s, !.ok = b]

\* What they are made of.
LEMMA WithBothIs ==
  ASSUME NEW m, m = [heap |-> m.heap, stk |-> m.stk, ok |-> m.ok], NEW s, NEW h, NEW b
  PROVE  /\ WithBoth(m, s, h) = [heap |-> h, stk |-> s, ok |-> m.ok]
         /\ WithOutcome(m, s, b) = [heap |-> m.heap, stk |-> s, ok |-> b]
  <1> DEFINE n == [m EXCEPT !.stk = s]
  <1>1. n = [heap |-> m.heap, stk |-> s, ok |-> m.ok]
    OBVIOUS
  <1>2. WithBoth(m, s, h) = [n EXCEPT !.heap = h] /\ WithOutcome(m, s, b) = [n EXCEPT !.ok = b]
    BY DEF WithBoth, WithOutcome
  <1> HIDE DEF n
  <1>3. [n EXCEPT !.heap = h] = [heap |-> h, stk |-> s, ok |-> m.ok]
    BY <1>1
  <1>4. [n EXCEPT !.ok = b] = [heap |-> m.heap, stk |-> s, ok |-> b]
    BY <1>1
  <1> QED
    BY <1>2, <1>3, <1>4, Zenon

\* ymCtx_SetProperty: the object takes over what the stack owned.
LEMMA SetPropertySteady ==
  ASSUME OwnInv, NEW type \in Structs, NEW i \in DOMAIN Properties[type], SetProperty(type, i)
  PROVE  Steady
  <1> DEFINE k == Len(stk)
             s == stk[k - 1]
             v == Last(stk)
             old == heap[s].slots[i]
             h == Released(heap, <<old>>)
             g == Stored(heap, s, i, v)
             emptied == ReleasedIn(Machine, <<old>>)
             b == WithBoth(emptied, Front(stk), g)
             c == Popped(b, 1)
  <1>1. Owned /\ FramesInv
    BY DEF OwnInv
  <1>2. CASE Locals < 2 \/ heap[s].type # type \/ heap[v].type # Properties[type][i]
    BY <1>1, <1>2, RefusedSteady DEF SetProperty
  <1>3. CASE ~ (Locals < 2 \/ heap[s].type # type \/ heap[v].type # Properties[type][i])
    <2>1. heap[s].type = type /\ heap[v].type = Properties[type][i] /\ ~ (Locals < 2)
      BY <1>3
    <2>2. /\ FitMachine(Machine) /\ Machine.heap = heap /\ Machine.stk = stk
          /\ GoodHeap(heap) /\ stk \in Seq(Objects) /\ heap \in Heaps
      BY <1>1, OwnFacts
    <2>3. /\ emptied.heap = h
          /\ emptied = [heap |-> emptied.heap, stk |-> emptied.stk, ok |-> emptied.ok]
      <3>1. emptied = [Machine EXCEPT !.heap = h]
        BY <2>2 DEF ReleasedIn
      <3> HIDE DEF h, emptied
      <3> QED
        BY <3>1 DEF Machine
    <2>4. b = [heap |-> g, stk |-> Front(stk), ok |-> emptied.ok]
      <3> HIDE DEF g, h, emptied
      <3> QED
        BY <2>3, WithBothIs
    <2>5. Becomes(c) /\ UNCHANGED <<frames, vars, host>>
      <3>1. Becomes(Popped([emptied EXCEPT !.stk = Front(stk),
                                           !.heap = [emptied.heap EXCEPT ![s].slots[i] = v]], 1))
            /\ UNCHANGED <<frames, vars, host>>
        BY <1>3 DEF SetProperty
      <3>2. g = [h EXCEPT ![s].slots[i] = v]
        BY DEF Stored
      <3> HIDE DEF emptied, h, g
      <3> QED
        BY <2>3, <3>1, <3>2 DEF WithBoth
    <2>6. /\ k \in Nat /\ k >= 2 /\ k - 1 \in 1..k /\ k \in 1..k
      <3>1. /\ Locals \in Nat /\ Locals = k - Frame.localsOffset
            /\ Frame.localsOffset \in Nat /\ k \in Nat
        BY <1>1, FrameFacts
      <3> HIDE DEF k
      <3> QED
        BY <2>1, <3>1
    <2>7. v = stk[k] /\ v \in Objects /\ s \in Objects
      BY <2>2, <2>6 DEF Last
    <2> HIDE DEF s, v, h, emptied
    <2>8. /\ i \in DOMAIN heap[s].slots /\ old \in Objects
          /\ heap[v].type = heap[heap[s].slots[i]].type
      BY <2>1, <2>2, <2>7, PropertyLives
    <2>9. ASSUME NEW x \in Objects
          PROVE  /\ Outer(heap, x) \in Int /\ Turn(v, x) \in Nat /\ Turn(s, x) \in Nat
                 /\ Count(stk, x) \in Nat /\ Outer(heap, x) >= Count(stk, x)
                 /\ Spare(Machine, x) = Outer(heap, x) - Count(stk, x)
                 /\ Count(Front(stk), x) = Count(stk, x) - Turn(v, x)
                 /\ Front(stk) \in Seq(Objects) /\ Count(Front(stk), x) \in Nat
                 /\ Count(Front(stk), x) >= Turn(s, x)
      <3>1. stk = Append(Front(stk), v) /\ Front(stk) \in Seq(Objects) /\ Len(Front(stk)) = k - 1
        BY <2>2, <2>6, <2>7, FrontAppended DEF v
      <3>2. Count(stk, x) = Count(Front(stk), x) + Turn(v, x)
        BY <2>7, <3>1, CountAppend
      <3>3. Front(stk)[k - 1] = s /\ k - 1 \in DOMAIN Front(stk)
        BY <2>2, <2>6, <3>1 DEF Front, s
      <3>4. /\ Count(Front(stk), x) \in Nat
            /\ Count(Front(stk), x) = 0 => \A j \in DOMAIN Front(stk) : Front(stk)[j] # x
        BY <3>1, CountType
      <3>5. Count(Front(stk), x) >= Turn(s, x)
        BY <3>3, <3>4 DEF Turn
      <3>6. /\ Outer(heap, x) \in Int /\ Turn(v, x) \in Nat /\ Turn(s, x) \in Nat
            /\ Count(stk, x) \in Nat /\ Spare(Machine, x) >= 0
            /\ Spare(Machine, x) = Outer(heap, x) - Count(stk, x)
        BY <1>1, OwnFacts DEF Turn, FitMachine
      <3> QED
        BY <3>1, <3>2, <3>4, <3>5, <3>6
    <2>10. Outer(heap, v) >= 1 /\ Outer(heap, s) >= 1 + Turn(v, s)
      <3>1. Turn(v, v) = 1 /\ Turn(s, s) = 1
        BY DEF Turn
      <3>2. /\ Count(Front(stk), v) = Count(stk, v) - Turn(v, v)
            /\ Outer(heap, v) >= Count(stk, v) /\ Count(Front(stk), v) \in Nat
            /\ Count(stk, v) \in Nat /\ Outer(heap, v) \in Int
        BY <2>7, <2>9
      <3>3. /\ Count(Front(stk), s) = Count(stk, s) - Turn(v, s)
            /\ Count(Front(stk), s) >= Turn(s, s)
            /\ Outer(heap, s) >= Count(stk, s) /\ Count(Front(stk), s) \in Nat
            /\ Count(stk, s) \in Nat /\ Outer(heap, s) \in Int /\ Turn(v, s) \in Nat
        BY <2>7, <2>9
      <3> QED
        BY <3>1, <3>2, <3>3
    <2>11. /\ GoodHeap(g) /\ Fades(heap, g)
           /\ \A x \in Objects : Outer(g, x) = Outer(heap, x) - Turn(v, x)
      BY <2>2, <2>7, <2>8, <2>10, StoredIsGood
    <2> HIDE DEF g
    <2>12. FitMachine(b) /\ b.heap = g /\ b.stk = Front(stk)
      <3>1. \A x \in Objects : Outer(g, x) >= Count(Front(stk), x)
        BY <2>9, <2>11
      <3>2. Front(stk) \in Seq(Objects)
        BY <2>7, <2>9
      <3>3. b.heap = g /\ b.stk = Front(stk)
        BY <2>4
      <3> HIDE DEF b
      <3> QED
        BY <2>4, <2>11, <3>1, <3>2, <3>3, FitParts
    <2> HIDE DEF b
    <2>13. 1 \in 0..Len(b.stk)
      <3>1. Len(Front(stk)) = k - 1
        BY <2>2, <2>6, FrontAppended
      <3> QED
        BY <2>6, <2>12, <3>1
    <2>14. /\ Follows(b, c, b.ok) /\ \A x \in Objects : Spare(c, x) = Spare(b, x)
      BY <2>12, <2>13, PoppedFits
    <2> HIDE DEF c
    <2>15. FitMachine(c) /\ KeepsTypes(heap, c.heap)
      BY <2>11, <2>12, <2>14, FadesOn, FadesKeepsTypes DEF Follows
    <2>16. ASSUME NEW x \in Objects PROVE Spare(c, x) = Spare(Machine, x)
      <3>1. Spare(b, x) = Outer(g, x) - Count(Front(stk), x)
        BY <2>12 DEF Spare
      <3> QED
        BY <2>9, <2>11, <2>14, <3>1
    <2> QED
      BY <1>1, <2>5, <2>15, <2>16, KeepingSteady DEF Becomes
  <1> QED
    BY <1>2, <1>3

\* What stands on the stack is taken off it to be put.
LEMMA FrontMachine ==
  ASSUME OwnInv, Locals # 0
  PROVE  LET f == [Machine EXCEPT !.stk = Front(stk)]
         IN /\ FitMachine(f) /\ f.ok = TRUE /\ f.heap = heap /\ f.stk = Front(stk)
            /\ Frame.localsOffset <= Len(f.stk) /\ Len(f.stk) \in Nat
            /\ f = [heap |-> heap, stk |-> Front(stk), ok |-> TRUE]
            /\ \A x \in Objects : Spare(f, x) = Spare(Machine, x) + Turn(Last(stk), x)
  <1> DEFINE f == [Machine EXCEPT !.stk = Front(stk)]
  <1>1. FitMachine(Machine) /\ Machine.heap = heap /\ Machine.stk = stk /\ Machine.ok = TRUE
    BY OwnFacts DEF OwnInv
  <1>2. stk # <<>> /\ Len(stk) \in Nat \ {0} /\ Frame.localsOffset <= Len(stk) - 1
    BY TopIsLocal
  <1>3. /\ Follows(Machine, f, TRUE) /\ f.stk = Front(stk) /\ f.heap = heap
        /\ Len(f.stk) = Len(stk) - 1
        /\ \A x \in Objects : Spare(f, x) = Spare(Machine, x) + Turn(Last(stk), x)
    BY <1>1, <1>2, FrontFits
  <1> HIDE DEF f
  <1>4. FitMachine(f) /\ f.ok = TRUE
    BY <1>3 DEF Follows
  <1>5. Frame.localsOffset <= Len(f.stk) /\ Len(f.stk) \in Nat
    BY <1>2, <1>3
  <1>6. f = [heap |-> heap, stk |-> Front(stk), ok |-> TRUE]
    BY <1>3, <1>4 DEF FitMachine
  <1> QED
    BY <1>3, <1>4, <1>5, <1>6 DEF f

\* ymCtx_Convert from a type to itself.
LEMMA SameTypeSteady ==
  ASSUME OwnInv, Locals # 0, NEW where \in Wheres, UNCHANGED <<frames, vars, host>>,
         Becomes(PutNow([Machine EXCEPT !.stk = Front(stk)], where, Last(stk), "take"))
  PROVE  Steady
  <1> DEFINE f == [Machine EXCEPT !.stk = Front(stk)]
             o == Last(stk)
  <1>1. /\ FitMachine(f) /\ f.ok = TRUE /\ f.heap = heap /\ Frame.localsOffset <= Len(f.stk)
        /\ \A x \in Objects : Spare(f, x) = Spare(Machine, x) + Turn(o, x)
    BY FrontMachine
  <1>2. o \in Objects
    BY TopIsLocal
  <1>3. Becomes(PutNow(f, where, o, "take"))
    OBVIOUS
  <1> HIDE DEF f, o
  <1>4. KeepsTypes(heap, f.heap)
    BY <1>1, FadesSame, FadesKeepsTypes
  <1> QED
    BY <1>1, <1>2, <1>3, <1>4, PlacedAnyway

\* The conversion to a primitive type.
LEMMA CastSteady ==
  ASSUME OwnInv, Locals # 0, NEW type \in Primitives, NEW where \in Wheres, Cast(type, where),
         UNCHANGED <<frames, vars, host>>
  PROVE  Steady
  <1> DEFINE m == Popped(Machine, 1)
  <1>1. PICK os \in Room(heap, 1) :
            Becomes(PutNow([m EXCEPT !.heap = Created(m.heap, os[1], type, <<>>)],
                           where, os[1], "take"))
    BY DEF Cast
  <1> DEFINE p == os[1]
             c == WithNew(m, p, type, <<>>)
  <1>2. Becomes(PutNow(c, where, p, "take"))
    BY <1>1 DEF WithNew
  <1>3. /\ FitMachine(Machine) /\ Machine.heap = heap /\ Machine.stk = stk
        /\ Machine.ok = TRUE
    BY OwnFacts DEF OwnInv
  <1>4. Len(stk) \in Nat \ {0} /\ Frame.localsOffset <= Len(stk) - 1 /\ Frame.localsOffset \in Nat
    BY TopIsLocal
  <1>5. 1 \in 0..Len(Machine.stk)
    BY <1>3, <1>4
  <1>6. /\ Follows(Machine, m, Machine.ok) /\ m.stk = SubSeq(stk, 1, Len(stk) - 1)
        /\ \A x \in Objects : Spare(m, x) = Spare(Machine, x)
    BY <1>3, <1>5, PoppedFits
  <1>7. Len(SubSeq(stk, 1, Len(stk) - 1)) = Len(stk) - 1
    <2>1. Front(stk) = SubSeq(stk, 1, Len(stk) - 1) /\ stk # <<>> /\ stk \in Seq(Objects)
      BY <1>3, TopIsLocal DEF Front, FitMachine
    <2>2. Len(Front(stk)) = Len(stk) - 1
      BY <2>1, FrontAppended
    <2> QED
      BY <2>1, <2>2
  <1>8. p \in Objects /\ heap[p].type = Vacant
    BY RoomIsVacant
  <1> HIDE DEF m, p
  <1>9. m.heap[p].type = Vacant /\ FitMachine(m) /\ Fades(heap, m.heap) /\ m.ok = TRUE
    BY <1>3, <1>6, <1>8 DEF Follows, Fades
  <1>10. type \in Types /\ HasDefault(type)
    BY DEF Types, HasDefault
  <1>11. /\ FitMachine(c) /\ KeepsTypes(m.heap, c.heap) /\ c.stk = m.stk /\ c.ok = m.ok
         /\ \A x \in Objects : Spare(c, x) = Spare(m, x) + Turn(p, x)
    BY <1>8, <1>9, <1>10, CreatedAloneFits
  <1> HIDE DEF c
  <1>12. KeepsTypes(heap, c.heap)
    <2> DEFINE none == <<>>
    <2>1. m = [heap |-> m.heap, stk |-> m.stk, ok |-> m.ok] /\ m.heap \in Heaps
      BY <1>9 DEF FitMachine, GoodHeap, SoundHeap
    <2>2. c = [m EXCEPT !.heap = Created(m.heap, p, type, none)]
      BY DEF WithNew, c
    <2> HIDE DEF none
    <2>3. c.heap = Created(m.heap, p, type, none)
      BY <2>1, <2>2
    <2>4. \A o \in Objects \ {p} : c.heap[o] = m.heap[o]
      BY <2>1, <2>3 DEF Created, Heaps
    <2> QED
      BY <1>8, <1>9, <2>4 DEF Fades, KeepsTypes
  <1>13. Frame.localsOffset <= Len(c.stk)
    BY <1>4, <1>6, <1>7, <1>11
  <1>14. c.ok = TRUE /\ \A x \in Objects : Spare(c, x) = Spare(Machine, x) + Turn(p, x)
    BY <1>6, <1>9, <1>11
  <1> QED
    BY <1>2, <1>8, <1>11, <1>12, <1>13, <1>14, PlacedAnyway

\* A new box is well formed.
LEMMA BoxIsWellFormed ==
  ASSUME NEW h \in Heaps, NEW p \in Objects, NEW o \in Objects, p # o,
         NEW type \in Protocols, <<h[o].type, type>> \in Conforming
  PROVE  WellFormed(Created(h, p, type, <<o>>), p)
  <1> DEFINE slots == <<o>>
             g == Created(h, p, type, slots)
  <1>1. slots[1] = o /\ Len(slots) = 1
    OBVIOUS
  <1> HIDE DEF slots
  <1>2. g[p].type = type /\ g[p].slots = slots /\ g[o] = h[o]
    BY DEF Created, Heaps
  <1> HIDE DEF g
  <1>3. Len(g[p].slots) = 1 /\ <<g[g[p].slots[1]].type, g[p].type>> \in Conforming
    BY <1>1, <1>2
  <1>4. WellFormed(g, p)
    BY <1>2, <1>3, WellFormedCases
  <1> QED
    BY <1>4 DEF g, slots

\* ymCtx_Convert to a protocol: the box owns what the stack did.
LEMMA BoxSteady ==
  ASSUME OwnInv, Locals # 0, NEW type \in Protocols, NEW where \in Wheres, Box(type, where),
         <<heap[Last(stk)].type, type>> \in Conforming, UNCHANGED <<frames, vars, host>>
  PROVE  Steady
  <1> DEFINE f == [Machine EXCEPT !.stk = Front(stk)]
             o == Last(stk)
             slots == <<o>>
  <1>1. PICK os \in Room(heap, 1) :
            Becomes(PutNow(WithBoth(Machine, Front(stk), Created(heap, os[1], type, slots)),
                           where, os[1], "take"))
    BY DEF Box, WithBoth
  <1> DEFINE p == os[1]
             c == WithNew(f, p, type, slots)
  <1>2. /\ FitMachine(Machine) /\ Machine.heap = heap /\ GoodHeap(heap) /\ heap \in Heaps
        /\ Machine = [heap |-> Machine.heap, stk |-> Machine.stk, ok |-> Machine.ok]
        /\ Machine.ok = TRUE
    BY OwnFacts DEF OwnInv, FitMachine
  <1>3. /\ FitMachine(f) /\ f.ok = TRUE /\ f.heap = heap /\ Frame.localsOffset <= Len(f.stk)
        /\ f = [heap |-> heap, stk |-> Front(stk), ok |-> TRUE]
        /\ \A x \in Objects : Spare(f, x) = Spare(Machine, x) + Turn(o, x)
    BY FrontMachine
  <1>4. o \in Objects /\ p \in Objects /\ heap[p].type = Vacant
    BY TopIsLocal, RoomIsVacant
  <1>5. /\ slots \in Seq(Objects) /\ \A x : Count(slots, x) = Turn(o, x)
    BY <1>4, CountSingle
  <1>6. heap[o].type # Vacant
    BY TypesAssumption
  <1>7. WellFormed(Created(f.heap, p, type, slots), p)
    BY <1>2, <1>3, <1>4, <1>6, BoxIsWellFormed
  <1> HIDE DEF f, o, slots, p
  <1>8. ASSUME NEW x \in Objects
        PROVE  /\ Spare(Machine, x) \in Int /\ Spare(Machine, x) >= 0 /\ Turn(o, x) \in Nat
               /\ Spare(f, x) >= Count(slots, x) /\ Turn(p, x) \in Nat
    <2>1. Spare(Machine, x) \in Int /\ Spare(Machine, x) >= 0
      BY <1>2, SpareType DEF FitMachine
    <2>2. Turn(o, x) \in Nat /\ Turn(p, x) \in Nat
      BY DEF Turn
    <2>3. Spare(f, x) = Spare(Machine, x) + Turn(o, x) /\ Count(slots, x) = Turn(o, x)
      BY <1>3, <1>5
    <2> QED
      BY <2>1, <2>2, <2>3
  <1>9. /\ FitMachine(c) /\ KeepsTypes(f.heap, c.heap) /\ c.stk = f.stk /\ c.ok = f.ok
        /\ \A x \in Objects : Spare(c, x) = Spare(f, x) + Turn(p, x) - Count(slots, x)
    <2>1. type \in Types
      BY DEF Types
    <2> QED
      BY <1>3, <1>4, <1>5, <1>7, <1>8, <2>1, CreatedFits
  <1>10. WithBoth(Machine, Front(stk), Created(heap, p, type, slots)) = c
    <2> DEFINE g == Created(heap, p, type, slots)
    <2>1. WithBoth(Machine, Front(stk), g) = [heap |-> g, stk |-> Front(stk), ok |-> Machine.ok]
      BY <1>2, WithBothIs
    <2>2. c = [f EXCEPT !.heap = g]
      BY <1>3 DEF WithNew
    <2> DEFINE q == Front(stk)
    <2>3. f = [heap |-> heap, stk |-> q, ok |-> Machine.ok]
      BY <1>2, <1>3
    <2> HIDE DEF g, q, c
    <2>4. c = [heap |-> g, stk |-> q, ok |-> Machine.ok]
      BY <2>2, <2>3
    <2> QED
      BY <2>1, <2>4 DEF g, q
  <1>11. Becomes(PutNow(c, where, p, "take"))
    BY <1>1, <1>10 DEF p
  <1> HIDE DEF c
  <1>12. ASSUME NEW x \in Objects
         PROVE  Spare(c, x) = Spare(Machine, x) + Turn(p, x)
    <2>1. /\ Spare(f, x) = Spare(Machine, x) + Turn(o, x) /\ Count(slots, x) = Turn(o, x)
          /\ Spare(c, x) = Spare(f, x) + Turn(p, x) - Count(slots, x)
      BY <1>3, <1>5, <1>9
    <2> QED
      BY <1>8, <2>1
  <1>13. c.ok = TRUE /\ Frame.localsOffset <= Len(c.stk) /\ KeepsTypes(heap, c.heap)
    BY <1>3, <1>9
  <1> QED
    BY <1>4, <1>9, <1>11, <1>12, <1>13, PlacedAnyway

\* What an object holds that is owned itself outlives the release of what the stack owns.
LEMMA HeldOutlives ==
  ASSUME NEW m, FitMachine(m), NEW old \in Objects, Spare(m, old) >= 1,
         NEW i \in DOMAIN m.heap[old].slots,
         NEW offset \in Nat, offset <= Len(m.stk), NEW where \in Wheres
  PROVE  Outlives(m, offset, where, m.heap[old].slots[i])
  <1> DEFINE at == AbsIndex(where, Len(m.stk) - offset)
             q == m.stk[offset + at + 1]
             g == Released(m.heap, <<q>>)
  <1>1. SUFFICES ASSUME at \in Int
                 PROVE  g[m.heap[old].slots[i]].type # Vacant
    BY DEF Outlives
  <1>2. GoodHeap(m.heap) /\ m.heap \in Heaps /\ SoundHeap(m.heap) /\ m.stk \in Seq(Objects)
    BY DEF FitMachine, GoodHeap, SoundHeap
  <1>3. Len(m.stk) \in Nat
    BY <1>2
  <1>4. at \in 0..Len(m.stk) - offset - 1
    <2>1. Len(m.stk) - offset \in Nat
      BY <1>3
    <2>2. at \in {Push, Discard, OutOfBounds} \cup 0..Len(m.stk) - offset - 1
      BY <2>1, AbsIndexIsLocal
    <2>3. at \notin {Push, Discard, OutOfBounds}
      BY <1>1, IndexAssumption
    <2> QED
      BY <2>2, <2>3
  <1> HIDE DEF at
  <1>5. offset + at + 1 \in 1..Len(m.stk)
    BY <1>3, <1>4
  <1>6. q \in Objects /\ \A x : Turn(q, x) <= Count(m.stk, x)
    <2> DEFINE pos == offset + at + 1
    <2>1. pos \in DOMAIN m.stk /\ m.stk[pos] \in Objects
      BY <1>2, <1>5
    <2> HIDE DEF pos
    <2>2. ASSUME NEW x PROVE Turn(m.stk[pos], x) <= Count(m.stk, x)
      <3>1. /\ Count(m.stk, x) \in Nat
            /\ Count(m.stk, x) = 0 => \A j \in DOMAIN m.stk : m.stk[j] # x
        BY <1>2, CountType
      <3> QED
        BY <2>1, <3>1 DEF Turn
    <2> QED
      BY <2>1, <2>2 DEF pos
  <1> HIDE DEF q
  <1>7. <<q>> \in Seq(Objects) /\ \A x : Count(<<q>>, x) = Turn(q, x)
    BY <1>6, CountSingle
  <1>8. ASSUME NEW x \in Objects
        PROVE  /\ Left(m.heap, <<q>>, x) = Outer(m.heap, x) - Turn(q, x)
               /\ Left(m.heap, <<q>>, x) >= Spare(m, x) /\ Spare(m, x) >= 0
               /\ Outer(m.heap, x) \in Int /\ Turn(q, x) \in Nat /\ Spare(m, x) \in Int
    <2>1. Left(m.heap, <<q>>, x) = Outer(m.heap, x) - Turn(q, x)
      BY <1>7 DEF Left
    <2>2. /\ Outer(m.heap, x) \in Int /\ Count(m.stk, x) \in Nat /\ Spare(m, x) \in Int
          /\ Spare(m, x) = Outer(m.heap, x) - Count(m.stk, x)
      BY <1>2, SpareType
    <2>3. Turn(q, x) \in Nat /\ Turn(q, x) <= Count(m.stk, x)
      BY <1>6 DEF Turn
    <2>4. Spare(m, x) >= 0
      BY DEF FitMachine
    <2> QED
      BY <2>1, <2>2, <2>3, <2>4
  <1>9. Releasable(m.heap, <<q>>)
    BY <1>8 DEF Releasable
  <1>10. Left(m.heap, <<q>>, old) > 0
    BY <1>8
  <1>11. g[old].slots = m.heap[old].slots
    BY <1>2, <1>7, <1>9, <1>10, OwnedRemains
  <1>12. GoodHeap(g)
    BY <1>2, <1>7, <1>9, ReleasedIsGood
  <1> HIDE DEF g
  <1> QED
    BY <1>11, <1>12, HeldIsLive

\* ymCtx_Convert from a protocol: what was boxed is lent before the box goes.
LEMMA UnboxSteady ==
  ASSUME OwnInv, Locals # 0, NEW where \in Wheres, Unbox(where),
         heap[Last(stk)].type \in Protocols, UNCHANGED <<frames, vars, host>>
  PROVE  Steady
  <1> DEFINE f == [Machine EXCEPT !.stk = Front(stk)]
             old == Last(stk)
             o == heap[old].slots[1]
             offset == Frame.localsOffset
             n == PutIn(f, offset, where, o, "borrow")
             r == ReleasedIn(n, <<old>>)
  <1>1. Becomes(r)
    BY DEF Unbox, PutNow
  <1>2. FitMachine(Machine) /\ GoodHeap(heap) /\ Owned
    BY OwnFacts DEF OwnInv
  <1>3. /\ FitMachine(f) /\ f.ok = TRUE /\ f.heap = heap
        /\ \A x \in Objects : Spare(f, x) = Spare(Machine, x) + Turn(old, x)
    BY FrontMachine
  <1>4. offset \in Nat /\ offset <= Len(f.stk)
    BY TopIsLocal, FrontMachine
  <1>5. old \in Objects
    BY TopIsLocal
  <1>6. o \in Objects /\ 1 \in DOMAIN heap[old].slots /\ heap[o].type # Vacant
    BY <1>2, <1>5, BoxedLives
  <1> HIDE DEF f, old, offset
  <1>7. ASSUME NEW x \in Objects
        PROVE  /\ Spare(Machine, x) \in Int /\ Spare(Machine, x) >= 0 /\ Turn(old, x) \in Nat
               /\ Turn(old, old) = 1
    BY <1>2, SpareType DEF FitMachine, Turn
  <1>8. Spare(f, old) >= 1
    <2>1. Spare(f, old) = Spare(Machine, old) + Turn(old, old)
      BY <1>3, <1>5
    <2> QED
      BY <1>5, <1>7, <2>1
  <1>9. Outlives(f, offset, where, o)
    <2>1. 1 \in DOMAIN f.heap[old].slots /\ o = f.heap[old].slots[1]
      BY <1>3, <1>6
    <2> HIDE DEF o
    <2> QED
      BY <1>3, <1>4, <1>5, <1>8, <2>1, HeldOutlives
  <1> HIDE DEF o
  <1>10. IsPolicy("borrow") /\ Puttable(f, o, "borrow")
    BY <1>3, <1>6 DEF IsPolicy, Puttable
  <1>11. Became(f, n) /\ \A x \in Objects : Spare(n, x) = Spare(f, x)
    <2> DEFINE policy == "borrow"
    <2>1. \A b, x : Cost(policy, b, o, x) = 0
      BY DEF Cost
    <2>2. n = PutIn(f, offset, where, o, policy) /\ IsPolicy(policy) /\ Puttable(f, o, policy)
      BY <1>10
    <2> HIDE DEF policy, n
    <2>3. LET k == PutIn(f, offset, where, o, policy)
          IN /\ Became(f, k)
             /\ \A x \in Objects : Spare(k, x) = Spare(f, x) - Cost(policy, k.ok, o, x)
      BY <1>3, <1>4, <1>6, <1>9, <2>2, PutInFits
    <2>4. ASSUME NEW x \in Objects PROVE Spare(n, x) = Spare(f, x)
      <3>1. Spare(n, x) = Spare(f, x) - 0
        BY <2>1, <2>2, <2>3
      <3>2. Spare(f, x) \in Int
        BY <1>3, SpareType DEF FitMachine
      <3> QED
        BY <3>1, <3>2
    <2> QED
      BY <2>2, <2>3, <2>4
  <1> HIDE DEF n
  <1>12. FitMachine(n) /\ Fades(heap, n.heap) /\ Spare(n, old) >= 1
    BY <1>3, <1>5, <1>8, <1>11 DEF Became
  <1>13. /\ Follows(n, r, n.ok)
         /\ \A x \in Objects : Spare(r, x) = Spare(n, x) - Turn(old, x)
    BY <1>5, <1>12, OneReleasedFits
  <1> HIDE DEF r
  <1>14. FitMachine(r) /\ KeepsTypes(heap, r.heap)
    BY <1>12, <1>13, FadesOn, FadesKeepsTypes DEF Follows
  <1>15. ASSUME NEW x \in Objects PROVE Spare(r, x) = Spare(Machine, x)
    <2>1. /\ Spare(r, x) = Spare(n, x) - Turn(old, x) /\ Spare(n, x) = Spare(f, x)
          /\ Spare(f, x) = Spare(Machine, x) + Turn(old, x)
      BY <1>3, <1>11, <1>13
    <2> QED
      BY <1>7, <2>1
  <1> QED
    BY <1>1, <1>2, <1>14, <1>15, KeepingSteady DEF Becomes

\* To count one object and to make another can be done in either order.
LEMMA SecuredCreated ==
  ASSUME NEW h \in Heaps, NEW p \in Objects, NEW o \in Objects, p # o, NEW type, NEW slots
  PROVE  Secured(Created(h, p, type, slots), o) = Created(Secured(h, o), p, type, slots)
  <1> DEFINE rec == [type |-> type, refs |-> 1, slots |-> slots]
             more == [h[o] EXCEPT !.refs = h[o].refs + 1]
             a == [h EXCEPT ![p] = rec]
             b == [h EXCEPT ![o] = more]
  <1>1. DOMAIN h = Objects /\ h = [x \in Objects |-> h[x]]
    BY DEF Heaps
  <1>2. Secured(a, o) = [a EXCEPT ![o] = more]
    <2>1. a[o] = h[o]
      OBVIOUS
    <2> HIDE DEF a, rec
    <2> QED
      BY <2>1 DEF Secured
  <1>3. Created(b, p, type, slots) = [b EXCEPT ![p] = rec] /\ Secured(h, o) = b
    BY DEF Created, Secured
  <1>4. Created(h, p, type, slots) = a
    BY DEF Created
  <1> HIDE DEF rec, more
  <1>5. [a EXCEPT ![o] = more] = [b EXCEPT ![p] = rec]
    BY <1>1
  <1> QED
    BY <1>2, <1>3, <1>4, <1>5

\* ymCtx_Convert from a protocol to a protocol: the second box owns its share.
LEMMA ReboxSteady ==
  ASSUME OwnInv, Locals # 0, NEW type \in Protocols, NEW where \in Wheres, Rebox(type, where),
         heap[Last(stk)].type \in Protocols,
         <<heap[heap[Last(stk)].slots[1]].type, type>> \in Conforming,
         UNCHANGED <<frames, vars, host>>
  PROVE  Steady
  <1> DEFINE f == [Machine EXCEPT !.stk = Front(stk)]
             old == Last(stk)
             o == heap[old].slots[1]
             slots == <<o>>
             d == Borrowed(f, o, "borrow")
  <1>1. PICK os \in Room(heap, 1) :
            Becomes(ReleasedIn(PutNow(
                WithBoth(Machine, Front(stk), Secured(Created(heap, os[1], type, slots), o)),
                where, os[1], "take"), <<old>>))
    BY DEF Rebox, WithBoth
  <1> DEFINE p == os[1]
             c == WithNew(d, p, type, slots)
             n == PutNow(c, where, p, "take")
             r == ReleasedIn(n, <<old>>)
  <1>2. /\ FitMachine(Machine) /\ GoodHeap(heap) /\ heap \in Heaps /\ Owned /\ FramesInv
        /\ Machine = [heap |-> Machine.heap, stk |-> Machine.stk, ok |-> Machine.ok]
        /\ Machine.ok = TRUE /\ Machine.heap = heap
    BY OwnFacts DEF OwnInv, FitMachine
  <1>3. /\ FitMachine(f) /\ f.ok = TRUE /\ f.heap = heap /\ f.stk = Front(stk)
        /\ \A x \in Objects : Spare(f, x) = Spare(Machine, x) + Turn(old, x)
    BY FrontMachine
  <1>4. Frame.localsOffset <= Len(f.stk)
    BY FrontMachine
  <1>5. old \in Objects
    BY TopIsLocal
  <1>6. o \in Objects /\ heap[o].type # Vacant
    BY <1>2, <1>5, BoxedLives
  <1>7. <<heap[o].type, type>> \in Conforming
    OBVIOUS
  <1>8. p \in Objects /\ heap[p].type = Vacant
    BY RoomIsVacant
  <1> HIDE DEF f, old, o, p
  <1>9. /\ Follows(f, d, TRUE) /\ d.stk = f.stk
        /\ \A x \in Objects : Spare(d, x) = Spare(f, x) + Turn(o, x)
    BY <1>3, <1>6, BorrowedFits
  <1>10. d.heap = Secured(heap, o) /\ FitMachine(d) /\ d.ok = TRUE
    <2>1. f = [heap |-> f.heap, stk |-> f.stk, ok |-> f.ok]
      BY <1>3 DEF FitMachine
    <2> DEFINE g == Secured(heap, o)
    <2>2. d = [f EXCEPT !.heap = g]
      BY <1>3 DEF Borrowed
    <2> HIDE DEF g, d
    <2>3. d.heap = g
      BY <2>1, <2>2
    <2> QED
      BY <1>9, <2>3 DEF Follows, g
  <1> HIDE DEF d
  <1>11. /\ slots \in Seq(Objects) /\ \A x : Count(slots, x) = Turn(o, x)
    BY <1>6, CountSingle
  <1>12. /\ d.heap \in Heaps /\ d.heap[p].type = Vacant /\ d.heap[o].type = heap[o].type
         /\ Fades(heap, d.heap) /\ \A x \in Objects : d.heap[x].type = heap[x].type
    <2>1. LET g == Secured(heap, o)
          IN /\ GoodHeap(g) /\ Fades(heap, g) /\ \A x \in Objects : g[x].type = heap[x].type
      BY <1>2, <1>6, SecuredIsGood
    <2> QED
      BY <1>6, <1>8, <1>10, <2>1 DEF GoodHeap, SoundHeap
  <1>13. WellFormed(Created(d.heap, p, type, slots), p)
    BY <1>6, <1>7, <1>8, <1>12, BoxIsWellFormed
  <1> HIDE DEF slots
  <1>14. ASSUME NEW x \in Objects
         PROVE  /\ Spare(Machine, x) \in Int /\ Spare(Machine, x) >= 0
                /\ Turn(old, x) \in Nat /\ Turn(o, x) \in Nat /\ Turn(p, x) \in Nat
                /\ Spare(d, x) = Spare(Machine, x) + Turn(old, x) + Turn(o, x)
                /\ Spare(d, x) >= Count(slots, x) /\ Count(slots, x) = Turn(o, x)
    <2>1. Spare(Machine, x) \in Int /\ Spare(Machine, x) >= 0
      BY <1>2, SpareType DEF FitMachine
    <2>2. Turn(o, x) \in Nat /\ Turn(p, x) \in Nat /\ Turn(old, x) \in Nat
      BY DEF Turn
    <2>3. /\ Spare(f, x) = Spare(Machine, x) + Turn(old, x)
          /\ Spare(d, x) = Spare(f, x) + Turn(o, x) /\ Count(slots, x) = Turn(o, x)
      BY <1>3, <1>9, <1>11
    <2> QED
      BY <2>1, <2>2, <2>3
  <1>15. /\ FitMachine(c) /\ KeepsTypes(d.heap, c.heap) /\ c.stk = d.stk /\ c.ok = d.ok
         /\ c.heap = Created(d.heap, p, type, slots)
         /\ \A x \in Objects : Spare(c, x) = Spare(d, x) + Turn(p, x) - Count(slots, x)
    <2>1. type \in Types
      BY DEF Types
    <2> QED
      BY <1>8, <1>10, <1>11, <1>12, <1>13, <1>14, <2>1, CreatedFits
  <1> HIDE DEF c
  <1>16. WithBoth(Machine, Front(stk), Secured(Created(heap, p, type, slots), o)) = c
    <2> DEFINE g == Secured(Created(heap, p, type, slots), o)
               q == Front(stk)
    <2>1. g = c.heap
      BY <1>2, <1>6, <1>8, <1>10, <1>15, SecuredCreated
    <2>2. WithBoth(Machine, q, g) = [heap |-> g, stk |-> q, ok |-> Machine.ok]
      BY <1>2, WithBothIs
    <2>3. c = [heap |-> c.heap, stk |-> c.stk, ok |-> c.ok] /\ c.ok = Machine.ok /\ c.stk = q
      BY <1>2, <1>3, <1>9, <1>10, <1>15 DEF FitMachine
    <2> HIDE DEF g, q
    <2>4. WithBoth(Machine, q, g) = c
      BY <2>1, <2>2, <2>3, Zenon
    <2> QED
      BY <2>4 DEF g, q
  <1>17. Becomes(r)
    BY <1>1, <1>16 DEF p, o, old, slots
  <1>18. ASSUME NEW x \in Objects
         PROVE  /\ Spare(c, x) = Spare(Machine, x) + Turn(old, x) + Turn(p, x)
                /\ Spare(c, x) >= Turn(p, x)
    <2>1. Spare(c, x) = Spare(d, x) + Turn(p, x) - Count(slots, x)
      BY <1>15
    <2> QED
      BY <1>14, <2>1
  <1>19. Spare(c, p) >= 1
    <2>1. Turn(p, p) = 1
      BY DEF Turn
    <2>2. Spare(c, p) >= Turn(p, p)
      BY <1>8, <1>18
    <2> QED
      BY <2>1, <2>2
  <1>20. Frame.localsOffset <= Len(c.stk) /\ c.ok = TRUE
    BY <1>4, <1>9, <1>10, <1>15
  <1>21. /\ Became(c, n)
         /\ \A x \in Objects : Spare(n, x) = Spare(c, x) - Turn(p, x)
    BY <1>2, <1>8, <1>15, <1>19, <1>20, TakeNowFits
  <1> HIDE DEF n
  <1>22. FitMachine(n) /\ KeepsTypes(heap, n.heap)
    <2>1. KeepsTypes(heap, c.heap)
      BY <1>12, <1>15 DEF KeepsTypes
    <2> QED
      BY <1>21, <2>1, KeepsTypesOn DEF Became
  <1>23. ASSUME NEW x \in Objects
         PROVE  Spare(n, x) = Spare(Machine, x) + Turn(old, x)
    <2>1. Spare(n, x) = Spare(c, x) - Turn(p, x)
      BY <1>21
    <2> QED
      BY <1>14, <1>18, <2>1
  <1>24. Spare(n, old) >= 1
    <2>1. Turn(old, old) = 1
      BY DEF Turn
    <2> QED
      BY <1>5, <1>14, <1>23, <2>1
  <1>25. /\ Follows(n, r, n.ok)
         /\ \A x \in Objects : Spare(r, x) = Spare(n, x) - Turn(old, x)
    BY <1>5, <1>22, <1>24, OneReleasedFits
  <1> HIDE DEF r
  <1>26. FitMachine(r) /\ KeepsTypes(heap, r.heap)
    BY <1>22, <1>25, KeepsTypesOn DEF Follows
  <1>27. ASSUME NEW x \in Objects PROVE Spare(r, x) = Spare(Machine, x)
    <2>1. Spare(r, x) = Spare(n, x) - Turn(old, x)
      BY <1>25
    <2> QED
      BY <1>14, <1>23, <2>1
  <1> QED
    BY <1>2, <1>17, <1>26, <1>27, KeepingSteady DEF Becomes

\* ymCtx_Convert.
LEMMA ConvertSteady ==
  ASSUME OwnInv, NEW type \in Types, NEW where \in Wheres, Convert(type, where)
  PROVE  Steady
  <1> DEFINE input == Last(stk)
             from == heap[input].type
             o == heap[input].slots[1]
             boxed == heap[o].type
  <1>1. Owned
    BY DEF OwnInv
  <1>2. CASE Refused
    BY <1>1, <1>2, RefusedSteady
  <1>3. CASE ~ Refused
    <2>1. /\ Locals # 0 /\ Converts(from, type)
          /\ from \in Protocols /\ from # type /\ type # None
                => IF type \in Protocols THEN <<boxed, type>> \in Conforming ELSE boxed = type
          /\ UNCHANGED <<frames, vars, host>>
          /\ IF from = type
             THEN Becomes(PutNow([Machine EXCEPT !.stk = Front(stk)], where, input, "take"))
             ELSE IF type = None THEN Cast(None, where)
             ELSE IF from \in Protocols
             THEN IF type \in Protocols THEN Rebox(type, where) ELSE Unbox(where)
             ELSE IF type \in Protocols THEN Box(type, where) ELSE Cast(type, where)
      BY <1>3 DEF Convert
    <2> HIDE DEF boxed, o, from, input
    <2>2. CASE from = type
      BY <2>1, <2>2, SameTypeSteady DEF input
    <2>3. CASE from # type /\ type = None
      BY <2>1, <2>3, CastSteady, TypesAssumption
    <2>4. CASE from # type /\ type # None /\ from \in Protocols /\ type \in Protocols
      <3>1. Rebox(type, where) /\ <<boxed, type>> \in Conforming
        BY <2>1, <2>4
      <3> QED
        BY <2>1, <2>4, <3>1, ReboxSteady DEF from, boxed, o, input
    <2>5. CASE from # type /\ type # None /\ from \in Protocols /\ type \notin Protocols
      <3>1. Unbox(where)
        BY <2>1, <2>5
      <3> QED
        BY <2>1, <2>5, <3>1, UnboxSteady DEF from, input
    <2>6. CASE from # type /\ type # None /\ from \notin Protocols /\ type \in Protocols
      <3>1. Box(type, where)
        BY <2>1, <2>6
      <3>2. <<from, type>> \in Conforming
        BY <2>1, <2>6, TypesAssumption DEF Converts, Types
      <3> QED
        BY <2>1, <2>6, <3>1, <3>2, BoxSteady DEF from, input
    <2>7. CASE from # type /\ type # None /\ from \notin Protocols /\ type \notin Protocols
      <3>1. Cast(type, where)
        BY <2>1, <2>7
      <3>2. type \in Primitives
        BY <2>1, <2>7, TypesAssumption DEF Converts, Types
      <3> QED
        BY <2>1, <3>1, <3>2, CastSteady
    <2> QED
      BY <2>2, <2>3, <2>4, <2>5, <2>6, <2>7
  <1> QED
    BY <1>2, <1>3

\* So with all of them.
LEMMA ValueCallsSteady == OwnInv /\ ValueCalls => Steady
  <1> SUFFICES ASSUME OwnInv, ValueCalls PROVE Steady
    OBVIOUS
  <1> QED
    BY StructInitSteady, GetPropertySteady, SetPropertySteady, ConvertSteady DEF ValueCalls

--------------------------------------------------------------------------------
(* The calls of fns *)

\* A frame more, with what it owns.
LEMMA EnteredClaims ==
  ASSUME Owned, UNCHANGED <<host, vars>>, NEW f, FrameOwns(f), frames' = Append(frames, f)
  PROVE  /\ OwnerTypes(host, vars, frames)'
         /\ \A x \in Objects : Claims(host, vars, frames, x)'
                                = Claims(host, vars, frames, x) + FrameClaim(f, x)
  <1> DEFINE gr == Append(frames, f)
  <1>1. OwnerTypes(host, vars, frames)
    BY DEF Owned
  <1>2. PICK S : frames \in Seq(S)
    BY <1>1 DEF OwnerTypes
  <1>3. /\ \E T : gr \in Seq(T)
        /\ \A k \in 1..Len(gr) : FrameOwns(gr[k])
        /\ \A x : FramesClaim(gr, x) = FramesClaim(frames, x) + FrameClaim(f, x)
    BY <1>1, <1>2, FramesAppended DEF OwnerTypes
  <1> HIDE DEF gr
  <1>4. OwnerTypes(host, vars, gr)
    BY <1>1, <1>3 DEF OwnerTypes
  <1>5. ASSUME NEW x \in Objects
        PROVE  Claims(host, vars, gr, x) = Claims(host, vars, frames, x) + FrameClaim(f, x)
    <2>1. /\ host[x] \in Nat /\ Count(vars, x) \in Nat /\ FramesClaim(frames, x) \in Nat
          /\ Claims(host, vars, frames, x) = host[x] + Count(vars, x) + FramesClaim(frames, x)
          /\ Claims(host, vars, gr, x) = host[x] + Count(vars, x) + FramesClaim(gr, x)
      BY <1>1, <1>4, ClaimsType
    <2>2. FrameClaim(f, x) \in Nat
      BY PendingType
    <2> QED
      BY <1>3, <2>1, <2>2
  <1>6. gr = frames'
    BY DEF gr
  <1> QED
    BY <1>4, <1>5, <1>6

\* What a call is to do when it is over, and the value it then has for a var.
Awaits(next, q) ==
    /\ next # <<>> => /\ next.var \in Vars /\ next.op \in {"get", "set"}
                      /\ next.op = "set" => next.value \in Objects
    /\ q = IF next # <<>> /\ next.op = "set" THEN next.value ELSE Nil

\* What new objects bring, and what goes from the stack to a frame.
LEMMA EnteredSpare ==
  ASSUME Owned, NEW x \in Objects, NEW below \in Seq(Objects), NEW os \in Seq(Objects),
         NEW q, Count(below, x) + Turn(q, x) = Count(stk, x),
         NEW g, Outer(g, x) = Outer(heap, x) + Count(os, x)
  PROVE  /\ Outer(g, x) >= Count(below \o os, x)
         /\ \A k : k = Claims(host, vars, frames, x) + Turn(q, x)
                    => Outer(g, x) - Count(below \o os, x) - k = Surplus(x)
  <1>1. /\ Count(below, x) \in Nat /\ Count(os, x) \in Nat
        /\ Count(below \o os, x) = Count(below, x) + Count(os, x)
    BY CountType, CountConcat
  <1>2. /\ Outer(heap, x) \in Int /\ Count(stk, x) \in Nat
        /\ Spare(Machine, x) = Outer(heap, x) - Count(stk, x)
        /\ Claims(host, vars, frames, x) \in Nat
        /\ Surplus(x) = Spare(Machine, x) - Claims(host, vars, frames, x)
        /\ Surplus(x) >= 0
    BY OwnFacts
  <1>3. Turn(q, x) \in Nat
    BY DEF Turn
  <1> QED
    BY <1>1, <1>2, <1>3

\* The stack owns the dummies, and the frame what has been pulled off the stack.
LEMMA EnterSteady ==
  ASSUME OwnInv, NEW f \in Functions, NEW given, NEW names,
         Len(names) \in Nat, Len(names) <= Len(Signature[f].named),
         NEW returnTo, NEW below \in Seq(Objects), NEW next, NEW q, Awaits(next, q),
         \A x \in Objects : Count(below, x) + Turn(q, x) = Count(stk, x),
         Enter(f, given, names, returnTo, below, next)
  PROVE  Steady
  <1>1. PICK target \in Targets(f, stk[Len(stk) - given + 1]) :
          \E os \in Room(heap, Dummies(f, target, names)) :
            /\ heap' = [o \in Objects |-> IF \E i \in DOMAIN os : os[i] = o
                                          THEN Created(heap, o, None, <<>>)[o] ELSE heap[o]]
            /\ stk' = below \o os
            /\ frames' = Append(frames,
                [fn |-> target, args |-> given + Dummies(f, target, names),
                 dummies |-> Dummies(f, target, names), returnTo |-> returnTo,
                 localsOffset |-> Len(below) + Dummies(f, target, names),
                 fwdFromProto |-> f \in MethodReqs, returnValue |-> Nil,
                 then |-> next, entry |-> LocalStack])
            /\ UNCHANGED <<vars, host>>
    BY DEF Enter
  <1> DEFINE d == Dummies(f, target, names)
             new == [fn |-> target, args |-> given + d, dummies |-> d, returnTo |-> returnTo,
                     localsOffset |-> Len(below) + d, fwdFromProto |-> f \in MethodReqs,
                     returnValue |-> Nil, then |-> next, entry |-> LocalStack]
  <1>2. PICK os \in Room(heap, d) :
            /\ heap' = WithNones(heap, os) /\ stk' = below \o os
            /\ frames' = Append(frames, new) /\ UNCHANGED <<vars, host>>
    BY <1>1 DEF WithNones
  <1>3. d \in Nat
    BY TargetIsFunction, DummiesAreCounted
  <1> HIDE DEF d
  <1>4. Owned /\ GoodHeap(heap) /\ Machine.heap = heap /\ Machine.stk = stk
    BY OwnFacts DEF OwnInv
  <1> DEFINE g == WithNones(heap, os)
             m == [heap |-> g, stk |-> below \o os, ok |-> TRUE]
  <1>5. /\ os \in Seq(Objects) /\ GoodHeap(g) /\ KeepsTypes(heap, g)
        /\ \A p \in Objects : Outer(g, p) = Outer(heap, p) + Count(os, p)
    BY <1>3, <1>4, NonesAreGood
  <1>6. m.heap = g /\ m.stk = below \o os /\ below \o os \in Seq(Objects)
    BY <1>5
  <1> HIDE DEF g
  <1>7. new.returnValue = Nil /\ new.then = next
    OBVIOUS
  <1> HIDE DEF new
  <1>8. FrameOwns(new) /\ Pending(new) = q
    BY <1>7 DEF FrameOwns, Pending, Awaits, Values
  <1>9. /\ OwnerTypes(host, vars, frames)'
        /\ \A x \in Objects : Claims(host, vars, frames, x)'
                                = Claims(host, vars, frames, x) + FrameClaim(new, x)
    BY <1>2, <1>4, <1>8, EnteredClaims
  <1>10. \A x \in Objects : FrameClaim(new, x) = Turn(q, x)
    <2> TAKE x \in Objects
    <2>1. Nil # x
      BY IndexAssumption
    <2>2. Turn(Nil, x) = 0 /\ Turn(q, x) \in Nat
      BY <2>1 DEF Turn
    <2> QED
      BY <1>7, <1>8, <2>2 DEF FrameClaim
  <1>11. ASSUME NEW x \in Objects
         PROVE  /\ Outer(g, x) >= Count(below \o os, x)
                /\ Outer(g, x) - Count(below \o os, x) - Claims(host, vars, frames, x)'
                    = Surplus(x)
    <2>1. Claims(host, vars, frames, x)' = Claims(host, vars, frames, x) + Turn(q, x)
      BY <1>9, <1>10
    <2>2. Outer(g, x) = Outer(heap, x) + Count(os, x)
      BY <1>5
    <2>3. Count(below, x) + Turn(q, x) = Count(stk, x)
      OBVIOUS
    <2> HIDE DEF m
    <2> QED
      BY <1>4, <1>5, <2>1, <2>2, <2>3, EnteredSpare
  <1>12. FitMachine(m)
    BY <1>5, <1>6, <1>11, FitParts
  <1>13. \A x \in Objects : Spare(m, x) - Claims(host, vars, frames, x)' = Surplus(x)
    BY <1>6, <1>11 DEF Spare
  <1> HIDE DEF m
  <1> QED
    BY <1>2, <1>4, <1>5, <1>6, <1>9, <1>12, <1>13, BecomesSteady DEF g

\* ymCtx_Call.
LEMMA BeginCallSteady ==
  ASSUME OwnInv, NEW f \in Functions, NEW returnTo \in Wheres,
         NEW names \in NameLists(Len(Signature[f].named)), BeginCall(f, names, returnTo)
  PROVE  Steady
  <1> DEFINE n == Len(Signature[f].positional) + Len(names)
             none == <<>>
  <1>1. /\ Len(Signature[f].named) \in Nat /\ Len(Signature[f].positional) \in Nat
    BY FunctionAssumption
  <1>2. Len(names) \in Nat /\ Len(names) <= Len(Signature[f].named)
    BY <1>1 DEF NameLists
  <1>3. CASE Refused
    BY <1>3, RefusedSteady DEF OwnInv
  <1>4. ASSUME ~Refused PROVE Steady
    <2>1. Enter(f, n, names, returnTo, stk, none)
      BY <1>4 DEF BeginCall
    <2>2. Awaits(none, Nil)
      BY DEF Awaits
    <2>3. stk \in Seq(Objects)
      BY OwnFacts DEF OwnInv
    <2>4. \A x \in Objects : Count(stk, x) + Turn(Nil, x) = Count(stk, x)
      <3> TAKE x \in Objects
      <3>1. Nil # x
        BY IndexAssumption
      <3>2. Turn(Nil, x) = 0 /\ Count(stk, x) \in Nat
        BY <2>3, <3>1, CountType DEF Turn
      <3> QED
        BY <3>2
    <2> HIDE DEF n, none
    <2> QED
      BY <1>2, <2>1, <2>2, <2>3, <2>4, EnterSteady
  <1> QED
    BY <1>3, <1>4

\* What the host offers, once the call has secured what it has borrowed.
LEMMA OfferedFits ==
  ASSUME NEW m, FitMachine(m), NEW o \in Objects, NEW policy, IsPolicy(policy),
         Puttable(m, o, policy)
  PROVE  LET n == Borrowed(m, o, policy)
         IN /\ Became(m, n) /\ n.stk = m.stk /\ n.ok = m.ok /\ Spare(n, o) >= 1
            /\ \A x \in Objects : Spare(n, x) - Turn(o, x)
                                    = Spare(m, x) - Cost(policy, TRUE, o, x)
  <1>1. \A x \in Objects : Spare(m, x) \in Int /\ Spare(m, x) >= 0 /\ Turn(o, x) \in Nat
    BY SpareType DEF FitMachine, Turn
  <1>2. Turn(o, o) = 1
    BY DEF Turn
  <1>3. CASE policy = "borrow"
    <2> DEFINE n == Borrowed(m, o, "borrow")
    <2>1. m.heap[o].type # Vacant
      BY <1>3 DEF Puttable
    <2>2. /\ Follows(m, n, m.ok) /\ n.stk = m.stk
          /\ \A x \in Objects : Spare(n, x) = Spare(m, x) + Turn(o, x)
      BY <2>1, BorrowedFits
    <2>3. \A x \in Objects : Cost(policy, TRUE, o, x) = 0
      BY <1>3 DEF Cost
    <2>4. n = Borrowed(m, o, policy)
      BY <1>3
    <2> HIDE DEF n
    <2>5. Spare(n, o) >= 1
      BY <1>1, <1>2, <2>2
    <2>6. \A x \in Objects : Spare(n, x) - Turn(o, x) = Spare(m, x) - 0
      BY <1>1, <2>2
    <2>7. \A x \in Objects : Spare(n, x) - Turn(o, x) = Spare(m, x) - Cost(policy, TRUE, o, x)
      BY <2>3, <2>6
    <2> QED
      BY <2>2, <2>4, <2>5, <2>7 DEF Follows, Became
  <1>4. CASE policy # "borrow"
    <2>1. Borrowed(m, o, policy) = m
      BY <1>4 DEF Borrowed
    <2>2. Spare(m, o) >= 1
      BY <1>4 DEF Puttable
    <2>3. \A x \in Objects : Cost(policy, TRUE, o, x) = Turn(o, x)
      BY <1>4 DEF Cost, IsPolicy
    <2>4. Became(m, m)
      BY FadesSame DEF Became
    <2> QED
      BY <2>1, <2>2, <2>3, <2>4
  <1> QED
    BY <1>3, <1>4

\* What the host offers to a call that cannot use it.
LEMMA DeclinedSteady ==
  ASSUME Owned, NEW o \in Objects, NEW policy, IsPolicy(policy), Offered(o, policy),
         Pays(o, policy, FALSE), UNCHANGED <<frames, vars>>,
         Becomes([(IF policy = "take" THEN ReleasedIn(Machine, <<o>>) ELSE Machine)
                        EXCEPT !.ok = FALSE])
  PROVE  Steady
  <1> DEFINE m == IF policy = "take" THEN ReleasedIn(Machine, <<o>>) ELSE Machine
             n == [m EXCEPT !.ok = FALSE]
             no == FALSE
  <1>1. heap' = n.heap /\ stk' = n.stk
    BY DEF Becomes
  <1>2. FitMachine(Machine) /\ Machine.heap = heap
    BY OwnFacts
  <1>3. policy # "borrow" => host[o] > 0
    BY DEF Offered
  <1>4. \A x \in Objects :
            Cost(policy, no, o, x) = IF policy = "take" THEN Turn(o, x) ELSE 0
    BY DEF Cost
  <1>5. /\ host' \in [Objects -> Nat]
        /\ \A x \in Objects : host'[x] = host[x] - Cost(policy, no, o, x)
    <2>1. Pays(o, policy, no) /\ no \in BOOLEAN
      OBVIOUS
    <2> HIDE DEF no
    <2> QED
      BY <1>3, <2>1, PaidClaims
  <1>6. /\ FitMachine(m) /\ Fades(heap, m.heap)
        /\ \A x \in Objects :
                Spare(m, x) = Spare(Machine, x) - IF policy = "take" THEN Turn(o, x) ELSE 0
    <2>1. CASE policy = "take"
      <3> DEFINE r == ReleasedIn(Machine, <<o>>)
      <3>1. Spare(Machine, o) >= 1
        BY <1>3, <2>1, HostIsSpare
      <3>2. /\ Follows(Machine, r, Machine.ok)
            /\ \A x \in Objects : Spare(r, x) = Spare(Machine, x) - Turn(o, x)
        BY <1>2, <3>1, OneReleasedFits
      <3>3. m = r
        BY <2>1
      <3> HIDE DEF r
      <3> QED
        BY <1>2, <2>1, <3>2, <3>3 DEF Follows
    <2>2. CASE policy # "take"
      <3>1. m = Machine
        BY <2>2
      <3>2. \A x \in Objects : Spare(Machine, x) \in Int
        BY OwnFacts
      <3>3. \A x \in Objects : Spare(Machine, x) - 0 = Spare(Machine, x)
        BY <3>2
      <3> QED
        BY <1>2, <2>2, <3>1, <3>3, FadesSame
    <2> QED
      BY <2>1, <2>2
  <1> HIDE DEF m
  <1>7. /\ Follows(m, n, FALSE) /\ n.heap = m.heap
        /\ \A x \in Objects : Spare(n, x) = Spare(m, x)
    BY <1>6, OkFits
  <1> HIDE DEF n
  <1>8. FitMachine(n) /\ KeepsTypes(heap, n.heap)
    BY <1>6, <1>7, FadesKeepsTypes DEF Follows
  <1>9. ASSUME NEW x \in Objects
        PROVE  Spare(n, x) - host'[x] = Spare(Machine, x) - host[x]
    <2> DEFINE c == Cost(policy, no, o, x)
    <2>1. c \in Nat /\ Spare(Machine, x) \in Int /\ host[x] \in Nat
      BY OwnFacts DEF Cost, Turn, Owned, OwnerTypes
    <2>2. Spare(n, x) = Spare(Machine, x) - c /\ host'[x] = host[x] - c
      BY <1>4, <1>5, <1>6, <1>7
    <2> HIDE DEF c
    <2> QED
      BY <2>1, <2>2
  <1> QED
    BY <1>1, <1>5, <1>8, <1>9, PayingSteady

\* ymCtx_SetArg: the frame's arg is the caller's local.
LEMMA SetArgSteady ==
  ASSUME OwnInv, NEW o \in Objects, NEW policy, IsPolicy(policy), SetArg(o, policy)
  PROVE  Steady
  <1>1. Owned /\ Offered(o, policy) /\ UNCHANGED <<frames, vars>>
    BY DEF OwnInv, SetArg
  <1>2. CASE ArgWindow = {}
    <2>1. /\ Pays(o, policy, FALSE)
          /\ Becomes([(IF policy = "take" THEN ReleasedIn(Machine, <<o>>) ELSE Machine)
                        EXCEPT !.ok = FALSE])
      BY <1>2, Zenon DEF SetArg
    <2> QED
      BY <1>1, <2>1, DeclinedSteady
  <1>3. CASE ArgWindow # {}
    <2>1. PICK pos \in ArgWindow :
            /\ Pays(o, policy, TRUE)
            /\ Becomes([ReleasedIn(Borrowed(Machine, o, policy), <<stk[pos]>>)
                            EXCEPT !.stk[pos] = o])
      BY <1>3, Zenon DEF SetArg
    <2> DEFINE m == Borrowed(Machine, o, policy)
               n == Replaced(m, pos, o)
               yes == TRUE
    <2>2. FitMachine(Machine) /\ Machine.heap = heap /\ Machine.stk = stk
      BY <1>1, OwnFacts
    <2>3. policy # "borrow" => host[o] > 0
      BY <1>1 DEF Offered
    <2>4. Puttable(Machine, o, policy)
      BY <1>1, <2>2, <2>3, HostIsSpare DEF Puttable, Offered, Live
    <2>5. /\ Became(Machine, m) /\ m.stk = stk /\ Spare(m, o) >= 1
          /\ \A x \in Objects : Spare(m, x) - Turn(o, x)
                                    = Spare(Machine, x) - Cost(policy, yes, o, x)
      BY <2>2, <2>4, OfferedFits
    <2>6. pos \in 1..Len(stk)
      <3>1. /\ pos \in Nat /\ Floor(Frame) \in Nat /\ Floor(Frame) < pos /\ pos <= Len(stk)
            /\ Len(stk) \in Nat
        BY FrameFacts DEF ArgWindow, Floor, IsFrame, OwnInv
      <3> QED
        BY <3>1
    <2>7. Becomes(n)
      BY <2>1, <2>5 DEF Replaced
    <2> HIDE DEF m
    <2>8. /\ Follows(m, n, m.ok)
          /\ \A x \in Objects : Spare(n, x) = Spare(m, x) - Turn(o, x)
      BY <2>5, <2>6, TakenFits DEF Became
    <2> HIDE DEF n
    <2>9. FitMachine(n) /\ KeepsTypes(heap, n.heap)
      BY <2>2, <2>5, <2>8, FadesOn, FadesKeepsTypes DEF Follows, Became
    <2>10. /\ host' \in [Objects -> Nat]
           /\ \A x \in Objects : host'[x] = host[x] - Cost(policy, yes, o, x)
      <3>1. Pays(o, policy, yes) /\ yes \in BOOLEAN
        BY <2>1
      <3> HIDE DEF yes
      <3> QED
        BY <1>1, <2>3, <3>1, PaidClaims
    <2>11. ASSUME NEW x \in Objects
           PROVE  Spare(n, x) - host'[x] = Spare(Machine, x) - host[x]
      <3> DEFINE c == Cost(policy, yes, o, x)
      <3>1. c \in Nat /\ Spare(Machine, x) \in Int /\ host[x] \in Nat
        BY <1>1, OwnFacts DEF Cost, Turn, Owned, OwnerTypes
      <3>2. Spare(n, x) = Spare(Machine, x) - c /\ host'[x] = host[x] - c
        BY <2>5, <2>8, <2>10
      <3> HIDE DEF c
      <3> QED
        BY <3>1, <3>2
    <2>12. heap' = n.heap /\ stk' = n.stk
      BY <2>7 DEF Becomes
    <2> QED
      BY <1>1, <2>9, <2>10, <2>11, <2>12, PayingSteady
  <1> QED
    BY <1>2, <1>3

\* The return value that the current frame has bound is its own.
LEMMA BoundIsClaimed ==
  ASSUME OwnInv
  PROVE  /\ Frame.returnValue \in Values
         /\ \A x \in Objects :
                /\ FramesClaim(frames, x) \in Nat
                /\ Turn(Frame.returnValue, x) + Turn(Pending(Frame), x) <= FramesClaim(frames, x)
  <1>1. PICK S : frames \in Seq(S)
    BY DEF OwnInv, Owned, OwnerTypes
  <1>2. /\ frames # <<>> /\ \A k \in 1..Len(frames) : FrameOwns(frames[k])
    BY DEF OwnInv, FramesInv, Owned, OwnerTypes
  <1>3. /\ Front(frames) \in Seq(S) /\ FrameOwns(Last(frames))
        /\ \A k \in 1..Len(Front(frames)) : FrameOwns(Front(frames)[k])
        /\ \A x : FramesClaim(frames, x)
                    = FramesClaim(Front(frames), x) + FrameClaim(Last(frames), x)
    BY <1>1, <1>2, FramesCut
  <1>4. ASSUME NEW x \in Objects
        PROVE  /\ FramesClaim(frames, x) \in Nat
               /\ Turn(Frame.returnValue, x) + Turn(Pending(Frame), x) <= FramesClaim(frames, x)
    <2>1. FramesClaim(Front(frames), x) \in Nat /\ FrameClaim(Last(frames), x) \in Nat
      BY <1>3, FramesType, PendingType
    <2>2. FrameClaim(Last(frames), x) = Turn(Frame.returnValue, x) + Turn(Pending(Frame), x)
      BY DEF Frame, FrameClaim
    <2> QED
      BY <1>3, <2>1, <2>2
  <1>5. Frame.returnValue \in Values
    BY <1>3 DEF Frame, FrameOwns
  <1> QED
    BY <1>4, <1>5

\* The host pays for what the frame will return.
LEMMA ReturnClaims ==
  ASSUME OwnInv, NEW o \in Objects, host' \in [Objects -> Nat], UNCHANGED vars,
         frames' = [frames EXCEPT ![Len(frames)].returnValue = o]
  PROVE  /\ OwnerTypes(host, vars, frames)'
         /\ \A x \in Objects : Claims(host, vars, frames, x)'
                = Claims(host, vars, frames, x) - host[x] + host'[x]
                    - Turn(Frame.returnValue, x) + Turn(o, x)
  <1> DEFINE gr == [frames EXCEPT ![Len(frames)].returnValue = o]
  <1>1. OwnerTypes(host, vars, frames)
    BY DEF Owned, OwnInv
  <1>2. PICK S : frames \in Seq(S)
    BY <1>1 DEF OwnerTypes
  <1>3. /\ frames # <<>> /\ \A k \in 1..Len(frames) : FrameOwns(frames[k])
        /\ IsFrame(frames[Len(frames)]) /\ Frame = frames[Len(frames)]
    BY FrameFacts DEF OwnInv, FramesInv, Owned, OwnerTypes
  <1>4. /\ \E T : gr \in Seq(T)
        /\ \A k \in 1..Len(gr) : FrameOwns(gr[k])
        /\ \A x : FramesClaim(gr, x)
                    = FramesClaim(frames, x) - Turn(frames[Len(frames)].returnValue, x)
                        + Turn(o, x)
    BY <1>2, <1>3, FramesReturn
  <1>5. gr = frames'
    OBVIOUS
  <1> HIDE DEF gr
  <1>6. OwnerTypes(host', vars, gr)
    BY <1>1, <1>4 DEF OwnerTypes
  <1>7. ASSUME NEW x \in Objects
        PROVE  Claims(host', vars, gr, x) = Claims(host, vars, frames, x) - host[x] + host'[x]
                                                - Turn(Frame.returnValue, x) + Turn(o, x)
    <2>1. /\ host[x] \in Nat /\ Count(vars, x) \in Nat /\ FramesClaim(frames, x) \in Nat
          /\ Claims(host, vars, frames, x) = host[x] + Count(vars, x) + FramesClaim(frames, x)
      BY <1>1, ClaimsType
    <2>2. /\ host'[x] \in Nat
          /\ Claims(host', vars, gr, x) = host'[x] + Count(vars, x) + FramesClaim(gr, x)
      BY <1>6, ClaimsType
    <2>3. Turn(Frame.returnValue, x) \in Nat /\ Turn(o, x) \in Nat
      BY DEF Turn
    <2>4. FramesClaim(gr, x) = FramesClaim(frames, x) - Turn(Frame.returnValue, x) + Turn(o, x)
      BY <1>3, <1>4
    <2> QED
      BY <2>1, <2>2, <2>3, <2>4
  <1>8. OwnerTypes(host, vars, frames)'
    BY <1>5, <1>6
  <1> QED
    BY <1>5, <1>7, <1>8

\* What the frame has bound before goes.
LEMMA OldReturnGoes ==
  ASSUME OwnInv
  PROVE  LET old == Frame.returnValue
             m == IF old = Nil THEN Machine ELSE ReleasedIn(Machine, <<old>>)
         IN /\ Became(Machine, m) /\ m.stk = stk /\ m.ok = TRUE
            /\ old # Nil => m.heap = Released(heap, <<old>>)
            /\ \A x \in Objects : Spare(m, x) = Spare(Machine, x) - Turn(old, x)
  <1> DEFINE old == Frame.returnValue
             m == IF old = Nil THEN Machine ELSE ReleasedIn(Machine, <<old>>)
  <1>1. /\ Owned /\ FitMachine(Machine) /\ Machine.heap = heap /\ Machine.stk = stk
        /\ Machine.ok = TRUE /\ \A x \in Objects : Spare(Machine, x) \in Int
    BY OwnFacts DEF OwnInv
  <1>2. CASE old = Nil
    <2>1. m = Machine
      BY <1>2
    <2>2. \A x \in Objects : Turn(old, x) = 0
      BY <1>2, IndexAssumption DEF Turn
    <2> HIDE DEF old, m
    <2>3. \A x \in Objects : Spare(Machine, x) = Spare(Machine, x) - Turn(old, x)
      BY <1>1, <2>2
    <2>4. Became(Machine, m)
      BY <1>1, <2>1, FadesSame DEF Became
    <2> QED
      BY <1>1, <1>2, <2>1, <2>3, <2>4 DEF old, m
  <1>3. CASE old # Nil
    <2>1. m = ReleasedIn(Machine, <<old>>)
      BY <1>3
    <2>2. old \in Objects
      BY <1>3, BoundIsClaimed DEF Values
    <2>3. Spare(Machine, old) >= 1
      <3>1. /\ host[old] \in Nat /\ Count(vars, old) \in Nat
            /\ Claims(host, vars, frames, old)
                = host[old] + Count(vars, old) + FramesClaim(frames, old)
        BY <1>1, <2>2, ClaimsType DEF Owned
      <3>2. /\ FramesClaim(frames, old) \in Nat
            /\ Turn(old, old) + Turn(Pending(Frame), old) <= FramesClaim(frames, old)
        BY <2>2, BoundIsClaimed
      <3>3. Turn(old, old) = 1 /\ Turn(Pending(Frame), old) \in Nat
        BY DEF Turn
      <3>4. Claims(host, vars, frames, old) >= 1
        BY <3>1, <3>2, <3>3
      <3> QED
        BY <1>1, <2>2, <3>4, ClaimedIsSpare
    <2> HIDE DEF old, m
    <2>4. /\ Follows(Machine, m, Machine.ok) /\ m.stk = Machine.stk
          /\ \A x \in Objects : Spare(m, x) = Spare(Machine, x) - Turn(old, x)
      BY <1>1, <2>1, <2>2, <2>3, OneReleasedFits
    <2>5. m.heap = Released(heap, <<old>>)
      BY <1>1, <2>1 DEF ReleasedIn, Machine
    <2>6. Became(Machine, m) /\ m.ok = TRUE /\ m.stk = stk
      BY <1>1, <2>4 DEF Follows, Became
    <2> QED
      BY <2>4, <2>5, <2>6 DEF old, m
  <1> QED
    BY <1>2, <1>3

\* ymCtx_Ret.
LEMMA RetSteady ==
  ASSUME OwnInv, KeepsLoans, NEW o \in Objects, NEW policy, IsPolicy(policy), Ret(o, policy)
  PROVE  Steady
  <1>1. Owned /\ Offered(o, policy) /\ UNCHANGED vars
    BY DEF OwnInv, Ret
  <1>2. policy # "borrow" => host[o] > 0
    BY <1>1 DEF Offered
  <1>3. CASE IsUser
    <2>1. /\ Pays(o, policy, FALSE) /\ UNCHANGED frames
          /\ Becomes([(IF policy = "take" THEN ReleasedIn(Machine, <<o>>) ELSE Machine)
                        EXCEPT !.ok = FALSE])
      BY <1>3, Zenon DEF Ret
    <2> QED
      BY <1>1, <2>1, DeclinedSteady
  <1>4. CASE ~IsUser
    <2> DEFINE old == Frame.returnValue
               m == IF old = Nil THEN Machine ELSE ReleasedIn(Machine, <<old>>)
               n == Borrowed(m, o, policy)
               yes == TRUE
    <2>1. /\ old # Nil => KeepsBorrowed(heap, <<old>>, o, policy)
          /\ Pays(o, policy, yes) /\ Becomes(n)
          /\ frames' = [frames EXCEPT ![Len(frames)].returnValue = o]
      BY <1>4, Zenon DEF Ret
    <2>2. /\ Became(Machine, m) /\ m.stk = stk /\ m.ok = TRUE
          /\ old # Nil => m.heap = Released(heap, <<old>>)
          /\ \A x \in Objects : Spare(m, x) = Spare(Machine, x) - Turn(old, x)
      BY OldReturnGoes
    <2>3. old = Nil => m = Machine
      OBVIOUS
    <2>4. /\ Machine.heap = heap
          /\ \A x \in Objects : /\ Spare(Machine, x) \in Int /\ Claims(host, vars, frames, x) \in Nat
                                /\ Surplus(x) = Spare(Machine, x) - Claims(host, vars, frames, x)
                                /\ Surplus(x) >= 0
      BY <1>1, OwnFacts
    <2>5. Puttable(m, o, policy)
      <3>1. CASE policy = "borrow"
        <4>1. old # Nil => m.heap[o].type # Vacant
          BY <2>1, <2>2, <3>1 DEF KeepsBorrowed, KeepsLoans, Live
        <4>2. old = Nil => m.heap[o].type # Vacant
          BY <1>1, <2>3, <2>4 DEF Offered, Live
        <4> QED
          BY <3>1, <4>1, <4>2 DEF Puttable
      <3>2. CASE policy # "borrow"
        <4>1. /\ host[o] \in Nat /\ Count(vars, o) \in Nat
              /\ Claims(host, vars, frames, o)
                    = host[o] + Count(vars, o) + FramesClaim(frames, o)
          BY <1>1, ClaimsType DEF Owned
        <4>2. /\ FramesClaim(frames, o) \in Nat
              /\ Turn(old, o) + Turn(Pending(Frame), o) <= FramesClaim(frames, o)
          BY BoundIsClaimed
        <4>3. Turn(old, o) \in Nat /\ Turn(Pending(Frame), o) \in Nat
          BY DEF Turn
        <4>4. host[o] > 0
          BY <1>2, <3>2
        <4>5. Spare(m, o) = Spare(Machine, o) - Turn(old, o)
          BY <2>2
        <4>6. /\ Spare(Machine, o) \in Int
              /\ Surplus(o) = Spare(Machine, o) - Claims(host, vars, frames, o)
              /\ Surplus(o) >= 0
          BY <2>4
        <4> HIDE DEF old, m
        <4>7. Spare(m, o) >= 1
          BY <4>1, <4>2, <4>3, <4>4, <4>5, <4>6
        <4> QED
          BY <3>2, <4>7 DEF Puttable
      <3> QED
        BY <3>1, <3>2
    <2> HIDE DEF old, m
    <2>6. /\ Became(m, n)
          /\ \A x \in Objects : Spare(n, x) - Turn(o, x) = Spare(m, x) - Cost(policy, yes, o, x)
      <3>1. FitMachine(m)
        BY <2>2 DEF Became
      <3> QED
        BY <2>5, <3>1, OfferedFits
    <2>7. heap' = n.heap /\ stk' = n.stk
      BY <2>1 DEF Becomes
    <2> HIDE DEF n
    <2>8. FitMachine(n) /\ KeepsTypes(heap, n.heap)
      BY <2>2, <2>4, <2>6, FadesOn, FadesKeepsTypes DEF Became
    <2>9. /\ host' \in [Objects -> Nat]
          /\ \A x \in Objects : host'[x] = host[x] - Cost(policy, yes, o, x)
      <3>1. yes \in BOOLEAN
        OBVIOUS
      <3> HIDE DEF yes
      <3> QED
        BY <1>1, <1>2, <2>1, <3>1, PaidClaims
    <2>10. /\ OwnerTypes(host, vars, frames)'
           /\ \A x \in Objects : Claims(host, vars, frames, x)'
                = Claims(host, vars, frames, x) - host[x] + host'[x] - Turn(old, x) + Turn(o, x)
      BY <1>1, <2>1, <2>9, ReturnClaims DEF old
    <2>11. ASSUME NEW x \in Objects
           PROVE  Spare(n, x) - Claims(host, vars, frames, x)' = Surplus(x)
      <3> DEFINE c == Cost(policy, yes, o, x)
                 k == Claims(host, vars, frames, x)'
      <3>1. c \in Nat /\ host[x] \in Nat /\ Turn(old, x) \in Nat /\ Turn(o, x) \in Nat
        BY <1>1 DEF Cost, Turn, Owned, OwnerTypes
      <3>2. /\ Spare(n, x) - Turn(o, x) = Spare(m, x) - c /\ host'[x] = host[x] - c
            /\ Spare(m, x) = Spare(Machine, x) - Turn(old, x)
            /\ k = Claims(host, vars, frames, x) - host[x] + host'[x] - Turn(old, x) + Turn(o, x)
        BY <2>2, <2>6, <2>9, <2>10
      <3>3. /\ Spare(Machine, x) \in Int /\ Claims(host, vars, frames, x) \in Nat
            /\ Surplus(x) = Spare(Machine, x) - Claims(host, vars, frames, x)
        BY <2>4
      <3>4. Spare(n, x) \in Int
        BY <2>8, SpareType DEF FitMachine
      <3> HIDE DEF c, k
      <3>5. Spare(n, x) - k = Surplus(x)
        BY <3>1, <3>2, <3>3, <3>4
      <3> QED
        BY <3>5 DEF k
    <2> QED
      BY <1>1, <2>7, <2>8, <2>10, <2>11, BecomesSteady
  <1> QED
    BY <1>3, <1>4

--------------------------------------------------------------------------------
(* Vars, and the end of a call *)

\* What stays on the heap of the vars and the stack, and keeps its type.
Kept == Owned' /\ KeepsTypes(heap, heap')

\* What a var holds is put like what the host lends.
LEMMA GotVarFits ==
  ASSUME NEW m, FitMachine(m), m.ok = TRUE, NEW offset \in Nat, offset <= Len(m.stk),
         NEW where \in Wheres, NEW o \in Values, o # Nil => m.heap[o].type # Vacant
  PROVE  LET n == GotVar(m, offset, o, where)
         IN /\ Became(m, n)
            /\ \A x \in Objects : Spare(n, x) = Spare(m, x)
  <1>1. CASE o = Nil
    <2> DEFINE n == [m EXCEPT !.ok = FALSE]
    <2>1. GotVar(m, offset, o, where) = n
      BY <1>1 DEF GotVar
    <2>2. /\ Follows(m, n, FALSE) /\ \A x \in Objects : Spare(n, x) = Spare(m, x)
      BY OkFits
    <2> HIDE DEF n
    <2> QED
      BY <2>1, <2>2 DEF Follows, Became
  <1>2. CASE o # Nil
    <2> DEFINE l == Borrowed(m, o, "borrow")
               policy == "take"
               n == PutIn(l, offset, where, o, policy)
    <2>1. o \in Objects /\ m.heap[o].type # Vacant
      BY <1>2 DEF Values
    <2>2. GotVar(m, offset, o, where) = n
      BY <1>2 DEF GotVar
    <2>3. /\ Follows(m, l, m.ok) /\ l.stk = m.stk
          /\ \A x \in Objects : Spare(l, x) = Spare(m, x) + Turn(o, x)
      BY <2>1, BorrowedFits
    <2> HIDE DEF l
    <2>4. FitMachine(l) /\ l.ok = TRUE /\ offset <= Len(l.stk) /\ Fades(m.heap, l.heap)
      BY <2>3 DEF Follows
    <2>5. \A x \in Objects : Spare(m, x) \in Int /\ Spare(m, x) >= 0 /\ Turn(o, x) \in Nat
      BY SpareType DEF FitMachine, Turn
    <2>6. Spare(l, o) >= 1
      <3>1. Turn(o, o) = 1
        BY DEF Turn
      <3> QED
        BY <2>1, <2>3, <2>5, <3>1
    <2>7. IsPolicy(policy) /\ ~Lends(policy) /\ Puttable(l, o, policy)
      BY <2>6 DEF IsPolicy, Lends, Puttable
    <2>8. \A b, x : Cost(policy, b, o, x) = Turn(o, x)
      BY DEF Cost
    <2> HIDE DEF policy
    <2>9. /\ Became(l, n)
          /\ \A x \in Objects : Spare(n, x) = Spare(l, x) - Cost(policy, n.ok, o, x)
      BY <2>1, <2>4, <2>7, PutInFits
    <2> HIDE DEF n
    <2>10. \A x \in Objects : Spare(n, x) = Spare(m, x)
      <3> TAKE x \in Objects
      <3>1. Spare(n, x) = Spare(l, x) - Turn(o, x)
        BY <2>8, <2>9
      <3> QED
        BY <2>3, <2>5, <3>1
    <2>11. Became(m, n)
      BY <2>4, <2>9, FadesOn DEF Became
    <2> QED
      BY <2>2, <2>10, <2>11
  <1> QED
    BY <1>1, <1>2

\* What is on the stack lives.
LEMMA TopLives ==
  ASSUME NEW m, FitMachine(m), m.stk # <<>>
  PROVE  Last(m.stk) \in Objects /\ m.heap[Last(m.stk)].type # Vacant
  <1>1. m.stk \in Seq(Objects)
    BY DEF FitMachine
  <1>2. /\ Last(m.stk) \in Objects /\ Len(m.stk) \in Nat \ {0}
        /\ Last(m.stk) = m.stk[Len(m.stk)] /\ Len(m.stk) \in DOMAIN m.stk
    BY <1>1, FrontAppended DEF Last
  <1>3. Count(m.stk, Last(m.stk)) \in Nat /\ Count(m.stk, Last(m.stk)) # 0
    BY <1>1, <1>2, CountType
  <1>4. Count(m.stk, Last(m.stk)) >= 1
    BY <1>3
  <1> QED
    BY <1>2, <1>4, SpareIsLive

\* What GetVar or SetVar does when there is an initializer to wait for.
IsAwaited(next, q) ==
    /\ next.var \in Vars /\ next.op \in {"get", "set"}
    /\ next.op = "get" => next.where \in Wheres /\ q = Nil
    /\ next.op = "set" => next.value \in Objects /\ q = next.value
Reads(next) == next.op = "get"

\* VarStorage::initialize pulls the top of the stack into the var.
LEMMA ResumeFits ==
  ASSUME Owned, NEW m, FitMachine(m), NEW offset \in Nat, offset <= Len(m.stk),
         NEW next, NEW q, IsAwaited(next, q), Resume(m, offset, next),
         \A x \in Objects : Spare(m, x) >= Count(vars, x)
  PROVE  \E n :
            /\ Became(m, n) /\ heap' = n.heap /\ stk' = n.stk
            /\ vars' \in [Vars -> Values]
            /\ \A x \in Objects : /\ Spare(n, x) - Count(vars', x)
                                        >= Spare(m, x) - Count(vars, x) - Turn(q, x)
                                  /\ Reads(next) /\ vars[next.var] = Nil
                                        => Spare(n, x) - Count(vars', x)
                                                = Spare(m, x) - Count(vars, x)
  <1> DEFINE some == Len(m.stk) > offset
             left == IF some THEN Front(m.stk) ELSE m.stk
             pulled == [m EXCEPT !.stk = left, !.ok = TRUE]
             v == next.var
             top == IF some THEN Last(m.stk) ELSE Nil
             stored == IF some THEN [vars EXCEPT ![v] = Last(m.stk)] ELSE vars
  <1>1. /\ vars \in [Vars -> Values] /\ v \in Vars /\ m.stk \in Seq(Objects)
        /\ Len(m.stk) \in Nat
    BY DEF Owned, OwnerTypes, IsAwaited, FitMachine
  <1>2. \/ /\ Reads(next) /\ vars' = stored
           /\ Becomes(GotVar(pulled, offset, stored[v], next.where))
        \/ /\ ~Reads(next) /\ vars' = [stored EXCEPT ![v] = next.value]
           /\ Becomes(pulled)
    BY Zenon DEF Resume, Reads
  <1>3. some => m.stk # <<>>
    BY <1>1
  <1>4. some => Last(m.stk) \in Objects /\ m.heap[Last(m.stk)].type # Vacant
    BY <1>3, TopLives
  <1>5. /\ some => /\ Front(m.stk) \in Seq(Objects) /\ m.stk = Append(Front(m.stk), Last(m.stk))
                   /\ Len(Front(m.stk)) = Len(m.stk) - 1
    BY <1>1, <1>3, FrontAppended
  <1>6. \A x \in Objects : /\ Spare(m, x) \in Int /\ Count(vars, x) \in Nat
                           /\ Outer(m.heap, x) \in Int /\ Count(m.stk, x) \in Nat
                           /\ Spare(m, x) = Outer(m.heap, x) - Count(m.stk, x)
                           /\ Spare(m, x) >= 0
    BY SpareType, ClaimsType DEF Owned, FitMachine
  <1>7. /\ left \in Seq(Objects) /\ offset <= Len(left) /\ top \in Values
        /\ \A x \in Objects : Count(m.stk, x) = Count(left, x) + Turn(top, x)
    <2>1. CASE some
      <3>1. offset <= Len(Front(m.stk))
        BY <1>1, <1>5, <2>1
      <3>2. \A x \in Objects : Count(m.stk, x)
                                = Count(Front(m.stk), x) + Turn(Last(m.stk), x)
        BY <1>4, <1>5, <2>1, CountAppend
      <3>3. left = Front(m.stk) /\ top = Last(m.stk)
        BY <2>1
      <3> QED
        BY <1>4, <1>5, <2>1, <3>1, <3>2, <3>3 DEF Values
    <2>2. CASE ~some
      <3>1. left = m.stk /\ top = Nil
        BY <2>2
      <3>2. \A x \in Objects : Count(m.stk, x) = Count(m.stk, x) + Turn(Nil, x)
        <4> TAKE x \in Objects
        <4>1. Turn(Nil, x) = 0
          BY IndexAssumption DEF Turn
        <4> QED
          BY <1>6, <4>1
      <3> QED
        BY <1>1, <3>1, <3>2 DEF Values
    <2> QED
      BY <2>1, <2>2
  <1>8. /\ FitMachine(pulled) /\ pulled.ok = TRUE /\ pulled.heap = m.heap /\ pulled.stk = left
        /\ \A x \in Objects : Spare(pulled, x) = Spare(m, x) + Turn(top, x)
    <2>1. m = [heap |-> m.heap, stk |-> m.stk, ok |-> m.ok]
      BY DEF FitMachine
    <2> DEFINE yes == TRUE
    <2>2. pulled = WithOutcome(m, left, yes)
      BY Zenon DEF WithOutcome
    <2> HIDE DEF left, top, pulled, yes
    <2>3. pulled = [heap |-> m.heap, stk |-> left, ok |-> yes]
      BY <2>1, <2>2, WithBothIs
    <2>4. pulled.heap = m.heap /\ pulled.stk = left /\ pulled.ok = TRUE
      BY <2>3 DEF yes
    <2>5. ASSUME NEW x \in Objects
          PROVE  /\ Outer(m.heap, x) >= Count(left, x)
                 /\ Outer(m.heap, x) - Count(left, x) = Spare(m, x) + Turn(top, x)
      <3>1. Count(left, x) \in Nat /\ Turn(top, x) \in Nat
        BY <1>7, CountType DEF Turn
      <3> QED
        BY <1>6, <1>7, <3>1
    <2>6. FitMachine(pulled)
      BY <1>7, <2>3, <2>5, FitParts DEF FitMachine
    <2>7. \A x \in Objects : Spare(pulled, x) = Spare(m, x) + Turn(top, x)
      BY <2>4, <2>5 DEF Spare
    <2> QED
      BY <2>4, <2>6, <2>7
  <1>9. /\ stored \in [Vars -> Values]
        /\ some => stored[v] = top
        /\ ~some => stored[v] = vars[v]
        /\ \A x \in Objects : /\ Count(stored, x) \in Nat
                              /\ Count(stored, x) <= Count(vars, x) + Turn(top, x)
                              /\ vars[v] = Nil => Count(stored, x) = Count(vars, x) + Turn(top, x)
    <2>1. CASE some
      <3>1. stored = [vars EXCEPT ![v] = Last(m.stk)] /\ top = Last(m.stk)
        BY <2>1
      <3>2. top \in Values
        BY <1>7
      <3> HIDE DEF top, stored, v
      <3>3. /\ stored \in [Vars -> Values] /\ stored[v] = top
            /\ \A w \in Vars \ {v} : stored[w] = vars[w]
        BY <1>1, <3>1, <3>2
      <3>4. /\ stored \in [Vars -> Values]
            /\ \A x : Count(stored, x) = Count(vars, x) - Turn(vars[v], x) + Turn(top, x)
            /\ \A x : Turn(vars[v], x) <= Count(vars, x)
        BY <1>1, <3>2, <3>3, VarsUpdate
      <3>5. stored[v] = top
        BY <3>3
      <3>6. ASSUME NEW x \in Objects
            PROVE  /\ Count(stored, x) \in Nat
                   /\ Count(stored, x) <= Count(vars, x) + Turn(top, x)
                   /\ vars[v] = Nil => Count(stored, x) = Count(vars, x) + Turn(top, x)
        <4>1. Turn(vars[v], x) \in Nat /\ Turn(top, x) \in Nat /\ Count(vars, x) \in Nat
          BY <1>6 DEF Turn
        <4>2. vars[v] = Nil => Turn(vars[v], x) = 0
          BY IndexAssumption DEF Turn
        <4> QED
          BY <3>4, <4>1, <4>2
      <3> QED
        BY <2>1, <3>4, <3>5, <3>6
    <2>2. CASE ~some
      <3>1. stored = vars /\ top = Nil
        BY <2>2
      <3>2. \A x \in Objects : Turn(top, x) = 0
        BY <3>1, IndexAssumption DEF Turn
      <3> HIDE DEF top, stored, v
      <3>3. \A x \in Objects : /\ Count(vars, x) <= Count(vars, x) + Turn(top, x)
                               /\ Count(vars, x) = Count(vars, x) + Turn(top, x)
        BY <1>6, <3>2
      <3> QED
        BY <1>1, <1>6, <2>2, <3>1, <3>3
    <2> QED
      BY <2>1, <2>2
  <1> HIDE DEF pulled, left
  <1>10. ASSUME Reads(next), vars' = stored,
                Becomes(GotVar(pulled, offset, stored[v], next.where))
         PROVE  \E n :
            /\ Became(m, n) /\ heap' = n.heap /\ stk' = n.stk
            /\ vars' \in [Vars -> Values]
            /\ \A x \in Objects : /\ Spare(n, x) - Count(vars', x)
                                        >= Spare(m, x) - Count(vars, x) - Turn(q, x)
                                  /\ Reads(next) /\ vars[next.var] = Nil
                                        => Spare(n, x) - Count(vars', x)
                                                = Spare(m, x) - Count(vars, x)
    <2> DEFINE n == GotVar(pulled, offset, stored[v], next.where)
    <2>1. next.where \in Wheres /\ q = Nil
      BY <1>10 DEF IsAwaited, Reads
    <2>2. stored[v] \in Values /\ offset <= Len(pulled.stk)
      BY <1>1, <1>7, <1>8, <1>9
    <2>3. stored[v] # Nil => pulled.heap[stored[v]].type # Vacant
      <3>1. CASE some
        BY <1>4, <1>8, <1>9, <3>1
      <3>2. CASE ~some /\ vars[v] # Nil
        <4>1. vars[v] \in Objects
          BY <1>1, <3>2 DEF Values
        <4>2. Turn(vars[v], vars[v]) <= Count(vars, vars[v])
          <5>1. Nil \in Values
            BY DEF Values
          <5> HIDE DEF v
          <5> QED
            BY <1>1, <5>1, VarsUpdate
        <4>3. Turn(vars[v], vars[v]) = 1
          BY DEF Turn
        <4> HIDE DEF v
        <4>4. Spare(m, vars[v]) >= Count(vars, vars[v])
          BY <4>1
        <4>5. Spare(m, vars[v]) \in Int /\ Count(vars, vars[v]) \in Nat
          BY <1>6, <4>1
        <4>6. Spare(m, vars[v]) >= 1
          BY <4>2, <4>3, <4>4, <4>5
        <4> QED
          BY <1>8, <1>9, <3>2, <4>1, <4>6, SpareIsLive
      <3> QED
        BY <1>9, <3>1, <3>2
    <2>4. /\ Became(pulled, n)
          /\ \A x \in Objects : Spare(n, x) = Spare(pulled, x)
      BY <1>8, <2>1, <2>2, <2>3, GotVarFits
    <2>5. heap' = n.heap /\ stk' = n.stk
      BY <1>10 DEF Becomes
    <2> HIDE DEF n, stored, top
    <2>6. Became(m, n)
      BY <1>8, <2>4 DEF Became
    <2>7. vars' \in [Vars -> Values]
      BY <1>9, <1>10
    <2>8. ASSUME NEW x \in Objects
          PROVE  /\ Spare(n, x) - Count(vars', x) >= Spare(m, x) - Count(vars, x) - Turn(q, x)
                 /\ vars[v] = Nil => Spare(n, x) - Count(vars', x) = Spare(m, x) - Count(vars, x)
      <3>1. Turn(q, x) = 0 /\ Turn(top, x) \in Nat
        BY <2>1, IndexAssumption DEF Turn
      <3>2. Count(vars', x) = Count(stored, x)
        BY <1>10
      <3>3. /\ Count(stored, x) \in Nat
            /\ Count(stored, x) <= Count(vars, x) + Turn(top, x)
            /\ vars[v] = Nil => Count(stored, x) = Count(vars, x) + Turn(top, x)
        BY <1>9
      <3>4. Spare(n, x) = Spare(m, x) + Turn(top, x)
        BY <1>8, <2>4
      <3>5. Spare(m, x) \in Int /\ Count(vars, x) \in Nat
        BY <1>6
      <3> QED
        BY <3>1, <3>2, <3>3, <3>4, <3>5
    <2> QED
      BY <2>5, <2>6, <2>7, <2>8
  <1>11. ASSUME ~Reads(next), vars' = [stored EXCEPT ![v] = next.value], Becomes(pulled)
         PROVE  \E n :
            /\ Became(m, n) /\ heap' = n.heap /\ stk' = n.stk
            /\ vars' \in [Vars -> Values]
            /\ \A x \in Objects : /\ Spare(n, x) - Count(vars', x)
                                        >= Spare(m, x) - Count(vars, x) - Turn(q, x)
                                  /\ Reads(next) /\ vars[next.var] = Nil
                                        => Spare(n, x) - Count(vars', x)
                                                = Spare(m, x) - Count(vars, x)
    <2>1. next.value \in Objects /\ q = next.value
      BY <1>11 DEF IsAwaited, Reads
    <2>2. heap' = pulled.heap /\ stk' = pulled.stk
      BY <1>11 DEF Becomes
    <2>3. Became(m, pulled)
      BY <1>8, FadesSame DEF Became
    <2> HIDE DEF stored, top
    <2>4. /\ q \in Values /\ vars' \in [Vars -> Values] /\ vars'[v] = q
          /\ \A w \in Vars \ {v} : vars'[w] = stored[w]
      <3>1. q \in Values /\ vars' = [stored EXCEPT ![v] = q]
        BY <1>11, <2>1 DEF Values
      <3> QED
        BY <1>1, <1>9, <3>1
    <2>5. /\ vars' \in [Vars -> Values]
          /\ \A x : Count(vars', x) = Count(stored, x) - Turn(stored[v], x) + Turn(q, x)
      BY <1>1, <1>9, <2>4, VarsUpdate
    <2>6. ASSUME NEW x \in Objects
          PROVE  Spare(pulled, x) - Count(vars', x)
                    >= Spare(m, x) - Count(vars, x) - Turn(q, x)
      <3>1. Turn(q, x) \in Nat /\ Turn(stored[v], x) \in Nat /\ Turn(top, x) \in Nat
        BY DEF Turn
      <3>2. /\ Count(stored, x) \in Nat
            /\ Count(stored, x) <= Count(vars, x) + Turn(top, x)
        BY <1>9
      <3>3. Spare(pulled, x) = Spare(m, x) + Turn(top, x)
        BY <1>8
      <3>4. Spare(m, x) \in Int /\ Count(vars, x) \in Nat
        BY <1>6
      <3>5. Count(vars', x) = Count(stored, x) - Turn(stored[v], x) + Turn(q, x)
        BY <2>5
      <3> QED
        BY <3>1, <3>2, <3>3, <3>4, <3>5
    <2> QED
      BY <1>11, <2>2, <2>3, <2>5, <2>6
  <1> QED
    BY <1>2, <1>10, <1>11

\* The vars change, and the last frame goes or stays.
LEMMA VarClaims ==
  ASSUME Owned, UNCHANGED <<host, frames>>, vars' \in [Vars -> Values]
  PROVE  /\ OwnerTypes(host, vars, frames)'
         /\ \A x \in Objects : Claims(host, vars, frames, x)'
                = Claims(host, vars, frames, x) - Count(vars, x) + Count(vars', x)
  <1>1. OwnerTypes(host, vars, frames)
    BY DEF Owned
  <1>2. OwnerTypes(host, vars', frames)
    BY <1>1 DEF OwnerTypes
  <1>3. ASSUME NEW x \in Objects
        PROVE  Claims(host, vars', frames, x)
                = Claims(host, vars, frames, x) - Count(vars, x) + Count(vars', x)
    <2>1. /\ host[x] \in Nat /\ Count(vars, x) \in Nat /\ FramesClaim(frames, x) \in Nat
          /\ Claims(host, vars, frames, x) = host[x] + Count(vars, x) + FramesClaim(frames, x)
      BY <1>1, ClaimsType
    <2>2. /\ Count(vars', x) \in Nat
          /\ Claims(host, vars', frames, x) = host[x] + Count(vars', x) + FramesClaim(frames, x)
      BY <1>2, ClaimsType
    <2> QED
      BY <2>1, <2>2
  <1> QED
    BY <1>2, <1>3

\* When the last frame goes, so does what it owned.
LEMMA LeftClaims ==
  ASSUME OwnInv, UNCHANGED host, frames' = Front(frames), vars' \in [Vars -> Values]
  PROVE  /\ OwnerTypes(host, vars, frames)'
         /\ \A x \in Objects : Claims(host, vars, frames, x)'
                = Claims(host, vars, frames, x) - Count(vars, x) + Count(vars', x)
                    - FrameClaim(Frame, x)
  <1>1. OwnerTypes(host, vars, frames)
    BY DEF Owned, OwnInv
  <1>2. PICK S : frames \in Seq(S)
    BY <1>1 DEF OwnerTypes
  <1>3. /\ frames # <<>> /\ \A k \in 1..Len(frames) : FrameOwns(frames[k])
    BY DEF OwnInv, FramesInv, Owned, OwnerTypes
  <1> DEFINE gr == Front(frames)
  <1>4. /\ gr \in Seq(S) /\ FrameOwns(Frame)
        /\ \A k \in 1..Len(gr) : FrameOwns(gr[k])
        /\ \A x : FramesClaim(frames, x) = FramesClaim(gr, x) + FrameClaim(Frame, x)
    BY <1>2, <1>3, FramesCut DEF Frame
  <1>5. gr = frames'
    OBVIOUS
  <1> HIDE DEF gr
  <1>6. OwnerTypes(host, vars', gr)
    BY <1>1, <1>4 DEF OwnerTypes
  <1>7. ASSUME NEW x \in Objects
        PROVE  Claims(host, vars', gr, x)
                = Claims(host, vars, frames, x) - Count(vars, x) + Count(vars', x)
                    - FrameClaim(Frame, x)
    <2>1. /\ host[x] \in Nat /\ Count(vars, x) \in Nat /\ FramesClaim(frames, x) \in Nat
          /\ Claims(host, vars, frames, x) = host[x] + Count(vars, x) + FramesClaim(frames, x)
      BY <1>1, ClaimsType
    <2>2. /\ Count(vars', x) \in Nat /\ FramesClaim(gr, x) \in Nat
          /\ Claims(host, vars', gr, x) = host[x] + Count(vars', x) + FramesClaim(gr, x)
      BY <1>6, ClaimsType
    <2>3. FrameClaim(Frame, x) \in Nat
      BY <1>4, PendingType
    <2>4. FramesClaim(frames, x) = FramesClaim(gr, x) + FrameClaim(Frame, x)
      BY <1>4
    <2> QED
      BY <2>1, <2>2, <2>3, <2>4
  <1>8. OwnerTypes(host, vars, frames)'
    BY <1>5, <1>6
  <1> QED
    BY <1>5, <1>7, <1>8

\* _endCall: the return value is put, or released.
LEMMA ReturnedFits ==
  ASSUME OwnInv, NEW offset \in Nat, offset <= Floor(Frame)
  PROVE  LET m == Returned(offset)
         IN /\ Became(Machine, m) /\ offset <= Len(m.stk)
            /\ \A x \in Objects : Spare(m, x) = Spare(Machine, x) - Turn(Frame.returnValue, x)
  <1> DEFINE l == Popped(Machine, Locals)
             o == Frame.returnValue
             d == Popped(l, Frame.dummies)
             a == Popped(l, Frame.args)
             n == Returned(offset)
  <1>1. /\ Frame.localsOffset \in Nat /\ Frame.args \in Nat /\ Frame.dummies \in Nat
        /\ Frame.dummies <= Frame.args /\ Frame.args <= Frame.localsOffset
        /\ offset <= Frame.localsOffset - Frame.args /\ Frame.returnTo \in Wheres
    BY FrameFacts DEF IsFrame, Floor, OwnInv
  <1>2. /\ Owned /\ FitMachine(Machine) /\ Machine.heap = heap /\ Machine.stk = stk
        /\ Machine.ok = TRUE /\ stk \in Seq(Objects)
        /\ \A x \in Objects : Spare(Machine, x) \in Int /\ Spare(Machine, x) >= 0
    BY OwnFacts DEF OwnInv, FitMachine
  <1>3. /\ Locals \in Nat /\ Locals = Len(stk) - Frame.localsOffset /\ Len(stk) \in Nat
        /\ Frame.localsOffset <= Len(stk)
    BY FrameFacts DEF OwnInv
  <1>4. /\ Follows(Machine, l, TRUE) /\ Len(l.stk) = Frame.localsOffset
        /\ \A x \in Objects : Spare(l, x) = Spare(Machine, x)
    <2> DEFINE k == Len(stk) - Locals
    <2>1. Locals \in 0..Len(Machine.stk)
      BY <1>1, <1>2, <1>3
    <2>2. /\ Follows(Machine, l, Machine.ok) /\ l.stk = SubSeq(stk, 1, k)
          /\ \A x \in Objects : Spare(l, x) = Spare(Machine, x)
      BY <1>2, <2>1, PoppedFits
    <2>3. k \in 0..Len(stk) /\ k = Frame.localsOffset
      BY <1>1, <1>3
    <2> HIDE DEF k, l
    <2>4. Len(l.stk) = k
      BY <1>2, <2>2, <2>3
    <2> QED
      BY <1>2, <2>2, <2>3, <2>4
  <1> HIDE DEF l
  <1>5. ASSUME NEW k \in Nat, k <= Frame.args
        PROVE  /\ Follows(l, Popped(l, k), TRUE) /\ offset <= Len(Popped(l, k).stk)
               /\ \A x \in Objects : Spare(Popped(l, k), x) = Spare(Machine, x)
    <2> DEFINE p == Popped(l, k)
               j == Len(l.stk) - k
    <2>1. k \in 0..Len(l.stk) /\ j \in 0..Len(l.stk) /\ offset <= j
      BY <1>1, <1>4, <1>5
    <2>2. FitMachine(l) /\ l.ok = TRUE /\ l.stk \in Seq(Objects)
      BY <1>4 DEF Follows, FitMachine
    <2>3. /\ Follows(l, p, l.ok) /\ p.stk = SubSeq(l.stk, 1, j)
          /\ \A x \in Objects : Spare(p, x) = Spare(l, x)
      BY <2>1, <2>2, PoppedFits
    <2> HIDE DEF p, j
    <2>4. Len(p.stk) = j
      BY <2>1, <2>2, <2>3
    <2> QED
      BY <1>4, <2>1, <2>2, <2>3, <2>4 DEF p
  <1>6. /\ Follows(l, d, TRUE) /\ offset <= Len(d.stk)
        /\ \A x \in Objects : Spare(d, x) = Spare(Machine, x)
    BY <1>1, <1>5
  <1>7. /\ Follows(l, a, TRUE) /\ offset <= Len(a.stk)
        /\ \A x \in Objects : Spare(a, x) = Spare(Machine, x)
    <2>1. Frame.args \in Nat /\ Frame.args <= Frame.args
      BY <1>1
    <2> QED
      BY <1>5, <2>1
  <1>8. Fades(heap, l.heap) /\ Fades(heap, d.heap) /\ Fades(heap, a.heap)
    BY <1>2, <1>4, <1>6, <1>7, FadesOn DEF Follows
  <1>9. o \in Values
    BY BoundIsClaimed
  <1>10. o # Nil => o \in Objects /\ Spare(Machine, o) >= 1
    <2> SUFFICES ASSUME o # Nil PROVE o \in Objects /\ Spare(Machine, o) >= 1
      OBVIOUS
    <2>1. o \in Objects
      BY <1>9 DEF Values
    <2>2. /\ host[o] \in Nat /\ Count(vars, o) \in Nat
          /\ Claims(host, vars, frames, o) = host[o] + Count(vars, o) + FramesClaim(frames, o)
      BY <1>2, <2>1, ClaimsType DEF Owned
    <2>3. /\ FramesClaim(frames, o) \in Nat
          /\ Turn(o, o) + Turn(Pending(Frame), o) <= FramesClaim(frames, o)
      BY <2>1, BoundIsClaimed
    <2>4. Turn(o, o) = 1 /\ Turn(Pending(Frame), o) \in Nat
      BY DEF Turn
    <2>5. Claims(host, vars, frames, o) >= 1
      BY <2>2, <2>3, <2>4
    <2> QED
      BY <1>2, <2>1, <2>5, ClaimedIsSpare
  <1>11. \/ o = Nil /\ n = [d EXCEPT !.ok = FALSE]
         \/ o # Nil /\ n = [ReleasedIn(d, <<o>>) EXCEPT !.ok = FALSE]
         \/ o # Nil /\ n = PutIn(a, offset, Frame.returnTo, o, "take")
    BY Zenon DEF Returned, l
  <1>12. offset <= Len(n.stk)
    BY ReturnedKeeps DEF MachineKeeps, Keeps, OwnInv
  <1> HIDE DEF n, d, a, o
  <1>13. CASE o = Nil /\ n = [d EXCEPT !.ok = FALSE]
    <2>1. FitMachine(d)
      BY <1>6 DEF Follows
    <2>2. /\ Follows(d, n, FALSE) /\ n.heap = d.heap
          /\ \A x \in Objects : Spare(n, x) = Spare(d, x)
      BY <1>13, <2>1, OkFits
    <2>3. \A x \in Objects : Turn(o, x) = 0
      BY <1>13, IndexAssumption DEF Turn
    <2>4. \A x \in Objects : Spare(n, x) = Spare(Machine, x) - Turn(o, x)
      BY <1>2, <1>6, <2>2, <2>3
    <2> QED
      BY <1>2, <1>8, <1>12, <2>2, <2>4 DEF Follows, Became, n, o
  <1>14. CASE o # Nil /\ n = [ReleasedIn(d, <<o>>) EXCEPT !.ok = FALSE]
    <2> DEFINE r == ReleasedIn(d, <<o>>)
    <2>1. o \in Objects /\ Spare(d, o) >= 1 /\ FitMachine(d)
      BY <1>6, <1>10, <1>14 DEF Follows
    <2>2. /\ Follows(d, r, d.ok)
          /\ \A x \in Objects : Spare(r, x) = Spare(d, x) - Turn(o, x)
      BY <2>1, OneReleasedFits
    <2>3. n = [r EXCEPT !.ok = FALSE]
      BY <1>14
    <2> HIDE DEF r
    <2>4. FitMachine(r)
      BY <2>2 DEF Follows
    <2>5. /\ Follows(r, n, FALSE) /\ n.heap = r.heap
          /\ \A x \in Objects : Spare(n, x) = Spare(r, x)
      BY <2>3, <2>4, OkFits
    <2>6. \A x \in Objects : Spare(n, x) = Spare(Machine, x) - Turn(o, x)
      BY <1>6, <2>2, <2>5
    <2>7. Fades(heap, n.heap)
      BY <1>8, <2>2, <2>5, FadesOn DEF Follows
    <2> QED
      BY <1>2, <1>12, <2>5, <2>6, <2>7 DEF Follows, Became, n, o
  <1>15. CASE o # Nil /\ n = PutIn(a, offset, Frame.returnTo, o, "take")
    <2> DEFINE policy == "take"
               where == Frame.returnTo
    <2>1. o \in Objects /\ Spare(a, o) >= 1
      BY <1>7, <1>10, <1>15
    <2>2. IsPolicy(policy) /\ ~Lends(policy) /\ Puttable(a, o, policy)
      BY <2>1 DEF IsPolicy, Lends, Puttable
    <2>3. \A b, x : Cost(policy, b, o, x) = Turn(o, x)
      BY DEF Cost
    <2>4. n = PutIn(a, offset, where, o, policy)
      BY <1>15
    <2>5. where \in Wheres /\ FitMachine(a) /\ a.ok = TRUE /\ offset <= Len(a.stk)
      BY <1>1, <1>7 DEF Follows
    <2> HIDE DEF policy, where
    <2>6. /\ Became(a, n)
          /\ \A x \in Objects : Spare(n, x) = Spare(a, x) - Cost(policy, n.ok, o, x)
      <3> DEFINE p == PutIn(a, offset, where, o, policy)
      <3>1. /\ Became(a, p)
            /\ \A x \in Objects : Spare(p, x) = Spare(a, x) - Cost(policy, p.ok, o, x)
        BY <2>1, <2>2, <2>5, PutInFits
      <3> QED
        BY <2>4, <3>1
    <2>7. \A x \in Objects : Spare(n, x) = Spare(Machine, x) - Turn(o, x)
      <3> TAKE x \in Objects
      <3>1. Spare(n, x) = Spare(a, x) - Turn(o, x)
        BY <2>3, <2>6
      <3> QED
        BY <1>7, <3>1
    <2>8. Fades(heap, n.heap)
      BY <1>8, <2>6, FadesOn DEF Became
    <2> QED
      BY <1>2, <1>12, <2>6, <2>7, <2>8 DEF Became, n, o
  <1> QED
    BY <1>11, <1>13, <1>14, <1>15

\* A machine that keeps what the vars claim, and lacks k, but for q.
Lacks(m, k, q) ==
    \A x \in Objects :
        /\ Spare(m, x) = Spare(Machine, x) - k[x] + Turn(q, x)
        /\ k[x] + Count(vars, x) <= Claims(host, vars, frames, x)

\* Whatever the vars come to, the other owners claim less by k.
Frees(k) ==
    vars' \in [Vars -> Values] =>
        /\ OwnerTypes(host, vars, frames)'
        /\ \A x \in Objects : Claims(host, vars, frames, x)'
                = Claims(host, vars, frames, x) - Count(vars, x) + Count(vars', x) - k[x]

\* What is left when a call is over, or is not begun, and the var it was for.
LEMMA ResumedOwns ==
  ASSUME Owned, NEW m, FitMachine(m), KeepsTypes(heap, m.heap),
         NEW offset \in Nat, offset <= Len(m.stk),
         NEW next, NEW q, IsAwaited(next, q), Resume(m, offset, next),
         NEW k \in [Objects -> Nat], Lacks(m, k, q), Frees(k)
  PROVE  Kept /\ (Reads(next) /\ vars[next.var] = Nil => Steady)
  <1>1. \A x \in Objects :
            /\ Surplus(x) \in Int /\ Surplus(x) >= 0
            /\ Spare(Machine, x) \in Int /\ Claims(host, vars, frames, x) \in Nat
            /\ Surplus(x) = Spare(Machine, x) - Claims(host, vars, frames, x)
            /\ Count(vars, x) \in Nat /\ k[x] \in Nat /\ Turn(q, x) \in Nat
    BY OwnFacts, ClaimsType DEF Turn, Owned
  <1>2. \A x \in Objects : Spare(m, x) >= Count(vars, x)
    BY <1>1 DEF Lacks
  <1>3. PICK n :
            /\ Became(m, n) /\ heap' = n.heap /\ stk' = n.stk
            /\ vars' \in [Vars -> Values]
            /\ \A x \in Objects : /\ Spare(n, x) - Count(vars', x)
                                        >= Spare(m, x) - Count(vars, x) - Turn(q, x)
                                  /\ Reads(next) /\ vars[next.var] = Nil
                                        => Spare(n, x) - Count(vars', x)
                                                = Spare(m, x) - Count(vars, x)
    BY <1>2, ResumeFits
  <1>4. /\ OwnerTypes(host, vars, frames)'
        /\ \A x \in Objects : Claims(host, vars, frames, x)'
                = Claims(host, vars, frames, x) - Count(vars, x) + Count(vars', x) - k[x]
    BY <1>3 DEF Frees
  <1>5. FitMachine(n) /\ KeepsTypes(heap, n.heap)
    BY <1>3, KeepsTypesOn DEF Became
  <1>6. ASSUME NEW x \in Objects
        PROVE  /\ Spare(n, x) \in Int /\ Claims(host, vars, frames, x)' \in Nat
               /\ Count(vars', x) \in Nat
               /\ Spare(n, x) >= Claims(host, vars, frames, x)'
    <2> DEFINE c == Claims(host, vars, frames, x)'
    <2>1. Spare(n, x) \in Int
      BY <1>5, SpareType DEF FitMachine
    <2>2. c \in Nat /\ Count(vars', x) \in Nat
      BY <1>4, ClaimsType
    <2>3. /\ c = Claims(host, vars, frames, x) - Count(vars, x) + Count(vars', x) - k[x]
          /\ Spare(n, x) - Count(vars', x) >= Spare(m, x) - Count(vars, x) - Turn(q, x)
          /\ Spare(m, x) = Spare(Machine, x) - k[x] + Turn(q, x)
      <3>1. Spare(m, x) = Spare(Machine, x) - k[x] + Turn(q, x)
        BY DEF Lacks
      <3>2. Spare(n, x) - Count(vars', x) >= Spare(m, x) - Count(vars, x) - Turn(q, x)
        BY <1>3, Zenon
      <3>3. c = Claims(host, vars, frames, x) - Count(vars, x) + Count(vars', x) - k[x]
        BY <1>4
      <3> QED
        BY <3>1, <3>2, <3>3
    <2> HIDE DEF c
    <2>4. Spare(n, x) >= c
      <3> DEFINE before == Spare(Machine, x)
                 during == Spare(m, x)
                 after == Spare(n, x)
                 claimed == Claims(host, vars, frames, x)
                 old == Count(vars, x)
                 new == Count(vars', x)
                 fewer == k[x]
                 turn == Turn(q, x)
      <3>1. before \in Int /\ after \in Int
        BY <1>1, <2>1
      <3>2. c \in Nat /\ claimed \in Nat /\ old \in Nat /\ new \in Nat
        BY <1>1, <2>2
      <3>3. fewer \in Nat /\ turn \in Nat /\ before - claimed >= 0
        BY <1>1
      <3>4. /\ c = claimed - old + new - fewer
            /\ after - new >= during - old - turn
            /\ during = before - fewer + turn
        BY <2>3
      <3> HIDE DEF before, during, after, claimed, old, new, fewer, turn
      <3>5. after >= c
        BY <3>1, <3>2, <3>3, <3>4
      <3> QED
        BY <3>5 DEF after
    <2> QED
      BY <2>1, <2>2, <2>4 DEF c
  <1>7. Owned'
    BY <1>3, <1>4, <1>5, <1>6, BecomesOwned
  <1>8. Kept
    BY <1>3, <1>5, <1>7 DEF Kept
  <1>9. ASSUME Reads(next), vars[next.var] = Nil
        PROVE  Steady
    <2>1. \A x \in Objects : Turn(q, x) = 0
      BY <1>9, IndexAssumption DEF IsAwaited, Reads, Turn
    <2>2. ASSUME NEW x \in Objects
          PROVE  Spare(n, x) - Claims(host, vars, frames, x)' = Surplus(x)
      <3> DEFINE c == Claims(host, vars, frames, x)'
      <3>1. /\ c = Claims(host, vars, frames, x) - Count(vars, x) + Count(vars', x) - k[x]
            /\ Spare(n, x) - Count(vars', x) = Spare(m, x) - Count(vars, x)
            /\ Spare(m, x) = Spare(Machine, x) - k[x] + Turn(q, x)
        BY <1>3, <1>4, <1>9 DEF Lacks
      <3>2. c \in Nat /\ Count(vars', x) \in Nat /\ Spare(n, x) \in Int /\ Turn(q, x) = 0
        BY <1>6, <2>1
      <3> HIDE DEF c
      <3>3. /\ Spare(Machine, x) \in Int /\ Claims(host, vars, frames, x) \in Nat
            /\ Surplus(x) = Spare(Machine, x) - Claims(host, vars, frames, x)
            /\ Count(vars, x) \in Nat /\ k[x] \in Nat
        BY <1>1
      <3>4. Spare(m, x) = Spare(Machine, x) - k[x]
        BY <3>1, <3>2, <3>3
      <3>5. Spare(n, x) = Spare(m, x) - Count(vars, x) + Count(vars', x) /\ Spare(m, x) \in Int
        BY <3>1, <3>2, <3>3, <3>4
      <3>6. c = Claims(host, vars, frames, x) - Count(vars, x) + Count(vars', x) - k[x]
        BY <3>1
      <3>7. Spare(n, x) - c = Spare(m, x) - Claims(host, vars, frames, x) + k[x]
        BY <3>2, <3>3, <3>5, <3>6
      <3>8. Spare(n, x) - c = Surplus(x)
        BY <3>3, <3>4, <3>7
      <3> QED
        BY <3>8 DEF c
    <2> QED
      BY <1>3, <1>4, <1>5, <2>2, BecomesSteady
  <1> QED
    BY <1>8, <1>9

\* A call that comes back for a var has what it needs.
LEMMA ThenIsAwaited ==
  ASSUME OwnInv
  PROVE  /\ Frame.then # <<>> => IsAwaited(Frame.then, Pending(Frame))
         /\ Frame.then = <<>> => Pending(Frame) = Nil
         /\ FrameOwns(Frame)
  <1>1. FrameOwns(Frame) /\ IsFrame(Frame)
    BY FrameFacts DEF OwnInv, Owned, OwnerTypes, FramesInv
  <1>2. Frame.then = <<>> => Pending(Frame) = Nil
    BY DEF Pending
  <1>3. ASSUME Frame.then # <<>>
        PROVE  IsAwaited(Frame.then, Pending(Frame))
    BY <1>1, <1>3 DEF IsAwaited, Pending, FrameOwns, IsFrame
  <1> QED
    BY <1>1, <1>2, <1>3

\* The end of a call gives the caller a result, or a var its value.
LEMMA EndCallKept ==
  ASSUME OwnInv, EndCall
  PROVE  /\ Kept
         /\ Frame.then = <<>> \/ (Reads(Frame.then) /\ vars[Frame.then.var] = Nil) => Steady
  <1> DEFINE offset == frames[Len(frames) - 1].localsOffset
             m == Returned(offset)
             q == Pending(Frame)
             k == [x \in Objects |-> FrameClaim(Frame, x)]
  <1>1. /\ ~IsUser /\ frames' = Front(frames) /\ UNCHANGED host
        /\ \/ Frame.then = <<>> /\ Becomes(m) /\ UNCHANGED vars
           \/ Frame.then # <<>> /\ Resume(m, offset, Frame.then)
    BY Zenon DEF EndCall
  <1>2. Owned /\ FramesInv
    BY DEF OwnInv
  <1>3. offset \in Nat /\ offset <= Floor(Frame)
    BY <1>1, <1>2, CallerIsBelow
  <1>4. Machine.heap = heap /\ vars \in [Vars -> Values]
    BY <1>2, OwnFacts DEF OwnerTypes
  <1>5. /\ Became(Machine, m) /\ offset <= Len(m.stk)
        /\ \A x \in Objects : Spare(m, x) = Spare(Machine, x) - Turn(Frame.returnValue, x)
    BY <1>3, ReturnedFits
  <1> HIDE DEF m, offset
  <1>6. FitMachine(m) /\ KeepsTypes(heap, m.heap)
    BY <1>4, <1>5, FadesKeepsTypes DEF Became
  <1>7. /\ k \in [Objects -> Nat]
        /\ \A x \in Objects : /\ k[x] = Turn(Frame.returnValue, x) + Turn(q, x)
                              /\ k[x] = FrameClaim(Frame, x)
    BY ThenIsAwaited, PendingType DEF FrameClaim
  <1>8. \A x \in Objects : /\ Turn(Frame.returnValue, x) \in Nat /\ Turn(q, x) \in Nat
                           /\ Spare(Machine, x) \in Int
    BY <1>2, OwnFacts DEF Turn
  <1>9. \A x \in Objects : k[x] + Count(vars, x) <= Claims(host, vars, frames, x)
    <2> TAKE x \in Objects
    <2>1. /\ host[x] \in Nat /\ Count(vars, x) \in Nat /\ FramesClaim(frames, x) \in Nat
          /\ Claims(host, vars, frames, x) = host[x] + Count(vars, x) + FramesClaim(frames, x)
      BY <1>2, ClaimsType DEF Owned
    <2>2. Turn(Frame.returnValue, x) + Turn(q, x) <= FramesClaim(frames, x)
      BY BoundIsClaimed
    <2> HIDE DEF k, q
    <2> QED
      BY <1>7, <1>8, <2>1, <2>2
  <1>10. Frees(k)
    BY <1>1, <1>7, LeftClaims DEF Frees
  <1> HIDE DEF k
  <1>11. CASE Frame.then = <<>> /\ Becomes(m) /\ UNCHANGED vars
    <2>1. \A x \in Objects : Turn(q, x) = 0
      BY <1>11, ThenIsAwaited, IndexAssumption DEF Turn
    <2>2. heap' = m.heap /\ stk' = m.stk
      BY <1>11 DEF Becomes
    <2>3. ASSUME NEW x \in Objects
          PROVE  Spare(m, x) - Claims(host, vars, frames, x)' = Surplus(x)
      <3> DEFINE c == Claims(host, vars, frames, x)
                 e == Claims(host, vars, frames, x)'
      <3>1. e = c - Count(vars, x) + Count(vars', x) - k[x]
        BY <1>4, <1>10, <1>11 DEF Frees
      <3>2. Count(vars', x) = Count(vars, x)
        BY <1>11
      <3>3. /\ c \in Nat /\ Count(vars, x) \in Nat /\ Surplus(x) = Spare(Machine, x) - c
        BY <1>2, OwnFacts, ClaimsType
      <3>4. k[x] = Turn(Frame.returnValue, x) + 0
        BY <1>7, <2>1
      <3>5. Spare(m, x) = Spare(Machine, x) - Turn(Frame.returnValue, x)
        BY <1>5
      <3>6. Spare(Machine, x) \in Int /\ Turn(Frame.returnValue, x) \in Nat
        BY <1>8
      <3> HIDE DEF c, e
      <3>7. Spare(m, x) - e = Surplus(x)
        BY <3>1, <3>2, <3>3, <3>4, <3>5, <3>6
      <3> QED
        BY <3>7 DEF e
    <2>4. OwnerTypes(host, vars, frames)'
      BY <1>4, <1>10, <1>11 DEF Frees
    <2>5. Steady
      BY <1>2, <1>6, <2>2, <2>3, <2>4, BecomesSteady
    <2> QED
      BY <2>5 DEF Steady, Kept
  <1>12. CASE Frame.then # <<>> /\ Resume(m, offset, Frame.then)
    <2> DEFINE next == Frame.then
    <2>1. IsAwaited(next, q) /\ Resume(m, offset, next)
      BY <1>12, ThenIsAwaited
    <2> HIDE DEF next, q
    <2>2. \A x \in Objects : Spare(m, x) = Spare(Machine, x) - k[x] + Turn(q, x)
      BY <1>5, <1>7, <1>8
    <2>3. Lacks(m, k, q)
      BY <1>9, <2>2 DEF Lacks
    <2>4. Kept /\ (Reads(next) /\ vars[next.var] = Nil => Steady)
      BY <1>2, <1>3, <1>5, <1>6, <1>7, <1>10, <2>1, <2>3, ResumedOwns
    <2> QED
      BY <1>12, <2>4 DEF next
  <1> QED
    BY <1>1, <1>11, <1>12

\* A var waits for its initializer's call, or goes without at the call stack's limit.
LEMMA InitializeKept ==
  ASSUME OwnInv, NEW v \in Vars, NEW below \in Seq(Objects), Frame.localsOffset <= Len(below),
         NEW next, NEW q, next # <<>>, IsAwaited(next, q),
         \A x \in Objects : Count(below, x) + Turn(q, x) = Count(stk, x),
         Initialize(v, below, next)
  PROVE  Kept /\ (Reads(next) /\ vars[next.var] = Nil => Steady)
  <1>1. Owned /\ FramesInv
    BY DEF OwnInv
  <1>2. CASE Len(frames) = MaxCallStack
    <2> DEFINE m == [Machine EXCEPT !.stk = below]
               offset == Frame.localsOffset
               k == [x \in Objects |-> 0]
    <2>1. Resume(m, offset, next) /\ UNCHANGED <<frames, host>>
      BY <1>2, Zenon DEF Initialize
    <2>2. \A x \in Objects :
            /\ Outer(heap, x) \in Int /\ Count(stk, x) \in Nat
            /\ Spare(Machine, x) = Outer(heap, x) - Count(stk, x)
            /\ Spare(Machine, x) >= 0
            /\ Count(below, x) \in Nat /\ Turn(q, x) \in Nat
      BY <1>1, OwnFacts, CountType DEF Turn, FitMachine
    <2>3. m = [heap |-> heap, stk |-> below, ok |-> TRUE]
      <3> DEFINE yes == TRUE
                 whole == Machine
      <3>1. whole = [heap |-> heap, stk |-> stk, ok |-> yes]
        BY DEF Machine
      <3> HIDE DEF yes, whole
      <3>2. [whole EXCEPT !.stk = below] = [heap |-> heap, stk |-> below, ok |-> yes]
        BY <3>1
      <3> QED
        BY <3>2, Zenon DEF yes, whole
    <2>4. m.heap = heap /\ m.stk = below
      BY <2>3
    <2>5. GoodHeap(heap) /\ KeepsTypes(heap, m.heap)
      BY <1>1, <2>4, OwnFacts, FadesSame, FadesKeepsTypes
    <2> HIDE DEF m
    <2>6. \A x \in Objects : /\ Outer(heap, x) >= Count(below, x)
                             /\ Outer(heap, x) - Count(below, x) = Spare(Machine, x) + Turn(q, x)
      BY <2>2
    <2>7. FitMachine(m)
      BY <2>3, <2>5, <2>6, FitParts
    <2>8. /\ k \in [Objects -> Nat] /\ \A x \in Objects : k[x] = 0
      OBVIOUS
    <2> HIDE DEF k
    <2>9. Lacks(m, k, q)
      <3> SUFFICES ASSUME NEW x \in Objects
                   PROVE  /\ Spare(m, x) = Spare(Machine, x) - k[x] + Turn(q, x)
                          /\ k[x] + Count(vars, x) <= Claims(host, vars, frames, x)
        BY DEF Lacks
      <3>1. Spare(m, x) = Spare(Machine, x) + Turn(q, x)
        BY <2>4, <2>6 DEF Spare
      <3>2. /\ host[x] \in Nat /\ Count(vars, x) \in Nat /\ FramesClaim(frames, x) \in Nat
            /\ Claims(host, vars, frames, x) = host[x] + Count(vars, x) + FramesClaim(frames, x)
        BY <1>1, ClaimsType DEF Owned
      <3>3. k[x] = 0 /\ Spare(Machine, x) \in Int /\ Turn(q, x) \in Nat
        BY <2>2, <2>8
      <3> QED
        BY <3>1, <3>2, <3>3
    <2>10. Frees(k)
      <3> SUFFICES ASSUME vars' \in [Vars -> Values]
                   PROVE  /\ OwnerTypes(host, vars, frames)'
                          /\ \A x \in Objects : Claims(host, vars, frames, x)'
                                = Claims(host, vars, frames, x) - Count(vars, x)
                                    + Count(vars', x) - k[x]
        BY DEF Frees
      <3>1. /\ OwnerTypes(host, vars, frames)'
            /\ \A x \in Objects : Claims(host, vars, frames, x)'
                  = Claims(host, vars, frames, x) - Count(vars, x) + Count(vars', x)
        BY <1>1, <2>1, VarClaims
      <3>2. \A x \in Objects : /\ k[x] = 0 /\ Claims(host, vars, frames, x) \in Nat
                               /\ Count(vars, x) \in Nat /\ Count(vars', x) \in Nat
        BY <1>1, <2>8, <3>1, ClaimsType DEF Owned
      <3> QED
        BY <3>1, <3>2
    <2>11. offset \in Nat /\ offset <= Len(m.stk)
      BY <1>1, <2>4, FrameFacts
    <2> HIDE DEF offset
    <2> QED
      BY <1>1, <2>1, <2>5, <2>7, <2>8, <2>9, <2>10, <2>11, ResumedOwns
  <1>3. CASE Len(frames) # MaxCallStack
    <2> DEFINE none == <<>>
               f == Initializer[v]
    <2>1. Enter(f, 0, none, Push, below, next)
      BY <1>3, Zenon DEF Initialize
    <2>2. f \in Functions /\ Len(Signature[f].named) \in Nat
      BY FunctionAssumption
    <2>3. Len(none) \in Nat /\ Len(none) <= Len(Signature[f].named)
      BY <2>2
    <2>4. Awaits(next, q)
      BY DEF IsAwaited, Awaits
    <2> HIDE DEF none, f
    <2>5. Steady
      BY <2>1, <2>2, <2>3, <2>4, EnterSteady
    <2> QED
      BY <2>5 DEF Steady, Kept
  <1> QED
    BY <1>2, <1>3

\* ymCtx_GetVar.
LEMMA GetVarSteady ==
  ASSUME OwnInv, NEW v \in Vars, NEW where \in Wheres, GetVar(v, where)
  PROVE  Steady
  <1>1. Owned /\ FramesInv
    BY DEF OwnInv
  <1>2. CASE Refused
    BY <1>1, <1>2, RefusedSteady
  <1>3. CASE ~Refused /\ vars[v] = Nil
    <2> DEFINE next == [op |-> "get", var |-> v, where |-> where]
    <2>1. Initialize(v, stk, next)
      BY <1>3, Zenon DEF GetVar
    <2>2. next.var = v /\ next.op = "get" /\ next.where = where /\ next # <<>>
      OBVIOUS
    <2> HIDE DEF next
    <2>3. IsAwaited(next, Nil) /\ Reads(next) /\ vars[next.var] = Nil
      BY <1>3, <2>2 DEF IsAwaited, Reads
    <2>4. stk \in Seq(Objects) /\ Frame.localsOffset <= Len(stk)
      BY <1>1, OwnFacts, FrameFacts
    <2>5. \A x \in Objects : Count(stk, x) + Turn(Nil, x) = Count(stk, x)
      <3> TAKE x \in Objects
      <3>1. Turn(Nil, x) = 0 /\ Count(stk, x) \in Nat
        BY <2>4, CountType, IndexAssumption DEF Turn
      <3> QED
        BY <3>1
    <2> QED
      BY <2>1, <2>2, <2>3, <2>4, <2>5, InitializeKept
  <1>4. CASE ~Refused /\ vars[v] # Nil
    <2> DEFINE offset == Frame.localsOffset
               o == vars[v]
               n == GotVar(Machine, offset, o, where)
    <2>1. Becomes(n) /\ UNCHANGED <<frames, vars, host>>
      BY <1>4, Zenon DEF GetVar
    <2>2. /\ FitMachine(Machine) /\ Machine.heap = heap /\ Machine.stk = stk
          /\ Machine.ok = TRUE /\ vars \in [Vars -> Values]
      BY <1>1, OwnFacts DEF OwnerTypes
    <2>3. offset \in Nat /\ offset <= Len(stk)
      BY <1>1, FrameFacts
    <2>4. o \in Values /\ o \in Objects
      BY <1>4, <2>2 DEF Values
    <2>5. Machine.heap[o].type # Vacant
      <3>1. Turn(vars[v], o) <= Count(vars, o)
        BY <2>2, <2>4, VarsUpdate
      <3>2. Turn(vars[v], o) = 1
        BY DEF Turn
      <3>3. /\ host[o] \in Nat /\ Count(vars, o) \in Nat /\ FramesClaim(frames, o) \in Nat
            /\ Claims(host, vars, frames, o) = host[o] + Count(vars, o) + FramesClaim(frames, o)
        BY <1>1, <2>4, ClaimsType DEF Owned
      <3> HIDE DEF o
      <3>4. Claims(host, vars, frames, o) >= 1
        BY <3>1, <3>2, <3>3
      <3> QED
        BY <1>1, <2>2, <2>4, <3>4, ClaimedIsSpare, SpareIsLive
    <2> HIDE DEF o, offset
    <2>6. /\ Became(Machine, n)
          /\ \A x \in Objects : Spare(n, x) = Spare(Machine, x)
      BY <2>2, <2>3, <2>4, <2>5, GotVarFits
    <2>7. heap' = n.heap /\ stk' = n.stk
      BY <2>1 DEF Becomes
    <2> HIDE DEF n
    <2>8. FitMachine(n) /\ KeepsTypes(heap, n.heap)
      BY <2>2, <2>6, FadesKeepsTypes DEF Became
    <2> QED
      BY <1>1, <2>1, <2>6, <2>7, <2>8, KeepingSteady
  <1> QED
    BY <1>2, <1>3, <1>4

\* ymCtx_SetVar: the var's old value is not released.
LEMMA SetVarKept ==
  ASSUME OwnInv, NEW v \in Vars, SetVar(v)
  PROVE  Kept
  <1>1. Owned /\ FramesInv
    BY DEF OwnInv
  <1>2. CASE Refused
    BY <1>1, <1>2, RefusedSteady DEF Steady, Kept
  <1>3. ASSUME ~Refused PROVE Kept
    <2> DEFINE o == Last(stk)
    <2>1. /\ Locals # 0
          /\ \/ /\ vars[v] = Nil
                /\ Initialize(v, Front(stk), [op |-> "set", var |-> v, value |-> o])
             \/ /\ vars' = [vars EXCEPT ![v] = o]
                /\ Becomes([Machine EXCEPT !.stk = Front(stk)])
                /\ UNCHANGED <<frames, host>>
      BY <1>3, Zenon DEF SetVar
    <2>2. o \in Objects /\ stk # <<>> /\ stk \in Seq(Objects)
      BY <1>1, <2>1, TopIsLocal, OwnFacts
    <2>3. /\ Front(stk) \in Seq(Objects) /\ stk = Append(Front(stk), o)
          /\ Frame.localsOffset <= Len(Front(stk))
      BY <2>1, <2>2, TopIsLocal, FrontAppended
    <2>4. \A x \in Objects : Count(Front(stk), x) + Turn(o, x) = Count(stk, x)
      BY <2>2, <2>3, CountAppend
    <2> HIDE DEF o
    <2>5. CASE Initialize(v, Front(stk), [op |-> "set", var |-> v, value |-> o])
      <3> DEFINE next == [op |-> "set", var |-> v, value |-> o]
                 below == Front(stk)
      <3>1. next.var = v /\ next.op = "set" /\ next.value = o /\ next # <<>>
        OBVIOUS
      <3>2. Initialize(v, below, next) /\ below \in Seq(Objects)
            /\ Frame.localsOffset <= Len(below)
            /\ \A x \in Objects : Count(below, x) + Turn(o, x) = Count(stk, x)
        BY <2>3, <2>4, <2>5
      <3> HIDE DEF next, below
      <3>3. IsAwaited(next, o)
        BY <2>2, <3>1 DEF IsAwaited
      <3> QED
        BY <3>1, <3>2, <3>3, InitializeKept
    <2>6. CASE /\ vars' = [vars EXCEPT ![v] = o]
               /\ Becomes([Machine EXCEPT !.stk = Front(stk)])
               /\ UNCHANGED <<frames, host>>
      <3> DEFINE n == [Machine EXCEPT !.stk = Front(stk)]
      <3>1. heap' = n.heap /\ stk' = n.stk
        BY <2>6 DEF Becomes
      <3>2. /\ FitMachine(n) /\ n.heap = heap
            /\ \A x \in Objects : Spare(n, x) = Spare(Machine, x) + Turn(o, x)
        BY <2>1, FrontMachine DEF o
      <3> HIDE DEF n
      <3>3. KeepsTypes(heap, n.heap)
        BY <3>2, FadesSame, FadesKeepsTypes
      <3>4. /\ vars \in [Vars -> Values] /\ o \in Values
            /\ vars' \in [Vars -> Values] /\ vars'[v] = o
            /\ \A w \in Vars \ {v} : vars'[w] = vars[w]
        BY <1>1, <2>2, <2>6 DEF Values, Owned, OwnerTypes
      <3>5. /\ \A x : Count(vars', x) = Count(vars, x) - Turn(vars[v], x) + Turn(o, x)
        BY <3>4, VarsUpdate
      <3>6. /\ OwnerTypes(host, vars, frames)'
            /\ \A x \in Objects : Claims(host, vars, frames, x)'
                  = Claims(host, vars, frames, x) - Count(vars, x) + Count(vars', x)
        BY <1>1, <2>6, <3>4, VarClaims
      <3>7. ASSUME NEW x \in Objects PROVE Spare(n, x) >= Claims(host, vars, frames, x)'
        <4> DEFINE c == Claims(host, vars, frames, x)'
        <4>1. /\ Surplus(x) \in Int /\ Surplus(x) >= 0 /\ Spare(Machine, x) \in Int
              /\ Claims(host, vars, frames, x) \in Nat
              /\ Surplus(x) = Spare(Machine, x) - Claims(host, vars, frames, x)
          BY <1>1, OwnFacts
        <4>2. /\ Count(vars, x) \in Nat /\ Turn(vars[v], x) \in Nat /\ Turn(o, x) \in Nat
          BY <1>1, ClaimsType DEF Turn, Owned
        <4>3. /\ c = Claims(host, vars, frames, x) - Count(vars, x) + Count(vars', x)
              /\ Count(vars', x) = Count(vars, x) - Turn(vars[v], x) + Turn(o, x)
              /\ Spare(n, x) = Spare(Machine, x) + Turn(o, x)
          BY <3>2, <3>5, <3>6
        <4> HIDE DEF c
        <4>4. c = Claims(host, vars, frames, x) - Turn(vars[v], x) + Turn(o, x)
          BY <4>1, <4>2, <4>3
        <4>5. Spare(n, x) >= c
          BY <4>1, <4>2, <4>3, <4>4
        <4> QED
          BY <4>5 DEF c
      <3> QED
        BY <3>1, <3>2, <3>3, <3>6, <3>7, BecomesOwned DEF Kept
    <2> QED
      BY <2>1, <2>5, <2>6
  <1> QED
    BY <1>2, <1>3

--------------------------------------------------------------------------------
(* The end of a context, and its start *)

NoHeap == [o \in Objects |-> Nothing]
NoMachine == [heap |-> NoHeap, stk |-> <<>>, ok |-> TRUE]
NoHost == [o \in Objects |-> 0]
NoVars == [v \in Vars |-> Nil]

\* A heap of nothing is sound.
LEMMA NoHeapIsLoose ==
  Loose(NoHeap) /\ \A o \in Objects : Outer(NoHeap, o) = 0 /\ NoHeap[o].type = Vacant
  <1> DEFINE h == NoHeap
  <1>1. \A o \in Objects : h[o] = Nothing
    BY DEF NoHeap
  <1>2. h \in Heaps
    BY DEF NoHeap, Nothing, Heaps
  <1> HIDE DEF h
  <1>3. ASSUME NEW o \in Objects
        PROVE  /\ h[o].type = Vacant /\ h[o].refs = 0 /\ h[o].slots = <<>>
               /\ Outer(h, o) = 0 /\ WellFormed(h, o)
    <2>1. \A p \in Objects : h[p].type = Vacant /\ h[p].refs = 0 /\ h[p].slots = <<>>
      BY <1>1 DEF Nothing
    <2>2. SlotsOf(h, Objects, {o}) = {}
      <3>1. \A p \in Objects : DOMAIN h[p].slots = {}
        BY <2>1
      <3> QED
        BY <3>1 DEF SlotsOf, Hits
    <2>3. Held(h, o) = 0
      BY <2>2, FS_EmptySet DEF Held, InSlots
    <2>4. WellFormed(h, o)
      BY <2>1, TypesAssumption, Zenon DEF WellFormed, Types
    <2> QED
      BY <2>1, <2>3, <2>4 DEF Outer
  <1>4. SoundHeap(h)
    BY <1>1, <1>2, <1>3 DEF SoundHeap
  <1>5. GoodHeap(h)
    BY <1>3, <1>4 DEF GoodHeap
  <1> QED
    BY <1>3, <1>5 DEF Loose, h

\* With an empty stack it is fit, and nothing is spare there.
LEMMA NoMachineIsFit ==
  /\ FitMachine(NoMachine) /\ NoMachine.heap = NoHeap /\ NoMachine.stk = <<>>
  /\ \A o \in Objects : Spare(NoMachine, o) = 0
  <1> DEFINE m == NoMachine
             h == NoHeap
             s == <<>>
  <1>1. m = [heap |-> h, stk |-> s, ok |-> TRUE] /\ m.heap = h /\ m.stk = s
    BY DEF NoMachine
  <1>2. GoodHeap(h) /\ s \in Seq(Objects) /\ \A o \in Objects : Outer(h, o) = 0
    BY NoHeapIsLoose DEF Loose
  <1>3. \A o \in Objects : Count(s, o) = 0
    BY <1>2, CountType
  <1> HIDE DEF m, h, s
  <1>4. \A o \in Objects : Outer(h, o) >= Count(s, o)
    BY <1>2, <1>3
  <1>5. FitMachine(m)
    BY <1>1, <1>2, <1>4, FitParts
  <1>6. \A o \in Objects : Spare(m, o) = 0
    BY <1>1, <1>2, <1>3 DEF Spare
  <1> QED
    BY <1>1, <1>5, <1>6 DEF m, h, s

\* Nor is anything claimed by a host without references, empty vars and the user frame.
LEMMA NothingClaimed ==
  LET fr == <<UserFrame>>
  IN /\ OwnerTypes(NoHost, NoVars, fr)
     /\ \A o \in Objects : Claims(NoHost, NoVars, fr, o) = 0
  <1> DEFINE fr == <<UserFrame>>
  <1>1. UserFrame.returnValue = Nil /\ UserFrame.then = <<>>
    BY DEF UserFrame
  <1>2. FrameOwns(UserFrame) /\ Pending(UserFrame) = Nil
    BY <1>1 DEF FrameOwns, Pending, Values
  <1> HIDE DEF UserFrame
  <1>3. /\ fr \in Seq({UserFrame}) /\ Len(fr) = 1 /\ fr[1] = UserFrame
        /\ \A k \in 1..Len(fr) : fr[k] = UserFrame
    OBVIOUS
  <1> HIDE DEF fr
  <1>4. OwnerTypes(NoHost, NoVars, fr)
    BY <1>2, <1>3 DEF OwnerTypes, NoHost, NoVars, Values
  <1>5. ASSUME NEW o \in Objects
        PROVE  Claims(NoHost, NoVars, fr, o) = 0
    <2>1. o # Nil
      BY IndexAssumption
    <2>2. /\ Rets(fr) \in Seq(Values) /\ Pendings(fr) \in Seq(Values)
          /\ Len(Rets(fr)) = Len(fr) /\ Len(Pendings(fr)) = Len(fr)
          /\ \A k \in 1..Len(fr) : /\ Rets(fr)[k] = fr[k].returnValue
                                   /\ Pendings(fr)[k] = Pending(fr[k])
      BY <1>2, <1>3, FramesType
    <2>3. /\ \A k \in DOMAIN Rets(fr) : Rets(fr)[k] # o
          /\ \A k \in DOMAIN Pendings(fr) : Pendings(fr)[k] # o
      BY <1>1, <1>2, <1>3, <2>1, <2>2
    <2>4. Count(Rets(fr), o) = 0 /\ Count(Pendings(fr), o) = 0
      BY <2>2, <2>3, CountType
    <2>5. Count(NoVars, o) = 0
      <3>1. DOMAIN NoVars = Vars /\ \A v \in Vars : NoVars[v] # o
        BY <2>1 DEF NoVars
      <3>2. \A v \in DOMAIN NoVars : NoVars[v] \notin {o}
        BY <3>1
      <3> QED
        BY <3>1, <3>2, FunctionAssumption, TimesType DEF Count
    <2>6. NoHost[o] = 0
      BY DEF NoHost
    <2> QED
      BY <2>4, <2>5, <2>6 DEF Claims, FramesClaim
  <1> QED
    BY <1>4, <1>5 DEF fr

\* A set listed: each of its elements, once.
LEMMA SetListed ==
  ASSUME NEW S, IsFiniteSet(S), NEW s \in SetToSeqs(S)
  PROVE  /\ s \in [1..Cardinality(S) -> S] /\ Cardinality(S) \in Nat /\ s \in Seq(S)
         /\ IsInjective(s) /\ \A x \in S : \E i \in DOMAIN s : s[i] = x
  <1> DEFINE n == Cardinality(S)
  <1>1. n \in Nat
    BY FS_CardinalityType
  <1>2. s \in [1..n -> S] /\ \A i, j \in 1..n : i # j => s[i] # s[j]
    BY DEF SetToSeqs
  <1>3. IsInjective(s)
    BY <1>2 DEF IsInjective
  <1>4. IsFiniteSet(1..n) /\ Cardinality(1..n) = n
    BY <1>1, FS_Interval
  <1>5. s \in Injection(1..n, S)
    BY <1>2, <1>3 DEF Injection
  <1>6. s \in Surjection(1..n, S)
    BY <1>4, <1>5, FS_Injection
  <1> HIDE DEF n
  <1>7. \A x \in S : \E i \in DOMAIN s : s[i] = x
    BY <1>2, <1>6 DEF Surjection
  <1>8. s \in Seq(S)
    BY <1>1, <1>2
  <1> QED
    BY <1>1, <1>2, <1>3, <1>7, <1>8 DEF n

\* The vars in use, listed, hold what the vars hold.
LEMMA InVarsCounted ==
  ASSUME vars \in [Vars -> Values], NEW inUse \in SetToSeqs({v \in Vars : vars[v] # Nil}),
         NEW inVars, inVars = [i \in DOMAIN inUse |-> vars[inUse[i]]]
  PROVE  inVars \in Seq(Objects) /\ \A x \in Objects : Count(inVars, x) = Count(vars, x)
  <1> DEFINE S == {v \in Vars : vars[v] # Nil}
             n == Cardinality(S)
  <1>1. IsFiniteSet(S)
    BY FunctionAssumption, FS_Subset
  <1>2. /\ inUse \in [1..n -> S] /\ n \in Nat
        /\ IsInjective(inUse) /\ \A v \in S : \E i \in DOMAIN inUse : inUse[i] = v
    BY <1>1, SetListed
  <1>3. \A v \in S : v \in Vars /\ vars[v] \in Objects
    BY DEF Values
  <1>4. \A v \in Vars : vars[v] \in Objects => v \in S
    BY IndexAssumption
  <1> HIDE DEF S, n
  <1>5. inVars \in [1..n -> Objects] /\ \A i \in 1..n : inVars[i] = vars[inUse[i]]
    BY <1>2, <1>3
  <1>6. inVars \in Seq(Objects)
    BY <1>2, <1>5
  <1>7. ASSUME NEW x \in Objects
        PROVE  Count(inVars, x) = Count(vars, x)
    <2> DEFINE A == Hits(inVars, {x})
               B == Hits(vars, {x})
               r == [i \in A |-> inUse[i]]
    <2>1. A = {i \in 1..n : inVars[i] = x} /\ B = {v \in Vars : vars[v] = x}
      BY <1>5 DEF Hits
    <2>2. r \in [A -> B]
      BY <1>2, <1>3, <1>5, <2>1
    <2>3. \A i, j \in A : r[i] = r[j] => i = j
      BY <1>2, <2>1 DEF IsInjective
    <2>4. \A v \in B : \E i \in A : r[i] = v
      <3> TAKE v \in B
      <3>1. v \in S
        BY <1>4, <2>1
      <3>2. PICK i \in 1..n : inUse[i] = v
        BY <1>2, <3>1
      <3>3. i \in A
        BY <1>5, <2>1, <3>2
      <3> QED
        BY <3>2, <3>3
    <2>5. IsFiniteSet(A)
      <3>1. DOMAIN inVars = 1..n /\ IsFiniteSet(1..n)
        BY <1>2, <1>5, FS_Interval
      <3> QED
        BY <3>1, TimesType
    <2> HIDE DEF A, B, r
    <2>6. Cardinality(B) = Cardinality(A)
      BY <2>2, <2>3, <2>4, <2>5, TimesRenamed
    <2> QED
      BY <2>6 DEF Count, Times, A, B
  <1> QED
    BY <1>6, <1>7

Releases == "releases" \in Discipline

\* YmCtx::reset leaves nothing behind, with a host whose last values own no others.
LEMMA DestroyKept ==
  ASSUME OwnInv, Releases, Destroy
  PROVE  /\ Kept /\ stk' = <<>> /\ heap' = NoHeap
         /\ host' = NoHost /\ vars' = NoVars /\ frames' = <<UserFrame>>
  <1> DEFINE m == Popped(Machine, Locals)
  <1>1. PICK inUse \in SetToSeqs({v \in Vars : vars[v] # Nil}) :
            LET inVars == [i \in DOMAIN inUse |-> vars[inUse[i]]]
                left == Live(Released(m.heap, inVars))
            IN /\ "releases" \in Discipline => \A o \in left : heap[o].slots = <<>>
               /\ \E order \in SetToSeqs(left) : heap' = Reset(m, inVars, order)
    BY DEF Destroy
  <1>2. /\ IsUser /\ stk' = m.stk /\ frames' = <<UserFrame>>
        /\ vars' = NoVars /\ host' = NoHost
    BY Zenon DEF Destroy, NoVars, NoHost
  <1> DEFINE inVars == [i \in DOMAIN inUse |-> vars[inUse[i]]]
             g == Released(m.heap, inVars)
  <1>3. /\ \A o \in Live(g) : heap[o].slots = <<>>
        /\ \E order \in SetToSeqs(Live(g)) : heap' = DropAll[<<g, order>>]
    BY <1>1, Zenon DEF Releases, Reset
  <1>4. Owned /\ FramesInv
    BY DEF OwnInv
  <1>5. Locals = Len(stk) /\ Locals \in 0..Len(stk)
    BY <1>2, <1>4, FrameFacts DEF IsUser, FramesInv
  <1>6. FitMachine(Machine) /\ Machine.heap = heap /\ Machine.stk = stk
        /\ stk \in Seq(Objects) /\ OwnerTypes(host, vars, frames)
    BY <1>4, OwnFacts
  <1>7. /\ FitMachine(m) /\ Fades(heap, m.heap) /\ m.stk = SubSeq(stk, 1, Len(stk) - Locals)
        /\ \A x \in Objects : Spare(m, x) = Spare(Machine, x)
    BY <1>5, <1>6, PoppedFits DEF Follows
  <1>8. m.stk = <<>>
    BY <1>5, <1>6, <1>7
  <1>9. Remains(heap, m.heap)
    <2> DEFINE top == SubSeq(stk, Len(stk) - Locals + 1, Len(stk))
               os == Reverse(top)
    <2>1. top \in Seq(Objects)
      BY <1>5, <1>6
    <2> HIDE DEF top
    <2>2. os \in Seq(Objects)
      BY <2>1, CountReverse
    <2>3. m.heap = Released(heap, os)
      <3> DEFINE h == Released(heap, os)
                 s == SubSeq(stk, 1, Len(stk) - Locals)
      <3>1. m = [ReleasedIn(Machine, os) EXCEPT !.stk = s]
        BY <1>6, Zenon DEF Popped, top
      <3>2. ReleasedIn(Machine, os) = [Machine EXCEPT !.heap = h]
        BY <1>6, Zenon DEF ReleasedIn
      <3> HIDE DEF h, s, os
      <3> DEFINE yes == TRUE
      <3>3. Machine = [heap |-> heap, stk |-> stk, ok |-> yes]
        BY DEF Machine
      <3> HIDE DEF yes, m
      <3>4. m = [heap |-> h, stk |-> s, ok |-> yes]
        BY <3>1, <3>2, <3>3
      <3> QED
        BY <3>4 DEF h
    <2>4. heap \in Heaps
      BY <1>4, OwnFacts
    <2> HIDE DEF os, m
    <2> QED
      BY <2>2, <2>3, <2>4, ReleaseRemains
  <1>10. inVars \in Seq(Objects) /\ \A x \in Objects : Count(inVars, x) = Count(vars, x)
    BY <1>6, InVarsCounted DEF OwnerTypes
  <1> HIDE DEF m, inVars
  <1>11. GoodHeap(m.heap) /\ m.heap \in Heaps
    BY <1>7 DEF FitMachine, GoodHeap, SoundHeap
  <1>12. Releasable(m.heap, inVars)
    <2> SUFFICES ASSUME NEW x \in Objects PROVE Left(m.heap, inVars, x) >= 0
      BY DEF Releasable
    <2>1. /\ Outer(m.heap, x) \in Int /\ Count(m.stk, x) = 0
          /\ Spare(m, x) = Outer(m.heap, x) - Count(m.stk, x)
      <3>1. m.stk \in Seq(Objects)
        BY <1>7 DEF FitMachine
      <3> QED
        BY <1>8, <1>11, <3>1, SpareType, CountType
    <2>2. /\ Spare(Machine, x) \in Int /\ Claims(host, vars, frames, x) \in Nat
          /\ Surplus(x) = Spare(Machine, x) - Claims(host, vars, frames, x) /\ Surplus(x) >= 0
      BY <1>4, OwnFacts
    <2>3. /\ host[x] \in Nat /\ Count(vars, x) \in Nat /\ FramesClaim(frames, x) \in Nat
          /\ Claims(host, vars, frames, x) = host[x] + Count(vars, x) + FramesClaim(frames, x)
      BY <1>6, ClaimsType
    <2>4. Spare(Machine, x) >= Count(vars, x)
      BY <2>2, <2>3
    <2>5. Spare(m, x) = Spare(Machine, x) /\ Count(inVars, x) = Count(vars, x)
      BY <1>7, <1>10
    <2> QED
      BY <2>1, <2>2, <2>3, <2>4, <2>5 DEF Left
  <1>13. GoodHeap(g) /\ Remains(m.heap, g)
    BY <1>10, <1>11, <1>12, ReleasedIsGood, ReleaseRemains
  <1> HIDE DEF g
  <1>14. ASSUME NEW o \in Objects PROVE g[o].slots = <<>>
    <2>1. RemainsOf(heap, m.heap, o) /\ RemainsOf(m.heap, g, o)
      BY <1>9, <1>13 DEF Remains
    <2>2. CASE g[o].type = Vacant
      BY <1>13, <2>2 DEF GoodHeap, SoundHeap, Nothing
    <2>3. CASE g[o].type # Vacant
      <3>1. heap[o].slots = <<>>
        BY <1>3, <2>3 DEF Live
      <3> QED
        BY <2>1, <2>3, <3>1 DEF RemainsOf
    <2> QED
      BY <2>2, <2>3
  <1>15. Loose(g)
    BY <1>13, <1>14 DEF Loose
  <1>16. PICK order \in SetToSeqs(Live(g)) : heap' = DropAll[<<g, order>>]
    BY <1>3
  <1>17. Lists(order, g)
    <2>1. IsFiniteSet(Live(g))
      BY ObjectsAssumption, FS_Subset DEF Live
    <2>2. /\ order \in [1..Cardinality(Live(g)) -> Live(g)] /\ IsInjective(order)
          /\ order \in Seq(Live(g)) /\ \A x \in Live(g) : \E i \in DOMAIN order : order[i] = x
      BY <2>1, SetListed
    <2>3. \A i \in DOMAIN order : order[i] \in Live(g)
      BY <2>2
    <2>4. order \in Seq(Objects)
      BY <2>2 DEF Live
    <2> QED
      BY <2>2, <2>3, <2>4 DEF Lists, Live
  <1>18. heap' = NoHeap
    BY <1>15, <1>16, <1>17, ResetLeavesNothing DEF NoHeap
  <1>19. KeepsTypes(heap, heap')
    BY <1>18, NoHeapIsLoose DEF KeepsTypes
  <1>20. Owned'
    <2> DEFINE n == NoMachine
    <2>1. heap' = n.heap /\ stk' = n.stk /\ FitMachine(n)
          /\ \A x \in Objects : Spare(n, x) = 0
      BY <1>2, <1>8, <1>18, NoMachineIsFit
    <2> HIDE DEF n, UserFrame, NoVars, NoHost
    <2>2. OwnerTypes(host, vars, frames)' /\ \A x \in Objects : Claims(host, vars, frames, x)' = 0
      BY <1>2, NothingClaimed
    <2>3. \A x \in Objects : Spare(n, x) >= Claims(host, vars, frames, x)'
      <3> TAKE x \in Objects
      <3>1. Spare(n, x) = 0 /\ Claims(host, vars, frames, x)' = 0
        BY <2>1, <2>2
      <3> QED
        BY <3>1
    <2> QED
      BY <2>1, <2>2, <2>3, BecomesOwned
  <1> QED
    BY <1>2, <1>8, <1>18, <1>19, <1>20 DEF Kept

--------------------------------------------------------------------------------
(* The invariant *)

\* A host that keeps what it lends until it is back, and lets go of what it has made.
Careful == {"keeps what it borrows", "releases"} \subseteq Discipline

\* The calls of fns.
LEMMA FnCallsKept == OwnInv /\ KeepsLoans /\ FnCalls => Kept
  <1> SUFFICES ASSUME OwnInv, KeepsLoans, FnCalls PROVE Kept
    OBVIOUS
  <1>1. \A policy \in Policies : IsPolicy(policy)
    BY IndexAssumption DEF IsPolicy
  <1>2. ASSUME NEW f \in Functions, NEW returnTo \in Wheres,
               NEW names \in NameLists(Len(Signature[f].named)), BeginCall(f, names, returnTo)
        PROVE  Kept
    BY <1>2, BeginCallSteady DEF Steady, Kept
  <1>3. ASSUME NEW o \in Objects, NEW policy \in Policies, SetArg(o, policy) PROVE Kept
    BY <1>1, <1>3, SetArgSteady DEF Steady, Kept
  <1>4. ASSUME NEW o \in Objects, NEW policy \in Policies, Ret(o, policy) PROVE Kept
    BY <1>1, <1>4, RetSteady DEF Steady, Kept
  <1>5. CASE EndCall
    BY <1>5, EndCallKept
  <1> QED
    BY <1>2, <1>3, <1>4, <1>5, Zenon DEF FnCalls

\* The calls that get and set vars.
LEMMA VarCallsKept == OwnInv /\ VarCalls => Kept
  BY GetVarSteady, SetVarKept DEF VarCalls, Steady, Kept

\* Every step keeps what it should.
LEMMA NextKept == Careful /\ OwnInv /\ [Next]_ctxVars => Kept
  <1> SUFFICES ASSUME Careful, OwnInv, [Next]_ctxVars PROVE Kept
    OBVIOUS
  <1>1. KeepsLoans /\ Releases
    BY DEF Careful, KeepsLoans, Releases
  <1>2. CASE HostCalls
    BY <1>2, HostCallsSteady DEF Steady, Kept
  <1>3. CASE StackCalls
    BY <1>1, <1>3, StackCallsSteady DEF Steady, Kept
  <1>4. CASE ValueCalls
    BY <1>4, ValueCallsSteady DEF Steady, Kept
  <1>5. CASE FnCalls
    BY <1>1, <1>5, FnCallsKept
  <1>6. CASE VarCalls
    BY <1>6, VarCallsKept
  <1>7. CASE Destroy
    BY <1>1, <1>7, DestroyKept
  <1>8. CASE UNCHANGED ctxVars
    BY <1>8, SameSteady DEF OwnInv, ctxVars, Steady, Kept
  <1> QED
    BY <1>2, <1>3, <1>4, <1>5, <1>6, <1>7, <1>8 DEF Next

\* A context starts with nothing.
LEMMA InitOwned == Init => OwnInv
  <1> SUFFICES ASSUME Init PROVE OwnInv
    OBVIOUS
  <1>1. Machine = NoMachine
    BY DEF Init, Machine, NoMachine, NoHeap
  <1>2. FitMachine(Machine) /\ \A o \in Objects : Spare(Machine, o) = 0
    BY <1>1, NoMachineIsFit
  <1>3. host = NoHost /\ vars = NoVars /\ frames = <<UserFrame>>
    BY DEF Init, NoHost, NoVars
  <1> HIDE DEF NoHost, NoVars, UserFrame
  <1>4. OwnerTypes(host, vars, frames) /\ \A o \in Objects : Claims(host, vars, frames, o) = 0
    BY <1>3, NothingClaimed
  <1>5. \A o \in Objects : Surplus(o) >= 0
    <2> TAKE o \in Objects
    <2>1. Spare(Machine, o) = 0 /\ Claims(host, vars, frames, o) = 0
      BY <1>2, <1>4
    <2> QED
      BY <2>1 DEF Surplus
  <1> QED
    BY <1>2, <1>4, <1>5, FramesInvInit DEF OwnInv, Owned

\* With a careful host the owners of an object are never more than its count.
LEMMA OwnInvHolds == Careful => (Spec => []OwnInv)
  <1> SUFFICES ASSUME Careful PROVE Spec => []OwnInv
    OBVIOUS
  <1>1. OwnInv /\ [Next]_ctxVars => OwnInv'
    BY NextKept, FramesInvNext DEF OwnInv, Kept
  <1> QED
    BY InitOwned, <1>1, PTL DEF Spec

--------------------------------------------------------------------------------
(* The properties that follow from it *)

\* The count of an object is the number of its owners, and what has leaked.
LEMMA RefsAreOwned ==
  ASSUME Owned, NEW o \in Objects
  PROVE  /\ heap[o].refs = Owners(o) + Surplus(o) /\ Owners(o) \in Int
         /\ heap[o].refs > 0 <=> o \in Live(heap)
  <1>1. o # Nil
    BY IndexAssumption
  <1>2. Cardinality({i \in DOMAIN stk : stk[i] = o}) = Count(stk, o)
    <2>1. {i \in DOMAIN stk : stk[i] = o} = Hits(stk, {o})
      BY DEF Hits
    <2> QED
      BY <2>1 DEF Count, Times
  <1>3. Cardinality({v \in Vars : vars[v] = o}) = Count(vars, o)
    <2>1. DOMAIN vars = Vars
      BY DEF Owned, OwnerTypes
    <2>2. {v \in Vars : vars[v] = o} = Hits(vars, {o})
      BY <2>1 DEF Hits
    <2> QED
      BY <2>2 DEF Count, Times
  <1>4. Cardinality({k \in DOMAIN frames : frames[k].returnValue = o}) = Count(Rets(frames), o)
    <2>1. {k \in DOMAIN frames : frames[k].returnValue = o} = Hits(Rets(frames), {o})
      BY DEF Hits, Rets
    <2> QED
      BY <2>1 DEF Count, Times
  <1>5. Cardinality({k \in DOMAIN frames : /\ frames[k].then # <<>>
                                           /\ frames[k].then.op = "set"
                                           /\ frames[k].then.value = o})
            = Count(Pendings(frames), o)
    <2> DEFINE A == {k \in DOMAIN frames : /\ frames[k].then # <<>>
                                           /\ frames[k].then.op = "set"
                                           /\ frames[k].then.value = o}
    <2>1. \A k \in DOMAIN frames :
            (Pending(frames[k]) = o) <=> /\ frames[k].then # <<>>
                                         /\ frames[k].then.op = "set"
                                         /\ frames[k].then.value = o
      BY <1>1 DEF Pending
    <2>2. A = Hits(Pendings(frames), {o})
      BY <2>1 DEF Hits, Pendings
    <2> HIDE DEF A
    <2>3. Cardinality(A) = Count(Pendings(frames), o)
      BY <2>2 DEF Count, Times
    <2> QED
      BY <2>3 DEF A
  <1>6. Cardinality(UNION {{p} \X {i \in DOMAIN heap[p].slots : heap[p].slots[i] = o} :
                            p \in Objects}) = Held(heap, o)
    <2>1. UNION {{p} \X {i \in DOMAIN heap[p].slots : heap[p].slots[i] = o} : p \in Objects}
            = SlotsOf(heap, Objects, {o})
      BY DEF SlotsOf, Hits
    <2> QED
      BY <2>1 DEF Held, InSlots
  <1>7. Owners(o) = host[o] + Count(stk, o) + Count(vars, o) + Count(Rets(frames), o)
                    + Count(Pendings(frames), o) + Held(heap, o)
    BY <1>2, <1>3, <1>4, <1>5, <1>6, Zenon DEF Owners
  <1>8. /\ host[o] \in Nat /\ Count(vars, o) \in Nat
        /\ Claims(host, vars, frames, o) = host[o] + Count(vars, o) + FramesClaim(frames, o)
    BY ClaimsType DEF Owned
  <1>9. /\ Count(Rets(frames), o) \in Nat /\ Count(Pendings(frames), o) \in Nat
        /\ FramesClaim(frames, o) = Count(Rets(frames), o) + Count(Pendings(frames), o)
    <2>1. /\ \E S : frames \in Seq(S)
          /\ \A k \in 1..Len(frames) : FrameOwns(frames[k])
      BY DEF Owned, OwnerTypes
    <2>2. Rets(frames) \in Seq(Values) /\ Pendings(frames) \in Seq(Values)
      BY <2>1, FramesType
    <2> QED
      BY <2>2, CountType DEF FramesClaim
  <1>10. heap \in Heaps /\ SoundHeap(heap)
    BY OwnFacts DEF GoodHeap, SoundHeap
  <1>11. Held(heap, o) \in Nat /\ heap[o].refs \in Int
    BY <1>10, HeldUpdate, HeapParts
  <1>12. /\ Surplus(o) = Spare(Machine, o) - Claims(host, vars, frames, o)
         /\ Spare(Machine, o) = Outer(heap, o) - Count(stk, o)
         /\ Count(stk, o) \in Nat /\ Outer(heap, o) \in Int
    BY OwnFacts
  <1>13. Outer(heap, o) = heap[o].refs - Held(heap, o)
    BY DEF Outer
  <1>14. heap[o].refs = Owners(o) + Surplus(o) /\ Owners(o) \in Int
    BY <1>7, <1>8, <1>9, <1>11, <1>12, <1>13
  <1>15. heap[o].refs > 0 <=> o \in Live(heap)
    BY <1>10 DEF SoundHeap, Nothing, Live
  <1> QED
    BY <1>14, <1>15

(***************************************************************************)
(* No owner is ever left with an object that is gone, and no count moves   *)
(* where nothing lives, whatever calls a careful host makes, in fns and in *)
(* initializers, and whether or not they succeed.                          *)
(***************************************************************************)
THEOREM NothingEverDangles ==
  ASSUME Careful
  PROVE  Spec => []NothingDangles
  <1>1. OwnInv => NothingDangles
    <2> SUFFICES ASSUME OwnInv, NEW o \in Objects
                 PROVE  heap[o].refs >= Owners(o) /\ (heap[o].refs > 0 <=> o \in Live(heap))
      BY DEF NothingDangles
    <2>1. Owned
      BY DEF OwnInv
    <2>2. Surplus(o) \in Int /\ Surplus(o) >= 0
      BY <2>1, OwnFacts
    <2>3. heap[o].refs = Owners(o) + Surplus(o) /\ Owners(o) \in Int
      BY <2>1, RefsAreOwned
    <2>4. heap[o].refs >= Owners(o)
      BY <2>2, <2>3
    <2> QED
      BY <2>1, <2>4, RefsAreOwned
  <1> QED
    BY <1>1, OwnInvHolds, PTL

(***************************************************************************)
(* Every struct always holds values of its properties' types, and every    *)
(* protocol value boxes what conforms to it.                               *)
(***************************************************************************)
THEOREM ValuesStayWellFormed ==
  ASSUME Careful
  PROVE  Spec => []ValuesAreWellFormed
  <1>1. OwnInv => ValuesAreWellFormed
    BY OwnFacts DEF OwnInv, ValuesAreWellFormed, GoodHeap
  <1> QED
    BY <1>1, OwnInvHolds, PTL

================================================================================
