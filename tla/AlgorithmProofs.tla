------------------------------- MODULE AlgorithmProofs -------------------------------
(***************************************************************************)
(* What redirects, specifiers and arg packs come to, for any tables,       *)
(* parcels, specifiers, limits on the params and lists of named params.    *)
(***************************************************************************)
EXTENDS RedirectTables, Specifiers, ArgPacks, TLAPS, FiniteSetTheorems, WellFoundedInduction,
        SequenceTheorems

--------------------------------------------------------------------------------
(* Folds *)

\* A set of numbers has a least one.
LEMMA LeastNumber ==
  ASSUME NEW T, T \subseteq Nat, T # {}
  PROVE  \E n \in T : \A k \in T : n <= k
  <1>1. OpToRel(<, Nat) = {ss \in Nat \X Nat : ss[1] < ss[2]}
    BY SMT DEF OpToRel
  <1>2. \E n \in T : \A k \in T : ~ (<<k, n>> \in OpToRel(<, Nat))
    BY WFMin, NatLessThanWellFounded
  <1>3. \A n, k \in Nat : k < n => <<k, n>> \in OpToRel(<, Nat)
    BY <1>1, Zenon
  <1>4. \A n, k \in Nat : ~ (k < n) => n <= k
    OBVIOUS
  <1> QED
    BY <1>2, <1>3, <1>4, Zenon

\* A set of numbers that has 0 and with each number the next has all.
LEMMA AllNumbers ==
  ASSUME NEW T, 0 \in T, NEW n \in Nat, \A k \in 0..n - 1 : k \in T => k + 1 \in T
  PROVE  \A k \in 0..n : k \in T
  <1> DEFINE bad == {k \in 0..n : k \notin T}
  <1>1. SUFFICES ASSUME bad # {}
                 PROVE  FALSE
    OBVIOUS
  <1>2. PICK k \in bad : \A j \in bad : k <= j
    <2>1. bad \subseteq Nat
      OBVIOUS
    <2> HIDE DEF bad
    <2> QED
      BY <1>1, <2>1, LeastNumber
  <1>3. k # 0 /\ k \in 0..n /\ k \notin T
    BY <1>2
  <1>4. k - 1 \in 0..n - 1 /\ k - 1 \in 0..n /\ (k - 1) + 1 = k /\ ~ (k <= k - 1)
    BY <1>3
  <1>5. k - 1 \in T
    BY <1>2, <1>4
  <1> QED
    BY <1>3, <1>4, <1>5

(***************************************************************************)
(* The folds of the modules, as one: what is folded is part of the data,   *)
(* so that what holds of folds is proved once.                             *)
(***************************************************************************)
Apply(f, x, e) ==
    CASE f.of = "visit" -> IF IsPrefix(e[1], f.path) THEN Assign(x, e[2], f.table[e]) ELSE x
      [] f.of = "read"  -> Read(x, e)
      [] f.of = "eval"  -> Interp(x, e, f.env)
      [] f.of = "solve" -> OnEvent(x, e, f.stands, f.redirects)
      [] f.of = "args"  -> WithArg(x, e)
      [] f.of = "join"  -> x \o e.output
      [] f.of = "load"  -> IF e.is = "concrete" THEN e.of ELSE NoType
      [] f.of = "keep"  -> IF x.ended \/ e = OpenCall THEN [x EXCEPT !.ended = TRUE]
                           ELSE [x EXCEPT !.kept = Append(@, e)]

Fold(f, b, s) == FoldLeft(LAMBDA x, e : Apply(f, x, e), b, s)

IsIter(it, f, b, s, S) ==
    it = [u \in SUBSET S |->
            IF u = {} THEN b ELSE Apply(f, it[u \ {Max(u)}], s[Max(u)])]

\* The definition of a fold, unfolded.
LEMMA FoldUnfolded ==
  ASSUME NEW f, NEW b, NEW s
  PROVE  Fold(f, b, s) = (CHOOSE it : IsIter(it, f, b, s, DOMAIN s))[DOMAIN s]
  BY Zenon DEF Fold, FoldLeft, MapThenFoldSet, IsIter

\* The greatest of a set of numbers that ends with it.
LEMMA MaxIs ==
  ASSUME NEW u, u \subseteq Nat, NEW m \in u, \A x \in u : x <= m
  PROVE  Max(u) = m
  <1> DEFINE IsMax(x) == x \in u /\ \A y \in u : x >= y
  <1>1. IsMax(m)
    OBVIOUS
  <1>2. \A x : IsMax(x) => x = m
    OBVIOUS
  <1>3. Max(u) = CHOOSE x : IsMax(x)
    BY DEF Max
  <1> HIDE DEF IsMax
  <1> QED
    BY <1>1, <1>2, <1>3

\* It is in the set.
LEMMA MaxExists ==
  ASSUME NEW n \in Nat, NEW u \in SUBSET (1..n), u # {}
  PROVE  Max(u) \in u /\ \A x \in u : x <= Max(u)
  <1> DEFINE T == {n - x : x \in u}
  <1>1. T \subseteq Nat /\ T # {}
    OBVIOUS
  <1>2. PICK k \in T : \A j \in T : k <= j
    BY <1>1, LeastNumber
  <1>3. PICK m \in u : k = n - m
    BY <1>2
  <1>4. \A x \in u : x <= m
    <2> TAKE x \in u
    <2>1. n - x \in T /\ x \in Int /\ m \in Int
      OBVIOUS
    <2>2. n - m <= n - x
      BY <1>2, <1>3, <2>1
    <2> QED
      BY <2>1, <2>2
  <1>5. Max(u) = m
    <2>1. u \subseteq Nat
      OBVIOUS
    <2> QED
      BY <1>3, <1>4, <2>1, MaxIs
  <1> QED
    BY <1>3, <1>4, <1>5

\* A step more to iterate.
LEMMA IterGrows ==
  ASSUME NEW f, NEW b, NEW s, NEW k \in Nat, NEW it, IsIter(it, f, b, s, 1..k)
  PROVE  \E new : IsIter(new, f, b, s, 1..k + 1)
  <1> DEFINE new == [u \in SUBSET (1..k + 1) |->
                        IF k + 1 \in u THEN Apply(f, it[u \ {k + 1}], s[k + 1]) ELSE it[u]]
             full == [u \in SUBSET (1..k + 1) |->
                        IF u = {} THEN b ELSE Apply(f, new[u \ {Max(u)}], s[Max(u)])]
  <1>1. \A u \in SUBSET (1..k) : /\ u \in SUBSET (1..k + 1) /\ k + 1 \notin u
                                 /\ new[u] = it[u]
    OBVIOUS
  <1>2. ASSUME NEW u \in SUBSET (1..k + 1)
        PROVE  new[u] = full[u]
    <2>1. CASE k + 1 \in u
      <3>1. Max(u) = k + 1
        <4>1. u \subseteq Nat /\ \A x \in u : x <= k + 1
          OBVIOUS
        <4> QED
          BY <2>1, <4>1, MaxIs
      <3>2. u \ {k + 1} \in SUBSET (1..k)
        OBVIOUS
      <3>3. new[u \ {k + 1}] = it[u \ {k + 1}]
        BY <1>1, <3>2
      <3>4. new[u] = Apply(f, it[u \ {k + 1}], s[k + 1])
        BY <2>1
      <3>5. full[u] = Apply(f, new[u \ {k + 1}], s[k + 1])
        BY <2>1, <3>1
      <3> QED
        BY <3>3, <3>4, <3>5
    <2>2. CASE k + 1 \notin u
      <3>1. u \in SUBSET (1..k)
        BY <2>2
      <3>2. new[u] = it[u]
        BY <1>1, <3>1
      <3>3. it[u] = IF u = {} THEN b ELSE Apply(f, it[u \ {Max(u)}], s[Max(u)])
        BY <3>1 DEF IsIter
      <3>4. u \ {Max(u)} \in SUBSET (1..k)
        BY <3>1
      <3>5. new[u \ {Max(u)}] = it[u \ {Max(u)}]
        BY <1>1, <3>4
      <3> QED
        BY <3>2, <3>3, <3>5
    <2> QED
      BY <2>1, <2>2
  <1>3. new = full
    BY <1>2
  <1> HIDE DEF new
  <1> QED
    BY <1>3 DEF IsIter

\* So a fold is defined.
LEMMA IterExists ==
  ASSUME NEW f, NEW b, NEW s, NEW n \in Nat
  PROVE  \E it : IsIter(it, f, b, s, 1..n)
  <1> DEFINE T == {k \in 0..n : \E it : IsIter(it, f, b, s, 1..k)}
  <1>1. 0 \in T
    <2> DEFINE it == [u \in SUBSET (1..0) |-> b]
               full == [u \in SUBSET (1..0) |->
                            IF u = {} THEN b ELSE Apply(f, it[u \ {Max(u)}], s[Max(u)])]
    <2>1. 1..0 = {} /\ SUBSET (1..0) = {{}}
      OBVIOUS
    <2>2. it = full
      BY <2>1
    <2> HIDE DEF it
    <2>3. IsIter(it, f, b, s, 1..0)
      BY <2>2 DEF IsIter
    <2> QED
      BY <2>3
  <1>2. \A k \in 0..n - 1 : k \in T => k + 1 \in T
    BY IterGrows
  <1> HIDE DEF T
  <1>3. n \in T
    BY <1>1, <1>2, AllNumbers
  <1> QED
    BY <1>3 DEF T

\* The values a fold goes through.
IsRunOf(r, f, b, s, n) == r[0] = b /\ \A k \in 1..n : r[k] = Apply(f, r[k - 1], s[k])

\* Where two folds are over the same, they come to the same.
LEMMA RunsAgree ==
  ASSUME NEW f, NEW b, NEW s, NEW t, NEW n \in Nat, NEW r, NEW q,
         IsRunOf(r, f, b, s, n), IsRunOf(q, f, b, t, n), \A k \in 1..n : s[k] = t[k]
  PROVE  r[n] = q[n]
  <1> DEFINE T == {k \in 0..n : r[k] = q[k]}
  <1>1. 0 \in T
    BY DEF IsRunOf
  <1>2. \A k \in 0..n - 1 : k \in T => k + 1 \in T
    <2> TAKE k \in 0..n - 1
    <2>1. k + 1 \in 1..n /\ (k + 1) - 1 = k /\ k + 1 \in 0..n
      OBVIOUS
    <2>2. r[k + 1] = Apply(f, r[k], s[k + 1]) /\ q[k + 1] = Apply(f, q[k], t[k + 1])
      BY <2>1 DEF IsRunOf
    <2> QED
      BY <2>1, <2>2
  <1> HIDE DEF T
  <1>3. n \in T
    BY <1>1, <1>2, AllNumbers
  <1> QED
    BY <1>3 DEF T

\* A fold has a run, and is where it ends.
LEMMA FoldHasRun ==
  ASSUME NEW f, NEW b, NEW s, NEW n \in Nat, DOMAIN s = 1..n
  PROVE  \E r : IsRunOf(r, f, b, s, n) /\ Fold(f, b, s) = r[n]
  <1> DEFINE it == CHOOSE it : IsIter(it, f, b, s, 1..n)
             r == [k \in 0..n |-> it[1..k]]
  <1>1. IsIter(it, f, b, s, 1..n)
    BY IterExists
  <1>2. Fold(f, b, s) = it[1..n]
    BY FoldUnfolded
  <1> HIDE DEF it
  <1>3. it[{}] = b
    <2>1. {} \in SUBSET (1..n)
      OBVIOUS
    <2> QED
      BY <1>1, <2>1 DEF IsIter
  <1>4. ASSUME NEW k \in 1..n
        PROVE  it[1..k] = Apply(f, it[1..k - 1], s[k])
    <2>1. 1..k \in SUBSET (1..n) /\ 1..k # {} /\ (1..k) \ {k} = 1..k - 1
      OBVIOUS
    <2>2. Max(1..k) = k
      <3>1. 1..k \subseteq Nat /\ k \in 1..k /\ \A x \in 1..k : x <= k
        OBVIOUS
      <3> HIDE DEF it
      <3> QED
        BY <3>1, MaxIs
    <2> QED
      BY <1>1, <2>1, <2>2 DEF IsIter
  <1>5. IsRunOf(r, f, b, s, n)
    <2>1. 1..0 = {} /\ r[0] = b
      BY <1>3
    <2>2. \A k \in 1..n : k \in 0..n /\ k - 1 \in 0..n
      OBVIOUS
    <2> QED
      BY <1>4, <2>1, <2>2 DEF IsRunOf
  <1>6. r[n] = it[1..n]
    OBVIOUS
  <1> HIDE DEF r
  <1> QED
    BY <1>2, <1>5, <1>6

\* The end of any run is the fold.
LEMMA FoldIs ==
  ASSUME NEW f, NEW b, NEW s, NEW n \in Nat, DOMAIN s = 1..n, NEW r, IsRunOf(r, f, b, s, n)
  PROVE  Fold(f, b, s) = r[n]
  BY FoldHasRun, RunsAgree

\* A fold over nothing.
LEMMA FoldEmpty ==
  ASSUME NEW f, NEW b
  PROVE  Fold(f, b, <<>>) = b
  <1>1. 0 \in Nat /\ DOMAIN <<>> = 1..0
    OBVIOUS
  <1> QED
    BY <1>1, FoldHasRun DEF IsRunOf

\* A fold over one element more.
LEMMA FoldAppend ==
  ASSUME NEW S, NEW f, NEW b, NEW s \in Seq(S), NEW e \in S
  PROVE  Fold(f, b, Append(s, e)) = Apply(f, Fold(f, b, s), e)
  <1> DEFINE n == Len(s)
             t == Append(s, e)
  <1>1. n \in Nat /\ n + 1 \in Nat /\ DOMAIN s = 1..n /\ DOMAIN t = 1..n + 1
    OBVIOUS
  <1>2. t[n + 1] = e /\ \A k \in 1..n : t[k] = s[k]
    OBVIOUS
  <1> HIDE DEF n, t
  <1>3. PICK r : IsRunOf(r, f, b, t, n + 1) /\ Fold(f, b, t) = r[n + 1]
    BY <1>1, FoldHasRun
  <1>4. IsRunOf(r, f, b, s, n)
    BY <1>1, <1>2, <1>3 DEF IsRunOf
  <1>5. Fold(f, b, s) = r[n]
    BY <1>1, <1>4, FoldIs
  <1>6. r[n + 1] = Apply(f, r[(n + 1) - 1], t[n + 1]) /\ (n + 1) - 1 = n
    BY <1>1, <1>3 DEF IsRunOf
  <1> QED
    BY <1>2, <1>3, <1>5, <1>6 DEF t

--------------------------------------------------------------------------------
(* The keys of maps in order *)

\* R is a total order of S.
Orders(R, S) ==
    /\ \A x, y \in S : x = y \/ <<x, y>> \in R \/ <<y, x>> \in R
    /\ \A x, y, z \in S : <<x, y>> \in R /\ <<y, z>> \in R => <<x, z>> \in R
    /\ \A x \in S : <<x, x>> \notin R

\* m is the greatest of U.
IsLastOf(m, U, R) == m \in U /\ \A x \in U : x = m \/ <<x, m>> \in R

InOrder(keys, R) == \A i, j \in DOMAIN keys : i < j => <<keys[i], keys[j]>> \in R

\* A finite set has a greatest element.
LEMMA LastExists ==
  ASSUME NEW S, IsFiniteSet(S), NEW R, Orders(R, S), S # {}
  PROVE  \E m : IsLastOf(m, S, R)
  <1> DEFINE n == Cardinality(S) - 1
             HaveLast(k) == \A U \in SUBSET S : Cardinality(U) = k + 1 => \E m : IsLastOf(m, U, R)
             T == {k \in 0..n : HaveLast(k)}
  <1>1. n \in Nat /\ Cardinality(S) = n + 1
    <2>1. Cardinality(S) \in Nat /\ Cardinality(S) # 0
      BY FS_CardinalityType, FS_EmptySet
    <2> QED
      BY <2>1
  <1>2. 0 \in T
    <2> SUFFICES ASSUME NEW U \in SUBSET S, Cardinality(U) = 1
                 PROVE  \E m : IsLastOf(m, U, R)
      BY <1>1
    <2>1. PICK x : U = {x}
      BY FS_Singleton, FS_Subset
    <2> QED
      BY <2>1 DEF IsLastOf
  <1>3. ASSUME NEW k \in 0..n - 1, HaveLast(k)
        PROVE  HaveLast(k + 1)
    <2> SUFFICES ASSUME NEW U \in SUBSET S, Cardinality(U) = k + 2
                 PROVE  \E m : IsLastOf(m, U, R)
      BY <1>1
    <2>1. IsFiniteSet(U) /\ k \in Nat
      BY FS_Subset
    <2>2. U # {}
      BY <2>1, FS_EmptySet
    <2>3. PICK x : x \in U
      BY <2>2
    <2>4. Cardinality(U \ {x}) = k + 1
      BY <2>1, <2>3, FS_RemoveElement
    <2>5. PICK m : IsLastOf(m, U \ {x}, R)
      <3>1. U \ {x} \in SUBSET S
        OBVIOUS
      <3> QED
        BY <1>3, <2>4, <3>1
    <2>6. x \in S /\ m \in S
      BY <2>3, <2>5 DEF IsLastOf
    <2>7. CASE <<x, m>> \in R
      BY <2>5, <2>7 DEF IsLastOf
    <2>8. CASE <<x, m>> \notin R
      <3>1. <<m, x>> \in R
        BY <2>5, <2>6, <2>8 DEF IsLastOf, Orders
      <3>2. \A y \in U : y = x \/ <<y, x>> \in R
        BY <2>5, <2>6, <3>1 DEF IsLastOf, Orders
      <3>3. IsLastOf(x, U, R)
        BY <2>3, <3>2 DEF IsLastOf
      <3> QED
        BY <3>3
    <2> QED
      BY <2>7, <2>8
  <1>4. \A k \in 0..n - 1 : k \in T => k + 1 \in T
    <2> TAKE k \in 0..n - 1
    <2>1. k + 1 \in 0..n
      BY <1>1
    <2> HIDE DEF HaveLast
    <2> QED
      BY <1>3, <2>1
  <1> HIDE DEF n, T
  <1>5. n \in T
    <2>1. \A k \in 0..n : k \in T
      BY <1>1, <1>2, <1>4, AllNumbers
    <2> QED
      BY <1>1, <2>1
  <1>6. S \in SUBSET S
    OBVIOUS
  <1> QED
    BY <1>1, <1>5, <1>6 DEF T

\* A finite set can be put in order.
LEMMA SortedExists ==
  ASSUME NEW S, IsFiniteSet(S), NEW R, Orders(R, S)
  PROVE  \E keys \in [1..Cardinality(S) -> S] : InOrder(keys, R)
  <1> DEFINE n == Cardinality(S)
             Sorts(k) == \A U \in SUBSET S : Cardinality(U) = k =>
                            \E keys \in [1..k -> U] : InOrder(keys, R)
             T == {k \in 0..n : Sorts(k)}
  <1>1. n \in Nat
    BY FS_CardinalityType
  <1>2. 0 \in T
    <2> SUFFICES ASSUME NEW U \in SUBSET S, Cardinality(U) = 0
                 PROVE  \E keys \in [1..0 -> U] : InOrder(keys, R)
      BY <1>1
    <2>1. <<>> \in [1..0 -> U] /\ InOrder(<<>>, R)
      BY DEF InOrder
    <2> QED
      BY <2>1
  <1>3. ASSUME NEW k \in 0..n - 1, Sorts(k)
        PROVE  Sorts(k + 1)
    <2> SUFFICES ASSUME NEW U \in SUBSET S, Cardinality(U) = k + 1
                 PROVE  \E keys \in [1..k + 1 -> U] : InOrder(keys, R)
      OBVIOUS
    <2>1. IsFiniteSet(U) /\ k \in Nat
      BY FS_Subset
    <2>2. PICK m : IsLastOf(m, U, R)
      <3>1. U # {}
        BY <2>1, FS_EmptySet
      <3>2. Orders(R, U)
        BY DEF Orders
      <3> QED
        BY <2>1, <3>1, <3>2, LastExists
    <2>3. Cardinality(U \ {m}) = k
      BY <2>1, <2>2, FS_RemoveElement DEF IsLastOf
    <2>4. PICK q \in [1..k -> U \ {m}] : InOrder(q, R)
      <3>1. U \ {m} \in SUBSET S
        OBVIOUS
      <3> QED
        BY <1>3, <2>3, <3>1
    <2> DEFINE keys == [i \in 1..k + 1 |-> IF i = k + 1 THEN m ELSE q[i]]
    <2>5. keys \in [1..k + 1 -> U]
      BY <2>1, <2>2 DEF IsLastOf
    <2>6. ASSUME NEW i \in 1..k + 1, NEW j \in 1..k + 1, i < j
          PROVE  <<keys[i], keys[j]>> \in R
      <3>1. i \in 1..k /\ keys[i] = q[i] /\ q[i] \in U \ {m}
        BY <2>1, <2>6
      <3>2. CASE j = k + 1
        BY <2>2, <3>1, <3>2 DEF IsLastOf
      <3>3. CASE j # k + 1
        BY <2>1, <2>4, <2>6, <3>1, <3>3 DEF InOrder
      <3> QED
        BY <3>2, <3>3
    <2>7. InOrder(keys, R)
      <3>1. DOMAIN keys = 1..k + 1
        OBVIOUS
      <3> HIDE DEF keys
      <3> QED
        BY <2>6, <3>1 DEF InOrder
    <2> HIDE DEF keys
    <2> QED
      BY <2>5, <2>7
  <1>4. \A k \in 0..n - 1 : k \in T => k + 1 \in T
    <2> TAKE k \in 0..n - 1
    <2>1. k + 1 \in 0..n
      BY <1>1
    <2> HIDE DEF Sorts
    <2> QED
      BY <1>3, <2>1
  <1> HIDE DEF n, T
  <1>5. n \in T
    <2>1. \A k \in 0..n : k \in T
      BY <1>1, <1>2, <1>4, AllNumbers
    <2> QED
      BY <1>1, <2>1
  <1>6. S \in SUBSET S
    OBVIOUS
  <1> QED
    BY <1>5, <1>6 DEF T, n

\* All of the set is there.
LEMMA SortedHasAll ==
  ASSUME NEW S, IsFiniteSet(S), NEW R, Orders(R, S),
         NEW keys \in [1..Cardinality(S) -> S], InOrder(keys, R), NEW x \in S
  PROVE  \E i \in DOMAIN keys : keys[i] = x
  <1> DEFINE D == 1..Cardinality(S)
  <1>1. Cardinality(S) \in Nat
    BY FS_CardinalityType
  <1>2. ASSUME NEW i \in D, NEW j \in D, keys[i] = keys[j]
        PROVE  i = j
    <2>1. keys[i] \in S /\ keys[j] \in S
      OBVIOUS
    <2>2. ~ (i < j) /\ ~ (j < i)
      BY <1>2, <2>1 DEF InOrder, Orders
    <2> QED
      BY <1>1, <2>2
  <1>3. keys \in Injection(D, S)
    <2>1. keys \in [D -> S] /\ \A i, j \in D : keys[i] = keys[j] => i = j
      BY <1>2
    <2> HIDE DEF D
    <2> QED
      BY <2>1 DEF Injection, IsInjective
  <1>4. Cardinality(D) = Cardinality(S)
    <2>1. Cardinality(1..Cardinality(S)) = Cardinality(S)
      BY <1>1, FS_Interval
    <2> QED
      BY <2>1
  <1>5. keys \in Surjection(D, S)
    <2> HIDE DEF D
    <2> QED
      BY <1>3, <1>4, FS_Injection
  <1> QED
    BY <1>5 DEF Surjection

--------------------------------------------------------------------------------
(* The order of strings *)

\* What it is to be a prefix, element by element.
Begins(s, t) == Len(s) <= Len(t) /\ \A i \in 1..Len(s) : s[i] = t[i]

LEMMA PrefixIs ==
  ASSUME NEW S, NEW s \in Seq(S), NEW t \in Seq(S)
  PROVE  IsPrefix(s, t) <=> Begins(s, t)
  <1>1. SubSeq(s, 1, Len(s)) = s
    BY SubSeqFull
  <1>2. CASE Len(s) <= Len(t)
    <2> DEFINE u == SubSeq(t, 1, Len(s))
    <2>1. /\ u \in Seq(S) /\ Len(u) = Len(s)
          /\ \A i \in 1..Len(s) : u[i] = t[i]
      BY <1>2
    <2> HIDE DEF u
    <2>2. s = u <=> \A i \in 1..Len(s) : s[i] = u[i]
      BY <2>1, SeqEqual
    <2>3. IsPrefix(s, t) <=> s = u
      BY <1>1, <1>2 DEF IsPrefix, u
    <2>4. (\A i \in 1..Len(s) : s[i] = u[i]) <=> (\A i \in 1..Len(s) : s[i] = t[i])
      BY <2>1
    <2> QED
      BY <1>2, <2>2, <2>3, <2>4 DEF Begins
  <1>3. CASE ~ (Len(s) <= Len(t))
    BY <1>3 DEF IsPrefix, Begins
  <1> QED
    BY <1>2, <1>3

\* The beginning of a sequence.
LEMMA FrontIs ==
  ASSUME NEW S, NEW s \in Seq(S), NEW n \in 0..Len(s)
  PROVE  /\ SubSeq(s, 1, n) \in Seq(S) /\ Len(SubSeq(s, 1, n)) = n
         /\ \A k \in 1..n : SubSeq(s, 1, n)[k] = s[k]
  <1>1. n \in Int /\ 1 \in Int /\ \A i \in 1..n : s[i] \in S
    OBVIOUS
  <1>2. /\ SubSeq(s, 1, n) \in Seq(S)
        /\ Len(SubSeq(s, 1, n)) = IF 1 <= n THEN n - 1 + 1 ELSE 0
        /\ \A i \in 1..n - 1 + 1 : SubSeq(s, 1, n)[i] = s[1 + i - 1]
    BY <1>1, SubSeqProperties
  <1> QED
    BY <1>2

\* s is less than t by what t has at i.
LessAt(s, t, i) ==
    /\ i \in 1..Len(t) /\ i <= Len(s) + 1
    /\ \A k \in 1..i - 1 : s[k] = t[k]
    /\ i <= Len(s) => s[i] < t[i]

\* The order of strings, by the place that decides.
LEMMA LexLessIs ==
  ASSUME NEW s \in Seq(Nat), NEW t \in Seq(Nat)
  PROVE  LexLess(s, t) <=> \E i \in 1..Len(t) : LessAt(s, t, i)
  <1>1. Len(s) \in Nat /\ Len(t) \in Nat /\ DOMAIN s = 1..Len(s) /\ DOMAIN t = 1..Len(t)
    OBVIOUS
  <1>2. IsStrictPrefix(s, t) <=> LessAt(s, t, Len(s) + 1)
    <2>1. IsPrefix(s, t) <=> Len(s) <= Len(t) /\ \A i \in 1..Len(s) : s[i] = t[i]
      <3>1. IsPrefix(s, t) <=> Begins(s, t)
        BY PrefixIs, Zenon
      <3> QED
        BY <3>1, Zenon DEF Begins
    <2>2. s = t <=> Len(s) = Len(t) /\ \A i \in 1..Len(s) : s[i] = t[i]
      BY SeqEqual
    <2>3. IsStrictPrefix(s, t) <=> Len(s) < Len(t) /\ \A i \in 1..Len(s) : s[i] = t[i]
      <3> DEFINE Same == \A i \in 1..Len(s) : s[i] = t[i]
      <3>1. IsStrictPrefix(s, t) <=> (Len(s) <= Len(t) /\ Same) /\ ~ (Len(s) = Len(t) /\ Same)
        BY <2>1, <2>2 DEF IsStrictPrefix
      <3>2. Len(s) < Len(t) <=> Len(s) <= Len(t) /\ Len(s) # Len(t)
        <4> DEFINE m == Len(s)
                   n == Len(t)
        <4>1. m \in Nat /\ n \in Nat
          BY <1>1
        <4> HIDE DEF m, n
        <4>2. m < n <=> m <= n /\ m # n
          BY <4>1
        <4> QED
          BY <4>2 DEF m, n
      <3> HIDE DEF Same
      <3>3. IsStrictPrefix(s, t) <=> Len(s) < Len(t) /\ Same
        BY <3>1, <3>2
      <3> QED
        BY <3>3 DEF Same
    <2>4. Len(s) + 1 \in 1..Len(t) <=> Len(s) < Len(t)
      BY <1>1
    <2>5. (Len(s) + 1) - 1 = Len(s) /\ ~ (Len(s) + 1 <= Len(s)) /\ Len(s) + 1 <= Len(s) + 1
      BY <1>1
    <2> QED
      BY <2>3, <2>4, <2>5 DEF LessAt
  <1>3. ASSUME NEW i \in DOMAIN s \cap DOMAIN t
        PROVE  SubSeq(s, 1, i - 1) = SubSeq(t, 1, i - 1) <=> \A k \in 1..i - 1 : s[k] = t[k]
    <2> DEFINE u == SubSeq(s, 1, i - 1)
               v == SubSeq(t, 1, i - 1)
    <2>1. /\ u \in Seq(Nat) /\ Len(u) = i - 1 /\ \A k \in 1..i - 1 : u[k] = s[k]
          /\ v \in Seq(Nat) /\ Len(v) = i - 1 /\ \A k \in 1..i - 1 : v[k] = t[k]
      <3>1. i - 1 \in 0..Len(s) /\ i - 1 \in 0..Len(t)
        BY <1>1
      <3> QED
        BY <3>1, FrontIs
    <2> HIDE DEF u, v
    <2>2. u = v <=> \A k \in 1..i - 1 : u[k] = v[k]
      BY <2>1, SeqEqual
    <2> QED
      BY <2>1, <2>2 DEF u, v
  <1>4. (\E i \in DOMAIN s \cap DOMAIN t :
            SubSeq(s, 1, i - 1) = SubSeq(t, 1, i - 1) /\ s[i] < t[i])
        <=> \E i \in 1..Len(t) : i <= Len(s) /\ LessAt(s, t, i)
    <2>1. \A i \in DOMAIN s \cap DOMAIN t : i \in 1..Len(t) /\ i <= Len(s) /\ i <= Len(s) + 1
      BY <1>1
    <2>2. \A i \in 1..Len(t) : i <= Len(s) => i \in DOMAIN s \cap DOMAIN t
      BY <1>1
    <2> QED
      BY <1>3, <2>1, <2>2, Zenon DEF LessAt
  <1>5. \A i \in 1..Len(t) : LessAt(s, t, i) => i <= Len(s) \/ i = Len(s) + 1
    BY <1>1 DEF LessAt
  <1>6. LessAt(s, t, Len(s) + 1) => Len(s) + 1 \in 1..Len(t)
    BY DEF LessAt
  <1> QED
    BY <1>2, <1>4, <1>5, <1>6 DEF LexLess

\* It is total,
LEMMA LexTotal ==
  ASSUME NEW s \in Seq(Nat), NEW t \in Seq(Nat), s # t
  PROVE  LexLess(s, t) \/ LexLess(t, s)
  <1> DEFINE T == {i \in 1..Len(s) : i <= Len(t) /\ s[i] # t[i]}
  <1>1. Len(s) \in Nat /\ Len(t) \in Nat
    OBVIOUS
  <1>2. CASE T = {}
    <2>1. \A i \in 1..Len(s) : i <= Len(t) => s[i] = t[i]
      BY <1>2
    <2>2. Len(s) # Len(t)
      BY <1>1, <2>1, SeqEqual
    <2>3. CASE Len(s) < Len(t)
      <3>1. LessAt(s, t, Len(s) + 1) /\ Len(s) + 1 \in 1..Len(t)
        BY <1>1, <2>1, <2>3 DEF LessAt
      <3> QED
        BY <3>1, LexLessIs
    <2>4. CASE Len(t) < Len(s)
      <3>1. LessAt(t, s, Len(t) + 1) /\ Len(t) + 1 \in 1..Len(s)
        BY <1>1, <2>1, <2>4 DEF LessAt
      <3> QED
        BY <3>1, LexLessIs
    <2> QED
      BY <1>1, <2>2, <2>3, <2>4
  <1>3. CASE T # {}
    <2>1. T \subseteq Nat
      OBVIOUS
    <2>2. PICK i \in T : \A j \in T : i <= j
      <3> HIDE DEF T
      <3> QED
        BY <1>3, <2>1, LeastNumber
    <2>3. \A k \in 1..i - 1 : s[k] = t[k]
      <3> TAKE k \in 1..i - 1
      <3>1. k \in 1..Len(s) /\ k <= Len(t) /\ ~ (i <= k)
        BY <1>1, <2>2
      <3> QED
        BY <2>2, <3>1
    <2>4. i \in 1..Len(s) /\ i \in 1..Len(t) /\ s[i] # t[i] /\ s[i] \in Nat /\ t[i] \in Nat
      BY <1>1, <2>2
    <2>5. s[i] < t[i] \/ t[i] < s[i]
      BY <2>4
    <2>6. i <= Len(s) + 1 /\ i <= Len(t) + 1
      BY <1>1, <2>4
    <2>7. CASE s[i] < t[i]
      <3>1. LessAt(s, t, i)
        BY <2>3, <2>4, <2>6, <2>7 DEF LessAt
      <3> QED
        BY <2>4, <3>1, LexLessIs
    <2>8. CASE t[i] < s[i]
      <3>1. LessAt(t, s, i)
        BY <2>3, <2>4, <2>6, <2>8 DEF LessAt
      <3> QED
        BY <2>4, <3>1, LexLessIs
    <2> QED
      BY <2>5, <2>7, <2>8
  <1> QED
    BY <1>2, <1>3

\* and strict,
LEMMA LexIrreflexive ==
  ASSUME NEW s \in Seq(Nat)
  PROVE  ~ LexLess(s, s)
  <1> SUFFICES ASSUME NEW i \in 1..Len(s), LessAt(s, s, i)
               PROVE  FALSE
    BY LexLessIs
  <1>1. i <= Len(s) /\ s[i] \in Nat
    OBVIOUS
  <1> QED
    BY <1>1 DEF LessAt

\* and transitive.
LEMMA LexTransitive ==
  ASSUME NEW s \in Seq(Nat), NEW t \in Seq(Nat), NEW u \in Seq(Nat),
         LexLess(s, t), LexLess(t, u)
  PROVE  LexLess(s, u)
  <1>1. PICK i \in 1..Len(t) : LessAt(s, t, i)
    BY LexLessIs
  <1>2. PICK j \in 1..Len(u) : LessAt(t, u, j)
    BY LexLessIs
  <1>3. Len(s) \in Nat /\ Len(t) \in Nat /\ Len(u) \in Nat
    OBVIOUS
  <1>4. \A k \in 1..Len(s) : s[k] \in Nat
    OBVIOUS
  <1>5. \A k \in 1..Len(t) : t[k] \in Nat
    OBVIOUS
  <1>6. \A k \in 1..Len(u) : u[k] \in Nat
    OBVIOUS
  <1>7. CASE i < j
    <2>1. i \in 1..Len(u) /\ i \in 1..j - 1 /\ i <= Len(s) + 1
      BY <1>1, <1>2, <1>3, <1>7 DEF LessAt
    <2>2. t[i] = u[i]
      BY <1>2, <2>1 DEF LessAt
    <2>3. \A k \in 1..i - 1 : k \in 1..j - 1
      BY <2>1
    <2>4. \A k \in 1..i - 1 : s[k] = u[k]
      BY <1>1, <1>2, <2>3 DEF LessAt
    <2>5. LessAt(s, u, i)
      BY <1>1, <2>1, <2>2, <2>4 DEF LessAt
    <2> QED
      BY <2>1, <2>5, LexLessIs
  <1>8. CASE j < i
    <2>1. j \in 1..i - 1 /\ j \in 1..Len(s) /\ j <= Len(s) + 1 /\ j <= Len(t)
      <3>1. i \in 1..Len(t) /\ i <= Len(s) + 1 /\ j \in 1..Len(u)
        BY <1>1 DEF LessAt
      <3> QED
        BY <1>3, <1>8, <3>1
    <2>2. s[j] = t[j]
      BY <1>1, <2>1 DEF LessAt
    <2>3. \A k \in 1..j - 1 : k \in 1..i - 1
      BY <2>1
    <2>4. \A k \in 1..j - 1 : s[k] = u[k]
      BY <1>1, <1>2, <2>3 DEF LessAt
    <2>5. LessAt(s, u, j)
      BY <1>2, <2>1, <2>2, <2>4 DEF LessAt
    <2> QED
      BY <2>5, LexLessIs
  <1>9. CASE i = j
    <2>1. \A k \in 1..i - 1 : s[k] = u[k]
      BY <1>1, <1>2, <1>9 DEF LessAt
    <2>2. i \in 1..Len(u) /\ i <= Len(s) + 1 /\ i <= Len(t)
      BY <1>1, <1>2, <1>9 DEF LessAt
    <2>3. t[i] < u[i] /\ t[i] \in Nat /\ u[i] \in Nat
      BY <1>2, <1>5, <1>6, <1>9, <2>2 DEF LessAt
    <2>4. i <= Len(s) => s[i] < u[i]
      <3> SUFFICES ASSUME i <= Len(s)
                   PROVE  s[i] < u[i]
        OBVIOUS
      <3>1. s[i] < t[i] /\ s[i] \in Nat
        BY <1>1, <1>3, <1>4 DEF LessAt
      <3>2. \A x, y, z \in Nat : x < y /\ y < z => x < z
        OBVIOUS
      <3> QED
        BY <2>3, <3>1, <3>2, Zenon
    <2>5. LessAt(s, u, i)
      BY <2>1, <2>2, <2>4 DEF LessAt
    <2> QED
      BY <2>2, <2>5, LexLessIs
  <1> QED
    BY <1>7, <1>8, <1>9

\* Of two prefixes of a string, the one that is less is the shorter.
LEMMA PrefixesByLength ==
  ASSUME NEW s \in Seq(Nat), NEW t \in Seq(Nat), NEW u \in Seq(Nat),
         IsPrefix(s, u), IsPrefix(t, u)
  PROVE  /\ LexLess(s, t) => Len(s) < Len(t)
         /\ Len(s) = Len(t) => s = t
  <1>1. /\ Len(s) <= Len(u) /\ \A i \in 1..Len(s) : s[i] = u[i]
        /\ Len(t) <= Len(u) /\ \A i \in 1..Len(t) : t[i] = u[i]
    <2>1. Begins(s, u) /\ Begins(t, u)
      BY PrefixIs, Zenon
    <2> QED
      BY <2>1, Zenon DEF Begins
  <1>2. ASSUME LexLess(s, t)
        PROVE  Len(s) < Len(t)
    <2>1. PICK i \in 1..Len(t) : LessAt(s, t, i)
      BY <1>2, LexLessIs
    <2>2. Len(s) \in Nat /\ Len(t) \in Nat
      OBVIOUS
    <2>3. ASSUME i <= Len(s)
          PROVE  FALSE
      <3>1. s[i] = u[i] /\ t[i] = u[i] /\ u[i] \in Nat /\ s[i] < t[i]
        BY <1>1, <2>1, <2>2, <2>3 DEF LessAt
      <3> QED
        BY <3>1
    <2> QED
      BY <2>1, <2>2, <2>3
  <1>3. Len(s) = Len(t) => s = t
    BY <1>1, SeqEqual
  <1> QED
    BY <1>2, <1>3

--------------------------------------------------------------------------------
(* Walks of the maps *)

\* The keys of a set of redirects, in order.
LEMMA LexKeys ==
  ASSUME NEW map, IsFiniteSet(DOMAIN map), DOMAIN map \subseteq Seq(Nat)
  PROVE  \E n \in Nat :
            /\ Keys(map, LexLess) \in [1..n -> DOMAIN map]
            /\ \A i, j \in 1..n : i < j => LexLess(Keys(map, LexLess)[i], Keys(map, LexLess)[j])
            /\ \A k \in DOMAIN map : \E i \in 1..n : Keys(map, LexLess)[i] = k
  <1> DEFINE S == DOMAIN map
             n == Cardinality(S)
             R == {p \in S \X S : LexLess(p[1], p[2])}
             Fits(keys) == \A i, j \in DOMAIN keys : i < j => LexLess(keys[i], keys[j])
             keys == CHOOSE keys \in [1..n -> S] : Fits(keys)
  <1>1. \A x, y \in S : <<x, y>> \in R <=> LexLess(x, y)
    OBVIOUS
  <1>2. n \in Nat
    BY FS_CardinalityType
  <1>3. Orders(R, S)
    <2>1. \A x, y \in S : x = y \/ LexLess(x, y) \/ LexLess(y, x)
      BY LexTotal
    <2>2. \A x, y, z \in S : LexLess(x, y) /\ LexLess(y, z) => LexLess(x, z)
      BY LexTransitive
    <2>3. \A x \in S : ~ LexLess(x, x)
      BY LexIrreflexive
    <2> HIDE DEF R, S
    <2> QED
      BY <1>1, <2>1, <2>2, <2>3, Zenon DEF Orders
  <1>4. \A q \in [1..n -> S] : Fits(q) <=> InOrder(q, R)
    <2> TAKE q \in [1..n -> S]
    <2>1. DOMAIN q = 1..n /\ \A i \in 1..n : q[i] \in S
      OBVIOUS
    <2> HIDE DEF R, S, n
    <2> QED
      BY <1>1, <2>1 DEF InOrder
  <1>5. Keys(map, LexLess) = keys
    BY Zenon DEF Keys
  <1> HIDE DEF R, Fits
  <1>6. keys \in [1..n -> S] /\ Fits(keys)
    <2>1. \E q \in [1..n -> S] : Fits(q)
      BY <1>3, <1>4, SortedExists
    <2> HIDE DEF n, S
    <2> QED
      BY <2>1, Zenon
  <1> HIDE DEF keys
  <1>7. \A k \in S : \E i \in DOMAIN keys : keys[i] = k
    BY <1>3, <1>4, <1>6, SortedHasAll
  <1>8. DOMAIN keys = 1..n
    BY <1>6
  <1>9. \A i, j \in 1..n : i < j => LexLess(keys[i], keys[j])
    BY <1>6, <1>8 DEF Fits
  <1> QED
    BY <1>2, <1>5, <1>6, <1>7, <1>8, <1>9, Zenon

\* A key of a table.
PathPairs == Seq(Nat) \X Seq(Nat)

\* The order of the keys of a table is total, strict and transitive.
LEMMA KeyOrder ==
  ASSUME NEW x \in PathPairs, NEW y \in PathPairs, NEW z \in PathPairs
  PROVE  /\ x = y \/ KeyLess(x, y) \/ KeyLess(y, x)
         /\ ~ KeyLess(x, x)
         /\ KeyLess(x, y) /\ KeyLess(y, z) => KeyLess(x, z)
  <1>1. /\ x[1] \in Seq(Nat) /\ x[2] \in Seq(Nat)
        /\ y[1] \in Seq(Nat) /\ y[2] \in Seq(Nat)
        /\ z[1] \in Seq(Nat) /\ z[2] \in Seq(Nat)
        /\ x[1] = y[1] /\ x[2] = y[2] => x = y
    <2>1. \A p \in PathPairs :
            p[1] \in Seq(Nat) /\ p[2] \in Seq(Nat) /\ p = <<p[1], p[2]>>
      BY DEF PathPairs
    <2> QED
      BY <2>1, Zenon
  <1>2. x = y \/ KeyLess(x, y) \/ KeyLess(y, x)
    BY <1>1, LexTotal, Zenon DEF KeyLess
  <1>3. ~ KeyLess(x, x)
    BY <1>1, LexIrreflexive, Zenon DEF KeyLess
  <1>4. KeyLess(x, y) /\ KeyLess(y, z) => KeyLess(x, z)
    <2>1. LexLess(x[1], y[1]) /\ LexLess(y[1], z[1]) => LexLess(x[1], z[1])
      BY <1>1, LexTransitive
    <2>2. LexLess(x[2], y[2]) /\ LexLess(y[2], z[2]) => LexLess(x[2], z[2])
      BY <1>1, LexTransitive
    <2> QED
      BY <2>1, <2>2, Zenon DEF KeyLess
  <1> QED
    BY <1>2, <1>3, <1>4

\* The keys of a table, in order.
LEMMA TableKeys ==
  ASSUME NEW map, IsFiniteSet(DOMAIN map), DOMAIN map \subseteq PathPairs
  PROVE  \E n \in Nat :
            /\ Keys(map, KeyLess) \in [1..n -> DOMAIN map]
            /\ \A i, j \in 1..n : i < j => KeyLess(Keys(map, KeyLess)[i], Keys(map, KeyLess)[j])
            /\ \A k \in DOMAIN map : \E i \in 1..n : Keys(map, KeyLess)[i] = k
  <1> DEFINE S == DOMAIN map
             n == Cardinality(S)
             R == {p \in S \X S : KeyLess(p[1], p[2])}
             Fits(keys) == \A i, j \in DOMAIN keys : i < j => KeyLess(keys[i], keys[j])
             keys == CHOOSE keys \in [1..n -> S] : Fits(keys)
  <1>1. \A x, y \in S : <<x, y>> \in R <=> KeyLess(x, y)
    OBVIOUS
  <1>2. n \in Nat
    BY FS_CardinalityType
  <1>3. Orders(R, S)
    <2>1. \A x, y \in S : x = y \/ KeyLess(x, y) \/ KeyLess(y, x)
      BY KeyOrder
    <2>2. \A x, y, z \in S : KeyLess(x, y) /\ KeyLess(y, z) => KeyLess(x, z)
      BY KeyOrder
    <2>3. \A x \in S : ~ KeyLess(x, x)
      BY KeyOrder
    <2> HIDE DEF R, S
    <2> QED
      BY <1>1, <2>1, <2>2, <2>3, Zenon DEF Orders
  <1>4. \A q \in [1..n -> S] : Fits(q) <=> InOrder(q, R)
    <2> TAKE q \in [1..n -> S]
    <2>1. DOMAIN q = 1..n /\ \A i \in 1..n : q[i] \in S
      OBVIOUS
    <2> HIDE DEF R, S, n
    <2> QED
      BY <1>1, <2>1 DEF InOrder
  <1>5. Keys(map, KeyLess) = keys
    BY Zenon DEF Keys
  <1> HIDE DEF R, Fits
  <1>6. keys \in [1..n -> S] /\ Fits(keys)
    <2>1. \E q \in [1..n -> S] : Fits(q)
      BY <1>3, <1>4, SortedExists
    <2> HIDE DEF n, S
    <2> QED
      BY <2>1, Zenon
  <1> HIDE DEF keys
  <1>7. \A k \in S : \E i \in DOMAIN keys : keys[i] = k
    BY <1>3, <1>4, <1>6, SortedHasAll
  <1>8. DOMAIN keys = 1..n
    BY <1>6
  <1>9. \A i, j \in 1..n : i < j => KeyLess(keys[i], keys[j])
    BY <1>6, <1>8 DEF Fits
  <1> QED
    BY <1>2, <1>5, <1>6, <1>7, <1>8, <1>9, Zenon

\* A redirect of a parcel is that of the last key of the table that is for it.
IsFor(k, path, before) == IsPrefix(k[1], path) /\ k[2] = before

Selects(set, tab, path, K) ==
    /\ \A before : before \in DOMAIN set <=> \E k \in K : IsFor(k, path, before)
    /\ \A before \in DOMAIN set : \E k \in K :
            /\ IsFor(k, path, before) /\ set[before] = tab[k]
            /\ \A j \in K : IsFor(j, path, before) => j = k \/ KeyLess(j, k)

VisitsFor(path, tab) == [of |-> "visit", path |-> path, table |-> tab]

LEMMA ComputeIsFold ==
  ASSUME NEW tab, NEW path
  PROVE  Compute(tab, path) = Fold(VisitsFor(path, tab), NoRedirects, Keys(tab, KeyLess))
  BY ZenonT(60) DEF Compute, Fold, FoldLeft, MapThenFoldSet, Apply, VisitsFor

\* A step of the walk.
LEMMA VisitSelects ==
  ASSUME NEW tab, NEW path, NEW K, NEW set, Selects(set, tab, path, K),
         NEW k, \A j \in K : KeyLess(j, k)
  PROVE  Selects(Apply(VisitsFor(path, tab), set, k), tab, path, K \cup {k})
  <1> DEFINE new == Apply(VisitsFor(path, tab), set, k)
  <1>1. new = IF IsPrefix(k[1], path) THEN Assign(set, k[2], tab[k]) ELSE set
    BY DEF Apply, VisitsFor
  <1>2. CASE ~ IsPrefix(k[1], path)
    <2>1. new = set /\ \A before : ~ IsFor(k, path, before)
      BY <1>1, <1>2 DEF IsFor
    <2> HIDE DEF new
    <2> QED
      BY <2>1, Zenon DEF Selects, new
  <1>3. CASE IsPrefix(k[1], path)
    <2>1. /\ DOMAIN new = DOMAIN set \cup {k[2]}
          /\ new[k[2]] = tab[k]
          /\ \A before \in DOMAIN set : before # k[2] => new[before] = set[before]
      BY <1>1, <1>3 DEF Assign
    <2>2. \A before : IsFor(k, path, before) <=> before = k[2]
      BY <1>3 DEF IsFor
    <2> HIDE DEF new
    <2>3. ASSUME NEW before
          PROVE  before \in DOMAIN new <=> \E j \in K \cup {k} : IsFor(j, path, before)
      BY <2>1, <2>2 DEF Selects
    <2>4. ASSUME NEW before \in DOMAIN new
          PROVE  \E i \in K \cup {k} :
                    /\ IsFor(i, path, before) /\ new[before] = tab[i]
                    /\ \A j \in K \cup {k} : IsFor(j, path, before) => j = i \/ KeyLess(j, i)
      <3>1. CASE before = k[2]
        BY <2>1, <2>2, <3>1
      <3>2. CASE before # k[2]
        <4>1. before \in DOMAIN set /\ new[before] = set[before] /\ ~ IsFor(k, path, before)
          BY <2>1, <2>2, <3>2
        <4>2. PICK i \in K :
                    /\ IsFor(i, path, before) /\ set[before] = tab[i]
                    /\ \A j \in K : IsFor(j, path, before) => j = i \/ KeyLess(j, i)
          BY <4>1 DEF Selects
        <4> QED
          BY <4>1, <4>2
      <3> QED
        BY <3>1, <3>2
    <2> QED
      BY <2>3, <2>4 DEF Selects, new
  <1> QED
    BY <1>2, <1>3

\* The walk.
LEMMA ComputeSelects ==
  ASSUME NEW tab, IsFiniteSet(DOMAIN tab), DOMAIN tab \subseteq PathPairs, NEW path
  PROVE  Selects(Compute(tab, path), tab, path, DOMAIN tab)
  <1> DEFINE f == VisitsFor(path, tab)
             keys == Keys(tab, KeyLess)
             Done(i) == {keys[j] : j \in 1..i}
  <1>1. PICK n \in Nat :
            /\ keys \in [1..n -> DOMAIN tab]
            /\ \A i, j \in 1..n : i < j => KeyLess(keys[i], keys[j])
            /\ \A k \in DOMAIN tab : \E i \in 1..n : keys[i] = k
    BY TableKeys
  <1>2. Compute(tab, path) = Fold(f, NoRedirects, keys)
    BY ComputeIsFold
  <1> HIDE DEF keys
  <1>3. DOMAIN keys = 1..n
    BY <1>1
  <1>4. PICK r : IsRunOf(r, f, NoRedirects, keys, n) /\ Fold(f, NoRedirects, keys) = r[n]
    BY <1>3, FoldHasRun
  <1> DEFINE T == {i \in 0..n : Selects(r[i], tab, path, Done(i))}
  <1>5. 0 \in T
    <2>1. r[0] = NoRedirects /\ DOMAIN NoRedirects = {}
      BY <1>4 DEF IsRunOf, NoRedirects
    <2>2. Done(0) = {}
      OBVIOUS
    <2> HIDE DEF Done
    <2> QED
      BY <2>1, <2>2 DEF Selects
  <1>6. \A i \in 0..n - 1 : i \in T => i + 1 \in T
    <2> SUFFICES ASSUME NEW i \in 0..n - 1, Selects(r[i], tab, path, Done(i))
                 PROVE  Selects(r[i + 1], tab, path, Done(i + 1))
      <3>1. \A i \in 0..n - 1 : i + 1 \in 0..n
        OBVIOUS
      <3> HIDE DEF Done
      <3> QED
        BY <3>1
    <2>1. i + 1 \in 1..n /\ (i + 1) - 1 = i
      OBVIOUS
    <2>2. r[i + 1] = Apply(f, r[i], keys[i + 1])
      BY <1>4, <2>1 DEF IsRunOf
    <2>3. Done(i + 1) = Done(i) \cup {keys[i + 1]}
      <3>1. 1..i + 1 = (1..i) \cup {i + 1}
        OBVIOUS
      <3> QED
        BY <3>1
    <2>4. \A k \in Done(i) : KeyLess(k, keys[i + 1])
      <3>1. \A j \in 1..i : j \in 1..n /\ j < i + 1
        OBVIOUS
      <3> QED
        BY <1>1, <2>1, <3>1
    <2> HIDE DEF Done, f
    <2> QED
      BY <2>2, <2>3, <2>4, VisitSelects DEF f
  <1> HIDE DEF T
  <1>7. n \in T
    <2>1. \A i \in 0..n : i \in T
      BY <1>5, <1>6, AllNumbers
    <2> QED
      BY <2>1
  <1>8. Done(n) = DOMAIN tab
    BY <1>1
  <1> HIDE DEF Done
  <1> QED
    BY <1>2, <1>4, <1>7, <1>8 DEF T

--------------------------------------------------------------------------------
(* RedirectsPickTheMostSpecific *)

TableInv ==
    /\ table \in [DOMAIN table -> SomePaths]
    /\ DOMAIN table \subseteq SomePaths \X SomePaths
    /\ IsFiniteSet(DOMAIN table)

LEMMA TableStep == TableInv /\ [TableNext]_table => TableInv'
  <1> SUFFICES ASSUME TableInv, [TableNext]_table
               PROVE  TableInv'
    OBVIOUS
  <1>1. CASE UNCHANGED table
    BY <1>1 DEF TableInv
  <1>2. ASSUME NEW subject \in SomePaths, NEW before \in SomePaths, NEW after \in SomePaths,
               AddRedirect(subject, before, after)
        PROVE  TableInv'
    <2> DEFINE D == DOMAIN table \cup {<<subject, before>>}
    <2>1. table' = [k \in D |-> IF k = <<subject, before>> THEN after ELSE table[k]]
      BY <1>2 DEF AddRedirect, Add, Assign
    <2>2. table' \in [D -> SomePaths] /\ DOMAIN table' = D
      BY <2>1 DEF TableInv
    <2>3. IsFiniteSet(D)
      BY FS_AddElement DEF TableInv
    <2>4. D \subseteq SomePaths \X SomePaths
      BY DEF TableInv
    <2> HIDE DEF D
    <2> QED
      BY <2>2, <2>3, <2>4 DEF TableInv
  <1> QED
    BY <1>1, <1>2 DEF TableNext

LEMMA TableStarts == TableInit => TableInv
  <1>1. DOMAIN NoRedirects = {} /\ NoRedirects \in [{} -> SomePaths]
    BY DEF NoRedirects
  <1> QED
    BY <1>1, FS_EmptySet DEF TableInit, TableInv

LEMMA TablesStay == TableSpec => []TableInv
  BY TableStarts, TableStep, PTL DEF TableSpec

\* The longest of a set of prefixes of a path.
LEMMA LongestIs ==
  ASSUME NEW path \in Seq(Nat), NEW M, \A s \in M : s \in Seq(Nat) /\ IsPrefix(s, path),
         NEW m \in M, \A s \in M : s = m \/ LexLess(s, m)
  PROVE  Longest(M) = m
  <1> DEFINE IsLongest(s) == s \in M /\ \A t \in M : Len(t) <= Len(s)
  <1>1. \A t \in M : Len(t) \in Nat /\ Len(t) <= Len(m)
    <2> TAKE t \in M
    <2>1. LexLess(t, m) => Len(t) < Len(m)
      BY PrefixesByLength
    <2>2. Len(t) \in Nat /\ Len(m) \in Nat
      OBVIOUS
    <2>3. t = m => Len(t) = Len(m)
      OBVIOUS
    <2> QED
      BY <2>1, <2>2, <2>3
  <1>2. IsLongest(m)
    BY <1>1
  <1>3. ASSUME NEW s, IsLongest(s)
        PROVE  s = m
    <2>1. Len(s) = Len(m)
      <3>1. Len(s) \in Nat /\ Len(m) \in Nat /\ Len(s) <= Len(m) /\ Len(m) <= Len(s)
        BY <1>1, <1>3
      <3> QED
        BY <3>1
    <2> QED
      BY <1>3, <2>1, PrefixesByLength
  <1>4. Longest(M) = CHOOSE s : IsLongest(s)
    BY Zenon DEF Longest
  <1> HIDE DEF IsLongest
  <1> QED
    BY <1>2, <1>3, <1>4

\* Which subjects are chosen.
LEMMA MostSpecificSubject ==
  ASSUME TableInv, NEW path \in SomePaths
  PROVE  PicksMostSpecificSubject(Compute(table, path), path)
  <1> DEFINE set == Compute(table, path)
  <1>1. SomePaths \subseteq Seq(Nat) /\ path \in Seq(Nat)
    BY PathsAssumption
  <1>2. \A k \in DOMAIN table : /\ k[1] \in SomePaths /\ k[2] \in SomePaths /\ k = <<k[1], k[2]>>
    BY DEF TableInv
  <1>3. DOMAIN table \subseteq PathPairs
    BY <1>1 DEF TableInv, PathPairs
  <1>4. Selects(set, table, path, DOMAIN table)
    BY <1>3, ComputeSelects DEF TableInv
  <1> HIDE DEF set
  <1>5. \A before, s : s \in SubjectsFor(path, before) <=>
            /\ s \in SomePaths /\ <<s, before>> \in DOMAIN table
            /\ IsFor(<<s, before>>, path, before)
    BY DEF SubjectsFor, IsFor
  <1>6. ASSUME NEW before
        PROVE  before \in DOMAIN set <=> before \in SomePaths /\ SubjectsFor(path, before) # {}
    <2>1. ASSUME before \in DOMAIN set
          PROVE  before \in SomePaths /\ SubjectsFor(path, before) # {}
      <3>1. PICK k \in DOMAIN table : IsFor(k, path, before)
        BY <1>4, <2>1 DEF Selects
      <3>2. k[1] \in SomePaths /\ before \in SomePaths /\ k = <<k[1], before>>
        BY <1>2, <3>1 DEF IsFor
      <3>3. k[1] \in SubjectsFor(path, before)
        BY <1>5, <3>1, <3>2
      <3> QED
        BY <3>2, <3>3
    <2>2. ASSUME SubjectsFor(path, before) # {}
          PROVE  before \in DOMAIN set
      <3>1. PICK s : s \in SubjectsFor(path, before)
        BY <2>2
      <3> QED
        BY <1>4, <1>5, <3>1 DEF Selects
    <2> QED
      BY <2>1, <2>2
  <1>7. ASSUME NEW before \in DOMAIN set
        PROVE  set[before] = table[<<Longest(SubjectsFor(path, before)), before>>]
    <2> DEFINE M == SubjectsFor(path, before)
    <2>1. PICK k \in DOMAIN table :
                /\ IsFor(k, path, before) /\ set[before] = table[k]
                /\ \A j \in DOMAIN table : IsFor(j, path, before) => j = k \/ KeyLess(j, k)
      BY <1>4 DEF Selects
    <2>2. k[1] \in SomePaths /\ before \in SomePaths /\ k = <<k[1], before>> /\ k[2] = before
      BY <1>2, <2>1 DEF IsFor
    <2>3. k[1] \in M
      BY <1>5, <2>1, <2>2
    <2>4. \A s \in M : s \in Seq(Nat) /\ IsPrefix(s, path)
      BY <1>1 DEF SubjectsFor
    <2>5. ASSUME NEW s \in M
          PROVE  s = k[1] \/ LexLess(s, k[1])
      <3>1. <<s, before>> = k \/ KeyLess(<<s, before>>, k)
        BY <1>5, <2>1
      <3>2. <<s, before>>[1] = s /\ <<s, before>>[2] = before
        OBVIOUS
      <3> QED
        BY <3>1, <3>2 DEF KeyLess
    <2> HIDE DEF M
    <2>6. Longest(M) = k[1]
      BY <1>1, <2>3, <2>4, <2>5, LongestIs
    <2> QED
      BY <2>1, <2>2, <2>6 DEF M
  <1> QED
    <2>1. DOMAIN set = {before \in SomePaths : SubjectsFor(path, before) # {}}
      BY <1>6
    <2> QED
      BY <1>7, <2>1 DEF PicksMostSpecificSubject, set

\* The redirects of a parcel are finitely many, and between paths.
LEMMA ComputedSet ==
  ASSUME TableInv, NEW subject \in SomePaths
  PROVE  /\ IsFiniteSet(DOMAIN Compute(table, subject))
         /\ \A before \in DOMAIN Compute(table, subject) :
                before \in SomePaths /\ Compute(table, subject)[before] \in SomePaths
  <1> DEFINE set == Compute(table, subject)
             befores == {k[2] : k \in DOMAIN table}
  <1>1. SomePaths \subseteq Seq(Nat)
    BY PathsAssumption
  <1>2. DOMAIN table \subseteq PathPairs
    BY <1>1 DEF TableInv, PathPairs
  <1>3. Selects(set, table, subject, DOMAIN table)
    BY <1>2, ComputeSelects DEF TableInv
  <1> HIDE DEF set
  <1>4. IsFiniteSet(befores)
    <2> DEFINE snd == [k \in DOMAIN table |-> k[2]]
    <2>1. snd \in Surjection(DOMAIN table, befores)
      BY DEF Surjection
    <2> HIDE DEF snd, befores
    <2> QED
      BY <2>1, FS_Surjection DEF TableInv
  <1>5. DOMAIN set \in SUBSET befores
    BY <1>3 DEF Selects, IsFor
  <1>6. IsFiniteSet(DOMAIN set)
    <2> HIDE DEF befores
    <2> QED
      BY <1>4, <1>5, FS_Subset
  <1>7. ASSUME NEW before \in DOMAIN set
        PROVE  before \in SomePaths /\ set[before] \in SomePaths
    <2>1. PICK k \in DOMAIN table : IsFor(k, subject, before) /\ set[before] = table[k]
      BY <1>3 DEF Selects
    <2> QED
      BY <2>1 DEF IsFor, TableInv
  <1> QED
    BY <1>6, <1>7 DEF set

\* A path no redirect is for.
LEMMA NotRedirected ==
  ASSUME NEW set, IsFiniteSet(DOMAIN set), DOMAIN set \subseteq Seq(Nat),
         NEW path, \A before \in DOMAIN set : ~ IsPrefix(before, path)
  PROVE  Resolve(set, path) = path
  <1> DEFINE keys == Keys(set, LexLess)
             places == {i \in 1..Len(keys) : IsPrefix(keys[i], path)}
             last == IF places # {} THEN Max(places) ELSE 0
  <1>1. PICK n \in Nat : keys \in [1..n -> DOMAIN set]
    BY LexKeys
  <1>2. Resolve(set, path) =
            IF last = 0 THEN path
            ELSE set[keys[last]] \o SubSeq(path, Len(keys[last]) + 1, Len(path))
    BY Zenon DEF Resolve, SelectLastInSeq
  <1>3. places = {}
    <2> HIDE DEF keys
    <2>1. Len(keys) = n
      BY <1>1
    <2> QED
      BY <1>1, <2>1
  <1> QED
    BY <1>2, <1>3

\* What is resolved.
LEMMA LongestPrefixOnce ==
  ASSUME NEW set, IsFiniteSet(DOMAIN set), DOMAIN set \subseteq Seq(Nat),
         NEW path \in Seq(Nat)
  PROVE  RewritesLongestPrefixOnce(set, path)
  <1> DEFINE keys == Keys(set, LexLess)
             starts == {before \in DOMAIN set : IsPrefix(before, path)}
             places == {i \in 1..Len(keys) : IsPrefix(keys[i], path)}
             last == IF places # {} THEN Max(places) ELSE 0
  <1>1. PICK n \in Nat :
            /\ keys \in [1..n -> DOMAIN set]
            /\ \A i, j \in 1..n : i < j => LexLess(keys[i], keys[j])
            /\ \A k \in DOMAIN set : \E i \in 1..n : keys[i] = k
    BY LexKeys
  <1>2. Resolve(set, path) =
            IF last = 0 THEN path
            ELSE set[keys[last]] \o SubSeq(path, Len(keys[last]) + 1, Len(path))
    BY Zenon DEF Resolve, SelectLastInSeq
  <1> HIDE DEF keys
  <1>3. Len(keys) = n
    BY <1>1
  <1>4. CASE starts = {}
    <2>1. Resolve(set, path) = path
      BY <1>4, NotRedirected
    <2> QED
      BY <1>4, <2>1 DEF RewritesLongestPrefixOnce
  <1>5. CASE starts # {}
    <2>1. places \in SUBSET (1..n) /\ places # {}
      BY <1>1, <1>3, <1>5
    <2>2. last \in places /\ \A i \in places : i <= last
      <3>1. last = Max(places)
        BY <2>1
      <3> HIDE DEF places, last
      <3> QED
        BY <2>1, <3>1, MaxExists
    <2>3. last \in 1..n /\ last # 0
      BY <2>1, <2>2
    <2> DEFINE m == keys[last]
               rest == SubSeq(path, Len(m) + 1, Len(path))
    <2>4. m \in starts
      BY <1>1, <2>2, <2>3
    <2> HIDE DEF last
    <2>5. ASSUME NEW s \in starts
          PROVE  s = m \/ LexLess(s, m)
      <3>1. PICK i \in 1..n : keys[i] = s
        BY <1>1
      <3>2. i <= last
        BY <1>3, <2>2, <3>1
      <3> QED
        BY <1>1, <2>3, <3>1, <3>2
    <2>6. \A s \in starts : s \in Seq(Nat) /\ IsPrefix(s, path)
      OBVIOUS
    <2>7. Longest(starts) = m
      <3> HIDE DEF starts, m
      <3> QED
        BY <2>4, <2>5, <2>6, LongestIs
    <2>8. Resolve(set, path) = set[m] \o rest
      BY <1>2, <2>3
    <2>9. m \in Seq(Nat) /\ Len(m) <= Len(path) /\ \A i \in 1..Len(m) : m[i] = path[i]
      <3>1. m \in Seq(Nat) /\ path \in Seq(Nat) /\ IsPrefix(m, path)
        BY <2>4, <2>6
      <3>2. Begins(m, path)
        BY <3>1, PrefixIs, Zenon
      <3> QED
        BY <3>1, <3>2, Zenon DEF Begins
    <2> HIDE DEF m, starts
    <2>10. path = m \o rest
      <3>1. Len(m) \in Nat /\ Len(path) \in Nat /\ Len(m) + 1 \in 1..Len(path) + 1
        BY <2>9
      <3>2. rest \in Seq(Nat) /\ Len(rest) = Len(path) - Len(m)
            /\ \A i \in 1..Len(path) - Len(m) : rest[i] = path[Len(m) + i]
        <4>1. /\ Len(m) + 1 \in Int /\ Len(path) \in Int
              /\ \A i \in Len(m) + 1..Len(path) : path[i] \in Nat
          BY <3>1
        <4>2. /\ rest \in Seq(Nat)
              /\ Len(rest) = IF Len(m) + 1 <= Len(path) THEN Len(path) - (Len(m) + 1) + 1 ELSE 0
              /\ \A i \in 1..Len(path) - (Len(m) + 1) + 1 : rest[i] = path[(Len(m) + 1) + i - 1]
          BY <4>1, SubSeqProperties
        <4> HIDE DEF rest
        <4> QED
          BY <2>9, <3>1, <4>2
      <3> DEFINE whole == m \o rest
      <3> HIDE DEF rest
      <3>3. /\ whole \in Seq(Nat) /\ Len(whole) = Len(m) + Len(rest)
            /\ \A i \in 1..Len(m) + Len(rest) :
                    whole[i] = IF i <= Len(m) THEN m[i] ELSE rest[i - Len(m)]
        BY <2>9, <3>2, ConcatProperties
      <3>4. Len(whole) = Len(path)
        BY <3>1, <3>2, <3>3
      <3> HIDE DEF whole
      <3>5. ASSUME NEW i \in 1..Len(path)
            PROVE  whole[i] = path[i]
        <4>1. i \in 1..Len(m) + Len(rest)
          BY <3>1, <3>2
        <4>2. CASE i <= Len(m)
          <5>1. i \in 1..Len(m)
            BY <3>1, <4>2
          <5>2. whole[i] = m[i]
            BY <3>3, <4>1, <4>2
          <5>3. m[i] = path[i]
            BY <2>9, <5>1
          <5> QED
            BY <5>2, <5>3
        <4>3. CASE ~ (i <= Len(m))
          <5>1. i - Len(m) \in 1..Len(path) - Len(m) /\ Len(m) + (i - Len(m)) = i
            BY <3>1, <4>3
          <5> QED
            BY <3>2, <3>3, <4>1, <4>3, <5>1
        <4> QED
          BY <4>2, <4>3
      <3>6. whole = path
        BY <3>3, <3>4, <3>5, SeqEqual
      <3> QED
        BY <3>6 DEF whole
    <2>11. Len(m) + 1 \in 1..Len(path) + 1
      BY <2>9
    <2>12. \E r \in {SubSeq(path, i, Len(path)) : i \in 1..Len(path) + 1} :
                path = Longest(starts) \o r /\ Resolve(set, path) = set[Longest(starts)] \o r
      <3>1. rest \in {SubSeq(path, i, Len(path)) : i \in 1..Len(path) + 1}
        BY <2>11
      <3> HIDE DEF rest
      <3> QED
        BY <2>7, <2>8, <2>10, <3>1
    <2> QED
      BY <1>5, <2>12, Zenon DEF RewritesLongestPrefixOnce, starts
  <1> QED
    BY <1>4, <1>5

(***************************************************************************)
(* However redirects are added, and in whatever order: those of a parcel   *)
(* are the ones of the longest subjects that start its path, and a path is *)
(* rewritten by the one of the longest 'before' that starts it, at its     *)
(* front and once.                                                         *)
(***************************************************************************)
THEOREM RedirectTheorem == TableSpec => []RedirectsPickTheMostSpecific
  <1>1. TableInv => RedirectsPickTheMostSpecific
    <2> SUFFICES ASSUME TableInv, NEW subject \in SomePaths
                 PROVE  /\ PicksMostSpecificSubject(Compute(table, subject), subject)
                        /\ \A path \in SomePaths :
                                RewritesLongestPrefixOnce(Compute(table, subject), path)
      BY Zenon DEF RedirectsPickTheMostSpecific
    <2> DEFINE set == Compute(table, subject)
    <2>1. SomePaths \subseteq Seq(Nat)
      BY PathsAssumption
    <2>2. IsFiniteSet(DOMAIN set) /\ DOMAIN set \subseteq Seq(Nat)
      BY <2>1, ComputedSet
    <2> HIDE DEF set
    <2>3. \A path \in SomePaths : RewritesLongestPrefixOnce(set, path)
      BY <2>1, <2>2, LongestPrefixOnce
    <2> QED
      BY <2>3, MostSpecificSubject DEF set
  <1> QED
    BY <1>1, TablesStay, PTL

--------------------------------------------------------------------------------
(* Sequences of anything *)

IsSeq(s) == \E S : s \in Seq(S)

\* Two sequences that are the same, element by element.
LEMMA SameSeq ==
  ASSUME NEW s, NEW t, IsSeq(s), IsSeq(t), Len(s) = Len(t),
         \A i \in 1..Len(s) : s[i] = t[i]
  PROVE  s = t
  <1>1. PICK S : s \in Seq(S)
    BY DEF IsSeq
  <1>2. PICK T : t \in Seq(T)
    BY DEF IsSeq
  <1> DEFINE U == S \cup T
  <1>3. S \subseteq U /\ T \subseteq U
    OBVIOUS
  <1> HIDE DEF U
  <1>4. s \in Seq(U) /\ t \in Seq(U)
    BY <1>1, <1>2, <1>3, SeqMonotonic
  <1> QED
    BY <1>4, SeqEqual

LEMMA EmptyIsSeq == IsSeq(<<>>) /\ Len(<<>>) = 0
  <1>1. <<>> \in Seq({})
    OBVIOUS
  <1> QED
    BY <1>1 DEF IsSeq

LEMMA SeqLength ==
  ASSUME NEW s, IsSeq(s)
  PROVE  Len(s) \in Nat /\ DOMAIN s = 1..Len(s)
  <1>1. PICK S : s \in Seq(S)
    BY DEF IsSeq
  <1> QED
    BY <1>1

\* One element more.
LEMMA AppendIs ==
  ASSUME NEW s, IsSeq(s), NEW e
  PROVE  /\ IsSeq(Append(s, e))
         /\ Len(Append(s, e)) = Len(s) + 1
         /\ Append(s, e)[Len(s) + 1] = e
         /\ \A i \in 1..Len(s) : Append(s, e)[i] = s[i]
         /\ Last(Append(s, e)) = e
         /\ Front(Append(s, e)) = s
  <1>1. PICK S : s \in Seq(S)
    BY DEF IsSeq
  <1> DEFINE T == S \cup {e}
             t == Append(s, e)
  <1>2. S \subseteq T /\ e \in T
    OBVIOUS
  <1> HIDE DEF T
  <1>3. s \in Seq(T)
    BY <1>1, <1>2, SeqMonotonic
  <1>4. /\ t \in Seq(T) /\ Len(t) = Len(s) + 1 /\ t[Len(s) + 1] = e
        /\ \A i \in 1..Len(s) : t[i] = s[i]
    BY <1>2, <1>3, AppendProperties
  <1> HIDE DEF t
  <1>5. Len(s) \in 0..Len(t) /\ Len(t) - 1 = Len(s)
    BY <1>3, <1>4
  <1>6. /\ Front(t) \in Seq(T) /\ Len(Front(t)) = Len(s)
        /\ \A i \in 1..Len(s) : Front(t)[i] = t[i]
    BY <1>4, <1>5, FrontIs DEF Front
  <1>7. Front(t) = s
    BY <1>3, <1>4, <1>6, SeqEqual
  <1> QED
    BY <1>4, <1>7 DEF IsSeq, Last, t

\* The beginning of a sequence.
LEMMA BeginningIs ==
  ASSUME NEW s, IsSeq(s), NEW n \in 0..Len(s)
  PROVE  /\ IsSeq(SubSeq(s, 1, n)) /\ Len(SubSeq(s, 1, n)) = n
         /\ \A k \in 1..n : SubSeq(s, 1, n)[k] = s[k]
  <1>1. PICK S : s \in Seq(S)
    BY DEF IsSeq
  <1>2. /\ SubSeq(s, 1, n) \in Seq(S) /\ Len(SubSeq(s, 1, n)) = n
        /\ \A k \in 1..n : SubSeq(s, 1, n)[k] = s[k]
    BY <1>1, FrontIs
  <1> QED
    BY <1>2 DEF IsSeq

\* The end of a sequence.
LEMMA EndIs ==
  ASSUME NEW s, IsSeq(s), NEW n \in 1..Len(s) + 1
  PROVE  /\ IsSeq(SubSeq(s, n, Len(s))) /\ Len(SubSeq(s, n, Len(s))) = Len(s) + 1 - n
         /\ \A k \in 1..Len(s) + 1 - n : SubSeq(s, n, Len(s))[k] = s[n + k - 1]
  <1>1. PICK S : s \in Seq(S)
    BY DEF IsSeq
  <1> DEFINE t == SubSeq(s, n, Len(s))
             m == Len(s)
  <1>2. m \in Nat /\ n \in Nat /\ \A i \in n..m : s[i] \in S
    BY <1>1
  <1>3. /\ t \in Seq(S) /\ Len(t) = IF n <= m THEN m - n + 1 ELSE 0
        /\ \A k \in 1..m - n + 1 : t[k] = s[n + k - 1]
    BY <1>2, SubSeqProperties
  <1> HIDE DEF t, m
  <1>4. n \in 1..m + 1
    BY DEF m
  <1>5. m + 1 - n = m - n + 1 /\ (IF n <= m THEN m - n + 1 ELSE 0) = m + 1 - n
    BY <1>2, <1>4
  <1>6. IsSeq(t)
    BY <1>3 DEF IsSeq
  <1>7. Len(t) = m + 1 - n /\ \A k \in 1..m + 1 - n : t[k] = s[n + k - 1]
    BY <1>3, <1>5
  <1> QED
    BY <1>6, <1>7 DEF t, m

\* A sequence that is not empty is its front and its last.
LEMMA FrontAndLast ==
  ASSUME NEW s, IsSeq(s), Len(s) > 0
  PROVE  /\ IsSeq(Front(s)) /\ Len(Front(s)) = Len(s) - 1
         /\ \A i \in 1..Len(s) - 1 : Front(s)[i] = s[i]
         /\ s = Append(Front(s), Last(s))
  <1>1. Len(s) \in Nat
    BY SeqLength
  <1>2. Len(s) - 1 \in 0..Len(s)
    BY <1>1
  <1>3. /\ IsSeq(Front(s)) /\ Len(Front(s)) = Len(s) - 1
        /\ \A i \in 1..Len(s) - 1 : Front(s)[i] = s[i]
    BY <1>2, BeginningIs DEF Front
  <1> DEFINE t == Append(Front(s), Last(s))
  <1>4. /\ IsSeq(t) /\ Len(t) = Len(s) - 1 + 1 /\ t[Len(s) - 1 + 1] = Last(s)
        /\ \A i \in 1..Len(s) - 1 : t[i] = Front(s)[i]
    BY <1>3, AppendIs
  <1> HIDE DEF t
  <1>5. Len(t) = Len(s) /\ t[Len(s)] = s[Len(s)]
    BY <1>1, <1>4 DEF Last
  <1>6. ASSUME NEW i \in 1..Len(s)
        PROVE  s[i] = t[i]
    <2>1. i = Len(s) \/ i \in 1..Len(s) - 1
      BY <1>1
    <2> QED
      BY <1>3, <1>4, <1>5, <2>1
  <1>7. s = t
    BY <1>4, <1>5, <1>6, SameSeq
  <1> QED
    BY <1>3, <1>7 DEF t

\* Two sequences, one after the other.
LEMMA ConcatIs ==
  ASSUME NEW s, NEW t, IsSeq(s), IsSeq(t)
  PROVE  /\ IsSeq(s \o t) /\ Len(s \o t) = Len(s) + Len(t)
         /\ \A i \in 1..Len(s) : (s \o t)[i] = s[i]
         /\ \A i \in 1..Len(t) : (s \o t)[Len(s) + i] = t[i]
  <1>1. PICK S : s \in Seq(S)
    BY DEF IsSeq
  <1>2. PICK T : t \in Seq(T)
    BY DEF IsSeq
  <1> DEFINE U == S \cup T
             m == Len(s)
             n == Len(t)
             u == s \o t
  <1>3. S \subseteq U /\ T \subseteq U
    OBVIOUS
  <1> HIDE DEF U
  <1>4. s \in Seq(U) /\ t \in Seq(U)
    BY <1>1, <1>2, <1>3, SeqMonotonic
  <1>5. m \in Nat /\ n \in Nat
    BY <1>4
  <1>6. u \in Seq(U) /\ Len(u) = m + n
        /\ \A i \in 1..m + n : u[i] = IF i <= m THEN s[i] ELSE t[i - m]
    BY <1>4, ConcatProperties
  <1>7. IsSeq(u)
    BY <1>6 DEF IsSeq
  <1> HIDE DEF m, n, u
  <1>8. \A i \in 1..m : u[i] = s[i]
    BY <1>5, <1>6
  <1>9. ASSUME NEW i \in 1..n
        PROVE  u[m + i] = t[i]
    <2>1. m + i \in 1..m + n /\ ~ (m + i <= m) /\ (m + i) - m = i
      BY <1>5
    <2> QED
      BY <1>6, <2>1
  <1> QED
    BY <1>6, <1>7, <1>8, <1>9 DEF m, n, u

\* A fold over one element more, whatever the elements are.
LEMMA FoldOneMore ==
  ASSUME NEW f, NEW b, NEW s, IsSeq(s), NEW e
  PROVE  Fold(f, b, Append(s, e)) = Apply(f, Fold(f, b, s), e)
  <1>1. PICK S : s \in Seq(S)
    BY DEF IsSeq
  <1> DEFINE T == S \cup {e}
  <1>2. S \subseteq T /\ e \in T
    OBVIOUS
  <1> HIDE DEF T
  <1>3. s \in Seq(T)
    BY <1>1, <1>2, SeqMonotonic
  <1> QED
    BY <1>2, <1>3, FoldAppend

--------------------------------------------------------------------------------
(* The events of a specifier *)

Reading(mode, out) == [mode |-> mode, stage |-> "main", out |-> out]


\* What SpecEval does with each token, before any call suffix.
LEMMA ReadMark ==
  ASSUME NEW mode, NEW out
  PROVE  /\ Read(Reading(mode, out), Slash) = Reading("slashId", out)
         /\ Read(Reading(mode, out), Colon) = Reading("colonId", out)
         /\ Read(Reading(mode, out), DblColon) = Reading("dblColonId", out)
  <1>1. /\ Slash \in DOMAIN IdMode /\ Colon \in DOMAIN IdMode /\ DblColon \in DOMAIN IdMode
        /\ IdMode[Slash] = "slashId" /\ IdMode[Colon] = "colonId"
        /\ IdMode[DblColon] = "dblColonId"
    BY DEF IdMode, Slash, Colon, DblColon
  <1>2. ASSUME NEW t \in DOMAIN IdMode
        PROVE  Read(Reading(mode, out), t) = Reading(IdMode[t], out)
    <2>1. Read(Reading(mode, out), t) = [Reading(mode, out) EXCEPT !.mode = IdMode[t]]
      <3>1. t \notin {-3, -4, -5, -6, -7, -8}
        BY DEF IdMode, Slash, Colon, DblColon
      <3> QED
        BY <3>1 DEF Read, OpenArgs, Comma, CloseArgs, OpenCall, CloseCall, Arrow
    <2> QED
      BY <2>1 DEF Reading
  <1> QED
    BY <1>1, <1>2

LEMMA ReadOther ==
  ASSUME NEW mode, NEW out
  PROVE  /\ Read(Reading(mode, out), OpenArgs)
                = Reading("rootId", Append(out, Event("openTypeArgs", OpenArgs)))
         /\ Read(Reading(mode, out), Comma)
                = Reading("rootId", Append(out, Event("typeArgsArgDelimiter", Comma)))
         /\ Read(Reading(mode, out), CloseArgs)
                = Reading(mode, Append(out, Event("closeTypeArgs", CloseArgs)))
         /\ \A t : IsId(t) => Read(Reading(mode, out), t) = Reading(mode, Append(out, Event(mode, t)))
  <1>1. DOMAIN IdMode = {0, -1, -2}
    BY DEF IdMode, Slash, Colon, DblColon
  <1> USE DEF Slash, Colon, DblColon, OpenArgs, Comma, CloseArgs, OpenCall, CloseCall, Arrow
  <1>2. Read(Reading(mode, out), OpenArgs)
                = Reading("rootId", Append(out, Event("openTypeArgs", OpenArgs)))
    <2>1. -3 \notin DOMAIN IdMode
      BY <1>1
    <2>2. Read(Reading(mode, out), -3)
            = [Fires(Reading(mode, out), "openTypeArgs", -3) EXCEPT !.mode = "rootId"]
      BY <2>1 DEF Read
    <2> QED
      BY <2>2 DEF Reading, Fires
  <1>3. Read(Reading(mode, out), Comma)
                = Reading("rootId", Append(out, Event("typeArgsArgDelimiter", Comma)))
    <2>1. -4 \notin DOMAIN IdMode
      BY <1>1
    <2>2. Read(Reading(mode, out), -4)
            = [Fires(Reading(mode, out), Delimiter[Reading(mode, out).stage], -4)
                    EXCEPT !.mode = "rootId"]
      BY <2>1 DEF Read
    <2>3. Delimiter[Reading(mode, out).stage] = "typeArgsArgDelimiter"
      BY DEF Delimiter, Reading
    <2> QED
      BY <2>2, <2>3 DEF Reading, Fires
  <1>4. Read(Reading(mode, out), CloseArgs)
                = Reading(mode, Append(out, Event("closeTypeArgs", CloseArgs)))
    <2>1. -5 \notin DOMAIN IdMode
      BY <1>1
    <2>2. Read(Reading(mode, out), -5) = Fires(Reading(mode, out), "closeTypeArgs", -5)
      BY <2>1 DEF Read
    <2> QED
      BY <2>2 DEF Reading, Fires
  <1>5. ASSUME NEW t, IsId(t)
        PROVE  Read(Reading(mode, out), t) = Reading(mode, Append(out, Event(mode, t)))
    <2>1. t \in Int /\ t \notin {0, -1, -2, -3, -4, -5, -6, -7, -8}
      BY <1>5 DEF IsId, IsName, IsDollar, HereId
    <2>2. Read(Reading(mode, out), t) = Fires(Reading(mode, out), mode, t)
      BY <1>1, <2>1 DEF Read, Reading
    <2> QED
      BY <2>2 DEF Reading, Fires
  <1> QED
    BY <1>2, <1>3, <1>4, <1>5

Reader(text) == Fold([of |-> "read"], Reading("rootId", <<>>), text)

\* A text has been read as far as it goes, and identifiers will fire mode.
ReadIn(text, mode) ==
    /\ text \in Seq(Int) /\ IsSeq(Reader(text).out)
    /\ Reader(text) = Reading(mode, Reader(text).out)

\* What the two interpreters have made of it.
Stk(text, env) == Fold([of |-> "eval", env |-> env], <<>>, Reader(text).out)

Normal == [of |-> "solve", stands |-> Nothing, redirects |-> NoRedirects]
Scopes == beginScope([good |-> TRUE, scopes |-> <<>>])
Sol(text) == Fold(Normal, Scopes, Reader(text).out)

LEMMA ReadingHas ==
  ASSUME NEW mode, NEW out
  PROVE  Reading(mode, out).stage = "main" /\ Reading(mode, out).out = out
  BY DEF Reading

\* The interpreters are folds over what is read.
LEMMA ReadersAre ==
  ASSUME NEW text, NEW env, NEW mode, ReadIn(text, mode)
  PROVE  /\ Eval(text, env) = Stk(text, env)
         /\ Solve(text, Nothing, NoRedirects)
                = IF Sol(text).good
                  THEN Last(handleRedirectsIfPath(Sol(text), NoRedirects).scopes).output
                  ELSE NoSpec
  <1>1. FoldLeft(Read, Reading("rootId", <<>>), text) = Reader(text)
    BY Zenon DEF Reader, Fold, FoldLeft, MapThenFoldSet, Apply
  <1>2. Events(text) = Reader(text).out
    <2> DEFINE end == Reader(text)
    <2>1. Events(text) = IF end.stage = "return"
                         THEN Append(end.out, Event("closeCallSuff", Arrow)) ELSE end.out
      BY <1>1, Zenon DEF Events, Reading
    <2>2. end.stage = "main"
      <3>1. end = Reading(mode, end.out)
        BY Zenon DEF ReadIn
      <3>2. Reading(mode, end.out).stage = "main"
        BY ReadingHas
      <3> HIDE DEF end
      <3> QED
        BY <3>1, <3>2
    <2> HIDE DEF end
    <2> QED
      BY <2>1, <2>2 DEF end
  <1>3. Eval(text, env) = Fold([of |-> "eval", env |-> env], <<>>, Events(text))
    BY Zenon DEF Eval, Fold, FoldLeft, MapThenFoldSet, Apply
  <1>4. Solve(text, Nothing, NoRedirects)
            = LET end == Fold(Normal, Scopes, Events(text))
              IN  IF end.good THEN Last(handleRedirectsIfPath(end, NoRedirects).scopes).output
                  ELSE NoSpec
    <2> DEFINE end == FoldLeft(LAMBDA s, e : OnEvent(s, e, Nothing, NoRedirects),
                               Scopes, Events(text))
    <2>1. Solve(text, Nothing, NoRedirects)
            = IF end.good THEN Last(handleRedirectsIfPath(end, NoRedirects).scopes).output
              ELSE NoSpec
      BY Zenon DEF Solve, Scopes
    <2>2. end = Fold(Normal, Scopes, Events(text))
      BY Zenon DEF Fold, FoldLeft, MapThenFoldSet, Apply, Normal
    <2> HIDE DEF end
    <2> QED
      BY <2>1, <2>2, Zenon
  <1> QED
    BY <1>2, <1>3, <1>4, Zenon DEF Stk, Sol

\* What is loaded is what the term on top is of.
LEMMA LoadIs ==
  ASSUME NEW text, NEW env, IsSeq(Eval(text, env)), Len(Eval(text, env)) > 0
  PROVE  Load(text, env) = LET top == Last(Eval(text, env))
                           IN  IF top.is = "concrete" THEN top.of ELSE NoType
  <1> DEFINE stk == Eval(text, env)
             n == Len(stk)
             loading == [of |-> "load"]
  <1>1. n \in Nat /\ n \in 1..n /\ DOMAIN stk = 1..n
    BY SeqLength
  <1>2. Load(text, env) = Fold(loading, NoType, stk)
    BY Zenon DEF Load, Fold, FoldLeft, MapThenFoldSet, Apply
  <1> HIDE DEF stk, n, loading
  <1>3. PICK r : IsRunOf(r, loading, NoType, stk, n) /\ Fold(loading, NoType, stk) = r[n]
    BY <1>1, FoldHasRun
  <1>4. r[n] = Apply(loading, r[n - 1], stk[n])
    BY <1>1, <1>3 DEF IsRunOf
  <1>5. loading.of = "load"
    BY DEF loading
  <1>6. Apply(loading, r[n - 1], stk[n]) = IF stk[n].is = "concrete" THEN stk[n].of ELSE NoType
    BY <1>5 DEF Apply
  <1> QED
    BY <1>2, <1>3, <1>4, <1>6 DEF stk, n, Last

LEMMA ReadNothing ==
  ASSUME NEW env
  PROVE  ReadIn(<<>>, "rootId") /\ Stk(<<>>, env) = <<>> /\ Sol(<<>>) = Scopes
  <1>1. Reader(<<>>) = Reading("rootId", <<>>)
    BY FoldEmpty DEF Reader
  <1>2. Reader(<<>>).out = <<>>
    BY <1>1 DEF Reading
  <1>3. ReadIn(<<>>, "rootId")
    BY <1>1, <1>2, EmptyIsSeq DEF ReadIn
  <1> QED
    BY <1>2, <1>3, FoldEmpty DEF Stk, Sol

\* A token more.
LEMMA ReadOne ==
  ASSUME NEW text, NEW mode, ReadIn(text, mode), NEW t \in Int
  PROVE  /\ Append(text, t) \in Seq(Int)
         /\ Reader(Append(text, t)) = Read(Reading(mode, Reader(text).out), t)
  <1>1. text \in Seq(Int)
    BY DEF ReadIn
  <1>2. Reader(Append(text, t)) = Apply([of |-> "read"], Reader(text), t)
    BY <1>1, FoldAppend DEF Reader
  <1>3. \A x : Apply([of |-> "read"], x, t) = Read(x, t)
    BY DEF Apply
  <1>4. Reader(text) = Reading(mode, Reader(text).out)
    BY DEF ReadIn
  <1>5. Append(text, t) \in Seq(Int)
    BY <1>1
  <1> QED
    BY <1>2, <1>3, <1>4, <1>5, Zenon

\* One that fires nothing,
LEMMA ReadSilent ==
  ASSUME NEW text, NEW mode, ReadIn(text, mode), NEW t \in Int, NEW next,
         Read(Reading(mode, Reader(text).out), t) = Reading(next, Reader(text).out)
  PROVE  /\ ReadIn(Append(text, t), next)
         /\ \A env : Stk(Append(text, t), env) = Stk(text, env)
         /\ Sol(Append(text, t)) = Sol(text)
  <1>1. Append(text, t) \in Seq(Int) /\ Reader(Append(text, t)) = Reading(next, Reader(text).out)
    BY ReadOne
  <1>2. Reader(Append(text, t)).out = Reader(text).out
    <2>1. Reading(next, Reader(text).out).out = Reader(text).out
      BY ReadingHas
    <2> QED
      BY <1>1, <2>1
  <1>3. IsSeq(Reader(text).out)
    BY DEF ReadIn
  <1> QED
    BY <1>1, <1>2, <1>3, Zenon DEF ReadIn, Stk, Sol

\* and one that fires an event.
LEMMA ReadFiring ==
  ASSUME NEW text, NEW mode, ReadIn(text, mode), NEW t \in Int, NEW next, NEW e,
         Read(Reading(mode, Reader(text).out), t) = Reading(next, Append(Reader(text).out, e))
  PROVE  /\ ReadIn(Append(text, t), next)
         /\ \A env : Stk(Append(text, t), env) = Interp(Stk(text, env), e, env)
         /\ Sol(Append(text, t)) = OnEvent(Sol(text), e, Nothing, NoRedirects)
  <1> DEFINE out == Reader(text).out
  <1>1. /\ Append(text, t) \in Seq(Int)
        /\ Reader(Append(text, t)) = Reading(next, Append(out, e))
    BY ReadOne
  <1>2. Reader(Append(text, t)).out = Append(out, e)
    BY <1>1, ReadingHas, Zenon
  <1>3. IsSeq(out) /\ IsSeq(Append(out, e))
    BY AppendIs DEF ReadIn
  <1>4. ReadIn(Append(text, t), next)
    BY <1>1, <1>2, <1>3, Zenon DEF ReadIn
  <1> HIDE DEF out
  <1>5. ASSUME NEW env
        PROVE  Stk(Append(text, t), env) = Interp(Stk(text, env), e, env)
    <2> DEFINE f == [of |-> "eval", env |-> env]
    <2>1. \A x : Apply(f, x, e) = Interp(x, e, env)
      BY DEF Apply
    <2> HIDE DEF f
    <2>2. Fold(f, <<>>, Append(out, e)) = Apply(f, Fold(f, <<>>, out), e)
      BY <1>3, FoldOneMore
    <2> QED
      BY <1>2, <2>1, <2>2, Zenon DEF Stk, f, out
  <1>6. Sol(Append(text, t)) = OnEvent(Sol(text), e, Nothing, NoRedirects)
    <2>1. \A x : Apply(Normal, x, e) = OnEvent(x, e, Nothing, NoRedirects)
      BY DEF Apply, Normal
    <2>2. Fold(Normal, Scopes, Append(out, e)) = Apply(Normal, Fold(Normal, Scopes, out), e)
      BY <1>3, FoldOneMore
    <2> QED
      BY <1>2, <2>1, <2>2, Zenon DEF Sol, out
  <1> QED
    BY <1>4, <1>5, <1>6

(***************************************************************************)
(* What the two make of each token and each part, given what they had made *)
(* of the text before.                                                     *)
(***************************************************************************)
LEMMA ReadsMark ==
  ASSUME NEW text, NEW mode, ReadIn(text, mode), NEW t \in {Slash, Colon, DblColon}
  PROVE  /\ ReadIn(Append(text, t), IF t = Slash THEN "slashId"
                                    ELSE IF t = Colon THEN "colonId" ELSE "dblColonId")
         /\ \A env : Stk(Append(text, t), env) = Stk(text, env)
         /\ Sol(Append(text, t)) = Sol(text)
  <1> DEFINE next == IF t = Slash THEN "slashId"
                     ELSE IF t = Colon THEN "colonId" ELSE "dblColonId"
  <1>1. Slash \in Int /\ Colon \in Int /\ DblColon \in Int
        /\ Slash # Colon /\ Slash # DblColon /\ Colon # DblColon
    BY DEF Slash, Colon, DblColon
  <1>2. Read(Reading(mode, Reader(text).out), t) = Reading(next, Reader(text).out)
    BY <1>1, ReadMark
  <1>3. t \in Int
    BY <1>1
  <1> HIDE DEF next
  <1>4. /\ ReadIn(Append(text, t), next)
        /\ \A env : Stk(Append(text, t), env) = Stk(text, env)
        /\ Sol(Append(text, t)) = Sol(text)
    BY <1>2, <1>3, ReadSilent
  <1> QED
    BY <1>4 DEF next

LEMMA ReadsId ==
  ASSUME NEW text, NEW mode, ReadIn(text, mode), NEW t, IsId(t)
  PROVE  /\ ReadIn(Append(text, t), mode)
         /\ \A env : Stk(Append(text, t), env) = Interp(Stk(text, env), Event(mode, t), env)
         /\ Sol(Append(text, t)) = OnEvent(Sol(text), Event(mode, t), Nothing, NoRedirects)
  <1>1. t \in Int
    BY DEF IsId
  <1>2. Read(Reading(mode, Reader(text).out), t)
            = Reading(mode, Append(Reader(text).out, Event(mode, t)))
    BY ReadOther
  <1> QED
    BY <1>1, <1>2, ReadFiring

LEMMA ReadsBracket ==
  ASSUME NEW text, NEW mode, ReadIn(text, mode)
  PROVE  /\ ReadIn(Append(text, OpenArgs), "rootId")
         /\ \A env : Stk(Append(text, OpenArgs), env) = beginArgs(Stk(text, env))
         /\ Sol(Append(text, OpenArgs))
                = OnEvent(Sol(text), Event("openTypeArgs", OpenArgs), Nothing, NoRedirects)
         /\ ReadIn(Append(text, Comma), "rootId")
         /\ \A env : Stk(Append(text, Comma), env) = Stk(text, env)
         /\ Sol(Append(text, Comma))
                = OnEvent(Sol(text), Event("typeArgsArgDelimiter", Comma), Nothing, NoRedirects)
         /\ ReadIn(Append(text, CloseArgs), mode)
         /\ \A env : Stk(Append(text, CloseArgs), env) = endArgs(Stk(text, env))
         /\ Sol(Append(text, CloseArgs))
                = OnEvent(Sol(text), Event("closeTypeArgs", CloseArgs), Nothing, NoRedirects)
  <1>1. OpenArgs \in Int /\ Comma \in Int /\ CloseArgs \in Int
    BY DEF OpenArgs, Comma, CloseArgs
  <1>2. \A stk, env : /\ Interp(stk, Event("openTypeArgs", OpenArgs), env) = beginArgs(stk)
                      /\ Interp(stk, Event("typeArgsArgDelimiter", Comma), env) = stk
                      /\ Interp(stk, Event("closeTypeArgs", CloseArgs), env) = endArgs(stk)
    BY DEF Interp, Event
  <1>3. /\ ReadIn(Append(text, OpenArgs), "rootId")
        /\ \A env : Stk(Append(text, OpenArgs), env)
                        = Interp(Stk(text, env), Event("openTypeArgs", OpenArgs), env)
        /\ Sol(Append(text, OpenArgs))
                = OnEvent(Sol(text), Event("openTypeArgs", OpenArgs), Nothing, NoRedirects)
    <2>1. Read(Reading(mode, Reader(text).out), OpenArgs)
            = Reading("rootId", Append(Reader(text).out, Event("openTypeArgs", OpenArgs)))
      BY ReadOther
    <2> QED
      BY <1>1, <2>1, ReadFiring
  <1>4. /\ ReadIn(Append(text, Comma), "rootId")
        /\ \A env : Stk(Append(text, Comma), env)
                        = Interp(Stk(text, env), Event("typeArgsArgDelimiter", Comma), env)
        /\ Sol(Append(text, Comma))
                = OnEvent(Sol(text), Event("typeArgsArgDelimiter", Comma), Nothing, NoRedirects)
    <2>1. Read(Reading(mode, Reader(text).out), Comma)
            = Reading("rootId", Append(Reader(text).out, Event("typeArgsArgDelimiter", Comma)))
      BY ReadOther
    <2> QED
      BY <1>1, <2>1, ReadFiring
  <1>5. /\ ReadIn(Append(text, CloseArgs), mode)
        /\ \A env : Stk(Append(text, CloseArgs), env)
                        = Interp(Stk(text, env), Event("closeTypeArgs", CloseArgs), env)
        /\ Sol(Append(text, CloseArgs))
                = OnEvent(Sol(text), Event("closeTypeArgs", CloseArgs), Nothing, NoRedirects)
    <2>1. Read(Reading(mode, Reader(text).out), CloseArgs)
            = Reading(mode, Append(Reader(text).out, Event("closeTypeArgs", CloseArgs)))
      BY ReadOther
    <2> QED
      BY <1>1, <2>1, ReadFiring
  <1>6. \A env : Stk(Append(text, OpenArgs), env) = beginArgs(Stk(text, env))
    BY <1>2, <1>3, Zenon
  <1>7. \A env : Stk(Append(text, Comma), env) = Stk(text, env)
    BY <1>2, <1>4, Zenon
  <1>8. \A env : Stk(Append(text, CloseArgs), env) = endArgs(Stk(text, env))
    BY <1>2, <1>5, Zenon
  <1> QED
    BY <1>3, <1>4, <1>5, <1>6, <1>7, <1>8, Zenon

--------------------------------------------------------------------------------
(* What the operations of TermStk leave *)

IsTerm(t) == \E A, B : t \in [is : A, of : B, awaitingArgs : BOOLEAN]

Fresh(t) == IsTerm(t) /\ t.awaitingArgs = FALSE

LEMMA TermIsFresh ==
  ASSUME NEW is, NEW of
  PROVE  /\ Fresh(Term(is, of)) /\ Term(is, of).is = is /\ Term(is, of).of = of
         /\ Fresh(Err) /\ Err.is = "err"
  <1>1. ASSUME NEW i, NEW o
        PROVE  Fresh(Term(i, o)) /\ Term(i, o).is = i /\ Term(i, o).of = o
    <2>1. Term(i, o) \in [is : {i}, of : {o}, awaitingArgs : BOOLEAN]
      BY DEF Term
    <2>2. Term(i, o).awaitingArgs = FALSE /\ Term(i, o).is = i /\ Term(i, o).of = o
      BY DEF Term
    <2> QED
      BY <2>1, <2>2, Zenon DEF Fresh, IsTerm
  <1> QED
    BY <1>1 DEF Err

Marked(stk) == {i \in DOMAIN stk : stk[i].awaitingArgs}

\* A stack with n terms that await args, the first of them at the bottom.
Marks(stk, n) ==
    /\ IsSeq(stk) /\ \A i \in DOMAIN stk : IsTerm(stk[i])
    /\ Len(stk) > 1 => stk[1].awaitingArgs
    /\ Cardinality(Marked(stk)) = n

\* One with a term on top.
Ready(stk, n) == Marks(stk, n) /\ Len(stk) > 0 /\ ~ stk[Len(stk)].awaitingArgs

\* A root is pushed.
LEMMA RootPushes ==
  ASSUME NEW stk, NEW id, NEW env
  PROVE  \E t : /\ Fresh(t) /\ root(stk, id, env) = Append(stk, t)
                /\ t.is \in IF IsDollar(id) THEN {"concrete", "err"} ELSE {"path", "err"}
  <1>1. HereId \notin {SelfId} /\ ~ IsDollar(HereId) /\ IsDollar(SelfId)
    BY DEF HereId, SelfId, Dollar, IsDollar
  <1>2. CASE id = HereId
    <2>1. root(stk, id, env) = Append(stk, IF env = NoEnv THEN Err ELSE Term("path", env.here))
      BY <1>1, <1>2 DEF root
    <2> QED
      BY <1>1, <1>2, <2>1, TermIsFresh
  <1>3. CASE id = SelfId
    <2>1. root(stk, id, env) = Append(stk, IF env = NoEnv THEN Err ELSE Term("concrete", env.self))
      BY <1>1, <1>3 DEF root
    <2> QED
      BY <1>1, <1>3, <2>1, TermIsFresh
  <1>4. CASE IsDollar(id) /\ id # SelfId
    <2>1. root(stk, id, env)
            = Append(stk, IF env # NoEnv /\ Undollar(id) \in DOMAIN typeParams(env.self)
                          THEN Term("concrete", typeParams(env.self)[Undollar(id)]) ELSE Err)
      BY <1>1, <1>4 DEF root
    <2> QED
      BY <1>4, <2>1, TermIsFresh
  <1>5. CASE ~ IsDollar(id) /\ id # HereId
    <2>1. root(stk, id, env) = Append(stk, Term("path", <<id>>))
      BY <1>1, <1>5 DEF root
    <2> QED
      BY <1>5, <2>1, TermIsFresh
  <1> QED
    BY <1>2, <1>3, <1>4, <1>5

\* A suffix replaces the term on top, and no suffix mends an error.
LEMMA SuffixReplaces ==
  ASSUME NEW stk, NEW id
  PROVE  /\ \E t : /\ Fresh(t) /\ subdir(stk, id) = transact(stk, 1, t)
                   /\ t.is = IF Last(stk).is = "path" THEN "path" ELSE "err"
         /\ \E t : /\ Fresh(t) /\ typeInParcel(stk, id) = transact(stk, 1, t)
                   /\ t.is \in IF Last(stk).is = "path" THEN {"concrete", "generic", "err"}
                               ELSE {"err"}
         /\ \E t : /\ Fresh(t) /\ member(stk, id) = transact(stk, 1, t)
                   /\ t.is \in IF Last(stk).is = "concrete" THEN {"concrete", "err"} ELSE {"err"}
  <1>1. \E t : /\ Fresh(t) /\ subdir(stk, id) = transact(stk, 1, t)
               /\ t.is = IF Last(stk).is = "path" THEN "path" ELSE "err"
    BY TermIsFresh DEF subdir, transactErr
  <1>2. \E t : /\ Fresh(t) /\ typeInParcel(stk, id) = transact(stk, 1, t)
               /\ t.is \in IF Last(stk).is = "path" THEN {"concrete", "generic", "err"}
                           ELSE {"err"}
    BY TermIsFresh DEF typeInParcel, transactErr
  <1>3. \E t : /\ Fresh(t) /\ member(stk, id) = transact(stk, 1, t)
               /\ t.is \in IF Last(stk).is = "concrete" THEN {"concrete", "err"} ELSE {"err"}
    BY TermIsFresh DEF member, transactErr
  <1> QED
    BY <1>1, <1>2, <1>3

\* What a replacement of the term on top leaves.
LEMMA TopReplaced ==
  ASSUME NEW stk, IsSeq(stk), Len(stk) > 0, NEW t
  PROVE  LET new == transact(stk, 1, t)
         IN  /\ IsSeq(new) /\ Len(new) = Len(stk) /\ new[Len(stk)] = t /\ Last(new) = t
             /\ \A i \in 1..Len(stk) - 1 : new[i] = stk[i]
             /\ new = Append(Front(stk), t)
  <1> DEFINE low == SubSeq(stk, 1, Len(stk) - 1)
             new == Append(low, t)
             n == Len(stk)
  <1>1. n \in Nat /\ n > 0 /\ n - 1 \in 0..n /\ n - 1 + 1 = n
    BY SeqLength
  <1>2. IsSeq(low) /\ Len(low) = n - 1 /\ \A i \in 1..n - 1 : low[i] = stk[i]
    BY <1>1, BeginningIs
  <1> HIDE DEF n, low
  <1>3. /\ IsSeq(new) /\ Len(new) = n /\ new[n] = t /\ \A i \in 1..n - 1 : new[i] = low[i]
        /\ Last(new) = t
    BY <1>1, <1>2, AppendIs
  <1>4. transact(stk, 1, t) = new /\ Front(stk) = low
    BY Zenon DEF transact, low, Front
  <1>5. \A i \in 1..n - 1 : new[i] = stk[i]
    BY <1>2, <1>3
  <1> HIDE DEF new
  <1> QED
    BY <1>3, <1>4, <1>5, Zenon DEF n, new

\* The terms from at on are a generic and the args for its params,
Legal(stk, at) ==
    /\ stk[at].is = "generic"
    /\ Len(stk) - at = Len(info(stk[at].of).typeParams)
    /\ \A i \in at + 1..Len(stk) : stk[i].is = "concrete"

\* and the type they make.
Made(stk, at) ==
    Term("concrete", MkType(stk[at].of.path, stk[at].of.name,
                            [i \in 1..Len(stk) - at |-> stk[at + i].of], NoMember))

\* The end of args replaces the last term that awaits them and what is above it.
LEMMA EndArgsReplaces ==
  ASSUME NEW stk, NEW n \in Nat, Ready(stk, n), n > 0
  PROVE  \E at \in Marked(stk) :
            /\ at \in 1..Len(stk) - 1 /\ \A j \in Marked(stk) : j <= at
            /\ endArgs(stk) = Append(SubSeq(stk, 1, at - 1),
                                     IF Legal(stk, at) THEN Made(stk, at) ELSE Err)
  <1> DEFINE marked == Marked(stk)
             at == CHOOSE i \in marked : \A j \in marked : j <= i
             args == SubSeq(stk, at + 1, Len(stk))
             generic == stk[at]
             legal == /\ generic.is = "generic"
                      /\ Len(args) = Len(info(generic.of).typeParams)
                      /\ \A i \in DOMAIN args : args[i].is = "concrete"
             types == [i \in DOMAIN args |-> args[i].of]
             made == Term("concrete", MkType(generic.of.path, generic.of.name, types, NoMember))
             m == Len(stk)
  <1>1. endArgs(stk) = IF ~legal THEN transactErr(stk, 1 + Len(args))
                       ELSE transact(stk, 1 + Len(args), made)
    BY Zenon DEF endArgs, Marked
  <1>2. IsSeq(stk) /\ m \in Nat /\ m > 0 /\ DOMAIN stk = 1..m /\ ~ stk[m].awaitingArgs
    BY SeqLength DEF Ready, Marks
  <1>3. marked \in SUBSET (1..m) /\ m \notin marked
    BY <1>2 DEF Marked
  <1>4. marked # {}
    <2>1. Cardinality(marked) = n
      BY DEF Ready, Marks
    <2> HIDE DEF marked
    <2> QED
      BY <2>1, FS_EmptySet
  <1>5. at \in marked /\ \A j \in marked : j <= at
    <2>1. \E i \in marked : \A j \in marked : j <= i
      <3> HIDE DEF marked
      <3> QED
        BY <1>2, <1>3, <1>4, MaxExists
    <2> HIDE DEF marked
    <2> QED
      BY <2>1
  <1> HIDE DEF at
  <1>6. at \in 1..m - 1
    <2>1. at \in 1..m /\ at # m
      BY <1>3, <1>5
    <2> HIDE DEF m
    <2> QED
      BY <1>2, <2>1
  <1>7. IsSeq(args) /\ Len(args) = m - at /\ \A k \in 1..m - at : args[k] = stk[at + k]
    <2>1. at + 1 \in 1..m + 1 /\ m + 1 - (at + 1) = m - at
          /\ \A k \in 1..m - at : at + 1 + k - 1 = at + k
      <3> HIDE DEF m
      <3> QED
        BY <1>2, <1>6
    <2> HIDE DEF m
    <2>2. /\ IsSeq(SubSeq(stk, at + 1, m)) /\ Len(SubSeq(stk, at + 1, m)) = m + 1 - (at + 1)
          /\ \A k \in 1..m + 1 - (at + 1) : SubSeq(stk, at + 1, m)[k] = stk[at + 1 + k - 1]
      BY <1>2, <2>1, EndIs DEF m
    <2> QED
      BY <2>1, <2>2 DEF m
  <1>8. DOMAIN args = 1..m - at
    <2> HIDE DEF args, m
    <2> QED
      BY <1>7, SeqLength
  <1>9. legal <=> Legal(stk, at)
    <2>1. (\A i \in 1..m - at : args[i].is = "concrete")
            <=> \A i \in at + 1..m : stk[i].is = "concrete"
      <3> HIDE DEF args, m
      <3>1. \A i \in at + 1..m : i - at \in 1..m - at /\ at + (i - at) = i
        BY <1>2, <1>6
      <3>2. \A i \in 1..m - at : at + i \in at + 1..m
        BY <1>2, <1>6
      <3> QED
        BY <1>7, <3>1, <3>2
    <2> HIDE DEF args
    <2> QED
      BY <1>7, <1>8, <2>1 DEF Legal
  <1>10. made = Made(stk, at)
    <2>1. types = [i \in 1..m - at |-> stk[at + i].of]
      <3> HIDE DEF args, m
      <3> QED
        BY <1>7, <1>8
    <2> HIDE DEF types
    <2> QED
      BY <2>1, Zenon DEF Made
  <1>11. \A t : transact(stk, 1 + Len(args), t) = Append(SubSeq(stk, 1, at - 1), t)
    <2> HIDE DEF args, m
    <2>1. m - (1 + Len(args)) = at - 1
      BY <1>2, <1>6, <1>7
    <2>2. \A t : transact(stk, 1 + Len(args), t) = Append(SubSeq(stk, 1, m - (1 + Len(args))), t)
      BY Zenon DEF transact, m
    <2> QED
      BY <2>1, <2>2, Zenon
  <1> HIDE DEF legal, made, args, m
  <1>12. endArgs(stk) = Append(SubSeq(stk, 1, at - 1),
                               IF Legal(stk, at) THEN Made(stk, at) ELSE Err)
    <2>1. CASE Legal(stk, at)
      BY <1>1, <1>9, <1>10, <1>11, <2>1, Zenon
    <2>2. CASE ~ Legal(stk, at)
      BY <1>1, <1>9, <1>11, <2>2, Zenon DEF transactErr
    <2> QED
      BY <2>1, <2>2
  <1> QED
    BY <1>5, <1>6, <1>12 DEF m

\* The marks that each kind of operation leaves.
LEMMA PushReady ==
  ASSUME NEW stk, NEW n, Marks(stk, n), NEW t, Fresh(t),
         Len(stk) = 0 \/ stk[1].awaitingArgs
  PROVE  Ready(Append(stk, t), n)
  <1> DEFINE new == Append(stk, t)
             m == Len(stk)
  <1>1. IsSeq(stk) /\ m \in Nat /\ DOMAIN stk = 1..m
    BY SeqLength DEF Marks
  <1>2. /\ IsSeq(new) /\ Len(new) = m + 1 /\ new[m + 1] = t
        /\ \A i \in 1..m : new[i] = stk[i]
    BY <1>1, AppendIs
  <1>3. DOMAIN new = 1..m + 1
    BY <1>2, SeqLength
  <1> HIDE DEF new
  <1>4. \A i \in DOMAIN new : IsTerm(new[i])
    BY <1>1, <1>2, <1>3 DEF Marks, Fresh
  <1>5. Marked(new) = Marked(stk)
    BY <1>1, <1>2, <1>3 DEF Marked, Fresh
  <1>6. Len(new) > 1 => new[1].awaitingArgs
    BY <1>1, <1>2
  <1> QED
    BY <1>1, <1>2, <1>4, <1>5, <1>6 DEF Ready, Marks, Fresh, new

LEMMA TopReady ==
  ASSUME NEW stk, NEW n, Ready(stk, n), NEW t, Fresh(t)
  PROVE  Ready(transact(stk, 1, t), n)
  <1> DEFINE new == transact(stk, 1, t)
             m == Len(stk)
  <1>1. IsSeq(stk) /\ m \in Nat /\ m > 0 /\ DOMAIN stk = 1..m
    BY SeqLength DEF Ready, Marks
  <1>2. /\ IsSeq(new) /\ Len(new) = m /\ new[m] = t
        /\ \A i \in 1..m - 1 : new[i] = stk[i]
    BY <1>1, TopReplaced
  <1>3. DOMAIN new = 1..m
    BY <1>2, SeqLength
  <1> HIDE DEF new
  <1>4. \A i \in DOMAIN new : IsTerm(new[i])
    BY <1>1, <1>2, <1>3 DEF Ready, Marks, Fresh
  <1>5. Marked(new) = Marked(stk)
    BY <1>1, <1>2, <1>3 DEF Marked, Fresh, Ready
  <1>6. Len(new) > 1 => new[1].awaitingArgs
    BY <1>1, <1>2 DEF Ready, Marks
  <1> QED
    BY <1>1, <1>2, <1>4, <1>5, <1>6 DEF Ready, Marks, Fresh, new

LEMMA OpenMarks ==
  ASSUME NEW stk, NEW n, Ready(stk, n)
  PROVE  /\ Marks(beginArgs(stk), n + 1) /\ beginArgs(stk)[1].awaitingArgs
         /\ Len(beginArgs(stk)) = Len(stk)
         /\ beginArgs(stk)[Len(stk)] = [stk[Len(stk)] EXCEPT !.awaitingArgs = TRUE]
         /\ \A i \in 1..Len(stk) - 1 : beginArgs(stk)[i] = stk[i]
  <1> DEFINE m == Len(stk)
             t == [stk[m] EXCEPT !.awaitingArgs = TRUE]
             new == beginArgs(stk)
  <1>1. IsSeq(stk) /\ m \in Nat /\ m > 0 /\ DOMAIN stk = 1..m
    BY SeqLength DEF Ready, Marks
  <1>2. new = Append(Front(stk), t)
    BY Zenon DEF beginArgs, Last
  <1>3. IsTerm(t) /\ t.awaitingArgs
    <2>1. IsTerm(stk[m])
      BY <1>1 DEF Ready, Marks
    <2> DEFINE u == stk[m]
    <2> HIDE DEF u
    <2>2. IsTerm(u)
      BY <2>1 DEF u
    <2>3. PICK A, B : u \in [is : A, of : B, awaitingArgs : BOOLEAN]
      BY <2>2, Zenon DEF IsTerm
    <2>4. /\ [u EXCEPT !.awaitingArgs = TRUE] \in [is : A, of : B, awaitingArgs : BOOLEAN]
          /\ [u EXCEPT !.awaitingArgs = TRUE].awaitingArgs = TRUE
      BY <2>3
    <2> QED
      BY <2>4, Zenon DEF IsTerm, u
  <1>4. /\ IsSeq(Front(stk)) /\ Len(Front(stk)) = m - 1
        /\ \A i \in 1..m - 1 : Front(stk)[i] = stk[i]
    BY <1>1, FrontAndLast
  <1> HIDE DEF t
  <1>5. /\ IsSeq(new) /\ Len(new) = m - 1 + 1 /\ new[m - 1 + 1] = t
        /\ \A i \in 1..m - 1 : new[i] = Front(stk)[i]
    BY <1>2, <1>4, AppendIs
  <1>6. Len(new) = m /\ new[m] = t /\ \A i \in 1..m - 1 : new[i] = stk[i]
    BY <1>1, <1>4, <1>5
  <1>7. DOMAIN new = 1..m
    BY <1>5, <1>6, SeqLength
  <1> HIDE DEF new
  <1>8. \A i \in DOMAIN new : IsTerm(new[i])
    BY <1>1, <1>3, <1>6, <1>7 DEF Ready, Marks
  <1>9. Marked(new) = Marked(stk) \cup {m} /\ m \notin Marked(stk)
    BY <1>1, <1>3, <1>6, <1>7 DEF Marked, Ready
  <1>10. IsFiniteSet(Marked(stk))
    <2>1. Marked(stk) \in SUBSET (1..m) /\ IsFiniteSet(1..m)
      BY <1>1, FS_Interval DEF Marked
    <2> QED
      BY <2>1, FS_Subset
  <1>11. Cardinality(Marked(new)) = n + 1
    BY <1>9, <1>10, FS_AddElement DEF Ready, Marks
  <1>12. new[1].awaitingArgs
    <2>1. CASE m = 1
      BY <1>3, <1>6, <2>1
    <2>2. CASE m # 1
      BY <1>1, <1>6, <2>2 DEF Ready, Marks
    <2> QED
      BY <2>1, <2>2
  <1>13. Marks(new, n + 1)
    BY <1>5, <1>8, <1>11, <1>12 DEF Marks
  <1> QED
    BY <1>6, <1>12, <1>13 DEF new, t

LEMMA BottomAwaits ==
  ASSUME NEW stk, NEW n, Ready(stk, n), n # 0
  PROVE  stk[1].awaitingArgs
  <1>1. IsSeq(stk) /\ Len(stk) \in Nat /\ Len(stk) > 0 /\ DOMAIN stk = 1..Len(stk)
    BY SeqLength DEF Ready, Marks
  <1>2. Marked(stk) # {}
    BY FS_EmptySet DEF Ready, Marks
  <1>3. CASE Len(stk) = 1
    BY <1>1, <1>2, <1>3 DEF Marked, Ready
  <1>4. CASE Len(stk) # 1
    BY <1>1, <1>4 DEF Ready, Marks
  <1> QED
    BY <1>3, <1>4

\* An end of args, piece by piece.
LEMMA CloseReady ==
  ASSUME NEW stk, NEW n \in Nat, Ready(stk, n), n # 0,
         NEW at \in Marked(stk), at \in 1..Len(stk) - 1, \A j \in Marked(stk) : j <= at,
         NEW t, Fresh(t)
  PROVE  LET new == Append(SubSeq(stk, 1, at - 1), t)
         IN  /\ Ready(new, n - 1) /\ Len(new) = at /\ new[at] = t
             /\ \A i \in 1..at - 1 : new[i] = stk[i]
  <1> DEFINE m == Len(stk)
             new == Append(SubSeq(stk, 1, at - 1), t)
  <1>1. IsSeq(stk) /\ m \in Nat /\ m > 0 /\ DOMAIN stk = 1..m
    BY SeqLength DEF Ready, Marks
  <1>2. at \in 1..m /\ at - 1 \in 0..m /\ at - 1 + 1 = at /\ at > 0
    <2> HIDE DEF m
    <2> QED
      BY <1>1 DEF m
  <1>3. /\ IsSeq(SubSeq(stk, 1, at - 1)) /\ Len(SubSeq(stk, 1, at - 1)) = at - 1
        /\ \A i \in 1..at - 1 : SubSeq(stk, 1, at - 1)[i] = stk[i]
    BY <1>1, <1>2, BeginningIs
  <1>4. /\ IsSeq(new) /\ Len(new) = at /\ new[at] = t
        /\ \A i \in 1..at - 1 : new[i] = SubSeq(stk, 1, at - 1)[i]
    BY <1>2, <1>3, AppendIs
  <1>5. \A i \in 1..at - 1 : new[i] = stk[i]
    BY <1>3, <1>4
  <1>6. DOMAIN new = 1..at
    BY <1>4, SeqLength
  <1> HIDE DEF new
  <1>7. \A i \in 1..at : i = at \/ i \in 1..at - 1
    BY <1>2
  <1>8. \A i \in 1..at - 1 : i \in 1..m /\ i < at
    <2> HIDE DEF m
    <2> QED
      BY <1>1, <1>2
  <1>9. \A i \in DOMAIN new : IsTerm(new[i])
    BY <1>1, <1>4, <1>5, <1>6, <1>7, <1>8 DEF Ready, Marks, Fresh
  <1>10. Marked(new) = Marked(stk) \ {at}
    <2>1. ASSUME NEW i \in Marked(new)
          PROVE  i \in Marked(stk) \ {at}
      <3>1. i \in 1..at /\ new[i].awaitingArgs
        BY <1>6 DEF Marked
      <3>2. i # at
        BY <1>4, <3>1 DEF Fresh
      <3>3. i \in 1..at - 1
        BY <1>7, <3>1, <3>2
      <3> QED
        BY <1>1, <1>5, <1>8, <3>1, <3>2, <3>3 DEF Marked
    <2>2. ASSUME NEW i \in Marked(stk) \ {at}
          PROVE  i \in Marked(new)
      <3>1. i \in 1..m /\ stk[i].awaitingArgs /\ i <= at /\ i # at
        BY <1>1 DEF Marked
      <3>2. i \in 1..at - 1 /\ i \in 1..at
        <4> HIDE DEF m
        <4> QED
          BY <1>2, <3>1
      <3> QED
        BY <1>5, <1>6, <3>1, <3>2 DEF Marked
    <2> QED
      BY <2>1, <2>2
  <1>11. IsFiniteSet(Marked(stk))
    <2>1. Marked(stk) \in SUBSET (1..m) /\ IsFiniteSet(1..m)
      BY <1>1, FS_Interval DEF Marked
    <2> QED
      BY <2>1, FS_Subset
  <1>12. Cardinality(Marked(new)) = n - 1
    BY <1>10, <1>11, FS_RemoveElement DEF Ready, Marks
  <1>13. at > 1 => new[1].awaitingArgs
    <2> SUFFICES ASSUME at > 1
                 PROVE  new[1].awaitingArgs
      OBVIOUS
    <2>1. 1 \in 1..at - 1 /\ m > 1
      <3> HIDE DEF m
      <3> QED
        BY <1>2, <1>1
    <2> QED
      BY <1>5, <2>1 DEF Ready, Marks
  <1>14. Ready(new, n - 1)
    BY <1>2, <1>4, <1>9, <1>12, <1>13 DEF Ready, Marks, Fresh
  <1> QED
    BY <1>4, <1>5, <1>14 DEF new

--------------------------------------------------------------------------------
(* What the two make of each part *)

Solves(s, e) == OnEvent(s, e, Nothing, NoRedirects)

LEMMA ReadsRoot ==
  ASSUME NEW text, ReadIn(text, "rootId"), NEW id, IsId(id)
  PROVE  /\ ReadIn(text \o <<id>>, "rootId")
         /\ \A env : Stk(text \o <<id>>, env) = root(Stk(text, env), id, env)
         /\ Sol(text \o <<id>>) = Solves(Sol(text), Event("rootId", id))
  <1>1. text \o <<id>> = Append(text, id)
    <2>1. text \in Seq(Int) /\ id \in Int
      BY DEF ReadIn, IsId
    <2> QED
      BY <2>1, AppendIsConcat
  <1>2. /\ ReadIn(Append(text, id), "rootId")
        /\ \A env : Stk(Append(text, id), env) = Interp(Stk(text, env), Event("rootId", id), env)
        /\ Sol(Append(text, id)) = Solves(Sol(text), Event("rootId", id))
    BY ReadsId DEF Solves
  <1>3. \A stk, env : Interp(stk, Event("rootId", id), env) = root(stk, id, env)
    BY DEF Interp, Event
  <1> QED
    BY <1>1, <1>2, <1>3, Zenon

LEMMA ReadsSuffix ==
  ASSUME NEW text, NEW mode, ReadIn(text, mode), NEW id, IsName(id)
  PROVE  /\ ReadIn(text \o <<Slash, id>>, "slashId")
         /\ \A env : Stk(text \o <<Slash, id>>, env) = subdir(Stk(text, env), id)
         /\ Sol(text \o <<Slash, id>>) = Solves(Sol(text), Event("slashId", id))
         /\ ReadIn(text \o <<Colon, id>>, "colonId")
         /\ \A env : Stk(text \o <<Colon, id>>, env) = typeInParcel(Stk(text, env), id)
         /\ Sol(text \o <<Colon, id>>) = Solves(Sol(text), Event("colonId", id))
         /\ ReadIn(text \o <<DblColon, id>>, "dblColonId")
         /\ \A env : Stk(text \o <<DblColon, id>>, env) = member(Stk(text, env), id)
         /\ Sol(text \o <<DblColon, id>>) = Solves(Sol(text), Event("dblColonId", id))
  <1>1. text \in Seq(Int) /\ id \in Int /\ IsId(id)
    BY DEF ReadIn, IsId, IsName
  <1>2. Slash \in Int /\ Colon \in Int /\ DblColon \in Int
        /\ Slash # Colon /\ Slash # DblColon /\ Colon # DblColon
    BY DEF Slash, Colon, DblColon
  <1>3. ASSUME NEW t \in Int
        PROVE  text \o <<t, id>> = Append(Append(text, t), id)
    <2> DEFINE u == text \o <<t, id>>
               v == Append(Append(text, t), id)
    <2>1. IsSeq(text) /\ Len(text) \in Nat
      BY <1>1 DEF IsSeq
    <2>2. /\ IsSeq(Append(text, t)) /\ Len(Append(text, t)) = Len(text) + 1
          /\ Append(text, t)[Len(text) + 1] = t
          /\ \A i \in 1..Len(text) : Append(text, t)[i] = text[i]
      BY <2>1, AppendIs
    <2>3. /\ IsSeq(v) /\ Len(v) = Len(text) + 1 + 1 /\ v[Len(text) + 1 + 1] = id
          /\ \A i \in 1..Len(text) + 1 : v[i] = Append(text, t)[i]
      BY <2>2, AppendIs
    <2>4. IsSeq(<<t, id>>) /\ Len(<<t, id>>) = 2
      <3>1. <<t, id>> \in Seq(Int)
        BY <1>1
      <3> QED
        BY <3>1 DEF IsSeq
    <2>5. /\ IsSeq(u) /\ Len(u) = Len(text) + 2
          /\ \A i \in 1..Len(text) : u[i] = text[i]
          /\ \A i \in 1..2 : u[Len(text) + i] = <<t, id>>[i]
      BY <2>1, <2>4, ConcatIs
    <2> DEFINE m == Len(text)
    <2>6. m \in Nat
      BY <2>1
    <2> HIDE DEF u, v, m
    <2>7. u[m + 1] = t /\ u[m + 2] = id
      BY <2>5 DEF m
    <2>8. v[m + 2] = id /\ v[m + 1] = t /\ \A i \in 1..m : v[i] = text[i]
      <3>1. m + 1 + 1 = m + 2 /\ m + 1 \in 1..m + 1 /\ \A i \in 1..m : i \in 1..m + 1
        BY <2>6
      <3> QED
        BY <2>2, <2>3, <3>1 DEF m
    <2>9. \A i \in 1..m + 2 : i \in 1..m \/ i = m + 1 \/ i = m + 2
      BY <2>6
    <2>10. Len(u) = m + 2 /\ Len(v) = m + 2 /\ \A i \in 1..m : u[i] = text[i]
      BY <2>3, <2>5, <2>6 DEF m
    <2>11. \A i \in 1..Len(u) : u[i] = v[i]
      BY <2>7, <2>8, <2>9, <2>10
    <2>12. u = v
      BY <2>3, <2>5, <2>10, <2>11, SameSeq
    <2> QED
      BY <2>12 DEF u, v
  <1>4. ASSUME NEW t \in {Slash, Colon, DblColon}, NEW next,
               next = IF t = Slash THEN "slashId" ELSE IF t = Colon THEN "colonId" ELSE "dblColonId"
        PROVE  /\ ReadIn(text \o <<t, id>>, next)
               /\ \A env : Stk(text \o <<t, id>>, env)
                                = Interp(Stk(text, env), Event(next, id), env)
               /\ Sol(text \o <<t, id>>) = Solves(Sol(text), Event(next, id))
    <2> DEFINE u == Append(text, t)
    <2>1. /\ ReadIn(u, next) /\ Sol(u) = Sol(text)
          /\ \A env : Stk(u, env) = Stk(text, env)
      BY <1>4, ReadsMark
    <2> HIDE DEF u
    <2>2. /\ ReadIn(Append(u, id), next)
          /\ \A env : Stk(Append(u, id), env) = Interp(Stk(u, env), Event(next, id), env)
          /\ Sol(Append(u, id)) = OnEvent(Sol(u), Event(next, id), Nothing, NoRedirects)
      BY <1>1, <2>1, ReadsId
    <2>3. text \o <<t, id>> = Append(u, id)
      BY <1>2, <1>3 DEF u
    <2> QED
      BY <2>1, <2>2, <2>3, Zenon DEF Solves
  <1>5. \A stk, env : /\ Interp(stk, Event("slashId", id), env) = subdir(stk, id)
                      /\ Interp(stk, Event("colonId", id), env) = typeInParcel(stk, id)
                      /\ Interp(stk, Event("dblColonId", id), env) = member(stk, id)
    BY DEF Interp, Event
  <1>6. /\ ReadIn(text \o <<Slash, id>>, "slashId")
        /\ \A env : Stk(text \o <<Slash, id>>, env)
                        = Interp(Stk(text, env), Event("slashId", id), env)
        /\ Sol(text \o <<Slash, id>>) = Solves(Sol(text), Event("slashId", id))
    BY <1>4
  <1>7. /\ ReadIn(text \o <<Colon, id>>, "colonId")
        /\ \A env : Stk(text \o <<Colon, id>>, env)
                        = Interp(Stk(text, env), Event("colonId", id), env)
        /\ Sol(text \o <<Colon, id>>) = Solves(Sol(text), Event("colonId", id))
    BY <1>2, <1>4
  <1>8. /\ ReadIn(text \o <<DblColon, id>>, "dblColonId")
        /\ \A env : Stk(text \o <<DblColon, id>>, env)
                        = Interp(Stk(text, env), Event("dblColonId", id), env)
        /\ Sol(text \o <<DblColon, id>>) = Solves(Sol(text), Event("dblColonId", id))
    BY <1>2, <1>4
  <1>9. /\ \A env : Stk(text \o <<Slash, id>>, env) = subdir(Stk(text, env), id)
        /\ \A env : Stk(text \o <<Colon, id>>, env) = typeInParcel(Stk(text, env), id)
        /\ \A env : Stk(text \o <<DblColon, id>>, env) = member(Stk(text, env), id)
    <2>1. \A env : Stk(text \o <<Slash, id>>, env) = subdir(Stk(text, env), id)
      BY <1>5, <1>6, Zenon
    <2>2. \A env : Stk(text \o <<Colon, id>>, env) = typeInParcel(Stk(text, env), id)
      BY <1>5, <1>7, Zenon
    <2>3. \A env : Stk(text \o <<DblColon, id>>, env) = member(Stk(text, env), id)
      BY <1>5, <1>8, Zenon
    <2> QED
      BY <2>1, <2>2, <2>3, Zenon
  <1> QED
    BY <1>6, <1>7, <1>8, <1>9, Zenon

LEMMA OneThenTwo ==
  ASSUME NEW x, NEW y, NEW z
  PROVE  <<x>> \o <<y, z>> = <<x, y, z>>
  <1> DEFINE S == {x, y, z}
  <1>1. <<x>> \in Seq(S) /\ <<y, z>> \in Seq(S) /\ <<x, y, z>> \in Seq(S)
    OBVIOUS
  <1>2. IsSeq(<<x>>) /\ IsSeq(<<y, z>>) /\ IsSeq(<<x, y, z>>)
    BY <1>1, Zenon DEF IsSeq
  <1>3. Len(<<x>>) = 1 /\ Len(<<y, z>>) = 2 /\ Len(<<x, y, z>>) = 3
        /\ 1 \in 1..1 /\ 1 \in 1..2 /\ 2 \in 1..2
    OBVIOUS
  <1> DEFINE u == <<x>> \o <<y, z>>
  <1>4. /\ IsSeq(u) /\ Len(u) = 1 + 2 /\ \A i \in 1..1 : u[i] = <<x>>[i]
        /\ \A i \in 1..2 : u[1 + i] = <<y, z>>[i]
    BY <1>2, <1>3, ConcatIs
  <1> HIDE DEF u
  <1>5. u[1] = x
    BY <1>4
  <1>6. u[2] = y /\ u[3] = z
    <2>1. u[1 + 1] = <<y, z>>[1] /\ u[1 + 2] = <<y, z>>[2]
      BY <1>3, <1>4
    <2> QED
      BY <2>1
  <1>7. \A i \in 1..3 : u[i] = <<x, y, z>>[i]
    <2>1. \A i \in 1..3 : i = 1 \/ i = 2 \/ i = 3
      OBVIOUS
    <2> QED
      BY <1>5, <1>6, <2>1
  <1>8. u = <<x, y, z>>
    <2>1. Len(u) = Len(<<x, y, z>>) /\ Len(u) = 3
      BY <1>3, <1>4
    <2> QED
      BY <1>2, <1>4, <1>7, <2>1, SameSeq
  <1> QED
    BY <1>8 DEF u

\* An operand, after a bracket or a comma or at the start.
LEMMA ReadsOperand ==
  ASSUME NEW text, ReadIn(text, "rootId"), NEW part \in Operands
  PROVE  /\ IsId(part[1])
         /\ \/ /\ Len(part) = 1 /\ part = <<part[1]>>
               /\ ReadIn(text \o part, "rootId")
               /\ \A env : Stk(text \o part, env) = root(Stk(text, env), part[1], env)
               /\ Sol(text \o part) = Solves(Sol(text), Event("rootId", part[1]))
            \/ /\ Len(part) = 3 /\ part = <<part[1], Colon, part[3]>> /\ IsName(part[3])
               /\ ReadIn(text \o part, "colonId")
               /\ \A env : Stk(text \o part, env)
                            = typeInParcel(root(Stk(text, env), part[1], env), part[3])
               /\ Sol(text \o part) = Solves(Solves(Sol(text), Event("rootId", part[1])),
                                             Event("colonId", part[3]))
  <1>1. /\ part \in Seq(Int) /\ Len(part) \in {1, 3}
        /\ part[1] = HereId \/ IsDollar(part[1]) \/ IsName(part[1])
        /\ Len(part) = 3 => part[2] = Colon /\ IsName(part[3])
    BY PartsAssumption
  <1>2. part[1] \in Int
    BY <1>1
  <1>3. IsId(part[1])
    BY <1>1, <1>2 DEF IsId
  <1>4. CASE Len(part) = 1
    <2>1. part = <<part[1]>>
      BY <1>1, <1>4
    <2> DEFINE id == part[1]
    <2>2. part = <<id>> /\ IsId(id)
      BY <1>3, <2>1
    <2> HIDE DEF id
    <2>3. /\ ReadIn(text \o <<id>>, "rootId")
          /\ \A env : Stk(text \o <<id>>, env) = root(Stk(text, env), id, env)
          /\ Sol(text \o <<id>>) = Solves(Sol(text), Event("rootId", id))
      BY <2>2, ReadsRoot
    <2> QED
      BY <1>3, <1>4, <2>2, <2>3, Zenon DEF id
  <1>5. CASE Len(part) = 3
    <2> DEFINE id == part[1]
               name == part[3]
    <2>1. part = <<id, Colon, name>> /\ IsName(name) /\ IsId(id) /\ name \in Int /\ id \in Int
      <3> DEFINE q == <<id, Colon, name>>
      <3>1. name \in Int /\ Colon \in Int /\ id \in Int
        BY <1>1, <1>2, <1>5 DEF Colon
      <3>2. part[2] = Colon
        BY <1>1, <1>5
      <3>3. q \in Seq(Int) /\ Len(q) = 3 /\ q[1] = id /\ q[2] = Colon /\ q[3] = name
        BY <3>1
      <3> HIDE DEF q
      <3>4. \A i \in 1..3 : part[i] = q[i]
        <4>1. \A i \in 1..3 : i = 1 \/ i = 2 \/ i = 3
          OBVIOUS
        <4> QED
          BY <3>2, <3>3, <4>1
      <3>5. part = q
        BY <1>1, <1>5, <3>3, <3>4, SeqEqual
      <3> QED
        BY <1>1, <1>3, <1>5, <3>1, <3>5 DEF q
    <2> HIDE DEF id, name
    <2>2. text \o part = (text \o <<id>>) \o <<Colon, name>>
      <3>1. text \in Seq(Int) /\ <<id>> \in Seq(Int) /\ <<Colon, name>> \in Seq(Int)
        BY <2>1 DEF ReadIn, Colon
      <3>2. (text \o <<id>>) \o <<Colon, name>> = text \o (<<id>> \o <<Colon, name>>)
        BY <3>1, ConcatAssociative
      <3>3. <<id>> \o <<Colon, name>> = <<id, Colon, name>>
        BY OneThenTwo
      <3> QED
        BY <2>1, <3>2, <3>3, Zenon
    <2>3. /\ ReadIn(text \o <<id>>, "rootId")
          /\ \A env : Stk(text \o <<id>>, env) = root(Stk(text, env), id, env)
          /\ Sol(text \o <<id>>) = Solves(Sol(text), Event("rootId", id))
      BY <2>1, ReadsRoot
    <2> DEFINE u == text \o <<id>>
    <2> HIDE DEF u
    <2>4. ReadIn(u, "rootId")
      BY <2>3 DEF u
    <2>5. /\ ReadIn(u \o <<Colon, name>>, "colonId")
          /\ \A env : Stk(u \o <<Colon, name>>, env) = typeInParcel(Stk(u, env), name)
          /\ Sol(u \o <<Colon, name>>) = Solves(Sol(u), Event("colonId", name))
      BY <2>1, <2>4, ReadsSuffix
    <2>6. /\ \A env : Stk(text \o part, env)
                            = typeInParcel(root(Stk(text, env), id, env), name)
          /\ ReadIn(text \o part, "colonId")
          /\ Sol(text \o part) = Solves(Solves(Sol(text), Event("rootId", id)),
                                        Event("colonId", name))
      BY <2>2, <2>3, <2>5, Zenon DEF u
    <2> QED
      BY <1>3, <1>5, <2>1, <2>6, Zenon DEF id, name
  <1> QED
    BY <1>1, <1>4, <1>5

(***************************************************************************)
(* An operand pushes one term: a type of a path, a path, or an error. "$"  *)
(* is no path, so that no type of it is found.                             *)
(***************************************************************************)
OperandKinds(part) ==
    IF IsDollar(part[1]) THEN IF Len(part) = 1 THEN {"concrete", "err"} ELSE {"err"}
    ELSE IF Len(part) = 1 THEN {"path", "err"} ELSE {"concrete", "generic", "err"}

LEMMA OperandPushes ==
  ASSUME NEW text, ReadIn(text, "rootId"), NEW part \in Operands, NEW env,
         IsSeq(Stk(text, env))
  PROVE  \E t : /\ Fresh(t) /\ Stk(text \o part, env) = Append(Stk(text, env), t)
                /\ t.is \in OperandKinds(part)
  <1> DEFINE stk == Stk(text, env)
             id == part[1]
             name == part[3]
  <1>1. PICK t : /\ Fresh(t) /\ root(stk, id, env) = Append(stk, t)
                 /\ t.is \in IF IsDollar(id) THEN {"concrete", "err"} ELSE {"path", "err"}
    BY RootPushes
  <1>2. \/ /\ Len(part) = 1 /\ Stk(text \o part, env) = root(stk, id, env)
        \/ /\ Len(part) = 3 /\ Stk(text \o part, env) = typeInParcel(root(stk, id, env), name)
    BY ReadsOperand
  <1> HIDE DEF id, name, stk
  <1>3. CASE Len(part) = 1
    <2>1. Stk(text \o part, env) = Append(stk, t)
      BY <1>1, <1>2, <1>3
    <2>2. t.is \in OperandKinds(part)
      BY <1>1, <1>3 DEF OperandKinds, id
    <2> QED
      BY <1>1, <2>1, <2>2 DEF stk
  <1>4. CASE Len(part) = 3
    <2> DEFINE new == Append(stk, t)
    <2>1. IsSeq(new) /\ Len(new) > 0 /\ Last(new) = t /\ Front(new) = stk
      <3>1. IsSeq(stk) /\ Len(stk) \in Nat
        BY SeqLength DEF stk
      <3> QED
        BY <3>1, AppendIs
    <2> HIDE DEF new
    <2>2. PICK v : /\ Fresh(v) /\ typeInParcel(new, name) = transact(new, 1, v)
                   /\ v.is \in IF Last(new).is = "path" THEN {"concrete", "generic", "err"}
                               ELSE {"err"}
      BY SuffixReplaces
    <2>3. transact(new, 1, v) = Append(stk, v)
      BY <2>1, TopReplaced
    <2>4. Stk(text \o part, env) = Append(stk, v)
      BY <1>1, <1>2, <1>4, <2>2, <2>3 DEF new
    <2>5. v.is \in OperandKinds(part)
      BY <1>1, <1>4, <2>1, <2>2 DEF OperandKinds, id
    <2> QED
      BY <2>2, <2>4, <2>5 DEF stk
  <1> QED
    BY <1>2, <1>3, <1>4

\* A bracket or a comma and an operand, as tokens.
LEMMA MarkThenPart ==
  ASSUME NEW text \in Seq(Int), NEW m \in Int, NEW part \in Seq(Int)
  PROVE  text \o <<m>> \o part = Append(text, m) \o part
  BY AppendIsConcat

(***************************************************************************)
(* What is written so far has been read, and has left the terms that await *)
(* args, one for each bracket that is open, and one term on top.           *)
(***************************************************************************)
StackInv ==
    /\ spec \in Seq(Int) /\ open \in Nat /\ (spec = <<>> => open = 0)
    /\ spec # <<>> => /\ \E mode : ReadIn(spec, mode)
                      /\ \A env : Ready(Stk(spec, env), open)

\* An operand on a stack whose bottom, if there is one, awaits args.
LEMMA OperandReady ==
  ASSUME NEW text, ReadIn(text, "rootId"), NEW part \in Operands, NEW n, NEW env,
         Marks(Stk(text, env), n),
         Len(Stk(text, env)) = 0 \/ Stk(text, env)[1].awaitingArgs
  PROVE  Ready(Stk(text \o part, env), n)
  <1>1. IsSeq(Stk(text, env))
    BY DEF Marks
  <1>2. PICK t : Fresh(t) /\ Stk(text \o part, env) = Append(Stk(text, env), t)
    BY <1>1, OperandPushes
  <1> DEFINE stk == Stk(text, env)
  <1> HIDE DEF stk
  <1>3. Ready(Append(stk, t), n)
    BY <1>2, PushReady DEF stk
  <1> QED
    BY <1>2, <1>3 DEF stk

LEMMA OperandIsRead ==
  ASSUME NEW text, ReadIn(text, "rootId"), NEW part \in Operands
  PROVE  /\ \E mode : ReadIn(text \o part, mode)
         /\ text \o part \in Seq(Int) /\ text \o part # <<>>
  <1>1. \E mode : ReadIn(text \o part, mode)
    BY ReadsOperand
  <1>2. text \in Seq(Int) /\ part \in Seq(Int) /\ Len(part) \in {1, 3}
    BY PartsAssumption DEF ReadIn
  <1>3. text \o part \in Seq(Int)
    BY <1>2
  <1>4. Len(text \o part) = Len(text) + Len(part) /\ Len(text) \in Nat
    BY <1>2
  <1>5. text \o part # <<>>
    <2> DEFINE whole == text \o part
    <2>1. whole \in Seq(Int) /\ Len(whole) > 0
      BY <1>2, <1>3, <1>4
    <2> HIDE DEF whole
    <2>2. whole # <<>>
      BY <2>1
    <2> QED
      BY <2>2 DEF whole
  <1> QED
    BY <1>1, <1>3, <1>5

LEMMA EmptyMarks == Marks(<<>>, 0)
  <1> DEFINE none == <<>>
  <1>1. DOMAIN none = {} /\ Len(none) = 0 /\ IsSeq(none)
    BY EmptyIsSeq
  <1> HIDE DEF none
  <1>2. Marked(none) = {}
    BY <1>1 DEF Marked
  <1>3. Marks(none, 0)
    BY <1>1, <1>2, FS_EmptySet DEF Marks
  <1> QED
    BY <1>3 DEF none

LEMMA StacksStay == SpecifierSpec => []StackInv
  <1>1. SpecifierInit => StackInv
    BY DEF SpecifierInit, StackInv
  <1>2. ASSUME StackInv, [SpecifierNext]_specVars
        PROVE  StackInv'
    <2>1. CASE UNCHANGED specVars
      <3>1. spec' = spec /\ open' = open
        BY <2>1 DEF specVars
      <3> QED
        BY <1>2, <3>1, Zenon DEF StackInv
    <2>2. ASSUME NEW part \in Operands, Operand(part)
          PROVE  StackInv'
      <3> DEFINE nil == <<>>
      <3>1. ReadIn(nil, "rootId") /\ \A env : Stk(nil, env) = <<>>
        BY ReadNothing
      <3>2. nil \o part = part
        BY PartsAssumption
      <3>3. /\ \E mode : ReadIn(part, mode)
            /\ part \in Seq(Int) /\ part # <<>>
        BY <3>1, <3>2, OperandIsRead
      <3>4. ASSUME NEW env
            PROVE  Ready(Stk(part, env), 0)
        <4>1. Marks(<<>>, 0) /\ Len(<<>>) = 0
          BY EmptyMarks, EmptyIsSeq
        <4>2. Marks(Stk(nil, env), 0) /\ Len(Stk(nil, env)) = 0
          BY <3>1, <4>1
        <4>3. Ready(Stk(nil \o part, env), 0)
          BY <3>1, <4>2, OperandReady
        <4> QED
          BY <3>2, <4>3
      <3>5. spec' = part /\ open' = open /\ open = 0
        BY <1>2, <2>2 DEF Operand, StackInv
      <3> QED
        BY <3>3, <3>4, <3>5 DEF StackInv
    <2>3. ASSUME NEW part \in Operands, OpenBracket(part)
          PROVE  StackInv'
      <3>1. PICK mode : ReadIn(spec, mode)
        BY <1>2, <2>3 DEF OpenBracket, StackInv
      <3> DEFINE text == Append(spec, OpenArgs)
      <3>2. ReadIn(text, "rootId") /\ \A env : Stk(text, env) = beginArgs(Stk(spec, env))
        BY <3>1, ReadsBracket
      <3>3. spec \o <<OpenArgs>> \o part = text \o part
        <4>1. spec \in Seq(Int) /\ OpenArgs \in Int /\ part \in Seq(Int)
          BY <1>2, PartsAssumption DEF StackInv, OpenArgs
        <4> QED
          BY <4>1, MarkThenPart DEF text
      <3> HIDE DEF text
      <3>4. ASSUME NEW env
            PROVE  Ready(Stk(text \o part, env), open + 1)
        <4>1. Ready(Stk(spec, env), open)
          BY <1>2, <2>3 DEF OpenBracket, StackInv
        <4> DEFINE stk == Stk(spec, env)
        <4> HIDE DEF stk
        <4>2. Marks(beginArgs(stk), open + 1) /\ beginArgs(stk)[1].awaitingArgs
          BY <4>1, OpenMarks DEF stk
        <4>3. Marks(Stk(text, env), open + 1) /\ Stk(text, env)[1].awaitingArgs
          BY <3>2, <4>2, Zenon DEF stk
        <4> QED
          BY <3>2, <4>3, OperandReady
      <3>5. /\ \E m : ReadIn(text \o part, m)
            /\ text \o part \in Seq(Int) /\ text \o part # <<>>
        BY <3>2, OperandIsRead
      <3>6. spec' = text \o part /\ open' = open + 1 /\ open + 1 \in Nat
        BY <1>2, <2>3, <3>3 DEF OpenBracket, StackInv
      <3> QED
        BY <3>4, <3>5, <3>6 DEF StackInv
    <2>4. ASSUME NEW part \in Operands, NextArg(part)
          PROVE  StackInv'
      <3>1. PICK mode : ReadIn(spec, mode)
        BY <1>2, <2>4 DEF NextArg, StackInv
      <3> DEFINE text == Append(spec, Comma)
      <3>2. ReadIn(text, "rootId") /\ \A env : Stk(text, env) = Stk(spec, env)
        BY <3>1, ReadsBracket
      <3>3. spec \o <<Comma>> \o part = text \o part
        <4>1. spec \in Seq(Int) /\ Comma \in Int /\ part \in Seq(Int)
          BY <1>2, PartsAssumption DEF StackInv, Comma
        <4> QED
          BY <4>1, MarkThenPart DEF text
      <3> HIDE DEF text
      <3>4. ASSUME NEW env
            PROVE  Ready(Stk(text \o part, env), open)
        <4>1. Ready(Stk(spec, env), open) /\ open # 0
          BY <1>2, <2>4 DEF NextArg, StackInv
        <4>2. Stk(spec, env)[1].awaitingArgs
          BY <4>1, BottomAwaits
        <4>3. Marks(Stk(text, env), open) /\ Stk(text, env)[1].awaitingArgs
          BY <3>2, <4>1, <4>2 DEF Ready
        <4> QED
          BY <3>2, <4>3, OperandReady
      <3>5. /\ \E m : ReadIn(text \o part, m)
            /\ text \o part \in Seq(Int) /\ text \o part # <<>>
        BY <3>2, OperandIsRead
      <3>6. spec' = text \o part /\ open' = open /\ open \in Nat
        BY <1>2, <2>4, <3>3 DEF NextArg, StackInv
      <3> QED
        BY <3>4, <3>5, <3>6 DEF StackInv
    <2>5. ASSUME CloseBracket
          PROVE  StackInv'
      <3>1. PICK mode : ReadIn(spec, mode)
        BY <1>2, <2>5 DEF CloseBracket, StackInv
      <3> DEFINE text == Append(spec, CloseArgs)
      <3>2. ReadIn(text, mode) /\ \A env : Stk(text, env) = endArgs(Stk(spec, env))
        BY <3>1, ReadsBracket
      <3> HIDE DEF text
      <3>3. ASSUME NEW env
            PROVE  Ready(Stk(text, env), open - 1)
        <4> DEFINE stk == Stk(spec, env)
        <4>1. Ready(stk, open) /\ open # 0 /\ open \in Nat /\ open > 0
          BY <1>2, <2>5 DEF CloseBracket, StackInv
        <4> HIDE DEF stk
        <4>2. PICK at \in Marked(stk) :
                /\ at \in 1..Len(stk) - 1 /\ \A j \in Marked(stk) : j <= at
                /\ endArgs(stk) = Append(SubSeq(stk, 1, at - 1),
                                         IF Legal(stk, at) THEN Made(stk, at) ELSE Err)
          BY <4>1, EndArgsReplaces
        <4> DEFINE t == IF Legal(stk, at) THEN Made(stk, at) ELSE Err
        <4>3. Fresh(t)
          <5>1. Fresh(Made(stk, at)) /\ Fresh(Err)
            BY TermIsFresh DEF Made
          <5> QED
            BY <5>1
        <4> HIDE DEF t
        <4>4. Ready(Append(SubSeq(stk, 1, at - 1), t), open - 1)
          BY <4>1, <4>2, <4>3, CloseReady
        <4>5. Stk(text, env) = Append(SubSeq(stk, 1, at - 1), t)
          BY <3>2, <4>2 DEF t, stk
        <4> QED
          BY <4>4, <4>5
      <3>4. text \in Seq(Int) /\ text # <<>>
        <4>1. spec \in Seq(Int) /\ CloseArgs \in Int
          BY <1>2 DEF StackInv, CloseArgs
        <4>2. text \in Seq(Int) /\ Len(text) = Len(spec) + 1 /\ Len(spec) \in Nat
          BY <4>1, AppendProperties, LenProperties DEF text
        <4> QED
          BY <4>2
      <3>5. spec' = text /\ open' = open - 1 /\ open - 1 \in Nat
        BY <1>2, <2>5 DEF CloseBracket, StackInv, text
      <3> QED
        BY <3>2, <3>3, <3>4, <3>5 DEF StackInv
    <2>6. ASSUME NEW part \in Continuations, Suffix(part)
          PROVE  StackInv'
      <3>1. PICK mode : ReadIn(spec, mode)
        BY <1>2, <2>6 DEF Suffix, StackInv
      <3> DEFINE id == part[2]
                 text == spec \o part
      <3>2. /\ part[1] \in {Slash, Colon, DblColon} /\ IsName(id)
            /\ part = <<part[1], id>> /\ part \in Seq(Int) /\ Len(part) = 2
        BY PartsAssumption
      <3>3. /\ \E m : ReadIn(text, m)
            /\ \A env : \E t : Fresh(t) /\ Stk(text, env) = transact(Stk(spec, env), 1, t)
        <4>1. CASE part[1] = Slash
          <5>1. part = <<Slash, id>>
            BY <3>2, <4>1
          <5>2. /\ ReadIn(spec \o <<Slash, id>>, "slashId")
                /\ \A env : Stk(spec \o <<Slash, id>>, env) = subdir(Stk(spec, env), id)
            BY <3>1, <3>2, ReadsSuffix
          <5> QED
            BY <5>1, <5>2, SuffixReplaces
        <4>2. CASE part[1] = Colon
          <5>1. part = <<Colon, id>>
            BY <3>2, <4>2
          <5>2. /\ ReadIn(spec \o <<Colon, id>>, "colonId")
                /\ \A env : Stk(spec \o <<Colon, id>>, env) = typeInParcel(Stk(spec, env), id)
            BY <3>1, <3>2, ReadsSuffix
          <5> QED
            BY <5>1, <5>2, SuffixReplaces
        <4>3. CASE part[1] = DblColon
          <5>1. part = <<DblColon, id>>
            BY <3>2, <4>3
          <5>2. /\ ReadIn(spec \o <<DblColon, id>>, "dblColonId")
                /\ \A env : Stk(spec \o <<DblColon, id>>, env) = member(Stk(spec, env), id)
            BY <3>1, <3>2, ReadsSuffix
          <5> QED
            BY <5>1, <5>2, SuffixReplaces
        <4> QED
          BY <3>2, <4>1, <4>2, <4>3
      <3>4. text \in Seq(Int) /\ text # <<>>
        BY <1>2, <3>2 DEF StackInv
      <3> HIDE DEF text
      <3>5. ASSUME NEW env
            PROVE  Ready(Stk(text, env), open)
        <4>1. Ready(Stk(spec, env), open)
          BY <1>2, <2>6 DEF Suffix, StackInv
        <4>2. PICK t : Fresh(t) /\ Stk(text, env) = transact(Stk(spec, env), 1, t)
          BY <3>3
        <4>3. Ready(transact(Stk(spec, env), 1, t), open)
          BY <4>1, <4>2, TopReady
        <4> QED
          BY <4>2, <4>3
      <3>6. spec' = text /\ open' = open /\ open \in Nat
        BY <1>2, <2>6 DEF Suffix, StackInv, text
      <3> QED
        BY <3>3, <3>4, <3>5, <3>6 DEF StackInv
    <2> QED
      BY <1>2, <2>1, <2>2, <2>3, <2>4, <2>5, <2>6 DEF SpecifierNext
  <1> QED
    BY <1>1, <1>2, PTL DEF SpecifierSpec

(***************************************************************************)
(* Whatever parts a specifier is written of, its evaluation leaves one     *)
(* term, and no mark of beginArgs, once its brackets are closed.           *)
(***************************************************************************)
THEOREM OneTermTheorem == SpecifierSpec => []EverySpecifierIsOneTerm
  <1>1. StackInv => EverySpecifierIsOneTerm
    <2> SUFFICES ASSUME StackInv, Written, NEW env \in Envs
                 PROVE  Len(Eval(spec, env)) = 1 /\ ~ Eval(spec, env)[1].awaitingArgs
      BY Zenon DEF EverySpecifierIsOneTerm
    <2>1. PICK mode : ReadIn(spec, mode)
      BY DEF StackInv, Written
    <2> DEFINE stk == Stk(spec, env)
    <2>2. Eval(spec, env) = stk
      BY <2>1, ReadersAre
    <2>3. Ready(stk, 0)
      BY DEF StackInv, Written
    <2> HIDE DEF stk
    <2>4. Len(stk) \in Nat /\ DOMAIN stk = 1..Len(stk)
      BY <2>3, SeqLength DEF Ready, Marks
    <2>5. Marked(stk) = {}
      <3>1. Marked(stk) \subseteq 1..Len(stk)
        BY <2>4 DEF Marked
      <3>2. IsFiniteSet(1..Len(stk))
        BY <2>4, FS_Interval
      <3>3. IsFiniteSet(Marked(stk))
        BY <3>1, <3>2, FS_Subset
      <3> QED
        BY <2>3, <3>3, FS_EmptySet DEF Ready, Marks
    <2>6. ~ stk[1].awaitingArgs
      BY <2>3, <2>4, <2>5 DEF Marked, Ready
    <2> QED
      BY <2>2, <2>3, <2>4, <2>6 DEF Ready, Marks
  <1> QED
    BY <1>1, StacksStay, PTL

--------------------------------------------------------------------------------
(* What SpecSolver has of a specifier *)

ScopeSet == [latest : {"none", "path", "type"}, output : Seq(Int)]

Solver(good, sc) == [good |-> good, scopes |-> sc]

\* The outputs of all scopes: what the solver has written.
Joined(sc) == Fold([of |-> "join"], <<>>, sc)

LEMMA JoinedIs ==
  ASSUME NEW sc \in Seq(ScopeSet), NEW e \in ScopeSet
  PROVE  /\ Joined(Append(sc, e)) = Joined(sc) \o e.output
         /\ Joined(sc) \in Seq(Int)
  <1> DEFINE f == [of |-> "join"]
  <1>1. \A x, u : Apply(f, x, u) = x \o u.output
    BY DEF Apply
  <1> HIDE DEF f
  <1>2. \A t \in Seq(ScopeSet), u \in ScopeSet :
            Fold(f, <<>>, Append(t, u)) = Fold(f, <<>>, t) \o u.output
    BY <1>1, FoldAppend
  <1> DEFINE n == Len(sc)
             T == {k \in 0..n : \A t \in Seq(ScopeSet) : Len(t) = k => Fold(f, <<>>, t) \in Seq(Int)}
  <1>3. n \in Nat
    OBVIOUS
  <1>4. 0 \in T
    <2>1. \A t \in Seq(ScopeSet) : Len(t) = 0 => t = <<>>
      OBVIOUS
    <2>2. Fold(f, <<>>, <<>>) = <<>> /\ <<>> \in Seq(Int)
      BY FoldEmpty
    <2> QED
      BY <1>3, <2>1, <2>2
  <1>5. ASSUME NEW k \in 0..n - 1, k \in T
        PROVE  k + 1 \in T
    <2>1. ASSUME NEW t \in Seq(ScopeSet), Len(t) = k + 1
          PROVE  Fold(f, <<>>, t) \in Seq(Int)
      <3>1. k \in Nat /\ k + 1 > 0
        BY <1>3
      <3>2. IsSeq(t) /\ Len(t) > 0
        BY <2>1, <3>1 DEF IsSeq
      <3>3. /\ Len(Front(t)) = Len(t) - 1 /\ t = Append(Front(t), Last(t))
        BY <3>2, FrontAndLast
      <3>4. Front(t) \in Seq(ScopeSet) /\ Last(t) \in ScopeSet
        BY <3>2 DEF Front, Last
      <3>5. Len(Front(t)) = k
        BY <2>1, <3>1, <3>3
      <3>6. Fold(f, <<>>, Front(t)) \in Seq(Int) /\ Last(t).output \in Seq(Int)
        BY <1>5, <3>4, <3>5 DEF ScopeSet
      <3>7. Fold(f, <<>>, t) = Fold(f, <<>>, Front(t)) \o Last(t).output
        BY <1>2, <3>3, <3>4
      <3>8. \A u, v \in Seq(Int) : u \o v \in Seq(Int)
        OBVIOUS
      <3> QED
        BY <3>6, <3>7, <3>8, Zenon
    <2>2. k + 1 \in 0..n
      BY <1>3
    <2> HIDE DEF n
    <2> QED
      BY <2>1, <2>2
  <1>6. n \in T
    <2>1. n \in 0..n
      BY <1>3
    <2> HIDE DEF T, n
    <2> QED
      BY <1>3, <1>4, <1>5, <2>1, AllNumbers
  <1>7. Fold(f, <<>>, sc) \in Seq(Int)
    BY <1>6
  <1> QED
    BY <1>2, <1>7 DEF Joined, f

(***************************************************************************)
(* A solver that has refused nothing has n scopes open, the last of which  *)
(* holds a path or a type, and has written text.                           *)
(***************************************************************************)
SolIs(s, n, latest, text) ==
    \E low \in Seq(ScopeSet), e \in ScopeSet :
        /\ s = Solver(TRUE, Append(low, e))
        /\ Len(low) + 1 = n /\ e.latest = latest /\ text = Joined(low) \o e.output

Refused(s) == \E sc : s = Solver(FALSE, sc)

\* The operations, on a solver given by its fields.
LEMMA SolverFields ==
  ASSUME NEW good, NEW sc
  PROVE  /\ Solver(good, sc).good = good /\ Solver(good, sc).scopes = sc
         /\ \A new : [Solver(good, sc) EXCEPT !.scopes = new] = Solver(good, new)
         /\ \A g : [Solver(good, sc) EXCEPT !.good = g] = Solver(g, sc)
  BY DEF Solver

LEMMA SolverWithTop ==
  ASSUME NEW good, NEW sc, NEW scope
  PROVE  WithTop(Solver(good, sc), scope) = Solver(good, Append(Front(sc), scope))
  <1> DEFINE s == Solver(good, sc)
  <1>1. s.scopes = sc /\ \A new : [s EXCEPT !.scopes = new] = Solver(good, new)
    BY SolverFields
  <1> HIDE DEF s
  <1>2. WithTop(s, scope) = [s EXCEPT !.scopes = Append(Front(s.scopes), scope)]
    BY Zenon DEF WithTop
  <1> QED
    BY <1>1, <1>2, Zenon DEF s

LEMMA SolverEmits ==
  ASSUME NEW good, NEW sc, NEW out
  PROVE  emit(Solver(good, sc), out)
            = Solver(good, Append(Front(sc), [Last(sc) EXCEPT !.output = @ \o out]))
  <1> DEFINE s == Solver(good, sc)
  <1>1. s.good = good /\ s.scopes = sc
    BY SolverFields
  <1>2. /\ \A new : [s EXCEPT !.scopes = new] = Solver(good, new)
        /\ \A g : [s EXCEPT !.good = g] = Solver(g, sc)
        /\ \A scope : WithTop(s, scope) = Solver(good, Append(Front(sc), scope))
    BY SolverFields, SolverWithTop
  <1> HIDE DEF s
  <1>3. emit(s, out) = WithTop(s, [Last(s.scopes) EXCEPT !.output = @ \o out])
    BY Zenon DEF emit
  <1> QED
    BY <1>1, <1>2, <1>3, Zenon DEF s

LEMMA SolverMarks ==
  ASSUME NEW good, NEW sc, NEW latest
  PROVE  mark(Solver(good, sc), latest)
            = Solver(good, Append(Front(sc), [Last(sc) EXCEPT !.latest = latest]))
  <1> DEFINE s == Solver(good, sc)
  <1>1. s.good = good /\ s.scopes = sc
    BY SolverFields
  <1>2. /\ \A new : [s EXCEPT !.scopes = new] = Solver(good, new)
        /\ \A g : [s EXCEPT !.good = g] = Solver(g, sc)
        /\ \A scope : WithTop(s, scope) = Solver(good, Append(Front(sc), scope))
    BY SolverFields, SolverWithTop
  <1> HIDE DEF s
  <1>3. mark(s, latest) = WithTop(s, [Last(s.scopes) EXCEPT !.latest = latest])
    BY Zenon DEF mark
  <1> QED
    BY <1>1, <1>2, <1>3, Zenon DEF s

LEMMA SolverExpects ==
  ASSUME NEW good, NEW sc, NEW latests
  PROVE  expect(Solver(good, sc), latests) = Solver(good /\ Last(sc).latest \in latests, sc)
  <1> DEFINE s == Solver(good, sc)
  <1>1. s.good = good /\ s.scopes = sc
    BY SolverFields
  <1>2. /\ \A new : [s EXCEPT !.scopes = new] = Solver(good, new)
        /\ \A g : [s EXCEPT !.good = g] = Solver(g, sc)
        /\ \A scope : WithTop(s, scope) = Solver(good, Append(Front(sc), scope))
    BY SolverFields, SolverWithTop
  <1> HIDE DEF s
  <1>3. expect(s, latests) = [s EXCEPT !.good = s.good /\ Last(s.scopes).latest \in latests]
    BY Zenon DEF expect
  <1> QED
    BY <1>1, <1>2, <1>3, Zenon DEF s

LEMMA SolverOpens ==
  ASSUME NEW good, NEW sc
  PROVE  beginScope(Solver(good, sc)) = Solver(good, Append(sc, [latest |-> "none", output |-> <<>>]))
  <1> DEFINE s == Solver(good, sc)
  <1>1. s.good = good /\ s.scopes = sc
    BY SolverFields
  <1>2. /\ \A new : [s EXCEPT !.scopes = new] = Solver(good, new)
        /\ \A g : [s EXCEPT !.good = g] = Solver(g, sc)
        /\ \A scope : WithTop(s, scope) = Solver(good, Append(Front(sc), scope))
    BY SolverFields, SolverWithTop
  <1> HIDE DEF s
  <1>3. beginScope(s) = [s EXCEPT !.scopes = Append(s.scopes,
                                                    [latest |-> "none", output |-> <<>>])]
    BY Zenon DEF beginScope
  <1> QED
    BY <1>1, <1>2, <1>3, Zenon DEF s

LEMMA SolverCloses ==
  ASSUME NEW good, NEW sc
  PROVE  endScopeAndEmit(Solver(good, sc)) = emit(Solver(good, Front(sc)), Last(sc).output)
  <1> DEFINE s == Solver(good, sc)
  <1>1. s.good = good /\ s.scopes = sc
    BY SolverFields
  <1>2. /\ \A new : [s EXCEPT !.scopes = new] = Solver(good, new)
        /\ \A g : [s EXCEPT !.good = g] = Solver(g, sc)
        /\ \A scope : WithTop(s, scope) = Solver(good, Append(Front(sc), scope))
    BY SolverFields, SolverWithTop
  <1> HIDE DEF s
  <1>3. endScopeAndEmit(s)
            = emit([s EXCEPT !.scopes = Front(s.scopes)], Last(s.scopes).output)
    BY Zenon DEF endScopeAndEmit
  <1> QED
    BY <1>1, <1>2, <1>3, Zenon DEF s

\* A scope on top of others.
LEMMA TopScope ==
  ASSUME NEW low \in Seq(ScopeSet), NEW e \in ScopeSet
  PROVE  /\ Last(Append(low, e)) = e /\ Front(Append(low, e)) = low
         /\ e.output \in Seq(Int) /\ Joined(low) \in Seq(Int)
  <1>1. IsSeq(low)
    BY DEF IsSeq
  <1>2. Last(Append(low, e)) = e /\ Front(Append(low, e)) = low
    BY <1>1, AppendIs
  <1>3. Joined(low) \in Seq(Int)
    BY JoinedIs
  <1>4. e.output \in Seq(Int)
    BY DEF ScopeSet
  <1> QED
    BY <1>2, <1>3, <1>4

LEMMA ScopeWritten ==
  ASSUME NEW e \in ScopeSet, NEW out \in Seq(Int)
  PROVE  /\ [e EXCEPT !.output = @ \o out] \in ScopeSet
         /\ [e EXCEPT !.output = @ \o out].latest = e.latest
         /\ [e EXCEPT !.output = @ \o out].output = e.output \o out
  <1> DEFINE more == e.output \o out
  <1>1. more \in Seq(Int)
    BY DEF ScopeSet
  <1> HIDE DEF more
  <1>2. /\ [e EXCEPT !.output = more] \in ScopeSet
        /\ [e EXCEPT !.output = more].latest = e.latest
        /\ [e EXCEPT !.output = more].output = more
    BY <1>1 DEF ScopeSet
  <1> QED
    BY <1>2, Zenon DEF more

LEMMA ScopeMarked ==
  ASSUME NEW e \in ScopeSet, NEW latest \in {"none", "path", "type"}
  PROVE  /\ [e EXCEPT !.latest = latest] \in ScopeSet
         /\ [e EXCEPT !.latest = latest].latest = latest
         /\ [e EXCEPT !.latest = latest].output = e.output
  BY DEF ScopeSet

LEMMA ScopeBegins == [latest |-> "none", output |-> <<>>] \in ScopeSet
  BY DEF ScopeSet

LEMMA Associative ==
  \A x, y, z \in Seq(Int) :
        (x \o y) \o z = x \o (y \o z) /\ x \o y \in Seq(Int) /\ Len(x \o y) = Len(x) + Len(y)
  <1>1. \A x, y, z \in Seq(Int) : (x \o y) \o z = x \o (y \o z)
    BY ConcatAssociative
  <1>2. \A x, y \in Seq(Int) : x \o y \in Seq(Int) /\ Len(x \o y) = Len(x) + Len(y)
    OBVIOUS
  <1> QED
    BY <1>1, <1>2

LEMMA EmitWrites ==
  ASSUME NEW s, NEW n, NEW latest, NEW text, SolIs(s, n, latest, text), NEW out \in Seq(Int)
  PROVE  SolIs(emit(s, out), n, latest, text \o out)
  <1>1. PICK low \in Seq(ScopeSet), e \in ScopeSet :
            /\ s = Solver(TRUE, Append(low, e))
            /\ Len(low) + 1 = n /\ e.latest = latest /\ text = Joined(low) \o e.output
    BY DEF SolIs
  <1> DEFINE sc == Append(low, e)
             new == [e EXCEPT !.output = @ \o out]
  <1>2. /\ Last(sc) = e /\ Front(sc) = low /\ e.output \in Seq(Int) /\ Joined(low) \in Seq(Int)
        /\ new \in ScopeSet /\ new.latest = e.latest /\ new.output = e.output \o out
    BY TopScope, ScopeWritten
  <1>3. emit(s, out) = Solver(TRUE, Append(Front(sc), [Last(sc) EXCEPT !.output = @ \o out]))
    BY <1>1, SolverEmits
  <1>4. emit(s, out) = Solver(TRUE, Append(low, new))
    BY <1>2, <1>3
  <1> HIDE DEF new
  <1>5. text \o out = Joined(low) \o new.output
    <2> DEFINE j == Joined(low)
               o == e.output
    <2> HIDE DEF j, o
    <2>1. j \in Seq(Int) /\ o \in Seq(Int)
      BY <1>2 DEF j, o
    <2>2. \A x, y, z \in Seq(Int) : (x \o y) \o z = x \o (y \o z)
      BY Associative, Zenon
    <2>3. (j \o o) \o out = j \o (o \o out)
      BY <2>1, <2>2, Zenon
    <2> QED
      BY <1>1, <1>2, <2>3 DEF j, o
  <1> QED
    BY <1>1, <1>2, <1>4, <1>5 DEF SolIs

LEMMA MarkSets ==
  ASSUME NEW s, NEW n, NEW l, NEW text, SolIs(s, n, l, text),
         NEW latest \in {"none", "path", "type"}
  PROVE  SolIs(mark(s, latest), n, latest, text)
  <1>1. PICK low \in Seq(ScopeSet), e \in ScopeSet :
            /\ s = Solver(TRUE, Append(low, e))
            /\ Len(low) + 1 = n /\ e.latest = l /\ text = Joined(low) \o e.output
    BY DEF SolIs
  <1> DEFINE sc == Append(low, e)
             new == [e EXCEPT !.latest = latest]
  <1>2. /\ Last(sc) = e /\ Front(sc) = low
        /\ new \in ScopeSet /\ new.latest = latest /\ new.output = e.output
    BY TopScope, ScopeMarked
  <1>3. mark(s, latest) = Solver(TRUE, Append(Front(sc), [Last(sc) EXCEPT !.latest = latest]))
    BY <1>1, SolverMarks
  <1>4. mark(s, latest) = Solver(TRUE, Append(low, new))
    BY <1>2, <1>3
  <1> HIDE DEF new
  <1> QED
    BY <1>1, <1>2, <1>4 DEF SolIs

LEMMA ScopeOpens ==
  ASSUME NEW s, NEW n \in Nat, NEW l, NEW text, SolIs(s, n, l, text)
  PROVE  SolIs(beginScope(s), n + 1, "none", text)
  <1>1. PICK low \in Seq(ScopeSet), e \in ScopeSet :
            /\ s = Solver(TRUE, Append(low, e))
            /\ Len(low) + 1 = n /\ e.latest = l /\ text = Joined(low) \o e.output
    BY DEF SolIs
  <1> DEFINE sc == Append(low, e)
             new == [latest |-> "none", output |-> <<>>]
  <1>2. beginScope(s) = Solver(TRUE, Append(sc, new))
    BY <1>1, SolverOpens
  <1>3. new \in ScopeSet /\ new.latest = "none" /\ new.output = <<>>
    BY ScopeBegins
  <1>4. Joined(sc) = text /\ text \in Seq(Int)
    <2>1. Joined(low) \in Seq(Int) /\ Joined(sc) = Joined(low) \o e.output
      BY JoinedIs
    <2>2. e.output \in Seq(Int)
      BY DEF ScopeSet
    <2> QED
      BY <1>1, <2>1, <2>2
  <1>5. sc \in Seq(ScopeSet) /\ Len(sc) = Len(low) + 1
    BY AppendProperties
  <1> HIDE DEF sc, new
  <1>6. text = Joined(sc) \o new.output /\ Len(sc) + 1 = n + 1
    BY <1>1, <1>3, <1>4, <1>5
  <1> QED
    BY <1>2, <1>3, <1>5, <1>6 DEF SolIs

LEMMA ScopeCloses ==
  ASSUME NEW s, NEW n \in Nat, n > 1, NEW l, NEW text, SolIs(s, n, l, text)
  PROVE  \E k \in {"none", "path", "type"} : SolIs(endScopeAndEmit(s), n - 1, k, text)
  <1>1. PICK low \in Seq(ScopeSet), e \in ScopeSet :
            /\ s = Solver(TRUE, Append(low, e))
            /\ Len(low) + 1 = n /\ e.latest = l /\ text = Joined(low) \o e.output
    BY DEF SolIs
  <1> DEFINE sc == Append(low, e)
             lower == Front(low)
             u == Last(low)
             below == Solver(TRUE, low)
  <1>2. Len(low) \in Nat /\ Len(low) > 0 /\ IsSeq(low)
    BY <1>1 DEF IsSeq
  <1>3. lower \in Seq(ScopeSet) /\ u \in ScopeSet /\ low = Append(lower, u)
        /\ Len(lower) = Len(low) - 1
    <2>1. low = Append(lower, u) /\ Len(lower) = Len(low) - 1
      BY <1>2, FrontAndLast
    <2>2. u \in ScopeSet
      BY <1>2 DEF Last
    <2>3. lower \in Seq(ScopeSet)
      <3>1. Len(low) - 1 \in 0..Len(low)
        BY <1>2
      <3> QED
        BY <3>1, FrontIs DEF Front
    <2> QED
      BY <2>1, <2>2, <2>3
  <1>4. Last(sc) = e /\ Front(sc) = low /\ e.output \in Seq(Int)
    BY TopScope
  <1>5. endScopeAndEmit(s) = emit(Solver(TRUE, Front(sc)), Last(sc).output)
    BY <1>1, SolverCloses
  <1>6. endScopeAndEmit(s) = emit(below, e.output)
    BY <1>4, <1>5
  <1> HIDE DEF sc, lower, u
  <1>7. Joined(low) = Joined(lower) \o u.output
    BY <1>3, JoinedIs
  <1>8. Len(lower) + 1 = n - 1
    BY <1>1, <1>2, <1>3
  <1>9. SolIs(below, n - 1, u.latest, Joined(low))
    <2>1. below = Solver(TRUE, Append(lower, u))
      BY <1>3
    <2> HIDE DEF below
    <2> QED
      BY <1>3, <1>7, <1>8, <2>1 DEF SolIs
  <1> HIDE DEF below
  <1>10. SolIs(emit(below, e.output), n - 1, u.latest, Joined(low) \o e.output)
    BY <1>4, <1>9, EmitWrites
  <1>11. u.latest \in {"none", "path", "type"}
    BY <1>3 DEF ScopeSet
  <1> QED
    BY <1>1, <1>6, <1>10, <1>11

\* What is refused stays refused.
LEMMA RefusedStays ==
  ASSUME NEW s, Refused(s), NEW out, NEW latest, NEW latests
  PROVE  /\ ~ s.good
         /\ Refused(emit(s, out)) /\ Refused(mark(s, latest)) /\ Refused(expect(s, latests))
         /\ Refused(beginScope(s)) /\ Refused(endScopeAndEmit(s))
         /\ Refused(handleRedirectsIfPath(s, NoRedirects))
  <1>1. PICK sc : s = Solver(FALSE, sc)
    BY DEF Refused
  <1>2. ~ s.good /\ s.scopes = sc
    BY <1>1, SolverFields
  <1>3. \A t : Refused(Solver(FALSE, t))
    BY DEF Refused
  <1>4. \A t, o : Refused(emit(Solver(FALSE, t), o))
    <2> TAKE t, o
    <2>1. emit(Solver(FALSE, t), o)
            = Solver(FALSE, Append(Front(t), [Last(t) EXCEPT !.output = @ \o o]))
      BY SolverEmits, Zenon
    <2> QED
      BY <1>3, <2>1, Zenon
  <1>5. Refused(emit(s, out)) /\ Refused(endScopeAndEmit(s))
    <2>1. endScopeAndEmit(s) = emit(Solver(FALSE, Front(sc)), Last(sc).output)
      BY <1>1, SolverCloses, Zenon
    <2> QED
      BY <1>1, <1>4, <2>1, Zenon
  <1>6. Refused(mark(s, latest))
    <2>1. mark(s, latest) = Solver(FALSE, Append(Front(sc), [Last(sc) EXCEPT !.latest = latest]))
      BY <1>1, SolverMarks, Zenon
    <2> QED
      BY <1>3, <2>1, Zenon
  <1>7. Refused(expect(s, latests))
    <2> DEFINE no == FALSE
               met == no /\ Last(sc).latest \in latests
    <2>1. met = FALSE
      OBVIOUS
    <2> HIDE DEF no
    <2>2. expect(Solver(no, sc), latests) = Solver(met, sc)
      BY SolverExpects, Zenon
    <2> HIDE DEF met
    <2>3. expect(s, latests) = Solver(met, sc)
      BY <1>1, <2>2 DEF no
    <2> QED
      BY <1>3, <2>1, <2>3, Zenon
  <1>8. Refused(beginScope(s))
    <2>1. beginScope(s) = Solver(FALSE, Append(sc, [latest |-> "none", output |-> <<>>]))
      BY <1>1, SolverOpens, Zenon
    <2> QED
      BY <1>3, <2>1, Zenon
  <1>9. Refused(handleRedirectsIfPath(s, NoRedirects))
    <2> DEFINE scope == [Last(s.scopes) EXCEPT !.output = Resolve(NoRedirects, @)]
    <2>1. handleRedirectsIfPath(s, NoRedirects)
            = IF Last(s.scopes).latest = "path" THEN WithTop(s, scope) ELSE s
      BY Zenon DEF handleRedirectsIfPath
    <2> HIDE DEF scope
    <2>2. WithTop(s, scope) = Solver(FALSE, Append(Front(sc), scope))
      BY <1>1, SolverWithTop, Zenon
    <2> QED
      BY <1>1, <1>3, <2>1, <2>2, Zenon
  <1> QED
    BY <1>2, <1>5, <1>6, <1>7, <1>8, <1>9

\* An expectation is met, or refuses.
LEMMA Expects ==
  ASSUME NEW s, NEW n, NEW l, NEW text, SolIs(s, n, l, text), NEW latests
  PROVE  /\ s.good
         /\ l \in latests => expect(s, latests) = s
         /\ l \notin latests => Refused(expect(s, latests))
  <1>1. PICK low \in Seq(ScopeSet), e \in ScopeSet :
            /\ s = Solver(TRUE, Append(low, e)) /\ e.latest = l
    BY DEF SolIs
  <1> DEFINE sc == Append(low, e)
  <1>2. Last(sc) = e
    <2>1. IsSeq(low)
      BY DEF IsSeq
    <2> QED
      BY <2>1, AppendIs
  <1> HIDE DEF sc
  <1>3. s.good
    BY <1>1, SolverFields DEF sc
  <1>4. expect(s, latests) = Solver(TRUE /\ Last(sc).latest \in latests, sc)
    BY <1>1, SolverExpects DEF sc
  <1>5. CASE l \in latests
    <2>1. (TRUE /\ Last(sc).latest \in latests) = TRUE
      BY <1>1, <1>2, <1>5
    <2> QED
      BY <1>1, <1>3, <1>4, <1>5, <2>1 DEF sc
  <1>6. CASE l \notin latests
    <2>1. (TRUE /\ Last(sc).latest \in latests) = FALSE
      BY <1>1, <1>2, <1>6
    <2> QED
      BY <1>3, <1>4, <1>6, <2>1 DEF Refused
  <1> QED
    BY <1>5, <1>6

\* No redirects change no path.
LEMMA NoRedirectsChangeNothing ==
  ASSUME NEW s, NEW n, NEW l, NEW text, SolIs(s, n, l, text)
  PROVE  handleRedirectsIfPath(s, NoRedirects) = s
  <1>1. PICK low \in Seq(ScopeSet), e \in ScopeSet : s = Solver(TRUE, Append(low, e))
    BY DEF SolIs
  <1>2. \A path : Resolve(NoRedirects, path) = path
    <2> DEFINE keys == Keys(NoRedirects, LexLess)
    <2>1. DOMAIN NoRedirects = {} /\ IsFiniteSet({})
      BY FS_EmptySet DEF NoRedirects
    <2>2. PICK k \in Nat : keys \in [1..k -> {}]
      <3>1. IsFiniteSet(DOMAIN NoRedirects) /\ DOMAIN NoRedirects \subseteq Seq(Nat)
        BY <2>1
      <3> QED
        BY <2>1, <3>1, LexKeys
    <2>3. k = 0
      <3>1. k # 0 => 1 \in 1..k
        OBVIOUS
      <3> HIDE DEF keys
      <3> QED
        BY <2>2, <3>1
    <2>4. Len(keys) = 0
      <3> HIDE DEF keys
      <3> QED
        BY <2>2, <2>3
    <2> TAKE path
    <2> DEFINE places == {i \in 1..Len(keys) : IsPrefix(keys[i], path)}
               last == IF places # {} THEN Max(places) ELSE 0
    <2>5. Resolve(NoRedirects, path) =
            IF last = 0 THEN path
            ELSE NoRedirects[keys[last]] \o SubSeq(path, Len(keys[last]) + 1, Len(path))
      BY Zenon DEF Resolve, SelectLastInSeq
    <2>6. places = {}
      <3> HIDE DEF keys
      <3> QED
        BY <2>4
    <2>7. last = 0
      BY <2>6
    <2> HIDE DEF last
    <2> QED
      BY <2>5, <2>7
  <1> DEFINE sc == Append(low, e)
  <1>3. Last(sc) = e /\ Front(sc) = low /\ s.scopes = sc
    <2>1. IsSeq(low)
      BY DEF IsSeq
    <2>2. Last(sc) = e /\ Front(sc) = low
      BY <2>1, AppendIs
    <2>3. s.scopes = sc
      BY <1>1, SolverFields, Zenon
    <2> QED
      BY <2>2, <2>3
  <1>4. [e EXCEPT !.output = Resolve(NoRedirects, @)] = e
    <2>1. [e EXCEPT !.output = Resolve(NoRedirects, @)] = [e EXCEPT !.output = e.output]
      BY <1>2
    <2>2. [e EXCEPT !.output = e.output] = e
      BY DEF ScopeSet
    <2> QED
      BY <2>1, <2>2
  <1>5. WithTop(s, e) = s
    <2>1. WithTop(s, e) = [s EXCEPT !.scopes = Append(Front(s.scopes), e)]
      BY DEF WithTop
    <2>2. WithTop(s, e) = [s EXCEPT !.scopes = s.scopes]
      BY <1>3, <2>1
    <2>3. [s EXCEPT !.scopes = s.scopes] = s
      BY <1>1 DEF Solver
    <2> QED
      BY <2>2, <2>3
  <1>6. handleRedirectsIfPath(s, NoRedirects)
            = IF Last(s.scopes).latest = "path"
              THEN WithTop(s, [Last(s.scopes) EXCEPT !.output = Resolve(NoRedirects, @)])
              ELSE s
    BY Zenon DEF handleRedirectsIfPath
  <1> QED
    BY <1>3, <1>4, <1>5, <1>6

\* What each event of the parts is to a solver that has refused nothing,
LEMMA EventArms ==
  ASSUME NEW s, s.good = TRUE, NEW id
  PROVE  /\ Solves(s, Event("rootId", id)) = rootId(s, id, Nothing)
         /\ Solves(s, Event("slashId", id)) = emit(expect(s, {"path"}), <<Slash, id>>)
         /\ Solves(s, Event("colonId", id))
                = mark(emit(handleRedirectsIfPath(expect(s, {"path"}), NoRedirects),
                            <<Colon, id>>), "type")
         /\ Solves(s, Event("dblColonId", id)) = emit(expect(s, {"type"}), <<DblColon, id>>)
         /\ Solves(s, Event("openTypeArgs", id)) = beginScope(emit(expect(s, {"type"}), <<OpenArgs>>))
         /\ Solves(s, Event("closeTypeArgs", id))
                = mark(emit(endScopeAndEmit(expect(s, {"type", "none"})), <<CloseArgs>>), "type")
         /\ Solves(s, Event("typeArgsArgDelimiter", id)) = nextScope(expect(s, {"type"}), <<Comma>>)
  BY DEF Solves, OnEvent, Event

\* and to one that has.
LEMMA RefusedSolves ==
  ASSUME NEW s, Refused(s), NEW e
  PROVE  Solves(s, e) = s
  <1>1. ~ s.good
    BY RefusedStays
  <1> QED
    BY <1>1, Zenon DEF Solves, OnEvent

LEMMA SolvesRoot ==
  ASSUME NEW s, NEW n, NEW l, NEW text, SolIs(s, n, l, text), NEW id, IsId(id)
  PROVE  SolIs(Solves(s, Event("rootId", id)), n, IF IsDollar(id) THEN "type" ELSE "path",
               text \o <<id>>)
  <1> DEFINE latest == IF IsDollar(id) THEN "type" ELSE "path"
  <1>1. s.good = TRUE
    <2>1. PICK low \in Seq(ScopeSet), e \in ScopeSet : s = Solver(TRUE, Append(low, e))
      BY DEF SolIs
    <2> QED
      BY <2>1, SolverFields, Zenon
  <1>2. Solves(s, Event("rootId", id)) = rootId(s, id, Nothing)
    BY <1>1, EventArms, Zenon
  <1>3. rootId(s, id, Nothing) = mark(emit(s, <<id>>), latest)
    <2>1. id \notin DOMAIN Nothing
      BY DEF Nothing
    <2> QED
      BY <2>1, Zenon DEF rootId
  <1>4. <<id>> \in Seq(Int)
    BY DEF IsId
  <1>5. SolIs(emit(s, <<id>>), n, l, text \o <<id>>)
    BY <1>4, EmitWrites
  <1>6. latest \in {"none", "path", "type"}
    OBVIOUS
  <1> HIDE DEF latest
  <1>7. SolIs(mark(emit(s, <<id>>), latest), n, latest, text \o <<id>>)
    BY <1>5, <1>6, MarkSets
  <1> QED
    BY <1>2, <1>3, <1>7, Zenon DEF latest

\* A suffix is refused after what it cannot be a suffix of.
LEMMA SolvesSuffix ==
  ASSUME NEW s, NEW n, NEW l, NEW text, SolIs(s, n, l, text), NEW id, IsName(id)
  PROVE  /\ IF l = "path"
            THEN /\ SolIs(Solves(s, Event("slashId", id)), n, "path", text \o <<Slash, id>>)
                 /\ SolIs(Solves(s, Event("colonId", id)), n, "type", text \o <<Colon, id>>)
            ELSE /\ Refused(Solves(s, Event("slashId", id)))
                 /\ Refused(Solves(s, Event("colonId", id)))
         /\ IF l = "type"
            THEN SolIs(Solves(s, Event("dblColonId", id)), n, "type", text \o <<DblColon, id>>)
            ELSE Refused(Solves(s, Event("dblColonId", id)))
  <1>1. s.good = TRUE
    <2>1. PICK low \in Seq(ScopeSet), e \in ScopeSet : s = Solver(TRUE, Append(low, e))
      BY DEF SolIs
    <2> QED
      BY <2>1, SolverFields, Zenon
  <1>2. /\ Solves(s, Event("slashId", id)) = emit(expect(s, {"path"}), <<Slash, id>>)
        /\ Solves(s, Event("colonId", id))
                = mark(emit(handleRedirectsIfPath(expect(s, {"path"}), NoRedirects),
                            <<Colon, id>>), "type")
        /\ Solves(s, Event("dblColonId", id)) = emit(expect(s, {"type"}), <<DblColon, id>>)
    BY <1>1, EventArms, Zenon
  <1>3. <<Slash, id>> \in Seq(Int) /\ <<Colon, id>> \in Seq(Int) /\ <<DblColon, id>> \in Seq(Int)
    BY DEF Slash, Colon, DblColon, IsName
  <1>4. l = "path" \/ l # "path"
    OBVIOUS
  <1>5. CASE l = "path"
    <2>1. expect(s, {"path"}) = s
      BY <1>5, Expects
    <2>2. SolIs(emit(s, <<Slash, id>>), n, "path", text \o <<Slash, id>>)
      BY <1>3, <1>5, EmitWrites
    <2>3. handleRedirectsIfPath(s, NoRedirects) = s
      BY NoRedirectsChangeNothing
    <2>4. SolIs(emit(s, <<Colon, id>>), n, l, text \o <<Colon, id>>)
      BY <1>3, EmitWrites
    <2>5. SolIs(mark(emit(s, <<Colon, id>>), "type"), n, "type", text \o <<Colon, id>>)
      BY <2>4, MarkSets
    <2>6. l # "type" /\ Refused(expect(s, {"type"}))
      BY <1>5, Expects
    <2>7. Refused(emit(expect(s, {"type"}), <<DblColon, id>>))
      BY <2>6, RefusedStays
    <2> QED
      BY <1>2, <1>5, <2>1, <2>2, <2>3, <2>5, <2>6, <2>7, Zenon
  <1>6. CASE l # "path"
    <2>1. Refused(expect(s, {"path"}))
      BY <1>6, Expects
    <2>2. Refused(emit(expect(s, {"path"}), <<Slash, id>>))
      BY <2>1, RefusedStays
    <2>3. Refused(handleRedirectsIfPath(expect(s, {"path"}), NoRedirects))
      BY <2>1, RefusedStays
    <2>4. Refused(mark(emit(handleRedirectsIfPath(expect(s, {"path"}), NoRedirects),
                            <<Colon, id>>), "type"))
      <3> DEFINE h == handleRedirectsIfPath(expect(s, {"path"}), NoRedirects)
      <3> HIDE DEF h
      <3>1. Refused(emit(h, <<Colon, id>>))
        BY <2>3, RefusedStays DEF h
      <3>2. Refused(mark(emit(h, <<Colon, id>>), "type"))
        BY <3>1, RefusedStays
      <3> QED
        BY <3>2 DEF h
    <2>5. CASE l = "type"
      <3>1. expect(s, {"type"}) = s
        BY <2>5, Expects
      <3>2. SolIs(emit(s, <<DblColon, id>>), n, "type", text \o <<DblColon, id>>)
        BY <1>3, <2>5, EmitWrites
      <3> QED
        BY <1>2, <1>6, <2>2, <2>4, <2>5, <3>1, <3>2, Zenon
    <2>6. CASE l # "type"
      <3>1. Refused(expect(s, {"type"}))
        BY <2>6, Expects
      <3>2. Refused(emit(expect(s, {"type"}), <<DblColon, id>>))
        BY <3>1, RefusedStays
      <3> QED
        BY <1>2, <1>6, <2>2, <2>4, <2>6, <3>2, Zenon
    <2> QED
      BY <2>5, <2>6
  <1> QED
    BY <1>4, <1>5, <1>6

\* Args are of types, and types.
LEMMA SolvesBracket ==
  ASSUME NEW s, NEW n \in Nat, NEW l, NEW text, SolIs(s, n, l, text)
  PROVE  /\ IF l = "type"
            THEN SolIs(Solves(s, Event("openTypeArgs", OpenArgs)), n + 1, "none", text \o <<OpenArgs>>)
            ELSE Refused(Solves(s, Event("openTypeArgs", OpenArgs)))
         /\ n > 1 /\ l = "type" =>
                /\ SolIs(Solves(s, Event("typeArgsArgDelimiter", Comma)), n, "none", text \o <<Comma>>)
                /\ SolIs(Solves(s, Event("closeTypeArgs", CloseArgs)), n - 1, "type",
                         text \o <<CloseArgs>>)
         /\ l = "path" =>
                /\ Refused(Solves(s, Event("typeArgsArgDelimiter", Comma)))
                /\ Refused(Solves(s, Event("closeTypeArgs", CloseArgs)))
  <1>1. s.good = TRUE
    <2>1. PICK low \in Seq(ScopeSet), e \in ScopeSet : s = Solver(TRUE, Append(low, e))
      BY DEF SolIs
    <2> QED
      BY <2>1, SolverFields, Zenon
  <1>2. /\ Solves(s, Event("openTypeArgs", OpenArgs))
                = beginScope(emit(expect(s, {"type"}), <<OpenArgs>>))
        /\ Solves(s, Event("closeTypeArgs", CloseArgs))
                = mark(emit(endScopeAndEmit(expect(s, {"type", "none"})), <<CloseArgs>>), "type")
        /\ Solves(s, Event("typeArgsArgDelimiter", Comma)) = nextScope(expect(s, {"type"}), <<Comma>>)
    BY <1>1, EventArms, Zenon
  <1>3. \A u : nextScope(u, <<Comma>>) = beginScope(emit(endScopeAndEmit(u), <<Comma>>))
    BY Zenon DEF nextScope
  <1>4. <<OpenArgs>> \in Seq(Int) /\ <<Comma>> \in Seq(Int) /\ <<CloseArgs>> \in Seq(Int)
    BY DEF OpenArgs, Comma, CloseArgs
  <1>5. ASSUME l = "type"
        PROVE  SolIs(Solves(s, Event("openTypeArgs", OpenArgs)), n + 1, "none", text \o <<OpenArgs>>)
    <2>1. expect(s, {"type"}) = s
      BY <1>5, Expects
    <2>2. SolIs(emit(s, <<OpenArgs>>), n, l, text \o <<OpenArgs>>)
      BY <1>4, EmitWrites
    <2>3. SolIs(beginScope(emit(s, <<OpenArgs>>)), n + 1, "none", text \o <<OpenArgs>>)
      BY <2>2, ScopeOpens
    <2> QED
      BY <1>2, <2>1, <2>3, Zenon
  <1>6. ASSUME l # "type"
        PROVE  Refused(Solves(s, Event("openTypeArgs", OpenArgs)))
    <2>1. Refused(expect(s, {"type"}))
      BY <1>6, Expects
    <2>2. Refused(emit(expect(s, {"type"}), <<OpenArgs>>))
      BY <2>1, RefusedStays
    <2>3. Refused(beginScope(emit(expect(s, {"type"}), <<OpenArgs>>)))
      BY <2>2, RefusedStays
    <2> QED
      BY <1>2, <2>3, Zenon
  <1>7. ASSUME n > 1, l = "type"
        PROVE  /\ SolIs(Solves(s, Event("typeArgsArgDelimiter", Comma)), n, "none", text \o <<Comma>>)
               /\ SolIs(Solves(s, Event("closeTypeArgs", CloseArgs)), n - 1, "type",
                        text \o <<CloseArgs>>)
    <2>1. expect(s, {"type"}) = s /\ expect(s, {"type", "none"}) = s
      BY <1>7, Expects
    <2>2. PICK k \in {"none", "path", "type"} : SolIs(endScopeAndEmit(s), n - 1, k, text)
      BY <1>7, ScopeCloses
    <2> DEFINE u == endScopeAndEmit(s)
               m == n - 1
    <2>3. m \in Nat /\ m + 1 = n
      BY <1>7
    <2> HIDE DEF u, m
    <2>4. SolIs(u, m, k, text)
      BY <2>2 DEF u, m
    <2>5. /\ SolIs(emit(u, <<Comma>>), m, k, text \o <<Comma>>)
          /\ SolIs(emit(u, <<CloseArgs>>), m, k, text \o <<CloseArgs>>)
      BY <1>4, <2>4, EmitWrites
    <2>6. SolIs(beginScope(emit(u, <<Comma>>)), m + 1, "none", text \o <<Comma>>)
      BY <2>3, <2>5, ScopeOpens
    <2>7. SolIs(mark(emit(u, <<CloseArgs>>), "type"), m, "type", text \o <<CloseArgs>>)
      BY <2>5, MarkSets
    <2> QED
      BY <1>2, <1>3, <2>1, <2>3, <2>6, <2>7, Zenon DEF u, m
  <1>8. ASSUME l = "path"
        PROVE  /\ Refused(Solves(s, Event("typeArgsArgDelimiter", Comma)))
               /\ Refused(Solves(s, Event("closeTypeArgs", CloseArgs)))
    <2>1. Refused(expect(s, {"type"})) /\ Refused(expect(s, {"type", "none"}))
      BY <1>8, Expects
    <2> DEFINE a == endScopeAndEmit(expect(s, {"type"}))
               b == endScopeAndEmit(expect(s, {"type", "none"}))
    <2>2. Refused(a) /\ Refused(b)
      BY <2>1, RefusedStays
    <2> HIDE DEF a, b
    <2>3. Refused(emit(a, <<Comma>>)) /\ Refused(emit(b, <<CloseArgs>>))
      BY <2>2, RefusedStays
    <2>4. Refused(beginScope(emit(a, <<Comma>>))) /\ Refused(mark(emit(b, <<CloseArgs>>), "type"))
      BY <2>3, RefusedStays
    <2> QED
      BY <1>2, <1>3, <2>4, Zenon DEF a, b
  <1> QED
    BY <1>5, <1>6, <1>7, <1>8

--------------------------------------------------------------------------------
(* What both readers make of a specifier *)

\* What can be on top where the solver has a path, and where it has a type.
Kinds(latest) == IF latest = "path" THEN {"path", "err"} ELSE {"concrete", "generic", "err"}

\* A term that no end of args and no suffix can use.
Doomed(stk) ==
    \E i \in DOMAIN stk :
        \/ stk[i].is = "err"
        \/ stk[i].awaitingArgs /\ stk[i].is # "generic"
        \/ i < Len(stk) /\ ~ stk[i].awaitingArgs /\ stk[i].is # "concrete"

LEMMA PushDooms ==
  ASSUME NEW stk, IsSeq(stk), NEW t,
         \/ Doomed(stk)
         \/ Len(stk) > 0 /\ ~ stk[Len(stk)].awaitingArgs /\ stk[Len(stk)].is # "concrete"
  PROVE  Doomed(Append(stk, t))
  <1> DEFINE new == Append(stk, t)
             m == Len(stk)
  <1>1. m \in Nat /\ DOMAIN stk = 1..m
    BY SeqLength
  <1>2. IsSeq(new) /\ Len(new) = m + 1 /\ \A i \in 1..m : new[i] = stk[i]
    BY AppendIs
  <1>3. DOMAIN new = 1..m + 1
    BY <1>2, SeqLength
  <1>4. \E i \in 1..m : \/ stk[i].is = "err"
                        \/ stk[i].awaitingArgs /\ stk[i].is # "generic"
                        \/ ~ stk[i].awaitingArgs /\ stk[i].is # "concrete"
    <2>1. m > 0 => m \in 1..m
      BY <1>1
    <2> QED
      BY <1>1, <2>1 DEF Doomed
  <1> HIDE DEF new, m
  <1>5. \A i \in 1..m : i \in 1..m + 1 /\ i < m + 1
    BY <1>1
  <1>6. Doomed(new)
    BY <1>2, <1>3, <1>4, <1>5 DEF Doomed
  <1> QED
    BY <1>6 DEF new

LEMMA OpenDooms ==
  ASSUME NEW stk, NEW n, Ready(stk, n), Doomed(stk) \/ stk[Len(stk)].is # "generic"
  PROVE  Doomed(beginArgs(stk))
  <1> DEFINE new == beginArgs(stk)
             m == Len(stk)
  <1>1. m \in Nat /\ m > 0 /\ DOMAIN stk = 1..m /\ m \in 1..m /\ IsTerm(stk[m])
        /\ ~ stk[m].awaitingArgs
    BY SeqLength DEF Ready, Marks
  <1>2. /\ Marks(new, n + 1) /\ Len(new) = m
        /\ new[m] = [stk[m] EXCEPT !.awaitingArgs = TRUE]
        /\ \A i \in 1..m - 1 : new[i] = stk[i]
    BY OpenMarks
  <1>3. DOMAIN new = 1..m
    BY <1>2, SeqLength DEF Marks
  <1>4. new[m].awaitingArgs /\ new[m].is = stk[m].is
    BY <1>1, <1>2 DEF IsTerm
  <1> HIDE DEF new, m
  <1>5. CASE stk[m].is # "generic"
    BY <1>1, <1>3, <1>4, <1>5 DEF Doomed, new
  <1>6. CASE stk[m].is = "generic"
    <2>1. Doomed(stk)
      BY <1>6 DEF m
    <2>2. PICK i \in 1..m : \/ stk[i].is = "err"
                            \/ stk[i].awaitingArgs /\ stk[i].is # "generic"
                            \/ i < m /\ ~ stk[i].awaitingArgs /\ stk[i].is # "concrete"
      BY <1>1, <2>1 DEF Doomed, m
    <2>3. i # m
      BY <1>1, <1>6, <2>2
    <2>4. i \in 1..m - 1
      BY <1>1, <2>2, <2>3
    <2> QED
      BY <1>2, <1>3, <2>2, <2>4 DEF Doomed, new
  <1> QED
    BY <1>5, <1>6

LEMMA TopDooms ==
  ASSUME NEW stk, NEW n, Ready(stk, n), NEW t, Fresh(t),
         t.is = "err" \/ (Doomed(stk) /\ (stk[Len(stk)].is = "err" => t.is = "err"))
  PROVE  Doomed(transact(stk, 1, t))
  <1> DEFINE new == transact(stk, 1, t)
             m == Len(stk)
  <1>1. m \in Nat /\ m > 0 /\ IsSeq(stk) /\ DOMAIN stk = 1..m /\ m \in 1..m
        /\ ~ stk[m].awaitingArgs
    BY SeqLength DEF Ready, Marks
  <1>2. /\ IsSeq(new) /\ Len(new) = m /\ new[m] = t
        /\ \A i \in 1..m - 1 : new[i] = stk[i]
    BY <1>1, TopReplaced
  <1>3. DOMAIN new = 1..m
    BY <1>2, SeqLength
  <1> HIDE DEF new, m
  <1>4. CASE t.is = "err"
    BY <1>1, <1>2, <1>3, <1>4 DEF Doomed, new
  <1>5. CASE t.is # "err"
    <2>1. Doomed(stk) /\ stk[m].is # "err"
      BY <1>5 DEF m
    <2>2. PICK i \in 1..m : \/ stk[i].is = "err"
                            \/ stk[i].awaitingArgs /\ stk[i].is # "generic"
                            \/ i < m /\ ~ stk[i].awaitingArgs /\ stk[i].is # "concrete"
      BY <1>1, <2>1 DEF Doomed, m
    <2>3. i # m
      BY <1>1, <2>1, <2>2
    <2>4. i \in 1..m - 1
      BY <1>1, <2>2, <2>3
    <2> QED
      BY <1>2, <1>3, <2>2, <2>4 DEF Doomed, new
  <1> QED
    BY <1>4, <1>5

\* The end of args leaves a concrete type or an error.
LEMMA CloseKinds ==
  ASSUME NEW stk, NEW n \in Nat, Ready(stk, n), n > 0
  PROVE  LET new == endArgs(stk)
         IN  /\ new[Len(new)].is \in {"concrete", "err"}
             /\ Doomed(stk) \/ stk[Len(stk)].is # "concrete" => Doomed(new)
  <1> DEFINE m == Len(stk)
  <1>1. PICK at \in Marked(stk) :
            /\ at \in 1..Len(stk) - 1 /\ \A j \in Marked(stk) : j <= at
            /\ endArgs(stk) = Append(SubSeq(stk, 1, at - 1),
                                     IF Legal(stk, at) THEN Made(stk, at) ELSE Err)
    BY EndArgsReplaces
  <1> DEFINE t == IF Legal(stk, at) THEN Made(stk, at) ELSE Err
             new == Append(SubSeq(stk, 1, at - 1), t)
  <1>2. Fresh(t) /\ t.is = IF Legal(stk, at) THEN "concrete" ELSE "err"
    BY TermIsFresh DEF Made
  <1> HIDE DEF t
  <1>3. n # 0
    OBVIOUS
  <1>4. /\ Ready(new, n - 1) /\ Len(new) = at /\ new[at] = t
        /\ \A i \in 1..at - 1 : new[i] = stk[i]
    BY <1>1, <1>2, <1>3, CloseReady
  <1> HIDE DEF new
  <1>5. DOMAIN new = 1..at
    BY <1>4, SeqLength DEF Ready, Marks
  <1>6. m \in Nat /\ DOMAIN stk = 1..m /\ m \in 1..m /\ ~ stk[m].awaitingArgs
    BY SeqLength DEF Ready, Marks
  <1> HIDE DEF m
  <1>7. at \in 1..m - 1 /\ at \in Nat /\ at \in 1..at /\ stk[at].awaitingArgs
    BY <1>1 DEF Marked, m
  <1>8. ASSUME Doomed(stk) \/ stk[m].is # "concrete"
        PROVE  Doomed(new)
    <2>1. CASE Legal(stk, at)
      <3>1. /\ stk[at].is = "generic" /\ \A i \in at + 1..m : stk[i].is = "concrete"
        BY <2>1 DEF Legal, m
      <3>2. m \in at + 1..m
        BY <1>6, <1>7
      <3>3. Doomed(stk)
        BY <1>8, <3>1, <3>2
      <3>4. PICK i \in 1..m : \/ stk[i].is = "err"
                              \/ stk[i].awaitingArgs /\ stk[i].is # "generic"
                              \/ i < m /\ ~ stk[i].awaitingArgs /\ stk[i].is # "concrete"
        BY <1>6, <3>3 DEF Doomed, m
      <3>5. i # at
        BY <1>7, <3>1, <3>4
      <3>6. ~ (i \in at + 1..m)
        <4>1. SUFFICES ASSUME i \in at + 1..m
                       PROVE  FALSE
          OBVIOUS
        <4>2. stk[i].is = "concrete"
          BY <3>1, <4>1
        <4>3. stk[i].awaitingArgs
          BY <3>4, <4>2
        <4>4. i \in Marked(stk)
          BY <1>6, <3>4, <4>3 DEF Marked
        <4>5. i <= at
          BY <1>1, <4>4
        <4> QED
          BY <1>6, <1>7, <4>1, <4>5
      <3>7. i \in 1..at - 1 /\ i < at /\ i \in 1..at
        BY <1>6, <1>7, <3>4, <3>5, <3>6
      <3> QED
        BY <1>4, <1>5, <3>4, <3>7 DEF Doomed
    <2>2. CASE ~ Legal(stk, at)
      BY <1>2, <1>4, <1>5, <1>7, <2>2 DEF Doomed
    <2> QED
      BY <2>1, <2>2
  <1>9. new[Len(new)].is \in {"concrete", "err"}
    BY <1>2, <1>4
  <1>10. endArgs(stk) = new
    BY <1>1 DEF new, t
  <1> QED
    BY <1>8, <1>9, <1>10, Zenon DEF m

\* What an operand makes of the two.
LEMMA OperandSolves ==
  ASSUME NEW text, ReadIn(text, "rootId"), NEW part \in Operands
  PROVE  /\ Refused(Sol(text)) => Refused(Sol(text \o part))
         /\ \A n, l : SolIs(Sol(text), n, l, text) =>
                \/ IsDollar(part[1]) /\ Len(part) = 3 /\ Refused(Sol(text \o part))
                \/ /\ ~ (IsDollar(part[1]) /\ Len(part) = 3)
                   /\ SolIs(Sol(text \o part), n,
                            IF IsDollar(part[1]) \/ Len(part) = 3 THEN "type" ELSE "path",
                            text \o part)
  <1> DEFINE id == part[1]
             name == part[3]
             s == Sol(text)
             u == Solves(s, Event("rootId", id))
  <1>1. /\ IsId(id)
        /\ \/ Len(part) = 1 /\ part = <<id>> /\ Sol(text \o part) = u
           \/ /\ Len(part) = 3 /\ part = <<id, Colon, name>> /\ IsName(name)
              /\ Sol(text \o part) = Solves(u, Event("colonId", name))
    BY ReadsOperand
  <1>2. ASSUME Refused(s)
        PROVE  Refused(Sol(text \o part))
    <2>1. u = s
      BY <1>2, RefusedSolves
    <2> HIDE DEF u
    <2>2. Solves(u, Event("colonId", name)) = u
      BY <1>2, <2>1, RefusedSolves
    <2> QED
      BY <1>1, <1>2, <2>1, <2>2, Zenon
  <1>3. ASSUME NEW n, NEW l, SolIs(s, n, l, text)
        PROVE  \/ IsDollar(id) /\ Len(part) = 3 /\ Refused(Sol(text \o part))
               \/ /\ ~ (IsDollar(id) /\ Len(part) = 3)
                  /\ SolIs(Sol(text \o part), n,
                           IF IsDollar(id) \/ Len(part) = 3 THEN "type" ELSE "path",
                           text \o part)
    <2>1. SolIs(u, n, IF IsDollar(id) THEN "type" ELSE "path", text \o <<id>>)
      BY <1>1, <1>3, SolvesRoot
    <2> HIDE DEF u
    <2>2. CASE Len(part) = 1
      <3>1. part = <<id>> /\ Sol(text \o part) = u /\ Len(part) # 3
        BY <1>1, <2>2
      <3>2. text \o part = text \o <<id>>
        BY <3>1
      <3> HIDE DEF id, s
      <3> QED
        BY <2>1, <3>1, <3>2, Zenon
    <2>3. CASE Len(part) = 3
      <3>1. part = <<id, Colon, name>> /\ IsName(name)
            /\ Sol(text \o part) = Solves(u, Event("colonId", name))
        BY <1>1, <2>3
      <3>2. text \o part = (text \o <<id>>) \o <<Colon, name>>
        <4> HIDE DEF id, name
        <4>1. text \in Seq(Int) /\ <<id>> \in Seq(Int) /\ <<Colon, name>> \in Seq(Int)
          BY <1>1, <3>1 DEF ReadIn, Colon, IsId, IsName
        <4>2. \A x, y, z \in Seq(Int) : (x \o y) \o z = x \o (y \o z)
          BY ConcatAssociative
        <4>3. (text \o <<id>>) \o <<Colon, name>> = text \o (<<id>> \o <<Colon, name>>)
          BY <4>1, <4>2, Zenon
        <4>4. <<id>> \o <<Colon, name>> = <<id, Colon, name>>
          BY OneThenTwo
        <4> QED
          BY <3>1, <4>3, <4>4, Zenon
      <3> DEFINE latest == IF IsDollar(id) THEN "type" ELSE "path"
                 v == text \o <<id>>
      <3>3. latest = "path" <=> ~ IsDollar(id)
        OBVIOUS
      <3> HIDE DEF latest, v
      <3>4. SolIs(u, n, latest, v)
        BY <2>1 DEF latest, v
      <3>5. IF latest = "path"
            THEN SolIs(Solves(u, Event("colonId", name)), n, "type", v \o <<Colon, name>>)
            ELSE Refused(Solves(u, Event("colonId", name)))
        BY <3>1, <3>4, SolvesSuffix
      <3> HIDE DEF id, name, s
      <3> QED
        BY <2>3, <3>1, <3>2, <3>3, <3>5, Zenon DEF v
    <2> QED
      BY <1>1, <2>2, <2>3
  <1> QED
    BY <1>2, <1>3, Zenon

(***************************************************************************)
(* The two readers go together: what the solver has not refused it has     *)
(* written as it stood, and each stack ends with a term of the kind it     *)
(* takes it for; what it has refused has left each stack with a term that  *)
(* keeps it from naming a type.                                            *)
(***************************************************************************)
ReadersInv ==
    spec # <<>> =>
        \/ \E latest \in {"path", "type"} :
                /\ SolIs(Sol(spec), open + 1, latest, spec)
                /\ \A env : Stk(spec, env)[Len(Stk(spec, env))].is \in Kinds(latest)
        \/ /\ Refused(Sol(spec))
           /\ \A env : Doomed(Stk(spec, env))

\* An operand after text.
LEMMA OperandKeepsReaders ==
  ASSUME NEW text, ReadIn(text, "rootId"), NEW part \in Operands, NEW n,
         \A env : IsSeq(Stk(text, env)),
         \/ \E l : SolIs(Sol(text), n, l, text)
         \/ Refused(Sol(text)) /\ \A env, t : Doomed(Append(Stk(text, env), t))
  PROVE  \/ \E latest \in {"path", "type"} :
                /\ SolIs(Sol(text \o part), n, latest, text \o part)
                /\ \A env : Stk(text \o part, env)[Len(Stk(text \o part, env))].is \in Kinds(latest)
         \/ /\ Refused(Sol(text \o part))
            /\ \A env : Doomed(Stk(text \o part, env))
  <1> DEFINE new == text \o part
  <1>1. \A env : \E t : /\ Fresh(t) /\ Stk(new, env) = Append(Stk(text, env), t)
                        /\ t.is \in OperandKinds(part)
    <2> TAKE env
    <2>1. IsSeq(Stk(text, env))
      OBVIOUS
    <2> QED
      BY <2>1, OperandPushes
  <1>2. \A env : \E t : /\ Stk(new, env) = Append(Stk(text, env), t)
                        /\ t = Stk(new, env)[Len(Stk(new, env))]
                        /\ Len(Stk(new, env)) \in DOMAIN Stk(new, env)
                        /\ t.is \in OperandKinds(part)
    <2> TAKE env
    <2> DEFINE stk == Stk(text, env)
    <2>1. IsSeq(stk)
      OBVIOUS
    <2>2. PICK t : Fresh(t) /\ Stk(new, env) = Append(stk, t) /\ t.is \in OperandKinds(part)
      BY <1>1
    <2> HIDE DEF stk, new
    <2>3. Len(stk) \in Nat
      BY <2>1, SeqLength
    <2>4. /\ IsSeq(Append(stk, t)) /\ Len(Append(stk, t)) = Len(stk) + 1
          /\ Append(stk, t)[Len(stk) + 1] = t
      BY <2>1, AppendIs
    <2>5. DOMAIN Append(stk, t) = 1..Len(stk) + 1 /\ Len(stk) + 1 \in 1..Len(stk) + 1
      BY <2>3, <2>4, SeqLength
    <2> QED
      BY <2>2, <2>4, <2>5, Zenon DEF stk
  <1>3. IsDollar(part[1]) \/ ~ IsDollar(part[1])
    OBVIOUS
  <1>4. Len(part) \in {1, 3}
    BY PartsAssumption
  <1> DEFINE latest == IF IsDollar(part[1]) \/ Len(part) = 3 THEN "type" ELSE "path"
             bad == IsDollar(part[1]) /\ Len(part) = 3
  <1>5. latest \in {"path", "type"}
    OBVIOUS
  <1>6. ~ bad => OperandKinds(part) \subseteq Kinds(latest)
    BY <1>4 DEF OperandKinds, Kinds
  <1>7. bad => OperandKinds(part) = {"err"}
    BY <1>4 DEF OperandKinds
  <1>8. ASSUME NEW l, SolIs(Sol(text), n, l, text)
        PROVE  \/ bad /\ Refused(Sol(new))
               \/ ~ bad /\ SolIs(Sol(new), n, latest, new)
    BY <1>8, OperandSolves
  <1> HIDE DEF new, latest, bad
  <1>9. CASE \E l : SolIs(Sol(text), n, l, text)
    <2>1. \/ bad /\ Refused(Sol(new))
          \/ ~ bad /\ SolIs(Sol(new), n, latest, new)
      BY <1>8, <1>9
    <2>2. CASE bad /\ Refused(Sol(new))
      <3>1. \A env : Doomed(Stk(new, env))
        BY <1>2, <1>7, <2>2 DEF Doomed
      <3> QED
        BY <2>2, <3>1 DEF new
    <2>3. CASE ~ bad /\ SolIs(Sol(new), n, latest, new)
      <3>1. \A env : Stk(new, env)[Len(Stk(new, env))].is \in Kinds(latest)
        BY <1>2, <1>6, <2>3
      <3> QED
        BY <1>5, <2>3, <3>1 DEF new
    <2> QED
      BY <2>1, <2>2, <2>3
  <1>10. CASE Refused(Sol(text)) /\ \A env, t : Doomed(Append(Stk(text, env), t))
    <2>1. Refused(Sol(new))
      BY <1>10, OperandSolves DEF new
    <2>2. \A env : Doomed(Stk(new, env))
      BY <1>1, <1>10
    <2> QED
      BY <2>1, <2>2 DEF new
  <1> QED
    BY <1>9, <1>10

LEMMA StartIs == SolIs(Scopes, 1, "none", <<>>)
  <1> DEFINE nil == <<>>
             e == [latest |-> "none", output |-> <<>>]
  <1>1. Scopes = Solver(TRUE, Append(nil, e))
    <2>1. [good |-> TRUE, scopes |-> <<>>] = Solver(TRUE, nil)
      BY DEF Solver
    <2> HIDE DEF nil
    <2>2. beginScope(Solver(TRUE, nil)) = Solver(TRUE, Append(nil, e))
      BY SolverOpens
    <2> QED
      BY <2>1, <2>2, Zenon DEF Scopes
  <1>2. nil \in Seq(ScopeSet) /\ Len(nil) = 0 /\ e.output = <<>> /\ e.latest = "none"
    OBVIOUS
  <1>3. e \in ScopeSet
    BY ScopeBegins
  <1>4. Joined(nil) \o e.output = nil
    <2>1. Joined(nil) = <<>>
      BY FoldEmpty DEF Joined
    <2> QED
      BY <1>2, <2>1
  <1> HIDE DEF nil, e
  <1>5. Len(nil) + 1 = 1
    BY <1>2
  <1>6. SolIs(Scopes, 1, "none", nil)
    BY <1>1, <1>2, <1>3, <1>4, <1>5, Zenon DEF SolIs
  <1> QED
    BY <1>6 DEF nil

LEMMA ReadersStay == SpecifierSpec => []ReadersInv
  <1>1. SpecifierInit => ReadersInv
    BY DEF SpecifierInit, ReadersInv
  <1>2. ASSUME StackInv, ReadersInv, [SpecifierNext]_specVars
        PROVE  ReadersInv'
    <2> DEFINE Good(text, n, latest) ==
                    /\ SolIs(Sol(text), n, latest, text)
                    /\ \A env : Stk(text, env)[Len(Stk(text, env))].is \in Kinds(latest)
               Bad(text) == Refused(Sol(text)) /\ \A env : Doomed(Stk(text, env))
               Fine(text, n) == (\E latest \in {"path", "type"} : Good(text, n, latest)) \/ Bad(text)
    <2>1. spec # <<>> => Fine(spec, open + 1)
      BY <1>2 DEF ReadersInv
    <2>2. ReadersInv' <=> (spec' # <<>> => Fine(spec', open' + 1))
      BY DEF ReadersInv
    <2>3. open \in Nat /\ open + 1 \in Nat /\ (spec = <<>> => open = 0)
          /\ (spec # <<>> => /\ \E mode : ReadIn(spec, mode)
                              /\ \A env : Ready(Stk(spec, env), open))
      BY <1>2 DEF StackInv
    <2>4. spec # <<>> => \A env : /\ Len(Stk(spec, env)) > 0 /\ IsSeq(Stk(spec, env))
                                   /\ ~ Stk(spec, env)[Len(Stk(spec, env))].awaitingArgs
      BY <2>3 DEF Ready, Marks
    <2>5. ASSUME NEW text, NEW part \in Operands, NEW n, ReadIn(text, "rootId"),
                 \A env : IsSeq(Stk(text, env)),
                 \/ \E l : SolIs(Sol(text), n, l, text)
                 \/ Refused(Sol(text)) /\ \A env, t : Doomed(Append(Stk(text, env), t))
          PROVE  Fine(text \o part, n)
      BY <2>5, OperandKeepsReaders
    <2> HIDE DEF Fine
    <2>6. CASE UNCHANGED specVars
      <3>1. spec' = spec /\ open' = open
        BY <2>6 DEF specVars
      <3> QED
        BY <2>1, <2>2, <3>1, Zenon
    <2>7. ASSUME NEW part \in Operands, Operand(part)
          PROVE  ReadersInv'
      <3> DEFINE nil == <<>>
      <3>1. ReadIn(nil, "rootId") /\ Sol(nil) = Scopes /\ \A env : Stk(nil, env) = <<>>
        BY ReadNothing
      <3>2. SolIs(Scopes, 1, "none", nil)
        BY StartIs
      <3>3. nil \o part = part
        BY PartsAssumption
      <3>4. \A env : IsSeq(Stk(nil, env))
        BY <3>1, EmptyIsSeq
      <3> HIDE DEF nil
      <3>5. \E l : SolIs(Sol(nil), 1, l, nil)
        BY <3>1, <3>2
      <3>6. Fine(nil \o part, 1)
        BY <2>5, <3>1, <3>4, <3>5
      <3>7. spec' = part /\ open' + 1 = 1
        BY <2>3, <2>7 DEF Operand
      <3> QED
        BY <2>2, <3>3, <3>6, <3>7
    <2>8. ASSUME NEW part \in Operands, OpenBracket(part)
          PROVE  ReadersInv'
      <3> DEFINE text == Append(spec, OpenArgs)
      <3>1. PICK mode : ReadIn(spec, mode)
        BY <2>3, <2>8 DEF OpenBracket
      <3>2. /\ ReadIn(text, "rootId") /\ \A env : Stk(text, env) = beginArgs(Stk(spec, env))
            /\ Sol(text) = Solves(Sol(spec), Event("openTypeArgs", OpenArgs))
        BY <3>1, ReadsBracket DEF Solves
      <3>3. spec \o <<OpenArgs>> \o part = text \o part /\ spec \o <<OpenArgs>> = text
        <4>1. spec \in Seq(Int) /\ OpenArgs \in Int /\ part \in Seq(Int)
          BY <1>2, PartsAssumption DEF StackInv, OpenArgs
        <4> QED
          BY <4>1, MarkThenPart, AppendIsConcat DEF text
      <3> HIDE DEF text
      <3>4. \A env : Ready(Stk(spec, env), open)
        BY <2>3, <2>8 DEF OpenBracket
      <3>5. \A env : IsSeq(Stk(text, env))
        <4> TAKE env
        <4> DEFINE stk == Stk(spec, env)
        <4>1. Ready(stk, open)
          BY <3>4
        <4> HIDE DEF stk
        <4>2. Marks(beginArgs(stk), open + 1)
          BY <4>1, OpenMarks
        <4> QED
          BY <3>2, <4>2 DEF Marks, stk
      <3>6. ASSUME Refused(Sol(text)),
                   \A env : \/ Doomed(Stk(spec, env))
                           \/ Stk(spec, env)[Len(Stk(spec, env))].is # "generic"
            PROVE  Fine(text \o part, open + 2)
        <4>1. ASSUME NEW env, NEW t
              PROVE  Doomed(Append(Stk(text, env), t))
          <5> DEFINE stk == Stk(spec, env)
          <5>1. Ready(stk, open) /\ (Doomed(stk) \/ stk[Len(stk)].is # "generic")
            BY <3>4, <3>6
          <5> HIDE DEF stk
          <5>2. Doomed(beginArgs(stk)) /\ IsSeq(beginArgs(stk))
            BY <5>1, OpenDooms, OpenMarks DEF Marks
          <5>3. Doomed(Append(beginArgs(stk), t))
            BY <5>2, PushDooms
          <5> QED
            BY <3>2, <5>3 DEF stk
        <4> QED
          BY <2>5, <3>2, <3>5, <3>6, <4>1
      <3>7. Fine(text \o part, open + 2)
        <4>1. CASE Bad(spec)
          <5>1. Solves(Sol(spec), Event("openTypeArgs", OpenArgs)) = Sol(spec)
            BY <4>1, RefusedSolves
          <5>2. Refused(Sol(text))
            BY <3>2, <4>1, <5>1
          <5> QED
            BY <3>6, <4>1, <5>2
        <4>2. CASE Good(spec, open + 1, "path")
          <5>1. Refused(Solves(Sol(spec), Event("openTypeArgs", OpenArgs)))
            BY <2>3, <4>2, SolvesBracket
          <5>2. \A env : Stk(spec, env)[Len(Stk(spec, env))].is # "generic"
            BY <4>2 DEF Kinds
          <5> QED
            BY <3>2, <3>6, <5>1, <5>2
        <4>3. CASE Good(spec, open + 1, "type")
          <5>1. SolIs(Sol(spec), open + 1, "type", spec)
            BY <4>3
          <5>2. SolIs(Solves(Sol(spec), Event("openTypeArgs", OpenArgs)), open + 1 + 1, "none",
                      spec \o <<OpenArgs>>)
            BY <2>3, <5>1, SolvesBracket
          <5>3. SolIs(Sol(text), open + 2, "none", text)
            <6>1. open + 1 + 1 = open + 2
              BY <2>3
            <6> QED
              BY <3>2, <3>3, <5>2, <6>1
          <5> QED
            BY <2>5, <3>2, <3>5, <5>3
        <4> QED
          BY <2>1, <2>8, <4>1, <4>2, <4>3 DEF Fine, OpenBracket
      <3>8. spec' = text \o part /\ open' + 1 = open + 2
        BY <2>3, <2>8, <3>3 DEF OpenBracket
      <3> QED
        BY <2>2, <3>7, <3>8
    <2>9. ASSUME NEW part \in Operands, NextArg(part)
          PROVE  ReadersInv'
      <3> DEFINE text == Append(spec, Comma)
      <3>1. spec # <<>> /\ open > 0 /\ open + 1 > 1
        BY <2>3, <2>9 DEF NextArg
      <3>2. PICK mode : ReadIn(spec, mode)
        BY <2>3, <3>1
      <3>3. /\ ReadIn(text, "rootId") /\ \A env : Stk(text, env) = Stk(spec, env)
            /\ Sol(text) = Solves(Sol(spec), Event("typeArgsArgDelimiter", Comma))
        BY <3>2, ReadsBracket DEF Solves
      <3>4. spec \o <<Comma>> \o part = text \o part /\ spec \o <<Comma>> = text
        <4>1. spec \in Seq(Int) /\ Comma \in Int /\ part \in Seq(Int)
          BY <1>2, PartsAssumption DEF StackInv, Comma
        <4> QED
          BY <4>1, MarkThenPart, AppendIsConcat DEF text
      <3> HIDE DEF text
      <3>5. \A env : IsSeq(Stk(text, env))
        BY <2>4, <3>1, <3>3
      <3>6. ASSUME Refused(Sol(text)),
                   \A env : \/ Doomed(Stk(spec, env))
                           \/ Stk(spec, env)[Len(Stk(spec, env))].is # "concrete"
            PROVE  Fine(text \o part, open + 1)
        <4>1. ASSUME NEW env, NEW t
              PROVE  Doomed(Append(Stk(text, env), t))
          <5> DEFINE stk == Stk(spec, env)
          <5>1. /\ IsSeq(stk) /\ Len(stk) > 0 /\ ~ stk[Len(stk)].awaitingArgs
                /\ Doomed(stk) \/ stk[Len(stk)].is # "concrete"
            BY <2>4, <3>1, <3>6
          <5> HIDE DEF stk
          <5>2. Doomed(Append(stk, t))
            BY <5>1, PushDooms
          <5> QED
            BY <3>3, <5>2 DEF stk
        <4> QED
          BY <2>5, <3>3, <3>5, <3>6, <4>1
      <3>7. Fine(text \o part, open + 1)
        <4>1. CASE Bad(spec)
          <5>1. Solves(Sol(spec), Event("typeArgsArgDelimiter", Comma)) = Sol(spec)
            BY <4>1, RefusedSolves
          <5>2. Refused(Sol(text))
            BY <3>3, <4>1, <5>1
          <5> QED
            BY <3>6, <4>1, <5>2
        <4>2. CASE Good(spec, open + 1, "path")
          <5>1. Refused(Solves(Sol(spec), Event("typeArgsArgDelimiter", Comma)))
            BY <2>3, <4>2, SolvesBracket
          <5>2. \A env : Stk(spec, env)[Len(Stk(spec, env))].is # "concrete"
            BY <4>2 DEF Kinds
          <5> QED
            BY <3>3, <3>6, <5>1, <5>2
        <4>3. CASE Good(spec, open + 1, "type")
          <5>1. SolIs(Sol(spec), open + 1, "type", spec)
            BY <4>3
          <5>2. SolIs(Solves(Sol(spec), Event("typeArgsArgDelimiter", Comma)), open + 1, "none",
                      spec \o <<Comma>>)
            BY <2>3, <3>1, <5>1, SolvesBracket
          <5>3. SolIs(Sol(text), open + 1, "none", text)
            BY <3>3, <3>4, <5>2
          <5> QED
            BY <2>5, <3>3, <3>5, <5>3
        <4> QED
          BY <2>1, <3>1, <4>1, <4>2, <4>3 DEF Fine
      <3>8. spec' = text \o part /\ open' + 1 = open + 1
        BY <2>9, <3>4 DEF NextArg
      <3> QED
        BY <2>2, <3>7, <3>8
    <2>10. ASSUME CloseBracket
           PROVE  ReadersInv'
      <3> DEFINE text == Append(spec, CloseArgs)
      <3>1. spec # <<>> /\ open > 0 /\ open + 1 > 1
        BY <2>3, <2>10 DEF CloseBracket
      <3>2. PICK mode : ReadIn(spec, mode)
        BY <2>3, <3>1
      <3>3. /\ \A env : Stk(text, env) = endArgs(Stk(spec, env))
            /\ Sol(text) = Solves(Sol(spec), Event("closeTypeArgs", CloseArgs))
        BY <3>2, ReadsBracket DEF Solves
      <3>4. spec \o <<CloseArgs>> = text
        <4>1. spec \in Seq(Int) /\ CloseArgs \in Int
          BY <1>2 DEF StackInv, CloseArgs
        <4> QED
          BY <4>1, AppendIsConcat DEF text
      <3> HIDE DEF text
      <3>5. ASSUME NEW env
            PROVE  /\ Stk(text, env)[Len(Stk(text, env))].is \in Kinds("type")
                   /\ Doomed(Stk(spec, env)) => Doomed(Stk(text, env))
                   /\ Stk(spec, env)[Len(Stk(spec, env))].is # "concrete"
                            => Doomed(Stk(text, env))
        <4> DEFINE stk == Stk(spec, env)
        <4>1. Ready(stk, open)
          BY <2>3, <3>1
        <4> HIDE DEF stk
        <4>2. /\ endArgs(stk)[Len(endArgs(stk))].is \in {"concrete", "err"}
              /\ Doomed(stk) \/ stk[Len(stk)].is # "concrete" => Doomed(endArgs(stk))
          BY <2>3, <3>1, <4>1, CloseKinds
        <4>3. endArgs(stk)[Len(endArgs(stk))].is \in Kinds("type")
          BY <4>2 DEF Kinds
        <4> QED
          BY <3>3, <4>2, <4>3, Zenon DEF stk
      <3>6. Fine(text, open)
        <4>1. CASE Bad(spec)
          <5>1. Solves(Sol(spec), Event("closeTypeArgs", CloseArgs)) = Sol(spec)
            BY <4>1, RefusedSolves
          <5>2. Refused(Sol(text))
            BY <3>3, <4>1, <5>1
          <5>3. \A env : Doomed(Stk(text, env))
            BY <3>5, <4>1
          <5> QED
            BY <5>2, <5>3 DEF Fine
        <4>2. CASE Good(spec, open + 1, "path")
          <5>1. Refused(Solves(Sol(spec), Event("closeTypeArgs", CloseArgs)))
            BY <2>3, <4>2, SolvesBracket
          <5>2. \A env : Stk(spec, env)[Len(Stk(spec, env))].is # "concrete"
            BY <4>2 DEF Kinds
          <5>3. \A env : Doomed(Stk(text, env))
            BY <3>5, <5>2
          <5> QED
            BY <3>3, <5>1, <5>3 DEF Fine
        <4>3. CASE Good(spec, open + 1, "type")
          <5>1. SolIs(Sol(spec), open + 1, "type", spec)
            BY <4>3
          <5>2. SolIs(Solves(Sol(spec), Event("closeTypeArgs", CloseArgs)), open + 1 - 1, "type",
                      spec \o <<CloseArgs>>)
            BY <2>3, <3>1, <5>1, SolvesBracket
          <5>3. SolIs(Sol(text), open, "type", text)
            <6>1. open + 1 - 1 = open
              BY <2>3
            <6> QED
              BY <3>3, <3>4, <5>2, <6>1
          <5>4. \A env : Stk(text, env)[Len(Stk(text, env))].is \in Kinds("type")
            BY <3>5
          <5> QED
            BY <5>3, <5>4 DEF Fine
        <4> QED
          BY <2>1, <3>1, <4>1, <4>2, <4>3 DEF Fine
      <3>7. spec' = text /\ open' + 1 = open
        BY <2>3, <2>10 DEF CloseBracket, text
      <3> QED
        BY <2>2, <3>6, <3>7
    <2>11. ASSUME NEW part \in Continuations, Suffix(part)
           PROVE  ReadersInv'
      <3> DEFINE id == part[2]
                 text == spec \o part
                 t1 == part[1]
      <3>1. spec # <<>>
        BY <2>11 DEF Suffix
      <3>2. PICK mode : ReadIn(spec, mode)
        BY <2>3, <3>1
      <3>3. /\ t1 \in {Slash, Colon, DblColon} /\ IsName(id) /\ part = <<t1, id>>
        BY PartsAssumption
      <3> HIDE DEF t1, id, text
      <3>4. text = spec \o <<t1, id>>
        BY <3>3 DEF text
      <3> DEFINE on == IF t1 = Slash THEN "slashId" ELSE IF t1 = Colon THEN "colonId" ELSE "dblColonId"
                 needs == IF t1 = DblColon THEN "type" ELSE "path"
                 gives == IF t1 = Slash THEN "path" ELSE "type"
      <3>5. Slash # Colon /\ Slash # DblColon /\ Colon # DblColon
        BY DEF Slash, Colon, DblColon
      <3>6. /\ Sol(text) = Solves(Sol(spec), Event(on, id))
            /\ \A env : \E t :
                    /\ Fresh(t) /\ Stk(text, env) = transact(Stk(spec, env), 1, t)
                    /\ Last(Stk(spec, env)).is = "err" => t.is = "err"
                    /\ Last(Stk(spec, env)).is \in Kinds(IF needs = "type" THEN "path" ELSE "type")
                            => t.is = "err"
                    /\ t.is \in Kinds(gives)
        <4>1. /\ Sol(spec \o <<Slash, id>>) = Solves(Sol(spec), Event("slashId", id))
              /\ Sol(spec \o <<Colon, id>>) = Solves(Sol(spec), Event("colonId", id))
              /\ Sol(spec \o <<DblColon, id>>) = Solves(Sol(spec), Event("dblColonId", id))
              /\ \A env : /\ Stk(spec \o <<Slash, id>>, env) = subdir(Stk(spec, env), id)
                          /\ Stk(spec \o <<Colon, id>>, env) = typeInParcel(Stk(spec, env), id)
                          /\ Stk(spec \o <<DblColon, id>>, env) = member(Stk(spec, env), id)
          BY <3>2, <3>3, ReadsSuffix
        <4>2. CASE t1 = Slash
          <5>1. on = "slashId" /\ needs = "path" /\ gives = "path"
            BY <3>5, <4>2
          <5>2. \A stk : \E t : /\ Fresh(t) /\ subdir(stk, id) = transact(stk, 1, t)
                                /\ t.is = IF Last(stk).is = "path" THEN "path" ELSE "err"
            BY SuffixReplaces
          <5> HIDE DEF on, needs, gives
          <5> QED
            BY <3>4, <4>1, <4>2, <5>1, <5>2 DEF Kinds
        <4>3. CASE t1 = Colon
          <5>1. on = "colonId" /\ needs = "path" /\ gives = "type"
            BY <3>5, <4>3
          <5>2. \A stk : \E t : /\ Fresh(t) /\ typeInParcel(stk, id) = transact(stk, 1, t)
                                /\ t.is \in IF Last(stk).is = "path"
                                            THEN {"concrete", "generic", "err"} ELSE {"err"}
            BY SuffixReplaces
          <5> HIDE DEF on, needs, gives
          <5> QED
            BY <3>4, <4>1, <4>3, <5>1, <5>2 DEF Kinds
        <4>4. CASE t1 = DblColon
          <5>1. on = "dblColonId" /\ needs = "type" /\ gives = "type"
            BY <3>5, <4>4
          <5>2. \A stk : \E t : /\ Fresh(t) /\ member(stk, id) = transact(stk, 1, t)
                                /\ t.is \in IF Last(stk).is = "concrete" THEN {"concrete", "err"}
                                            ELSE {"err"}
            BY SuffixReplaces
          <5> HIDE DEF on, needs, gives
          <5> QED
            BY <3>4, <4>1, <4>4, <5>1, <5>2 DEF Kinds
        <4> QED
          BY <3>3, <4>2, <4>3, <4>4
      <3>7. \A s, n, l : SolIs(s, n, l, spec) =>
                IF l = needs THEN SolIs(Solves(s, Event(on, id)), n, gives, text)
                ELSE l \in {"path", "type"} => Refused(Solves(s, Event(on, id)))
        <4> SUFFICES ASSUME NEW s, NEW n, NEW l, SolIs(s, n, l, spec)
                     PROVE  IF l = needs THEN SolIs(Solves(s, Event(on, id)), n, gives, text)
                            ELSE l \in {"path", "type"} => Refused(Solves(s, Event(on, id)))
          OBVIOUS
        <4>1. /\ IF l = "path"
                 THEN /\ SolIs(Solves(s, Event("slashId", id)), n, "path", spec \o <<Slash, id>>)
                      /\ SolIs(Solves(s, Event("colonId", id)), n, "type", spec \o <<Colon, id>>)
                 ELSE /\ Refused(Solves(s, Event("slashId", id)))
                      /\ Refused(Solves(s, Event("colonId", id)))
              /\ IF l = "type"
                 THEN SolIs(Solves(s, Event("dblColonId", id)), n, "type", spec \o <<DblColon, id>>)
                 ELSE Refused(Solves(s, Event("dblColonId", id)))
          BY <3>3, SolvesSuffix
        <4>2. CASE t1 = Slash
          <5>1. on = "slashId" /\ needs = "path" /\ gives = "path"
            BY <3>5, <4>2
          <5> HIDE DEF on, needs, gives
          <5> QED
            BY <3>4, <4>1, <4>2, <5>1
        <4>3. CASE t1 = Colon
          <5>1. on = "colonId" /\ needs = "path" /\ gives = "type"
            BY <3>5, <4>3
          <5> HIDE DEF on, needs, gives
          <5> QED
            BY <3>4, <4>1, <4>3, <5>1
        <4>4. CASE t1 = DblColon
          <5>1. on = "dblColonId" /\ needs = "type" /\ gives = "type"
            BY <3>5, <4>4
          <5> HIDE DEF on, needs, gives
          <5> QED
            BY <3>4, <4>1, <4>4, <5>1
        <4> QED
          BY <3>3, <4>2, <4>3, <4>4
      <3>8. needs \in {"path", "type"} /\ gives \in {"path", "type"}
        OBVIOUS
      <3> HIDE DEF on, needs, gives
      <3>9. ASSUME NEW env, NEW t, Fresh(t), Stk(text, env) = transact(Stk(spec, env), 1, t)
            PROVE  /\ Stk(text, env)[Len(Stk(text, env))] = t
                   /\ Last(Stk(spec, env)) = Stk(spec, env)[Len(Stk(spec, env))]
                   /\ \/ t.is = "err"
                      \/ /\ Doomed(Stk(spec, env))
                         /\ Stk(spec, env)[Len(Stk(spec, env))].is = "err" => t.is = "err"
                      => Doomed(Stk(text, env))
        <4> DEFINE stk == Stk(spec, env)
        <4>1. Ready(stk, open) /\ IsSeq(stk) /\ Len(stk) > 0
          BY <2>3, <2>4, <3>1
        <4> HIDE DEF stk
        <4>2. /\ Len(transact(stk, 1, t)) = Len(stk) /\ transact(stk, 1, t)[Len(stk)] = t
          BY <4>1, TopReplaced
        <4>3. Last(stk) = stk[Len(stk)]
          BY DEF Last
        <4>4. t.is = "err" \/ (Doomed(stk) /\ (stk[Len(stk)].is = "err" => t.is = "err"))
                => Doomed(transact(stk, 1, t))
          BY <3>9, <4>1, TopDooms
        <4> QED
          BY <3>9, <4>2, <4>3, <4>4, Zenon DEF stk
      <3>10. Fine(text, open + 1)
        <4>1. CASE Bad(spec)
          <5>1. Solves(Sol(spec), Event(on, id)) = Sol(spec)
            BY <4>1, RefusedSolves
          <5>2. \A env : Doomed(Stk(text, env))
            BY <3>6, <3>9, <4>1
          <5> QED
            BY <3>6, <4>1, <5>1, <5>2 DEF Fine
        <4>2. ASSUME NEW l \in {"path", "type"}, Good(spec, open + 1, l), l = needs
              PROVE  Fine(text, open + 1)
          <5>1. SolIs(Sol(text), open + 1, gives, text)
            BY <3>6, <3>7, <4>2
          <5>2. \A env : Stk(text, env)[Len(Stk(text, env))].is \in Kinds(gives)
            BY <3>6, <3>9
          <5> QED
            BY <3>8, <5>1, <5>2 DEF Fine
        <4>3. ASSUME NEW l \in {"path", "type"}, Good(spec, open + 1, l), l # needs
              PROVE  Fine(text, open + 1)
          <5>1. Refused(Sol(text))
            BY <3>6, <3>7, <4>3
          <5>2. l = IF needs = "type" THEN "path" ELSE "type"
            BY <3>8, <4>3
          <5>3. \A env : Doomed(Stk(text, env))
            <6> TAKE env
            <6>1. PICK t : /\ Fresh(t) /\ Stk(text, env) = transact(Stk(spec, env), 1, t)
                           /\ Last(Stk(spec, env)).is \in Kinds(l) => t.is = "err"
              BY <3>6, <5>2
            <6>2. Stk(spec, env)[Len(Stk(spec, env))].is \in Kinds(l)
              BY <4>3
            <6> QED
              BY <3>9, <6>1, <6>2
          <5> QED
            BY <5>1, <5>3 DEF Fine
        <4> QED
          BY <2>1, <3>1, <4>1, <4>2, <4>3 DEF Fine
      <3>11. spec' = text /\ open' + 1 = open + 1
        BY <2>11 DEF Suffix, text
      <3> QED
        BY <2>2, <3>10, <3>11
    <2> QED
      BY <1>2, <2>6, <2>7, <2>8, <2>9, <2>10, <2>11 DEF SpecifierNext
  <1> QED
    BY <1>1, <1>2, StacksStay, PTL DEF SpecifierSpec

LEMMA NormalText ==
  ASSUME NEW text, NEW mode, ReadIn(text, mode), NEW latest, SolIs(Sol(text), 1, latest, text)
  PROVE  Solve(text, Nothing, NoRedirects) = text
  <1> DEFINE s == Sol(text)
             normal == Solve(text, Nothing, NoRedirects)
  <1>1. normal = IF s.good THEN Last(handleRedirectsIfPath(s, NoRedirects).scopes).output
                 ELSE NoSpec
    BY ReadersAre
  <1>2. SolIs(s, 1, latest, text)
    OBVIOUS
  <1> HIDE DEF s, normal
  <1>3. handleRedirectsIfPath(s, NoRedirects) = s
    BY <1>2, NoRedirectsChangeNothing
  <1>4. PICK low \in Seq(ScopeSet), e \in ScopeSet :
            /\ s = Solver(TRUE, Append(low, e))
            /\ Len(low) + 1 = 1 /\ text = Joined(low) \o e.output
    BY <1>2 DEF SolIs
  <1>5. s.good = TRUE /\ s.scopes = Append(low, e)
    BY <1>4, SolverFields, Zenon
  <1>6. Last(s.scopes) = e /\ e.output \in Seq(Int)
    BY <1>5, TopScope
  <1>7. low = <<>>
    BY <1>4
  <1>8. Joined(low) = <<>>
    BY <1>7, FoldEmpty DEF Joined
  <1>9. text = e.output
    BY <1>4, <1>6, <1>8
  <1>10. normal = text
    BY <1>1, <1>3, <1>5, <1>6, <1>9
  <1> QED
    BY <1>10 DEF normal

(***************************************************************************)
(* What a declared symbol is normalized to names what the symbol names,    *)
(* without a session and in any; and what normalization refuses names      *)
(* nothing.                                                                *)
(***************************************************************************)
THEOREM NormalTheorem == SpecifierSpec => []NormalizedSymbolsNameTheSame
  <1>1. StackInv /\ ReadersInv => NormalizedSymbolsNameTheSame
    <2> SUFFICES ASSUME StackInv, ReadersInv, Written, NEW env \in Envs
                 PROVE  Load(spec, env) = IF Solve(spec, Nothing, NoRedirects) = NoSpec THEN NoType
                                          ELSE Load(Solve(spec, Nothing, NoRedirects), env)
      BY Zenon DEF NormalizedSymbolsNameTheSame
    <2>1. PICK mode : ReadIn(spec, mode)
      BY DEF StackInv, Written
    <2> DEFINE s == Sol(spec)
               stk == Stk(spec, env)
               normal == Solve(spec, Nothing, NoRedirects)
    <2>2. /\ Eval(spec, env) = stk
          /\ normal = IF s.good THEN Last(handleRedirectsIfPath(s, NoRedirects).scopes).output
                      ELSE NoSpec
      BY <2>1, ReadersAre
    <2>3. /\ open + 1 = 1 /\ spec \in Seq(Int) /\ spec # <<>>
          /\ Ready(stk, 0)
      BY DEF StackInv, Written
    <2> HIDE DEF s, stk, normal
    <2>4. CASE \E latest : SolIs(s, 1, latest, spec)
      <3>1. PICK latest : SolIs(s, 1, latest, spec)
        BY <2>4
      <3>9. normal = spec
        BY <2>1, <3>1, NormalText DEF s, normal
      <3> QED
        BY <2>3, <3>9 DEF NoSpec, normal
    <2>5. CASE Refused(s) /\ Doomed(stk)
      <3>1. ~ s.good
        BY <2>5, RefusedStays
      <3>2. normal = NoSpec
        BY <2>2, <3>1
      <3>3. Len(stk) \in Nat /\ DOMAIN stk = 1..Len(stk) /\ IsSeq(stk)
        BY <2>3, SeqLength DEF Ready, Marks
      <3>4. Marked(stk) = {}
        <4>1. Marked(stk) \subseteq 1..Len(stk)
          BY <3>3 DEF Marked
        <4>2. IsFiniteSet(1..Len(stk))
          BY <3>3, FS_Interval
        <4>3. IsFiniteSet(Marked(stk))
          BY <4>1, <4>2, FS_Subset
        <4> QED
          BY <2>3, <4>3, FS_EmptySet DEF Ready, Marks
      <3>5. Len(stk) = 1
        <4>1. Len(stk) > 0 /\ (Len(stk) > 1 => stk[1].awaitingArgs)
          BY <2>3 DEF Ready, Marks
        <4>2. 1 \in DOMAIN stk
          BY <3>3, <4>1
        <4>3. ~ stk[1].awaitingArgs
          BY <3>4, <4>2 DEF Marked
        <4> QED
          BY <3>3, <4>1, <4>3
      <3>6. PICK i \in DOMAIN stk :
                \/ stk[i].is = "err"
                \/ stk[i].awaitingArgs /\ stk[i].is # "generic"
                \/ i < Len(stk) /\ ~ stk[i].awaitingArgs /\ stk[i].is # "concrete"
        BY <2>5 DEF Doomed
      <3>7. i = 1 /\ ~ stk[i].awaitingArgs
        BY <3>3, <3>4, <3>5 DEF Marked
      <3>8. stk[1].is = "err"
        BY <3>5, <3>6, <3>7
      <3>9. Last(Eval(spec, env)).is = "err"
        BY <2>2, <3>5, <3>8 DEF Last
      <3>10. Load(spec, env) = NoType
        <4>1. IsSeq(Eval(spec, env)) /\ Len(Eval(spec, env)) > 0
          BY <2>2, <3>3, <3>5
        <4>2. Load(spec, env) = LET top == Last(Eval(spec, env))
                                IN  IF top.is = "concrete" THEN top.of ELSE NoType
          BY <4>1, LoadIs
        <4> QED
          BY <3>9, <4>2
      <3> QED
        BY <3>2, <3>10 DEF normal
    <2> QED
      BY <2>3, <2>4, <2>5 DEF ReadersInv, s, stk
  <1> QED
    BY <1>1, StacksStay, ReadersStay, PTL

--------------------------------------------------------------------------------
(* What the fullnames read to *)

\* A stack on which an operand may be pushed.
Takes(stk) == \E n \in Nat : Marks(stk, n) /\ (Len(stk) = 0 \/ stk[1].awaitingArgs)

\* What the solver takes a term for.
Latest(t) == IF t.is = "path" THEN "path" ELSE "type"

(***************************************************************************)
(* Wherever an operand may stand, without a session: text reads to the     *)
(* term t, and the solver leaves it as it is.                              *)
(***************************************************************************)
Reads(text, t) ==
    /\ text \in Seq(Int) /\ Len(text) > 0
    /\ \A before : ReadIn(before, "rootId") /\ Takes(Stk(before, NoEnv)) =>
            /\ \E mode : ReadIn(before \o text, mode)
            /\ Stk(before \o text, NoEnv) = Append(Stk(before, NoEnv), t)
            /\ \A n, l, w : SolIs(Sol(before), n, l, w)
                                => SolIs(Sol(before \o text), n, Latest(t), w \o text)

LEMMA SolIsTyped ==
  ASSUME NEW s, NEW n, NEW l, NEW text, SolIs(s, n, l, text)
  PROVE  n \in Nat /\ n > 0 /\ text \in Seq(Int)
  <1>1. PICK low \in Seq(ScopeSet), e \in ScopeSet :
            Len(low) + 1 = n /\ text = Joined(low) \o e.output
    BY DEF SolIs
  <1>2. Joined(low) \in Seq(Int) /\ e.output \in Seq(Int)
    BY TopScope
  <1>3. Joined(low) \o e.output \in Seq(Int)
    BY <1>2
  <1>4. Len(low) \in Nat
    OBVIOUS
  <1> QED
    BY <1>1, <1>3, <1>4

LEMMA TakesPush ==
  ASSUME NEW stk, Takes(stk), NEW t, Fresh(t)
  PROVE  \E n \in Nat : Ready(Append(stk, t), n)
  <1>1. PICK n \in Nat : Marks(stk, n) /\ (Len(stk) = 0 \/ stk[1].awaitingArgs)
    BY DEF Takes
  <1>2. Ready(Append(stk, t), n)
    BY <1>1, PushReady
  <1> QED
    BY <1>2

\* A suffix more.
LEMMA SuffixReads ==
  ASSUME NEW text, NEW t, Reads(text, t), NEW id, IsName(id), NEW mk, NEW u,
         \/ /\ mk = Slash /\ Latest(t) = "path" /\ Latest(u) = "path"
            /\ \A stk : IsSeq(stk) => subdir(Append(stk, t), id) = Append(stk, u)
         \/ /\ mk = Colon /\ Latest(t) = "path" /\ Latest(u) = "type"
            /\ \A stk : IsSeq(stk) => typeInParcel(Append(stk, t), id) = Append(stk, u)
         \/ /\ mk = DblColon /\ Latest(t) = "type" /\ Latest(u) = "type"
            /\ \A stk : IsSeq(stk) => member(Append(stk, t), id) = Append(stk, u)
  PROVE  Reads(text \o <<mk, id>>, u)
  <1> DEFINE more == <<mk, id>>
  <1>1. text \in Seq(Int) /\ Len(text) > 0
    BY DEF Reads
  <1>2. more \in Seq(Int) /\ Len(more) = 2
    BY DEF Slash, Colon, DblColon, IsName
  <1>3. text \o more \in Seq(Int) /\ Len(text \o more) > 0
    <2>1. text \o more \in Seq(Int) /\ Len(text \o more) = Len(text) + Len(more)
      BY <1>1, <1>2
    <2> QED
      BY <1>1, <1>2, <2>1
  <1>4. ASSUME NEW before, ReadIn(before, "rootId"), Takes(Stk(before, NoEnv))
        PROVE  /\ \E mode : ReadIn(before \o (text \o more), mode)
               /\ Stk(before \o (text \o more), NoEnv) = Append(Stk(before, NoEnv), u)
               /\ \A n, l, w : SolIs(Sol(before), n, l, w)
                    => SolIs(Sol(before \o (text \o more)), n, Latest(u), w \o (text \o more))
    <2> DEFINE v == before \o text
               stk == Stk(before, NoEnv)
    <2>1. /\ \E mode : ReadIn(v, mode)
          /\ Stk(v, NoEnv) = Append(stk, t)
          /\ \A n, l, w : SolIs(Sol(before), n, l, w) => SolIs(Sol(v), n, Latest(t), w \o text)
      BY <1>4 DEF Reads
    <2>2. before \o (text \o more) = v \o more
      <3>1. before \in Seq(Int)
        BY <1>4 DEF ReadIn
      <3> QED
        BY <1>1, <1>2, <3>1, Associative
    <2>3. PICK mode : ReadIn(v, mode)
      BY <2>1
    <2>4. IsSeq(stk)
      BY <1>4 DEF Takes, Marks
    <2> HIDE DEF v, stk, more
    <2>5. ASSUME NEW n, NEW l, NEW w, SolIs(Sol(before), n, l, w)
          PROVE  /\ SolIs(Sol(v), n, Latest(t), w \o text)
                 /\ w \o (text \o more) = (w \o text) \o more
      <3>1. w \in Seq(Int)
        BY <2>5, SolIsTyped
      <3> QED
        BY <1>1, <1>2, <2>1, <2>5, <3>1, Associative
    <2>6. /\ ReadIn(v \o <<Slash, id>>, "slashId")
          /\ \A env : Stk(v \o <<Slash, id>>, env) = subdir(Stk(v, env), id)
          /\ Sol(v \o <<Slash, id>>) = Solves(Sol(v), Event("slashId", id))
          /\ ReadIn(v \o <<Colon, id>>, "colonId")
          /\ \A env : Stk(v \o <<Colon, id>>, env) = typeInParcel(Stk(v, env), id)
          /\ Sol(v \o <<Colon, id>>) = Solves(Sol(v), Event("colonId", id))
          /\ ReadIn(v \o <<DblColon, id>>, "dblColonId")
          /\ \A env : Stk(v \o <<DblColon, id>>, env) = member(Stk(v, env), id)
          /\ Sol(v \o <<DblColon, id>>) = Solves(Sol(v), Event("dblColonId", id))
      BY <2>3, ReadsSuffix
    <2>7. \A s, n, l, w : SolIs(s, n, l, w) =>
            /\ IF l = "path"
               THEN /\ SolIs(Solves(s, Event("slashId", id)), n, "path", w \o <<Slash, id>>)
                    /\ SolIs(Solves(s, Event("colonId", id)), n, "type", w \o <<Colon, id>>)
               ELSE /\ Refused(Solves(s, Event("slashId", id)))
                    /\ Refused(Solves(s, Event("colonId", id)))
            /\ IF l = "type"
               THEN SolIs(Solves(s, Event("dblColonId", id)), n, "type", w \o <<DblColon, id>>)
               ELSE Refused(Solves(s, Event("dblColonId", id)))
      BY SolvesSuffix
    <2>8. CASE /\ mk = Slash /\ Latest(t) = "path" /\ Latest(u) = "path"
               /\ \A q : IsSeq(q) => subdir(Append(q, t), id) = Append(q, u)
      <3>1. more = <<Slash, id>>
        BY <2>8 DEF more
      <3>2. Stk(v \o more, NoEnv) = Append(stk, u)
        BY <2>1, <2>4, <2>6, <2>8, <3>1
      <3>3. ASSUME NEW n, NEW l, NEW w, SolIs(Sol(before), n, l, w)
            PROVE  SolIs(Sol(v \o more), n, Latest(u), w \o (text \o more))
        BY <2>5, <2>6, <2>7, <2>8, <3>1, <3>3
      <3> QED
        BY <2>2, <2>6, <3>1, <3>2, <3>3 DEF stk
    <2>9. CASE /\ mk = Colon /\ Latest(t) = "path" /\ Latest(u) = "type"
               /\ \A q : IsSeq(q) => typeInParcel(Append(q, t), id) = Append(q, u)
      <3>1. more = <<Colon, id>>
        BY <2>9 DEF more
      <3>2. Stk(v \o more, NoEnv) = Append(stk, u)
        BY <2>1, <2>4, <2>6, <2>9, <3>1
      <3>3. ASSUME NEW n, NEW l, NEW w, SolIs(Sol(before), n, l, w)
            PROVE  SolIs(Sol(v \o more), n, Latest(u), w \o (text \o more))
        BY <2>5, <2>6, <2>7, <2>9, <3>1, <3>3
      <3> QED
        BY <2>2, <2>6, <3>1, <3>2, <3>3 DEF stk
    <2>10. CASE /\ mk = DblColon /\ Latest(t) = "type" /\ Latest(u) = "type"
                /\ \A q : IsSeq(q) => member(Append(q, t), id) = Append(q, u)
      <3>1. more = <<DblColon, id>>
        BY <2>10 DEF more
      <3>2. Stk(v \o more, NoEnv) = Append(stk, u)
        BY <2>1, <2>4, <2>6, <2>10, <3>1
      <3>3. ASSUME NEW n, NEW l, NEW w, SolIs(Sol(before), n, l, w)
            PROVE  SolIs(Sol(v \o more), n, Latest(u), w \o (text \o more))
        BY <2>5, <2>6, <2>7, <2>10, <3>1, <3>3
      <3> QED
        BY <2>2, <2>6, <3>1, <3>2, <3>3 DEF stk
    <2> QED
      BY <2>8, <2>9, <2>10
  <1> HIDE DEF more
  <1>5. Reads(text \o more, u)
    BY <1>3, <1>4 DEF Reads
  <1> QED
    BY <1>5 DEF more

\* A name is a path,
LEMMA NameReads ==
  ASSUME NEW id, IsName(id)
  PROVE  Reads(<<id>>, Term("path", <<id>>))
  <1>1. IsId(id) /\ id \in Int /\ ~ IsDollar(id)
    BY DEF IsId, IsName, IsDollar
  <1> DEFINE t == Term("path", <<id>>)
             text == <<id>>
  <1>2. text \in Seq(Int) /\ Len(text) > 0
    BY <1>1
  <1>3. \A stk, env : root(stk, id, env) = Append(stk, t)
    <2>1. id # HereId /\ id # SelfId /\ ~ (IsDollar(id) /\ id # SelfId)
      BY DEF HereId, SelfId, Dollar, IsName, IsDollar
    <2> QED
      BY <2>1 DEF root
  <1>4. Latest(t) = "path"
    BY TermIsFresh DEF Latest
  <1>5. ASSUME NEW before, ReadIn(before, "rootId"), Takes(Stk(before, NoEnv))
        PROVE  /\ \E mode : ReadIn(before \o <<id>>, mode)
               /\ Stk(before \o <<id>>, NoEnv) = Append(Stk(before, NoEnv), t)
               /\ \A n, l, w : SolIs(Sol(before), n, l, w)
                                    => SolIs(Sol(before \o <<id>>), n, Latest(t), w \o <<id>>)
    <2>1. /\ ReadIn(before \o <<id>>, "rootId")
          /\ \A env : Stk(before \o <<id>>, env) = root(Stk(before, env), id, env)
          /\ Sol(before \o <<id>>) = Solves(Sol(before), Event("rootId", id))
      BY <1>1, <1>5, ReadsRoot
    <2>2. ASSUME NEW n, NEW l, NEW w, SolIs(Sol(before), n, l, w)
          PROVE  SolIs(Sol(before \o <<id>>), n, "path", w \o <<id>>)
      <3> DEFINE s == Sol(before)
                 latest == IF IsDollar(id) THEN "type" ELSE "path"
      <3>1. latest = "path"
        BY <1>1
      <3> HIDE DEF s
      <3>2. SolIs(Solves(s, Event("rootId", id)), n, latest, w \o <<id>>)
        BY <1>1, <2>2, SolvesRoot DEF s
      <3> QED
        BY <2>1, <3>1, <3>2 DEF s
    <2> HIDE DEF t
    <2> QED
      BY <1>3, <1>4, <2>1, <2>2
  <1> HIDE DEF t, text
  <1>6. \A before : ReadIn(before, "rootId") /\ Takes(Stk(before, NoEnv)) =>
            /\ \E mode : ReadIn(before \o text, mode)
            /\ Stk(before \o text, NoEnv) = Append(Stk(before, NoEnv), t)
            /\ \A n, l, w : SolIs(Sol(before), n, l, w)
                                => SolIs(Sol(before \o text), n, Latest(t), w \o text)
    BY <1>5 DEF text
  <1>7. Reads(text, t)
    BY <1>2, <1>6, Zenon DEF Reads
  <1> QED
    BY <1>7 DEF t, text

\* and so are names with slashes between them.
LEMMA SubdirReads ==
  ASSUME NEW path, Reads(path, Term("path", path)), NEW id, IsName(id)
  PROVE  Reads(path \o <<Slash, id>>, Term("path", path \o <<Slash, id>>))
  <1> DEFINE t == Term("path", path)
             u == Term("path", path \o <<Slash, id>>)
  <1>1. /\ Fresh(t) /\ t.is = "path" /\ t.of = path
        /\ Fresh(u) /\ u.is = "path"
    BY TermIsFresh
  <1> HIDE DEF t
  <1>2. Latest(t) = "path" /\ Latest(u) = "path"
    BY <1>1 DEF Latest
  <1>3. ASSUME NEW stk, IsSeq(stk)
        PROVE  subdir(Append(stk, t), id) = Append(stk, u)
    <2> DEFINE new == Append(stk, t)
    <2>1. IsSeq(new) /\ Len(new) > 0 /\ Last(new) = t /\ Front(new) = stk
      <3>1. Len(stk) \in Nat
        BY <1>3, SeqLength
      <3> QED
        BY <1>3, <3>1, AppendIs
    <2> HIDE DEF new
    <2>2. subdir(new, id) = transact(new, 1, u)
      BY <1>1, <2>1, Zenon DEF subdir
    <2>3. transact(new, 1, u) = Append(Front(new), u)
      BY <2>1, TopReplaced
    <2> QED
      BY <2>1, <2>2, <2>3 DEF new
  <1> HIDE DEF u
  <1>4. Reads(path, t)
    BY DEF t
  <1>5. Reads(path \o <<Slash, id>>, u)
    BY <1>2, <1>3, <1>4, SuffixReads
  <1> QED
    BY <1>5 DEF u

LEMMA PathReads ==
  ASSUME NEW path, IsPath(path)
  PROVE  Reads(path, Term("path", path))
  <1> DEFINE m == Len(path) \div 2
             T == {k \in 0..m : \A p : IsPath(p) /\ Len(p) = 2 * k + 1 => Reads(p, Term("path", p))}
  <1>1. m \in Nat /\ Len(path) = 2 * m + 1
    <2>1. Len(path) \in Nat /\ Len(path) % 2 = 1
      BY DEF IsPath
    <2> DEFINE x == Len(path)
    <2> HIDE DEF x
    <2>2. x \in Nat /\ x % 2 = 1
      BY <2>1 DEF x
    <2>3. x \div 2 \in Nat /\ x = 2 * (x \div 2) + 1
      BY <2>2
    <2> QED
      BY <2>3 DEF x
  <1> HIDE DEF m
  <1>2. 0 \in T
    <2>1. ASSUME NEW p, IsPath(p), Len(p) = 2 * 0 + 1
          PROVE  Reads(p, Term("path", p))
      <3>0. p \in Seq(Nat) /\ Len(p) = 1
        BY <2>1 DEF IsPath
      <3>1. p \in Seq(Nat) /\ Len(p) = 1 /\ 1 \in DOMAIN p /\ p[1] \in Nat
        BY <3>0
      <3>2. p[1] = Slash <=> 1 % 2 = 0
        BY <2>1, <3>1 DEF IsPath
      <3>3. IsName(p[1])
        BY <3>1, <3>2 DEF IsName, Slash
      <3>4. p = <<p[1]>>
        BY <3>1
      <3> DEFINE id == p[1]
      <3> HIDE DEF id
      <3>5. Reads(<<id>>, Term("path", <<id>>))
        BY <3>3, NameReads DEF id
      <3> QED
        BY <3>4, <3>5, Zenon DEF id
    <2>2. 0 \in 0..m
      BY <1>1
    <2> QED
      BY <2>1, <2>2
  <1>3. ASSUME NEW k \in 0..m - 1, k \in T
        PROVE  k + 1 \in T
    <2>1. ASSUME NEW p, IsPath(p), Len(p) = 2 * (k + 1) + 1
          PROVE  Reads(p, Term("path", p))
      <3> DEFINE x == 2 * k + 1
                 q == SubSeq(p, 1, x)
                 id == p[x + 2]
      <3>1. k \in Nat /\ x \in Nat /\ Len(p) = x + 2 /\ x \in 0..x + 2
            /\ x + 1 \in 1..x + 2 /\ x + 2 \in 1..x + 2
            /\ x % 2 = 1 /\ (x + 1) % 2 = 0 /\ (x + 2) % 2 = 1
        BY <1>1, <2>1
      <3> HIDE DEF x
      <3>2. p \in Seq(Nat) /\ DOMAIN p = 1..x + 2 /\ \A i \in DOMAIN p : p[i] = Slash <=> i % 2 = 0
        BY <2>1, <3>1 DEF IsPath
      <3>3. q \in Seq(Nat) /\ Len(q) = x /\ \A i \in 1..x : q[i] = p[i]
        BY <3>1, <3>2, FrontIs
      <3> HIDE DEF q
      <3>4. IsPath(q)
        <4>1. DOMAIN q = 1..x /\ \A i \in 1..x : i \in 1..x + 2
          BY <3>1, <3>3
        <4> QED
          BY <3>1, <3>2, <3>3, <4>1 DEF IsPath
      <3>5. Reads(q, Term("path", q))
        BY <1>3, <3>3, <3>4 DEF x
      <3>6. p[x + 1] = Slash /\ IsName(id)
        BY <3>1, <3>2 DEF IsName, Slash
      <3> HIDE DEF id
      <3> DEFINE more == <<Slash, id>>
                 r == q \o more
      <3>7. more \in Seq(Nat) /\ Len(more) = 2 /\ more[1] = Slash /\ more[2] = id
        BY <3>6 DEF IsName, Slash
      <3>8. /\ r \in Seq(Nat) /\ Len(r) = Len(q) + Len(more)
            /\ \A i \in 1..Len(q) + Len(more) :
                    r[i] = IF i <= Len(q) THEN q[i] ELSE more[i - Len(q)]
        <4> HIDE DEF more
        <4> QED
          BY <3>3, <3>7, ConcatProperties
      <3> HIDE DEF r, more
      <3>9. \A i \in 1..x + 2 : r[i] = p[i]
        <4> TAKE i \in 1..x + 2
        <4>1. i \in 1..x \/ i = x + 1 \/ i = x + 2
          BY <3>1
        <4>2. r[i] = IF i <= x THEN q[i] ELSE more[i - x]
          BY <3>3, <3>7, <3>8
        <4>3. i \in 1..x => i <= x
          BY <3>1
        <4>4. ~ (x + 1 <= x) /\ ~ (x + 2 <= x) /\ (x + 1) - x = 1 /\ (x + 2) - x = 2
          BY <3>1
        <4> QED
          BY <3>3, <3>6, <3>7, <4>1, <4>2, <4>3, <4>4 DEF id
      <3>10. r = p
        <4>1. Len(r) = x + 2
          BY <3>1, <3>3, <3>7, <3>8
        <4> QED
          BY <3>1, <3>2, <3>8, <3>9, <4>1, SeqEqual
      <3>11. Reads(q \o <<Slash, id>>, Term("path", q \o <<Slash, id>>))
        BY <3>5, <3>6, SubdirReads
      <3> QED
        BY <3>10, <3>11 DEF r, more
    <2>2. k + 1 \in 0..m
      BY <1>1
    <2> QED
      BY <2>1, <2>2
  <1>4. m \in T
    <2>1. m \in 0..m
      BY <1>1
    <2> HIDE DEF T
    <2> QED
      BY <1>1, <1>2, <1>3, <2>1, AllNumbers
  <1> QED
    BY <1>1, <1>4

\* The name of a type, without and with its member.
Plain(path, name, args) == path \o <<Colon, name>> \o argPack(args)
OfMember(text, id) == text \o (IF id = NoMember THEN <<>> ELSE <<DblColon, id>>)

Stem(type) == Plain(type.path, type.name, type.args)

\* A type whose fullname is that of its parts, and reads to it.
HonestType(type) ==
    /\ type = MkType(type.path, type.name, type.args, type.member)
    /\ Stem(type) \in Seq(Int)
    /\ Reads(type.fullname, Term("concrete", type))

LEMMA MkTypeIs ==
  ASSUME NEW path, NEW name, NEW args, NEW id
  PROVE  /\ MkType(path, name, args, id).path = path
         /\ MkType(path, name, args, id).name = name
         /\ MkType(path, name, args, id).args = args
         /\ MkType(path, name, args, id).member = id
         /\ MkType(path, name, args, id).fullname = OfMember(Plain(path, name, args), id)
         /\ Stem(MkType(path, name, args, id)) = Plain(path, name, args)
  <1> DEFINE full == OfMember(Plain(path, name, args), id)
             type == MkType(path, name, args, id)
  <1>1. type = [path |-> path, name |-> name, args |-> args, member |-> id, fullname |-> full]
    BY Zenon DEF MkType, OfMember, Plain
  <1> HIDE DEF full, type
  <1>2. /\ type.path = path /\ type.name = name /\ type.args = args /\ type.member = id
        /\ type.fullname = full
    BY <1>1
  <1>3. Stem(type) = Plain(path, name, args)
    BY <1>2, Zenon DEF Stem
  <1> QED
    BY <1>2, <1>3, Zenon DEF type, full

LEMMA NoMemberAfter == \A x \in Seq(Int) : OfMember(x, NoMember) = x
  <1> TAKE x \in Seq(Int)
  <1> DEFINE none == NoMember
  <1>1. none = NoMember
    OBVIOUS
  <1> HIDE DEF none
  <1>2. OfMember(x, none) = x \o <<>>
    BY <1>1, Zenon DEF OfMember
  <1>3. x \o <<>> = x
    OBVIOUS
  <1> QED
    BY <1>1, <1>2, <1>3, Zenon

LEMMA NothingAfter == \A x \in Seq(Int) : x \o <<>> = x
  OBVIOUS

LEMMA NoArgs == argPack(<<>>) = <<>>
  BY DEF argPack

\* The parts of Parcels.
LEMMA ParcelParts ==
  ASSUME NEW path \in DOMAIN Parcels, NEW id \in DOMAIN Parcels[path]
  PROVE  /\ IsPath(path) /\ path \in Seq(Int) /\ IsName(id) /\ <<Colon, id>> \in Seq(Int)
         /\ path \o <<Colon, id>> \in Seq(Int)
         /\ Parcels[path][id].typeParams \in Seq(Nat \ {0})
         /\ \A m \in DOMAIN Parcels[path][id].members : IsName(m)
  <1>1. /\ IsPath(path) /\ IsName(id)
        /\ Parcels[path][id].typeParams \in Seq(Nat \ {0})
        /\ \A m \in DOMAIN Parcels[path][id].members : IsName(m)
    BY ParcelsAssumption
  <1>2. path \in Seq(Nat)
    BY <1>1 DEF IsPath
  <1>3. path \in Seq(Int)
    <2>1. Nat \subseteq Int
      OBVIOUS
    <2> QED
      BY <1>2, <2>1, SeqMonotonic
  <1>4. <<Colon, id>> \in Seq(Int)
    BY <1>1 DEF Colon, IsName
  <1>5. path \o <<Colon, id>> \in Seq(Int)
    BY <1>3, <1>4, Associative
  <1> QED
    BY <1>1, <1>3, <1>4, <1>5

(***************************************************************************)
(* The type of a parcel without args is read to by its fullname: it is     *)
(* concrete if it has no params.                                           *)
(***************************************************************************)
TypeTerm(path, id) ==
    Term(IF Parcels[path][id].typeParams = <<>> THEN "concrete" ELSE "generic",
         MkType(path, id, <<>>, NoMember))

LEMMA ParcelTypeReads ==
  ASSUME NEW path \in DOMAIN Parcels, NEW id \in DOMAIN Parcels[path]
  PROVE  /\ Reads(path \o <<Colon, id>>, TypeTerm(path, id))
         /\ MkType(path, id, <<>>, NoMember).fullname = path \o <<Colon, id>>
         /\ Stem(MkType(path, id, <<>>, NoMember)) = path \o <<Colon, id>>
         /\ Plain(path, id, <<>>) = path \o <<Colon, id>>
  <1> DEFINE type == MkType(path, id, <<>>, NoMember)
             t == Term("path", path)
             u == TypeTerm(path, id)
  <1>1. IsPath(path) /\ IsName(id) /\ path \o <<Colon, id>> \in Seq(Int)
    BY ParcelParts
  <1>2. Plain(path, id, <<>>) = path \o <<Colon, id>>
    <2>1. path \o <<Colon, id>> \o <<>> = path \o <<Colon, id>>
      BY <1>1, NothingAfter
    <2> QED
      BY <2>1, NoArgs, Zenon DEF Plain
  <1>3. type.fullname = path \o <<Colon, id>> /\ Stem(type) = path \o <<Colon, id>>
    <2> DEFINE x == Plain(path, id, <<>>)
    <2>1. x \in Seq(Int)
      BY <1>1, <1>2
    <2> HIDE DEF x
    <2>2. OfMember(x, NoMember) = x
      BY <2>1, NoMemberAfter
    <2>3. type.fullname = OfMember(x, NoMember) /\ Stem(type) = x
      BY MkTypeIs DEF x
    <2> QED
      BY <1>2, <2>2, <2>3, Zenon DEF x
  <1>4. Reads(path, t)
    BY <1>1, PathReads
  <1>5. /\ t.is = "path" /\ t.of = path /\ Latest(t) = "path"
    BY TermIsFresh DEF Latest
  <1>6. Latest(u) = "type"
    <2>1. \A kind : Term(kind, type).is = kind
      BY TermIsFresh
    <2> HIDE DEF type
    <2>2. u.is = IF Parcels[path][id].typeParams = <<>> THEN "concrete" ELSE "generic"
      BY <2>1 DEF TypeTerm, type
    <2> HIDE DEF u
    <2> QED
      BY <2>2 DEF Latest
  <1> HIDE DEF t
  <1>7. ASSUME NEW stk, IsSeq(stk)
        PROVE  typeInParcel(Append(stk, t), id) = Append(stk, u)
    <2> DEFINE new == Append(stk, t)
    <2>1. IsSeq(new) /\ Len(new) > 0 /\ Last(new) = t /\ Front(new) = stk
      <3>1. Len(stk) \in Nat
        BY <1>7, SeqLength
      <3> QED
        BY <1>7, <3>1, AppendIs
    <2> HIDE DEF new
    <2>2. typeInParcel(new, id)
            = IF ~ (/\ Last(new).is = "path" /\ Last(new).of \in DOMAIN Parcels
                    /\ id \in DOMAIN Parcels[Last(new).of])
              THEN transactErr(new, 1)
              ELSE transact(new, 1, TypeTerm(Last(new).of, id))
      BY Zenon DEF typeInParcel, TypeTerm
    <2> HIDE DEF u
    <2>3. typeInParcel(new, id) = transact(new, 1, u)
      BY <1>5, <2>1, <2>2, Zenon DEF u
    <2>4. transact(new, 1, u) = Append(Front(new), u)
      BY <2>1, TopReplaced
    <2> QED
      BY <2>1, <2>3, <2>4 DEF new
  <1> HIDE DEF u, type
  <1>8. Reads(path \o <<Colon, id>>, u)
    BY <1>1, <1>4, <1>5, <1>6, <1>7, SuffixReads
  <1> QED
    BY <1>2, <1>3, <1>8, Zenon DEF u, type

LEMMA StemAlone ==
  ASSUME NEW type, HonestType(type), type.member = NoMember
  PROVE  type.fullname = Stem(type) /\ Stem(type) \in Seq(Int)
  <1> DEFINE x == Plain(type.path, type.name, type.args)
             new == MkType(type.path, type.name, type.args, NoMember)
  <1>1. x \in Seq(Int) /\ x = Stem(type)
    BY Zenon DEF HonestType, Stem
  <1>2. new.fullname = OfMember(x, NoMember)
    BY MkTypeIs
  <1>3. new = type
    BY Zenon DEF HonestType
  <1> HIDE DEF x, new
  <1>4. OfMember(x, NoMember) = x
    BY <1>1, NoMemberAfter
  <1> QED
    BY <1>1, <1>2, <1>3, <1>4, Zenon

\* A member of an honest type is one.
LEMMA MemberHonest ==
  ASSUME NEW type, HonestType(type), type.member = NoMember,
         NEW id \in DOMAIN info(type).members, IsName(id)
  PROVE  HonestType(MkType(type.path, type.name, type.args, id))
  <1> DEFINE new == MkType(type.path, type.name, type.args, id)
             t == Term("concrete", type)
             u == Term("concrete", new)
  <1>1. /\ new.path = type.path /\ new.name = type.name /\ new.args = type.args /\ new.member = id
        /\ new.fullname = OfMember(Plain(type.path, type.name, type.args), id)
        /\ Stem(new) = Plain(type.path, type.name, type.args)
    BY MkTypeIs
  <1>2. Stem(new) = Stem(type) /\ Stem(type) \in Seq(Int)
    BY <1>1, Zenon DEF Stem, HonestType
  <1>3. id # NoMember
    BY DEF IsName, NoMember
  <1>4. new.fullname = Stem(type) \o <<DblColon, id>>
    BY <1>1, <1>3, Zenon DEF Stem, OfMember
  <1>5. type.fullname = Stem(type)
    BY StemAlone
  <1>6. Reads(type.fullname, t)
    BY DEF HonestType
  <1>7. /\ t.is = "concrete" /\ t.of = type /\ Latest(t) = "type"
    BY TermIsFresh DEF Latest
  <1>8. Latest(u) = "type"
    <2>1. u.is = "concrete"
      BY TermIsFresh
    <2> HIDE DEF u
    <2> QED
      BY <2>1 DEF Latest
  <1> HIDE DEF t
  <1>9. ASSUME NEW stk, IsSeq(stk)
        PROVE  member(Append(stk, t), id) = Append(stk, u)
    <2> DEFINE top == Append(stk, t)
    <2>1. IsSeq(top) /\ Len(top) > 0 /\ Last(top) = t /\ Front(top) = stk
      <3>1. Len(stk) \in Nat
        BY <1>9, SeqLength
      <3> QED
        BY <1>9, <3>1, AppendIs
    <2> HIDE DEF top
    <2>2. member(top, id)
            = IF ~ (/\ Last(top).is = "concrete" /\ Last(top).of.member = NoMember
                    /\ id \in DOMAIN info(Last(top).of).members)
              THEN transactErr(top, 1)
              ELSE transact(top, 1, Term("concrete", MkType(Last(top).of.path, Last(top).of.name,
                                                            Last(top).of.args, id)))
      BY Zenon DEF member
    <2>3. member(top, id) = transact(top, 1, u)
      BY <1>7, <2>1, <2>2, Zenon
    <2> HIDE DEF u
    <2>4. transact(top, 1, u) = Append(Front(top), u)
      BY <2>1, TopReplaced
    <2> QED
      BY <2>1, <2>3, <2>4 DEF top
  <1> HIDE DEF u, new
  <1>10. Reads(type.fullname \o <<DblColon, id>>, u)
    BY <1>6, <1>7, <1>8, <1>9, SuffixReads
  <1>11. Reads(new.fullname, u)
    BY <1>4, <1>5, <1>10
  <1>12. new = MkType(new.path, new.name, new.args, new.member)
    BY <1>1, Zenon DEF new
  <1> QED
    BY <1>2, <1>11, <1>12, Zenon DEF HonestType, u, new

--------------------------------------------------------------------------------
(* The args of a type *)

\* The names of the first k of them, with commas between them.
Args(types, k) == Fold([of |-> "args"], <<>>, SubSeq(types, 1, k))

LEMMA OneMoreArg ==
  ASSUME NEW types, IsSeq(types), NEW k \in Nat, k < Len(types)
  PROVE  Args(types, k + 1) = WithArg(Args(types, k), types[k + 1])
  <1> DEFINE low == SubSeq(types, 1, k)
             e == types[k + 1]
             n == Len(types)
  <1>1. n \in Nat /\ k \in 0..n /\ k + 1 \in 0..n
    <2>1. n \in Nat
      BY SeqLength
    <2> HIDE DEF n
    <2>2. k < n
      BY DEF n
    <2> QED
      BY <2>1, <2>2
  <1>2. IsSeq(low) /\ Len(low) = k /\ \A i \in 1..k : low[i] = types[i]
    BY <1>1, BeginningIs
  <1> DEFINE more == SubSeq(types, 1, k + 1)
  <1>3. IsSeq(more) /\ Len(more) = k + 1 /\ \A i \in 1..k + 1 : more[i] = types[i]
    BY <1>1, BeginningIs
  <1> HIDE DEF n, low, e, more
  <1> DEFINE new == Append(low, e)
  <1>4. IsSeq(new) /\ Len(new) = k + 1 /\ new[k + 1] = e /\ \A i \in 1..k : new[i] = low[i]
    BY <1>2, AppendIs
  <1> HIDE DEF new
  <1>5. \A i \in 1..k + 1 : more[i] = new[i]
    <2>1. \A i \in 1..k + 1 : i \in 1..k \/ i = k + 1
      OBVIOUS
    <2> QED
      BY <1>2, <1>3, <1>4, <2>1 DEF e
  <1>6. more = new
    BY <1>3, <1>4, <1>5, SameSeq
  <1> DEFINE f == [of |-> "args"]
  <1>7. f.of = "args"
    OBVIOUS
  <1> HIDE DEF f
  <1>8. Fold(f, <<>>, Append(low, e)) = Apply(f, Fold(f, <<>>, low), e)
    BY <1>2, FoldOneMore
  <1>9. \A x, y : Apply(f, x, y) = WithArg(x, y)
    BY <1>7 DEF Apply
  <1>10. Fold(f, <<>>, more) = WithArg(Fold(f, <<>>, low), e)
    BY <1>6, <1>8, <1>9, Zenon DEF new
  <1> QED
    BY <1>10, Zenon DEF Args, f, low, e, more

LEMMA ArgPackIs ==
  ASSUME NEW types, IsSeq(types), Len(types) > 0
  PROVE  argPack(types) = <<OpenArgs>> \o Args(types, Len(types)) \o <<CloseArgs>>
  <1>1. types # <<>>
    BY EmptyIsSeq
  <1> DEFINE n == Len(types)
             all == SubSeq(types, 1, n)
  <1>2. n \in Nat /\ n \in 0..n
    BY SeqLength
  <1>3. IsSeq(all) /\ Len(all) = n /\ \A i \in 1..n : all[i] = types[i]
    BY <1>2, BeginningIs
  <1>4. all = types
    <2> HIDE DEF all
    <2> QED
      BY <1>3, SameSeq
  <1>5. FoldLeft(WithArg, <<>>, types) = Fold([of |-> "args"], <<>>, types)
    BY Zenon DEF Fold, FoldLeft, MapThenFoldSet, Apply
  <1>6. Args(types, n) = Fold([of |-> "args"], <<>>, types)
    BY <1>4, Zenon DEF Args
  <1> QED
    BY <1>1, <1>5, <1>6, Zenon DEF argPack

\* What the args are named.
IsNamed(types) ==
    /\ IsSeq(types) /\ Len(types) > 0
    /\ \A i \in 1..Len(types) : types[i].fullname \in Seq(Int) /\ Len(types[i].fullname) > 0

LEMMA FirstArg ==
  ASSUME NEW types, IsNamed(types)
  PROVE  Args(types, 1) = types[1].fullname
  <1> DEFINE none == SubSeq(types, 1, 0)
             x == types[1].fullname
  <1>1. Len(types) \in Nat /\ 0 \in 0..Len(types) /\ 0 < Len(types) /\ 1 \in 1..Len(types) /\ 0 \in Nat
    BY SeqLength DEF IsNamed
  <1>2. IsSeq(none) /\ Len(none) = 0
    BY <1>1, BeginningIs DEF IsNamed
  <1>3. none = <<>>
    <2> HIDE DEF none
    <2> QED
      BY <1>2, EmptyIsSeq, SameSeq
  <1>4. Args(types, 0) = <<>>
    BY <1>3, FoldEmpty DEF Args
  <1>5. Args(types, 0 + 1) = WithArg(Args(types, 0), types[0 + 1])
    BY <1>1, OneMoreArg DEF IsNamed
  <1>6. Args(types, 1) = WithArg(<<>>, types[1])
    BY <1>4, <1>5
  <1>7. WithArg(<<>>, types[1]) = <<>> \o <<>> \o x
    <2> DEFINE out == <<>>
    <2>1. out = <<>>
      OBVIOUS
    <2> HIDE DEF out
    <2>2. WithArg(out, types[1]) = out \o <<>> \o x
      BY <2>1, Zenon DEF WithArg
    <2> QED
      BY <2>1, <2>2, Zenon
  <1>8. x \in Seq(Int)
    BY <1>1 DEF IsNamed
  <1> HIDE DEF x
  <1>9. <<>> \o <<>> \o x = x
    BY <1>8
  <1> QED
    BY <1>6, <1>7, <1>9 DEF x

\* Each is part of the text, and the next one follows it after a comma.
LEMMA ArgsGrow ==
  ASSUME NEW types, IsNamed(types)
  PROVE  \A k \in 1..Len(types) :
            /\ Args(types, k) \in Seq(Int) /\ Len(Args(types, k)) > 0
            /\ \A j \in 1..k : Len(types[j].fullname) <= Len(Args(types, k))
            /\ k < Len(types) => Args(types, k + 1)
                                    = Args(types, k) \o <<Comma>> \o types[k + 1].fullname
  <1> DEFINE n == Len(types)
             full(i) == types[i].fullname
             Sound(k) == /\ Args(types, k) \in Seq(Int) /\ Len(Args(types, k)) > 0
                         /\ \A j \in 1..k : Len(full(j)) <= Len(Args(types, k))
             T == {k \in 0..n : k = 0 \/ Sound(k)}
  <1>1. n \in Nat /\ n > 0 /\ 1 \in 1..n
    BY SeqLength DEF IsNamed
  <1>2. \A i \in 1..n : full(i) \in Seq(Int) /\ Len(full(i)) > 0
    BY DEF IsNamed
  <1>3. Args(types, 1) = full(1)
    BY FirstArg
  <1>4. ASSUME NEW k \in 1..n - 1, Args(types, k) \in Seq(Int), Len(Args(types, k)) > 0
        PROVE  Args(types, k + 1) = Args(types, k) \o <<Comma>> \o full(k + 1)
    <2> DEFINE out == Args(types, k)
    <2>1. k \in Nat /\ k < n
      <3> HIDE DEF n
      <3> QED
        BY <1>1
    <2>2. Args(types, k + 1) = WithArg(out, types[k + 1])
      BY <2>1, OneMoreArg DEF IsNamed
    <2>3. out # <<>>
      BY <1>4
    <2> HIDE DEF out
    <2> QED
      BY <2>2, <2>3, Zenon DEF WithArg, out
  <1> HIDE DEF n, full
  <1>5. 0 \in T
    BY <1>1
  <1>6. ASSUME NEW k \in 0..n - 1, k \in T
        PROVE  k + 1 \in T
    <2>1. k + 1 \in 0..n /\ k + 1 \in 1..n
      BY <1>1
    <2>2. CASE k = 0
      <3>1. Sound(1)
        <4>1. Args(types, 1) \in Seq(Int) /\ Len(Args(types, 1)) > 0
          BY <1>1, <1>2, <1>3
        <4>2. \A j \in 1..1 : Len(full(j)) <= Len(Args(types, 1))
          <5>1. \A j \in 1..1 : j = 1
            OBVIOUS
          <5>2. Len(Args(types, 1)) \in Nat
            BY <4>1
          <5>3. Len(full(1)) <= Len(Args(types, 1))
            BY <1>3, <5>2
          <5> QED
            BY <5>1, <5>3
        <4> QED
          BY <4>1, <4>2
      <3> QED
        BY <2>1, <2>2, <3>1
    <2>3. CASE k # 0
      <3> DEFINE out == Args(types, k)
                 new == Args(types, k + 1)
                 last == full(k + 1)
      <3>1. k \in 1..n - 1 /\ Sound(k)
        BY <1>1, <1>6, <2>3
      <3>2. out \in Seq(Int) /\ Len(out) > 0 /\ \A j \in 1..k : Len(full(j)) <= Len(out)
        BY <3>1
      <3>3. new = out \o <<Comma>> \o last
        BY <1>4, <3>1
      <3>4. last \in Seq(Int) /\ Len(last) > 0 /\ \A j \in 1..k : full(j) \in Seq(Int)
        BY <1>1, <1>2, <2>1
      <3> HIDE DEF out, new, last
      <3>5. <<Comma>> \in Seq(Int) /\ Len(<<Comma>>) = 1
        BY DEF Comma
      <3>6. new \in Seq(Int) /\ Len(new) = Len(out) + 1 + Len(last)
        BY <3>2, <3>3, <3>4, <3>5, Associative
      <3>7. Len(out) \in Nat /\ Len(last) \in Nat /\ \A j \in 1..k : Len(full(j)) \in Nat
        BY <3>2, <3>4
      <3>8. Len(new) > 0 /\ Len(last) <= Len(new) /\ Len(out) <= Len(new) /\ Len(new) \in Nat
        BY <3>6, <3>7
      <3>9. \A j \in 1..k : Len(full(j)) <= Len(new)
        BY <3>2, <3>7, <3>8
      <3>10. \A j \in 1..k + 1 : j \in 1..k \/ j = k + 1
        BY <3>1, <1>1
      <3>11. \A j \in 1..k + 1 : Len(full(j)) <= Len(new)
        BY <3>8, <3>9, <3>10 DEF last
      <3>12. Sound(k + 1)
        BY <3>6, <3>8, <3>11 DEF new
      <3> HIDE DEF Sound
      <3> QED
        BY <2>1, <3>12
    <2> QED
      BY <2>2, <2>3
  <1>7. \A k \in 0..n : k \in T
    <2> HIDE DEF T
    <2> QED
      BY <1>1, <1>5, <1>6, AllNumbers
  <1>8. \A k \in 1..n : Sound(k)
    <2>1. \A k \in 1..n : k \in 0..n /\ k # 0
      BY <1>1
    <2> HIDE DEF Sound
    <2> QED
      BY <1>7, <2>1
  <1>9. \A k \in 1..n : k < n => k \in 1..n - 1
    BY <1>1
  <1> QED
    BY <1>4, <1>8, <1>9 DEF n, full

\* The stack while the args of a type are read.
Stacked(stk, base, g, types, k) ==
    /\ IsSeq(stk) /\ Len(stk) = Len(base) + 1 + k
    /\ \A i \in 1..Len(base) : stk[i] = base[i]
    /\ stk[Len(base) + 1] = g
    /\ \A i \in 1..k : stk[Len(base) + 1 + i] = Term("concrete", types[i])

LEMMA ArgStacked ==
  ASSUME NEW stk, NEW base, IsSeq(base), NEW g, NEW types, NEW k \in Nat,
         Stacked(stk, base, g, types, k)
  PROVE  Stacked(Append(stk, Term("concrete", types[k + 1])), base, g, types, k + 1)
  <1> DEFINE t == Term("concrete", types[k + 1])
             new == Append(stk, t)
             b == Len(base)
             m == Len(stk)
  <1>1. b \in Nat /\ m = b + 1 + k
    BY SeqLength DEF Stacked
  <1>2. /\ IsSeq(new) /\ Len(new) = m + 1 /\ new[m + 1] = t
        /\ \A i \in 1..m : new[i] = stk[i]
    BY AppendIs DEF Stacked
  <1>3. /\ \A i \in 1..b : stk[i] = base[i]
        /\ stk[b + 1] = g
        /\ \A i \in 1..k : stk[b + 1 + i] = Term("concrete", types[i])
    BY DEF Stacked
  <1> HIDE DEF b, m, new, t
  <1>4. /\ \A i \in 1..b : i \in 1..m
        /\ b + 1 \in 1..m
        /\ \A i \in 1..k : b + 1 + i \in 1..m
        /\ m + 1 = b + 1 + (k + 1)
        /\ \A i \in 1..k + 1 : i \in 1..k \/ i = k + 1
    BY <1>1
  <1>5. \A i \in 1..b : new[i] = base[i]
    BY <1>2, <1>3, <1>4
  <1>6. new[b + 1] = g
    BY <1>2, <1>3, <1>4
  <1>7. \A i \in 1..k + 1 : new[b + 1 + i] = Term("concrete", types[i])
    <2>1. \A i \in 1..k : new[b + 1 + i] = Term("concrete", types[i])
      BY <1>2, <1>3, <1>4
    <2>2. new[b + 1 + (k + 1)] = Term("concrete", types[k + 1])
      BY <1>2, <1>4 DEF t
    <2> QED
      BY <1>4, <2>1, <2>2
  <1>8. Len(new) = b + 1 + (k + 1)
    BY <1>2, <1>4
  <1> QED
    BY <1>2, <1>5, <1>6, <1>7, <1>8 DEF Stacked, b, new, t

\* When they are all there, the end of the args makes the type.
LEMMA CloseMakes ==
  ASSUME NEW stk, NEW base, IsSeq(base), NEW g, NEW types, IsSeq(types),
         Stacked(stk, base, g, types, Len(types)), NEW n \in Nat, Ready(stk, n), n > 0,
         g.awaitingArgs = TRUE, g.is = "generic", Len(types) = Len(info(g.of).typeParams)
  PROVE  endArgs(stk)
            = Append(base, Term("concrete", MkType(g.of.path, g.of.name, types, NoMember)))
  <1> DEFINE b == Len(base)
             k == Len(types)
             m == Len(stk)
  <1>1. b \in Nat /\ k \in Nat /\ m = b + 1 + k /\ IsSeq(stk) /\ DOMAIN stk = 1..m
    BY SeqLength DEF Stacked
  <1>2. PICK at \in Marked(stk) :
            /\ at \in 1..Len(stk) - 1 /\ \A j \in Marked(stk) : j <= at
            /\ endArgs(stk) = Append(SubSeq(stk, 1, at - 1),
                                     IF Legal(stk, at) THEN Made(stk, at) ELSE Err)
    BY EndArgsReplaces
  <1>3. /\ \A i \in 1..b : stk[i] = base[i]
        /\ stk[b + 1] = g
        /\ \A i \in 1..k : stk[b + 1 + i] = Term("concrete", types[i])
    BY DEF Stacked
  <1>4. at \in 1..m /\ stk[at].awaitingArgs
    BY <1>1, <1>2 DEF Marked
  <1>5. k = Len(info(g.of).typeParams)
    OBVIOUS
  <1>6. Len(stk) = m
    OBVIOUS
  <1> HIDE DEF b, k, m
  <1>7. b + 1 \in 1..m /\ b + 1 \in Marked(stk)
    <2>1. b + 1 \in 1..m
      BY <1>1
    <2> QED
      BY <1>1, <1>3, <2>1 DEF Marked
  <1>8. at = b + 1
    <2>1. b + 1 <= at
      BY <1>2, <1>7
    <2>2. ASSUME at # b + 1
          PROVE  FALSE
      <3> DEFINE i == at - (b + 1)
      <3>1. i \in 1..k /\ at = b + 1 + i
        BY <1>1, <1>4, <2>1, <2>2
      <3> HIDE DEF i
      <3>2. stk[at] = Term("concrete", types[i])
        BY <1>3, <3>1
      <3>3. Term("concrete", types[i]).awaitingArgs = FALSE
        <4>1. Fresh(Term("concrete", types[i]))
          BY TermIsFresh
        <4> QED
          BY <4>1 DEF Fresh
      <3> QED
        BY <1>4, <3>2, <3>3
    <2> QED
      BY <2>2
  <1> DEFINE made == [i \in 1..m - at |-> stk[at + i].of]
  <1>9. m - at = k /\ at - 1 = b /\ b \in 0..m
    BY <1>1, <1>8
  <1>10. \A i \in 1..k : stk[at + i].of = types[i] /\ stk[at + i].is = "concrete"
    <2> TAKE i \in 1..k
    <2>1. stk[at + i] = Term("concrete", types[i])
      BY <1>3, <1>8
    <2> QED
      BY <2>1, TermIsFresh
  <1>11. made = types
    <2>1. made = [i \in 1..k |-> types[i]]
      BY <1>9, <1>10
    <2>2. DOMAIN types = 1..k /\ \E S : types \in Seq(S)
      BY SeqLength DEF k, IsSeq
    <2>3. types = [i \in 1..k |-> types[i]]
      BY <2>2
    <2> QED
      BY <2>1, <2>3
  <1>12. Legal(stk, at)
    <2>1. stk[at] = g
      BY <1>3, <1>8
    <2>2. Len(stk) - at = Len(info(stk[at].of).typeParams)
      BY <1>5, <1>6, <1>9, <2>1
    <2>3. \A i \in at + 1..m : stk[i].is = "concrete"
      <3> TAKE i \in at + 1..m
      <3> DEFINE j == i - at
      <3>1. j \in 1..k /\ at + j = i
        BY <1>1, <1>8, <1>9
      <3> HIDE DEF j
      <3> QED
        BY <1>10, <3>1
    <2> QED
      BY <1>6, <2>1, <2>2, <2>3 DEF Legal
  <1>13. Made(stk, at) = Term("concrete", MkType(g.of.path, g.of.name, types, NoMember))
    <2>1. stk[at] = g
      BY <1>3, <1>8
    <2>2. Made(stk, at) = Term("concrete", MkType(stk[at].of.path, stk[at].of.name, made, NoMember))
      BY <1>6, Zenon DEF Made
    <2> HIDE DEF made
    <2> QED
      BY <1>11, <2>1, <2>2, Zenon
  <1>14. SubSeq(stk, 1, at - 1) = base
    <2> DEFINE low == SubSeq(stk, 1, b)
    <2>1. IsSeq(low) /\ Len(low) = b /\ \A i \in 1..b : low[i] = stk[i]
      BY <1>1, <1>6, <1>9, BeginningIs
    <2> HIDE DEF low
    <2>2. low = base
      BY <1>3, <2>1, SameSeq DEF b
    <2> QED
      BY <1>9, <2>2 DEF low
  <1> QED
    BY <1>2, <1>12, <1>13, <1>14

\* One arg is read where an operand may stand inside the brackets,
LEMMA ArgRead ==
  ASSUME NEW text, ReadIn(text, "rootId"),
         NEW n \in Nat, Marks(Stk(text, NoEnv), n), Stk(text, NoEnv)[1].awaitingArgs,
         NEW base, IsSeq(base), NEW g, NEW types, NEW k \in Nat,
         Stacked(Stk(text, NoEnv), base, g, types, k), HonestType(types[k + 1])
  PROVE  LET new == text \o types[k + 1].fullname
         IN  /\ \E mode : ReadIn(new, mode)
             /\ Stacked(Stk(new, NoEnv), base, g, types, k + 1)
             /\ Ready(Stk(new, NoEnv), n)
             /\ \A x, l, w : SolIs(Sol(text), x, l, w)
                    => SolIs(Sol(new), x, "type", w \o types[k + 1].fullname)
  <1> DEFINE type == types[k + 1]
             t == Term("concrete", type)
             new == text \o type.fullname
             stk == Stk(text, NoEnv)
  <1>1. Takes(stk)
    BY DEF Takes
  <1>2. Reads(type.fullname, t)
    BY DEF HonestType
  <1>3. Fresh(t) /\ t.is = "concrete"
    BY TermIsFresh
  <1>4. Stacked(Append(stk, t), base, g, types, k + 1)
    BY ArgStacked
  <1> HIDE DEF t
  <1>5. Latest(t) = "type"
    BY <1>3 DEF Latest
  <1>6. /\ \E mode : ReadIn(new, mode)
        /\ Stk(new, NoEnv) = Append(stk, t)
        /\ \A x, l, w : SolIs(Sol(text), x, l, w) => SolIs(Sol(new), x, Latest(t), w \o type.fullname)
    BY <1>1, <1>2 DEF Reads
  <1>7. Ready(Append(stk, t), n)
    BY <1>3, PushReady
  <1> HIDE DEF new, stk
  <1> QED
    BY <1>4, <1>5, <1>6, <1>7 DEF new

\* and all of them, one after the other.
ArgsAreRead(opened, text, base, g, types, k, n, args) ==
    /\ \E mode : ReadIn(text, mode)
    /\ Stacked(Stk(text, NoEnv), base, g, types, k)
    /\ Ready(Stk(text, NoEnv), n)
    /\ \A x, w : x > 1 /\ SolIs(Sol(opened), x, "none", w) => SolIs(Sol(text), x, "type", w \o args)

LEMMA NextArgRead ==
  ASSUME NEW opened, NEW text, NEW base, IsSeq(base), NEW g, NEW types, NEW k \in Nat,
         NEW n \in Nat, n > 0, NEW args \in Seq(Int),
         ArgsAreRead(opened, text, base, g, types, k, n, args), HonestType(types[k + 1])
  PROVE  ArgsAreRead(opened, Append(text, Comma) \o types[k + 1].fullname, base, g, types, k + 1, n,
                     args \o <<Comma>> \o types[k + 1].fullname)
  <1> DEFINE mid == Append(text, Comma)
             full == types[k + 1].fullname
             new == mid \o full
  <1>1. PICK mode : ReadIn(text, mode)
    BY DEF ArgsAreRead
  <1>2. /\ ReadIn(mid, "rootId")
        /\ Stk(mid, NoEnv) = Stk(text, NoEnv)
        /\ Sol(mid) = Solves(Sol(text), Event("typeArgsArgDelimiter", Comma))
    BY <1>1, ReadsBracket DEF Solves
  <1>3. /\ Stacked(Stk(text, NoEnv), base, g, types, k)
        /\ Ready(Stk(text, NoEnv), n)
        /\ \A x, w : x > 1 /\ SolIs(Sol(opened), x, "none", w) => SolIs(Sol(text), x, "type", w \o args)
    BY DEF ArgsAreRead
  <1>4. Stk(text, NoEnv)[1].awaitingArgs
    <2>1. n # 0
      OBVIOUS
    <2> QED
      BY <1>3, <2>1, BottomAwaits
  <1>5. Marks(Stk(text, NoEnv), n)
    BY <1>3 DEF Ready
  <1> HIDE DEF mid
  <1>6. /\ \E m : ReadIn(new, m)
        /\ Stacked(Stk(new, NoEnv), base, g, types, k + 1)
        /\ Ready(Stk(new, NoEnv), n)
        /\ \A x, l, w : SolIs(Sol(mid), x, l, w) => SolIs(Sol(new), x, "type", w \o full)
    BY <1>2, <1>3, <1>4, <1>5, ArgRead
  <1>7. full \in Seq(Int)
    BY DEF HonestType, Reads
  <1> HIDE DEF new, full
  <1>8. ASSUME NEW x, NEW w, x > 1, SolIs(Sol(opened), x, "none", w)
        PROVE  SolIs(Sol(new), x, "type", w \o (args \o <<Comma>> \o full))
    <2>1. SolIs(Sol(text), x, "type", w \o args) /\ x \in Nat /\ w \in Seq(Int)
      BY <1>3, <1>8, SolIsTyped
    <2> DEFINE v == w \o args
    <2> HIDE DEF v
    <2>2. SolIs(Sol(text), x, "type", v) /\ x \in Nat
      BY <2>1 DEF v
    <2>3. SolIs(Solves(Sol(text), Event("typeArgsArgDelimiter", Comma)), x, "none", v \o <<Comma>>)
      BY <1>8, <2>2, SolvesBracket
    <2>4. SolIs(Sol(new), x, "type", v \o <<Comma>> \o full)
      BY <1>2, <1>6, <2>3
    <2>5. w \o (args \o <<Comma>> \o full) = v \o <<Comma>> \o full
      <3> DEFINE c == <<Comma>>
      <3>1. c \in Seq(Int)
        BY DEF Comma
      <3> HIDE DEF c
      <3> DEFINE q == args \o c
      <3>4. q \in Seq(Int)
        BY <3>1, Associative
      <3> HIDE DEF q
      <3>6. w \in Seq(Int)
        BY <2>1
      <3>5. w \o (q \o full) = (w \o q) \o full
        BY ONLY <1>7, <3>4, <3>6, Associative
      <3>2. w \o (args \o c \o full) = (w \o (args \o c)) \o full
        BY <3>5 DEF q
      <3>3. w \o (args \o c) = (w \o args) \o c
        BY <2>1, <3>1, Associative
      <3> QED
        BY <3>2, <3>3, Zenon DEF c, v
    <2> QED
      BY <2>4, <2>5
  <1> QED
    BY <1>6, <1>8 DEF ArgsAreRead, new, mid, full

LEMMA ArgsRead ==
  ASSUME NEW opened, ReadIn(opened, "rootId"),
         NEW n \in Nat, n > 0, Marks(Stk(opened, NoEnv), n), Stk(opened, NoEnv)[1].awaitingArgs,
         NEW base, IsSeq(base), NEW g, NEW types, IsSeq(types), Len(types) > 0,
         Stacked(Stk(opened, NoEnv), base, g, types, 0),
         \A i \in 1..Len(types) : HonestType(types[i])
  PROVE  ArgsAreRead(opened, opened \o Args(types, Len(types)), base, g, types, Len(types), n,
                     Args(types, Len(types)))
  <1> DEFINE m == Len(types)
             Good(k) == ArgsAreRead(opened, opened \o Args(types, k), base, g, types, k, n,
                                    Args(types, k))
             T == {k \in 0..m : k = 0 \/ Good(k)}
  <1>1. m \in Nat /\ m > 0 /\ 1 \in 1..m
    BY SeqLength
  <1>2. IsNamed(types)
    BY DEF IsNamed, HonestType, Reads
  <1>3. Args(types, 1) = types[1].fullname
    BY <1>2, FirstArg
  <1>4. \A k \in 1..m :
            /\ Args(types, k) \in Seq(Int)
            /\ k < m => Args(types, k + 1) = Args(types, k) \o <<Comma>> \o types[k + 1].fullname
    BY <1>2, ArgsGrow
  <1>5. \A i \in 1..m : HonestType(types[i])
    OBVIOUS
  <1> HIDE DEF m
  <1>6. Good(1)
    <2>1. HonestType(types[0 + 1]) /\ 0 \in Nat
      BY <1>1, <1>5
    <2> DEFINE new == opened \o types[0 + 1].fullname
    <2>2. /\ \E mode : ReadIn(new, mode)
          /\ Stacked(Stk(new, NoEnv), base, g, types, 0 + 1)
          /\ Ready(Stk(new, NoEnv), n)
          /\ \A x, l, w : SolIs(Sol(opened), x, l, w)
                    => SolIs(Sol(new), x, "type", w \o types[0 + 1].fullname)
      BY <2>1, ArgRead
    <2> QED
      BY <1>3, <2>2 DEF ArgsAreRead
  <1>7. ASSUME NEW k \in 0..m - 1, k \in T
        PROVE  k + 1 \in T
    <2>1. k + 1 \in 0..m
      BY <1>1
    <2>2. CASE k = 0
      <3> HIDE DEF Good
      <3> QED
        BY <1>6, <2>1, <2>2
    <2>3. CASE k # 0
      <3> DEFINE args == Args(types, k)
                 text == opened \o args
                 full == types[k + 1].fullname
      <3>1. Good(k) /\ k \in 1..m /\ k + 1 \in 1..m /\ k < m /\ k \in Nat
        BY <1>1, <1>7, <2>3
      <3>2. args \in Seq(Int) /\ Args(types, k + 1) = args \o <<Comma>> \o full
        BY <1>4, <3>1
      <3>3. HonestType(types[k + 1])
        BY <1>5, <3>1
      <3>4. full \in Seq(Int) /\ opened \in Seq(Int)
        BY <3>3 DEF HonestType, Reads, ReadIn
      <3>5. ArgsAreRead(opened, text, base, g, types, k, n, args)
        BY <3>1
      <3> HIDE DEF args, text
      <3>6. ArgsAreRead(opened, Append(text, Comma) \o full, base, g, types, k + 1, n,
                        args \o <<Comma>> \o full)
        BY <3>1, <3>2, <3>3, <3>5, NextArgRead
      <3>7. opened \o (args \o <<Comma>> \o full) = Append(text, Comma) \o full
        <4> HIDE DEF full
        <4> DEFINE c == <<Comma>>
        <4>1. c \in Seq(Int) /\ text \in Seq(Int) /\ Comma \in Int
          BY <3>2, <3>4, Associative DEF Comma, text
        <4>2. Append(text, Comma) = text \o c
          BY <4>1, AppendIsConcat
        <4> HIDE DEF c
        <4> DEFINE q == args \o c
        <4>5. q \in Seq(Int)
          BY <3>2, <4>1, Associative
        <4> HIDE DEF q
        <4>6. opened \o (q \o full) = (opened \o q) \o full
          BY <3>4, <4>5, Associative
        <4>3. opened \o (args \o c \o full) = (opened \o (args \o c)) \o full
          BY <4>6, Zenon DEF q
        <4>4. opened \o (args \o c) = (opened \o args) \o c
          <5>1. opened \in Seq(Int) /\ args \in Seq(Int) /\ c \in Seq(Int)
            BY <3>2, <3>4, <4>1
          <5>2. \A x, y, z \in Seq(Int) : (x \o y) \o z = x \o (y \o z)
            BY Associative, Zenon
          <5> QED
            BY <5>1, <5>2, Zenon
        <4> QED
          BY <4>2, <4>3, <4>4, Zenon DEF c, text
      <3> HIDE DEF full
      <3>8. Good(k + 1)
        BY <3>2, <3>6, <3>7, Zenon
      <3> HIDE DEF Good
      <3> QED
        BY <2>1, <3>8
    <2> QED
      BY <2>2, <2>3
  <1>8. m \in T
    <2>1. 0 \in T
      BY <1>1
    <2>2. m \in 0..m
      BY <1>1
    <2> HIDE DEF T
    <2> QED
      BY <1>1, <1>7, <2>1, <2>2, AllNumbers
  <1>9. Good(m)
    <2>1. m # 0
      BY <1>1
    <2> HIDE DEF Good
    <2> QED
      BY <1>8, <2>1
  <1> QED
    BY <1>9 DEF m

(***************************************************************************)
(* What a generic and honest args for its params make is honest: its       *)
(* fullname, the generic's with the args' in brackets, reads to it.        *)
(***************************************************************************)
LEMMA MadeIsHonest ==
  ASSUME NEW path \in DOMAIN Parcels, NEW name \in DOMAIN Parcels[path],
         NEW types, IsSeq(types), Len(types) = Len(Parcels[path][name].typeParams),
         \A i \in 1..Len(types) : HonestType(types[i])
  PROVE  HonestType(MkType(path, name, types, NoMember))
  <1> DEFINE type == MkType(path, name, types, NoMember)
             t == Term("concrete", type)
             core == path \o <<Colon, name>>
             plain == Plain(path, name, types)
             k == Len(types)
  <1>1. /\ core \in Seq(Int) /\ Parcels[path][name].typeParams \in Seq(Nat \ {0})
        /\ Reads(core, TypeTerm(path, name))
        /\ Plain(path, name, <<>>) = core
    BY ParcelParts, ParcelTypeReads
  <1>2. /\ type.path = path /\ type.name = name /\ type.args = types /\ type.member = NoMember
        /\ type.fullname = OfMember(plain, NoMember) /\ Stem(type) = plain
    BY MkTypeIs
  <1>3. Fresh(t) /\ t.is = "concrete"
    BY TermIsFresh
  <1>4. type = MkType(type.path, type.name, type.args, type.member)
    BY <1>2, Zenon DEF type
  <1>5. plain \in Seq(Int) /\ Reads(plain, t)
    <2>1. CASE k = 0
      <3>1. types = <<>>
        BY <2>1, EmptyIsSeq, SameSeq
      <3>2. Parcels[path][name].typeParams = <<>>
        <4> DEFINE ps == Parcels[path][name].typeParams
        <4>1. ps \in Seq(Nat \ {0}) /\ Len(ps) = 0
          BY <1>1, <2>1
        <4> HIDE DEF ps
        <4>2. ps = <<>>
          BY <4>1
        <4> QED
          BY <4>2 DEF ps
      <3>3. plain = core
        BY <1>1, <3>1, Zenon
      <3>4. TypeTerm(path, name) = t
        BY <3>1, <3>2 DEF TypeTerm
      <3> HIDE DEF t, plain, core
      <3> QED
        BY <1>1, <3>3, <3>4
    <2>2. CASE k # 0
      <3> DEFINE args == Args(types, k)
                 pack == <<OpenArgs>> \o args \o <<CloseArgs>>
                 generic == MkType(path, name, <<>>, NoMember)
                 gen == Term("generic", generic)
                 g == [gen EXCEPT !.awaitingArgs = TRUE]
      <3>1. k \in Nat /\ k > 0 /\ k \in 1..k
        <4>1. k \in Nat
          BY SeqLength
        <4> HIDE DEF k
        <4> QED
          BY <2>2, <4>1
      <3>2. argPack(types) = pack
        BY <3>1, ArgPackIs
      <3>3. IsNamed(types)
        BY <3>1 DEF IsNamed, HonestType, Reads
      <3>4. args \in Seq(Int) /\ Len(args) > 0
        BY <3>1, <3>3, ArgsGrow
      <3>5. <<OpenArgs>> \in Seq(Int) /\ <<CloseArgs>> \in Seq(Int) /\ OpenArgs \in Int
            /\ CloseArgs \in Int
        BY DEF OpenArgs, CloseArgs
      <3>6. pack \in Seq(Int)
        <4> HIDE DEF args
        <4>1. <<OpenArgs>> \o args \in Seq(Int)
          BY <3>4, <3>5
        <4> QED
          BY <3>5, <4>1
      <3>7. plain = core \o pack
        BY <3>2, Zenon DEF Plain
      <3>8. plain \in Seq(Int) /\ Len(plain) > 0
        <4> HIDE DEF core, pack, plain
        <4>1. plain \in Seq(Int) /\ Len(plain) = Len(core) + Len(pack)
          BY <1>1, <3>6, <3>7, Associative
        <4>2. Len(core) > 0 /\ Len(core) \in Nat /\ Len(pack) \in Nat
          BY <1>1, <3>6 DEF Reads
        <4> QED
          BY <4>1, <4>2
      <3>9. Reads(core, gen)
        <4>1. Parcels[path][name].typeParams # <<>>
          BY <3>1
        <4>2. TypeTerm(path, name) = gen
          BY <4>1 DEF TypeTerm
        <4> HIDE DEF gen, core
        <4> QED
          BY <1>1, <4>2
      <3>10. /\ g.awaitingArgs = TRUE /\ g.is = "generic" /\ g.of = generic
             /\ Fresh(gen) /\ gen.is = "generic" /\ gen.of = generic
        <4> HIDE DEF generic
        <4>1. Fresh(gen) /\ gen.is = "generic" /\ gen.of = generic
          BY TermIsFresh
        <4>2. gen \in [is : {"generic"}, of : {generic}, awaitingArgs : BOOLEAN]
          BY DEF Term
        <4> HIDE DEF gen
        <4>3. g.awaitingArgs = TRUE /\ g.is = "generic" /\ g.of = generic
          BY <4>2
        <4> QED
          BY <4>1, <4>3
      <3>11. generic.path = path /\ generic.name = name
        BY MkTypeIs
      <3>12. Len(types) = Len(info(g.of).typeParams)
        <4> HIDE DEF g, generic
        <4> QED
          BY <3>10, <3>11 DEF info
      <3>13. ASSUME NEW before, ReadIn(before, "rootId"), Takes(Stk(before, NoEnv))
             PROVE  /\ \E mode : ReadIn(before \o plain, mode)
                    /\ Stk(before \o plain, NoEnv) = Append(Stk(before, NoEnv), t)
                    /\ \A n, l, w : SolIs(Sol(before), n, l, w)
                            => SolIs(Sol(before \o plain), n, Latest(t), w \o plain)
        <4> DEFINE base == Stk(before, NoEnv)
                   head == before \o core
                   opened == Append(head, OpenArgs)
                   full == opened \o args
        <4> HIDE DEF core, pack, plain, g, gen, generic, args, t
        <4>1. /\ \E mode : ReadIn(head, mode)
              /\ Stk(head, NoEnv) = Append(base, gen)
              /\ \A n, l, w : SolIs(Sol(before), n, l, w)
                                    => SolIs(Sol(head), n, Latest(gen), w \o core)
          BY <3>9, <3>13 DEF Reads
        <4>2. PICK n \in Nat : Marks(base, n) /\ (Len(base) = 0 \/ base[1].awaitingArgs)
          BY <3>13 DEF Takes
        <4>3. IsSeq(base) /\ Len(base) \in Nat
          BY <4>2, SeqLength DEF Marks
        <4>4. PICK mode : ReadIn(head, mode)
          BY <4>1
        <4> HIDE DEF base, head
        <4>5. /\ ReadIn(opened, "rootId")
              /\ Stk(opened, NoEnv) = beginArgs(Append(base, gen))
              /\ Sol(opened) = Solves(Sol(head), Event("openTypeArgs", OpenArgs))
          BY <4>1, <4>4, ReadsBracket DEF Solves
        <4>6. Ready(Append(base, gen), n)
          BY <3>10, <4>2, PushReady
        <4> DEFINE top == Append(base, gen)
        <4>7. /\ IsSeq(top) /\ Len(top) = Len(base) + 1 /\ top[Len(base) + 1] = gen
              /\ \A i \in 1..Len(base) : top[i] = base[i]
          BY <4>3, AppendIs
        <4> HIDE DEF top
        <4>8. /\ Marks(beginArgs(top), n + 1) /\ beginArgs(top)[1].awaitingArgs
              /\ Len(beginArgs(top)) = Len(top)
              /\ beginArgs(top)[Len(top)] = [top[Len(top)] EXCEPT !.awaitingArgs = TRUE]
              /\ \A i \in 1..Len(top) - 1 : beginArgs(top)[i] = top[i]
          BY <4>6, OpenMarks DEF top
        <4> DEFINE stk == beginArgs(top)
        <4> HIDE DEF stk
        <4>9. Stacked(stk, base, g, types, 0)
          <5>1. IsSeq(stk) /\ Len(stk) = Len(base) + 1 + 0
            BY <4>3, <4>7, <4>8 DEF Marks, stk
          <5>2. \A i \in 1..Len(base) : stk[i] = base[i]
            <6>1. Len(top) - 1 = Len(base)
              BY <4>3, <4>7
            <6> QED
              BY <4>7, <4>8, <6>1 DEF stk
          <5>3. stk[Len(base) + 1] = g
            BY <4>7, <4>8, Zenon DEF stk, g
          <5>4. \A i \in 1..0 : stk[Len(base) + 1 + i] = Term("concrete", types[i])
            OBVIOUS
          <5> QED
            BY <5>1, <5>2, <5>3, <5>4, Zenon DEF Stacked
        <4>10. Stk(opened, NoEnv) = stk
          BY <4>5 DEF stk, top
        <4>11. n + 1 \in Nat /\ n + 1 > 0 /\ Marks(stk, n + 1) /\ stk[1].awaitingArgs
          BY <4>8 DEF stk
        <4> HIDE DEF opened
        <4>12. ArgsAreRead(opened, opened \o Args(types, Len(types)), base, g, types, Len(types),
                           n + 1, Args(types, Len(types)))
          BY <3>1, <4>3, <4>5, <4>9, <4>10, <4>11, ArgsRead
        <4>13. ArgsAreRead(opened, full, base, g, types, k, n + 1, args)
          BY <4>12 DEF args
        <4>14. PICK last : ReadIn(full, last)
          BY <4>13 DEF ArgsAreRead
        <4>15. /\ Stacked(Stk(full, NoEnv), base, g, types, k)
               /\ Ready(Stk(full, NoEnv), n + 1)
               /\ \A x, w : x > 1 /\ SolIs(Sol(opened), x, "none", w)
                                => SolIs(Sol(full), x, "type", w \o args)
          BY <4>13 DEF ArgsAreRead
        <4>16. /\ ReadIn(Append(full, CloseArgs), last)
               /\ Stk(Append(full, CloseArgs), NoEnv) = endArgs(Stk(full, NoEnv))
               /\ Sol(Append(full, CloseArgs)) = Solves(Sol(full), Event("closeTypeArgs", CloseArgs))
          BY <4>14, ReadsBracket DEF Solves
        <4>17. endArgs(Stk(full, NoEnv)) = Append(base, t)
          <5>1. endArgs(Stk(full, NoEnv))
                    = Append(base, Term("concrete", MkType(g.of.path, g.of.name, types, NoMember)))
            <6> DEFINE s == Stk(full, NoEnv)
                       n1 == n + 1
            <6>1. n1 \in Nat /\ n1 > 0 /\ Ready(s, n1) /\ Stacked(s, base, g, types, Len(types))
              BY <4>11, <4>15
            <6> HIDE DEF s, n1
            <6>2. g.awaitingArgs = TRUE /\ g.is = "generic"
              BY <3>10
            <6> HIDE DEF k
            <6>3. endArgs(s) = Append(base, Term("concrete", MkType(g.of.path, g.of.name, types, NoMember)))
              BY <3>12, <4>3, <6>1, <6>2, CloseMakes
            <6> QED
              BY <6>3 DEF s
          <5> QED
            BY <3>10, <3>11, <5>1, Zenon DEF t
        <4> HIDE DEF full, k
        <4>18. before \o plain = Append(full, CloseArgs)
          <5>1. before \in Seq(Int)
            BY <3>13 DEF ReadIn
          <5> DEFINE o == <<OpenArgs>>
                     c == <<CloseArgs>>
                     oa == o \o args
          <5>2. o \in Seq(Int) /\ c \in Seq(Int)
            BY <3>5
          <5> HIDE DEF o, c
          <5>3. oa \in Seq(Int)
            BY <3>4, <5>2, Associative
          <5> HIDE DEF oa
          <5>4. head \in Seq(Int)
            BY <1>1, <5>1, Associative DEF head
          <5>5. opened = head \o o
            BY <3>5, <5>4, AppendIsConcat DEF opened, o
          <5>6. opened \in Seq(Int)
            BY <5>2, <5>4, <5>5, Associative
          <5>7. full \in Seq(Int)
            BY <3>4, <5>6, Associative DEF full
          <5>8. Append(full, CloseArgs) = full \o c
            BY <3>5, <5>7, AppendIsConcat DEF c
          <5>9. full = head \o oa
            <6>1. (head \o o) \o args = head \o (o \o args)
              BY <3>4, <5>2, <5>4, Associative
            <6> QED
              BY <5>5, <6>1, Zenon DEF full, oa
          <5>10. pack = oa \o c
            BY Zenon DEF pack, oa, o, c
          <5>11. (head \o oa) \o c = head \o (oa \o c)
            BY <5>2, <5>3, <5>4, Associative
          <5>12. (before \o core) \o pack = before \o (core \o pack)
            BY <1>1, <3>6, <5>1, Associative
          <5> QED
            BY <3>7, <5>8, <5>9, <5>10, <5>11, <5>12, Zenon DEF head
        <4>19. ASSUME NEW x, NEW l, NEW w, SolIs(Sol(before), x, l, w)
               PROVE  SolIs(Sol(before \o plain), x, Latest(t), w \o plain)
          <5>1. x \in Nat /\ x > 0 /\ w \in Seq(Int)
            BY <4>19, SolIsTyped
          <5>2. Latest(gen) = "type" /\ Latest(t) = "type"
            BY <1>3, <3>10 DEF Latest, t
          <5> DEFINE wc == w \o core
                     wo == wc \o <<OpenArgs>>
                     wa == wo \o args
          <5> HIDE DEF wc, wo, wa
          <5>3. SolIs(Sol(head), x, "type", wc)
            BY <4>1, <4>19, <5>2 DEF wc
          <5>4. SolIs(Sol(opened), x + 1, "none", wo)
            BY <4>5, <5>1, <5>3, SolvesBracket DEF wo
          <5> DEFINE x1 == x + 1
          <5>5. x1 \in Nat /\ x1 > 1 /\ x1 - 1 = x
            BY <5>1
          <5> HIDE DEF x1
          <5>6. SolIs(Sol(full), x1, "type", wa)
            BY <4>15, <5>4, <5>5 DEF x1, wa
          <5>7. SolIs(Sol(Append(full, CloseArgs)), x1 - 1, "type", wa \o <<CloseArgs>>)
            BY <4>16, <5>5, <5>6, SolvesBracket
          <5>8. wa \o <<CloseArgs>> = w \o plain
            <6> DEFINE o == <<OpenArgs>>
                       c == <<CloseArgs>>
                       oa == o \o args
            <6>1. o \in Seq(Int) /\ c \in Seq(Int)
              BY <3>5
            <6> HIDE DEF o, c
            <6>2. oa \in Seq(Int)
              BY <3>4, <6>1, Associative
            <6>3. wc \in Seq(Int)
              BY <1>1, <5>1, Associative DEF wc
            <6>4. (wc \o o) \o args = wc \o oa
              BY <3>4, <6>1, <6>3, Associative
            <6> HIDE DEF oa
            <6>5. (wc \o oa) \o c = wc \o (oa \o c)
              BY <6>1, <6>2, <6>3, Associative
            <6>6. pack = oa \o c
              BY Zenon DEF pack, oa, o, c
            <6>7. (w \o core) \o pack = w \o (core \o pack)
              BY <1>1, <3>6, <5>1, Associative
            <6> QED
              BY <3>7, <6>4, <6>5, <6>6, <6>7, Zenon DEF wa, wo, wc, o, c
          <5> QED
            BY <4>18, <5>2, <5>5, <5>7, <5>8
        <4>20. /\ \E m : ReadIn(before \o plain, m)
               /\ Stk(before \o plain, NoEnv) = Append(base, t)
          BY <4>16, <4>17, <4>18
        <4> QED
          BY <4>19, <4>20 DEF base
      <3> HIDE DEF plain, t
      <3>14. Reads(plain, t)
        BY <3>8, <3>13 DEF Reads
      <3> QED
        BY <3>8, <3>14
    <2> QED
      BY <2>1, <2>2
  <1> HIDE DEF plain, t
  <1>6. type.fullname = plain
    <2>1. OfMember(plain, NoMember) = plain
      BY <1>5, NoMemberAfter
    <2> HIDE DEF type
    <2> QED
      BY <1>2, <2>1
  <1>7. Stem(type) \in Seq(Int) /\ Reads(type.fullname, t)
    BY <1>2, <1>5, <1>6
  <1> QED
    BY <1>4, <1>7, Zenon DEF HonestType, t

--------------------------------------------------------------------------------
(* Every type that is reached is honest *)

LEMMA ArgsTyped ==
  ASSUME NEW types, IsSeq(types), \A i \in 1..Len(types) : types[i].fullname \in Seq(Int)
  PROVE  Args(types, Len(types)) \in Seq(Int)
  <1> DEFINE n == Len(types)
             T == {k \in 0..n : Args(types, k) \in Seq(Int)}
  <1>1. n \in Nat
    BY SeqLength
  <1>2. \A i \in 1..n : types[i].fullname \in Seq(Int)
    OBVIOUS
  <1>3. ASSUME NEW k \in Nat, k < n
        PROVE  Args(types, k + 1) = WithArg(Args(types, k), types[k + 1])
    BY <1>3, OneMoreArg
  <1> DEFINE none == SubSeq(types, 1, 0)
  <1>4. IsSeq(none) /\ Len(none) = 0
    <2>1. 0 \in 0..Len(types)
      BY <1>1
    <2> QED
      BY <2>1, BeginningIs
  <1>5. Args(types, 0) = <<>>
    <2> HIDE DEF none
    <2>1. none = <<>>
      BY <1>4, EmptyIsSeq, SameSeq
    <2> QED
      BY <2>1, FoldEmpty DEF Args, none
  <1> HIDE DEF n
  <1>6. 0 \in T
    <2>1. 0 \in 0..n /\ <<>> \in Seq(Int)
      BY <1>1
    <2> QED
      BY <1>5, <2>1
  <1>7. ASSUME NEW k \in 0..n - 1, k \in T
        PROVE  k + 1 \in T
    <2> DEFINE out == Args(types, k)
               x == types[k + 1].fullname
    <2>1. k \in Nat /\ k < n /\ k + 1 \in 1..n /\ k + 1 \in 0..n
      BY <1>1
    <2>2. out \in Seq(Int)
      BY <1>7
    <2>3. Args(types, k + 1) = WithArg(out, types[k + 1])
      BY <1>3, <2>1
    <2>4. x \in Seq(Int)
      BY <1>2, <2>1
    <2>5. WithArg(out, types[k + 1]) = out \o (IF out = <<>> THEN <<>> ELSE <<Comma>>) \o x
      BY Zenon DEF WithArg
    <2> HIDE DEF out, x
    <2> DEFINE sep == IF out = <<>> THEN <<>> ELSE <<Comma>>
    <2>6. sep \in Seq(Int)
      BY DEF Comma
    <2> HIDE DEF sep
    <2>7. out \o sep \o x \in Seq(Int)
      BY <2>2, <2>4, <2>6
    <2>8. Args(types, k + 1) \in Seq(Int)
      BY <2>3, <2>5, <2>7 DEF sep
    <2> QED
      BY <2>1, <2>8
  <1>8. n \in T
    <2>1. n \in 0..n
      BY <1>1
    <2> HIDE DEF T
    <2> QED
      BY <1>1, <1>6, <1>7, <2>1, AllNumbers
  <1> QED
    BY <1>8 DEF n

LEMMA KnownNames ==
  ASSUME NEW types, Generated(types), NEW type \in types
  PROVE  /\ type.path \in DOMAIN Parcels /\ type.name \in DOMAIN Parcels[type.path]
         /\ IsSeq(type.args)
         /\ Len(type.args) = Len(Parcels[type.path][type.name].typeParams)
         /\ \A i \in 1..Len(type.args) : type.args[i] \in types
         /\ type = MkType(type.path, type.name, type.args, NoMember)
         /\ type.fullname \in Seq(Int) /\ Len(type.fullname) > 0
         /\ Len(type.args) > 0 => Len(Args(type.args, Len(type.args))) < Len(type.fullname)
  <1> DEFINE args == type.args
             core == type.path \o <<Colon, type.name>>
             plain == Plain(type.path, type.name, args)
  <1>1. /\ type.path \in DOMAIN Parcels /\ type.name \in DOMAIN Parcels[type.path]
        /\ args \in Seq(types) /\ Len(args) = Len(info(type).typeParams)
        /\ type = MkType(type.path, type.name, args, NoMember)
        /\ type.fullname \in Seq(Int)
    BY DEF Generated
  <1>2. /\ IsSeq(args) /\ Len(args) \in Nat /\ \A i \in 1..Len(args) : args[i] \in types
        /\ \A i \in 1..Len(args) : args[i].fullname \in Seq(Int)
    <2>1. IsSeq(args) /\ Len(args) \in Nat /\ \A i \in 1..Len(args) : args[i] \in types
      BY <1>1 DEF IsSeq
    <2> QED
      BY <2>1 DEF Generated
  <1>3. core \in Seq(Int) /\ Len(core) > 0 /\ Len(core) \in Nat
    <2>1. core \in Seq(Int)
      BY <1>1, ParcelParts
    <2>2. Reads(core, TypeTerm(type.path, type.name))
      BY <1>1, ParcelTypeReads
    <2> HIDE DEF core
    <2> QED
      BY <2>1, <2>2 DEF Reads
  <1>4. plain = core \o argPack(args)
    BY Zenon DEF Plain
  <1>5. type.fullname = OfMember(plain, NoMember)
    <2> DEFINE new == MkType(type.path, type.name, args, NoMember)
    <2>1. new.fullname = OfMember(plain, NoMember)
      BY MkTypeIs
    <2>2. type = new
      BY <1>1
    <2> HIDE DEF new, plain
    <2> QED
      BY <2>1, <2>2, Zenon
  <1> HIDE DEF core, plain
  <1>6. /\ plain \in Seq(Int) /\ Len(plain) > 0
        /\ Len(args) > 0 => Len(Args(args, Len(args))) < Len(plain)
    <2>1. CASE Len(args) = 0
      <3>1. args = <<>>
        <4> HIDE DEF args
        <4> QED
          BY <1>2, <2>1, EmptyIsSeq, SameSeq
      <3>2. plain = core \o <<>>
        BY <1>4, <3>1, NoArgs, Zenon
      <3>3. core \o <<>> = core
        BY <1>3, NothingAfter
      <3> QED
        BY <1>3, <2>1, <3>2, <3>3
    <2>2. CASE Len(args) > 0
      <3> DEFINE x == Args(args, Len(args))
                 o == <<OpenArgs>>
                 c == <<CloseArgs>>
      <3>1. x \in Seq(Int)
        BY <1>2, ArgsTyped
      <3>2. argPack(args) = o \o x \o c
        BY <1>2, <2>2, ArgPackIs
      <3>3. o \in Seq(Int) /\ c \in Seq(Int) /\ Len(o) = 1 /\ Len(c) = 1
        BY DEF OpenArgs, CloseArgs
      <3> HIDE DEF x, o, c
      <3> DEFINE ox == o \o x
                 oxc == ox \o c
      <3>4. ox \in Seq(Int) /\ Len(ox) = Len(o) + Len(x)
        BY <3>1, <3>3, Associative
      <3> HIDE DEF ox
      <3>5. oxc \in Seq(Int) /\ Len(oxc) = Len(ox) + Len(c)
        BY <3>3, <3>4, Associative
      <3> HIDE DEF oxc
      <3>6. plain = core \o oxc
        BY <1>4, <3>2, Zenon DEF oxc, ox
      <3>7. core \o oxc \in Seq(Int) /\ Len(core \o oxc) = Len(core) + Len(oxc)
        BY <1>3, <3>5, Associative
      <3>8. Len(x) \in Nat
        BY <3>1
      <3>9. Len(plain) = Len(core) + (1 + Len(x) + 1)
        BY <3>3, <3>4, <3>5, <3>6, <3>7
      <3>10. Len(plain) > 0 /\ Len(x) < Len(plain)
        BY <1>3, <3>8, <3>9
      <3> QED
        BY <3>6, <3>7, <3>10 DEF x
    <2> QED
      BY <1>2, <2>1, <2>2
  <1>7. type.fullname = plain
    BY <1>5, <1>6, NoMemberAfter
  <1> QED
    BY <1>1, <1>2, <1>6, <1>7 DEF info

\* Induction on the length of the fullname: the names of the args are part of it.
LEMMA KnownHonest ==
  ASSUME NEW types, Generated(types)
  PROVE  \A type \in types : HonestType(type)
  <1> SUFFICES ASSUME NEW some \in types, ~ HonestType(some)
               PROVE  FALSE
    OBVIOUS
  <1> DEFINE Bad == {type \in types : ~ HonestType(type)}
             T == {Len(type.fullname) : type \in Bad}
  <1>1. T \subseteq Nat /\ T # {}
    <2>1. \A type \in Bad : Len(type.fullname) \in Nat
      BY DEF Generated
    <2>2. some \in Bad
      OBVIOUS
    <2> HIDE DEF Bad
    <2> QED
      BY <2>1, <2>2
  <1>2. PICK n \in T : \A k \in T : n <= k
    <2> HIDE DEF T
    <2> QED
      BY <1>1, LeastNumber
  <1>3. PICK type \in Bad : n = Len(type.fullname)
    BY <1>2
  <1> DEFINE args == type.args
             m == Len(args)
  <1>4. /\ type.path \in DOMAIN Parcels /\ type.name \in DOMAIN Parcels[type.path]
        /\ IsSeq(args) /\ m = Len(Parcels[type.path][type.name].typeParams)
        /\ \A i \in 1..m : args[i] \in types
        /\ type = MkType(type.path, type.name, args, NoMember)
        /\ type.fullname \in Seq(Int)
        /\ m > 0 => Len(Args(args, m)) < Len(type.fullname)
    BY <1>3, KnownNames
  <1>5. \A i \in 1..m : HonestType(args[i])
    <2> SUFFICES ASSUME NEW i \in 1..m
                 PROVE  HonestType(args[i])
      OBVIOUS
    <2>1. m \in Nat /\ m > 0 /\ m \in 1..m
      <3>1. m \in Nat
        BY <1>4, SeqLength
      <3> HIDE DEF m
      <3> QED
        BY <3>1
    <2>2. IsNamed(args)
      <3>1. \A j \in 1..m : args[j].fullname \in Seq(Int) /\ Len(args[j].fullname) > 0
        BY <1>4, KnownNames
      <3> QED
        BY <1>4, <2>1, <3>1 DEF IsNamed
    <2>3. Args(args, m) \in Seq(Int) /\ Len(args[i].fullname) <= Len(Args(args, m))
      BY <2>1, <2>2, ArgsGrow
    <2>4. args[i] \in types /\ args[i].fullname \in Seq(Int)
      BY <1>4, KnownNames
    <2> DEFINE x == Len(args[i].fullname)
               y == Len(Args(args, m))
    <2>5. x \in Nat /\ y \in Nat /\ n \in Nat /\ x <= y /\ y < n
      <3>1. n \in Nat
        <4> HIDE DEF T
        <4> QED
          BY <1>1
      <3>2. y < n
        <4> HIDE DEF args, m, Bad, T
        <4> QED
          BY <1>3, <1>4, <2>1
      <3>3. x \in Nat
        <4>1. args[i].fullname \in Seq(Int)
          BY <2>4
        <4> HIDE DEF args, m, Bad, T
        <4> QED
          BY <4>1
      <3>4. y \in Nat /\ x <= y
        <4> HIDE DEF args, m, Bad, T
        <4> QED
          BY <2>3
      <3> QED
        BY <3>1, <3>2, <3>3, <3>4
    <2> HIDE DEF x, y
    <2>6. ~ (n <= x)
      BY <2>5
    <2>7. x \notin T
      BY <1>2, <2>6
    <2>8. args[i] \notin Bad
      BY <2>7 DEF x
    <2> QED
      BY <2>4, <2>8
  <1>6. HonestType(MkType(type.path, type.name, args, NoMember))
    <2> HIDE DEF args
    <2> QED
      BY <1>4, <1>5, MadeIsHonest
  <1> QED
    BY <1>3, <1>4, <1>6

(***************************************************************************)
(* What a term names, in any session, its fullname reads to without one.   *)
(***************************************************************************)
HonestTerm(t) ==
    \/ t.is = "err"
    \/ t.is = "path" /\ Reads(t.of, Term("path", t.of))
    \/ t.is = "concrete" /\ HonestType(t.of)
    \/ t.is = "generic" /\ \E path \in DOMAIN Parcels : \E name \in DOMAIN Parcels[path] :
                                t.of = MkType(path, name, <<>>, NoMember)

HonestStack(stk) == \A i \in 1..Len(stk) : HonestTerm(stk[i])

LEMMA SessionIs ==
  ASSUME NEW types, Generated(types), NEW type \in types
  PROVE  Env(type).here = type.path /\ Env(type).self = type
  <1>1. type = MkType(type.path, type.name, type.args, NoMember)
    BY KnownNames
  <1> DEFINE full == MkType(type.path, type.name, type.args, NoMember).fullname
  <1>2. \E A, B, C, D, E : type \in [path : A, name : B, args : C, member : D, fullname : E]
    <2> DEFINE a == type.path
               b == type.name
               c == type.args
               f == OfMember(Plain(a, b, c), NoMember)
    <2>1. MkType(a, b, c, NoMember)
            = [path |-> a, name |-> b, args |-> c, member |-> NoMember, fullname |-> f]
      BY Zenon DEF MkType, OfMember, Plain
    <2> HIDE DEF a, b, c, f
    <2>2. [path |-> a, name |-> b, args |-> c, member |-> NoMember, fullname |-> f]
            \in [path : {a}, name : {b}, args : {c}, member : {NoMember}, fullname : {f}]
      OBVIOUS
    <2> QED
      BY <1>1, <2>1, <2>2, Zenon DEF a, b, c
  <1>3. type.member = NoMember /\ type.fullname = full
    <2> DEFINE new == MkType(type.path, type.name, type.args, NoMember)
    <2>1. new.member = NoMember /\ new.fullname = full
      BY MkTypeIs
    <2>2. type = new
      BY <1>1
    <2> HIDE DEF new, full
    <2> QED
      BY <2>1, <2>2, Zenon
  <1> HIDE DEF full
  <1>4. self(type) = [type EXCEPT !.member = NoMember, !.fullname = full]
    BY Zenon DEF self, full
  <1>5. self(type) = type
    BY <1>2, <1>3, <1>4
  <1> QED
    BY <1>5 DEF Env

\* What an identifier, or a suffix, makes of honest terms.
LEMMA RootHonest ==
  ASSUME NEW id, IsId(id), NEW types, Generated(types), NEW env \in Sessions(types)
  PROVE  \E t : HonestTerm(t) /\ \A stk : root(stk, id, env) = Append(stk, t)
  <1>1. env = NoEnv \/ \E type \in types : env = Env(type)
    BY DEF Sessions
  <1>2. HonestTerm(Err)
    BY TermIsFresh DEF HonestTerm
  <1>3. ASSUME NEW path, IsPath(path)
        PROVE  HonestTerm(Term("path", path))
    <2> DEFINE t == Term("path", path)
    <2>1. t.is = "path" /\ t.of = path
      BY TermIsFresh
    <2>2. Reads(path, t)
      BY <1>3, PathReads
    <2>3. Reads(t.of, Term("path", t.of))
      BY <2>1, <2>2, Zenon
    <2> HIDE DEF t
    <2> QED
      BY <2>1, <2>3, Zenon DEF HonestTerm, t
  <1>4. ASSUME NEW type \in types
        PROVE  HonestTerm(Term("concrete", type))
    <2> DEFINE t == Term("concrete", type)
    <2>1. t.is = "concrete" /\ t.of = type
      BY TermIsFresh
    <2>2. HonestType(type)
      BY KnownHonest
    <2> HIDE DEF t
    <2> QED
      BY <2>1, <2>2, Zenon DEF HonestTerm, t
  <1>5. CASE id = HereId
    <2>1. ASSUME env # NoEnv
          PROVE  HonestTerm(Term("path", env.here))
      <3>1. PICK type \in types : env = Env(type)
        BY <1>1, <2>1
      <3>2. env.here = type.path
        BY <3>1, SessionIs
      <3>3. IsPath(type.path)
        BY KnownNames, ParcelParts
      <3> QED
        BY <1>3, <3>2, <3>3
    <2>2. \A stk : root(stk, id, env)
                    = Append(stk, IF env = NoEnv THEN Err ELSE Term("path", env.here))
      <3>1. id # SelfId /\ ~ IsDollar(id)
        BY <1>5 DEF HereId, SelfId, Dollar, IsDollar
      <3> QED
        BY <1>5, <3>1, Zenon DEF root
    <2> QED
      BY <1>2, <2>1, <2>2
  <1>6. CASE id = SelfId
    <2>1. ASSUME env # NoEnv
          PROVE  HonestTerm(Term("concrete", env.self))
      <3>1. PICK type \in types : env = Env(type)
        BY <1>1, <2>1
      <3>2. env.self = type
        BY <3>1, SessionIs
      <3> QED
        BY <1>4, <3>2
    <2>2. \A stk : root(stk, id, env)
                    = Append(stk, IF env = NoEnv THEN Err ELSE Term("concrete", env.self))
      <3>1. id # HereId
        BY <1>6 DEF HereId, SelfId, Dollar
      <3> QED
        BY <1>6, <3>1, Zenon DEF root
    <2> QED
      BY <1>2, <2>1, <2>2
  <1>7. CASE IsDollar(id) /\ id # SelfId
    <2> DEFINE params == typeParams(env.self)
               known == env # NoEnv /\ Undollar(id) \in DOMAIN params
    <2>1. ASSUME known
          PROVE  HonestTerm(Term("concrete", params[Undollar(id)]))
      <3>1. PICK type \in types : env = Env(type)
        BY <1>1, <2>1
      <3>2. env.self = type
        BY <3>1, SessionIs
      <3> DEFINE args == type.args
                 tps == info(type).typeParams
                 n == Undollar(id)
      <3>3. params = [m \in {tps[i] : i \in DOMAIN args} |->
                        args[CHOOSE i \in DOMAIN args : tps[i] = m]]
        <4>1. typeParams(type) = [m \in {tps[i] : i \in DOMAIN args} |->
                                    args[CHOOSE i \in DOMAIN args : tps[i] = m]]
          BY DEF typeParams
        <4>2. params = typeParams(type)
          BY <3>2
        <4> HIDE DEF params, tps, args
        <4> QED
          BY <4>1, <4>2, Zenon
      <3>4. IsSeq(args) /\ \A i \in DOMAIN args : args[i] \in types
        <4>1. IsSeq(args) /\ \A i \in 1..Len(args) : args[i] \in types
          BY KnownNames
        <4> QED
          BY <4>1, SeqLength
      <3> HIDE DEF args, tps, n
      <3>5. n \in DOMAIN params
        BY <2>1 DEF n
      <3> HIDE DEF params
      <3>6. \E i \in DOMAIN args : tps[i] = n
        BY <3>3, <3>5
      <3>7. params[n] = args[CHOOSE i \in DOMAIN args : tps[i] = n]
        BY <3>3, <3>6
      <3>8. (CHOOSE i \in DOMAIN args : tps[i] = n) \in DOMAIN args
        BY <3>6, Zenon
      <3>9. params[n] \in types
        BY <3>4, <3>7, <3>8
      <3> QED
        BY <1>4, <3>9 DEF n
    <2>2. \A stk : root(stk, id, env)
                    = Append(stk, IF known THEN Term("concrete", params[Undollar(id)]) ELSE Err)
      <3>1. id # HereId
        BY <1>7 DEF HereId, IsDollar
      <3> QED
        BY <1>7, <3>1, Zenon DEF root
    <2> HIDE DEF known, params
    <2> QED
      BY <1>2, <2>1, <2>2
  <1>8. CASE id # HereId /\ ~ IsDollar(id)
    <2>1. IsName(id)
      BY <1>8 DEF IsId
    <2>2. HonestTerm(Term("path", <<id>>))
      <3> DEFINE p == <<id>>
                 t == Term("path", p)
      <3>1. Reads(p, t)
        BY <2>1, NameReads
      <3>2. t.is = "path" /\ t.of = p
        BY TermIsFresh
      <3> HIDE DEF t, p
      <3> QED
        BY <3>1, <3>2, Zenon DEF HonestTerm, t, p
    <2>3. \A stk : root(stk, id, env) = Append(stk, Term("path", <<id>>))
      <3>1. id # SelfId
        BY <1>8 DEF SelfId, Dollar, IsDollar
      <3> QED
        BY <1>8, <3>1, Zenon DEF root
    <2> QED
      BY <2>2, <2>3
  <1> QED
    BY <1>5, <1>6, <1>7, <1>8

LEMMA TypeTermHonest ==
  ASSUME NEW path \in DOMAIN Parcels, NEW id \in DOMAIN Parcels[path]
  PROVE  HonestTerm(TypeTerm(path, id))
  <1> DEFINE type == MkType(path, id, <<>>, NoMember)
             t == TypeTerm(path, id)
             ps == Parcels[path][id].typeParams
  <1>1. /\ t.of = type
        /\ t.is = IF ps = <<>> THEN "concrete" ELSE "generic"
    <2> HIDE DEF type, ps
    <2>1. \A kind : Term(kind, type).is = kind /\ Term(kind, type).of = type
      BY TermIsFresh
    <2>2. t = Term(IF ps = <<>> THEN "concrete" ELSE "generic", type)
      BY Zenon DEF TypeTerm, type, ps
    <2> HIDE DEF t
    <2> QED
      BY <2>1, <2>2
  <1>2. ASSUME ps = <<>>
        PROVE  HonestTerm(t)
    <2> DEFINE none == <<>>
    <2>1. IsSeq(none) /\ Len(none) = 0 /\ Len(ps) = 0
      BY <1>2, EmptyIsSeq
    <2>2. \A i \in 1..Len(none) : HonestType(none[i])
      BY <2>1
    <2> HIDE DEF none
    <2>3. HonestType(MkType(path, id, none, NoMember))
      BY <2>1, <2>2, MadeIsHonest
    <2> HIDE DEF t
    <2> QED
      BY <1>1, <1>2, <2>3 DEF HonestTerm, none
  <1>3. ASSUME ps # <<>>
        PROVE  HonestTerm(t)
    <2> HIDE DEF t
    <2> QED
      BY <1>1, <1>3 DEF HonestTerm
  <1> QED
    BY <1>2, <1>3

LEMMA SuffixHonest ==
  ASSUME NEW stk, HonestTerm(Last(stk)), NEW id, IsName(id)
  PROVE  /\ \E t : HonestTerm(t) /\ subdir(stk, id) = transact(stk, 1, t)
         /\ \E t : HonestTerm(t) /\ typeInParcel(stk, id) = transact(stk, 1, t)
         /\ \E t : HonestTerm(t) /\ member(stk, id) = transact(stk, 1, t)
  <1> DEFINE x == Last(stk)
  <1>1. HonestTerm(Err)
    BY TermIsFresh DEF HonestTerm
  <1>2. transactErr(stk, 1) = transact(stk, 1, Err)
    BY Zenon DEF transactErr
  <1>3. \E t : HonestTerm(t) /\ subdir(stk, id) = transact(stk, 1, t)
    <2>1. CASE x.is # "path"
      <3>1. subdir(stk, id) = transactErr(stk, 1)
        BY <2>1, Zenon DEF subdir
      <3> QED
        BY <1>1, <1>2, <3>1
    <2>2. CASE x.is = "path"
      <3> DEFINE p == x.of \o <<Slash, id>>
                 t == Term("path", p)
      <3>1. subdir(stk, id) = transact(stk, 1, t)
        BY <2>2, Zenon DEF subdir
      <3>2. Reads(x.of, Term("path", x.of))
        BY <2>2 DEF HonestTerm
      <3>3. Reads(p, t)
        BY <3>2, SubdirReads
      <3>4. t.is = "path" /\ t.of = p
        BY TermIsFresh
      <3> HIDE DEF t, p
      <3>5. HonestTerm(t)
        BY <3>3, <3>4, Zenon DEF HonestTerm, t
      <3> QED
        BY <3>1, <3>5
    <2> QED
      BY <2>1, <2>2
  <1>4. \E t : HonestTerm(t) /\ typeInParcel(stk, id) = transact(stk, 1, t)
    <2> DEFINE found == /\ x.is = "path" /\ x.of \in DOMAIN Parcels
                        /\ id \in DOMAIN Parcels[x.of]
    <2>1. typeInParcel(stk, id) = IF ~ found THEN transactErr(stk, 1)
                                  ELSE transact(stk, 1, TypeTerm(x.of, id))
      BY Zenon DEF typeInParcel, TypeTerm
    <2>2. found => HonestTerm(TypeTerm(x.of, id))
      BY TypeTermHonest
    <2> HIDE DEF found
    <2> QED
      BY <1>1, <1>2, <2>1, <2>2
  <1>5. \E t : HonestTerm(t) /\ member(stk, id) = transact(stk, 1, t)
    <2> DEFINE type == x.of
               found == /\ x.is = "concrete" /\ type.member = NoMember
                        /\ id \in DOMAIN info(type).members
               new == MkType(type.path, type.name, type.args, id)
               t == Term("concrete", new)
    <2>1. member(stk, id) = IF ~ found THEN transactErr(stk, 1) ELSE transact(stk, 1, t)
      BY Zenon DEF member
    <2>2. ASSUME found
          PROVE  HonestTerm(t)
      <3>1. HonestType(type)
        BY <2>2 DEF HonestTerm
      <3>2. HonestType(new)
        BY <2>2, <3>1, MemberHonest
      <3>3. t.is = "concrete" /\ t.of = new
        BY TermIsFresh
      <3> HIDE DEF t, new
      <3> QED
        BY <3>2, <3>3 DEF HonestTerm
    <2> HIDE DEF found, t
    <2> QED
      BY <1>1, <1>2, <2>1, <2>2
  <1> QED
    BY <1>3, <1>4, <1>5

LEMMA PushHonest ==
  ASSUME NEW stk, IsSeq(stk), HonestStack(stk), NEW t, HonestTerm(t)
  PROVE  HonestStack(Append(stk, t))
  <1> DEFINE new == Append(stk, t)
             n == Len(stk)
  <1>1. /\ n \in Nat /\ Len(new) = n + 1 /\ new[n + 1] = t
        /\ \A i \in 1..n : new[i] = stk[i]
    BY SeqLength, AppendIs
  <1>2. \A i \in 1..n : HonestTerm(stk[i])
    BY DEF HonestStack
  <1> HIDE DEF new, n
  <1>3. \A i \in 1..n + 1 : i \in 1..n \/ i = n + 1
    BY <1>1
  <1>4. \A i \in 1..Len(new) : HonestTerm(new[i])
    BY <1>1, <1>2, <1>3
  <1> QED
    BY <1>4 DEF HonestStack, new

LEMMA FrontHonest ==
  ASSUME NEW stk, IsSeq(stk), HonestStack(stk), NEW n \in 0..Len(stk)
  PROVE  IsSeq(SubSeq(stk, 1, n)) /\ HonestStack(SubSeq(stk, 1, n))
  <1> DEFINE new == SubSeq(stk, 1, n)
             m == Len(stk)
  <1>1. m \in Nat /\ IsSeq(new) /\ Len(new) = n /\ \A i \in 1..n : new[i] = stk[i]
    BY SeqLength, BeginningIs
  <1>2. \A i \in 1..m : HonestTerm(stk[i])
    BY DEF HonestStack
  <1>3. n \in 0..m
    OBVIOUS
  <1> HIDE DEF new, m
  <1>4. \A i \in 1..n : i \in 1..m
    BY <1>1, <1>3
  <1>5. \A i \in 1..Len(new) : HonestTerm(new[i])
    BY <1>1, <1>2, <1>4
  <1> QED
    BY <1>1, <1>5 DEF HonestStack, new

LEMMA TopHonest ==
  ASSUME NEW stk, IsSeq(stk), Len(stk) > 0, HonestStack(stk), NEW t, HonestTerm(t)
  PROVE  HonestStack(transact(stk, 1, t))
  <1> DEFINE low == SubSeq(stk, 1, Len(stk) - 1)
  <1>1. Len(stk) - 1 \in 0..Len(stk)
    <2> DEFINE n == Len(stk)
    <2>1. n \in Nat /\ n > 0
      BY SeqLength
    <2> HIDE DEF n
    <2>2. n - 1 \in 0..n
      BY <2>1
    <2> QED
      BY <2>2 DEF n
  <1>2. IsSeq(low) /\ HonestStack(low)
    BY <1>1, FrontHonest
  <1> HIDE DEF low
  <1>3. HonestStack(Append(low, t))
    BY <1>2, PushHonest
  <1> QED
    BY <1>3, Zenon DEF transact, low

LEMMA OpenHonest ==
  ASSUME NEW stk, NEW n, Ready(stk, n), HonestStack(stk)
  PROVE  HonestStack(beginArgs(stk))
  <1> DEFINE new == beginArgs(stk)
             m == Len(stk)
  <1>1. m \in Nat /\ m > 0 /\ DOMAIN stk = 1..m /\ m \in 1..m /\ IsTerm(stk[m])
    BY SeqLength DEF Ready, Marks
  <1>2. /\ Len(new) = m
        /\ new[m] = [stk[m] EXCEPT !.awaitingArgs = TRUE]
        /\ \A i \in 1..m - 1 : new[i] = stk[i]
    BY OpenMarks
  <1>3. new[m].is = stk[m].is /\ new[m].of = stk[m].of
    BY <1>1, <1>2 DEF IsTerm
  <1>4. \A i \in 1..m : HonestTerm(stk[i])
    BY DEF HonestStack
  <1> HIDE DEF new, m
  <1>5. HonestTerm(new[m])
    <2>1. HonestTerm(stk[m])
      BY <1>1, <1>4
    <2> QED
      BY <1>3, <2>1, Zenon DEF HonestTerm
  <1>6. \A i \in 1..m : i = m \/ i \in 1..m - 1
    BY <1>1
  <1>7. \A i \in 1..Len(new) : HonestTerm(new[i])
    BY <1>2, <1>4, <1>5, <1>6
  <1> QED
    BY <1>7 DEF HonestStack, new

LEMMA CloseHonest ==
  ASSUME NEW stk, NEW n \in Nat, Ready(stk, n), n > 0, HonestStack(stk)
  PROVE  HonestStack(endArgs(stk))
  <1> DEFINE m == Len(stk)
  <1>1. PICK at \in Marked(stk) :
            /\ at \in 1..Len(stk) - 1 /\ \A j \in Marked(stk) : j <= at
            /\ endArgs(stk) = Append(SubSeq(stk, 1, at - 1),
                                     IF Legal(stk, at) THEN Made(stk, at) ELSE Err)
    BY EndArgsReplaces
  <1> DEFINE t == IF Legal(stk, at) THEN Made(stk, at) ELSE Err
             low == SubSeq(stk, 1, at - 1)
  <1>2. IsSeq(stk) /\ m \in Nat
    BY SeqLength DEF Ready, Marks
  <1>3. \A i \in 1..m : HonestTerm(stk[i])
    BY DEF HonestStack
  <1>4. at \in 1..m - 1
    BY <1>1
  <1>5. at - 1 \in 0..Len(stk) /\ at \in 1..m /\ m - at \in Nat
    <2> HIDE DEF m
    <2>1. at - 1 \in 0..m /\ at \in 1..m /\ m - at \in Nat
      BY <1>2, <1>4
    <2> QED
      BY <2>1 DEF m
  <1>6. HonestTerm(t)
    <2>1. CASE ~ Legal(stk, at)
      <3>1. HonestTerm(Err)
        BY TermIsFresh DEF HonestTerm
      <3> QED
        BY <2>1, <3>1
    <2>2. CASE Legal(stk, at)
      <3> DEFINE g == stk[at]
                 types == [i \in 1..m - at |-> stk[at + i].of]
                 new == MkType(g.of.path, g.of.name, types, NoMember)
      <3>1. /\ g.is = "generic" /\ m - at = Len(info(g.of).typeParams)
            /\ \A i \in at + 1..m : stk[i].is = "concrete"
        BY <2>2, Zenon DEF Legal
      <3>2. HonestTerm(g)
        BY <1>3, <1>5
      <3>14. PICK path \in DOMAIN Parcels :
                \E name \in DOMAIN Parcels[path] : g.of = MkType(path, name, <<>>, NoMember)
        BY <3>1, <3>2 DEF HonestTerm
      <3>3. PICK name \in DOMAIN Parcels[path] : g.of = MkType(path, name, <<>>, NoMember)
        BY <3>14
      <3>4. g.of.path = path /\ g.of.name = name
        BY <3>3, MkTypeIs
      <3>5. IsSeq(types) /\ Len(types) = m - at
        <4> DEFINE k == m - at
                   S == {types[i] : i \in 1..k}
        <4>1. k \in Nat
          BY <1>5
        <4> HIDE DEF k
        <4>2. [i \in 1..k |-> stk[at + i].of] \in Seq(S) /\ Len([i \in 1..k |-> stk[at + i].of]) = k
          BY <4>1 DEF k
        <4> HIDE DEF S
        <4> QED
          BY <4>2 DEF k, IsSeq
      <3>6. \A i \in 1..m - at : types[i] = stk[at + i].of
        OBVIOUS
      <3> HIDE DEF types, g, m
      <3>7. \A i \in 1..m - at : at + i \in at + 1..m /\ at + i \in 1..m
        BY <1>2, <1>5
      <3>8. \A i \in 1..Len(types) : HonestType(types[i])
        <4> TAKE i \in 1..Len(types)
        <4> DEFINE x == stk[at + i]
        <4>1. x.is = "concrete" /\ HonestTerm(x) /\ types[i] = x.of
          BY <1>3, <3>1, <3>5, <3>6, <3>7
        <4> HIDE DEF x
        <4> QED
          BY <4>1 DEF HonestTerm
      <3>9. Len(types) = Len(Parcels[path][name].typeParams)
        BY <3>1, <3>4, <3>5 DEF info
      <3>10. HonestType(MkType(path, name, types, NoMember))
        BY <3>5, <3>8, <3>9, MadeIsHonest
      <3>11. HonestType(new)
        BY <3>4, <3>10
      <3> HIDE DEF new
      <3>12. t = Term("concrete", new)
        BY <2>2, Zenon DEF Made, new, types, g, m
      <3>13. t.is = "concrete" /\ t.of = new
        BY <3>12, TermIsFresh
      <3> HIDE DEF t
      <3> QED
        BY <3>11, <3>13 DEF HonestTerm
    <2> QED
      BY <2>1, <2>2
  <1>7. IsSeq(low) /\ HonestStack(low)
    BY <1>2, <1>5, FrontHonest
  <1> HIDE DEF t, low
  <1>8. HonestStack(Append(low, t))
    BY <1>6, <1>7, PushHonest
  <1> QED
    BY <1>1, <1>8 DEF t, low

LEMMA OperandHonest ==
  ASSUME NEW text, ReadIn(text, "rootId"), NEW part \in Operands, NEW env \in Envs,
         IsSeq(Stk(text, env)), HonestStack(Stk(text, env))
  PROVE  HonestStack(Stk(text \o part, env))
  <1> DEFINE stk == Stk(text, env)
             id == part[1]
             name == part[3]
  <1>1. IsId(id)
    BY ReadsOperand
  <1>2. PICK t : HonestTerm(t) /\ \A s : root(s, id, env) = Append(s, t)
    <2>1. env \in Sessions(KnownTypes)
      BY Zenon DEF Envs
    <2> QED
      BY <1>1, <2>1, KnownTypesAssumption, RootHonest
  <1>3. \/ /\ Len(part) = 1 /\ Stk(text \o part, env) = root(stk, id, env)
        \/ /\ Len(part) = 3 /\ IsName(name)
           /\ Stk(text \o part, env) = typeInParcel(root(stk, id, env), name)
    BY ReadsOperand
  <1> DEFINE new == Append(stk, t)
  <1>4. root(stk, id, env) = new
    BY <1>2
  <1>5. IsSeq(stk) /\ HonestStack(stk)
    OBVIOUS
  <1> HIDE DEF stk
  <1>6. /\ HonestStack(new) /\ IsSeq(new) /\ Len(new) > 0 /\ Last(new) = t
    <2>1. IsSeq(new) /\ Len(new) = Len(stk) + 1 /\ Last(new) = t /\ Len(stk) \in Nat
      BY <1>5, SeqLength, AppendIs
    <2>2. HonestStack(new)
      BY <1>2, <1>5, PushHonest
    <2> HIDE DEF new
    <2> QED
      BY <2>1, <2>2
  <1> HIDE DEF new, id, name
  <1>7. CASE Len(part) = 3
    <2>1. IsName(name) /\ Stk(text \o part, env) = typeInParcel(new, name)
      BY <1>3, <1>4, <1>7
    <2>2. PICK v : HonestTerm(v) /\ typeInParcel(new, name) = transact(new, 1, v)
      BY <1>2, <1>6, <2>1, SuffixHonest
    <2>3. HonestStack(transact(new, 1, v))
      BY <1>6, <2>2, TopHonest
    <2> QED
      BY <2>1, <2>2, <2>3
  <1> QED
    BY <1>3, <1>4, <1>6, <1>7

HonestInv == \A env \in Envs : HonestStack(Stk(spec, env))

\* The terms on the stack are honest.
LEMMA HonestStay == SpecifierSpec => []HonestInv
  <1>1. SpecifierInit => HonestInv
    <2>1. \A env : Stk(<<>>, env) = <<>>
      BY ReadNothing
    <2>2. HonestStack(<<>>)
      BY EmptyIsSeq DEF HonestStack
    <2> QED
      BY <2>1, <2>2 DEF SpecifierInit, HonestInv
  <1>2. ASSUME StackInv, HonestInv, [SpecifierNext]_specVars
        PROVE  HonestInv'
    <2>0. HonestInv' <=> \A env \in Envs : HonestStack(Stk(spec', env))
      BY DEF HonestInv
    <2>1. spec # <<>> => \E mode : ReadIn(spec, mode)
      BY <1>2 DEF StackInv
    <2>2. \A env \in Envs : HonestStack(Stk(spec, env))
      BY <1>2 DEF HonestInv
    <2>3. spec # <<>> => \A env : Ready(Stk(spec, env), open)
      BY <1>2 DEF StackInv
    <2>4. open \in Nat /\ spec \in Seq(Int) /\ (spec = <<>> => open = 0)
      BY <1>2 DEF StackInv
    <2>5. CASE UNCHANGED specVars
      <3>1. spec' = spec
        BY <2>5 DEF specVars
      <3> QED
        BY <2>0, <2>2, <3>1
    <2>6. ASSUME NEW part \in Operands, Operand(part)
          PROVE  HonestInv'
      <3> DEFINE nil == <<>>
      <3>1. ReadIn(nil, "rootId") /\ \A env : Stk(nil, env) = nil
        BY ReadNothing
      <3>2. nil \o part = part
        BY PartsAssumption
      <3>3. IsSeq(nil) /\ HonestStack(nil)
        BY EmptyIsSeq DEF HonestStack
      <3> HIDE DEF nil
      <3>4. \A env \in Envs : HonestStack(Stk(nil \o part, env))
        BY <3>1, <3>3, OperandHonest
      <3>5. spec' = part
        BY <2>6 DEF Operand
      <3> QED
        BY <2>0, <3>2, <3>4, <3>5
    <2>7. ASSUME NEW part \in Operands, OpenBracket(part)
          PROVE  HonestInv'
      <3>1. PICK mode : ReadIn(spec, mode)
        BY <2>1, <2>7 DEF OpenBracket
      <3> DEFINE text == Append(spec, OpenArgs)
      <3>2. ReadIn(text, "rootId") /\ \A env : Stk(text, env) = beginArgs(Stk(spec, env))
        BY <3>1, ReadsBracket
      <3>3. spec \o <<OpenArgs>> \o part = text \o part
        <4>1. OpenArgs \in Int /\ part \in Seq(Int)
          BY PartsAssumption DEF OpenArgs
        <4> QED
          BY <2>4, <4>1, MarkThenPart DEF text
      <3> HIDE DEF text
      <3>4. ASSUME NEW env \in Envs
            PROVE  HonestStack(Stk(text \o part, env))
        <4> DEFINE stk == Stk(spec, env)
        <4>1. Ready(stk, open) /\ HonestStack(stk)
          BY <2>2, <2>3, <2>7 DEF OpenBracket
        <4> HIDE DEF stk
        <4>2. HonestStack(beginArgs(stk)) /\ IsSeq(beginArgs(stk))
          BY <4>1, OpenHonest, OpenMarks DEF Marks
        <4>3. Stk(text, env) = beginArgs(stk)
          BY <3>2 DEF stk
        <4> QED
          BY <3>2, <4>2, <4>3, OperandHonest
      <3>5. spec' = text \o part
        BY <2>7, <3>3 DEF OpenBracket
      <3> QED
        BY <2>0, <3>4, <3>5
    <2>8. ASSUME NEW part \in Operands, NextArg(part)
          PROVE  HonestInv'
      <3>0. spec # <<>>
        BY <2>4, <2>8 DEF NextArg
      <3>1. PICK mode : ReadIn(spec, mode)
        BY <2>1, <3>0
      <3> DEFINE text == Append(spec, Comma)
      <3>2. ReadIn(text, "rootId") /\ \A env : Stk(text, env) = Stk(spec, env)
        BY <3>1, ReadsBracket
      <3>3. spec \o <<Comma>> \o part = text \o part
        <4>1. Comma \in Int /\ part \in Seq(Int)
          BY PartsAssumption DEF Comma
        <4> QED
          BY <2>4, <4>1, MarkThenPart DEF text
      <3> HIDE DEF text
      <3>4. ASSUME NEW env \in Envs
            PROVE  HonestStack(Stk(text \o part, env))
        <4>1. IsSeq(Stk(text, env)) /\ HonestStack(Stk(text, env))
          BY <2>2, <2>3, <3>0, <3>2 DEF Ready, Marks
        <4> QED
          BY <3>2, <4>1, OperandHonest
      <3>5. spec' = text \o part
        BY <2>8, <3>3 DEF NextArg
      <3> QED
        BY <2>0, <3>4, <3>5
    <2>9. ASSUME CloseBracket
          PROVE  HonestInv'
      <3>0. spec # <<>> /\ open > 0
        BY <2>4, <2>9 DEF CloseBracket
      <3>1. PICK mode : ReadIn(spec, mode)
        BY <2>1, <3>0
      <3> DEFINE text == Append(spec, CloseArgs)
      <3>2. \A env : Stk(text, env) = endArgs(Stk(spec, env))
        BY <3>1, ReadsBracket
      <3> HIDE DEF text
      <3>3. ASSUME NEW env \in Envs
            PROVE  HonestStack(Stk(text, env))
        <4> DEFINE stk == Stk(spec, env)
        <4>1. Ready(stk, open) /\ HonestStack(stk)
          BY <2>2, <2>3, <3>0
        <4> HIDE DEF stk
        <4>2. HonestStack(endArgs(stk))
          BY <2>4, <3>0, <4>1, CloseHonest
        <4> QED
          BY <3>2, <4>2 DEF stk
      <3>4. spec' = text
        BY <2>9 DEF CloseBracket, text
      <3> QED
        BY <2>0, <3>3, <3>4
    <2>10. ASSUME NEW part \in Continuations, Suffix(part)
           PROVE  HonestInv'
      <3>1. PICK mode : ReadIn(spec, mode)
        BY <2>1, <2>10 DEF Suffix
      <3> DEFINE id == part[2]
                 text == spec \o part
      <3>2. /\ part[1] \in {Slash, Colon, DblColon} /\ IsName(id) /\ part = <<part[1], id>>
        BY PartsAssumption
      <3> HIDE DEF id
      <3>3. /\ \A env : Stk(spec \o <<Slash, id>>, env) = subdir(Stk(spec, env), id)
            /\ \A env : Stk(spec \o <<Colon, id>>, env) = typeInParcel(Stk(spec, env), id)
            /\ \A env : Stk(spec \o <<DblColon, id>>, env) = member(Stk(spec, env), id)
        BY <3>1, <3>2, ReadsSuffix
      <3>4. ASSUME NEW env \in Envs
            PROVE  HonestStack(Stk(text, env))
        <4> DEFINE stk == Stk(spec, env)
        <4>1. Ready(stk, open) /\ HonestStack(stk)
          BY <2>2, <2>3, <2>10 DEF Suffix
        <4>2. \/ Stk(text, env) = subdir(stk, id)
              \/ Stk(text, env) = typeInParcel(stk, id)
              \/ Stk(text, env) = member(stk, id)
          BY <3>2, <3>3
        <4> HIDE DEF stk, text
        <4>3. IsSeq(stk) /\ Len(stk) > 0 /\ Len(stk) \in Nat /\ Len(stk) \in 1..Len(stk)
          <5>1. IsSeq(stk) /\ Len(stk) > 0
            BY <4>1 DEF Ready, Marks
          <5>2. Len(stk) \in Nat
            BY <5>1, SeqLength
          <5> QED
            BY <5>1, <5>2
        <4>4. HonestTerm(Last(stk))
          BY <4>1, <4>3 DEF HonestStack, Last
        <4>5. \E t : HonestTerm(t) /\ Stk(text, env) = transact(stk, 1, t)
          BY <3>2, <4>2, <4>4, SuffixHonest
        <4> QED
          BY <4>1, <4>3, <4>5, TopHonest
      <3>5. spec' = text
        BY <2>10 DEF Suffix
      <3> QED
        BY <2>0, <3>4, <3>5
    <2> QED
      BY <1>2, <2>5, <2>6, <2>7, <2>8, <2>9, <2>10 DEF SpecifierNext
  <1> QED
    BY <1>1, <1>2, StacksStay, PTL DEF SpecifierSpec

(***************************************************************************)
(* What is keyed by the fullname of a type is found again: the fullname is *)
(* in normal form, and names the type and no other, without a session.     *)
(***************************************************************************)
THEOREM FullnameTheorem == SpecifierSpec => []FullnamesLoadThemselves
  <1>1. StackInv /\ HonestInv => FullnamesLoadThemselves
    <2> SUFFICES ASSUME StackInv, HonestInv, Written, NEW env \in Envs, Load(spec, env) # NoType
                 PROVE  /\ Load(Load(spec, env).fullname, NoEnv) = Load(spec, env)
                        /\ Solve(Load(spec, env).fullname, Nothing, NoRedirects)
                                = Load(spec, env).fullname
      BY Zenon DEF FullnamesLoadThemselves
    <2> DEFINE stk == Stk(spec, env)
               type == Load(spec, env)
               top == Last(stk)
               full == type.fullname
    <2>1. PICK mode : ReadIn(spec, mode)
      BY DEF StackInv, Written
    <2>2. Eval(spec, env) = stk
      BY <2>1, ReadersAre
    <2>4. HonestStack(stk) /\ Ready(stk, open)
      BY DEF StackInv, HonestInv, Written
    <2>3. type = IF top.is = "concrete" THEN top.of ELSE NoType
      <3> HIDE DEF stk
      <3>1. IsSeq(stk) /\ Len(stk) > 0
        BY <2>4 DEF Ready, Marks
      <3> QED
        BY <2>2, <3>1, LoadIs
    <2>5. type # NoType
      OBVIOUS
    <2> HIDE DEF stk, type
    <2>6. HonestTerm(top)
      <3>1. IsSeq(stk) /\ Len(stk) > 0
        BY <2>4 DEF Ready, Marks
      <3>2. Len(stk) \in Nat
        BY <3>1, SeqLength
      <3>3. Len(stk) \in 1..Len(stk)
        BY <3>1, <3>2
      <3> QED
        BY <2>4, <3>3 DEF HonestStack, Last
    <2>7. HonestType(type)
      <3>1. top.is = "concrete" /\ type = top.of
        BY <2>3, <2>5
      <3> HIDE DEF top
      <3> QED
        BY <2>6, <3>1 DEF HonestTerm
    <2> DEFINE t == Term("concrete", type)
    <2>8. Reads(full, t)
      BY <2>7 DEF HonestType
    <2>9. t.is = "concrete" /\ t.of = type
      BY TermIsFresh
    <2> HIDE DEF t, full
    <2> DEFINE nil == <<>>
    <2>10. /\ ReadIn(nil, "rootId") /\ Stk(nil, NoEnv) = nil /\ Sol(nil) = Scopes
           /\ Takes(nil) /\ SolIs(Scopes, 1, "none", nil) /\ IsSeq(nil) /\ Len(nil) = 0
      BY ReadNothing, EmptyMarks, EmptyIsSeq, StartIs DEF Takes
    <2>11. nil \o full = full
      BY <2>8 DEF Reads
    <2> HIDE DEF nil
    <2>12. /\ \E m : ReadIn(nil \o full, m)
           /\ Stk(nil \o full, NoEnv) = Append(nil, t)
           /\ SolIs(Sol(nil \o full), 1, Latest(t), nil \o full)
      BY <2>8, <2>10 DEF Reads
    <2>13. PICK m : ReadIn(full, m)
      BY <2>11, <2>12
    <2>14. Solve(full, Nothing, NoRedirects) = full
      BY <2>11, <2>12, <2>13, NormalText
    <2>15. Load(full, NoEnv) = type
      <3>1. Eval(full, NoEnv) = Append(nil, t)
        BY <2>11, <2>12, <2>13, ReadersAre
      <3>2. Last(Append(nil, t)) = t
        BY <2>10, AppendIs
      <3>3. IsSeq(Append(nil, t)) /\ Len(Append(nil, t)) > 0
        <4>1. IsSeq(Append(nil, t)) /\ Len(Append(nil, t)) = Len(nil) + 1
          BY <2>10, AppendIs
        <4> QED
          BY <2>10, <4>1
      <3>4. Load(full, NoEnv) = IF t.is = "concrete" THEN t.of ELSE NoType
        <4>1. IsSeq(Eval(full, NoEnv)) /\ Len(Eval(full, NoEnv)) > 0
          BY <3>1, <3>3
        <4>2. Load(full, NoEnv) = LET last == Last(Eval(full, NoEnv))
                                  IN  IF last.is = "concrete" THEN last.of ELSE NoType
          BY <4>1, LoadIs
        <4> QED
          BY <3>1, <3>2, <4>2
      <3> QED
        BY <2>9, <3>4
    <2> QED
      BY <2>14, <2>15 DEF full, type
  <1> QED
    BY <1>1, StacksStay, HonestStay, PTL

--------------------------------------------------------------------------------
(* Arg packs: each arg is read by the param it was given for, and each param that *)
(* was not named reads a dummy of its own.                                        *)

\* The place of a number in a finite set of numbers: what _genDummyBinds counts.
Before(U, p) == {q \in U : q < p}
Rank(U, p) == Cardinality(Before(U, p))

LEMMA RankIsAPlace ==
    ASSUME NEW U \in SUBSET Nat, IsFiniteSet(U), NEW p \in U
    PROVE  /\ Rank(U, p) \in Nat
           /\ Cardinality(U) \in Nat
           /\ Rank(U, p) < Cardinality(U)
  <1>1. Before(U, p) \in SUBSET U  BY DEF Before
  <1>2. /\ IsFiniteSet(Before(U, p))
        /\ Cardinality(Before(U, p)) <= Cardinality(U)
        /\ Cardinality(U) = Cardinality(Before(U, p)) => U = Before(U, p)
    BY <1>1, FS_Subset
  <1>3. Cardinality(Before(U, p)) \in Nat /\ Cardinality(U) \in Nat
    BY <1>2, FS_CardinalityType
  <1>4. p \notin Before(U, p)  BY DEF Before
  <1> QED  BY <1>2, <1>3, <1>4 DEF Rank

LEMMA RanksGrow ==
    ASSUME NEW U \in SUBSET Nat, IsFiniteSet(U), NEW p \in U, NEW q \in U, p < q
    PROVE  Rank(U, p) < Rank(U, q)
  <1> DEFINE B == Before(U, q)
  <1>1. B \in SUBSET Nat /\ B \in SUBSET U  BY DEF Before
  <1>2. IsFiniteSet(B)  BY <1>1, FS_Subset
  <1>3. p \in B  BY DEF Before
  <1>4. Before(B, p) = Before(U, p)
    <2>1. p \in Nat /\ q \in Nat /\ \A u \in U : u \in Nat  OBVIOUS
    <2>2. \A u \in U : u < p => u < q  BY <2>1
    <2> QED  BY <2>2 DEF Before
  <1>5. Rank(B, p) < Cardinality(B)
    <2> HIDE DEF B
    <2> QED  BY <1>1, <1>2, <1>3, RankIsAPlace
  <1> QED  BY <1>4, <1>5 DEF Rank

\* No two have the same place.
LEMMA RanksDiffer ==
    ASSUME NEW U \in SUBSET Nat, IsFiniteSet(U), NEW p \in U, NEW q \in U,
           Rank(U, p) = Rank(U, q)
    PROVE  p = q
  <1>1. p \in Nat /\ q \in Nat /\ Rank(U, p) \in Nat /\ Rank(U, q) \in Nat
    BY RankIsAPlace
  <1>2. ~ (p < q) /\ ~ (q < p)  BY <1>1, RanksGrow
  <1> QED  BY <1>1, <1>2

----------------------------------------------------------------------------
\* The inductive invariant.

PackTypeOK ==
    /\ positional \in 0 .. MaxPositional
    /\ named \in Nat
    /\ dummies \in Nat
    /\ positional + named + dummies <= MaxPositional + MaxNamed
    /\ stage \in {"naming", "done", "forwarded", "refused"}
    /\ binding \in [NamedParams -> Nat]
    /\ window \in Seq({"arg", "dummy"})
    /\ names \in Seq(NamedParams)

Naming == stage \in {"naming", "refused"}

\* The window holds the args, and the dummies once they are pushed.
WindowInv ==
    /\ Len(window) = IF Naming THEN specifiedArgs ELSE paramCount
    /\ \A i \in 1 .. Len(window) : window[i] = IF i <= specifiedArgs THEN "arg" ELSE "dummy"

\* The list says which arg is whose.
NamesInv ==
    /\ Len(names) = named
    /\ \A i \in 1 .. named : binding[names[i]] = positional + i - 1
    /\ \A p \in NamedParams : binding[p] < specifiedArgs =>
            \E i \in 1 .. named : names[i] = p

\* While naming, as many params are unbound as dummies will be pushed; after
\* that each object of the window has one param.
UnboundParams == {p \in NamedParams : binding[p] >= specifiedArgs}

BindingInv ==
    /\ \A p \in NamedParams : binding[p] >= positional
    /\ \A p, q \in NamedParams : binding[p] = binding[q] /\ binding[p] # Unbound => p = q
    /\ Naming =>
        /\ \A p \in NamedParams : binding[p] < specifiedArgs \/ binding[p] = Unbound
        /\ Cardinality(UnboundParams) = dummies
    /\ ~ Naming => \A p \in NamedParams : binding[p] < paramCount

PackInv == PackTypeOK /\ WindowInv /\ NamesInv /\ BindingInv

----------------------------------------------------------------------------
\* The params that _genDummyBinds binds, and what it binds them to.
ToBind(binds, new, specified) ==
    {q \in new : q \in DOMAIN binds => binds[q] >= specified}

\* Each param of U has a dummy of its own in R, and the others what they had.
OwnDummies(R, binds, U, first, count) ==
    /\ \A p \in U : R[p] \in Nat /\ R[p] >= first /\ R[p] < first + count
    /\ \A p, q \in U : R[p] = R[q] => p = q
    /\ \A p \in DOMAIN binds : p \notin U => R[p] = binds[p]

LEMMA EachGetsADummy ==
    ASSUME NEW binds, NEW new \in SUBSET Nat, IsFiniteSet(new),
           NEW bound \in Nat, NEW specified \in Nat
    PROVE  /\ DOMAIN _genDummyBinds(binds, new, bound, specified) = DOMAIN binds \cup new
           /\ OwnDummies(_genDummyBinds(binds, new, bound, specified), binds,
                         ToBind(binds, new, specified), specified + bound,
                         Cardinality(ToBind(binds, new, specified)))
  <1> DEFINE U == ToBind(binds, new, specified)
             R == _genDummyBinds(binds, new, bound, specified)
  <1>1. U \in SUBSET new /\ U \in SUBSET Nat  BY DEF ToBind
  <1>2. IsFiniteSet(U)  BY <1>1, FS_Subset
  <1>3. DOMAIN R = DOMAIN binds \cup new  BY DEF _genDummyBinds
  <1>4. \A p \in U : R[p] = specified + bound + Rank(U, p)
    <2> SUFFICES ASSUME NEW p \in U PROVE R[p] = specified + bound + Rank(U, p)
      OBVIOUS
    <2>1. Before(U, p)
            = {q \in new : q < p /\ (q \in DOMAIN binds => binds[q] >= specified)}
      BY DEF Before, ToBind
    <2>2. p \in new /\ (p \in DOMAIN binds => binds[p] >= specified)  BY DEF ToBind
    <2> QED  BY <2>1, <2>2 DEF _genDummyBinds, Rank
  <1>5. \A p \in DOMAIN binds : p \notin U => R[p] = binds[p]
    BY DEF _genDummyBinds, ToBind
  <1>6. \A p \in U : /\ Rank(U, p) \in Nat /\ Cardinality(U) \in Nat
                     /\ Rank(U, p) < Cardinality(U)
    <2> HIDE DEF U
    <2> QED  BY <1>1, <1>2, RankIsAPlace
  <1>7. \A p, q \in U : Rank(U, p) = Rank(U, q) => p = q
    <2> HIDE DEF U
    <2> QED  BY <1>1, <1>2, RanksDiffer
  <1> HIDE DEF U, R
  <1>8. \A p \in U : /\ R[p] \in Nat /\ R[p] >= specified + bound
                     /\ R[p] < specified + bound + Cardinality(U)
    BY <1>4, <1>6
  <1>9. \A p, q \in U : R[p] = R[q] => p = q
    BY <1>4, <1>6, <1>7
  <1>10. OwnDummies(R, binds, U, specified + bound, Cardinality(U))
    BY <1>5, <1>8, <1>9 DEF OwnDummies
  <1> QED  BY <1>3, <1>10 DEF U, R

LEMMA Concatenated ==
    ASSUME NEW S, NEW s \in Seq(S), NEW t \in Seq(S)
    PROVE  /\ Len(s \o t) = Len(s) + Len(t)
           /\ \A i \in 1 .. Len(s) + Len(t) :
                (s \o t)[i] = IF i <= Len(s) THEN s[i] ELSE t[i - Len(s)]
OBVIOUS

----------------------------------------------------------------------------
LEMMA InvIsEnough == PackInv => ArgsReachTheirParams
  <1> SUFFICES ASSUME PackInv PROVE ArgsReachTheirParams
    OBVIOUS
  <1> USE WidthAssumption DEF PackInv, specifiedArgs, paramCount
  <1>1. /\ positional \in Nat /\ named \in Nat /\ dummies \in Nat
        /\ positional + named + dummies <= Unbound
        /\ \A p \in NamedParams : binding[p] \in Nat /\ p \in Nat /\ p >= positional
        /\ \A i \in 1 .. named : names[i] \in NamedParams
    <2>1. /\ positional \in Nat /\ named \in Nat /\ dummies \in Nat
          /\ positional + named + dummies <= Unbound
      BY DEF PackTypeOK
    <2>2. \A p \in NamedParams : binding[p] \in Nat /\ p \in Nat /\ p >= positional
      BY <2>1 DEF PackTypeOK, NamedParams
    <2>3. names \in Seq(NamedParams) /\ Len(names) = named
      BY DEF PackTypeOK, NamesInv
    <2> QED  BY <2>1, <2>2, <2>3
  <1>2. ParamsReadApart
    <2>1. ASSUME NEW p \in NamedParams, binding[p] # Unbound
          PROVE  binding[p] >= positional /\ binding[p] < Len(window)
      BY <1>1, <2>1 DEF BindingInv, WindowInv
    <2> QED  BY <2>1 DEF ParamsReadApart, BindingInv
  <1>3. \A i \in 1 .. Len(names) : binding[names[i]] = positional + i - 1
    BY DEF NamesInv
  <1>4. ASSUME stage \in {"done", "forwarded"}, NEW p \in Params
        PROVE  /\ isSpecified(p) <=> (p < positional \/ \E i \in 1 .. Len(names) : names[i] = p)
               /\ window[_argOffset(p) + 1] = IF isSpecified(p) THEN "arg" ELSE "dummy"
    <2>1. ~ Naming /\ Len(window) = paramCount
      BY <1>4 DEF Naming, WindowInv
    <2>2. p \in Nat /\ p < paramCount  BY <1>1 DEF Params
    <2>3. CASE p < positional
      <3>1. _argOffset(p) = p /\ isSpecified(p)  BY <1>1, <2>2, <2>3 DEF _argOffset, isSpecified
      <3>2. p + 1 \in 1 .. Len(window) /\ p + 1 <= specifiedArgs  BY <1>1, <2>1, <2>2, <2>3
      <3> QED  BY <2>3, <3>1, <3>2 DEF WindowInv
    <2>4. CASE ~ (p < positional)
      <3>1. p \in NamedParams  BY <1>1, <2>2, <2>4 DEF NamedParams
      <3>2. _argOffset(p) = binding[p]  BY <2>4 DEF _argOffset
      <3>3. binding[p] \in Nat /\ binding[p] < paramCount
        BY <1>1, <2>1, <3>1 DEF BindingInv
      <3>4. isSpecified(p) <=> \E i \in 1 .. Len(names) : names[i] = p
        <4>1. isSpecified(p) <=> binding[p] < specifiedArgs  BY <3>2 DEF isSpecified
        <4>2. Len(names) = named  BY DEF NamesInv
        <4>3. ASSUME NEW i \in 1 .. named, names[i] = p PROVE binding[p] < specifiedArgs
          BY <1>1, <4>3 DEF NamesInv
        <4> QED  BY <3>1, <4>1, <4>2, <4>3 DEF NamesInv
      <3>5. binding[p] + 1 \in 1 .. Len(window)  BY <2>1, <3>3, <1>1
      <3>6. window[binding[p] + 1] = IF binding[p] + 1 <= specifiedArgs THEN "arg" ELSE "dummy"
        BY <3>5 DEF WindowInv
      <3>7. binding[p] + 1 <= specifiedArgs <=> binding[p] < specifiedArgs  BY <3>3, <1>1
      <3> QED  BY <2>4, <3>2, <3>4, <3>6, <3>7 DEF isSpecified
    <2> QED  BY <2>3, <2>4
  <1> QED  BY <1>2, <1>3, <1>4 DEF ArgsReachTheirParams

----------------------------------------------------------------------------
LEMMA PackInitHolds == PackInit => PackInv
  <1> SUFFICES ASSUME PackInit PROVE PackInv
    OBVIOUS
  <1> USE WidthAssumption DEF PackInit, specifiedArgs, paramCount, Naming
  <1>1. /\ positional \in Nat /\ dummies \in Nat /\ named = 0
        /\ positional + dummies <= Unbound
        /\ positional <= MaxPositional /\ dummies <= MaxNamed
    OBVIOUS
  <1>2. NamedParams = positional .. positional + dummies - 1
    BY <1>1 DEF NamedParams
  <1>3. \A p \in NamedParams : binding[p] = Unbound  BY <1>2
  <1>4. PackTypeOK
    BY <1>1, <1>2 DEF PackTypeOK
  <1>5. WindowInv  BY <1>1 DEF WindowInv
  <1>6. NamesInv
    BY <1>1, <1>3 DEF NamesInv
  <1>7. Cardinality(UnboundParams) = dummies
    <2>1. UnboundParams = positional .. positional + dummies - 1
      BY <1>1, <1>2, <1>3 DEF UnboundParams
    <2>2. positional \in Int /\ positional + dummies - 1 \in Int  BY <1>1
    <2>3. Cardinality(positional .. positional + dummies - 1)
            = IF positional > positional + dummies - 1 THEN 0
              ELSE positional + dummies - 1 - positional + 1
      BY <2>2, FS_Interval
    <2> QED  BY <1>1, <2>1, <2>3
  <1>8. BindingInv  BY <1>1, <1>3, <1>7 DEF BindingInv
  <1> QED  BY <1>4, <1>5, <1>6, <1>8 DEF PackInv

----------------------------------------------------------------------------
LEMMA NamingKeeps ==
    ASSUME PackInv, NEW which \in NamedParams, specifyNextNamedArg(which)
    PROVE  PackInv'
  <1> USE WidthAssumption DEF specifiedArgs, paramCount
  <1>1. /\ positional \in Nat /\ named \in Nat /\ dummies \in Nat
        /\ positional + named + dummies <= Unbound
        /\ stage = "naming" /\ Naming
        /\ which \in Nat /\ which >= positional
        /\ positional' = positional
    BY DEF PackInv, PackTypeOK, specifyNextNamedArg, Naming, NamedParams
  <1>2. CASE isSpecified(which)
    <2>1. stage' = "refused" /\ UNCHANGED <<positional, named, dummies, binding, window, names>>
      BY <1>2 DEF specifyNextNamedArg
    <2>2. Naming' /\ NamedParams' = NamedParams /\ UnboundParams' = UnboundParams
      BY <2>1 DEF Naming, NamedParams, UnboundParams
    <2> QED
      BY <1>1, <2>1, <2>2 DEF PackInv, PackTypeOK, WindowInv, NamesInv, BindingInv
  <1>3. CASE ~ isSpecified(which)
    <2>1. /\ binding' = [binding EXCEPT ![which] = specifiedArgs]
          /\ named' = named + 1
          /\ dummies' = dummies - 1
          /\ window' = Append(window, "arg")
          /\ names' = Append(names, which)
          /\ stage' = stage
      BY <1>3 DEF specifyNextNamedArg
    <2>2. which \in UnboundParams /\ binding[which] = Unbound
      BY <1>1, <1>3 DEF isSpecified, _argOffset, UnboundParams, PackInv, PackTypeOK, BindingInv
    <2>3. IsFiniteSet(NamedParams)
      BY <1>1, FS_Interval DEF NamedParams
    <2>4. UnboundParams \in SUBSET NamedParams  BY DEF UnboundParams
    <2>5. IsFiniteSet(UnboundParams)  BY <2>3, <2>4, FS_Subset
    <2>6. /\ Cardinality(UnboundParams \ {which}) = dummies - 1
          /\ dummies > 0
      <3>1. Cardinality(UnboundParams) = dummies  BY <1>1 DEF PackInv, BindingInv
      <3>2. Cardinality(UnboundParams \ {which}) = Cardinality(UnboundParams) - 1
        BY <2>2, <2>5, FS_RemoveElement
      <3>3. Cardinality(UnboundParams) # 0  BY <2>2, <2>5, FS_EmptySet
      <3> QED  BY <1>1, <3>1, <3>2, <3>3
    <2>7. NamedParams' = NamedParams  BY <1>1, <2>1, <2>6 DEF NamedParams
    <2>8. PackTypeOK'
      <3>1. binding' \in [NamedParams -> Nat]  BY <1>1, <2>1 DEF PackInv, PackTypeOK
      <3>2. window' \in Seq({"arg", "dummy"}) /\ names' \in Seq(NamedParams)
        BY <2>1 DEF PackInv, PackTypeOK
      <3> QED  BY <1>1, <2>1, <2>6, <2>7, <3>1, <3>2 DEF PackInv, PackTypeOK
    <2>9. \A p \in NamedParams : binding'[p] = IF p = which THEN specifiedArgs ELSE binding[p]
      BY <2>1 DEF PackInv, PackTypeOK
    <2>10. WindowInv'
      <3>1. Len(window) = specifiedArgs /\ window \in Seq({"arg", "dummy"})
        BY <1>1 DEF PackInv, PackTypeOK, WindowInv
      <3>2. /\ Len(window') = Len(window) + 1
            /\ \A i \in 1 .. Len(window) : window'[i] = window[i]
            /\ window'[Len(window) + 1] = "arg"
        BY <2>1, <3>1
      <3>3. \A i \in 1 .. Len(window) : window[i] = "arg"
        BY <1>1, <3>1 DEF PackInv, WindowInv
      <3>4. \A i \in 1 .. Len(window') : window'[i] = "arg" /\ i <= specifiedArgs + 1
        BY <1>1, <3>1, <3>2, <3>3
      <3>5. specifiedArgs' = specifiedArgs + 1  BY <1>1, <2>1
      <3>6. Naming'  BY <1>1, <2>1 DEF Naming
      <3>7. specifiedArgs \in Nat  BY <1>1
      <3> HIDE DEF specifiedArgs
      <3> QED  BY <3>1, <3>2, <3>4, <3>5, <3>6, <3>7 DEF WindowInv
    <2>11. NamesInv'
      <3>1. /\ names \in Seq(NamedParams) /\ Len(names) = named
            /\ Len(names') = named + 1
            /\ \A i \in 1 .. named : names'[i] = names[i] /\ names[i] \in NamedParams
            /\ names'[named + 1] = which
        BY <1>1, <2>1 DEF PackInv, PackTypeOK, NamesInv
      <3>2. \A i \in 1 .. named : binding[names[i]] = positional + i - 1 /\ names[i] # which
        BY <1>1, <2>2, <3>1 DEF PackInv, NamesInv
      <3>3. ASSUME NEW i \in 1 .. named + 1
            PROVE  binding'[names'[i]] = positional + i - 1
        <4>1. CASE i \in 1 .. named  BY <2>9, <3>1, <3>2, <4>1
        <4>2. CASE i = named + 1
          <5>1. binding'[names'[i]] = positional + named  BY <2>9, <3>1, <4>2
          <5> QED  BY <1>1, <4>2, <5>1
        <4> QED  BY <1>1, <4>1, <4>2
      <3>4. ASSUME NEW p \in NamedParams, binding'[p] < specifiedArgs + 1
            PROVE  \E i \in 1 .. named + 1 : names'[i] = p
        <4>1. CASE p = which
          BY <1>1, <3>1, <4>1
        <4>2. CASE p # which
          <5>1. binding[p] < specifiedArgs + 1 /\ binding[p] \in Nat
            BY <2>9, <3>4, <4>2 DEF PackInv, PackTypeOK
          <5>2. binding[p] < specifiedArgs
            BY <1>1, <2>6, <5>1 DEF PackInv, BindingInv
          <5>3. PICK i \in 1 .. named : names[i] = p  BY <5>2 DEF PackInv, NamesInv
          <5> QED  BY <1>1, <3>1, <5>3
        <4> QED  BY <4>1, <4>2
      <3> QED  BY <1>1, <2>1, <2>7, <3>1, <3>3, <3>4 DEF NamesInv
    <2>12. BindingInv'
      <3>1. \A p \in NamedParams : binding'[p] >= positional
        BY <1>1, <2>9 DEF PackInv, BindingInv
      <3>2. \A p \in NamedParams : p # which =>
                binding[p] \in Nat /\ binding[p] # specifiedArgs
        BY <1>1, <2>6 DEF PackInv, PackTypeOK, BindingInv
      <3>3. \A p, q \in NamedParams :
                binding'[p] = binding'[q] /\ binding'[p] # Unbound => p = q
        BY <2>9, <3>2 DEF PackInv, BindingInv
      <3>4. \A p \in NamedParams : binding'[p] < specifiedArgs + 1 \/ binding'[p] = Unbound
        BY <1>1, <2>9, <3>2 DEF PackInv, BindingInv
      <3>5. UnboundParams' = UnboundParams \ {which}
        <4>1. ASSUME NEW p \in NamedParams
              PROVE  binding'[p] >= specifiedArgs + 1 <=> binding[p] >= specifiedArgs /\ p # which
          BY <1>1, <2>6, <2>9, <3>2 DEF PackInv, BindingInv
        <4>2. specifiedArgs' = specifiedArgs + 1  BY <1>1, <2>1
        <4> QED  BY <2>7, <4>1, <4>2 DEF UnboundParams
      <3>6. Naming'  BY <1>1, <2>1 DEF Naming
      <3>7. specifiedArgs' = specifiedArgs + 1  BY <1>1, <2>1
      <3> QED  BY <1>1, <2>1, <2>6, <2>7, <3>1, <3>3, <3>4, <3>5, <3>6, <3>7 DEF BindingInv
    <2> QED  BY <2>8, <2>10, <2>11, <2>12 DEF PackInv
  <1> QED  BY <1>2, <1>3

LEMMA DoneKeeps ==
    ASSUME PackInv, done
    PROVE  PackInv'
  <1> USE WidthAssumption DEF specifiedArgs, paramCount
  <1> DEFINE R == _genDummyBinds(binding, NamedParams, 0, specifiedArgs)
  <1>1. /\ positional \in Nat /\ named \in Nat /\ dummies \in Nat
        /\ positional + named + dummies <= Unbound
        /\ stage = "naming" /\ Naming
        /\ UNCHANGED <<positional, named, dummies, names>>
        /\ binding' = R
        /\ stage' = "done" /\ ~ Naming'
        /\ window' = window \o [i \in 1 .. dummies |-> "dummy"]
        /\ binding \in [NamedParams -> Nat] /\ DOMAIN binding = NamedParams
    BY DEF PackInv, PackTypeOK, done, Naming
  <1>2. NamedParams' = NamedParams /\ NamedParams \in SUBSET Nat /\ IsFiniteSet(NamedParams)
    BY <1>1, FS_Interval DEF NamedParams
  <1>3. ToBind(binding, NamedParams, specifiedArgs) = UnboundParams
    BY <1>1 DEF ToBind, UnboundParams
  <1>4. Cardinality(UnboundParams) = dummies  BY <1>1 DEF PackInv, BindingInv
  <1>5. /\ DOMAIN R = NamedParams
        /\ \A p \in UnboundParams :
            R[p] \in Nat /\ R[p] >= specifiedArgs /\ R[p] < specifiedArgs + dummies
        /\ \A p, q \in UnboundParams : R[p] = R[q] => p = q
        /\ \A p \in NamedParams : p \notin UnboundParams => R[p] = binding[p]
    <2>1. specifiedArgs \in Nat /\ 0 \in Nat  BY <1>1
    <2> HIDE DEF specifiedArgs
    <2>2. /\ DOMAIN R = DOMAIN binding \cup NamedParams
          /\ \A p \in UnboundParams :
                /\ R[p] \in Nat /\ R[p] >= specifiedArgs + 0
                /\ R[p] < specifiedArgs + 0 + Cardinality(UnboundParams)
          /\ \A p, q \in UnboundParams : R[p] = R[q] => p = q
          /\ \A p \in DOMAIN binding : p \notin UnboundParams => R[p] = binding[p]
      <3>1. OwnDummies(_genDummyBinds(binding, NamedParams, 0, specifiedArgs), binding,
                       ToBind(binding, NamedParams, specifiedArgs), specifiedArgs + 0,
                       Cardinality(ToBind(binding, NamedParams, specifiedArgs)))
        BY ONLY <1>2, <2>1, EachGetsADummy
      <3>2. OwnDummies(R, binding, UnboundParams, specifiedArgs + 0, Cardinality(UnboundParams))
        BY <1>3, <3>1
      <3>3. DOMAIN R = DOMAIN binding \cup NamedParams
        BY ONLY <1>2, <2>1, EachGetsADummy
      <3> HIDE DEF R
      <3> QED  BY <3>2, <3>3 DEF OwnDummies
    <2> HIDE DEF R
    <2> QED  BY <1>1, <1>4, <2>1, <2>2
  <1> HIDE DEF R
  <1>6. \A p \in NamedParams : p \notin UnboundParams =>
            binding[p] \in Nat /\ binding[p] < specifiedArgs
    BY <1>1 DEF UnboundParams
  <1>7. PackTypeOK'
    <2>1. R \in [NamedParams -> Nat]
      <3>1. \A p \in NamedParams : R[p] \in Nat  BY <1>5, <1>6
      <3>2. R = [p \in NamedParams |-> R[p]]  BY <1>5 DEF R, _genDummyBinds
      <3> QED  BY <3>1, <3>2
    <2>2. window' \in Seq({"arg", "dummy"})
      BY <1>1 DEF PackInv, PackTypeOK
    <2> QED  BY <1>1, <1>2, <2>1, <2>2 DEF PackInv, PackTypeOK
  <1>8. WindowInv'
    <2>1. /\ window \in Seq({"arg", "dummy"}) /\ Len(window) = specifiedArgs
          /\ \A i \in 1 .. specifiedArgs : window[i] = "arg"
      BY <1>1 DEF PackInv, PackTypeOK, WindowInv
    <2>2. /\ Len(window') = specifiedArgs + dummies
          /\ \A i \in 1 .. specifiedArgs + dummies :
                window'[i] = IF i <= specifiedArgs THEN "arg" ELSE "dummy"
      BY <1>1, <2>1
    <2> QED  BY <1>1, <2>2 DEF WindowInv
  <1>9. NamesInv'
    <2>1. \A i \in 1 .. named :
            names[i] \in NamedParams /\ binding[names[i]] = positional + i - 1
      <3>1. names \in Seq(NamedParams) /\ Len(names) = named
        BY DEF PackInv, PackTypeOK, NamesInv
      <3> QED  BY <3>1 DEF PackInv, NamesInv
    <2>2. \A i \in 1 .. named : names[i] \notin UnboundParams
      BY <1>1, <2>1 DEF UnboundParams
    <2>3. \A p \in NamedParams : R[p] < specifiedArgs =>
            \E i \in 1 .. named : names[i] = p
      <3>1. \A p \in NamedParams : R[p] < specifiedArgs => p \notin UnboundParams
        BY <1>1, <1>5
      <3> QED  BY <1>5, <3>1 DEF PackInv, NamesInv
    <2> QED  BY <1>1, <1>2, <1>5, <2>1, <2>2, <2>3 DEF PackInv, NamesInv
  <1>10. BindingInv'
    <2>1. \A p \in NamedParams : R[p] >= positional /\ R[p] < paramCount
      BY <1>1, <1>5, <1>6 DEF PackInv, BindingInv
    <2>2. ASSUME NEW p \in NamedParams, NEW q \in NamedParams, R[p] = R[q]
          PROVE  p = q
      <3>1. p \in UnboundParams <=> q \in UnboundParams
        BY <1>1, <1>5, <1>6, <2>2
      <3>2. CASE p \in UnboundParams  BY <1>5, <2>2, <3>1, <3>2
      <3>3. CASE p \notin UnboundParams
        BY <1>1, <1>5, <1>6, <2>2, <3>1, <3>3 DEF PackInv, BindingInv
      <3> QED  BY <3>2, <3>3
    <2> QED  BY <1>1, <1>2, <2>1, <2>2 DEF BindingInv
  <1> QED  BY <1>7, <1>8, <1>9, <1>10 DEF PackInv

LEMMA ForwardingKeeps ==
    ASSUME PackInv, NEW n \in 1 .. MaxNamed, addDummies(n)
    PROVE  PackInv'
  <1> USE WidthAssumption DEF specifiedArgs, paramCount
  <1> DEFINE new == paramCount .. paramCount + n - 1
             R == _genDummyBinds(binding, new, dummies, specifiedArgs)
  <1>1. /\ positional \in Nat /\ named \in Nat /\ dummies \in Nat /\ n \in Nat /\ n > 0
        /\ positional + named + dummies + n <= MaxPositional + MaxNamed
        /\ ~ Naming
        /\ UNCHANGED <<positional, named, names>>
        /\ binding' = R
        /\ dummies' = dummies + n
        /\ stage' = "forwarded" /\ ~ Naming'
        /\ window' = window \o [i \in 1 .. n |-> "dummy"]
        /\ binding \in [NamedParams -> Nat] /\ DOMAIN binding = NamedParams
    BY DEF PackInv, PackTypeOK, addDummies, Naming
  <1>2. /\ new \in SUBSET Nat /\ IsFiniteSet(new) /\ Cardinality(new) = n
        /\ NamedParams' = NamedParams \cup new /\ NamedParams \cap new = {}
    <2>1. paramCount \in Int /\ paramCount + n - 1 \in Int  BY <1>1
    <2>2. IsFiniteSet(new) /\ Cardinality(new) = paramCount + n - 1 - paramCount + 1
      BY <1>1, <2>1, FS_Interval
    <2>3. Cardinality(new) = n  BY <1>1, <2>2
    <2> QED  BY <1>1, <2>2, <2>3 DEF NamedParams
  <1> HIDE DEF new
  <1>3. ToBind(binding, new, specifiedArgs) = new
    BY <1>1, <1>2 DEF ToBind
  <1>4. /\ DOMAIN R = NamedParams \cup new
        /\ \A p \in new :
            R[p] \in Nat /\ R[p] >= specifiedArgs + dummies
            /\ R[p] < specifiedArgs + dummies + n
        /\ \A p, q \in new : R[p] = R[q] => p = q
        /\ \A p \in NamedParams : R[p] = binding[p]
    <2>1. specifiedArgs \in Nat  BY <1>1
    <2> HIDE DEF specifiedArgs
    <2>2. /\ DOMAIN R = DOMAIN binding \cup new
          /\ \A p \in new :
                /\ R[p] \in Nat /\ R[p] >= specifiedArgs + dummies
                /\ R[p] < specifiedArgs + dummies + Cardinality(new)
          /\ \A p, q \in new : R[p] = R[q] => p = q
          /\ \A p \in DOMAIN binding : p \notin new => R[p] = binding[p]
      <3>1. dummies \in Nat  BY <1>1
      <3>2. OwnDummies(_genDummyBinds(binding, new, dummies, specifiedArgs), binding,
                       ToBind(binding, new, specifiedArgs), specifiedArgs + dummies,
                       Cardinality(ToBind(binding, new, specifiedArgs)))
        BY ONLY <1>2, <2>1, <3>1, EachGetsADummy
      <3>3. OwnDummies(R, binding, new, specifiedArgs + dummies, Cardinality(new))
        BY <1>3, <3>2
      <3>4. DOMAIN R = DOMAIN binding \cup new
        BY ONLY <1>2, <2>1, <3>1, EachGetsADummy
      <3> HIDE DEF R
      <3> QED  BY <3>3, <3>4 DEF OwnDummies
    <2> HIDE DEF R
    <2> QED  BY <1>1, <1>2, <2>1, <2>2
  <1> HIDE DEF R
  <1>5. \A p \in NamedParams :
            binding[p] \in Nat /\ binding[p] >= positional
            /\ binding[p] < specifiedArgs + dummies
    BY <1>1 DEF PackInv, BindingInv
  <1>6. PackTypeOK'
    <2>1. R \in [NamedParams \cup new -> Nat]
      <3>1. \A p \in NamedParams \cup new : R[p] \in Nat  BY <1>4, <1>5
      <3>2. R = [p \in NamedParams \cup new |-> R[p]]
        BY <1>1, <1>4 DEF R, _genDummyBinds
      <3> QED  BY <3>1, <3>2
    <2>2. window' \in Seq({"arg", "dummy"})
      BY <1>1 DEF PackInv, PackTypeOK
    <2>3. names' \in Seq(NamedParams')
      BY <1>1, <1>2 DEF PackInv, PackTypeOK
    <2> QED  BY <1>1, <1>2, <2>1, <2>2, <2>3 DEF PackInv, PackTypeOK
  <1>7. WindowInv'
    <2>1. /\ window \in Seq({"arg", "dummy"}) /\ Len(window) = specifiedArgs + dummies
          /\ \A i \in 1 .. specifiedArgs + dummies :
                window[i] = IF i <= specifiedArgs THEN "arg" ELSE "dummy"
      BY <1>1 DEF PackInv, PackTypeOK, WindowInv
    <2>2. /\ Len(window') = specifiedArgs + dummies + n
          /\ \A i \in 1 .. specifiedArgs + dummies + n :
                window'[i] = IF i <= specifiedArgs THEN "arg" ELSE "dummy"
      <3> DEFINE w == [i \in 1 .. n |-> "dummy"]
      <3>1. w \in Seq({"arg", "dummy"}) /\ Len(w) = n /\ \A i \in 1 .. n : w[i] = "dummy"
        BY <1>1
      <3> HIDE DEF w
      <3>2. window' = window \o w  BY <1>1 DEF w
      <3>3. /\ Len(window') = specifiedArgs + dummies + n
            /\ \A i \in 1 .. specifiedArgs + dummies + n :
                 window'[i] = IF i <= specifiedArgs + dummies THEN window[i]
                              ELSE w[i - (specifiedArgs + dummies)]
        <4> DEFINE k == specifiedArgs + dummies
        <4>1. k \in Nat /\ n \in Nat /\ Len(window) = k  BY <1>1, <2>1
        <4> HIDE DEF k
        <4>2. /\ Len(window') = k + n
              /\ \A i \in 1 .. k + n :
                    window'[i] = IF i <= k THEN window[i] ELSE w[i - k]
          <5>1. window \in Seq({"arg", "dummy"})  BY <2>1
          <5>2. w \in Seq({"arg", "dummy"}) /\ Len(w) = n  BY <3>1
          <5> QED  BY ONLY <5>1, <5>2, <3>2, <4>1, Concatenated
        <4> QED  BY <4>2 DEF k
      <3>4. \A i \in 1 .. specifiedArgs + dummies + n : i <= specifiedArgs + dummies =>
                i \in 1 .. specifiedArgs + dummies
        BY <1>1
      <3>5. \A i \in 1 .. specifiedArgs + dummies + n : ~ (i <= specifiedArgs + dummies) =>
                /\ i - (specifiedArgs + dummies) \in 1 .. n
                /\ ~ (i <= specifiedArgs)
        BY <1>1
      <3> QED  BY <2>1, <3>1, <3>3, <3>4, <3>5
    <2> QED  BY <1>1, <2>2 DEF WindowInv
  <1>8. NamesInv'
    <2>1. \A i \in 1 .. named : names[i] \in NamedParams
      <3>1. names \in Seq(NamedParams) /\ Len(names) = named
        BY DEF PackInv, PackTypeOK, NamesInv
      <3> QED  BY <3>1
    <2>2. \A p \in NamedParams \cup new : R[p] < specifiedArgs => p \in NamedParams
      BY <1>1, <1>4
    <2> QED  BY <1>1, <1>2, <1>4, <2>1, <2>2 DEF PackInv, NamesInv
  <1>9. BindingInv'
    <2>1. \A p \in NamedParams \cup new : R[p] >= positional /\ R[p] < paramCount + n
      BY <1>1, <1>4, <1>5
    <2>2. ASSUME NEW p \in NamedParams \cup new, NEW q \in NamedParams \cup new, R[p] = R[q]
          PROVE  p = q
      <3>1. \A r \in NamedParams \cup new :
                r \in new <=> ~ (R[r] < specifiedArgs + dummies)
        <4>1. \A r \in new : ~ (R[r] < specifiedArgs + dummies)  BY <1>1, <1>4
        <4>2. \A r \in NamedParams : R[r] < specifiedArgs + dummies  BY <1>4, <1>5
        <4> QED  BY <1>2, <4>1, <4>2
      <3>4. p \in new <=> q \in new
        BY <2>2, <3>1
      <3>2. CASE p \in new  BY <1>4, <2>2, <3>4, <3>2
      <3>3. CASE p \notin new
        BY <1>1, <1>4, <1>5, <2>2, <3>4, <3>3 DEF PackInv, BindingInv
      <3> QED  BY <3>2, <3>3
    <2>3. paramCount' = paramCount + n  BY <1>1
    <2> QED  BY <1>1, <1>2, <2>1, <2>2, <2>3 DEF BindingInv
  <1> QED  BY <1>6, <1>7, <1>8, <1>9 DEF PackInv

----------------------------------------------------------------------------
LEMMA PackStepKeeps == PackInv /\ [PackNext]_packVars => PackInv'
  <1> SUFFICES ASSUME PackInv, [PackNext]_packVars PROVE PackInv'
    OBVIOUS
  <1>1. CASE \E which \in NamedParams : specifyNextNamedArg(which)
    BY <1>1, NamingKeeps
  <1>2. CASE done
    BY <1>2, DoneKeeps
  <1>3. CASE \E n \in 1 .. MaxNamed : addDummies(n)
    BY <1>3, ForwardingKeeps
  <1>4. CASE UNCHANGED packVars
    BY <1>4 DEF packVars, PackInv, PackTypeOK, Naming, WindowInv, NamesInv, BindingInv,
       UnboundParams, NamedParams, specifiedArgs, paramCount
  <1> QED  BY <1>1, <1>2, <1>3, <1>4 DEF PackNext

\* The invariant of a pack, from the first name of the list to the last dummy.
THEOREM PackInvHolds == PackSpec => []PackInv
  <1> QED  BY PackInitHolds, PackStepKeeps, PTL DEF PackSpec

\* Whatever the limits, the params and the list of names: each arg is read by
\* the param it was given for and by no other, and a param that was not named
\* reads a dummy, the same after a forwarding call pushed dummies of its own.
THEOREM ArgsAreReadAsGiven == PackSpec => []ArgsReachTheirParams
  <1> QED  BY PackInvHolds, InvIsEnough, PTL

================================================================================
