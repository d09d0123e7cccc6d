------------------------------- MODULE ConformanceProofs -------------------------------
(***************************************************************************)
(* What the types of a loaded type's members resolve to under redirects,   *)
(* and that a call that is forwarded to the member of a type that conforms *)
(* is typed, for any loaded types, protocols and redirects between paths.  *)
(***************************************************************************)
EXTENDS Conforming, AlgorithmProofs

--------------------------------------------------------------------------------
(* The symbols of loaded types, under redirects *)

NoCall(text) == \A i \in 1..Len(text) : text[i] # OpenCall

(***************************************************************************)
(* A text that, in a session, leaves honest terms on a stack that awaits   *)
(* args n times: where a root comes next,                                  *)
(***************************************************************************)
Opened(text, env, n) ==
    /\ ReadIn(text, "rootId") /\ NoCall(text)
    /\ Marks(Stk(text, env), n) /\ HonestStack(Stk(text, env))
    /\ Len(Stk(text, env)) = 0 \/ Stk(text, env)[1].awaitingArgs

\* and where one has come.
Named(text, env, n) ==
    /\ \E mode : ReadIn(text, mode)
    /\ NoCall(text)
    /\ Ready(Stk(text, env), n) /\ HonestStack(Stk(text, env))

LEMMA NoCallAfter ==
  ASSUME NEW text \in Seq(Int), NEW more \in Seq(Int), NoCall(text), NoCall(more)
  PROVE  NoCall(text \o more)
  <1> DEFINE whole == text \o more
             m == Len(text)
             n == Len(more)
  <1>1. m \in Nat /\ n \in Nat /\ Len(whole) = m + n
    OBVIOUS
  <1>2. \A i \in 1..m + n : whole[i] = IF i <= m THEN text[i] ELSE more[i - m]
    BY ConcatProperties
  <1>3. /\ \A i \in 1..m : text[i] # OpenCall
        /\ \A i \in 1..n : more[i] # OpenCall
    BY DEF NoCall
  <1> HIDE DEF whole, m, n
  <1>4. \A i \in 1..m + n : i \in 1..m \/ (~ (i <= m) /\ i - m \in 1..n)
    BY <1>1
  <1>5. \A i \in 1..m : i <= m
    BY <1>1
  <1>6. \A i \in 1..Len(whole) : whole[i] # OpenCall
    BY <1>1, <1>2, <1>3, <1>4, <1>5
  <1> QED
    BY <1>6 DEF NoCall, whole

LEMMA RootNames ==
  ASSUME NEW types, Generated(types), NEW env \in Sessions(types),
         NEW text, NEW n, Opened(text, env, n), NEW id, IsId(id)
  PROVE  Named(text \o <<id>>, env, n) /\ ReadIn(text \o <<id>>, "rootId")
  <1> DEFINE stk == Stk(text, env)
             new == Append(text, id)
  <1>1. /\ ReadIn(text, "rootId") /\ NoCall(text)
        /\ Marks(stk, n) /\ HonestStack(stk)
        /\ Len(stk) = 0 \/ stk[1].awaitingArgs
    BY DEF Opened
  <1>2. text \in Seq(Int) /\ id \in Int /\ id # OpenCall
    BY <1>1 DEF ReadIn, IsId, IsName, IsDollar, HereId, OpenCall
  <1>3. text \o <<id>> = new
    BY <1>2
  <1>4. ReadIn(new, "rootId") /\ Stk(new, env) = Interp(stk, Event("rootId", id), env)
    BY <1>1, ReadsId
  <1>5. Interp(stk, Event("rootId", id), env) = root(stk, id, env)
    BY DEF Interp, Event
  <1> HIDE DEF stk, new
  <1>6. PICK t : Fresh(t) /\ root(stk, id, env) = Append(stk, t)
    BY RootPushes
  <1>7. PICK v : HonestTerm(v) /\ root(stk, id, env) = Append(stk, v)
    BY RootHonest
  <1>8. t = v
    <2>1. IsSeq(stk)
      BY <1>1 DEF Marks
    <2>2. Last(Append(stk, t)) = t /\ Last(Append(stk, v)) = v
      BY <2>1, AppendIs
    <2> QED
      BY <1>6, <1>7, <2>2
  <1>9. Ready(Append(stk, t), n)
    BY <1>1, <1>6, PushReady
  <1>10. HonestStack(Append(stk, t))
    <2>1. IsSeq(stk)
      BY <1>1 DEF Marks
    <2> QED
      BY <1>1, <1>7, <1>8, <2>1, PushHonest
  <1>11. NoCall(text \o <<id>>)
    <2> DEFINE more == <<id>>
    <2>1. more \in Seq(Int) /\ Len(more) = 1 /\ more[1] = id
      BY <1>2
    <2> HIDE DEF more
    <2>2. NoCall(more)
      BY <1>2, <2>1 DEF NoCall
    <2>3. NoCall(text \o more)
      BY <1>1, <1>2, <2>1, <2>2, NoCallAfter
    <2> QED
      BY <2>3 DEF more
  <1> QED
    BY <1>3, <1>4, <1>5, <1>6, <1>9, <1>10, <1>11 DEF Named

LEMMA SuffixNames ==
  ASSUME NEW text, NEW env, NEW n, Named(text, env, n), NEW id, IsName(id),
         NEW mk \in {Slash, Colon, DblColon}
  PROVE  Named(text \o <<mk, id>>, env, n)
  <1> DEFINE stk == Stk(text, env)
             new == text \o <<mk, id>>
  <1>1. PICK mode : ReadIn(text, mode)
    BY DEF Named
  <1>2. NoCall(text) /\ Ready(stk, n) /\ HonestStack(stk)
    BY DEF Named
  <1>3. /\ \E m : ReadIn(new, m)
        /\ \/ Stk(new, env) = subdir(stk, id)
           \/ Stk(new, env) = typeInParcel(stk, id)
           \/ Stk(new, env) = member(stk, id)
    <2>1. CASE mk = Slash
      <3>1. ReadIn(text \o <<Slash, id>>, "slashId")
            /\ Stk(text \o <<Slash, id>>, env) = subdir(stk, id)
        BY <1>1, ReadsSuffix
      <3> QED
        BY <2>1, <3>1
    <2>2. CASE mk = Colon
      <3>1. ReadIn(text \o <<Colon, id>>, "colonId")
            /\ Stk(text \o <<Colon, id>>, env) = typeInParcel(stk, id)
        BY <1>1, ReadsSuffix
      <3> QED
        BY <2>2, <3>1
    <2>3. CASE mk = DblColon
      <3>1. ReadIn(text \o <<DblColon, id>>, "dblColonId")
            /\ Stk(text \o <<DblColon, id>>, env) = member(stk, id)
        BY <1>1, ReadsSuffix
      <3> QED
        BY <2>3, <3>1
    <2> QED
      BY <2>1, <2>2, <2>3
  <1>4. NoCall(new)
    <2> DEFINE more == <<mk, id>>
    <2>1. /\ text \in Seq(Int) /\ mk \in Int /\ id \in Int
          /\ mk # OpenCall /\ id # OpenCall
      BY <1>1 DEF ReadIn, IsName, Slash, Colon, DblColon, OpenCall
    <2>2. more \in Seq(Int) /\ Len(more) = 2 /\ more[1] = mk /\ more[2] = id
      BY <2>1
    <2> HIDE DEF more
    <2>3. NoCall(more)
      <3>1. \A i \in 1..2 : i = 1 \/ i = 2
        OBVIOUS
      <3> QED
        BY <2>1, <2>2, <3>1 DEF NoCall
    <2>4. NoCall(text \o more)
      BY <1>2, <2>1, <2>2, <2>3, NoCallAfter
    <2> QED
      BY <2>4 DEF more
  <1> HIDE DEF stk, new
  <1>5. IsSeq(stk) /\ Len(stk) > 0 /\ Len(stk) \in 1..Len(stk)
    <2>1. IsSeq(stk) /\ Len(stk) > 0
      BY <1>2 DEF Ready, Marks
    <2>2. Len(stk) \in Nat
      BY <2>1, SeqLength
    <2> QED
      BY <2>1, <2>2
  <1>6. HonestTerm(Last(stk))
    BY <1>2, <1>5 DEF HonestStack, Last
  <1>7. PICK v : HonestTerm(v) /\ Stk(new, env) = transact(stk, 1, v)
    BY <1>3, <1>6, SuffixHonest
  <1>8. PICK t : Fresh(t) /\ Stk(new, env) = transact(stk, 1, t)
    BY <1>3, SuffixReplaces
  <1>9. Ready(Stk(new, env), n)
    BY <1>2, <1>8, TopReady
  <1>10. HonestStack(Stk(new, env))
    BY <1>2, <1>5, <1>7, TopHonest
  <1> QED
    BY <1>3, <1>4, <1>9, <1>10 DEF Named, new

LEMMA BracketNames ==
  ASSUME NEW text, NEW env, NEW n \in Nat, Named(text, env, n)
  PROVE  /\ Opened(text \o <<OpenArgs>>, env, n + 1)
         /\ n > 0 => /\ Opened(text \o <<Comma>>, env, n)
                     /\ Named(text \o <<CloseArgs>>, env, n - 1)
  <1> DEFINE stk == Stk(text, env)
  <1>1. PICK mode : ReadIn(text, mode)
    BY DEF Named
  <1>2. NoCall(text) /\ Ready(stk, n) /\ HonestStack(stk) /\ text \in Seq(Int)
    BY <1>1 DEF Named, ReadIn
  <1>3. /\ ReadIn(Append(text, OpenArgs), "rootId") /\ Stk(Append(text, OpenArgs), env) = beginArgs(stk)
        /\ ReadIn(Append(text, Comma), "rootId") /\ Stk(Append(text, Comma), env) = stk
        /\ ReadIn(Append(text, CloseArgs), mode) /\ Stk(Append(text, CloseArgs), env) = endArgs(stk)
    BY <1>1, ReadsBracket
  <1> HIDE DEF stk
  <1>4. /\ text \o <<OpenArgs>> = Append(text, OpenArgs)
        /\ text \o <<Comma>> = Append(text, Comma)
        /\ text \o <<CloseArgs>> = Append(text, CloseArgs)
    BY <1>2 DEF OpenArgs, Comma, CloseArgs
  <1>5. \A t \in {OpenArgs, Comma, CloseArgs} : NoCall(text \o <<t>>)
    <2> TAKE t \in {OpenArgs, Comma, CloseArgs}
    <2> DEFINE more == <<t>>
    <2>1. t \in Int /\ t # OpenCall
      BY DEF OpenArgs, Comma, CloseArgs, OpenCall
    <2>2. more \in Seq(Int) /\ Len(more) = 1 /\ more[1] = t
      BY <2>1
    <2> HIDE DEF more
    <2>3. NoCall(more)
      BY <2>1, <2>2 DEF NoCall
    <2>4. NoCall(text \o more)
      BY <1>2, <2>2, <2>3, NoCallAfter
    <2> QED
      BY <2>4 DEF more
  <1>6. Opened(text \o <<OpenArgs>>, env, n + 1)
    <2>1. Marks(beginArgs(stk), n + 1) /\ beginArgs(stk)[1].awaitingArgs
      BY <1>2, OpenMarks
    <2>2. HonestStack(beginArgs(stk))
      BY <1>2, OpenHonest
    <2> QED
      BY <1>3, <1>4, <1>5, <2>1, <2>2 DEF Opened
  <1>7. ASSUME n > 0
        PROVE  Opened(text \o <<Comma>>, env, n)
    <2>1. stk[1].awaitingArgs
      BY <1>2, <1>7, BottomAwaits
    <2>2. Marks(stk, n)
      BY <1>2 DEF Ready
    <2> QED
      BY <1>2, <1>3, <1>4, <1>5, <2>1, <2>2 DEF Opened
  <1>8. ASSUME n > 0
        PROVE  Named(text \o <<CloseArgs>>, env, n - 1)
    <2>1. HonestStack(endArgs(stk))
      BY <1>2, <1>8, CloseHonest
    <2>2. Ready(endArgs(stk), n - 1)
      <3>1. n # 0
        BY <1>8
      <3>2. PICK at \in Marked(stk) :
                /\ at \in 1..Len(stk) - 1 /\ \A j \in Marked(stk) : j <= at
                /\ endArgs(stk) = Append(SubSeq(stk, 1, at - 1),
                                         IF Legal(stk, at) THEN Made(stk, at) ELSE Err)
        BY <1>2, <1>8, EndArgsReplaces
      <3> DEFINE t == IF Legal(stk, at) THEN Made(stk, at) ELSE Err
      <3>3. Fresh(t)
        BY TermIsFresh DEF Made
      <3> HIDE DEF t
      <3>4. Ready(Append(SubSeq(stk, 1, at - 1), t), n - 1)
        BY <1>2, <3>1, <3>2, <3>3, CloseReady
      <3> QED
        BY <3>2, <3>4 DEF t
    <2> QED
      BY <1>3, <1>4, <1>5, <2>1, <2>2 DEF Named
  <1> QED
    BY <1>6, <1>7, <1>8

(***************************************************************************)
(* A path as a symbol may begin with it: names, or "%here", with slashes   *)
(* and names after it.                                                     *)
(***************************************************************************)
RefPath(p) ==
    /\ p \in Seq(Int) /\ Len(p) % 2 = 1
    /\ p[1] = HereId \/ IsName(p[1])
    /\ \A i \in 2..Len(p) : IF i % 2 = 0 THEN p[i] = Slash ELSE IsName(p[i])

LEMMA PathIsRef ==
  ASSUME NEW p
  PROVE  IsPath(p) <=> RefPath(p) /\ p[1] # HereId
  <1>1. ASSUME IsPath(p)
        PROVE  RefPath(p) /\ p[1] # HereId
    <2>1. /\ p \in Seq(Nat) /\ Len(p) % 2 = 1 /\ Len(p) \in Nat
          /\ \A i \in 1..Len(p) : p[i] \in Nat /\ (p[i] = 0 <=> i % 2 = 0)
      BY <1>1 DEF IsPath, Slash
    <2>2. p \in Seq(Int)
      BY <2>1
    <2>3. 1 \in 1..Len(p) /\ 1 % 2 # 0
      BY <2>1
    <2>4. IsName(p[1]) /\ p[1] # HereId
      BY <2>1, <2>3 DEF IsName, HereId
    <2>5. \A i \in 2..Len(p) : IF i % 2 = 0 THEN p[i] = Slash ELSE IsName(p[i])
      BY <2>1 DEF IsName, Slash
    <2> QED
      BY <2>1, <2>2, <2>4, <2>5 DEF RefPath
  <1>2. ASSUME RefPath(p), p[1] # HereId
        PROVE  IsPath(p)
    <2>1. /\ p \in Seq(Int) /\ Len(p) % 2 = 1 /\ Len(p) \in Nat
          /\ p[1] \in Nat /\ p[1] > 0
          /\ \A i \in 2..Len(p) : IF i % 2 = 0 THEN p[i] = 0 ELSE p[i] \in Nat /\ p[i] > 0
      BY <1>2 DEF RefPath, IsName, Slash
    <2>2. \A i \in 1..Len(p) : p[i] \in Nat /\ (p[i] = 0 <=> i % 2 = 0)
      <3>1. 1 % 2 # 0
        OBVIOUS
      <3>2. \A i \in 1..Len(p) : i = 1 \/ i \in 2..Len(p)
        OBVIOUS
      <3> QED
        BY <2>1, <3>1, <3>2
    <2>3. p \in Seq(Nat) /\ DOMAIN p = 1..Len(p)
      <3>1. DOMAIN p = 1..Len(p) /\ p \in [1..Len(p) -> Int]
        BY <2>1
      <3>2. p \in [1..Len(p) -> Nat]
        BY <2>2, <3>1
      <3> QED
        BY <2>1, <3>1, <3>2
    <2> QED
      BY <2>1, <2>2, <2>3 DEF IsPath, Slash
  <1> QED
    BY <1>1, <1>2

\* A path that goes on is one.
LEMMA RefPathGrows ==
  /\ \A id : id = HereId \/ IsName(id) => RefPath(<<id>>)
  /\ \A p, id : RefPath(p) /\ IsName(id) => RefPath(p \o <<Slash, id>>)
  <1>1. ASSUME NEW id, id = HereId \/ IsName(id)
        PROVE  RefPath(<<id>>)
    <2> DEFINE p == <<id>>
    <2>1. p \in Seq(Int) /\ Len(p) = 1 /\ p[1] = id
      BY <1>1 DEF HereId, IsName
    <2> HIDE DEF p
    <2>2. 1 % 2 = 1 /\ \A i \in 2..1 : FALSE
      OBVIOUS
    <2>3. RefPath(p)
      BY <1>1, <2>1, <2>2 DEF RefPath
    <2> QED
      BY <2>3 DEF p
  <1>2. ASSUME NEW p, NEW id, RefPath(p), IsName(id)
        PROVE  RefPath(p \o <<Slash, id>>)
    <2> DEFINE more == <<Slash, id>>
               q == p \o more
               n == Len(p)
    <2>1. /\ p \in Seq(Int) /\ n % 2 = 1 /\ n \in Nat
          /\ p[1] = HereId \/ IsName(p[1])
          /\ \A i \in 2..n : IF i % 2 = 0 THEN p[i] = Slash ELSE IsName(p[i])
      BY <1>2 DEF RefPath
    <2>2. more \in Seq(Int) /\ Len(more) = 2 /\ more[1] = Slash /\ more[2] = id
      BY <1>2 DEF Slash, IsName
    <2> HIDE DEF more
    <2>0. /\ q \in Seq(Int) /\ Len(q) = Len(p) + Len(more)
          /\ \A i \in 1..Len(p) + Len(more) :
                q[i] = IF i <= Len(p) THEN p[i] ELSE more[i - Len(p)]
      BY <2>1, <2>2, ConcatProperties
    <2> HIDE DEF q, n
    <2>3. /\ q \in Seq(Int) /\ Len(q) = n + 2
          /\ \A i \in 1..n + 2 : q[i] = IF i <= n THEN p[i] ELSE more[i - n]
      BY <2>0, <2>2 DEF n
    <2>4. n > 0 /\ 1 \in 1..n + 2 /\ (n + 2) % 2 = 1 /\ (n + 1) % 2 = 0
      BY <2>1
    <2>5. q[1] = p[1]
      BY <2>1, <2>3, <2>4
    <2>6. q[n + 1] = Slash /\ q[n + 2] = id
      <3>1. n + 1 \in 1..n + 2 /\ n + 2 \in 1..n + 2 /\ ~ (n + 1 <= n) /\ ~ (n + 2 <= n)
            /\ (n + 1) - n = 1 /\ (n + 2) - n = 2
        BY <2>1
      <3> QED
        BY <2>2, <2>3, <3>1
    <2>7. ASSUME NEW i \in 2..n + 2
          PROVE  IF i % 2 = 0 THEN q[i] = Slash ELSE IsName(q[i])
      <3>1. i \in 2..n \/ i = n + 1 \/ i = n + 2
        BY <2>1
      <3>2. CASE i \in 2..n
        <4>1. i \in 1..n + 2 /\ i <= n
          BY <2>1, <3>2
        <4>2. q[i] = p[i]
          BY <2>3, <4>1
        <4> QED
          BY <2>1, <3>2, <4>2
      <3> QED
        BY <1>2, <2>4, <2>6, <3>1, <3>2
    <2>8. RefPath(q)
      BY <2>1, <2>3, <2>4, <2>5, <2>7 DEF RefPath
    <2> QED
      BY <2>8 DEF q, more
  <1> QED
    BY <1>1, <1>2

\* What a path of any length is read as: induction on the names in it.
LEMMA PathNames ==
  ASSUME NEW types, Generated(types), NEW env \in Sessions(types),
         NEW text, NEW n, Opened(text, env, n), NEW path, RefPath(path)
  PROVE  Named(text \o path, env, n)
  <1> DEFINE m == Len(path) \div 2
             T == {k \in 0..m : \A p : RefPath(p) /\ Len(p) = 2 * k + 1
                                            => Named(text \o p, env, n)}
  <1>1. m \in Nat /\ Len(path) = 2 * m + 1
    <2>1. Len(path) \in Nat /\ Len(path) % 2 = 1
      BY DEF RefPath
    <2> QED
      BY <2>1
  <1>2. text \in Seq(Int)
    BY DEF Opened, ReadIn
  <1>3. 0 \in T
    <2>1. ASSUME NEW p, RefPath(p), Len(p) = 1
          PROVE  Named(text \o p, env, n)
      <3>1. p \in Seq(Int) /\ (p[1] = HereId \/ IsName(p[1]))
        BY <2>1 DEF RefPath
      <3>2. p = <<p[1]>>
        BY <2>1, <3>1
      <3>3. IsId(p[1])
        BY <3>1 DEF IsId, IsName, HereId
      <3>4. Named(text \o <<p[1]>>, env, n)
        BY <3>3, RootNames
      <3> QED
        BY <3>2, <3>4
    <2>2. 0 \in 0..m /\ 2 * 0 + 1 = 1
      BY <1>1
    <2> HIDE DEF m
    <2> QED
      BY <2>1, <2>2
  <1>4. ASSUME NEW k \in 0..m - 1, k \in T
        PROVE  k + 1 \in T
    <2>1. ASSUME NEW p, RefPath(p), Len(p) = 2 * (k + 1) + 1
          PROVE  Named(text \o p, env, n)
      <3> DEFINE l == 2 * k + 1
                 q == SubSeq(p, 1, l)
                 id == p[l + 2]
                 more == <<Slash, id>>
      <3>1. k \in Nat /\ l \in Nat /\ l > 0 /\ Len(p) = l + 2 /\ l % 2 = 1
        BY <1>1, <2>1
      <3>2. /\ p \in Seq(Int) /\ (p[1] = HereId \/ IsName(p[1]))
            /\ \A i \in 2..Len(p) : IF i % 2 = 0 THEN p[i] = Slash ELSE IsName(p[i])
        BY <2>1 DEF RefPath
      <3>3. p[l + 1] = Slash /\ IsName(id)
        <4> HIDE DEF l
        <4>1. l + 1 \in 2..Len(p) /\ l + 2 \in 2..Len(p) /\ (l + 1) % 2 = 0 /\ (l + 2) % 2 # 0
          BY <3>1
        <4> QED
          BY <3>2, <4>1
      <3> HIDE DEF l, id
      <3>4. q \in Seq(Int) /\ Len(q) = l /\ \A i \in 1..l : q[i] = p[i]
        <4>1. l \in 0..Len(p)
          BY <3>1
        <4> QED
          BY <3>2, <4>1, FrontIs
      <3> HIDE DEF q
      <3>5. RefPath(q)
        <4>1. q[1] = p[1]
          BY <3>1, <3>4
        <4>2. \A i \in 2..l : i \in 2..Len(p) /\ q[i] = p[i]
          BY <3>1, <3>4
        <4> QED
          BY <3>1, <3>2, <3>4, <4>1, <4>2 DEF RefPath
      <3>6. Named(text \o q, env, n)
        BY <1>4, <3>4, <3>5 DEF l
      <3>7. Named((text \o q) \o more, env, n)
        BY <3>3, <3>6, SuffixNames
      <3>8. more \in Seq(Int) /\ Len(more) = 2 /\ more[1] = Slash /\ more[2] = id
        BY <3>3 DEF Slash, IsName
      <3> HIDE DEF more
      <3>9. q \o more = p
        <4> DEFINE w == q \o more
        <4>0. /\ w \in Seq(Int) /\ Len(w) = Len(q) + Len(more)
              /\ \A i \in 1..Len(q) + Len(more) :
                    w[i] = IF i <= Len(q) THEN q[i] ELSE more[i - Len(q)]
          BY <3>4, <3>8, ConcatProperties
        <4> HIDE DEF w
        <4>1. /\ w \in Seq(Int) /\ Len(w) = l + 2
              /\ \A i \in 1..l + 2 : w[i] = IF i <= l THEN q[i] ELSE more[i - l]
          BY <3>4, <3>8, <4>0
        <4>2. ASSUME NEW i \in 1..l + 2
              PROVE  w[i] = p[i]
          <5>1. i \in 1..l \/ i = l + 1 \/ i = l + 2
            BY <3>1
          <5>2. (l + 1) - l = 1 /\ (l + 2) - l = 2 /\ ~ (l + 1 <= l) /\ ~ (l + 2 <= l)
            BY <3>1
          <5>3. CASE i \in 1..l
            <6>1. i <= l
              BY <3>1, <5>3
            <6> QED
              BY <3>4, <4>1, <5>3, <6>1
          <5>4. CASE i = l + 1
            BY <3>3, <3>8, <4>1, <5>2, <5>4
          <5>5. CASE i = l + 2
            BY <3>8, <4>1, <5>2, <5>5 DEF id
          <5> QED
            BY <5>1, <5>3, <5>4, <5>5
        <4>3. w = p
          BY <3>1, <3>2, <4>1, <4>2, SeqEqual
        <4> QED
          BY <4>3 DEF w
      <3>10. (text \o q) \o more = text \o p
        BY <1>2, <3>4, <3>8, <3>9, Associative
      <3> QED
        BY <3>7, <3>10
    <2>2. k + 1 \in 0..m
      BY <1>1
    <2> HIDE DEF m
    <2> QED
      BY <2>1, <2>2
  <1>5. m \in T
    <2>1. m \in 0..m
      BY <1>1
    <2> HIDE DEF T, m
    <2> QED
      BY <1>1, <1>3, <1>4, <2>1, AllNumbers
  <1> QED
    BY <1>1, <1>5

LEMMA LongestOfSome ==
  ASSUME NEW path \in Seq(Nat), NEW M, M # {}, \A s \in M : s \in Seq(Nat) /\ IsPrefix(s, path)
  PROVE  Longest(M) \in M
  <1> DEFINE n == Len(path) + 1
             lengths == {Len(s) + 1 : s \in M}
  <1>1. ASSUME NEW s \in M
        PROVE  Len(s) \in Nat /\ Len(s) + 1 \in 1..n
    <2>1. Begins(s, path)
      BY PrefixIs
    <2> QED
      BY <2>1 DEF Begins
  <1>2. lengths \in SUBSET (1..n) /\ lengths # {}
    BY <1>1
  <1>3. n \in Nat
    OBVIOUS
  <1> HIDE DEF lengths, n
  <1>4. Max(lengths) \in lengths /\ \A k \in lengths : k <= Max(lengths)
    BY <1>2, <1>3, MaxExists
  <1>5. PICK s \in M : Max(lengths) = Len(s) + 1
    BY <1>4 DEF lengths
  <1>6. \A t \in M : Len(t) <= Len(s)
    <2> TAKE t \in M
    <2>1. Len(t) + 1 <= Len(s) + 1
      BY <1>4, <1>5 DEF lengths
    <2> QED
      BY <1>1, <2>1
  <1> QED
    BY <1>6 DEF Longest

\* Redirects from paths to paths.
PathsToPaths(set) ==
    /\ IsFiniteSet(DOMAIN set)
    /\ \A before \in DOMAIN set : IsPath(before) /\ IsPath(set[before])

\* What a path is redirected to is a path.
LEMMA RedirectedPath ==
  ASSUME NEW set, PathsToPaths(set), NEW path, RefPath(path)
  PROVE  RefPath(Resolve(set, path))
  <1>1. IsFiniteSet(DOMAIN set) /\ DOMAIN set \subseteq Seq(Nat)
    BY DEF PathsToPaths, IsPath
  <1>2. CASE path[1] = HereId
    <2>1. ASSUME NEW before \in DOMAIN set, IsPrefix(before, path)
          PROVE  FALSE
      <3>1. IsPath(before)
        BY DEF PathsToPaths
      <3>2. RefPath(before) /\ before[1] # HereId
        BY <3>1, PathIsRef
      <3>3. before \in Seq(Int) /\ path \in Seq(Int) /\ Len(before) % 2 = 1
        BY <3>2 DEF RefPath
      <3>4. Begins(before, path)
        BY <2>1, <3>3, PrefixIs
      <3>5. 1 \in 1..Len(before)
        <4>1. Len(before) \in Nat /\ Len(before) % 2 = 1
          BY <3>3
        <4> QED
          BY <4>1
      <3> QED
        BY <1>2, <3>2, <3>4, <3>5 DEF Begins
    <2>2. Resolve(set, path) = path
      BY <1>1, <2>1, NotRedirected
    <2> QED
      BY <2>2
  <1>3. CASE path[1] # HereId
    <2>1. IsPath(path) /\ path \in Seq(Nat)
      BY <1>3, PathIsRef DEF IsPath
    <2>2. RewritesLongestPrefixOnce(set, path)
      BY <1>1, <2>1, LongestPrefixOnce
    <2> DEFINE starts == {before \in DOMAIN set : IsPrefix(before, path)}
               longest == Longest(starts)
    <2>3. CASE starts = {}
      <3>1. Resolve(set, path) = path
        BY <1>1, <2>3, NotRedirected
      <3> QED
        BY <3>1
    <2>4. CASE starts # {}
      <3>1. PICK j \in 1..Len(path) + 1 :
                /\ path = longest \o SubSeq(path, j, Len(path))
                /\ Resolve(set, path) = set[longest] \o SubSeq(path, j, Len(path))
        BY <2>2, <2>4 DEF RewritesLongestPrefixOnce
      <3>2. longest \in starts
        <4>1. \A s \in starts : s \in Seq(Nat) /\ IsPrefix(s, path)
          BY <1>1
        <4> HIDE DEF starts
        <4> QED
          BY <2>1, <2>4, <4>1, LongestOfSome
      <3> DEFINE rest == SubSeq(path, j, Len(path))
                 to == set[longest]
                 new == to \o rest
                 m == Len(longest)
                 k == Len(to)
                 l == Len(rest)
      <3>3. IsPath(longest) /\ IsPath(to)
        BY <3>2 DEF PathsToPaths
      <3>4. path = longest \o rest /\ Resolve(set, path) = new
        BY <3>1
      <3>5. rest \in Seq(Int)
        BY <2>1
      <3> HIDE DEF longest, rest, to
      <3>6. /\ longest \in Seq(Int) /\ to \in Seq(Int) /\ m % 2 = 1 /\ k % 2 = 1
            /\ m \in Nat /\ k \in Nat /\ l \in Nat
            /\ to[1] # HereId /\ (to[1] = HereId \/ IsName(to[1]))
            /\ \A i \in 2..k : IF i % 2 = 0 THEN to[i] = Slash ELSE IsName(to[i])
        <4>1. RefPath(longest) /\ RefPath(to) /\ to[1] # HereId
          BY <3>3, PathIsRef
        <4>2. longest \in Seq(Int) /\ m % 2 = 1 /\ m \in Nat
          BY <4>1 DEF RefPath
        <4>3. /\ to \in Seq(Int) /\ k % 2 = 1 /\ k \in Nat
              /\ to[1] = HereId \/ IsName(to[1])
              /\ \A i \in 2..k : IF i % 2 = 0 THEN to[i] = Slash ELSE IsName(to[i])
          BY <4>1 DEF RefPath
        <4>4. l \in Nat
          BY <3>5
        <4> QED
          BY <4>1, <4>2, <4>3, <4>4
      <3>7. /\ Len(path) = m + l
            /\ \A i \in 1..m + l : path[i] = IF i <= m THEN longest[i] ELSE rest[i - m]
        BY <3>4, <3>5, <3>6, ConcatProperties
      <3>8. /\ new \in Seq(Int) /\ Len(new) = k + l
            /\ \A i \in 1..k + l : new[i] = IF i <= k THEN to[i] ELSE rest[i - k]
        BY <3>5, <3>6, ConcatProperties
      <3>9. /\ Len(path) % 2 = 1
            /\ \A i \in 2..Len(path) : IF i % 2 = 0 THEN path[i] = Slash ELSE IsName(path[i])
        BY DEF RefPath
      <3> HIDE DEF new, m, k, l
      <3>10. (k + l) % 2 = 1 /\ k > 0 /\ m > 0
        BY <3>6, <3>7, <3>9
      <3>11. new[1] = to[1]
        BY <3>6, <3>8, <3>10
      <3>12. ASSUME NEW i \in 2..k + l
             PROVE  IF i % 2 = 0 THEN new[i] = Slash ELSE IsName(new[i])
        <4>1. CASE i <= k
          <5>1. i \in 2..k /\ i \in 1..k + l
            BY <3>6, <4>1
          <5>2. new[i] = to[i]
            BY <3>8, <4>1, <5>1
          <5> QED
            BY <3>6, <5>1, <5>2
        <4>2. CASE ~ (i <= k)
          <5> DEFINE q == i - k + m
          <5>1. /\ i \in 1..k + l /\ q \in 2..m + l /\ q \in 1..m + l /\ ~ (q <= m)
                /\ q - m = i - k
            BY <3>6, <3>10, <4>2
          <5>2. q % 2 = i % 2
            BY <3>6, <4>2
          <5> HIDE DEF q
          <5>3. new[i] = rest[i - k] /\ path[q] = rest[q - m]
            BY <3>7, <3>8, <4>2, <5>1
          <5>4. IF q % 2 = 0 THEN path[q] = Slash ELSE IsName(path[q])
            BY <3>7, <3>9, <5>1
          <5> QED
            BY <5>1, <5>2, <5>3, <5>4
        <4> QED
          BY <4>1, <4>2
      <3> QED
        BY <3>4, <3>6, <3>8, <3>10, <3>11, <3>12 DEF RefPath
    <2> QED
      BY <2>3, <2>4
  <1> QED
    BY <1>2, <1>3

\* The solver that redirects.
Redirecting(R) == [of |-> "solve", stands |-> Nothing, redirects |-> R]
SolUnder(text, R) == Fold(Redirecting(R), Scopes, Reader(text).out)
SolvesUnder(s, e, R) == OnEvent(s, e, Nothing, R)

LEMMA SolUnderStarts ==
  ASSUME NEW R
  PROVE  SolUnder(<<>>, R) = Scopes
  <1>1. Reader(<<>>) = Reading("rootId", <<>>)
    BY FoldEmpty DEF Reader
  <1>2. Reader(<<>>).out = <<>>
    BY <1>1 DEF Reading
  <1> QED
    BY <1>2, FoldEmpty DEF SolUnder

LEMMA SolUnderReads ==
  ASSUME NEW text, NEW mode, ReadIn(text, mode), NEW R
  PROVE  /\ \A t \in {Slash, Colon, DblColon} : SolUnder(Append(text, t), R) = SolUnder(text, R)
         /\ \A t : IsId(t) => SolUnder(Append(text, t), R)
                                = SolvesUnder(SolUnder(text, R), Event(mode, t), R)
         /\ SolUnder(Append(text, OpenArgs), R)
                = SolvesUnder(SolUnder(text, R), Event("openTypeArgs", OpenArgs), R)
         /\ SolUnder(Append(text, Comma), R)
                = SolvesUnder(SolUnder(text, R), Event("typeArgsArgDelimiter", Comma), R)
         /\ SolUnder(Append(text, CloseArgs), R)
                = SolvesUnder(SolUnder(text, R), Event("closeTypeArgs", CloseArgs), R)
  <1> DEFINE out == Reader(text).out
  <1>1. IsSeq(out)
    BY DEF ReadIn
  <1>2. ASSUME NEW t \in Int, NEW next, NEW e,
               Read(Reading(mode, out), t) = Reading(next, Append(out, e))
        PROVE  SolUnder(Append(text, t), R) = SolvesUnder(SolUnder(text, R), e, R)
    <2>1. Reader(Append(text, t)) = Reading(next, Append(out, e))
      BY <1>2, ReadOne
    <2>2. Reader(Append(text, t)).out = Append(out, e)
      BY <2>1, ReadingHas, Zenon
    <2>3. \A x : Apply(Redirecting(R), x, e) = SolvesUnder(x, e, R)
      BY DEF Apply, Redirecting, SolvesUnder
    <2> HIDE DEF out
    <2>4. Fold(Redirecting(R), Scopes, Append(out, e))
            = Apply(Redirecting(R), Fold(Redirecting(R), Scopes, out), e)
      BY <1>1, FoldOneMore
    <2> QED
      BY <2>2, <2>3, <2>4, Zenon DEF SolUnder, out
  <1>3. ASSUME NEW t \in {Slash, Colon, DblColon}
        PROVE  SolUnder(Append(text, t), R) = SolUnder(text, R)
    <2>1. t \in Int
      BY DEF Slash, Colon, DblColon
    <2>2. PICK next : Read(Reading(mode, out), t) = Reading(next, out)
      BY ReadMark
    <2>3. Reader(Append(text, t)) = Reading(next, out)
      BY <2>1, <2>2, ReadOne
    <2>4. Reading(next, out).out = out
      BY ReadingHas
    <2> HIDE DEF out
    <2>5. Reader(Append(text, t)).out = out
      BY <2>3, <2>4
    <2> QED
      BY <2>5, Zenon DEF SolUnder, out
  <1>4. ASSUME NEW t, IsId(t)
        PROVE  SolUnder(Append(text, t), R) = SolvesUnder(SolUnder(text, R), Event(mode, t), R)
    <2>1. t \in Int
      BY <1>4 DEF IsId
    <2>2. Read(Reading(mode, out), t) = Reading(mode, Append(out, Event(mode, t)))
      BY <1>4, ReadOther
    <2> QED
      BY <1>2, <2>1, <2>2
  <1>5. /\ OpenArgs \in Int /\ Comma \in Int /\ CloseArgs \in Int
        /\ Read(Reading(mode, out), OpenArgs)
                = Reading("rootId", Append(out, Event("openTypeArgs", OpenArgs)))
        /\ Read(Reading(mode, out), Comma)
                = Reading("rootId", Append(out, Event("typeArgsArgDelimiter", Comma)))
        /\ Read(Reading(mode, out), CloseArgs)
                = Reading(mode, Append(out, Event("closeTypeArgs", CloseArgs)))
    BY ReadOther DEF OpenArgs, Comma, CloseArgs
  <1> HIDE DEF out
  <1>6. SolUnder(Append(text, OpenArgs), R)
            = SolvesUnder(SolUnder(text, R), Event("openTypeArgs", OpenArgs), R)
    BY <1>2, <1>5
  <1>7. SolUnder(Append(text, Comma), R)
            = SolvesUnder(SolUnder(text, R), Event("typeArgsArgDelimiter", Comma), R)
    BY <1>2, <1>5
  <1>8. SolUnder(Append(text, CloseArgs), R)
            = SolvesUnder(SolUnder(text, R), Event("closeTypeArgs", CloseArgs), R)
    BY <1>2, <1>5
  <1> QED
    BY <1>3, <1>4, <1>6, <1>7, <1>8

LEMMA SolveIsUnder ==
  ASSUME NEW text, NEW mode, ReadIn(text, mode), NEW R
  PROVE  Solve(text, Nothing, R)
            = IF SolUnder(text, R).good
              THEN Last(handleRedirectsIfPath(SolUnder(text, R), R).scopes).output
              ELSE NoSpec
  <1>1. FoldLeft(Read, Reading("rootId", <<>>), text) = Reader(text)
    BY Zenon DEF Reader, Fold, FoldLeft, MapThenFoldSet, Apply
  <1>2. Events(text) = Reader(text).out
    <2> DEFINE end == Reader(text)
    <2>1. Events(text) = IF end.stage = "return"
                         THEN Append(end.out, Event("closeCallSuff", Arrow)) ELSE end.out
      BY <1>1, Zenon DEF Events, Reading
    <2>2. end.stage = "main"
      <3>1. end = Reading(mode, end.out)
        BY Zenon DEF ReadIn
      <3>2. Reading(mode, end.out).stage = "main"
        BY ReadingHas
      <3> HIDE DEF end
      <3> QED
        BY <3>1, <3>2
    <2> HIDE DEF end
    <2> QED
      BY <2>1, <2>2 DEF end
  <1> DEFINE end == FoldLeft(LAMBDA s, e : OnEvent(s, e, Nothing, R), Scopes, Events(text))
  <1>3. Solve(text, Nothing, R)
          = IF end.good THEN Last(handleRedirectsIfPath(end, R).scopes).output ELSE NoSpec
    BY Zenon DEF Solve, Scopes
  <1>4. end = Fold(Redirecting(R), Scopes, Events(text))
    BY Zenon DEF Fold, FoldLeft, MapThenFoldSet, Apply, Redirecting
  <1> HIDE DEF end
  <1> QED
    BY <1>2, <1>3, <1>4, Zenon DEF SolUnder

(***************************************************************************)
(* A solver that has refused nothing has n scopes open; what it has        *)
(* written in the last one is out, and before in those below.              *)
(***************************************************************************)
ScopeIs(s, n, latest, before, out) ==
    \E low \in Seq(ScopeSet), e \in ScopeSet :
        /\ s = Solver(TRUE, Append(low, e))
        /\ Len(low) + 1 = n /\ e.latest = latest /\ Joined(low) = before /\ e.output = out

LEMMA ScopeIsSol ==
  ASSUME NEW s, NEW n, NEW latest, NEW before, NEW out, ScopeIs(s, n, latest, before, out)
  PROVE  SolIs(s, n, latest, before \o out) /\ before \in Seq(Int) /\ out \in Seq(Int)
  <1>1. PICK low \in Seq(ScopeSet), e \in ScopeSet :
            /\ s = Solver(TRUE, Append(low, e))
            /\ Len(low) + 1 = n /\ e.latest = latest /\ Joined(low) = before /\ e.output = out
    BY DEF ScopeIs
  <1>2. e.output \in Seq(Int) /\ Joined(low) \in Seq(Int)
    BY TopScope
  <1>3. SolIs(s, n, latest, before \o out)
    BY <1>1, Zenon DEF SolIs
  <1> QED
    BY <1>1, <1>2, <1>3

LEMMA ScopeWrites ==
  ASSUME NEW s, NEW n, NEW l, NEW before, NEW out, ScopeIs(s, n, l, before, out)
  PROVE  /\ \A more \in Seq(Int) : ScopeIs(emit(s, more), n, l, before, out \o more)
         /\ \A latest \in {"none", "path", "type"} :
                ScopeIs(mark(s, latest), n, latest, before, out)
  <1>1. PICK low \in Seq(ScopeSet), e \in ScopeSet :
            /\ s = Solver(TRUE, Append(low, e))
            /\ Len(low) + 1 = n /\ e.latest = l /\ Joined(low) = before /\ e.output = out
    BY DEF ScopeIs
  <1> DEFINE sc == Append(low, e)
  <1>2. Last(sc) = e /\ Front(sc) = low
    BY TopScope
  <1>3. ASSUME NEW more \in Seq(Int)
        PROVE  ScopeIs(emit(s, more), n, l, before, out \o more)
    <2> DEFINE new == [e EXCEPT !.output = @ \o more]
    <2>1. new \in ScopeSet /\ new.latest = e.latest /\ new.output = e.output \o more
      BY ScopeWritten
    <2>2. emit(s, more) = Solver(TRUE, Append(Front(sc), [Last(sc) EXCEPT !.output = @ \o more]))
      BY <1>1, SolverEmits
    <2>3. emit(s, more) = Solver(TRUE, Append(low, new))
      BY <1>2, <2>2
    <2> HIDE DEF new, sc
    <2> QED
      BY <1>1, <2>1, <2>3 DEF ScopeIs
  <1>4. ASSUME NEW latest \in {"none", "path", "type"}
        PROVE  ScopeIs(mark(s, latest), n, latest, before, out)
    <2> DEFINE new == [e EXCEPT !.latest = latest]
    <2>1. new \in ScopeSet /\ new.latest = latest /\ new.output = e.output
      BY ScopeMarked
    <2>2. mark(s, latest) = Solver(TRUE, Append(Front(sc), [Last(sc) EXCEPT !.latest = latest]))
      BY <1>1, SolverMarks
    <2>3. mark(s, latest) = Solver(TRUE, Append(low, new))
      BY <1>2, <2>2
    <2> HIDE DEF new, sc
    <2> QED
      BY <1>1, <2>1, <2>3 DEF ScopeIs
  <1> QED
    BY <1>3, <1>4

LEMMA ScopeBegun ==
  ASSUME NEW s, NEW n \in Nat, NEW l, NEW text, SolIs(s, n, l, text)
  PROVE  ScopeIs(beginScope(s), n + 1, "none", text, <<>>)
  <1>1. PICK low \in Seq(ScopeSet), e \in ScopeSet :
            /\ s = Solver(TRUE, Append(low, e))
            /\ Len(low) + 1 = n /\ e.latest = l /\ text = Joined(low) \o e.output
    BY DEF SolIs
  <1> DEFINE sc == Append(low, e)
             new == [latest |-> "none", output |-> <<>>]
  <1>2. beginScope(s) = Solver(TRUE, Append(sc, new))
    BY <1>1, SolverOpens
  <1>3. new \in ScopeSet /\ new.latest = "none" /\ new.output = <<>>
    BY ScopeBegins
  <1>4. Joined(sc) = text
    BY <1>1, JoinedIs
  <1>5. sc \in Seq(ScopeSet) /\ Len(sc) = Len(low) + 1
    BY AppendProperties
  <1> HIDE DEF sc, new
  <1> QED
    BY <1>1, <1>2, <1>3, <1>4, <1>5 DEF ScopeIs

\* A path is redirected where it ends, a type is not.
LEMMA ScopeRedirects ==
  ASSUME NEW s, NEW n, NEW R
  PROVE  /\ \A before, out : ScopeIs(s, n, "path", before, out) /\ Resolve(R, out) \in Seq(Int)
                => ScopeIs(handleRedirectsIfPath(s, R), n, "path", before, Resolve(R, out))
         /\ \A text : SolIs(s, n, "type", text) => handleRedirectsIfPath(s, R) = s
         /\ Refused(s) => Refused(handleRedirectsIfPath(s, R))
  <1>1. handleRedirectsIfPath(s, R)
            = IF Last(s.scopes).latest = "path"
              THEN WithTop(s, [Last(s.scopes) EXCEPT !.output = Resolve(R, @)])
              ELSE s
    BY Zenon DEF handleRedirectsIfPath
  <1>2. ASSUME NEW before, NEW out, ScopeIs(s, n, "path", before, out), Resolve(R, out) \in Seq(Int)
        PROVE  ScopeIs(handleRedirectsIfPath(s, R), n, "path", before, Resolve(R, out))
    <2>1. PICK low \in Seq(ScopeSet), e \in ScopeSet :
              /\ s = Solver(TRUE, Append(low, e))
              /\ Len(low) + 1 = n /\ e.latest = "path" /\ Joined(low) = before /\ e.output = out
      BY <1>2 DEF ScopeIs
    <2> DEFINE sc == Append(low, e)
               to == Resolve(R, out)
               new == [e EXCEPT !.output = to]
    <2>2. Last(sc) = e /\ Front(sc) = low /\ s.scopes = sc
      <3>1. Last(sc) = e /\ Front(sc) = low
        BY TopScope
      <3> QED
        BY <2>1, <3>1, SolverFields, Zenon
    <2>3. [e EXCEPT !.output = Resolve(R, @)] = new
      BY <2>1
    <2>4. handleRedirectsIfPath(s, R) = WithTop(s, new)
      BY <1>1, <2>1, <2>2, <2>3
    <2>5. WithTop(s, new) = Solver(TRUE, Append(low, new))
      <3> HIDE DEF new, sc
      <3>1. WithTop(Solver(TRUE, sc), new) = Solver(TRUE, Append(Front(sc), new))
        BY SolverWithTop
      <3> QED
        BY <2>1, <2>2, <3>1 DEF sc
    <2>6. new \in ScopeSet /\ new.latest = "path" /\ new.output = to
      <3>1. to \in Seq(Int)
        BY <1>2
      <3> HIDE DEF to
      <3> QED
        BY <2>1, <3>1 DEF ScopeSet
    <2> HIDE DEF new, sc, to
    <2>7. ScopeIs(handleRedirectsIfPath(s, R), n, "path", before, to)
      BY <2>1, <2>4, <2>5, <2>6 DEF ScopeIs
    <2> QED
      BY <2>7 DEF to
  <1>3. ASSUME NEW text, SolIs(s, n, "type", text)
        PROVE  handleRedirectsIfPath(s, R) = s
    <2>1. PICK low \in Seq(ScopeSet), e \in ScopeSet :
              s = Solver(TRUE, Append(low, e)) /\ e.latest = "type"
      BY <1>3 DEF SolIs
    <2> DEFINE sc == Append(low, e)
    <2>2. Last(sc) = e /\ s.scopes = sc
      <3>1. Last(sc) = e
        BY TopScope
      <3> QED
        BY <2>1, <3>1, SolverFields, Zenon
    <2> HIDE DEF sc
    <2> QED
      BY <1>1, <2>1, <2>2
  <1>4. ASSUME Refused(s)
        PROVE  Refused(handleRedirectsIfPath(s, R))
    <2>1. PICK sc : s = Solver(FALSE, sc)
      BY <1>4 DEF Refused
    <2> DEFINE scope == [Last(s.scopes) EXCEPT !.output = Resolve(R, @)]
    <2> HIDE DEF scope
    <2>2. WithTop(s, scope) = Solver(FALSE, Append(Front(sc), scope))
      BY <2>1, SolverWithTop, Zenon
    <2>3. Refused(WithTop(s, scope))
      BY <2>2 DEF Refused
    <2> QED
      BY <1>1, <1>4, <2>3 DEF scope
  <1> QED
    BY <1>2, <1>3, <1>4

(***************************************************************************)
(* What the solver that redirects has written of a symbol: where a root    *)
(* comes next, n brackets being open,                                      *)
(***************************************************************************)
Opening(s, env, n) ==
    \/ Refused(s)
    \/ \E before : ScopeIs(s, n + 1, "none", before, <<>>) /\ Opened(before, env, n)

\* and where a path or a type has come.
Holding(s, env, n) ==
    \/ Refused(s)
    \/ \E before, path : /\ ScopeIs(s, n + 1, "path", before, path)
                         /\ Opened(before, env, n) /\ RefPath(path)
    \/ \E text : SolIs(s, n + 1, "type", text) /\ Named(text, env, n)

LEMMA OnlyColonsRedirect ==
  ASSUME NEW s, NEW e, NEW R
  PROVE  /\ e.on # "colonId" => SolvesUnder(s, e, R) = Solves(s, e)
         /\ Refused(s) => SolvesUnder(s, e, R) = s
  <1>1. ASSUME e.on # "colonId"
        PROVE  SolvesUnder(s, e, R) = Solves(s, e)
    BY <1>1 DEF SolvesUnder, Solves, OnEvent
  <1>2. ASSUME Refused(s)
        PROVE  SolvesUnder(s, e, R) = s
    <2>1. ~ s.good
      BY <1>2, RefusedStays
    <2> QED
      BY <2>1, Zenon DEF SolvesUnder, OnEvent
  <1> QED
    BY <1>1, <1>2

LEMMA RootHolds ==
  ASSUME NEW types, Generated(types), NEW env \in Sessions(types), NEW R,
         NEW s, NEW n \in Nat, Opening(s, env, n), NEW id, IsId(id)
  PROVE  Holding(SolvesUnder(s, Event("rootId", id), R), env, n)
  <1> DEFINE e == Event("rootId", id)
             new == SolvesUnder(s, e, R)
  <1>1. new = Solves(s, e)
    <2>1. e.on # "colonId"
      BY DEF Event
    <2> QED
      BY <2>1, OnlyColonsRedirect
  <1>2. CASE Refused(s)
    BY <1>1, <1>2, RefusedSolves DEF Holding
  <1>3. ASSUME NEW before, ScopeIs(s, n + 1, "none", before, <<>>), Opened(before, env, n)
        PROVE  Holding(new, env, n)
    <2>1. SolIs(s, n + 1, "none", before \o <<>>) /\ before \in Seq(Int)
      BY <1>3, ScopeIsSol
    <2>2. before \o <<>> = before
      BY <2>1, NothingAfter
    <2>3. Named(before \o <<id>>, env, n)
      BY <1>3, RootNames
    <2>4. CASE IsDollar(id)
      <3>1. SolIs(new, n + 1, "type", before \o <<id>>)
        BY <1>1, <2>1, <2>2, <2>4, SolvesRoot
      <3> QED
        BY <2>3, <3>1 DEF Holding
    <2>5. CASE ~ IsDollar(id)
      <3> DEFINE more == <<id>>
                 nil == <<>>
      <3>1. s.good = TRUE
        <4>1. PICK low \in Seq(ScopeSet), u \in ScopeSet : s = Solver(TRUE, Append(low, u))
          BY <1>3 DEF ScopeIs
        <4> QED
          BY <4>1, SolverFields, Zenon
      <3>2. new = rootId(s, id, Nothing)
        BY <1>1, <3>1, EventArms, Zenon
      <3>3. rootId(s, id, Nothing) = mark(emit(s, more), "path")
        <4>1. id \notin DOMAIN Nothing
          BY DEF Nothing
        <4> QED
          BY <2>5, <4>1, Zenon DEF rootId
      <3>4. more \in Seq(Int) /\ nil \o more = more
        BY DEF IsId
      <3>5. RefPath(more)
        BY <2>5, RefPathGrows DEF IsId
      <3> HIDE DEF more
      <3>6. ScopeIs(emit(s, more), n + 1, "none", before, nil \o more)
        BY <1>3, <3>4, ScopeWrites
      <3>7. ScopeIs(mark(emit(s, more), "path"), n + 1, "path", before, more)
        <4> DEFINE u == emit(s, more)
        <4>1. ScopeIs(u, n + 1, "none", before, more)
          BY <3>4, <3>6
        <4> HIDE DEF u
        <4>2. ScopeIs(mark(u, "path"), n + 1, "path", before, more)
          BY <4>1, ScopeWrites
        <4> QED
          BY <4>2 DEF u
      <3> QED
        BY <1>3, <3>2, <3>3, <3>5, <3>7 DEF Holding
    <2> QED
      BY <2>4, <2>5
  <1> QED
    BY <1>2, <1>3 DEF Opening

LEMMA SlashHolds ==
  ASSUME NEW env, NEW R, NEW s, NEW n \in Nat, Holding(s, env, n), NEW id, IsName(id)
  PROVE  Holding(SolvesUnder(s, Event("slashId", id), R), env, n)
  <1> DEFINE e == Event("slashId", id)
             new == SolvesUnder(s, e, R)
  <1>1. new = Solves(s, e)
    <2>1. e.on # "colonId"
      BY DEF Event
    <2> QED
      BY <2>1, OnlyColonsRedirect
  <1>2. CASE Refused(s)
    BY <1>1, <1>2, RefusedSolves DEF Holding
  <1>3. ASSUME NEW before, NEW path, ScopeIs(s, n + 1, "path", before, path),
               Opened(before, env, n), RefPath(path)
        PROVE  Holding(new, env, n)
    <2> DEFINE more == <<Slash, id>>
    <2>1. SolIs(s, n + 1, "path", before \o path)
      BY <1>3, ScopeIsSol
    <2>2. s.good = TRUE /\ expect(s, {"path"}) = s
      <3>1. expect(s, {"path"}) = s
        BY <2>1, Expects
      <3>2. PICK low \in Seq(ScopeSet), u \in ScopeSet : s = Solver(TRUE, Append(low, u))
        BY <1>3 DEF ScopeIs
      <3> QED
        BY <3>1, <3>2, SolverFields, Zenon
    <2>3. new = emit(s, more)
      BY <1>1, <2>2, EventArms
    <2>4. more \in Seq(Int)
      BY DEF Slash, IsName
    <2>5. RefPath(path \o more)
      BY <1>3, RefPathGrows
    <2> HIDE DEF more
    <2>6. ScopeIs(new, n + 1, "path", before, path \o more)
      BY <1>3, <2>3, <2>4, ScopeWrites
    <2> QED
      BY <1>3, <2>5, <2>6 DEF Holding
  <1>4. ASSUME NEW text, SolIs(s, n + 1, "type", text)
        PROVE  Holding(new, env, n)
    <2> DEFINE l == "type"
    <2>1. l # "path" /\ SolIs(s, n + 1, l, text)
      BY <1>4
    <2> HIDE DEF l
    <2>2. Refused(Solves(s, Event("slashId", id)))
      BY <2>1, SolvesSuffix
    <2> QED
      BY <1>1, <2>2 DEF Holding
  <1> QED
    BY <1>2, <1>3, <1>4 DEF Holding

LEMMA ColonHolds ==
  ASSUME NEW types, Generated(types), NEW env \in Sessions(types), NEW R, PathsToPaths(R),
         NEW s, NEW n \in Nat, Holding(s, env, n), NEW id, IsName(id)
  PROVE  Holding(SolvesUnder(s, Event("colonId", id), R), env, n)
  <1> DEFINE e == Event("colonId", id)
             new == SolvesUnder(s, e, R)
             more == <<Colon, id>>
  <1>1. s.good = TRUE =>
            new = mark(emit(handleRedirectsIfPath(expect(s, {"path"}), R), more), "type")
    BY DEF SolvesUnder, OnEvent, Event
  <1>2. CASE Refused(s)
    BY <1>2, OnlyColonsRedirect DEF Holding
  <1>3. more \in Seq(Int)
    BY DEF Colon, IsName
  <1> HIDE DEF more, new
  <1>4. ASSUME NEW before, NEW path, ScopeIs(s, n + 1, "path", before, path),
               Opened(before, env, n), RefPath(path)
        PROVE  Holding(new, env, n)
    <2> DEFINE to == Resolve(R, path)
               h == handleRedirectsIfPath(s, R)
    <2>1. SolIs(s, n + 1, "path", before \o path)
      BY <1>4, ScopeIsSol
    <2>2. s.good = TRUE /\ expect(s, {"path"}) = s
      <3>1. expect(s, {"path"}) = s
        BY <2>1, Expects
      <3>2. PICK low \in Seq(ScopeSet), u \in ScopeSet : s = Solver(TRUE, Append(low, u))
        BY <1>4 DEF ScopeIs
      <3> QED
        BY <3>1, <3>2, SolverFields, Zenon
    <2>3. RefPath(to)
      BY <1>4, RedirectedPath
    <2>4. to \in Seq(Int)
      BY <2>3 DEF RefPath
    <2>5. ScopeIs(h, n + 1, "path", before, to)
      BY <1>4, <2>4, ScopeRedirects
    <2>6. new = mark(emit(h, more), "type")
      BY <1>1, <2>2
    <2>7. Named(before \o to, env, n)
      BY <1>4, <2>3, PathNames
    <2> HIDE DEF h, to
    <2>8. SolIs(h, n + 1, "path", before \o to)
      BY <2>5, ScopeIsSol
    <2>9. SolIs(emit(h, more), n + 1, "path", (before \o to) \o more)
      BY <1>3, <2>8, EmitWrites
    <2>10. SolIs(new, n + 1, "type", (before \o to) \o more)
      BY <2>6, <2>9, MarkSets
    <2>11. Named((before \o to) \o more, env, n)
      BY <2>7, SuffixNames DEF more
    <2> QED
      BY <2>10, <2>11 DEF Holding
  <1>5. ASSUME NEW text, SolIs(s, n + 1, "type", text)
        PROVE  Holding(new, env, n)
    <2> DEFINE x == expect(s, {"path"})
               h == handleRedirectsIfPath(x, R)
               w == emit(h, more)
    <2>1. Refused(x) /\ s.good
      BY <1>5, Expects
    <2>2. s.good = TRUE
      <3>1. PICK low \in Seq(ScopeSet), u \in ScopeSet : s = Solver(TRUE, Append(low, u))
        BY <1>5 DEF SolIs
      <3> QED
        BY <3>1, SolverFields, Zenon
    <2>3. new = mark(w, "type")
      BY <1>1, <2>2
    <2> HIDE DEF x
    <2>4. Refused(h)
      BY <2>1, ScopeRedirects
    <2> HIDE DEF h
    <2>5. Refused(w)
      BY <2>4, RefusedStays
    <2> HIDE DEF w
    <2>6. Refused(new)
      BY <2>3, <2>5, RefusedStays
    <2> QED
      BY <2>6 DEF Holding
  <1> QED
    BY <1>2, <1>4, <1>5 DEF Holding, new

LEMMA DblColonHolds ==
  ASSUME NEW env, NEW R, NEW s, NEW n \in Nat, Holding(s, env, n), NEW id, IsName(id)
  PROVE  Holding(SolvesUnder(s, Event("dblColonId", id), R), env, n)
  <1> DEFINE e == Event("dblColonId", id)
             new == SolvesUnder(s, e, R)
  <1>1. new = Solves(s, e)
    <2>1. e.on # "colonId"
      BY DEF Event
    <2> QED
      BY <2>1, OnlyColonsRedirect
  <1>2. CASE Refused(s)
    BY <1>1, <1>2, RefusedSolves DEF Holding
  <1>3. ASSUME NEW before, NEW path, ScopeIs(s, n + 1, "path", before, path)
        PROVE  Holding(new, env, n)
    <2> DEFINE l == "path"
    <2>1. l # "type" /\ SolIs(s, n + 1, l, before \o path)
      BY <1>3, ScopeIsSol
    <2> HIDE DEF l
    <2>2. Refused(Solves(s, Event("dblColonId", id)))
      BY <2>1, SolvesSuffix
    <2> QED
      BY <1>1, <2>2 DEF Holding
  <1>4. ASSUME NEW text, SolIs(s, n + 1, "type", text), Named(text, env, n)
        PROVE  Holding(new, env, n)
    <2>1. SolIs(new, n + 1, "type", text \o <<DblColon, id>>)
      BY <1>1, <1>4, SolvesSuffix
    <2>2. Named(text \o <<DblColon, id>>, env, n)
      BY <1>4, SuffixNames
    <2> QED
      BY <2>1, <2>2 DEF Holding
  <1> QED
    BY <1>2, <1>3, <1>4 DEF Holding

LEMMA BracketHolds ==
  ASSUME NEW env, NEW R, NEW s, NEW n \in Nat, Holding(s, env, n)
  PROVE  /\ Opening(SolvesUnder(s, Event("openTypeArgs", OpenArgs), R), env, n + 1)
         /\ n > 0 =>
                /\ Opening(SolvesUnder(s, Event("typeArgsArgDelimiter", Comma), R), env, n)
                /\ Holding(SolvesUnder(s, Event("closeTypeArgs", CloseArgs), R), env, n - 1)
  <1> DEFINE opened == Solves(s, Event("openTypeArgs", OpenArgs))
             next == Solves(s, Event("typeArgsArgDelimiter", Comma))
             closed == Solves(s, Event("closeTypeArgs", CloseArgs))
  <1>1. /\ SolvesUnder(s, Event("openTypeArgs", OpenArgs), R) = opened
        /\ SolvesUnder(s, Event("typeArgsArgDelimiter", Comma), R) = next
        /\ SolvesUnder(s, Event("closeTypeArgs", CloseArgs), R) = closed
    <2>1. \A on, id : Event(on, id).on = on
      BY DEF Event
    <2> QED
      BY <2>1, OnlyColonsRedirect
  <1> SUFFICES /\ Opening(opened, env, n + 1)
               /\ n > 0 => Opening(next, env, n) /\ Holding(closed, env, n - 1)
    BY <1>1
  <1>2. CASE Refused(s)
    <2>1. Refused(opened) /\ Refused(next) /\ Refused(closed)
      BY <1>2, RefusedSolves
    <2> QED
      BY <2>1 DEF Opening, Holding
  <1>3. ASSUME NEW before, NEW path, ScopeIs(s, n + 1, "path", before, path)
        PROVE  Refused(opened) /\ Refused(next) /\ Refused(closed)
    <2>1. SolIs(s, n + 1, "path", before \o path) /\ n + 1 \in Nat
      BY <1>3, ScopeIsSol
    <2> QED
      BY <2>1, SolvesBracket
  <1>4. ASSUME NEW text, SolIs(s, n + 1, "type", text), Named(text, env, n)
        PROVE  /\ Opening(opened, env, n + 1)
               /\ n > 0 => Opening(next, env, n) /\ Holding(closed, env, n - 1)
    <2> DEFINE m == n + 1
    <2>0. m \in Nat /\ SolIs(s, m, "type", text)
      BY <1>4
    <2>1. s.good = TRUE /\ expect(s, {"type"}) = s
      <3>1. expect(s, {"type"}) = s
        BY <1>4, Expects
      <3>2. PICK low \in Seq(ScopeSet), u \in ScopeSet : s = Solver(TRUE, Append(low, u))
        BY <1>4 DEF SolIs
      <3> QED
        BY <3>1, <3>2, SolverFields, Zenon
    <2>2. <<OpenArgs>> \in Seq(Int) /\ <<Comma>> \in Seq(Int)
      BY DEF OpenArgs, Comma
    <2>3. Opening(opened, env, n + 1)
      <3>1. opened = beginScope(emit(s, <<OpenArgs>>))
        BY <2>1, EventArms
      <3>2. SolIs(emit(s, <<OpenArgs>>), m, "type", text \o <<OpenArgs>>)
        BY <2>0, <2>2, EmitWrites
      <3>3. ScopeIs(opened, m + 1, "none", text \o <<OpenArgs>>, <<>>)
        BY <2>0, <3>1, <3>2, ScopeBegun
      <3>4. Opened(text \o <<OpenArgs>>, env, n + 1)
        BY <1>4, BracketNames
      <3> QED
        BY <3>3, <3>4 DEF Opening
    <2>4. ASSUME n > 0
          PROVE  Opening(next, env, n)
      <3> DEFINE u == endScopeAndEmit(s)
      <3>1. next = beginScope(emit(u, <<Comma>>))
        BY <2>1, EventArms DEF nextScope
      <3>2. m > 1
        BY <2>4
      <3>3. PICK k \in {"none", "path", "type"} : SolIs(u, m - 1, k, text)
        BY <2>0, <3>2, ScopeCloses
      <3> HIDE DEF u
      <3>4. SolIs(emit(u, <<Comma>>), n, k, text \o <<Comma>>)
        <4>1. SolIs(u, n, k, text)
          BY <3>3
        <4> QED
          BY <2>2, <4>1, EmitWrites
      <3>5. ScopeIs(next, n + 1, "none", text \o <<Comma>>, <<>>)
        BY <3>1, <3>4, ScopeBegun
      <3>6. Opened(text \o <<Comma>>, env, n)
        BY <1>4, <2>4, BracketNames
      <3> QED
        BY <3>5, <3>6 DEF Opening
    <2>5. ASSUME n > 0
          PROVE  Holding(closed, env, n - 1)
      <3>1. m > 1 /\ m - 1 = (n - 1) + 1
        BY <2>5
      <3>2. SolIs(closed, m - 1, "type", text \o <<CloseArgs>>)
        BY <2>0, <3>1, SolvesBracket
      <3>3. Named(text \o <<CloseArgs>>, env, n - 1)
        BY <1>4, <2>5, BracketNames
      <3>4. SolIs(closed, (n - 1) + 1, "type", text \o <<CloseArgs>>)
        BY <3>1, <3>2
      <3> QED
        BY <3>3, <3>4 DEF Holding
    <2> QED
      BY <2>3, <2>4, <2>5
  <1> QED
    BY <1>2, <1>3, <1>4 DEF Holding, Opening

LEMMA OneTokenMore ==
  ASSUME NEW sym \in Seq(Int), NEW k \in 0..Len(sym) - 1
  PROVE  SubSeq(sym, 1, k + 1) = Append(SubSeq(sym, 1, k), sym[k + 1])
  <1> DEFINE p == SubSeq(sym, 1, k)
             q == SubSeq(sym, 1, k + 1)
             w == Append(p, sym[k + 1])
  <1>1. k \in Nat /\ k \in 0..Len(sym) /\ k + 1 \in 0..Len(sym) /\ sym[k + 1] \in Int
    OBVIOUS
  <1>2. p \in Seq(Int) /\ Len(p) = k /\ \A i \in 1..k : p[i] = sym[i]
    BY <1>1, FrontIs
  <1>3. q \in Seq(Int) /\ Len(q) = k + 1 /\ \A i \in 1..k + 1 : q[i] = sym[i]
    BY <1>1, FrontIs
  <1> HIDE DEF p, q
  <1>4. w \in Seq(Int) /\ Len(w) = k + 1 /\ w[k + 1] = sym[k + 1] /\ \A i \in 1..k : w[i] = p[i]
    BY <1>1, <1>2, AppendProperties
  <1> HIDE DEF w
  <1>5. ASSUME NEW i \in 1..k + 1
        PROVE  q[i] = w[i]
    <2>1. i \in 1..k \/ i = k + 1
      BY <1>1
    <2> QED
      BY <1>2, <1>3, <1>4, <2>1
  <1>6. q = w
    BY <1>3, <1>4, <1>5, SeqEqual
  <1> QED
    BY <1>6 DEF p, q, w

\* How many brackets are open after a token more.
LEMMA DepthOfOneMore ==
  ASSUME NEW sym \in Seq(Int), NEW k \in 0..Len(sym) - 1
  PROVE  /\ Depth(sym, k) \in Int
         /\ Depth(sym, k + 1) = Depth(sym, k) + (IF sym[k + 1] = OpenArgs THEN 1
                                                 ELSE IF sym[k + 1] = CloseArgs THEN -1 ELSE 0)
  <1>1. ASSUME NEW bracket
        PROVE  /\ Brackets(sym, k, bracket) \in Nat
               /\ Brackets(sym, k + 1, bracket)
                    = Brackets(sym, k, bracket) + (IF sym[k + 1] = bracket THEN 1 ELSE 0)
    <2> DEFINE S == {i \in 1..k : sym[i] = bracket}
               T == {i \in 1..k + 1 : sym[i] = bracket}
    <2>1. k \in Nat
      OBVIOUS
    <2>2. IsFiniteSet(S) /\ k + 1 \notin S
      <3>1. IsFiniteSet(1..k)
        BY <2>1, FS_Interval
      <3>2. S \in SUBSET (1..k)
        OBVIOUS
      <3> HIDE DEF S
      <3>3. k + 1 \notin 1..k
        BY <2>1
      <3> QED
        BY <3>1, <3>2, <3>3, FS_Subset
    <2>3. T = IF sym[k + 1] = bracket THEN S \cup {k + 1} ELSE S
      BY <2>1
    <2> HIDE DEF S, T
    <2>4. Cardinality(S) \in Nat /\ Cardinality(S \cup {k + 1}) = Cardinality(S) + 1
      BY <2>2, FS_CardinalityType, FS_AddElement
    <2>5. Cardinality(T) = Cardinality(S) + (IF sym[k + 1] = bracket THEN 1 ELSE 0)
      BY <2>3, <2>4
    <2> QED
      BY <2>4, <2>5 DEF Brackets, S, T
  <1> DEFINE a == Brackets(sym, k, OpenArgs)
             b == Brackets(sym, k, CloseArgs)
  <1>2. /\ a \in Nat /\ b \in Nat
        /\ Brackets(sym, k + 1, OpenArgs) = a + (IF sym[k + 1] = OpenArgs THEN 1 ELSE 0)
        /\ Brackets(sym, k + 1, CloseArgs) = b + (IF sym[k + 1] = CloseArgs THEN 1 ELSE 0)
    BY <1>1
  <1>3. Depth(sym, k) = a - b
        /\ Depth(sym, k + 1) = Brackets(sym, k + 1, OpenArgs) - Brackets(sym, k + 1, CloseArgs)
    BY DEF Depth
  <1> HIDE DEF a, b
  <1>4. OpenArgs # CloseArgs
    BY DEF OpenArgs, CloseArgs
  <1> QED
    BY <1>2, <1>3, <1>4

\* What has been made of the beginning of a symbol, where no mark awaits a name.
SymbolRead(sym, k, env, R) ==
    /\ Depth(sym, k) \in Nat
    /\ IF k = 0 \/ sym[k] \in {OpenArgs, Comma}
       THEN /\ ReadIn(SubSeq(sym, 1, k), "rootId")
            /\ Opening(SolUnder(SubSeq(sym, 1, k), R), env, Depth(sym, k))
       ELSE /\ \E mode : ReadIn(SubSeq(sym, 1, k), mode)
            /\ Holding(SolUnder(SubSeq(sym, 1, k), R), env, Depth(sym, k))

\* The tokens of a specifier.
LEMMA TokenKinds ==
  ASSUME NEW sym, IsSpecifier(sym), NEW i \in 1..Len(sym)
  PROVE  /\ sym \in Seq(Int) /\ sym[i] \in Int
         /\ \/ IsId(sym[i]) /\ (i = 1 \/ sym[i - 1] \in {OpenArgs, Comma})
            \/ i > 1 /\ IsName(sym[i]) /\ sym[i - 1] \in {Slash, Colon, DblColon}
            \/ /\ i > 1 /\ (IsId(sym[i - 1]) \/ sym[i - 1] = CloseArgs)
               /\ sym[i] \in {Slash, Colon, DblColon, OpenArgs}
            \/ /\ i > 1 /\ (IsId(sym[i - 1]) \/ sym[i - 1] = CloseArgs)
               /\ sym[i] \in {Comma, CloseArgs} /\ Depth(sym, i - 1) > 0
         /\ IsId(sym[Len(sym)]) \/ sym[Len(sym)] = CloseArgs
         /\ Depth(sym, Len(sym)) = 0 /\ Len(sym) \in Nat /\ Len(sym) > 0
  <1>1. sym \in Seq(Int)
    BY DEF IsSpecifier
  <1>2. DOMAIN sym = 1..Len(sym) /\ sym[i] \in Int /\ Len(sym) \in Nat /\ Len(sym) > 0
    BY <1>1
  <1> QED
    BY <1>1, <1>2 DEF IsSpecifier

\* Tokens of one kind are not of another.
LEMMA KindsDiffer ==
  ASSUME NEW t, IsId(t) \/ t = CloseArgs
  PROVE  t \notin {Slash, Colon, DblColon, OpenArgs, Comma}
  BY DEF IsId, IsName, IsDollar, HereId, CloseArgs, Slash, Colon, DblColon, OpenArgs, Comma

LEMMA MarksDiffer ==
  ASSUME NEW t \in {Slash, Colon, DblColon}
  PROVE  ~ IsId(t) /\ t \notin {OpenArgs, Comma, CloseArgs}
  BY DEF IsId, IsName, IsDollar, HereId, CloseArgs, Slash, Colon, DblColon, OpenArgs, Comma

\* An identifier, a bracket or a comma more.
LEMMA SymbolReadOne ==
  ASSUME NEW types, Generated(types), NEW env \in Sessions(types), NEW R, PathsToPaths(R),
         NEW sym, IsSpecifier(sym), NEW k \in 0..Len(sym) - 1, SymbolRead(sym, k, env, R),
         sym[k + 1] \notin {Slash, Colon, DblColon},
         k = 0 \/ sym[k] \notin {Slash, Colon, DblColon}
  PROVE  SymbolRead(sym, k + 1, env, R)
  <1> DEFINE i == k + 1
             p == SubSeq(sym, 1, k)
             d == Depth(sym, k)
             t == sym[i]
             s == SolUnder(p, R)
             start == k = 0 \/ sym[k] \in {OpenArgs, Comma}
  <1>0. sym \in Seq(Int) /\ Len(sym) \in Nat
    BY DEF IsSpecifier
  <1>1. k \in Nat /\ i \in 1..Len(sym) /\ i - 1 = k /\ i # 0 /\ (i = 1 <=> k = 0) /\ (i > 1 <=> k # 0)
    BY <1>0
  <1>2. /\ t \in Int
        /\ \/ IsId(t) /\ start
           \/ /\ k # 0 /\ (IsId(sym[k]) \/ sym[k] = CloseArgs) /\ t = OpenArgs
           \/ /\ k # 0 /\ (IsId(sym[k]) \/ sym[k] = CloseArgs)
              /\ t \in {Comma, CloseArgs} /\ d > 0
    <2>1. /\ sym[i] \in Int
          /\ \/ IsId(sym[i]) /\ (i = 1 \/ sym[i - 1] \in {OpenArgs, Comma})
             \/ i > 1 /\ IsName(sym[i]) /\ sym[i - 1] \in {Slash, Colon, DblColon}
             \/ /\ i > 1 /\ (IsId(sym[i - 1]) \/ sym[i - 1] = CloseArgs)
                /\ sym[i] \in {Slash, Colon, DblColon, OpenArgs}
             \/ /\ i > 1 /\ (IsId(sym[i - 1]) \/ sym[i - 1] = CloseArgs)
                /\ sym[i] \in {Comma, CloseArgs} /\ Depth(sym, i - 1) > 0
      BY <1>1, TokenKinds
    <2> HIDE DEF i
    <2> QED
      BY <1>1, <2>1 DEF i
  <1>3. d \in Nat /\ SubSeq(sym, 1, i) = Append(p, t)
        /\ Depth(sym, i) = d + (IF t = OpenArgs THEN 1 ELSE IF t = CloseArgs THEN -1 ELSE 0)
    BY <1>0, OneTokenMore, DepthOfOneMore DEF SymbolRead
  <1>4. IF start THEN ReadIn(p, "rootId") /\ Opening(s, env, d)
                 ELSE (\E mode : ReadIn(p, mode)) /\ Holding(s, env, d)
    BY DEF SymbolRead
  <1>5. SymbolRead(sym, i, env, R)
            <=> /\ Depth(sym, i) \in Nat
                /\ IF t \in {OpenArgs, Comma}
                   THEN /\ ReadIn(Append(p, t), "rootId")
                        /\ Opening(SolUnder(Append(p, t), R), env, Depth(sym, i))
                   ELSE /\ \E mode : ReadIn(Append(p, t), mode)
                        /\ Holding(SolUnder(Append(p, t), R), env, Depth(sym, i))
    BY <1>1, <1>3 DEF SymbolRead
  <1> HIDE DEF i, p, d, t, s
  <1>6. CASE IsId(t) /\ start
    <2>1. t \notin {OpenArgs, Comma, CloseArgs}
      BY <1>6 DEF IsId, IsName, IsDollar, HereId, OpenArgs, Comma, CloseArgs
    <2>2. Depth(sym, i) = d
      BY <1>3, <2>1
    <2>3. ReadIn(p, "rootId") /\ Opening(s, env, d)
      BY <1>4, <1>6
    <2>4. ReadIn(Append(p, t), "rootId")
      BY <1>6, <2>3, ReadsId
    <2>5. SolUnder(Append(p, t), R) = SolvesUnder(s, Event("rootId", t), R)
      BY <1>6, <2>3, SolUnderReads DEF s
    <2>6. Holding(SolUnder(Append(p, t), R), env, d)
      BY <1>3, <1>6, <2>3, <2>5, RootHolds
    <2> HIDE DEF start
    <2> QED
      BY <1>3, <1>5, <2>1, <2>2, <2>4, <2>6 DEF i
  <1>7. ASSUME k # 0, IsId(sym[k]) \/ sym[k] = CloseArgs
        PROVE  (\E mode : ReadIn(p, mode)) /\ Holding(s, env, d)
    <2>1. ~ start
      BY <1>7, KindsDiffer
    <2> QED
      BY <1>4, <2>1
  <1> HIDE DEF start
  <1>8. CASE k # 0 /\ (IsId(sym[k]) \/ sym[k] = CloseArgs) /\ t = OpenArgs
    <2>1. PICK mode : ReadIn(p, mode)
      BY <1>7, <1>8
    <2>2. Holding(s, env, d)
      BY <1>7, <1>8
    <2>3. ReadIn(Append(p, t), "rootId")
          /\ SolUnder(Append(p, t), R) = SolvesUnder(s, Event("openTypeArgs", OpenArgs), R)
      BY <1>8, <2>1, ReadsBracket, SolUnderReads DEF s
    <2>4. Opening(SolUnder(Append(p, t), R), env, d + 1)
      BY <1>3, <2>2, <2>3, BracketHolds
    <2>5. Depth(sym, i) = d + 1 /\ d + 1 \in Nat
      BY <1>3, <1>8
    <2> QED
      BY <1>5, <1>8, <2>3, <2>4, <2>5 DEF i
  <1>9. CASE k # 0 /\ (IsId(sym[k]) \/ sym[k] = CloseArgs) /\ t = Comma /\ d > 0
    <2>1. PICK mode : ReadIn(p, mode)
      BY <1>7, <1>9
    <2>2. Holding(s, env, d)
      BY <1>7, <1>9
    <2>3. ReadIn(Append(p, t), "rootId")
          /\ SolUnder(Append(p, t), R) = SolvesUnder(s, Event("typeArgsArgDelimiter", Comma), R)
      BY <1>9, <2>1, ReadsBracket, SolUnderReads DEF s
    <2>4. Opening(SolUnder(Append(p, t), R), env, d)
      BY <1>3, <1>9, <2>2, <2>3, BracketHolds
    <2>5. Depth(sym, i) = d
      BY <1>3, <1>9 DEF Comma, OpenArgs, CloseArgs
    <2> QED
      BY <1>3, <1>5, <1>9, <2>3, <2>4, <2>5 DEF i
  <1>10. CASE k # 0 /\ (IsId(sym[k]) \/ sym[k] = CloseArgs) /\ t = CloseArgs /\ d > 0
    <2>1. PICK mode : ReadIn(p, mode)
      BY <1>7, <1>10
    <2>2. Holding(s, env, d)
      BY <1>7, <1>10
    <2>3. ReadIn(Append(p, t), mode)
          /\ SolUnder(Append(p, t), R) = SolvesUnder(s, Event("closeTypeArgs", CloseArgs), R)
      BY <1>10, <2>1, ReadsBracket, SolUnderReads DEF s
    <2>4. Holding(SolUnder(Append(p, t), R), env, d - 1)
      BY <1>3, <1>10, <2>2, <2>3, BracketHolds
    <2>5. Depth(sym, i) = d - 1 /\ d - 1 \in Nat /\ t \notin {OpenArgs, Comma}
      BY <1>3, <1>10 DEF Comma, OpenArgs, CloseArgs
    <2> QED
      BY <1>5, <2>3, <2>4, <2>5 DEF i
  <1> QED
    BY <1>2, <1>6, <1>8, <1>9, <1>10 DEF i

\* A mark and a name more.
LEMMA SymbolReadTwo ==
  ASSUME NEW types, Generated(types), NEW env \in Sessions(types), NEW R, PathsToPaths(R),
         NEW sym, IsSpecifier(sym), NEW k \in 1..Len(sym) - 2, SymbolRead(sym, k, env, R),
         IsId(sym[k]) \/ sym[k] = CloseArgs,
         sym[k + 1] \in {Slash, Colon, DblColon}, IsName(sym[k + 2])
  PROVE  SymbolRead(sym, k + 2, env, R)
  <1> DEFINE p == SubSeq(sym, 1, k)
             d == Depth(sym, k)
             mk == sym[k + 1]
             id == sym[k + 2]
             q == Append(p, mk)
             s == SolUnder(p, R)
             next == IF mk = Slash THEN "slashId" ELSE IF mk = Colon THEN "colonId" ELSE "dblColonId"
  <1>0. sym \in Seq(Int) /\ Len(sym) \in Nat
    BY DEF IsSpecifier
  <1>1. /\ k \in Nat /\ k # 0 /\ k + 2 # 0 /\ k \in 0..Len(sym) - 1 /\ k + 1 \in 0..Len(sym) - 1
        /\ (k + 1) + 1 = k + 2
    BY <1>0
  <1>2. SubSeq(sym, 1, k + 1) = q /\ SubSeq(sym, 1, k + 2) = Append(q, id)
    <2>1. SubSeq(sym, 1, k + 1) = q
      BY <1>0, <1>1, OneTokenMore
    <2>2. SubSeq(sym, 1, (k + 1) + 1) = Append(SubSeq(sym, 1, k + 1), sym[(k + 1) + 1])
      BY <1>0, <1>1, OneTokenMore
    <2> QED
      BY <1>1, <2>1, <2>2
  <1>3. /\ mk \notin {OpenArgs, Comma, CloseArgs} /\ id \notin {OpenArgs, Comma, CloseArgs}
        /\ IsId(id) /\ id \in Int
    <2>1. mk \notin {OpenArgs, Comma, CloseArgs}
      BY MarksDiffer
    <2>2. IsId(id) /\ id \in Int
      BY DEF IsId, IsName
    <2> QED
      BY <2>1, <2>2 DEF IsName, OpenArgs, Comma, CloseArgs
  <1>4. Depth(sym, k + 2) = d /\ d \in Nat
    <2>1. Depth(sym, k) \in Int /\ Depth(sym, k + 1) = Depth(sym, k)
      BY <1>0, <1>1, <1>3, DepthOfOneMore
    <2>2. Depth(sym, (k + 1) + 1) = Depth(sym, k + 1) + 0
      BY <1>0, <1>1, <1>3, DepthOfOneMore
    <2> QED
      BY <1>1, <2>1, <2>2 DEF SymbolRead
  <1>5. (\E mode : ReadIn(p, mode)) /\ Holding(s, env, d)
    <2>1. ~ (k = 0 \/ sym[k] \in {OpenArgs, Comma})
      BY <1>1, KindsDiffer
    <2> QED
      BY <2>1 DEF SymbolRead
  <1>6. PICK mode : ReadIn(p, mode)
    BY <1>5
  <1> HIDE DEF p, d, mk, id, s
  <1>7. ReadIn(q, next) /\ SolUnder(q, R) = s
    BY <1>6, ReadsMark, SolUnderReads DEF s, mk
  <1> HIDE DEF q
  <1>8. ReadIn(Append(q, id), next)
        /\ SolUnder(Append(q, id), R) = SolvesUnder(s, Event(next, id), R)
    BY <1>3, <1>7, ReadsId, SolUnderReads
  <1>9. Holding(SolvesUnder(s, Event(next, id), R), env, d)
    <2>1. CASE mk = Slash
      BY <1>4, <1>5, <2>1, SlashHolds DEF id
    <2>2. CASE mk = Colon
      <3>1. next = "colonId"
        BY <2>2 DEF Slash, Colon
      <3> QED
        BY <1>4, <1>5, <3>1, ColonHolds DEF id
    <2>3. CASE mk = DblColon
      <3>1. next = "dblColonId"
        BY <2>3 DEF Slash, Colon, DblColon
      <3> QED
        BY <1>4, <1>5, <3>1, DblColonHolds DEF id
    <2> QED
      BY <2>1, <2>2, <2>3 DEF mk
  <1> HIDE DEF next
  <1> DEFINE r == Append(q, id)
  <1>10. (\E m : ReadIn(r, m)) /\ Holding(SolUnder(r, R), env, d)
    BY <1>8, <1>9
  <1>11. SubSeq(sym, 1, k + 2) = r /\ ~ (k + 2 = 0 \/ sym[k + 2] \in {OpenArgs, Comma})
    BY <1>1, <1>2, <1>3 DEF id
  <1> HIDE DEF r
  <1> QED
    BY <1>4, <1>10, <1>11 DEF SymbolRead

\* Nothing has been read of it yet.
LEMMA SymbolReadNone ==
  ASSUME NEW sym, NEW env, NEW R
  PROVE  SymbolRead(sym, 0, env, R)
  <1> DEFINE nil == <<>>
  <1>1. SubSeq(sym, 1, 0) = nil
    OBVIOUS
  <1>2. ReadIn(nil, "rootId") /\ Stk(nil, env) = nil /\ SolUnder(nil, R) = Scopes
    BY ReadNothing, SolUnderStarts
  <1>3. Depth(sym, 0) = 0
    <2>1. \A b : {i \in 1..0 : sym[i] = b} = {}
      OBVIOUS
    <2>2. Cardinality({}) = 0
      BY FS_EmptySet
    <2>3. \A b : Brackets(sym, 0, b) = 0
      BY <2>1, <2>2 DEF Brackets
    <2> QED
      BY <2>3 DEF Depth
  <1>4. Marks(nil, 0) /\ IsSeq(nil) /\ Len(nil) = 0
    BY EmptyMarks, EmptyIsSeq
  <1>5. NoCall(nil) /\ HonestStack(nil)
    BY <1>4 DEF NoCall, HonestStack
  <1>6. ScopeIs(Scopes, 1, "none", nil, nil)
    <2> DEFINE low == [i \in 1..0 |-> [latest |-> "none", output |-> <<>>]]
               e == [latest |-> "none", output |-> <<>>]
    <2>1. [good |-> TRUE, scopes |-> <<>>] = Solver(TRUE, nil)
      BY DEF Solver
    <2> HIDE DEF nil
    <2>2. beginScope(Solver(TRUE, nil)) = Solver(TRUE, Append(nil, e))
      BY SolverOpens
    <2>3. Scopes = Solver(TRUE, Append(nil, e))
      BY <2>1, <2>2, Zenon DEF Scopes
    <2>4. nil \in Seq(ScopeSet) /\ Len(nil) = 0 /\ e.output = nil /\ e.latest = "none"
      BY DEF nil
    <2>5. e \in ScopeSet
      BY ScopeBegins
    <2>6. Joined(nil) = nil
      BY FoldEmpty DEF Joined, nil
    <2> HIDE DEF e
    <2>7. Len(nil) + 1 = 1
      BY <2>4
    <2> QED
      BY <2>3, <2>4, <2>5, <2>6, <2>7, Zenon DEF ScopeIs
  <1> HIDE DEF nil
  <1>7. Opened(nil, env, 0)
    BY <1>2, <1>4, <1>5 DEF Opened
  <1>8. Opening(Scopes, env, 0)
    <2>1. 0 + 1 = 1
      OBVIOUS
    <2> QED
      BY <1>6, <1>7, <2>1 DEF Opening, nil
  <1> DEFINE z == 0
             r == SubSeq(sym, 1, z)
             d == Depth(sym, z)
  <1>9. z = 0 /\ r = nil /\ d = 0
    BY <1>1, <1>3
  <1> HIDE DEF z, r, d
  <1>10. ReadIn(r, "rootId") /\ Opening(SolUnder(r, R), env, d) /\ d \in Nat
    BY <1>2, <1>8, <1>9
  <1>11. SymbolRead(sym, z, env, R)
    BY <1>9, <1>10 DEF SymbolRead, r, d
  <1> QED
    BY <1>9, <1>11

\* The whole of a symbol, token by token.
LEMMA SymbolIsRead ==
  ASSUME NEW types, Generated(types), NEW env \in Sessions(types), NEW R, PathsToPaths(R),
         NEW sym, IsSpecifier(sym)
  PROVE  SymbolRead(sym, Len(sym), env, R)
  <1> DEFINE n == Len(sym)
             marks == {Slash, Colon, DblColon}
             Done(j) == j = 0 \/ sym[j] \notin marks
             T == {k \in 0..n : \A j \in 0..k : Done(j) => SymbolRead(sym, j, env, R)}
  <1>0. sym \in Seq(Int) /\ n \in Nat /\ n > 0
    <2>1. sym \in Seq(Int) /\ sym # <<>>
      BY DEF IsSpecifier
    <2> QED
      BY <2>1
  <1>1. 0 \in T
    <2>1. \A j \in 0..0 : j = 0
      OBVIOUS
    <2> QED
      BY <1>0, <2>1, SymbolReadNone
  <1>2. ASSUME NEW k \in 0..n - 1, k \in T
        PROVE  k + 1 \in T
    <2>1. /\ k \in Nat /\ k + 1 \in 0..n /\ k + 1 \in 1..n /\ k \in 0..n /\ k \in 0..k
          /\ (k + 1) - 1 = k
          /\ \A j \in 0..k + 1 : j \in 0..k \/ j = k + 1
      BY <1>0
    <2>2. ASSUME Done(k + 1)
          PROVE  SymbolRead(sym, k + 1, env, R)
      <3>1. sym[k + 1] \notin marks
        BY <2>1, <2>2
      <3>2. CASE Done(k)
        <4>1. SymbolRead(sym, k, env, R)
          BY <1>2, <2>1, <3>2
        <4>2. k = 0 \/ sym[k] \notin marks
          BY <3>2
        <4>3. k \in 0..Len(sym) - 1
          OBVIOUS
        <4> QED
          BY <3>1, <4>1, <4>2, <4>3, SymbolReadOne
      <3>3. CASE ~ Done(k)
        <4> DEFINE j == k - 1
        <4>1. k # 0 /\ sym[k] \in marks /\ k \in 1..n
          BY <2>1, <3>3
        <4>2. ~ IsId(sym[k]) /\ sym[k] \notin {OpenArgs, Comma, CloseArgs}
          BY <4>1, MarksDiffer
        <4>3. k > 1 /\ (IsId(sym[k - 1]) \/ sym[k - 1] = CloseArgs)
          <5>1. \/ IsId(sym[k]) /\ (k = 1 \/ sym[k - 1] \in {OpenArgs, Comma})
                \/ k > 1 /\ IsName(sym[k]) /\ sym[k - 1] \in {Slash, Colon, DblColon}
                \/ /\ k > 1 /\ (IsId(sym[k - 1]) \/ sym[k - 1] = CloseArgs)
                   /\ sym[k] \in {Slash, Colon, DblColon, OpenArgs}
                \/ /\ k > 1 /\ (IsId(sym[k - 1]) \/ sym[k - 1] = CloseArgs)
                   /\ sym[k] \in {Comma, CloseArgs} /\ Depth(sym, k - 1) > 0
            BY <4>1, TokenKinds
          <5>2. IsName(sym[k]) => IsId(sym[k])
            BY DEF IsId, IsName
          <5> QED
            BY <4>2, <5>1, <5>2
        <4>4. IsName(sym[k + 1])
          <5> DEFINE i == k + 1
          <5>1. i \in 1..n /\ i - 1 = k /\ i # 1
            BY <2>1, <4>1
          <5> HIDE DEF i
          <5>2. \/ IsId(sym[i]) /\ (i = 1 \/ sym[i - 1] \in {OpenArgs, Comma})
                \/ i > 1 /\ IsName(sym[i]) /\ sym[i - 1] \in {Slash, Colon, DblColon}
                \/ /\ i > 1 /\ (IsId(sym[i - 1]) \/ sym[i - 1] = CloseArgs)
                   /\ sym[i] \in {Slash, Colon, DblColon, OpenArgs}
                \/ /\ i > 1 /\ (IsId(sym[i - 1]) \/ sym[i - 1] = CloseArgs)
                   /\ sym[i] \in {Comma, CloseArgs} /\ Depth(sym, i - 1) > 0
            BY <5>1, TokenKinds
          <5>3. IsName(sym[i])
            BY <4>2, <5>1, <5>2
          <5> QED
            BY <5>3 DEF i
        <4>5. /\ j \in 1..Len(sym) - 2 /\ j \in 0..k /\ j # 0
              /\ j + 1 = k /\ j + 2 = k + 1
          BY <1>0, <4>1, <4>3
        <4>6. Done(j)
          <5>1. sym[j] \notin marks
            BY <4>3, KindsDiffer
          <5> QED
            BY <5>1
        <4>7. SymbolRead(sym, j, env, R)
          BY <1>2, <4>5, <4>6
        <4> HIDE DEF j
        <4>8. IsId(sym[j]) \/ sym[j] = CloseArgs
          BY <4>3 DEF j
        <4>9. SymbolRead(sym, j + 2, env, R)
          <5>1. sym[j + 1] \in {Slash, Colon, DblColon} /\ IsName(sym[j + 2])
            BY <4>1, <4>4, <4>5
          <5> QED
            BY <4>5, <4>7, <4>8, <5>1, SymbolReadTwo
        <4> QED
          BY <4>5, <4>9
      <3> QED
        BY <3>2, <3>3
    <2>3. \A j \in 0..k : Done(j) => SymbolRead(sym, j, env, R)
      BY <1>2
    <2> HIDE DEF Done, n
    <2>4. \A j \in 0..k + 1 : Done(j) => SymbolRead(sym, j, env, R)
      BY <2>1, <2>2, <2>3
    <2> QED
      BY <2>1, <2>4
  <1>3. n \in T
    <2>1. n \in 0..n
      BY <1>0
    <2> HIDE DEF T, n
    <2> QED
      BY <1>0, <1>1, <1>2, <2>1, AllNumbers
  <1>4. Done(n)
    <2>1. n \in 1..Len(sym)
      BY <1>0
    <2>2. IsId(sym[n]) \/ sym[n] = CloseArgs
      BY <2>1, TokenKinds
    <2> HIDE DEF n
    <2> QED
      BY <2>2, KindsDiffer
  <1>5. n \in 0..n
    BY <1>0
  <1> HIDE DEF Done
  <1>6. SymbolRead(sym, n, env, R)
    BY <1>3, <1>4, <1>5
  <1> QED
    BY <1>6

--------------------------------------------------------------------------------
(* What a symbol of a loaded type resolves to *)

\* A text without call suffix is kept as it is.
LEMMA NothingRemoved ==
  ASSUME NEW text \in Seq(Int), NoCall(text)
  PROVE  removeCallSuff(text) = text
  <1> DEFINE n == Len(text)
             keeping == [of |-> "keep"]
             Kept(out) == [kept |-> out, ended |-> FALSE]
             r == [k \in 0..n |-> Kept(SubSeq(text, 1, k))]
  <1>1. n \in Nat /\ DOMAIN text = 1..n
    OBVIOUS
  <1>2. removeCallSuff(text) = Fold(keeping, Kept(<<>>), text).kept
    BY ZenonT(60) DEF removeCallSuff, Fold, FoldLeft, MapThenFoldSet, Apply
  <1>3. ASSUME NEW k \in 1..n
        PROVE  Kept(SubSeq(text, 1, k)) = Apply(keeping, Kept(SubSeq(text, 1, k - 1)), text[k])
    <2> DEFINE p == SubSeq(text, 1, k - 1)
               t == text[k]
    <2>1. k - 1 \in 0..Len(text) - 1 /\ (k - 1) + 1 = k
      BY <1>1
    <2>2. SubSeq(text, 1, (k - 1) + 1) = Append(SubSeq(text, 1, k - 1), text[(k - 1) + 1])
      BY <2>1, OneTokenMore
    <2>3. SubSeq(text, 1, k) = Append(p, t)
      BY <2>1, <2>2
    <2>4. t # OpenCall
      BY DEF NoCall
    <2> HIDE DEF p, t, keeping, n, r
    <2>5. Kept(p).ended = FALSE /\ Kept(p).kept = p
      OBVIOUS
    <2>6. \A new : [Kept(p) EXCEPT !.kept = new] = Kept(new)
      <3>1. \A b, new : [[kept |-> p, ended |-> b] EXCEPT !.kept = new]
                          = [kept |-> new, ended |-> b]
        OBVIOUS
      <3> QED
        BY <3>1, Zenon
    <2>7. keeping.of = "keep"
      BY DEF keeping
    <2> DEFINE x == Kept(p)
    <2> HIDE DEF Kept
    <2>8. x.ended = FALSE /\ x.kept = p /\ [x EXCEPT !.kept = Append(p, t)] = Kept(Append(p, t))
      BY <2>5, <2>6
    <2> HIDE DEF x
    <2>9. Apply(keeping, x, t) = IF x.ended \/ t = OpenCall THEN [x EXCEPT !.ended = TRUE]
                                ELSE [x EXCEPT !.kept = Append(@, t)]
      BY <2>7 DEF Apply
    <2>10. Apply(keeping, x, t) = [x EXCEPT !.kept = Append(@, t)]
      BY <2>4, <2>8, <2>9, Zenon
    <2> QED
      BY <2>3, <2>8, <2>10 DEF p, t, x
  <1>4. SubSeq(text, 1, 0) = <<>> /\ SubSeq(text, 1, n) = text
    <2> DEFINE q == SubSeq(text, 1, n)
    <2>1. n \in 0..Len(text)
      BY <1>1
    <2>2. q \in Seq(Int) /\ Len(q) = n /\ \A i \in 1..n : q[i] = text[i]
      BY <2>1, FrontIs
    <2> HIDE DEF q
    <2>3. q = text
      BY <2>2, SeqEqual
    <2>4. SubSeq(text, 1, 0) = <<>>
      OBVIOUS
    <2> QED
      BY <2>3, <2>4 DEF q
  <1> HIDE DEF keeping, n, Kept
  <1>5. IsRunOf(r, keeping, Kept(<<>>), text, n)
    <2>1. r[0] = Kept(<<>>)
      <3>1. 0 \in 0..n
        BY <1>1
      <3>2. r[0] = Kept(SubSeq(text, 1, 0))
        BY <3>1
      <3> HIDE DEF r
      <3> QED
        BY <1>4, <3>2
    <2>2. \A k \in 1..n : r[k] = Kept(SubSeq(text, 1, k)) /\ r[k - 1] = Kept(SubSeq(text, 1, k - 1))
      BY <1>1
    <2> HIDE DEF r
    <2>3. \A k \in 1..n : r[k] = Apply(keeping, r[k - 1], text[k])
      BY <1>3, <2>2
    <2> QED
      BY <2>1, <2>3 DEF IsRunOf
  <1>6. r[n] = Kept(text)
    <2>1. n \in 0..n
      BY <1>1
    <2>2. r[n] = Kept(SubSeq(text, 1, n))
      BY <2>1
    <2> HIDE DEF r
    <2> QED
      BY <1>4, <2>2
  <1> HIDE DEF r
  <1>7. Fold(keeping, Kept(<<>>), text) = Kept(text)
    BY <1>1, <1>5, <1>6, FoldIs
  <1>8. Kept(text).kept = text
    BY DEF Kept
  <1> QED
    BY <1>2, <1>7, <1>8

\* With one scope, what is written is what is in it.
LEMMA OneScope ==
  ASSUME NEW s
  PROVE  /\ \A l, before, out : ScopeIs(s, 1, l, before, out)
                => s.good = TRUE /\ before \o out = out /\ Last(s.scopes).output = out
         /\ \A l, text : SolIs(s, 1, l, text) => s.good = TRUE /\ Last(s.scopes).output = text
  <1>1. ASSUME NEW low \in Seq(ScopeSet), NEW e \in ScopeSet,
               s = Solver(TRUE, Append(low, e)), Len(low) + 1 = 1
        PROVE  s.good = TRUE /\ Joined(low) = <<>> /\ Last(s.scopes) = e
    <2>1. low = <<>>
      <3>1. Len(low) = 0
        BY <1>1
      <3> QED
        BY <3>1
    <2>2. Joined(low) = <<>>
      BY <2>1, FoldEmpty DEF Joined
    <2>3. Last(Append(low, e)) = e
      BY TopScope
    <2>4. s.good = TRUE /\ s.scopes = Append(low, e)
      BY <1>1, SolverFields
    <2> QED
      BY <2>2, <2>3, <2>4
  <1>2. ASSUME NEW l, NEW before, NEW out, ScopeIs(s, 1, l, before, out)
        PROVE  s.good = TRUE /\ before \o out = out /\ Last(s.scopes).output = out
    <2>1. PICK low \in Seq(ScopeSet), e \in ScopeSet :
              /\ s = Solver(TRUE, Append(low, e))
              /\ Len(low) + 1 = 1 /\ Joined(low) = before /\ e.output = out
      BY <1>2 DEF ScopeIs
    <2>2. s.good = TRUE /\ Joined(low) = <<>> /\ Last(s.scopes) = e
      BY <1>1, <2>1
    <2>3. e.output \in Seq(Int)
      BY TopScope
    <2>4. <<>> \o e.output = e.output
      BY <2>3
    <2> QED
      BY <2>1, <2>2, <2>4
  <1>3. ASSUME NEW l, NEW text, SolIs(s, 1, l, text)
        PROVE  s.good = TRUE /\ Last(s.scopes).output = text
    <2>1. PICK low \in Seq(ScopeSet), e \in ScopeSet :
              /\ s = Solver(TRUE, Append(low, e))
              /\ Len(low) + 1 = 1 /\ text = Joined(low) \o e.output
      BY <1>3 DEF SolIs
    <2>2. s.good = TRUE /\ Joined(low) = <<>> /\ Last(s.scopes) = e
      BY <1>1, <2>1
    <2>3. e.output \in Seq(Int)
      BY TopScope
    <2>4. <<>> \o e.output = e.output
      BY <2>3
    <2> QED
      BY <2>1, <2>2, <2>4
  <1> QED
    BY <1>2, <1>3

\* What a symbol is solved to is refused, or names something.
LEMMA SolvedNames ==
  ASSUME NEW types, Generated(types), NEW env \in Sessions(types), NEW R, PathsToPaths(R),
         NEW sym, IsSpecifier(sym)
  PROVE  \/ Solve(sym, Nothing, R) = NoSpec
         \/ Named(Solve(sym, Nothing, R), env, 0)
  <1> DEFINE s == SolUnder(sym, R)
             h == handleRedirectsIfPath(s, R)
  <1>1. (\E mode : ReadIn(sym, mode)) /\ Holding(s, env, 0)
    <2> DEFINE n == Len(sym)
    <2>1. sym \in Seq(Int) /\ n \in Nat /\ n > 0
      <3>1. sym \in Seq(Int) /\ sym # <<>>
        BY DEF IsSpecifier
      <3> QED
        BY <3>1
    <2>2. (IsId(sym[n]) \/ sym[n] = CloseArgs) /\ Depth(sym, n) = 0
      <3>1. n \in 1..Len(sym)
        BY <2>1
      <3> QED
        BY <3>1, TokenKinds
    <2>3. SymbolRead(sym, n, env, R)
      BY SymbolIsRead
    <2>4. SubSeq(sym, 1, n) = sym
      <3> DEFINE q == SubSeq(sym, 1, n)
      <3>1. n \in 0..Len(sym)
        BY <2>1
      <3>2. q \in Seq(Int) /\ Len(q) = n /\ \A i \in 1..n : q[i] = sym[i]
        BY <2>1, <3>1, FrontIs
      <3> HIDE DEF q
      <3>3. q = sym
        BY <2>1, <3>2, SeqEqual
      <3> QED
        BY <3>3 DEF q
    <2>5. ~ (n = 0 \/ sym[n] \in {OpenArgs, Comma})
      BY <2>1, <2>2, KindsDiffer
    <2> HIDE DEF n
    <2> QED
      BY <2>2, <2>3, <2>4, <2>5 DEF SymbolRead
  <1>2. PICK mode : ReadIn(sym, mode)
    BY <1>1
  <1>3. Solve(sym, Nothing, R) = IF s.good THEN Last(h.scopes).output ELSE NoSpec
    BY <1>2, SolveIsUnder
  <1> HIDE DEF s
  <1>4. CASE Refused(s)
    <2>1. ~ s.good
      BY <1>4, RefusedStays
    <2> QED
      BY <1>3, <2>1
  <1>5. ASSUME NEW before, NEW path, ScopeIs(s, 1, "path", before, path),
               Opened(before, env, 0), RefPath(path)
        PROVE  Named(Solve(sym, Nothing, R), env, 0)
    <2> DEFINE to == Resolve(R, path)
    <2>1. RefPath(to)
      BY <1>5, RedirectedPath
    <2>2. to \in Seq(Int)
      BY <2>1 DEF RefPath
    <2>3. ScopeIs(h, 1, "path", before, to)
      BY <1>5, <2>2, ScopeRedirects
    <2>4. Named(before \o to, env, 0)
      BY <1>5, <2>1, PathNames
    <2> HIDE DEF to, h
    <2>5. before \o to = to /\ Last(h.scopes).output = to /\ s.good = TRUE
      <3> DEFINE l == "path"
      <3>1. ScopeIs(s, 1, l, before, path) /\ ScopeIs(h, 1, l, before, to)
        BY <1>5, <2>3
      <3> HIDE DEF l
      <3>2. s.good = TRUE
        BY <3>1, OneScope, Zenon
      <3>4. before \o to = to
        BY <3>1, OneScope, Zenon
      <3>3. Last(h.scopes).output = to
        BY <3>1, OneScope
      <3> QED
        BY <3>2, <3>3, <3>4
    <2> QED
      BY <1>3, <2>4, <2>5
  <1>6. ASSUME NEW text, SolIs(s, 1, "type", text), Named(text, env, 0)
        PROVE  Named(Solve(sym, Nothing, R), env, 0)
    <2>1. h = s
      BY <1>6, ScopeRedirects
    <2>2. s.good = TRUE /\ Last(s.scopes).output = text
      BY <1>6, OneScope
    <2> QED
      BY <1>3, <1>6, <2>1, <2>2
  <1>7. 0 + 1 = 1
    OBVIOUS
  <1> HIDE DEF h
  <1> QED
    BY <1>1, <1>4, <1>5, <1>6, <1>7 DEF Holding

\* What is named is loaded, or is no type.
LEMMA NamedLoads ==
  ASSUME NEW text, NEW env, Named(text, env, 0)
  PROVE  Load(text, env) = NoType \/ HonestType(Load(text, env))
  <1> DEFINE stk == Stk(text, env)
             top == Last(stk)
  <1>1. PICK mode : ReadIn(text, mode)
    BY DEF Named
  <1>2. Eval(text, env) = stk
    BY <1>1, ReadersAre
  <1>3. HonestStack(stk) /\ IsSeq(stk) /\ Len(stk) > 0
    BY DEF Named, Ready, Marks
  <1> HIDE DEF stk
  <1>4. Load(text, env) = IF top.is = "concrete" THEN top.of ELSE NoType
    BY <1>2, <1>3, LoadIs
  <1>5. HonestTerm(top)
    <2>1. Len(stk) \in Nat
      BY <1>3, SeqLength
    <2>2. Len(stk) \in 1..Len(stk)
      BY <1>3, <2>1
    <2> QED
      BY <1>3, <2>2 DEF HonestStack, Last
  <1> HIDE DEF top
  <1> QED
    BY <1>4, <1>5 DEF HonestTerm

LEMMA NothingLoads ==
  ASSUME NEW env
  PROVE  Load(removeCallSuff(NoSpec), env) = NoType
  <1> DEFINE nil == <<>>
             loading == [of |-> "load"]
  <1>1. ReadIn(nil, "rootId") /\ Stk(nil, env) = nil /\ IsSeq(nil) /\ Len(nil) = 0
    BY ReadNothing, EmptyIsSeq
  <1>2. removeCallSuff(nil) = nil
    <2>1. nil \in Seq(Int) /\ NoCall(nil)
      BY DEF NoCall
    <2> HIDE DEF nil
    <2> QED
      BY <2>1, NothingRemoved
  <1>3. Eval(nil, env) = nil
    BY <1>1, ReadersAre
  <1>4. Load(nil, env) = Fold(loading, NoType, Eval(nil, env))
    BY Zenon DEF Load, Fold, FoldLeft, MapThenFoldSet, Apply
  <1>5. Fold(loading, NoType, <<>>) = NoType
    BY FoldEmpty
  <1>6. Load(nil, env) = NoType
    BY <1>3, <1>4, <1>5
  <1>7. NoSpec = nil
    BY DEF NoSpec
  <1> HIDE DEF nil
  <1> QED
    BY <1>2, <1>6, <1>7

\* A member has the parts of its type.
LEMMA MemberParts ==
  ASSUME NEW types, Generated(types), NEW type \in types, NEW id
  PROVE  /\ memberOf(type, id).path = type.path
         /\ memberOf(type, id).member = id
         /\ info(memberOf(type, id)) = info(type)
         /\ signature(memberOf(type, id)) = info(type).members[id]
         /\ self(memberOf(type, id)) = type
         /\ Env(memberOf(type, id)) = Env(type)
  <1> DEFINE m == memberOf(type, id)
             a == type.path
             b == type.name
             c == type.args
             new == MkType(a, b, c, NoMember)
  <1>1. type = new
    BY KnownNames
  <1>2. m = MkType(a, b, c, id)
    BY DEF memberOf
  <1>3. m.path = a /\ m.name = b /\ m.args = c /\ m.member = id
    BY <1>2, MkTypeIs
  <1>4. info(m) = info(type) /\ signature(m) = info(type).members[id]
    BY <1>3, Zenon DEF info, signature
  <1>5. self(m) = type
    <2> DEFINE f == OfMember(Plain(a, b, c), NoMember)
               g == OfMember(Plain(a, b, c), id)
    <2>1. new = [path |-> a, name |-> b, args |-> c, member |-> NoMember, fullname |-> f]
      BY Zenon DEF MkType, OfMember, Plain
    <2>2. m = [path |-> a, name |-> b, args |-> c, member |-> id, fullname |-> g]
      BY <1>2, Zenon DEF MkType, OfMember, Plain
    <2>3. new.fullname = f
      BY MkTypeIs
    <2>4. self(m) = [m EXCEPT !.member = NoMember,
                              !.fullname = MkType(m.path, m.name, m.args, NoMember).fullname]
      BY Zenon DEF self
    <2>5. self(m) = [m EXCEPT !.member = NoMember, !.fullname = f]
      BY <1>3, <2>3, <2>4
    <2> DEFINE none == NoMember
    <2> HIDE DEF m, f, g, a, b, c, new, none
    <2>6. [m EXCEPT !.member = none, !.fullname = f]
            = [path |-> a, name |-> b, args |-> c, member |-> none, fullname |-> f]
      <3> DEFINE w == [m EXCEPT !.member = none, !.fullname = f]
                 y == [path |-> a, name |-> b, args |-> c, member |-> none, fullname |-> f]
                 S == [path : {a}, name : {b}, args : {c}, member : {none}, fullname : {f}]
      <3>1. m \in [path : {a}, name : {b}, args : {c}, member : {id}, fullname : {g}]
        BY <2>2
      <3>2. m.path = a /\ m.name = b /\ m.args = c
        BY <2>2
      <3>3. w.path = a /\ w.name = b /\ w.args = c /\ w.member = none /\ w.fullname = f
        BY <3>1, <3>2
      <3>4. w \in S
        BY <3>1, <3>2
      <3>5. /\ y \in S /\ y.path = a /\ y.name = b /\ y.args = c
            /\ y.member = none /\ y.fullname = f
        OBVIOUS
      <3> HIDE DEF w, y
      <3>6. w = y
        BY <3>3, <3>4, <3>5
      <3> QED
        BY <3>6 DEF w, y
    <2> QED
      BY <1>1, <2>1, <2>5, <2>6, Zenon DEF none
  <1> HIDE DEF m
  <1>6. Env(m) = Env(type)
    <2>1. Env(type).here = type.path /\ Env(type).self = type
      BY SessionIs
    <2>2. self(type) = type
      BY <2>1 DEF Env
    <2> QED
      BY <1>3, <1>5, <2>2 DEF Env
  <1> QED
    BY <1>3, <1>4, <1>5, <1>6 DEF m

(***************************************************************************)
(* The types of the members of a loaded type, resolved late under any      *)
(* redirects from paths to paths, have the fullnames that read to them.    *)
(***************************************************************************)
LEMMA ResolvedHonest ==
  ASSUME NEW types, Generated(types), NEW type \in types, NEW id,
         NEW R, PathsToPaths(R), NEW sym, IsSpecifier(sym)
  PROVE  \/ LateResolve(memberOf(type, id), sym, R) = NoType
         \/ HonestType(LateResolve(memberOf(type, id), sym, R))
  <1> DEFINE env == Env(type)
             text == Solve(sym, Nothing, R)
  <1>1. env \in Sessions(types)
    BY DEF Sessions
  <1>2. LateResolve(memberOf(type, id), sym, R) = Load(removeCallSuff(text), env)
    <2>1. Env(memberOf(type, id)) = env
      BY MemberParts
    <2> QED
      BY <2>1 DEF LateResolve
  <1>3. text = NoSpec \/ Named(text, env, 0)
    BY <1>1, SolvedNames
  <1> HIDE DEF env, text
  <1>4. CASE text = NoSpec
    BY <1>2, <1>4, NothingLoads
  <1>5. CASE Named(text, env, 0)
    <2>1. text \in Seq(Int) /\ NoCall(text)
      BY <1>5 DEF Named, ReadIn
    <2>2. removeCallSuff(text) = text
      BY <2>1, NothingRemoved
    <2> QED
      BY <1>2, <1>5, <2>2, NamedLoads
  <1> QED
    BY <1>3, <1>4, <1>5

\* One fullname reads to one type.
LEMMA FullnameOfOne ==
  ASSUME NEW x, NEW y, HonestType(x), HonestType(y), x.fullname = y.fullname
  PROVE  x = y
  <1> DEFINE full == x.fullname
             t == Term("concrete", x)
             u == Term("concrete", y)
             nil == <<>>
  <1>1. Reads(full, t) /\ Reads(full, u)
    BY DEF HonestType
  <1>2. t.of = x /\ u.of = y
    BY TermIsFresh
  <1> HIDE DEF full, t, u
  <1>3. ReadIn(nil, "rootId") /\ Stk(nil, NoEnv) = nil /\ Takes(nil) /\ IsSeq(nil)
    BY ReadNothing, EmptyMarks, EmptyIsSeq DEF Takes
  <1> HIDE DEF nil
  <1>4. Append(nil, t) = Append(nil, u)
    BY <1>1, <1>3 DEF Reads
  <1>5. Last(Append(nil, t)) = t /\ Last(Append(nil, u)) = u
    BY <1>3, AppendIs
  <1> QED
    BY <1>2, <1>4, <1>5

--------------------------------------------------------------------------------
(* ForwardedCallsAreTyped *)

\* The redirects of a parcel, when those of the domain are between paths.
LEMMA RedirectsOfPaths ==
  ASSUME TableInv, PathsOnly, NEW path
  PROVE  PathsToPaths(Compute(table, path))
  <1> DEFINE set == Compute(table, path)
             befores == {k[2] : k \in DOMAIN table}
  <1>1. DOMAIN table \subseteq PathPairs
    BY PathsAssumption DEF TableInv, PathPairs
  <1>2. Selects(set, table, path, DOMAIN table)
    BY <1>1, ComputeSelects DEF TableInv
  <1> HIDE DEF set
  <1>3. IsFiniteSet(befores)
    <2> DEFINE snd == [k \in DOMAIN table |-> k[2]]
    <2>1. snd \in Surjection(DOMAIN table, befores)
      BY DEF Surjection
    <2> HIDE DEF snd, befores
    <2> QED
      BY <2>1, FS_Surjection DEF TableInv
  <1>4. DOMAIN set \in SUBSET befores
    BY <1>2 DEF Selects, IsFor
  <1>5. IsFiniteSet(DOMAIN set)
    <2> HIDE DEF befores
    <2> QED
      BY <1>3, <1>4, FS_Subset
  <1>6. ASSUME NEW before \in DOMAIN set
        PROVE  IsPath(before) /\ IsPath(set[before])
    <2>1. PICK k \in DOMAIN table : IsFor(k, path, before) /\ set[before] = table[k]
      BY <1>2 DEF Selects
    <2> QED
      BY <2>1 DEF IsFor, PathsOnly
  <1> QED
    BY <1>5, <1>6 DEF PathsToPaths, set

\* $Self alone is transformed to the name of the type it stands for.
LEMMA SelfTransformed ==
  ASSUME NEW here, NEW ctx, NEW type, type.fullname \in Seq(Int)
  PROVE  transformed(<<SelfId>>, here, ctx, type) = type.fullname
  <1> DEFINE params == typeParams(ctx)
             stands == [id \in {HereId, SelfId} \cup DOMAIN params |->
                            CASE id = HereId -> here
                              [] id = SelfId -> type.fullname
                              [] OTHER       -> params[id].fullname]
             full == type.fullname
             nil == <<>>
             text == <<SelfId>>
             e == Event("rootId", SelfId)
             f == [of |-> "solve", stands |-> stands, redirects |-> NoRedirects]
  <1>1. transformed(text, here, ctx, type) = Solve(text, stands, NoRedirects)
    BY Zenon DEF transformed
  <1>2. SelfId \in DOMAIN stands /\ stands[SelfId] = full
    <2>1. SelfId # HereId
      BY DEF SelfId, HereId, Dollar
    <2> HIDE DEF params
    <2> QED
      BY <2>1
  <1>3. IsDollar(SelfId) /\ IsId(SelfId) /\ SelfId # HereId
    BY DEF SelfId, HereId, Dollar, IsDollar, IsId
  <1> HIDE DEF stands
  <1>4. Events(text) = Append(nil, e)
    <2>1. ReadIn(nil, "rootId") /\ Reader(nil).out = nil
      <3>1. Reader(nil) = Reading("rootId", nil)
        BY FoldEmpty DEF Reader
      <3> QED
        BY <3>1, ReadNothing DEF Reading
    <2>2. text = Append(nil, SelfId)
      OBVIOUS
    <2>3. SelfId \in Int
      BY <1>3 DEF IsId
    <2> HIDE DEF nil, text, e
    <2>4. Read(Reading("rootId", nil), SelfId) = Reading("rootId", Append(nil, e))
      BY <1>3, ReadOther DEF e
    <2>5. Reader(text) = Reading("rootId", Append(nil, e))
      BY <2>1, <2>2, <2>3, <2>4, ReadOne
    <2>6. FoldLeft(Read, Reading("rootId", <<>>), text) = Reader(text)
      BY Zenon DEF Reader, Fold, FoldLeft, MapThenFoldSet, Apply
    <2> DEFINE end == Reader(text)
    <2>7. Events(text) = IF end.stage = "return"
                         THEN Append(end.out, Event("closeCallSuff", Arrow)) ELSE end.out
      BY <2>6, Zenon DEF Events, Reading
    <2>8. end.stage = "main" /\ end.out = Append(nil, e)
      <3>1. end = Reading("rootId", Append(nil, e))
        BY <2>5
      <3> HIDE DEF end
      <3> QED
        BY <3>1, ReadingHas, Zenon
    <2> HIDE DEF end
    <2> QED
      BY <2>7, <2>8
  <1> DEFINE end == Fold(f, Scopes, Events(text))
  <1>5. Solve(text, stands, NoRedirects)
          = IF end.good THEN Last(handleRedirectsIfPath(end, NoRedirects).scopes).output ELSE NoSpec
    <2> DEFINE last == FoldLeft(LAMBDA s, x : OnEvent(s, x, stands, NoRedirects),
                                Scopes, Events(text))
    <2>1. Solve(text, stands, NoRedirects)
            = IF last.good THEN Last(handleRedirectsIfPath(last, NoRedirects).scopes).output
              ELSE NoSpec
      BY Zenon DEF Solve, Scopes
    <2>2. last = end
      BY Zenon DEF Fold, FoldLeft, MapThenFoldSet, Apply
    <2> HIDE DEF last, end
    <2> QED
      BY <2>1, <2>2, Zenon
  <1>6. end = OnEvent(Scopes, e, stands, NoRedirects)
    <2>1. IsSeq(nil) /\ Fold(f, Scopes, nil) = Scopes
      BY EmptyIsSeq, FoldEmpty
    <2>2. \A x, y : Apply(f, x, y) = OnEvent(x, y, stands, NoRedirects)
      BY DEF Apply
    <2> HIDE DEF f, nil, e
    <2>3. Fold(f, Scopes, Append(nil, e)) = Apply(f, Fold(f, Scopes, nil), e)
      BY <2>1, FoldOneMore
    <2> QED
      BY <1>4, <2>1, <2>2, <2>3
  <1>7. SolIs(Scopes, 1, "none", nil) /\ Scopes.good
    <2>1. SolIs(Scopes, 1, "none", nil)
      BY StartIs
    <2>2. Scopes.good = TRUE
      BY <2>1, OneScope
    <2> QED
      BY <2>1, <2>2
  <1>8. OnEvent(Scopes, e, stands, NoRedirects) = mark(emit(Scopes, full), "type")
    <2>1. e.on = "rootId" /\ e.id = SelfId
      BY DEF Event
    <2> HIDE DEF e, full
    <2>2. OnEvent(Scopes, e, stands, NoRedirects) = rootId(Scopes, SelfId, stands)
      BY <1>7, <2>1, Zenon DEF OnEvent
    <2>3. rootId(Scopes, SelfId, stands) = mark(emit(Scopes, full), "type")
      BY <1>2, <1>3, Zenon DEF rootId
    <2> QED
      BY <2>2, <2>3
  <1> HIDE DEF end, full, e, text, nil
  <1>9. SolIs(end, 1, "type", nil \o full)
    <2> DEFINE u == emit(Scopes, full)
    <2>1. SolIs(u, 1, "none", nil \o full)
      BY <1>7, EmitWrites DEF full
    <2> HIDE DEF u
    <2>2. SolIs(mark(u, "type"), 1, "type", nil \o full)
      BY <2>1, MarkSets
    <2> QED
      BY <1>6, <1>8, <2>2 DEF u
  <1>10. nil \o full = full
    BY DEF full, nil
  <1>11. handleRedirectsIfPath(end, NoRedirects) = end
    BY <1>9, ScopeRedirects
  <1>12. end.good = TRUE /\ Last(end.scopes).output = full
    BY <1>9, <1>10, OneScope
  <1> QED
    BY <1>1, <1>5, <1>11, <1>12 DEF full, text

(***************************************************************************)
(* What is asked about is a loaded type and a protocol, under redirects    *)
(* between paths.                                                          *)
(***************************************************************************)
AskInv ==
    /\ TableInv
    /\ asked # <<>> => /\ asked = <<asked[1], asked[2]>>
                       /\ asked[1] \in LoadedTypes /\ asked[2] \in Protocols
                       /\ PathsOnly

LEMMA AsksStay == AskSpec => []AskInv
  <1>1. AskInit => AskInv
    BY TableStarts DEF AskInit, AskInv
  <1>2. AskInv /\ [AskNext]_askVars => AskInv'
    <2> SUFFICES ASSUME AskInv, [AskNext]_askVars
                 PROVE  AskInv'
      OBVIOUS
    <2>1. CASE UNCHANGED askVars
      BY <2>1 DEF askVars, AskInv, TableInv, PathsOnly
    <2>2. CASE Redirect
      <3>1. TableNext /\ asked = <<>> /\ asked' = asked
        BY <2>2 DEF Redirect
      <3>2. TableInv'
        BY <3>1, TableStep DEF AskInv
      <3> QED
        BY <3>1, <3>2 DEF AskInv
    <2>3. ASSUME NEW type \in LoadedTypes, NEW protocol \in Protocols, Ask(type, protocol)
          PROVE  AskInv'
      <3>1. PathsOnly /\ asked' = <<type, protocol>> /\ table' = table
        BY <2>3 DEF Ask
      <3>2. TableInv' /\ PathsOnly'
        BY <3>1 DEF AskInv, TableInv, PathsOnly
      <3>3. asked'[1] = type /\ asked'[2] = protocol
        BY <3>1
      <3> QED
        BY <3>1, <3>2, <3>3 DEF AskInv
    <2> QED
      BY <2>1, <2>2, <2>3 DEF AskNext
  <1> QED
    BY <1>1, <1>2, PTL DEF AskSpec

\* The symbols of the members of a loaded type.
LEMMA SymbolsAre ==
  ASSUME NEW type \in LoadedTypes, NEW n \in DOMAIN info(type).members
  PROVE  LET m == memberOf(type, n)
         IN  /\ IsSpecifier(signature(m).returns)
             /\ positionalParams(m) \in Nat
             /\ \A i \in 1..positionalParams(m) : IsSpecifier(signature(m).params[i])
  <1> DEFINE m == memberOf(type, n)
             sig == info(type).members[n]
  <1>1. signature(m) = sig
    BY LoadedAssumption, MemberParts
  <1>2. /\ IsSpecifier(sig.returns) /\ sig.params \in Seq(Seq(Int))
        /\ \A i \in DOMAIN sig.params : IsSpecifier(sig.params[i])
    BY LoadedAssumption
  <1> HIDE DEF m, sig
  <1>3. positionalParams(m) \in Nat /\ DOMAIN sig.params = 1..positionalParams(m)
    BY <1>1, <1>2 DEF positionalParams
  <1> QED
    BY <1>1, <1>2, <1>3 DEF m

(***************************************************************************)
(* A forwarded call has the args its member takes, and a result of the     *)
(* type it promised, whatever was loaded, and under whatever redirects.    *)
(***************************************************************************)
THEOREM ForwardedTheorem ==
  ASSUME "selfFirst" \in Discipline
  PROVE  AskSpec => []ForwardedCallsAreTyped
  <1>1. AskInv => ForwardedCallsAreTyped
    <2> SUFFICES ASSUME AskInv, asked # <<>>,
                        NEW type, type = asked[1], NEW protocol, protocol = asked[2],
                        Loaded, SelfFirst(protocol), conforms(table, type, protocol),
                        NEW n \in DOMAIN ptable(protocol, type),
                        NEW req, req = memberOf(protocol, n),
                        NEW entry, entry = ptable(protocol, type)[n],
                        positionalParams(req) > 0, paramType(table, req, 1) = protocol
                 PROVE  /\ positionalParams(entry) = positionalParams(req)
                        /\ paramType(table, entry, 1) = type
                        /\ \A i \in 2..positionalParams(req) :
                                paramType(table, entry, i) = paramType(table, req, i)
                        /\ returnType(table, entry) = returnType(table, req)
      BY DEF ForwardedCallsAreTyped
    <2>1. type \in LoadedTypes /\ protocol \in LoadedTypes /\ TableInv /\ PathsOnly
      BY LoadedAssumption DEF AskInv
    <2>2. n \in DOMAIN info(protocol).members /\ entry = memberOf(type, n)
      BY DEF ptable
    <2>3. n \in DOMAIN info(type).members /\ matches(table, req, entry)
      BY <2>2 DEF conforms
    <2>4. Loads(table, type) /\ Loads(table, protocol)
      <3>1. asked = <<asked[1], asked[2]>>
        BY DEF AskInv
      <3>2. 1 \in DOMAIN asked /\ 2 \in DOMAIN asked
        BY <3>1
      <3> QED
        BY <3>2 DEF Loaded
    <2>5. Generated(LoadedTypes)
      BY LoadedAssumption
    <2>6. /\ req.path = protocol.path /\ entry.path = type.path /\ self(entry) = type
      BY <2>1, <2>2, <2>5, MemberParts
    <2>7. /\ ~ specifierHasSelf(signature(req).returns)
          /\ signature(req).params[1] = <<SelfId>>
          /\ \A i \in 2..positionalParams(req) : ~ specifierHasSelf(signature(req).params[i])
      <3>1. /\ ~ specifierHasSelf(signature(req).returns)
            /\ \A i \in 1..positionalParams(req) :
                  IF i = 1 /\ paramType(table, req, i) = protocol
                  THEN signature(req).params[i] = <<SelfId>>
                  ELSE ~ specifierHasSelf(signature(req).params[i])
        BY <2>2 DEF SelfFirst
      <3>2. positionalParams(req) \in Nat
        BY <2>1, <2>2, SymbolsAre
      <3>3. 1 \in 1..positionalParams(req)
            /\ \A i \in 2..positionalParams(req) : i \in 1..positionalParams(req) /\ i # 1
        BY <3>2
      <3> QED
        BY <3>1, <3>3
    <2>8. /\ compare(table, req, signature(req).returns, entry, returnType(table, entry))
          /\ positionalParams(req) = positionalParams(entry)
          /\ \A i \in 1..positionalParams(entry) :
                compare(table, req, signature(req).params[i], entry, paramType(table, entry, i))
      BY <2>3 DEF matches
    <2>9. returnType(table, entry) = returnType(table, req)
      BY <2>7, <2>8 DEF compare, returnType
    <2>10. ASSUME NEW i \in 2..positionalParams(req)
           PROVE  paramType(table, entry, i) = paramType(table, req, i)
      <3>1. i \in 1..positionalParams(entry)
        BY <2>8
      <3> QED
        BY <2>7, <2>8, <3>1 DEF compare, paramType
    <2>11. paramType(table, entry, 1) = type
      <3> DEFINE first == paramType(table, entry, 1)
                 sym == signature(entry).params[1]
                 R == redirectsOf(table, entry)
      <3>1. 1 \in 1..positionalParams(entry)
        <4>1. positionalParams(req) \in Nat
          BY <2>1, <2>2, SymbolsAre
        <4> QED
          BY <2>8, <4>1
      <3>2. compare(table, req, <<SelfId>>, entry, first)
        BY <2>7, <2>8, <3>1
      <3>3. specifierHasSelf(<<SelfId>>)
        BY DEF specifierHasSelf
      <3>4. type.fullname \in Seq(Int) /\ HonestType(type)
        BY <2>1, <2>5, KnownNames, KnownHonest
      <3>5. first.fullname = type.fullname
        <4>1. transformed(<<SelfId>>, req.path, self(req), self(entry)) = first.fullname
          BY <3>2, <3>3 DEF compare
        <4>2. transformed(<<SelfId>>, req.path, self(req), type) = type.fullname
          BY <3>4, SelfTransformed
        <4> QED
          BY <2>6, <4>1, <4>2
      <3>6. first # NoType
        BY <2>2, <2>3, <2>4, <3>1 DEF Loads
      <3>7. HonestType(first)
        <4>1. PathsToPaths(R)
          BY <2>1, RedirectsOfPaths DEF redirectsOf
        <4>2. IsSpecifier(sym)
          BY <2>1, <2>2, <2>3, <3>1, SymbolsAre
        <4>3. first = LateResolve(memberOf(type, n), sym, R)
          BY <2>2 DEF paramType
        <4> HIDE DEF R, sym, first
        <4> QED
          BY <2>1, <2>5, <3>6, <4>1, <4>2, <4>3, ResolvedHonest
      <3> HIDE DEF first
      <3>8. first = type
        BY <3>4, <3>5, <3>7, FullnameOfOne
      <3> QED
        BY <3>8 DEF first
    <2> QED
      BY <2>8, <2>9, <2>10, <2>11
  <1> QED
    BY <1>1, AsksStay, PTL

========================================================================================
