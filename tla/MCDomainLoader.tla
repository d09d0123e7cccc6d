----------------------------- MODULE MCDomainLoader -----------------------------
(***************************************************************************)
(* A domain with two parcels that depend on each other, one of which can   *)
(* be bound in two ways, and a redirect that leads to a third path.        *)
(***************************************************************************)
EXTENDS DomainLoader

CONSTANTS t1, t2, A, m, B, Int0, DYama, DA, DB, DB2, DBad, f0, f1

y == <<9>>
a == <<1>>
b == <<2>>
c == <<3>>

Sym(path, name, suff) == [path |-> path, name |-> name, suff |-> suff]

MCPaths == {y, a, b, c}
MCYamaPath == y
MCOwnerOf == [n \in {A, m, B, Int0} |-> IF n = m THEN A ELSE n]
MCDeclares ==
    [d \in Defs |-> CASE d = DYama -> {Int0} [] d = DA -> {A, m} [] OTHER -> {B}]
\* A's second symbol needs DB's signature, and yama:Int has none to miss; DB closes
\* a cycle, DB2 does not; DBad's B misses a constraint and names a member it has not.
MCRefSyms ==
    [d \in Defs |-> [n \in Names |->
        CASE d = DA /\ n = A -> {Sym(Self, m, NoSuff), Sym(b, B, f0)}
          [] d = DA /\ n = m -> {Sym(Here, A, NoSuff), Sym(y, Int0, f0)}
          [] d = DBad /\ n = B -> {Sym(Self, m, NoSuff)}
          [] d = DB /\ n = B -> {Sym(a, A, NoSuff)}
          [] OTHER -> {}]]
MCCallSig ==
    [d \in Defs |-> [n \in Names |->
        CASE d = DB2 -> f1 [] d = DYama -> NoSuff [] OTHER -> f0]]
MCUnsatisfied == [d \in Defs |-> IF d = DBad THEN {B} ELSE {}]
MCBindings == {<<a, DA>>, <<b, DB>>, <<b, DB2>>, <<c, DB>>, <<b, DBad>>}
MCRedirectCalls == {<<a, b, c>>}
MCRequests == {Sym(a, A, NoSuff), Sym(b, B, f1), Sym(b, NoName, NoSuff)}
================================================================================
