------------------------------- MODULE MCContext -------------------------------
(***************************************************************************)
(* Instances of Context for TLC: one of calls, one of struct and protocol  *)
(* values, one of stored vars.                                             *)
(***************************************************************************)
EXTENDS Context

Addresses == Permutations(Objects)

Stacking == {"keeps what it borrows", "leaves room", "keeps its args",
             "initializes vars", "reads vars", "releases"}

\* The run that refutes a claim lets the host copy what it has borrowed.
CopyingOntoItself == Stacking \ {"keeps what it borrows"}

\* The run of stored vars lets initializers use them.
WritingVars == Stacking \ {"reads vars"}

FirstAndTop == {0, -1}
First == {0}

NoProperties == [s \in Structs |-> <<>>]
NoSignature == [f \in {} |-> <<>>]
NoTable == [f \in {} |-> <<>>]

\* Calls: Two has one positional and one named param of type Int.
CallSignature ==
    [f \in Functions |->
        IF f = "Two" THEN [positional |-> <<"Int">>, named |-> <<"Int">>, returns |-> "Int"]
        ELSE [positional |-> <<>>, named |-> <<>>, returns |-> "Int"]]

\* Values: a Cell stores an Any, to which every type conforms.
CellProperties == [s \in Structs |-> <<"Any">>]
AnyConforms == {<<"None", "Any">>, <<"Int", "Any">>, <<"Cell", "Any">>}

\* Dispatch: Any.m takes an Any; the method m of Int that implements it takes an
\* Int and a named Int, and both return None.
IntConforms == {<<"Int", "Any">>}
DispatchSignature ==
    [f \in Functions |->
        IF f = "Any.m" THEN [positional |-> <<"Any">>, named |-> <<>>, returns |-> "None"]
        ELSE [positional |-> <<"Int">>, named |-> <<"Int">>, returns |-> "None"]]
MethodOfInt == [f \in MethodReqs |-> [t \in Types \ Protocols |-> "Int.m"]]

\* Vars.
IntVars == [v \in Vars |-> "Int"]
InitOf == [v \in Vars |-> "init"]

================================================================================
