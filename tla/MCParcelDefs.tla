----------------------------- MODULE MCParcelDefs -----------------------------
EXTENDS DefBinding

\* Names of owners, of members and parameters, and one that is not legal.
a == HostName("a")
b == HostName("b")
m == HostName("m")
n == HostName("n")
bad == HostName("2m")

IntSym == <<"yama", "Int">>
ParamSym == <<"param", m>>          \* $m
Uses == <<"here", a, m>>            \* %here:a[$m]
Unparsed == <<"unparsed">>

MCIllegal == {bad}
MCOwnerNames == {a, b, bad}
MCMemberNames == {m, n, HostName("Self")}
MCTypeSyms == {IntSym, Unparsed}
MCParamSyms == {SelfSym, Unparsed}
MCConstraints == {IntSym, ParamSym, Uses}
MCRefSyms == {IntSym, Uses}
MCLegalSyms == {IntSym, ParamSym, Uses, SelfSym, NoneSym}
MCParamsIn == [s \in MCConstraints |-> IF s \in {ParamSym, Uses} THEN {m} ELSE {}]
MCTypeNames == {<<a>>, <<<<a>>, m>>, <<InitOf(a)>>}
================================================================================
