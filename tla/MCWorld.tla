-------------------------------- MODULE MCWorld --------------------------------
(***************************************************************************)
(* Two parcels: one with protocols of a requirement each, one with types   *)
(* of a method each, and both with the types their symbols name.           *)
(***************************************************************************)
EXTENDS Specs

V == 20
T == 30
U == 31
Box == 40
Pair == 41
m == 50
a == <<1>>
b == <<2>>

At(path, name) == path \o <<Colon, name>>
With(spec1, arg) == spec1 \o <<OpenArgs>> \o arg \o <<CloseArgs>>
With2(spec1, x, y) == spec1 \o <<OpenArgs>> \o x \o <<Comma>> \o y \o <<CloseArgs>>
Sig(returns, params) == [returns |-> returns, params |-> params]
Info(params, members) == [typeParams |-> params, hasCallSig |-> FALSE, members |-> members]
Fn(params) == [typeParams |-> params, hasCallSig |-> TRUE, members |-> Nothing]

\* The symbols of a requirement, and those of a method.
ReqSyms == <<
    <<SelfId>>, <<Dollar(T)>>, At(a, V), At(b, V), At(<<HereId>>, V),
    With(At(a, Box), <<SelfId>>), With(At(a, Box), <<Dollar(T)>>),
    With2(At(a, Pair), <<SelfId>>, <<Dollar(T)>>), With2(At(a, Pair), <<Dollar(T)>>, At(a, V)),
    With(At(a, Box), At(<<HereId>>, V)) >>
MethodSyms == <<
    <<SelfId>>, At(a, V), At(b, V), At(<<HereId>>, V),
    With(At(a, Box), <<SelfId>>), With(At(b, Box), <<SelfId>>), With(At(a, Box), At(a, V)),
    With2(At(a, Pair), <<SelfId>>, At(a, V)), With2(At(b, Pair), At(b, V), At(b, V)),
    With(At(a, Box), With2(At(a, Pair), At(a, V), At(b, V))) >>

\* Each symbol as a return type, then each as the type of a param after the self param,
\* and two signatures with no self param.
Signature(syms, i) ==
    CASE i <= 10 -> Sig(syms[i], <<<<SelfId>>>>)
      [] i \in 11 .. 20 -> Sig(At(a, V), <<<<SelfId>>, syms[i - 10]>>)
      [] i = 21 -> Sig(At(a, V), <<>>)
      [] OTHER -> Sig(At(a, V), <<At(b, V)>>)

ProtoNames == 101 .. 122
StructNames == 201 .. 222

Common == (V :> Info(<<>>, Nothing)) @@ (Box :> Info(<<T>>, Nothing)) @@ (Pair :> Info(<<T, U>>, Nothing))
          @@ (60 :> Fn(<<T>>))

MCParcels ==
    (a :> (Common @@ [n \in ProtoNames |-> Info(<<T>>, m :> Signature(ReqSyms, n - 100))]))
    @@ (b :> (Common @@ [n \in StructNames |-> Info(<<>>, m :> Signature(MethodSyms, n - 200))]))

Protos == {MkType(a, n, <<MkType(a, V, <<>>, NoMember)>>, NoMember) : n \in ProtoNames}
Structs == {MkType(b, n, <<>>, NoMember) : n \in StructNames}

================================================================================
