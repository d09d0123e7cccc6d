-------------------------------- MODULE Objects --------------------------------
(***************************************************************************)
(* The objects of a context and their reference counts (YmObj, RefCounter, *)
(* YmCtx::create, secure and release), as operators on a heap: a function  *)
(* from addresses to what stands there.                                    *)
(*                                                                         *)
(* NDEBUG build: RefCounter checks nothing. A count that moves at an       *)
(* address where no object lives is a use after free; the heap shows it as *)
(* a vacant address whose count is not 0.                                  *)
(***************************************************************************)
EXTENDS Integers, Sequences, FiniteSets, SequencesExt

CONSTANTS
    Objects,        \* addresses
    Primitives,     \* yama:None, yama:Int, ...
    None,           \* yama:None
    Structs,
    Protocols,
    Properties,     \* the types of the stored properties of each struct type
    Conforming,     \* <<type, protocol>>: YmType::conforms
    Casts,          \* <<from, to>>: the primitive to primitive conversions
    Vacant          \* the type of an address where no object lives

Types == Primitives \cup Structs \cup Protocols

ASSUME TypesAssumption ==
    /\ None \in Primitives /\ Vacant \notin Types
    /\ Primitives \cap Structs = {} /\ Protocols \cap (Primitives \cup Structs) = {}
    /\ Properties \in [Structs -> Seq(Types)]
    /\ Conforming \subseteq (Types \ Protocols) \X Protocols
    /\ Casts \subseteq Primitives \X Primitives

ASSUME ObjectsAssumption == IsFiniteSet(Objects)

\* slots holds the objects this one owns: the stored properties of a struct,
\* the boxed value of a protocol value.
Heaps == [Objects -> [type : Types \cup {Vacant}, refs : Int, slots : Seq(Objects)]]

Nothing == [type |-> Vacant, refs |-> 0, slots |-> <<>>]

Live(h) == {o \in Objects : h[o].type # Vacant}

\* Distinct addresses for n new objects.
Room(h, n) == {os \in [1..n -> Objects \ Live(h)] : IsInjective(os)}

\* YmCtx::create, and the stores into the new object's slots.
Created(h, o, type, slots) ==
    [h EXCEPT ![o] = [type |-> type, refs |-> 1, slots |-> slots]]

Secured(h, o) == [h EXCEPT ![o].refs = @ + 1]

\* One YmCtx::release: the object whose last reference goes releases what it owns
\* (YmObj::cleanup) before the next one's turn.
ReleaseFirst(h, os) ==
    LET o == Head(os) IN
    IF h[o].refs = 1
    THEN <<[h EXCEPT ![o] = Nothing], h[o].slots \o Tail(os)>>
    ELSE <<[h EXCEPT ![o].refs = @ - 1], Tail(os)>>

\* YmCtx::release of each of os in turn.
ReleaseAll[todo \in Heaps \X Seq(Objects)] ==
    IF todo[2] = <<>> THEN todo[1] ELSE ReleaseAll[ReleaseFirst(todo[1], todo[2])]

Released(h, os) == ReleaseAll[<<h, os>>]

\* All the references to o, one after the other.
Dropped(h, o) == Released(h, [i \in 1..(IF h[o].refs > 1 THEN h[o].refs ELSE 1) |-> o])

\* So for each of os in turn.
DropAll[todo \in Heaps \X Seq(Objects)] ==
    IF todo[2] = <<>> THEN todo[1]
    ELSE DropAll[<<Dropped(todo[1], Head(todo[2])), Tail(todo[2])>>]

\* YmType::hasDefaultValue.
HasDefault(type) == type \in Primitives \/ (type \in Structs /\ Properties[type] = <<>>)

\* ymType_Converts(from, to, YM_FALSE).
Converts(from, to) ==
    \/ from = to
    \/ from \in Protocols /\ to \in Protocols
    \/ <<from, to>> \in Conforming
    \/ <<to, from>> \in Conforming
    \/ from \notin Protocols /\ to = None
    \/ <<from, to>> \in Casts

(***************************************************************************)
(* The struct objects hold values of their properties' types and the       *)
(* protocol values box what conforms to their protocol: what StructInit,   *)
(* SetProperty and Convert check on the way in, and code that reads a      *)
(* property or calls through a ptable relies on.                           *)
(***************************************************************************)
WellFormed(h, o) ==
    CASE h[o].type \in Structs ->
            [i \in DOMAIN h[o].slots |-> h[h[o].slots[i]].type] = Properties[h[o].type]
      [] h[o].type \in Protocols ->
            /\ Len(h[o].slots) = 1
            /\ <<h[h[o].slots[1]].type, h[o].type>> \in Conforming
      [] OTHER -> h[o].slots = <<>>

================================================================================
