------------------------------- MODULE LoadedWorld -------------------------------
(***************************************************************************)
(* What a domain's loader promises to the threads that use it, with no     *)
(* staging area, lock or queue: there is one growing world of parcels,     *)
(* types and links; each load publishes all it needs in one step, as a     *)
(* world that is complete again; threads are only given what is published. *)
(***************************************************************************)
EXTENDS Parcels

CONSTANT Threads

VARIABLES
    world,      \* the area that is published
    given       \* the parcels and types each thread has been given

\* One parcel to a path and one type to a fullname.
Unambiguous(w) ==
    /\ \A p, q \in w.parcels : p.path = q.path => p = q
    /\ \A t, u \in w.types : Key(t) = Key(u) => t = u

\* Every type comes with its parcel, its members, and all it refers to.
SelfContained(w) ==
    /\ \A t \in w.types : t.parcel \in w.parcels /\ Group(t) \subseteq w.types
    /\ \A t \in w.types : \A s \in SymsOf(t) :
          \E l \in w.links : l.from = t /\ l.sym = s /\ l.to \in w.types

Complete(w) == Unambiguous(w) /\ SelfContained(w)

Extends(w, v) ==
    v.parcels \subseteq w.parcels /\ v.types \subseteq w.types /\ v.links \subseteq w.links

Init ==
    /\ world = EmptyArea
    /\ given = [t \in Threads |-> {}]

Publish ==
    /\ world' # world
    /\ Extends(world', world)
    /\ Complete(world')
    /\ UNCHANGED given

Give(t) ==
    /\ \E x \in world.parcels \cup world.types : given' = [given EXCEPT ![t] = @ \cup {x}]
    /\ UNCHANGED world

Next == Publish \/ \E t \in Threads : Give(t)

Spec == Init /\ [][Next]_<<world, given>>
================================================================================
