---------------------------- MODULE DomainLoaderLive ----------------------------
(***************************************************************************)
(* Liveness of DomainLoader. Neither std::mutex nor std::shared_mutex is   *)
(* fair: a thread may lose the race for a lock to calls, or a commit to    *)
(* visitors, forever. What the code does guarantee is progress once the    *)
(* others pause, so each thread makes a bounded number of calls and visits.*)
(***************************************************************************)
EXTENDS DomainLoader, Naturals

CONSTANTS MaxCalls, MaxVisits

VARIABLES
    calls,      \* how many calls each thread has made
    visits      \* and how many visits

liveVars == <<vars, calls, visits>>

LiveInit ==
    /\ Init
    /\ calls = [t \in Threads |-> 0]
    /\ visits = [t \in Threads |-> 0]

BoundedCall(t, r) ==
    /\ calls[t] < MaxCalls
    /\ Call(t, r)
    /\ calls' = [calls EXCEPT ![t] = @ + 1]
    /\ UNCHANGED visits

BoundedVisit(t) ==
    /\ visits[t] < MaxVisits
    /\ BeginVisit(t)
    /\ visits' = [visits EXCEPT ![t] = @ + 1]
    /\ UNCHANGED calls

Moves(t) == Step(t) /\ UNCHANGED <<calls, visits>>
Walks(t) == (Visit(t) \/ EndVisit(t)) /\ UNCHANGED <<calls, visits>>

LiveNext ==
    \/ \E b \in Bindings : BindParcelDef(b[1], b[2]) /\ UNCHANGED <<calls, visits>>
    \/ \E r \in RedirectCalls : AddRedirect(r[1], r[2], r[3]) /\ UNCHANGED <<calls, visits>>
    \/ \E t \in Visitors : BoundedVisit(t) \/ Walks(t)
    \/ \E t \in Threads : Moves(t) \/ \E r \in Requests : BoundedCall(t, r)

\* A thread that can take its next step, or has a callback left, is scheduled.
FairSpec ==
    /\ LiveInit /\ [][LiveNext]_liveVars
    /\ \A t \in Threads : WF_liveVars(Moves(t))
    /\ \A t \in Visitors : WF_liveVars(Walks(t))

(***************************************************************************)
(* Every import or load answers, whatever is bound or redirected while it  *)
(* runs, whether it fails, is refused, or finds the parcel loaded by       *)
(* another thread; it waits for no lock that is never released.            *)
(***************************************************************************)
EveryCallReturns == \A t \in Threads : pc[t] # "idle" ~> pc[t] = "idle"
================================================================================
