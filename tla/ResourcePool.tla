----------------------------- MODULE ResourcePool -----------------------------
(***************************************************************************)
(* What the orchestrator promises to those who share its resources, without *)
(* a word on how: a customer takes what nobody has, one resource at a time, *)
(* its jobs run with what it has taken, and nothing is given back while a   *)
(* job uses it.  It takes first and gives back afterwards: a customer that  *)
(* has begun to give back never takes again, and one that has gone does     *)
(* neither.                                                                 *)
(***************************************************************************)
EXTENDS Naturals

CONSTANTS
    Customer, Resource,
    Shared,     \* the resources that several jobs of a customer may use at once
    Job,
    JobOf,      \* JobOf[j]: the customer
    Nobody      \* the owner of what is free

VARIABLES
    owner,      \* resource -> customer
    phase,      \* of each customer: "taking", "giving", "gone"
    uses        \* job -> the resources it runs with

poolVars == <<owner, phase, uses>>

Init ==
    /\ owner = [r \in Resource |-> Nobody]
    /\ phase = [c \in Customer |-> "taking"]
    /\ uses = [j \in Job |-> {}]

Take(c, r) ==
    /\ phase[c] = "taking" /\ owner[r] = Nobody
    /\ owner' = [owner EXCEPT ![r] = c]
    /\ UNCHANGED <<phase, uses>>

\* A job of a customer that has gone may still run: it is not stopped.
Run(j, R) ==
    /\ uses[j] = {}
    /\ \A r \in R : /\ owner[r] = JobOf[j]
                    /\ r \in Shared \/ \A k \in Job \ {j} : r \notin uses[k]
    /\ uses' = [uses EXCEPT ![j] = R]
    /\ UNCHANGED <<owner, phase>>

End(j) ==
    /\ uses' = [uses EXCEPT ![j] = {}]
    /\ UNCHANGED <<owner, phase>>

StartGiving(c) ==
    /\ phase[c] = "taking" /\ phase' = [phase EXCEPT ![c] = "giving"]
    /\ UNCHANGED <<owner, uses>>

Give(c, r) ==
    /\ phase[c] = "giving" /\ owner[r] = c
    /\ \A j \in Job : r \notin uses[j]
    /\ owner' = [owner EXCEPT ![r] = Nobody]
    /\ UNCHANGED <<phase, uses>>

\* Whoever goes may leave something behind.
Go(c) ==
    /\ phase[c] # "gone" /\ phase' = [phase EXCEPT ![c] = "gone"]
    /\ UNCHANGED <<owner, uses>>

Next ==
    \/ \E c \in Customer : \/ \E r \in Resource : Take(c, r) \/ Give(c, r)
                           \/ StartGiving(c) \/ Go(c)
    \/ \E j \in Job : End(j) \/ \E R \in SUBSET Resource : Run(j, R)

Spec == Init /\ [][Next]_poolVars
=============================================================================
