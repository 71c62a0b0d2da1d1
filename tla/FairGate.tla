------------------------------ MODULE FairGate ------------------------------
(***************************************************************************)
(* The publication gate of a project slot in synapse-application: tickets  *)
(* under a mutex, and a condition variable on which threads sleep until    *)
(* their number is called.  Every action is one critical section of the    *)
(* mutex; a sleeping thread has released it.                               *)
(***************************************************************************)
EXTENDS Naturals, Sequences

CONSTANTS
    Threads,
    NoThread,
    MaxTicket  \* u64::MAX

ASSUME FairGateAssumption ==
    /\ NoThread \notin Threads
    /\ MaxTicket \in Nat

VARIABLES
    next_ticket, serving, occupied,  \* FairGateState
    ticket,                          \* the number each thread holds
    pc                               \* out, asleep, woken, inside

vars == <<next_ticket, serving, occupied, ticket, pc>>

Init ==
    /\ next_ticket = 0
    /\ serving = 0
    /\ occupied = FALSE
    /\ ticket = [t \in Threads |-> 0]
    /\ pc = [t \in Threads |-> "out"]

\* the loop condition of enter, for the thread that holds number n
MayEnter(n) == ~occupied /\ serving = n

\* enter: take a number, then go in or sleep
Enter(t) ==
    /\ pc[t] = "out"
    /\ next_ticket < MaxTicket
    /\ next_ticket' = next_ticket + 1
    /\ ticket' = [ticket EXCEPT ![t] = next_ticket]
    /\ \/ /\ MayEnter(next_ticket)
          /\ occupied' = TRUE
          /\ pc' = [pc EXCEPT ![t] = "inside"]
       \/ /\ ~MayEnter(next_ticket)
          /\ pc' = [pc EXCEPT ![t] = "asleep"]
          /\ UNCHANGED occupied
    /\ UNCHANGED serving

\* ServiceUnavailable: the numbers are used up
EnterFails(t) ==
    /\ pc[t] = "out"
    /\ next_ticket = MaxTicket
    /\ UNCHANGED vars

\* a spurious wakeup
Stir(t) ==
    /\ pc[t] = "asleep"
    /\ pc' = [pc EXCEPT ![t] = "woken"]
    /\ UNCHANGED <<next_ticket, serving, occupied, ticket>>

\* mutant: the number is not looked at, whoever comes first goes in
Recheck_Barging(t) ==
    /\ pc[t] = "woken"
    /\ ~occupied
    /\ occupied' = TRUE
    /\ pc' = [pc EXCEPT ![t] = "inside"]
    /\ UNCHANGED <<next_ticket, serving, ticket>>

\* a woken thread has the mutex again and looks at the loop condition
Recheck(t) ==
    /\ pc[t] = "woken"
    /\ \/ /\ MayEnter(ticket[t])
          /\ occupied' = TRUE
          /\ pc' = [pc EXCEPT ![t] = "inside"]
       \/ /\ ~MayEnter(ticket[t])
          /\ pc' = [pc EXCEPT ![t] = "asleep"]
          /\ UNCHANGED occupied
    /\ UNCHANGED <<next_ticket, serving, ticket>>

NotifyAll(t) ==
    pc' = [u \in Threads |-> IF u = t THEN "out"
                             ELSE IF pc[u] = "asleep" THEN "woken" ELSE pc[u]]

\* mutant: the next number is called while the holder is still inside
Leave_KeepsOccupied(t) ==
    /\ pc[t] = "inside"
    /\ serving' = serving + 1
    /\ NotifyAll(t)
    /\ UNCHANGED <<next_ticket, occupied, ticket>>

\* dropping the guard; the expect on the serving counter is ServingCanGrow
Leave(t) ==
    /\ pc[t] = "inside"
    /\ occupied' = FALSE
    /\ serving' = serving + 1
    /\ NotifyAll(t)
    /\ UNCHANGED <<next_ticket, ticket>>

Next ==
    \E t \in Threads :
        Enter(t) \/ EnterFails(t) \/ Stir(t) \/ Recheck(t) \/ Leave(t)

Spec == Init /\ [][Next]_vars

\* a woken thread gets the mutex; a holder's critical section ends
FairSpec ==
    Spec /\ \A t \in Threads : WF_vars(Recheck(t)) /\ WF_vars(Leave(t))

-----------------------------------------------------------------------------
(* Properties *)

\* Every variable has the type the Rust structures give it.
TypeOK ==
    /\ next_ticket \in 0..MaxTicket
    /\ serving \in Nat
    /\ occupied \in BOOLEAN
    /\ ticket \in [Threads -> 0..MaxTicket]
    /\ pc \in [Threads -> {"out", "asleep", "woken", "inside"}]

\* The serving counter never passes the tickets handed out, so the
\* expect("fair gate serving counter invariant") in drop cannot fire.
ServingCanGrow ==
    /\ serving <= next_ticket
    /\ occupied => serving < MaxTicket

\* No wakeup is lost: a thread never sleeps when its number is up and the
\* gate is free.
NoLostWakeup ==
    \A t \in Threads : pc[t] = "asleep" => occupied \/ ticket[t] # serving

\* the thread that holds number n, the threads in line, and the one inside
HolderOf(n) == CHOOSE t \in Threads : pc[t] # "out" /\ ticket[t] = n

InLine == [i \in 1..(next_ticket - serving) |-> HolderOf(serving + i - 1)]

Inside ==
    IF \E t \in Threads : pc[t] = "inside"
    THEN CHOOSE t \in Threads : pc[t] = "inside" ELSE NoThread

F == INSTANCE FifoLock WITH queue <- InLine, holder <- Inside

\* The gate is a FIFO lock: one holder, in the order of the tickets.
ImplementsFifoLock == F!Spec

\* Whoever took a number gets in, as long as holders leave.
EveryTicketIsServed ==
    \A t \in Threads : pc[t] \in {"asleep", "woken"} ~> pc[t] = "inside"
=============================================================================
