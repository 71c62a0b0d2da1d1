------------------------------ MODULE FifoLock ------------------------------
(***************************************************************************)
(* What the project fence promises: one holder at a time, and threads get  *)
(* it in the order in which they asked.                                    *)
(***************************************************************************)
EXTENDS Sequences

CONSTANTS Threads, NoThread

VARIABLES
    queue,  \* threads that have asked, the holder first
    holder

Init == queue = <<>> /\ holder = NoThread

Ask(t) == queue' = Append(queue, t) /\ UNCHANGED holder

\* an empty queue lets the thread straight in
AskAndTake(t) == queue = <<>> /\ queue' = <<t>> /\ holder' = t

Take(t) ==
    /\ holder = NoThread
    /\ queue # <<>> /\ Head(queue) = t
    /\ holder' = t
    /\ UNCHANGED queue

Release(t) == holder = t /\ holder' = NoThread /\ queue' = Tail(queue)

Next == \E t \in Threads : Ask(t) \/ AskAndTake(t) \/ Take(t) \/ Release(t)

Spec == Init /\ [][Next]_<<queue, holder>>
=============================================================================
