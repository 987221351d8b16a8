----------------------------- MODULE RoundRobin -----------------------------
(***************************************************************************)
(* What the scheduler promises: the ready threads form one queue, a thread *)
(* that becomes ready joins at the back, and the processor always goes to  *)
(* the thread at the front.                                                *)
(***************************************************************************)
EXTENDS Naturals, Sequences

CONSTANTS Threads, NULL

VARIABLES
    runq,          \* the ready threads, next to run first
    running        \* the thread on the processor

InQueue(t) == \E k \in DOMAIN runq : runq[k] = t

Init == runq = <<>> /\ running = NULL

(* The first thread starts running.                                        *)
Start(t) == running = NULL /\ running' = t /\ UNCHANGED runq

(* A thread becomes ready.                                                 *)
Admit(t) ==
    /\ t # running
    /\ ~ InQueue(t)
    /\ runq' = Append(runq, t)
    /\ UNCHANGED running

(* A ready thread is taken off the queue without running.                  *)
Withdraw(t) ==
    /\ \E k \in DOMAIN runq :
          /\ runq[k] = t
          /\ runq' = SubSeq(runq, 1, k - 1) \o SubSeq(runq, k + 1, Len(runq))
    /\ UNCHANGED running

(* The running thread goes to the back of the queue.                       *)
Yield ==
    /\ runq # <<>>
    /\ running' = Head(runq)
    /\ runq' = Append(Tail(runq), running)

(* The running thread sleeps or exits.                                     *)
Leave ==
    /\ runq # <<>>
    /\ running' = Head(runq)
    /\ runq' = Tail(runq)

Next ==
    \/ Yield
    \/ Leave
    \/ \E t \in Threads : Start(t) \/ Admit(t) \/ Withdraw(t)

Spec == Init /\ [][Next]_<<runq, running>>
=============================================================================
