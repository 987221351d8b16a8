------------------------------- MODULE Sched -------------------------------
(***************************************************************************)
(* The scheduler: kernel/sched/sched.c, kernel/sched/thread.c and          *)
(* switch_context and thread_trampoline of arch/x86/cpu/switch.asm (the    *)
(* x86_64 file differs only in the registers).                             *)
(*                                                                         *)
(* The run queue is the code's circular doubly linked list, with its       *)
(* pointers.  A thread's saved stack pointer is modelled by what it points *)
(* to: the frame thread_create built, a frame switch_context saved, or     *)
(* nothing that can be resumed.                                            *)
(***************************************************************************)
EXTENDS Integers, FiniteSets

CONSTANTS
    Threads,               \* thread control blocks, idle_tcb included
    Idle,                  \* &idle_tcb
    NULL,
    SCHED_QUANTUM_TICKS,
    SleepTimes,            \* arguments of sched_sleep, in milliseconds
    MaxTicks               \* bound on the tick counter

ASSUME SchedAssumption ==
    /\ Idle \in Threads
    /\ NULL \notin Threads
    /\ SCHED_QUANTUM_TICKS \in Nat \ {0}
    /\ SleepTimes \subseteq Nat
    /\ MaxTicks \in Nat

VARIABLES
    rq,            \* run_queue_head, and the next and prev of every thread
    state,         \* t->state; "unborn" before thread_create
    cur,           \* current_thread
    esp,           \* what t->esp points to
    quantum,       \* t->quantum_remaining
    wake_tick,     \* t->wake_tick
    need_resched, nthreads,
    iflag,         \* the processor's interrupt flag
    ticks          \* pit_ticks()

vars == <<rq, state, cur, esp, quantum, wake_tick, need_resched, nthreads,
          iflag, ticks>>

-----------------------------------------------------------------------------
(* The linked list.                                                        *)

EmptyQueue == [head |-> NULL,
               next |-> [t \in Threads |-> NULL],
               prev |-> [t \in Threads |-> NULL]]

(* Puts the thread in front.                                               *)
HeadAfterFront(r, t) == t

HeadAfter(r, t) == r.head

(* enqueue, without its assignment to t->state.                            *)
Enqueue(r, t) ==
    IF r.head = NULL
    THEN [head |-> t,
          next |-> [r.next EXCEPT ![t] = t],
          prev |-> [r.prev EXCEPT ![t] = t]]
    ELSE LET last == r.prev[r.head]
         IN  [head |-> HeadAfter(r, t),
              next |-> [r.next EXCEPT ![t] = r.head, ![last] = t],
              prev |-> [r.prev EXCEPT ![t] = last, ![r.head] = t]]

(* Unlinks t without repairing its successor's prev.                       *)
UnlinkOneWay(r, t) ==
    [head |-> IF r.next[t] = t THEN NULL
              ELSE IF r.head = t THEN r.next[t] ELSE r.head,
     next |-> [r.next EXCEPT ![r.prev[t]] = r.next[t], ![t] = NULL],
     prev |-> [r.prev EXCEPT ![t] = NULL]]

(* The unlinking that dequeue_next and sched_remove share.                 *)
Unlink(r, t) ==
    [head |-> IF r.next[t] = t THEN NULL
              ELSE IF r.head = t THEN r.next[t] ELSE r.head,
     next |-> [r.next EXCEPT ![r.prev[t]] = r.next[t], ![t] = NULL],
     prev |-> [r.prev EXCEPT ![r.next[t]] = r.prev[t], ![t] = NULL]]

Queued(t) == rq.next[t] # NULL

-----------------------------------------------------------------------------
(* Static storage as the loader leaves it, interrupts as the caller has    *)
(* them.                                                                   *)
InitWith(interrupts) ==
    /\ rq = EmptyQueue
    /\ state = [t \in Threads |-> "unborn"]
    /\ cur = NULL
    /\ esp = [t \in Threads |-> "none"]
    /\ quantum = [t \in Threads |-> 0]
    /\ wake_tick = [t \in Threads |-> 0]
    /\ need_resched = FALSE
    /\ nthreads = 0
    /\ iflag = interrupts
    /\ ticks = 0

(* kmain enables interrupts before it calls sched_init.                    *)
Init == InitWith(TRUE)

(* sched_init with thread_init_idle: the caller becomes the idle thread.   *)
sched_init ==
    /\ cur = NULL
    /\ rq' = [rq EXCEPT !.head = NULL]
    /\ state' = [state EXCEPT ![Idle] = "RUNNING"]
    /\ quantum' = [quantum EXCEPT ![Idle] = SCHED_QUANTUM_TICKS]
    /\ cur' = Idle
    /\ esp' = [esp EXCEPT ![Idle] = "live"]
    /\ nthreads' = nthreads + 1
    /\ UNCHANGED <<wake_tick, need_resched, iflag, ticks>>

(* thread_create: a stack whose top frame leads to thread_trampoline.      *)
thread_create(t) ==
    /\ cur # NULL
    /\ state[t] = "unborn"
    /\ state' = [state EXCEPT ![t] = "READY"]
    /\ esp' = [esp EXCEPT ![t] = "fresh"]
    /\ quantum' = [quantum EXCEPT ![t] = SCHED_QUANTUM_TICKS]
    /\ nthreads' = nthreads + 1
    /\ UNCHANGED <<rq, cur, wake_tick, need_resched, iflag, ticks>>

(* sched_add.                                                              *)
sched_add(t) ==
    /\ state' = [state EXCEPT ![t] = "READY"]
    /\ rq' = Enqueue(rq, t)
    /\ UNCHANGED <<cur, esp, quantum, wake_tick, need_resched, nthreads,
                   iflag, ticks>>

(* sched_remove.                                                           *)
sched_remove(t) ==
    /\ rq' = IF Queued(t) THEN Unlink(rq, t) ELSE rq
    /\ UNCHANGED <<state, cur, esp, quantum, wake_tick, need_resched, nthreads,
                   iflag, ticks>>

(* switch_context(&old->esp, new->esp): the new pointer is read before the *)
(* old one is saved.  A resumed thread returns into sched_yield, which     *)
(* enables interrupts; a fresh one starts in thread_trampoline, which      *)
(* leaves them as sched_yield's cli did.                                   *)
switch_context(old, new) ==
    /\ esp' = [esp EXCEPT ![old] = "saved",
                          ![new] = IF esp[new] \in {"fresh", "saved"}
                                   THEN "live" ELSE "garbage"]
    /\ iflag' = (esp[new] = "saved")

(* Puts the current thread at the back before taking the front, so that a  *)
(* thread that is alone is switched to itself.                             *)
YieldEnqueueFirst(st) ==
    LET q1   == IF st[cur] = "RUNNING" THEN Enqueue(rq, cur) ELSE rq
        next == q1.head
        st1  == IF st[cur] = "RUNNING" THEN [st EXCEPT ![cur] = "READY"] ELSE st
    IN  /\ next # NULL
        /\ rq' = Unlink(q1, next)
        /\ state' = [st1 EXCEPT ![next] = "RUNNING"]
        /\ quantum' = [quantum EXCEPT ![cur] = SCHED_QUANTUM_TICKS,
                                      ![next] = SCHED_QUANTUM_TICKS]
        /\ need_resched' = FALSE
        /\ cur' = next
        /\ switch_context(cur, next)

(* Forgets to requeue the current thread.                                  *)
RequeuesNot(st) == FALSE

Requeues(st) == st[cur] = "RUNNING"

(* sched_yield, entered with thread states st: up to where the next thread *)
(* runs, or with nothing ready, back in the caller.                        *)
Yield(st) ==
    LET next == rq.head
        q1   == Unlink(rq, next)
    IN  IF next = NULL
        THEN /\ need_resched' = FALSE
             /\ iflag' = TRUE
             /\ state' = st
             /\ UNCHANGED <<rq, cur, esp, quantum>>
        ELSE LET st1 == IF Requeues(st) THEN [st EXCEPT ![cur] = "READY"] ELSE st
             IN  /\ rq' = IF Requeues(st) THEN Enqueue(q1, cur) ELSE q1
                 /\ state' = [st1 EXCEPT ![next] = "RUNNING"]
                 /\ quantum' = [quantum EXCEPT ![cur] = SCHED_QUANTUM_TICKS,
                                               ![next] = SCHED_QUANTUM_TICKS]
                 /\ need_resched' = FALSE
                 /\ cur' = next
                 /\ switch_context(cur, next)

sched_yield ==
    /\ cur # NULL
    /\ Yield(state)
    /\ UNCHANGED <<wake_tick, nthreads, ticks>>

(* sched_sleep: its sched_remove(cur) finds the running thread unlinked.   *)
sched_sleep(ms) ==
    /\ cur # NULL
    /\ ~ Queued(cur)
    /\ wake_tick' = [wake_tick EXCEPT ![cur] = ticks + (ms \div 10)]
    /\ Yield([state EXCEPT ![cur] = "SLEEPING"])
    /\ UNCHANGED <<nthreads, ticks>>

(* Wakes whatever is not in the queue.                                     *)
WakesAny(t) == ~ Queued(t)

Wakes(t) == state[t] \in {"SLEEPING", "BLOCKED"}

(* sched_wake.                                                             *)
sched_wake(t) ==
    /\ IF Wakes(t)
       THEN /\ state' = [state EXCEPT ![t] = "READY"]
            /\ rq' = Enqueue(rq, t)
       ELSE UNCHANGED <<state, rq>>
    /\ UNCHANGED <<cur, esp, quantum, wake_tick, need_resched, nthreads,
                   iflag, ticks>>

(* thread_exit, also reached when a thread's function returns.             *)
thread_exit ==
    /\ cur # NULL
    /\ nthreads' = nthreads - 1
    /\ Yield([state EXCEPT ![cur] = "ZOMBIE"])
    /\ UNCHANGED <<wake_tick, ticks>>

(* sched_tick: the quantum, then the threads of the run queue whose sleep  *)
(* is over.                                                                *)
sched_tick ==
    /\ IF cur = NULL
       THEN UNCHANGED <<quantum, need_resched, state>>
       ELSE LET left == IF quantum[cur] > 0 THEN quantum[cur] - 1 ELSE 0
            IN  /\ quantum' = [quantum EXCEPT ![cur] = left]
                /\ need_resched' = (need_resched \/ left = 0)
                /\ state' = [t \in Threads |->
                     IF Queued(t) /\ state[t] = "SLEEPING" /\ wake_tick[t] <= ticks
                     THEN "READY" ELSE state[t]]
    /\ UNCHANGED <<rq, cur, esp, wake_tick, nthreads, iflag, ticks>>

(* pit_handler of drivers/timer/pit.c.                                     *)
pit_tick ==
    /\ ticks' = ticks + 1
    /\ UNCHANGED <<rq, state, cur, esp, quantum, wake_tick, need_resched,
                   nthreads, iflag>>

-----------------------------------------------------------------------------
(* How the operations may be called: a thread is made ready only when it   *)
(* has been created and is neither running nor queued; the idle thread     *)
(* always stays ready or running (it has no reason to sleep or exit, and   *)
(* nothing removes it), so that there is always a thread to switch to.     *)
Create == \E t \in Threads \ {Idle} : thread_create(t)

Add == \E t \in Threads : state[t] = "READY" /\ ~ Queued(t) /\ sched_add(t)

Remove == \E t \in Threads \ {Idle, cur} : cur # NULL /\ sched_remove(t)

Wake == \E t \in Threads \ {cur} : cur # NULL /\ sched_wake(t)

Sleep == cur # Idle /\ \E ms \in SleepTimes : sched_sleep(ms)

Exit == cur # Idle /\ thread_exit

(* The timer interrupt, with either of the handlers the kernel has for it. *)
Tick ==
    /\ iflag
    /\ \/ sched_tick
       \/ ticks < MaxTicks /\ pit_tick

Next ==
    \/ sched_init \/ Create \/ Add \/ Remove \/ Wake
    \/ sched_yield \/ Sleep \/ Exit \/ Tick

SafeSpec == Init /\ [][Next]_vars

(* Threads are cooperative: the running one calls sched_yield sooner or    *)
(* later, unless it sleeps or exits first.                                 *)
Spec == SafeSpec /\ WF_vars(sched_yield)

-----------------------------------------------------------------------------
(* The queue read off the list: its members from the head along next.      *)
NextOf(x) == IF x = NULL THEN NULL ELSE rq.next[x]

RunQueue ==
    LET n == Cardinality({t \in Threads : Queued(t)})
        at[k \in 1 .. n] == IF k = 1 THEN rq.head ELSE NextOf(at[k - 1])
    IN  at

(* The list enqueue, dequeue_next and sched_remove splice is always one    *)
(* ring through the head: prev undoes next, and following next from the    *)
(* head meets every linked thread once and returns.                        *)
RingOK ==
    LET linked == {t \in Threads : Queued(t)}
        n == Cardinality(linked)
    IN  /\ \A t \in linked : /\ rq.next[t] \in linked
                             /\ rq.prev[rq.next[t]] = t
        /\ \A t \in Threads \ linked : rq.prev[t] = NULL
        /\ {RunQueue[k] : k \in 1 .. n} = linked
        /\ rq.head = NULL <=> linked = {}
        /\ n > 0 => NextOf(RunQueue[n]) = rq.head

(* A thread's state agrees with where it is: linked threads are READY, the *)
(* current one is RUNNING and not linked, and no other is RUNNING.         *)
StateMatchesQueue ==
    /\ \A t \in Threads : Queued(t) => state[t] = "READY"
    /\ \A t \in Threads : state[t] = "RUNNING" <=> t = cur
    /\ cur # NULL => ~ Queued(cur)

(* switch_context only ever loads a stack pointer it can resume from:      *)
(* never that of the thread that is running (whose saved pointer is out of *)
(* date until the switch), nor that of a thread not yet created.           *)
ContextsValid ==
    /\ \A t \in Threads : esp[t] = "live" <=> t = cur
    /\ \A t \in Threads : Queued(t) => esp[t] \in {"fresh", "saved"}

(* A thread that called thread_exit never runs again, although it stays    *)
(* known to whoever might wake or remove it.                               *)
ZombiesStay ==
    [][\A t \in Threads : state[t] = "ZOMBIE" => state'[t] = "ZOMBIE" /\ cur' # t]_vars

RR == INSTANCE RoundRobin WITH runq <- RunQueue, running <- cur

(* The linked list and the context switches implement round-robin          *)
(* scheduling: first ready, first run.                                     *)
IsRoundRobin == RR!Spec

(* While every running thread eventually yields, a ready thread runs (or   *)
(* is removed): nothing overtakes it for ever.                             *)
ReadyRuns == \A t \in Threads : Queued(t) ~> ~ Queued(t)
=============================================================================
