------------------------------- MODULE Barrier -------------------------------
(***************************************************************************)
(* Question 3 of chapter 31: a barrier made of two semaphores and a count. *)
(* Main creates N children, each prints "before", passes the barrier and   *)
(* prints "after"; main joins them in order.  The count is incremented     *)
(* under the semaphore mutex and read by the while without it.             *)
(***************************************************************************)
EXTENDS Semaphores

CONSTANT N  \* num_threads

ASSUME NAssumption == N \in Nat \ {0}

Child == 1..N

VARIABLES
  count,    \* b->count
  barrier,  \* the value of the semaphore b->barrier
  turn,     \* how many creations and then joins main has made
  before,   \* the children that have printed "before"
  after     \* the children that have printed "after"

sems == <<count, mutex, barrier>>
prints == <<before, after>>
bvars == <<sems, pc, turn, prints>>

\* barrier_init; a child is "new" before it is created
BarrierInit ==
  /\ count = 0
  /\ mutex = 1
  /\ barrier = 0
  /\ pc = [c \in Child |-> "new"]
  /\ turn = 0
  /\ before = {}
  /\ after = {}

------------------------------------------------------------------------------
(* main                                                                     *)

Create(c) ==
  /\ turn = c - 1 /\ turn' = c
  /\ Goto(c, "start")
  /\ UNCHANGED <<sems, prints>>

Join(c) ==
  /\ turn = N + c - 1 /\ turn' = N + c
  /\ pc[c] = "done"
  /\ UNCHANGED <<sems, pc, prints>>

------------------------------------------------------------------------------
(* child                                                                    *)

PrintBefore(c) ==
  /\ pc[c] = "start" /\ Goto(c, "enter")
  /\ before' = before \cup {c}
  /\ UNCHANGED <<sems, turn, after>>

Arrive(c) ==
  /\ pc[c] = "enter" /\ Goto(c, "unlock")
  /\ count' = count + 1
  /\ UNCHANGED <<barrier, turn, prints>>

\* Sem_wait(&b->mutex); b->count++
Enter(c) == SemWait(mutex) /\ Arrive(c)

Fault_MutexKept(c) == pc[c] = "unlock" /\ Goto(c, "test") /\ UNCHANGED <<sems, turn, prints>>

\* Sem_post(&b->mutex)
Unlock(c) ==
  /\ pc[c] = "unlock" /\ Goto(c, "test")
  /\ SemPost(mutex)
  /\ UNCHANGED <<count, barrier, turn, prints>>

Fault_OneShort(c) ==
  /\ pc[c] = "test"
  /\ Goto(c, IF count < N - 1 THEN "wait" ELSE "post")
  /\ UNCHANGED <<sems, turn, prints>>

\* while (!(b->count == b->threadNum))
Test(c) ==
  /\ pc[c] = "test"
  /\ Goto(c, IF count # N THEN "wait" ELSE "post")
  /\ UNCHANGED <<sems, turn, prints>>

\* Sem_wait(&b->barrier)
Wait(c) ==
  /\ pc[c] = "wait" /\ Goto(c, "test")
  /\ SemWait(barrier)
  /\ UNCHANGED <<count, mutex, turn, prints>>

Fault_NoPost(c) == pc[c] = "post" /\ Goto(c, "leave") /\ UNCHANGED <<sems, turn, prints>>

\* Sem_post(&b->barrier)
Post(c) ==
  /\ pc[c] = "post" /\ Goto(c, "leave")
  /\ SemPost(barrier)
  /\ UNCHANGED <<count, mutex, turn, prints>>

PrintAfter(c) ==
  /\ pc[c] = "leave" /\ Goto(c, "done")
  /\ after' = after \cup {c}
  /\ UNCHANGED <<sems, turn, before>>

ChildStep(c) ==
  \/ PrintBefore(c) \/ Enter(c) \/ Unlock(c) \/ Test(c) \/ Wait(c) \/ Post(c)
  \/ PrintAfter(c)

MainStep == \E c \in Child : Create(c) \/ Join(c)

BarrierNext == MainStep \/ \E c \in Child : ChildStep(c)

\* A thread that can run is eventually run.  Weak fairness is enough: every
\* semaphore a child waits for stays available to it until the others are done.
BarrierSpec ==
  /\ BarrierInit /\ [][BarrierNext]_bvars
  /\ WF_bvars(MainStep)
  /\ \A c \in Child : WF_bvars(ChildStep(c))

------------------------------------------------------------------------------
(* Properties                                                               *)

Labels == {"new", "start", "enter", "unlock", "test", "wait", "post", "leave", "done"}

BarrierTypeOK ==
  /\ count \in 0..N
  /\ mutex \in 0..1
  /\ barrier \in Nat
  /\ pc \in [Child -> Labels]
  /\ turn \in 0..(2 * N)
  /\ before \in SUBSET Child
  /\ after \in SUBSET Child

\* The children whose arrival has been counted.
Arrived == {c \in Child : pc[c] \in {"unlock", "test", "wait", "post", "leave", "done"}}

\* No wakeup is lost: once everyone has arrived and someone still sleeps on
\* b->barrier, a token is there for it or another child is on its way to the
\* post, although the test of the while and the wait are not one step.
NoLostWakeup ==
  count = N /\ (\E c \in Child : pc[c] = "wait") =>
    barrier > 0 \/ \E c \in Child : pc[c] \in {"unlock", "test", "post"}

\* question3.c:8-9: "each child should print their before message before
\* either prints their after message".
BA == INSTANCE BeforeAfter
ImplementsBeforeAfter == BA!Spec

\* Nobody is left behind at the barrier: main joins every child.
AllJoined == <>(turn = 2 * N)
==============================================================================
