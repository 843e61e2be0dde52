----------------------------- MODULE Semaphores ------------------------------
(***************************************************************************)
(* What the barrier and the readers-writers lock of chapter 31 share:      *)
(* threads, the semaphores of common_threads.h, and one of them, mutex, on *)
(* which either lets its threads at a count one at a time.                 *)
(***************************************************************************)
EXTENDS Integers, FiniteSets

VARIABLES
  pc,     \* where each thread is
  mutex   \* the value of the semaphore mutex

Goto(t, label) == pc' = [pc EXCEPT ![t] = label]

SemWait(sem) == sem > 0 /\ sem' = sem - 1

SemPost(sem) == sem' = sem + 1
==============================================================================
