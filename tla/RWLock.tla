------------------------------- MODULE RWLock --------------------------------
(***************************************************************************)
(* Question 4 of chapter 31: a readers-writers lock made of two semaphores *)
(* (the first reader in takes roomEmpty, the last one out gives it back),  *)
(* with the readers and writers that use it: each goes Loops times through *)
(* its critical section, where a reader reads the shared value and a       *)
(* writer increments it with a load and a store.                           *)
(* A thread that main has not created yet is one that has not moved yet.   *)
(***************************************************************************)
EXTENDS Semaphores

CONSTANTS Reader, Writer, Loops

ASSUME LockAssumption ==
  /\ IsFiniteSet(Reader) /\ IsFiniteSet(Writer)
  /\ Reader \cap Writer = {}
  /\ Loops \in Nat

Thread == Reader \cup Writer

VARIABLES
  readers,    \* rw->readers
  roomEmpty,  \* the value of the semaphore rw->roomEmpty
  value,      \* the shared value
  rounds,     \* how many rounds each thread still has to begin
  reg,        \* what a writer has loaded, or a reader read, of the value
  ended       \* main has joined everyone and printed the value

lock == <<readers, mutex, roomEmpty>>
data == <<value, reg, ended>>
lvars == <<lock, data, pc, rounds>>

\* the for loop of a thread
Round(t) == rounds[t] > 0 /\ rounds' = [rounds EXCEPT ![t] = @ - 1]

\* rwlock_init; a thread is "idle" between two critical sections
LockInit ==
  /\ readers = 0 /\ mutex = 1 /\ roomEmpty = 1
  /\ value = 0
  /\ pc = [t \in Thread |-> "idle"]
  /\ rounds = [t \in Thread |-> Loops]
  /\ reg = [t \in Thread |-> 0]
  /\ ended = FALSE

------------------------------------------------------------------------------
(* reader: rwlock_acquire_readlock                                          *)

\* readers++; the first one in has to wait for the room
ReaderIn(r) ==
  /\ pc[r] = "idle"
  /\ Round(r)
  /\ readers' = readers + 1
  /\ Goto(r, IF readers' = 1 THEN "room" ELSE "in")
  /\ UNCHANGED <<roomEmpty, data>>

\* Sem_wait(&rw->mutex)
AcquireRead(r) == SemWait(mutex) /\ ReaderIn(r)

Fault_RoomSkipped(r) ==
  /\ pc[r] = "room" /\ Goto(r, "in")
  /\ UNCHANGED <<lock, data, rounds>>

\* Sem_wait(&rw->roomEmpty), with the mutex held
TakeRoom(r) ==
  /\ pc[r] = "room" /\ Goto(r, "in")
  /\ SemWait(roomEmpty)
  /\ UNCHANGED <<readers, mutex, data, rounds>>

\* Sem_post(&rw->mutex)
EndAcquireRead(r) ==
  /\ pc[r] = "in" /\ Goto(r, "read")
  /\ SemPost(mutex)
  /\ UNCHANGED <<readers, roomEmpty, data, rounds>>

\* printf("read %d\n", value)
Read(r) ==
  /\ pc[r] = "read" /\ Goto(r, "leave")
  /\ reg' = [reg EXCEPT ![r] = value]
  /\ UNCHANGED <<lock, value, ended, rounds>>

------------------------------------------------------------------------------
(* reader: rwlock_release_readlock                                          *)

\* Sem_wait(&rw->mutex); readers--; the last one out gives the room back
ReleaseRead(r) ==
  /\ pc[r] = "leave"
  /\ SemWait(mutex)
  /\ readers' = readers - 1
  /\ Goto(r, IF readers' = 0 THEN "vacate" ELSE "out")
  /\ UNCHANGED <<roomEmpty, data, rounds>>

Fault_RoomKept(r) ==
  /\ pc[r] = "vacate" /\ Goto(r, "out")
  /\ UNCHANGED <<lock, data, rounds>>

\* Sem_post(&rw->roomEmpty)
Vacate(r) ==
  /\ pc[r] = "vacate" /\ Goto(r, "out")
  /\ SemPost(roomEmpty)
  /\ UNCHANGED <<readers, mutex, data, rounds>>

\* Sem_post(&rw->mutex)
EndReleaseRead(r) ==
  /\ pc[r] = "out" /\ Goto(r, "idle")
  /\ SemPost(mutex)
  /\ UNCHANGED <<readers, roomEmpty, data, rounds>>

------------------------------------------------------------------------------
(* writer                                                                   *)

Load(w) ==
  /\ pc[w] = "idle" /\ Goto(w, "store")
  /\ Round(w)
  /\ reg' = [reg EXCEPT ![w] = value]
  /\ UNCHANGED <<readers, mutex, value, ended>>

Fault_WriteUnlocked(w) == Load(w) /\ UNCHANGED roomEmpty

\* rwlock_acquire_writelock, and the load of value++
AcquireWrite(w) == SemWait(roomEmpty) /\ Load(w)

\* the store of value++
Store(w) ==
  /\ pc[w] = "store" /\ Goto(w, "print")
  /\ value' = reg[w] + 1
  /\ UNCHANGED <<lock, reg, ended, rounds>>

\* printf("write %d\n", value); rwlock_release_writelock
ReleaseWrite(w) ==
  /\ pc[w] = "print" /\ Goto(w, "idle")
  /\ SemPost(roomEmpty)
  /\ UNCHANGED <<readers, mutex, data, rounds>>

------------------------------------------------------------------------------
\* main has joined every thread and prints "end: value %d"
End ==
  /\ \A t \in Thread : pc[t] = "idle" /\ rounds[t] = 0
  /\ ~ended /\ ended' = TRUE
  /\ UNCHANGED <<lock, value, reg, pc, rounds>>

ReaderStep(r) ==
  \/ AcquireRead(r) \/ TakeRoom(r) \/ EndAcquireRead(r) \/ Read(r)
  \/ ReleaseRead(r) \/ Vacate(r) \/ EndReleaseRead(r)

WriterStep(w) == AcquireWrite(w) \/ Store(w) \/ ReleaseWrite(w)

LockNext ==
  \/ End
  \/ \E r \in Reader : ReaderStep(r)
  \/ \E w \in Writer : WriterStep(w)

\* A thread that can run is eventually run.  The lock may let readers overtake
\* a writer, but only as often as their finite loops allow.
LockSpec ==
  /\ LockInit /\ [][LockNext]_lvars
  /\ WF_lvars(End)
  /\ \A r \in Reader : WF_lvars(ReaderStep(r))
  /\ \A w \in Writer : WF_lvars(WriterStep(w))

------------------------------------------------------------------------------
(* Properties                                                               *)

ReaderLabels == {"idle", "room", "in", "read", "leave", "vacate", "out"}
WriterLabels == {"idle", "store", "print"}

LockTypeOK ==
  /\ readers \in Nat
  /\ mutex \in 0..1
  /\ roomEmpty \in 0..1
  /\ value \in Nat
  /\ pc \in [Thread -> ReaderLabels \cup WriterLabels]
  /\ \A r \in Reader : pc[r] \in ReaderLabels
  /\ \A w \in Writer : pc[w] \in WriterLabels
  /\ rounds \in [Thread -> 0..Loops]
  /\ reg \in [Thread -> Nat]
  /\ ended \in BOOLEAN

\* The threads in their critical sections.
Reading == {r \in Reader : pc[r] \in {"read", "leave"}}
Writing == {w \in Writer : pc[w] \in {"store", "print"}}

\* A writer has the room for itself: no reader and no other writer is in it.
Exclusion ==
  \A w \in Writing : Reading = {} /\ Writing = {w}

\* A reader that is inside sees the value that was there when it came in until
\* it leaves, and a writer the value that it loaded until it stores.
Stable ==
  /\ \A r \in Reader : pc[r] = "leave" => reg[r] = value
  /\ \A w \in Writer : pc[w] = "store" => reg[w] = value

\* What main prints is Loops increments per writer: none is lost.
NothingLost == ended => value = Loops * Cardinality(Writer)

\* No thread is locked out for ever: main gets to print.
Ends == <>ended
==============================================================================
