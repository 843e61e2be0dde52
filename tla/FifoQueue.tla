------------------------------ MODULE FifoQueue ------------------------------
(***************************************************************************)
(* What the concurrent queue of Lab4-5 promises its callers: Queue_Enqueue *)
(* and Queue_Dequeue each take effect at one instant between call and      *)
(* return, on a first-in first-out sequence, and Queue_Dequeue reports     *)
(* "empty" only at an instant when the sequence is empty.  Queue_Empty     *)
(* reads the queue without a lock and promises nothing about its answer.   *)
(***************************************************************************)
EXTENDS Integers, Sequences

CONSTANTS
  Thread,   \* the threads that share the queue
  Value,    \* what may be enqueued
  NoValue,  \* "nothing": not a value
  Junk      \* what Queue_Empty may answer besides 0 and 1

VARIABLES
  items,    \* the queued values, oldest first
  pend,     \* pend[t]: the value t is about to put, or NoValue
  asking,   \* the threads that have called Queue_Dequeue without effect yet
  got,      \* got[t]: what the last successful dequeue of t stored for its caller
  res       \* res[t]: the last result returned to t

vars == <<items, pend, asking, got, res>>

Init ==
  /\ items = << >>
  /\ pend = [t \in Thread |-> NoValue]
  /\ asking = {}
  /\ got = [t \in Thread |-> NoValue]
  /\ res = [t \in Thread |-> 0]

Free(t) == pend[t] = NoValue /\ t \notin asking

\* t calls Queue_Enqueue(q, v)
AskPut(t, v) ==
  /\ Free(t)
  /\ pend' = [pend EXCEPT ![t] = v]
  /\ UNCHANGED <<items, asking, got, res>>

\* the instant at which the enqueue of t takes effect
Put(t) ==
  /\ pend[t] # NoValue
  /\ items' = Append(items, pend[t])
  /\ pend' = [pend EXCEPT ![t] = NoValue]
  /\ UNCHANGED <<asking, got, res>>

\* t calls Queue_Dequeue(q, &value)
AskTake(t) ==
  /\ Free(t)
  /\ asking' = asking \cup {t}
  /\ UNCHANGED <<items, pend, got, res>>

\* the instant at which a dequeue that returns 0 takes effect
Take(t) ==
  /\ t \in asking
  /\ items # << >>
  /\ got' = [got EXCEPT ![t] = Head(items)]
  /\ items' = Tail(items)
  /\ res' = [res EXCEPT ![t] = 0]
  /\ asking' = asking \ {t}
  /\ UNCHANGED pend

\* the instant at which a dequeue that returns -1 takes effect
Miss(t) ==
  /\ t \in asking
  /\ items = << >>
  /\ res' = [res EXCEPT ![t] = -1]
  /\ asking' = asking \ {t}
  /\ UNCHANGED <<items, pend, got>>

\* Queue_Empty answers; nothing ties the answer to the queue
Peek(t) ==
  /\ Free(t)
  /\ \E r \in {0, 1} \cup Junk : res' = [res EXCEPT ![t] = r]
  /\ UNCHANGED <<items, pend, asking, got>>

Next ==
  \E t \in Thread :
    \/ \E v \in Value : AskPut(t, v)
    \/ Put(t)
    \/ AskTake(t)
    \/ Take(t)
    \/ Miss(t)
    \/ Peek(t)

Spec == Init /\ [][Next]_vars

==============================================================================
