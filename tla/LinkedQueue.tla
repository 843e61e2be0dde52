----------------------------- MODULE LinkedQueue -----------------------------
(***************************************************************************)
(* The two-lock linked queue of Lab4-5 (queue.c), shared by the threads of *)
(* "Concurrent Queue/main.c" and of the web server.  A step of a thread    *)
(* makes at most one access that another thread can be in a race with;     *)
(* taking a lock is merged with the access that follows it, and releasing  *)
(* it with the access before.  Operators named Fault_... are not part of   *)
(* the model: each is a plausible slip in the definition it precedes.      *)
(***************************************************************************)
EXTENDS Integers, Sequences, FiniteSets

CONSTANTS
  Thread,   \* the threads that share the queue
  Node,     \* the nodes malloc can hand out; a freed node may come back
  Value,    \* what is enqueued (int value)
  NULL,     \* the null pointer; also the owner of a free lock
  NoValue,  \* the contents of an int nobody has written
  Junk      \* what the caller may find in the result register when
            \* Queue_Empty ends without a return statement

ASSUME QueueAssumption ==
  /\ NULL \notin Node
  /\ NULL \notin Thread
  /\ NoValue \notin Value
  /\ Junk \subseteq Int

VARIABLES
  head,      \* q->head: the dummy node; the first job is head->next
  tail,      \* q->tail
  next,      \* node->next
  value,     \* node->value
  heap,      \* the nodes that are allocated now
  headLock,  \* the thread that holds q->head_lock, or NULL
  tailLock,  \* the thread that holds q->tail_lock, or NULL
  pc,        \* where each thread is inside queue.c; "idle" outside of it
  tmp,       \* the local tmp of Enqueue and Dequeue; in Queue_Empty, the
             \* register that holds q->head
  newHead,   \* the local new_head of Dequeue
  out,       \* the caller's int that Queue_Dequeue fills in
  rv,        \* the result of the last call that returned one
  drain,     \* where a thread is inside Empty_Queue; "no" outside of it
  chain      \* history: the linked nodes in order, from the dummy on

list    == <<head, tail, next, value, heap, chain>>
locks   == <<headLock, tailLock>>
results == <<out, rv>>
qvars   == <<list, locks, results, pc, tmp, newHead, drain>>

Goto(t, label) == pc' = [pc EXCEPT ![t] = label]

\* Queue_Init: one dummy node, empty queue, both locks free
Queue_Init ==
  /\ head \in Node
  /\ tail = head
  /\ chain = <<head>>
  /\ next = [n \in Node |-> NULL]
  /\ value = [n \in Node |-> NoValue]
  /\ heap = {head}
  /\ headLock = NULL
  /\ tailLock = NULL
  /\ pc = [t \in Thread |-> "idle"]
  /\ tmp = [t \in Thread |-> NULL]
  /\ newHead = [t \in Thread |-> NULL]
  /\ out = [t \in Thread |-> NoValue]
  /\ rv = [t \in Thread |-> 0]
  /\ drain = [t \in Thread |-> "no"]

------------------------------------------------------------------------------
(* Queue_Enqueue                                                            *)

\* malloc a node and fill it in; it is still private to the thread.  Running
\* out of memory (the assert in the code) is not modelled.
Enqueue_Alloc(t, v) ==
  /\ pc[t] = "idle" /\ Goto(t, "link")
  /\ \E n \in Node \ heap :
       /\ heap' = heap \cup {n}
       /\ value' = [value EXCEPT ![n] = v]
       /\ next' = [next EXCEPT ![n] = NULL]
       /\ tmp' = [tmp EXCEPT ![t] = n]
  /\ UNCHANGED <<head, tail, chain, locks, results, newHead, drain>>

\* q->tail->next = tmp
LinkLast(t) ==
  /\ pc[t] = "link" /\ Goto(t, "swing")
  /\ next' = [next EXCEPT ![tail] = tmp[t]]
  /\ chain' = Append(chain, tmp[t])
  /\ UNCHANGED <<head, tail, value, heap, headLock, results, tmp, newHead, drain>>

Fault_LinkUnlocked(t) == LinkLast(t) /\ UNCHANGED tailLock

\* lock tail_lock; link the node
Enqueue_Link(t) == tailLock = NULL /\ tailLock' = t /\ LinkLast(t)

\* q->tail = n
SwingTo(t, n) ==
  /\ pc[t] = "swing" /\ Goto(t, "idle")
  /\ tail' = n
  /\ tmp' = [tmp EXCEPT ![t] = NULL]
  /\ UNCHANGED <<head, next, value, heap, chain, headLock, results, newHead, drain>>

Fault_TailForgotten(t) == SwingTo(t, tail) /\ tailLock' = NULL

Fault_TailNotUnlocked(t) == SwingTo(t, tmp[t]) /\ UNCHANGED tailLock

Fault_TailPastNode(t) == SwingTo(t, next[tmp[t]]) /\ tailLock' = NULL

\* q->tail = tmp; unlock tail_lock; return
Enqueue_Swing(t) == SwingTo(t, tmp[t]) /\ tailLock' = NULL

------------------------------------------------------------------------------
(* Queue_Dequeue                                                            *)

Dequeue_Call(t) ==
  /\ pc[t] = "idle" /\ Goto(t, "take")
  /\ UNCHANGED <<list, locks, results, tmp, newHead, drain>>

Fault_MissBehindTail(t) ==
  /\ pc[t] = "take" /\ Goto(t, "idle")
  /\ headLock = NULL
  /\ head = tail
  /\ rv' = [rv EXCEPT ![t] = -1]
  /\ UNCHANGED <<list, locks, out, tmp, newHead, drain>>

\* lock head_lock; new_head is NULL: unlock and return -1
Dequeue_Miss(t) ==
  /\ pc[t] = "take" /\ Goto(t, "idle")
  /\ headLock = NULL
  /\ next[head] = NULL
  /\ rv' = [rv EXCEPT ![t] = -1]
  /\ UNCHANGED <<list, locks, out, tmp, newHead, drain>>

\* tmp = q->head; new_head = tmp->next
LoadHead(t) ==
  /\ pc[t] = "take" /\ Goto(t, "advance")
  /\ tmp' = [tmp EXCEPT ![t] = head]
  /\ newHead' = [newHead EXCEPT ![t] = next[head]]
  /\ UNCHANGED <<list, tailLock, results, drain>>

Fault_TakeUnlocked(t) == next[head] # NULL /\ LoadHead(t) /\ UNCHANGED headLock

\* lock head_lock; new_head is not NULL
Dequeue_Take(t) ==
  /\ headLock = NULL /\ headLock' = t
  /\ next[head] # NULL
  /\ LoadHead(t)

\* *value = new_head->value; q->head = new_head; unlock head_lock
Dequeue_Advance(t) ==
  /\ pc[t] = "advance" /\ Goto(t, "free")
  /\ out' = [out EXCEPT ![t] = value[newHead[t]]]
  /\ head' = newHead[t]
  /\ headLock' = NULL
  /\ newHead' = [newHead EXCEPT ![t] = NULL]
  /\ rv' = [rv EXCEPT ![t] = 0]
  /\ chain' = Tail(chain)
  /\ UNCHANGED <<tail, next, value, heap, tailLock, tmp, drain>>

Fault_LastKept(t) ==
  /\ pc[t] = "free" /\ Goto(t, "idle")
  /\ IF next[head] = NULL THEN UNCHANGED list
     ELSE heap' = heap \ {tmp[t]} /\ UNCHANGED <<head, tail, next, value, chain>>
  /\ tmp' = [tmp EXCEPT ![t] = NULL]
  /\ UNCHANGED <<locks, results, newHead, drain>>

\* free(tmp); return 0.  The contents of a freed node mean nothing: reset.
Dequeue_Free(t) ==
  /\ pc[t] = "free" /\ Goto(t, "idle")
  /\ heap' = heap \ {tmp[t]}
  /\ next' = [next EXCEPT ![tmp[t]] = NULL]
  /\ value' = [value EXCEPT ![tmp[t]] = NoValue]
  /\ tmp' = [tmp EXCEPT ![t] = NULL]
  /\ UNCHANGED <<head, tail, chain, locks, results, newHead, drain>>

------------------------------------------------------------------------------
(* Queue_Empty: four loads without a lock, in the order the code makes them *)

Load(t, label) ==
  /\ Goto(t, label)
  /\ tmp' = [tmp EXCEPT ![t] = head]
  /\ UNCHANGED <<list, locks, results, newHead>>

Answer(t, r) ==
  /\ Goto(t, "idle")
  /\ rv' = [rv EXCEPT ![t] = r]
  /\ tmp' = [tmp EXCEPT ![t] = NULL]
  /\ UNCHANGED <<list, locks, out, newHead, drain>>

\* called: load q->head
Empty_Call(t) == pc[t] = "idle" /\ Load(t, "loadTail") /\ UNCHANGED drain

\* load q->tail and compare: not the same, return 0
Empty_Differ(t) == pc[t] = "loadTail" /\ tmp[t] # tail /\ Answer(t, 0)

\* the same: go on to q->head->next
Empty_Same(t) ==
  /\ pc[t] = "loadTail" /\ Goto(t, "reload")
  /\ tmp[t] = tail
  /\ UNCHANGED <<list, locks, results, tmp, newHead, drain>>

\* load q->head again
Empty_Reload(t) == pc[t] = "reload" /\ Load(t, "loadNext") /\ UNCHANGED drain

\* ->next is NULL: return 1; otherwise the function ends without a value.  If
\* the node was freed since q->head was loaded, the word read is arbitrary.
Empty_Next(t) ==
  /\ pc[t] = "loadNext"
  /\ \/ next[tmp[t]] = NULL /\ Answer(t, 1)
     \/ (next[tmp[t]] # NULL \/ tmp[t] \notin heap) /\ \E r \in Junk : Answer(t, r)

------------------------------------------------------------------------------
(* Empty_Queue: while (Queue_Empty(q) == 0) Queue_Dequeue(q, &val).  Its     *)
(* own read of q->head->value is dead: val is used only after a dequeue has *)
(* overwritten it.                                                          *)

DrainAt(t, place) == drain[t] = place /\ pc[t] = "idle"

DrainGoto(t, place) == drain' = [drain EXCEPT ![t] = place]

\* enter the loop: call Queue_Empty
Drain_Call(t) == DrainAt(t, "no") /\ DrainGoto(t, "test") /\ Load(t, "loadTail")

\* Queue_Empty answered 0: dequeue
Drain_Dequeue(t) ==
  /\ DrainAt(t, "test") /\ DrainGoto(t, "dequeue")
  /\ rv[t] = 0
  /\ Goto(t, "take")
  /\ UNCHANGED <<list, locks, results, tmp, newHead>>

\* the dequeue returned, whatever its result: test again
Drain_Again(t) == DrainAt(t, "dequeue") /\ DrainGoto(t, "test") /\ Load(t, "loadTail")

\* Queue_Empty answered anything but 0: return
Drain_Return(t) ==
  /\ DrainAt(t, "test") /\ DrainGoto(t, "no")
  /\ rv[t] # 0
  /\ UNCHANGED <<list, locks, results, pc, tmp, newHead>>

------------------------------------------------------------------------------
EnqueueStep(t) == Enqueue_Link(t) \/ Enqueue_Swing(t)

DequeueStep(t) == Dequeue_Miss(t) \/ Dequeue_Take(t) \/ Dequeue_Advance(t) \/ Dequeue_Free(t)

EmptyStep(t) == Empty_Differ(t) \/ Empty_Same(t) \/ Empty_Reload(t) \/ Empty_Next(t)

DrainStep(t) == Drain_Dequeue(t) \/ Drain_Again(t) \/ Drain_Return(t)

\* t moves inside queue.c
QueueStep(t) == EnqueueStep(t) \/ DequeueStep(t) \/ EmptyStep(t) \/ DrainStep(t)

\* t is in its caller's code
Outside(t) == DrainAt(t, "no")

\* The most general client: any thread calls any function at any time.
Call(t) ==
  /\ Outside(t)
  /\ \/ \E v \in Value : Enqueue_Alloc(t, v)
     \/ Dequeue_Call(t)
     \/ Empty_Call(t)
     \/ Drain_Call(t)

Next == \E t \in Thread : Call(t) \/ QueueStep(t)

Spec == Queue_Init /\ [][Next]_qvars

------------------------------------------------------------------------------
(* Properties                                                               *)

\* The values each variable ranges over.  A head or a tail that became NULL,
\* as when Queue_Dequeue forgets its test of new_head, breaks it.
TypeOK ==
  /\ head \in Node /\ tail \in Node
  /\ next \in [Node -> Node \cup {NULL}]
  /\ value \in [Node -> Value \cup {NoValue}]
  /\ heap \in SUBSET Node
  /\ headLock \in Thread \cup {NULL} /\ tailLock \in Thread \cup {NULL}
  /\ pc \in [Thread -> {"idle", "link", "swing", "take", "advance", "free",
                        "loadTail", "reload", "loadNext"}]
  /\ tmp \in [Thread -> Node \cup {NULL}]
  /\ newHead \in [Thread -> Node \cup {NULL}]
  /\ out \in [Thread -> Value \cup {NoValue}]
  /\ rv \in [Thread -> Int]
  /\ drain \in [Thread -> {"no", "test", "dequeue"}]
  /\ chain \in Seq(Node)

InChain(n) == \E i \in 1..Len(chain) : chain[i] = n

\* The linked list is the chain: it starts at q->head, ends at the only linked
\* node whose next is NULL, visits no node twice and only allocated ones.
ChainLinked ==
  /\ Len(chain) >= 1
  /\ chain[1] = head
  /\ \A i \in 1..Len(chain) : chain[i] \in heap
  /\ \A i, j \in 1..Len(chain) : chain[i] = chain[j] => i = j
  /\ \A i \in 1..(Len(chain) - 1) : next[chain[i]] = chain[i + 1]
  /\ next[chain[Len(chain)]] = NULL

\* q->tail is the last linked node, except that while an enqueuer is between
\* its two stores the last node is the one it is about to make the tail.
TailLags ==
  /\ \A t \in Thread : pc[t] = "swing" <=> tailLock = t
  /\ tailLock = NULL => tail = chain[Len(chain)]
  /\ \A t \in Thread : pc[t] = "swing" => tmp[t] = chain[Len(chain)]

\* head_lock protects the two loads of a dequeue until q->head has moved.
HeadHeld ==
  /\ \A t \in Thread : pc[t] = "advance" <=> headLock = t
  /\ \A t \in Thread : pc[t] = "advance" =>
       /\ Len(chain) >= 2
       /\ tmp[t] = chain[1]
       /\ newHead[t] = chain[2]

\* A node malloc'd and not yet linked, and a node unlinked and not yet freed,
\* is allocated, out of the list, and known to one thread only.
Owned(t) == pc[t] \in {"link", "free"}

PrivateNodes ==
  /\ \A t \in Thread : Owned(t) => tmp[t] \in heap /\ ~InChain(tmp[t])
  /\ \A t \in Thread : pc[t] = "link" => next[tmp[t]] = NULL /\ value[tmp[t]] # NoValue
  /\ \A t, u \in Thread : Owned(t) /\ Owned(u) /\ tmp[t] = tmp[u] => t = u

\* A linked node other than the dummy holds a value that was enqueued.
ChainFilled == \A i \in 2..Len(chain) : value[chain[i]] \in Value

\* The queue is sound under every interleaving: inductive.
QueueInv == ChainLinked /\ TailLags /\ HeadHeld /\ PrivateNodes /\ ChainFilled

\* No operation that takes a lock touches or frees memory that has been freed:
\* neither q->tail->next = tmp, nor the loads through q->head and new_head,
\* nor free(tmp), although q->tail may dangle between the two stores of
\* Queue_Enqueue while a dequeuer overtakes it.
LockedAccessesAlive ==
  \A t \in Thread :
    /\ pc[t] = "link" /\ tailLock = NULL => tail \in heap
    /\ pc[t] = "take" /\ headLock = NULL => head \in heap
    /\ pc[t] = "advance" => newHead[t] \in heap
    /\ pc[t] = "free" =>
         /\ tmp[t] \in heap /\ tmp[t] # head
         /\ tmp[t] = tail => tailLock # NULL

\* Nothing leaks: a node that malloc gave and free has not taken back is in the
\* list, or in the hands of the one thread that is about to link or to free it.
\* So an idle queue keeps one node for each job, and the dummy.
NoLeak == \A n \in heap : InChain(n) \/ \E t \in Thread : Owned(t) /\ tmp[t] = n

\* Does not hold: queue.c:44 says of q->head == q->tail: "Queue is empty".  So a
\* Queue_Empty that found them equal should end with the answer 1; but an
\* enqueuer may have linked its node and not moved the tail yet.
EqualEndsAnswerEmpty ==
  [][\A t \in Thread : pc[t] = "loadNext" /\ pc'[t] = "idle" => rv'[t] = 1]_qvars

\* The queue implements the first-in first-out queue of FifoQueue: an enqueue
\* takes effect when its node is linked, a dequeue when q->head moves, an
\* unsuccessful one when it reads the NULL.
Fifo == INSTANCE FifoQueue WITH
  items  <- [i \in 1..(Len(chain) - 1) |-> value[chain[i + 1]]],
  pend   <- [t \in Thread |-> IF pc[t] = "link" THEN value[tmp[t]] ELSE NoValue],
  asking <- {t \in Thread : pc[t] \in {"take", "advance"}},
  got    <- out,
  res    <- rv

ImplementsFifo == Fifo!Spec
==============================================================================
