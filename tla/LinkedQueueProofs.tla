-------------------------- MODULE LinkedQueueProofs --------------------------
(***************************************************************************)
(* The two-lock queue is sound, and is a first-in first-out queue, for any *)
(* number of threads, nodes and values.  TypeOK /\ QueueInv is inductive:  *)
(* QueueInv says where every node is (in the list, or private to one       *)
(* thread), what each lock protects, and how far q->tail may lag behind.   *)
(* There is one lemma per function of queue.c, one step per action.        *)
(***************************************************************************)
EXTENDS LinkedQueue, SequenceTheorems, TLAPS

Inv == TypeOK /\ QueueInv

USE QueueAssumption

\* A thread that is not inside an operation that owns a node or a lock.
Quiet == {"idle", "take", "loadTail", "reload", "loadNext"}

\* Steps of such a thread that leave the list and the locks alone: the calls,
\* a dequeue that finds nothing, and every step of Queue_Empty and Empty_Queue.
LEMMA QuietStep ==
  ASSUME Inv, TypeOK', NEW t \in Thread, NEW label \in Quiet,
         pc[t] \in Quiet, Goto(t, label),
         UNCHANGED <<list, locks, newHead>>,
         \A u \in Thread \ {t} : tmp'[u] = tmp[u]
  PROVE  QueueInv'
<1> USE DEF Inv, TypeOK, Goto, list, locks, Quiet
<1>1. ChainLinked' /\ ChainFilled'
  BY DEF QueueInv, ChainLinked, ChainFilled
<1>2. TailLags' /\ HeadHeld'
  BY DEF QueueInv, TailLags, HeadHeld
<1>3. PrivateNodes'
  BY DEF QueueInv, PrivateNodes, Owned, InChain
<1> QED  BY <1>1, <1>2, <1>3 DEF QueueInv

LEMMA InitInv == Queue_Init => Inv
<1> SUFFICES ASSUME Queue_Init PROVE Inv
  OBVIOUS
<1> USE DEF Queue_Init
<1>1. TypeOK
  BY DEF TypeOK
<1>2. ChainLinked /\ TailLags
  BY DEF ChainLinked, TailLags
<1>3. HeadHeld /\ PrivateNodes /\ ChainFilled
  BY DEF HeadHeld, PrivateNodes, ChainFilled, Owned
<1> QED  BY <1>1, <1>2, <1>3 DEF Inv, QueueInv

------------------------------------------------------------------------------
(* Queue_Enqueue                                                            *)

LEMMA AllocInv ==
  ASSUME Inv, NEW t \in Thread, NEW v \in Value, Enqueue_Alloc(t, v)
  PROVE  Inv'
<1> USE DEF Inv, TypeOK, QueueInv, Enqueue_Alloc, Goto, locks, results
<1>1. TypeOK'
  OBVIOUS
<1>2. ChainLinked' /\ ChainFilled'
  <2>1. chain' = chain /\ head' = head
    OBVIOUS
  <2>2. \A i \in 1..Len(chain) : /\ chain[i] \in heap'
                               /\ next'[chain[i]] = next[chain[i]]
                               /\ value'[chain[i]] = value[chain[i]]
    BY DEF ChainLinked
  <2> QED  BY <2>1, <2>2 DEF ChainLinked, ChainFilled
<1>3. TailLags' /\ HeadHeld'
  BY DEF TailLags, HeadHeld
<1>4. PrivateNodes'
  BY DEF PrivateNodes, Owned, InChain, ChainLinked
<1> QED  BY <1>1, <1>2, <1>3, <1>4

LEMMA LinkInv ==
  ASSUME Inv, NEW t \in Thread, Enqueue_Link(t)
  PROVE  Inv'
<1> USE DEF Inv, TypeOK, QueueInv, Enqueue_Link, LinkLast, Goto, results
<1>2. /\ tail = chain[Len(chain)]
      /\ tmp[t] \in heap /\ ~InChain(tmp[t])
      /\ next[tmp[t]] = NULL /\ value[tmp[t]] \in Value
  BY DEF TailLags, PrivateNodes, Owned
<1>1. TypeOK'
  BY <1>2
<1>3. ChainLinked' /\ ChainFilled'
  BY <1>2 DEF ChainLinked, ChainFilled, InChain
<1>4. TailLags'
  BY DEF TailLags
<1>5. HeadHeld'
  BY DEF HeadHeld, ChainLinked
<1>6. PrivateNodes'
  BY <1>2 DEF PrivateNodes, Owned, InChain, ChainLinked
<1> QED  BY <1>1, <1>3, <1>4, <1>5, <1>6

LEMMA SwingInv ==
  ASSUME Inv, NEW t \in Thread, Enqueue_Swing(t)
  PROVE  Inv'
<1> USE DEF Inv, TypeOK, QueueInv, Enqueue_Swing, SwingTo, Goto, results
<1>1. tmp[t] = chain[Len(chain)] /\ tailLock = t
  BY DEF TailLags
<1>2. TypeOK'
  BY <1>1 DEF ChainLinked
<1>3. ChainLinked' /\ ChainFilled'
  BY DEF ChainLinked, ChainFilled
<1>4. TailLags' /\ HeadHeld'
  BY <1>1 DEF TailLags, HeadHeld
<1>5. PrivateNodes'
  BY DEF PrivateNodes, Owned, InChain
<1> QED  BY <1>2, <1>3, <1>4, <1>5

------------------------------------------------------------------------------
(* Queue_Dequeue                                                            *)

LEMMA TakeInv ==
  ASSUME Inv, NEW t \in Thread, Dequeue_Take(t)
  PROVE  Inv'
<1> USE DEF Inv, TypeOK, QueueInv, Dequeue_Take, LoadHead, Goto, list, results
<1>1. TypeOK'
  OBVIOUS
<1>2. Len(chain) >= 2 /\ head = chain[1] /\ next[head] = chain[2]
  <2>1. Len(chain) \in Nat /\ Len(chain) >= 1 /\ Len(chain) # 1
    BY DEF ChainLinked
  <2>2. \A k \in Nat : k >= 1 /\ k # 1 => k >= 2 /\ 1 \in 1..(k - 1)
    OBVIOUS
  <2>3. Len(chain) >= 2 /\ 1 \in 1..(Len(chain) - 1)
    BY <2>1, <2>2
  <2> QED  BY <2>1, <2>3 DEF ChainLinked
<1>3. ChainLinked' /\ ChainFilled'
  BY DEF ChainLinked, ChainFilled
<1>4. TailLags' /\ HeadHeld'
  BY <1>2 DEF TailLags, HeadHeld
<1>5. PrivateNodes'
  BY DEF PrivateNodes, Owned, InChain
<1> QED  BY <1>1, <1>3, <1>4, <1>5

LEMMA AdvanceInv ==
  ASSUME Inv, NEW t \in Thread, Dequeue_Advance(t)
  PROVE  Inv'
<1> USE DEF Inv, TypeOK, QueueInv, Dequeue_Advance, Goto
<1>1. /\ Len(chain) >= 2
      /\ tmp[t] = chain[1] /\ newHead[t] = chain[2] /\ headLock = t
  BY DEF HeadHeld
<1>2. /\ Tail(chain) \in Seq(Node)
      /\ Len(Tail(chain)) = Len(chain) - 1
      /\ \A i \in 1..(Len(chain) - 1) : Tail(chain)[i] = chain[i + 1]
  BY <1>1
<1>3. TypeOK'
  BY <1>1, <1>2 DEF ChainFilled
<1>4. ChainLinked' /\ ChainFilled'
  BY <1>1, <1>2 DEF ChainLinked, ChainFilled
<1>5. TailLags' /\ HeadHeld'
  BY <1>1, <1>2 DEF TailLags, HeadHeld
<1>6. PrivateNodes'
  BY <1>1, <1>2 DEF PrivateNodes, Owned, InChain, ChainLinked
<1> QED  BY <1>3, <1>4, <1>5, <1>6

LEMMA FreeInv ==
  ASSUME Inv, NEW t \in Thread, Dequeue_Free(t)
  PROVE  Inv'
<1> USE DEF Inv, TypeOK, QueueInv, Dequeue_Free, Goto, locks, results
<1>1. tmp[t] \in heap /\ ~InChain(tmp[t])
  BY DEF PrivateNodes, Owned
<1>2. TypeOK'
  OBVIOUS
<1>3. ChainLinked' /\ ChainFilled'
  BY <1>1 DEF ChainLinked, ChainFilled, InChain
<1>4. TailLags' /\ HeadHeld'
  BY DEF TailLags, HeadHeld
<1>5. PrivateNodes'
  BY DEF PrivateNodes, Owned, InChain
<1> QED  BY <1>2, <1>3, <1>4, <1>5

\* a call of Queue_Dequeue, and one that finds the queue empty
LEMMA MissInv ==
  ASSUME Inv, NEW t \in Thread, Dequeue_Call(t) \/ Dequeue_Miss(t)
  PROVE  Inv'
<1> USE DEF Inv, Dequeue_Call, Dequeue_Miss, Goto, results
<1>1. TypeOK'
  <2>1. rv' \in [Thread -> Int]
    BY DEF TypeOK
  <2>2. pc' = [pc EXCEPT ![t] = "take"] \/ pc' = [pc EXCEPT ![t] = "idle"]
    OBVIOUS
  <2> QED  BY <2>1, <2>2 DEF TypeOK, list, locks
<1> QED  BY <1>1, QuietStep DEF Quiet

------------------------------------------------------------------------------
(* Queue_Empty and Empty_Queue                                              *)

LEMMA EmptyInv ==
  ASSUME Inv, NEW t \in Thread, Empty_Call(t) \/ EmptyStep(t)
  PROVE  Inv'
<1> USE DEF Inv, Empty_Call, Load, EmptyStep, Empty_Differ, Empty_Same,
            Empty_Reload, Empty_Next, Answer, Goto, results
<1>1. TypeOK'
  <2>1. rv' \in [Thread -> Int]
    BY DEF TypeOK
  <2>2. tmp' \in [Thread -> Node \cup {NULL}]
    BY DEF TypeOK
  <2>3. PICK label \in {"idle", "loadTail", "reload", "loadNext"} : Goto(t, label)
    OBVIOUS
  <2>4. UNCHANGED <<list, locks, out, newHead, drain>>
    OBVIOUS
  <2> QED  BY ONLY Inv, <2>1, <2>2, <2>3, <2>4 DEF Goto, Inv, TypeOK, list, locks
<1>2. \E label \in Quiet : Goto(t, label) /\ pc[t] \in Quiet
  BY DEF Quiet
<1>3. UNCHANGED <<list, locks, newHead>> /\ \A u \in Thread \ {t} : tmp'[u] = tmp[u]
  BY DEF TypeOK
<1> QED  BY <1>1, <1>2, <1>3, QuietStep

LEMMA DrainInv ==
  ASSUME Inv, NEW t \in Thread, Drain_Call(t) \/ DrainStep(t)
  PROVE  Inv'
<1> USE DEF Inv, Drain_Call, DrainStep, Drain_Dequeue, Drain_Again, Drain_Return,
            DrainAt, DrainGoto, Load, Goto, results
<1>1. TypeOK'
  <2>1. tmp' \in [Thread -> Node \cup {NULL}]
    BY DEF TypeOK
  <2>2. drain' \in [Thread -> {"no", "test", "dequeue"}]
    BY DEF TypeOK
  <2>3. PICK label \in {"idle", "take", "loadTail"} : Goto(t, label)
    BY DEF TypeOK
  <2>4. UNCHANGED <<list, locks, out, rv, newHead>>
    OBVIOUS
  <2> QED  BY ONLY Inv, <2>1, <2>2, <2>3, <2>4 DEF Goto, Inv, TypeOK, list, locks
<1>2. \E label \in Quiet : Goto(t, label) /\ pc[t] \in Quiet
  BY DEF TypeOK, Quiet
<1>3. UNCHANGED <<list, locks, newHead>> /\ \A u \in Thread \ {t} : tmp'[u] = tmp[u]
  BY DEF TypeOK
<1> QED  BY <1>1, <1>2, <1>3, QuietStep

------------------------------------------------------------------------------
LEMMA NextInv == Inv /\ [Next]_qvars => Inv'
<1> SUFFICES ASSUME Inv, [Next]_qvars PROVE Inv'
  OBVIOUS
<1>1. CASE UNCHANGED qvars
  BY <1>1 DEF Inv, qvars, list, locks, results, TypeOK, QueueInv, ChainLinked,
              TailLags, HeadHeld, PrivateNodes, ChainFilled, Owned, InChain
<1>2. CASE Next
  <2> PICK t \in Thread : Call(t) \/ QueueStep(t)
    BY <1>2 DEF Next
  <2>1. CASE Call(t)
    BY <2>1, AllocInv, MissInv, EmptyInv, DrainInv DEF Call
  <2>2. CASE EnqueueStep(t)
    BY <2>2, LinkInv, SwingInv DEF EnqueueStep
  <2>3. CASE DequeueStep(t)
    BY <2>3, MissInv, TakeInv, AdvanceInv, FreeInv DEF DequeueStep
  <2>4. CASE EmptyStep(t) \/ DrainStep(t)
    BY <2>4, EmptyInv, DrainInv
  <2> QED  BY <2>1, <2>2, <2>3, <2>4 DEF QueueStep
<1> QED  BY <1>1, <1>2

\* The variables keep their types: in particular q->head and q->tail are never
\* NULL, whatever the threads do (queue.c).
THEOREM TypeSafety == Spec => []TypeOK
<1>1. Spec => []Inv
  BY InitInv, NextInv, PTL DEF Spec
<1> QED  BY <1>1, PTL DEF Inv

\* The linked list is sound under every interleaving of queue.c's operations.
THEOREM QueueSafety == Spec => []QueueInv
<1>1. Spec => []Inv
  BY InitInv, NextInv, PTL DEF Spec
<1> QED  BY <1>1, PTL DEF Inv

\* Whatever a step does to a thread that neither owned a node nor comes to own
\* one, the nodes stay where they are.
LEMMA NoLeakStep == Inv /\ NoLeak /\ [Next]_qvars => NoLeak'
<1> SUFFICES ASSUME Inv, NoLeak, [Next]_qvars PROVE NoLeak'
  OBVIOUS
<1> USE DEF Inv, TypeOK, Goto, Owned, locks, results
<1>1. ASSUME UNCHANGED <<chain, heap>>,
             NEW t \in Thread, ~Owned(t), \A u \in Thread \ {t} : pc'[u] = pc[u] /\ tmp'[u] = tmp[u]
      PROVE  NoLeak'
  <2> SUFFICES ASSUME NEW n \in heap, ~InChain(n) PROVE \E u \in Thread : Owned(u)' /\ tmp'[u] = n
    BY <1>1 DEF NoLeak, InChain
  <2> PICK u \in Thread : Owned(u) /\ tmp[u] = n
    BY DEF NoLeak
  <2>1. u # t
    BY <1>1
  <2> QED BY <1>1, <2>1
<1>2. CASE UNCHANGED qvars
  BY <1>2 DEF qvars, list, NoLeak, InChain
<1>3. ASSUME NEW t \in Thread, NEW v \in Value, Enqueue_Alloc(t, v) PROVE NoLeak'
  <2>1. /\ chain' = chain /\ heap' = heap \cup {tmp'[t]} /\ pc'[t] = "link" /\ pc[t] = "idle"
        /\ \A u \in Thread \ {t} : pc'[u] = pc[u] /\ tmp'[u] = tmp[u]
    BY <1>3 DEF Enqueue_Alloc
  <2> SUFFICES ASSUME NEW n \in heap', ~InChain(n)
               PROVE  \E u \in Thread : Owned(u)' /\ tmp'[u] = n
    BY <2>1 DEF NoLeak, InChain
  <2>2. CASE n = tmp'[t]
    BY <2>1, <2>2
  <2>3. CASE n # tmp'[t]
    <3> PICK u \in Thread : Owned(u) /\ tmp[u] = n
      BY <2>1, <2>3 DEF NoLeak
    <3>1. u # t
      BY <2>1
    <3> QED BY <2>1, <3>1
  <2> QED BY <2>2, <2>3
<1>4. ASSUME NEW t \in Thread, Enqueue_Link(t) PROVE NoLeak'
  <2>1. /\ chain' = Append(chain, tmp[t]) /\ heap' = heap /\ tmp' = tmp
        /\ \A u \in Thread \ {t} : pc'[u] = pc[u]
    BY <1>4 DEF Enqueue_Link, LinkLast
  <2>2. tmp[t] \in Node
    BY <1>4 DEF Enqueue_Link, LinkLast, QueueInv, PrivateNodes
  <2>3. ASSUME NEW n \in Node, InChain(n) \/ n = tmp[t] PROVE InChain(n)'
    <3>1. Len(chain') = Len(chain) + 1 /\ chain'[Len(chain) + 1] = tmp[t]
          /\ \A i \in 1..Len(chain) : chain'[i] = chain[i]
      BY <2>1, <2>2
    <3>2. Len(chain) + 1 \in 1..Len(chain') /\ \A i \in 1..Len(chain) : i \in 1..Len(chain')
      BY <3>1
    <3>3. CASE n = tmp[t]
      BY <3>1, <3>2, <3>3 DEF InChain
    <3>4. CASE InChain(n)
      BY <3>1, <3>2, <3>4 DEF InChain
    <3> QED BY <2>3, <3>3, <3>4
  <2> QED BY <2>1, <2>3 DEF NoLeak
<1>5. ASSUME NEW t \in Thread, Enqueue_Swing(t) PROVE NoLeak'
  BY <1>1, <1>5 DEF Enqueue_Swing, SwingTo
<1>6. ASSUME NEW t \in Thread, Dequeue_Advance(t) PROVE NoLeak'
  <2>1. /\ Len(chain) >= 2 /\ tmp[t] = chain[1] /\ chain' = Tail(chain)
        /\ heap' = heap /\ tmp' = tmp /\ pc'[t] = "free"
        /\ \A u \in Thread \ {t} : pc'[u] = pc[u]
    BY <1>6 DEF Dequeue_Advance, QueueInv, HeadHeld
  <2>2. \A i \in 2..Len(chain) : i - 1 \in 1..Len(chain') /\ chain'[i - 1] = chain[i]
    BY <2>1
  <2>3. ASSUME NEW n \in Node, InChain(n), n # chain[1] PROVE InChain(n)'
    <3> PICK i \in 1..Len(chain) : chain[i] = n
      BY <2>3 DEF InChain
    <3>1. i \in 2..Len(chain)
      BY <2>3
    <3> QED BY <2>2, <3>1 DEF InChain
  <2>4. pc[t] = "advance"
    BY <1>6 DEF Dequeue_Advance
  <2> QED BY <2>1, <2>3, <2>4 DEF NoLeak
<1>7. ASSUME NEW t \in Thread, Dequeue_Free(t) PROVE NoLeak'
  <2>1. /\ heap' = heap \ {tmp[t]} /\ chain' = chain
        /\ \A u \in Thread \ {t} : pc'[u] = pc[u] /\ tmp'[u] = tmp[u]
    BY <1>7 DEF Dequeue_Free
  <2> SUFFICES ASSUME NEW n \in heap, n # tmp[t], ~InChain(n)
               PROVE  \E u \in Thread : Owned(u)' /\ tmp'[u] = n
    BY <2>1 DEF NoLeak, InChain
  <2> PICK u \in Thread : Owned(u) /\ tmp[u] = n
    BY DEF NoLeak
  <2> QED BY <2>1
<1>8. ASSUME NEW t \in Thread, Dequeue_Call(t) \/ Dequeue_Miss(t) \/ Dequeue_Take(t) PROVE NoLeak'
  BY <1>1, <1>8 DEF Dequeue_Call, Dequeue_Miss, Dequeue_Take, LoadHead, list
<1>9. ASSUME NEW t \in Thread, Empty_Call(t) \/ EmptyStep(t) PROVE NoLeak'
  <2>1. UNCHANGED list /\ \A u \in Thread \ {t} : pc'[u] = pc[u] /\ tmp'[u] = tmp[u]
    BY <1>9 DEF Empty_Call, EmptyStep, Empty_Differ, Empty_Same, Empty_Reload, Empty_Next,
                Answer, Load
  <2>2. ~Owned(t)
    BY <1>9 DEF Empty_Call, EmptyStep, Empty_Differ, Empty_Same, Empty_Reload, Empty_Next
  <2> QED BY <1>1, <2>1, <2>2 DEF list
<1>10. ASSUME NEW t \in Thread, Drain_Call(t) \/ DrainStep(t) PROVE NoLeak'
  <2>1. UNCHANGED list /\ \A u \in Thread \ {t} : pc'[u] = pc[u] /\ tmp'[u] = tmp[u]
    BY <1>10 DEF Drain_Call, DrainStep, Drain_Dequeue, Drain_Again, Drain_Return, Load
  <2>2. ~Owned(t)
    BY <1>10 DEF Drain_Call, DrainStep, Drain_Dequeue, Drain_Again, Drain_Return, DrainAt
  <2> QED BY <1>1, <2>1, <2>2 DEF list
<1> QED BY <1>2, <1>3, <1>4, <1>5, <1>6, <1>7, <1>8, <1>9, <1>10
        DEF Next, Call, QueueStep, EnqueueStep, DequeueStep

\* For any threads, nodes and values: NoLeak.
THEOREM LeakSafety == Spec => []NoLeak
<1>1. Queue_Init => NoLeak
  <2> SUFFICES ASSUME Queue_Init PROVE NoLeak
    OBVIOUS
  <2>1. heap = {head} /\ chain = <<head>>
    BY DEF Queue_Init
  <2> QED BY <2>1 DEF NoLeak, InChain
<1> QED BY <1>1, InitInv, NextInv, NoLeakStep, PTL DEF Spec

\* Queue_Enqueue and Queue_Dequeue never touch or free freed memory.
THEOREM MemorySafety == Spec => []LockedAccessesAlive
<1>1. Inv => LockedAccessesAlive
  <2> SUFFICES ASSUME Inv, NEW t \in Thread
               PROVE  /\ pc[t] = "link" /\ tailLock = NULL => tail \in heap
                      /\ pc[t] = "take" /\ headLock = NULL => head \in heap
                      /\ pc[t] = "advance" => newHead[t] \in heap
                      /\ pc[t] = "free" =>
                           /\ tmp[t] \in heap /\ tmp[t] # head
                           /\ tmp[t] = tail => tailLock # NULL
    BY DEF LockedAccessesAlive
  <2> USE DEF Inv, TypeOK, QueueInv, ChainLinked
  <2>1. head \in heap /\ InChain(head) /\ InChain(chain[Len(chain)])
    BY DEF InChain
  <2>2. tailLock = NULL => tail \in heap /\ InChain(tail)
    BY <2>1 DEF TailLags
  <2>3. pc[t] = "advance" => newHead[t] \in heap
    BY DEF HeadHeld
  <2>4. pc[t] = "free" => tmp[t] \in heap /\ ~InChain(tmp[t])
    BY DEF PrivateNodes, Owned
  <2> QED  BY <2>1, <2>2, <2>3, <2>4
<1> QED  BY <1>1, InitInv, NextInv, PTL DEF Spec

------------------------------------------------------------------------------
(* Refinement: every step of queue.c is a step of FifoQueue or leaves its   *)
(* variables alone.                                                         *)

Queued == [i \in 1..(Len(chain) - 1) |-> value[chain[i + 1]]]

Pend == [t \in Thread |-> IF pc[t] = "link" THEN value[tmp[t]] ELSE NoValue]

Asking == {t \in Thread : pc[t] \in {"take", "advance"}}

\* steps that leave the queued values, the pending values and the answers alone
Hidden == UNCHANGED <<Queued, Pend, Asking, out, rv>>

LEMMA HiddenStutters == Hidden => UNCHANGED Fifo!vars
  BY DEF Hidden, Queued, Pend, Asking, Fifo!vars

LEMMA InitRefines == Queue_Init => Fifo!Init
<1> SUFFICES ASSUME Queue_Init PROVE Fifo!Init
  OBVIOUS
<1>1. Queued = << >>
  BY DEF Queue_Init, Queued
<1>2. Pend = [t \in Thread |-> NoValue]
  BY DEF Queue_Init, Pend
<1>3. Asking = {}
  BY DEF Queue_Init, Asking
<1> QED  BY <1>1, <1>2, <1>3 DEF Queue_Init, Fifo!Init, Queued, Pend, Asking

\* Values that stay where they are in an unchanged list.
LEMMA SameItems ==
  ASSUME Inv, chain' = chain,
         \A i \in 1..Len(chain) : value'[chain[i]] = value[chain[i]]
  PROVE  Queued' = Queued
<1>1. Len(chain) \in Nat
  BY DEF Inv, TypeOK
<1>2. \A i \in 1..(Len(chain) - 1) : i + 1 \in 1..Len(chain)
  BY <1>1
<1> QED  BY <1>2 DEF Queued

LEMMA AllocRefines ==
  ASSUME Inv, NEW t \in Thread, NEW v \in Value, Enqueue_Alloc(t, v)
  PROVE  Fifo!AskPut(t, v)
<1> USE DEF Inv, TypeOK, QueueInv, Enqueue_Alloc, Goto, results
<1>1. Queued' = Queued
  <2>1. chain' = chain /\ \A i \in 1..Len(chain) : value'[chain[i]] = value[chain[i]]
    BY DEF ChainLinked
  <2> QED  BY <2>1, SameItems
<1>2. Pend' = [Pend EXCEPT ![t] = v]
  <2>1. tmp'[t] \in Node /\ value'[tmp'[t]] = v /\ pc'[t] = "link"
    OBVIOUS
  <2>2. \A u \in Thread \ {t} : pc[u] = "link" => value'[tmp'[u]] = value[tmp[u]]
    BY DEF PrivateNodes, Owned
  <2>3. \A u \in Thread \ {t} : pc'[u] = pc[u]
    OBVIOUS
  <2> QED  BY <2>1, <2>2, <2>3 DEF Pend
<1>3. Asking' = Asking
  BY DEF Asking
<1>4. Fifo!Free(t)
  BY DEF Fifo!Free
<1> QED  BY <1>1, <1>2, <1>3, <1>4 DEF Fifo!AskPut, Queued, Pend, Asking

LEMMA LinkRefines ==
  ASSUME Inv, NEW t \in Thread, Enqueue_Link(t)
  PROVE  Fifo!Put(t)
<1> USE DEF Inv, TypeOK, QueueInv, Enqueue_Link, LinkLast, Goto, results
<1>1. pc[t] = "link" /\ tmp[t] \in Node /\ value[tmp[t]] \in Value
  BY DEF PrivateNodes, Owned
<1>2. Queued' = Append(Queued, value[tmp[t]])
  <2>1. Len(chain) \in Nat /\ Len(chain) >= 1
    BY DEF ChainLinked
  <2>2. chain' = Append(chain, tmp[t]) /\ value' = value
    OBVIOUS
  <2>3. Queued \in Seq(Value) /\ Len(Queued) = Len(chain) - 1
    BY <2>1 DEF Queued, ChainFilled
  <2> QED  BY <1>1, <2>1, <2>2, <2>3 DEF Queued
<1>3. Pend[t] = value[tmp[t]] /\ Pend' = [Pend EXCEPT ![t] = NoValue]
  BY <1>1 DEF Pend
<1>4. Asking' = Asking
  BY DEF Asking
<1> QED  BY <1>1, <1>2, <1>3, <1>4 DEF Fifo!Put, Queued, Pend, Asking

LEMMA AdvanceRefines ==
  ASSUME Inv, NEW t \in Thread, Dequeue_Advance(t)
  PROVE  Fifo!Take(t)
<1> USE DEF Inv, TypeOK, QueueInv, Dequeue_Advance, Goto
<1>1. Len(chain) \in Nat /\ Len(chain) >= 2 /\ newHead[t] = chain[2]
  BY DEF HeadHeld
<1>2. /\ Queued \in Seq(Value) /\ Len(Queued) = Len(chain) - 1
      /\ Queued # << >> /\ Head(Queued) = value[newHead[t]]
  <2>1. \A i \in 1..(Len(chain) - 1) : value[chain[i + 1]] \in Value
    BY <1>1 DEF ChainFilled
  <2>2. Queued \in Seq(Value) /\ Len(Queued) = Len(chain) - 1
    BY <1>1, <2>1 DEF Queued
  <2>3. Queued[1] = value[chain[2]]
    BY <1>1 DEF Queued
  <2> QED  BY <1>1, <2>2, <2>3
<1>3. Queued' = Tail(Queued)
  BY <1>1, <1>2 DEF Queued
<1>4. t \in Asking /\ Asking' = Asking \ {t}
  BY DEF Asking
<1>5. Pend' = Pend
  BY DEF Pend
<1> QED  BY <1>2, <1>3, <1>4, <1>5 DEF Fifo!Take, Queued, Pend, Asking

LEMMA MissRefines ==
  ASSUME Inv, NEW t \in Thread, Dequeue_Miss(t)
  PROVE  Fifo!Miss(t)
<1> USE DEF Inv, TypeOK, QueueInv, Dequeue_Miss, Goto, list
<1>1. Len(chain) = 1
  <2>1. Len(chain) \in Nat /\ Len(chain) >= 1
    BY DEF ChainLinked
  <2>. \A k \in Nat : k >= 1 => k = 1 \/ k >= 2
    OBVIOUS
  <2>2. SUFFICES ASSUME Len(chain) >= 2 PROVE FALSE
    BY <2>1
  <2>3. next[chain[1]] = chain[2] /\ chain[2] \in Node
    BY <2>1, <2>2 DEF ChainLinked
  <2> QED  BY <2>3 DEF ChainLinked
<1>2. Queued = << >> /\ Queued' = Queued
  BY <1>1 DEF Queued
<1>3. t \in Asking /\ Asking' = Asking \ {t}
  BY DEF Asking
<1>4. Pend' = Pend
  BY DEF Pend
<1> QED  BY <1>2, <1>3, <1>4 DEF Fifo!Miss, Queued, Pend, Asking

LEMMA DequeueCallRefines ==
  ASSUME Inv, NEW t \in Thread, pc[t] = "idle", Goto(t, "take"),
         UNCHANGED <<list, results, tmp>>
  PROVE  Fifo!AskTake(t)
<1> USE DEF Inv, TypeOK, Goto, list, results
<1>1. Queued' = Queued /\ Pend' = Pend
  BY DEF Queued, Pend
<1>2. Asking' = Asking \cup {t}
  BY DEF Asking
<1>3. Fifo!Free(t)
  BY DEF Fifo!Free
<1> QED  BY <1>1, <1>2, <1>3 DEF Fifo!AskTake, Queued, Pend, Asking

LEMMA AnswerRefines ==
  ASSUME Inv, NEW t \in Thread, pc[t] \in {"loadTail", "loadNext"},
         NEW r \in {0, 1} \cup Junk, Answer(t, r)
  PROVE  Fifo!Peek(t)
<1> USE DEF Inv, TypeOK, Answer, Goto, list
<1>1. Queued' = Queued /\ Pend' = Pend /\ Asking' = Asking
  BY DEF Queued, Pend, Asking
<1>2. Fifo!Free(t)
  BY DEF Fifo!Free
<1> QED  BY <1>1, <1>2 DEF Fifo!Peek, Queued, Pend, Asking

LEMMA HiddenSteps ==
  ASSUME Inv, NEW t \in Thread,
         \/ Enqueue_Swing(t)
         \/ Dequeue_Take(t)
         \/ Dequeue_Free(t)
         \/ Empty_Call(t)
         \/ Empty_Same(t)
         \/ Empty_Reload(t)
         \/ Drain_Call(t)
         \/ Drain_Again(t)
         \/ Drain_Return(t)
  PROVE  Hidden
<1> USE DEF Inv, TypeOK, QueueInv, Goto, results
<1>1. CASE Enqueue_Swing(t)
  BY <1>1 DEF Enqueue_Swing, SwingTo, Hidden, Queued, Pend, Asking
<1>2. CASE Dequeue_Take(t)
  BY <1>2 DEF Dequeue_Take, LoadHead, list, Hidden, Queued, Pend, Asking
<1>3. CASE Dequeue_Free(t)
  <2>1. \A i \in 1..Len(chain) : value'[chain[i]] = value[chain[i]]
    BY <1>3 DEF Dequeue_Free, PrivateNodes, Owned, InChain
  <2>2. Queued' = Queued
    BY <1>3, <2>1, SameItems DEF Dequeue_Free
  <2>3. Pend' = Pend
    BY <1>3 DEF Dequeue_Free, Pend, PrivateNodes, Owned
  <2> QED  BY <1>3, <2>2, <2>3 DEF Dequeue_Free, Hidden, Asking
<1>4. CASE Empty_Call(t) \/ Empty_Same(t) \/ Empty_Reload(t)
  BY <1>4 DEF Empty_Call, Empty_Same, Empty_Reload, Load, list, Hidden, Queued, Pend, Asking
<1>5. CASE Drain_Call(t) \/ Drain_Again(t)
  BY <1>5 DEF Drain_Call, Drain_Again, DrainAt, Load, list, Hidden, Queued, Pend, Asking
<1>6. CASE Drain_Return(t)
  BY <1>6 DEF Drain_Return, list, Hidden, Queued, Pend, Asking
<1> QED  BY <1>1, <1>2, <1>3, <1>4, <1>5, <1>6

LEMMA NextRefines == Inv /\ [Next]_qvars => [Fifo!Next]_(Fifo!vars)
<1> SUFFICES ASSUME Inv, [Next]_qvars PROVE [Fifo!Next]_(Fifo!vars)
  OBVIOUS
<1>1. CASE UNCHANGED qvars
  BY <1>1, HiddenStutters DEF qvars, list, results, Hidden, Queued, Pend, Asking
<1>2. CASE Next
  <2> PICK t \in Thread : Call(t) \/ QueueStep(t)
    BY <1>2 DEF Next
  <2>1. CASE \E v \in Value : Enqueue_Alloc(t, v)
    BY <2>1, AllocRefines DEF Fifo!Next
  <2>2. CASE Dequeue_Call(t) \/ Drain_Dequeue(t)
    BY <2>2, DequeueCallRefines
       DEF Dequeue_Call, Drain_Dequeue, DrainAt, Fifo!Next
  <2>3. CASE Enqueue_Link(t) \/ Dequeue_Miss(t) \/ Dequeue_Advance(t)
    BY <2>3, LinkRefines, MissRefines, AdvanceRefines DEF Fifo!Next
  <2>4. CASE Empty_Differ(t) \/ Empty_Next(t)
    BY <2>4, AnswerRefines DEF Empty_Differ, Empty_Next, Fifo!Next
  <2>5. CASE \/ Enqueue_Swing(t) \/ Dequeue_Take(t) \/ Dequeue_Free(t)
             \/ Empty_Call(t) \/ Empty_Same(t) \/ Empty_Reload(t)
             \/ Drain_Call(t) \/ Drain_Again(t) \/ Drain_Return(t)
    BY <2>5, HiddenSteps, HiddenStutters
  <2> QED  BY <2>1, <2>2, <2>3, <2>4, <2>5
           DEF Call, QueueStep, EnqueueStep, DequeueStep, EmptyStep, DrainStep
<1> QED  BY <1>1, <1>2

\* The two-lock queue implements the first-in first-out queue: the calls of
\* Queue_Enqueue and Queue_Dequeue are linearizable.
THEOREM Refinement == Spec => ImplementsFifo
  BY InitInv, NextInv, InitRefines, NextRefines, PTL DEF Spec, ImplementsFifo, Fifo!Spec

------------------------------------------------------------------------------
(* What the programs that use the queue need to know of it                  *)

\* What a step inside the queue leaves as it was.
LEMMA InQueueKeeps ==
  ASSUME Inv, NEW t \in Thread, QueueStep(t)
  PROVE  /\ \A u \in Thread \ {t} : pc'[u] = pc[u] /\ drain'[u] = drain[u]
         /\ pc'[t] \in {"link", "swing"} => pc[t] = "link"
         /\ pc[t] = "idle" => drain[t] # "no"
         /\ pc[t] = "link" => pc'[t] = "swing"
         /\ pc[t] = "swing" => pc'[t] = "idle"
         /\ drain[t] = "no" => drain'[t] = "no"
         /\ drain[t] # "no" => drain'[t] # "no" \/ pc'[t] = "idle"
<1> USE DEF Inv, TypeOK, Goto
<1>1. CASE EnqueueStep(t)
  BY <1>1 DEF EnqueueStep, Enqueue_Link, LinkLast, Enqueue_Swing, SwingTo
<1>2. CASE DequeueStep(t)
  BY <1>2 DEF DequeueStep, Dequeue_Miss, Dequeue_Take, LoadHead, Dequeue_Advance, Dequeue_Free
<1>3. CASE EmptyStep(t)
  BY <1>3 DEF EmptyStep, Empty_Differ, Empty_Same, Empty_Reload, Empty_Next, Answer, Load
<1>4. CASE DrainStep(t)
  BY <1>4 DEF DrainStep, Drain_Dequeue, Drain_Again, Drain_Return, DrainAt, DrainGoto, Load
<1> QED BY <1>1, <1>2, <1>3, <1>4 DEF QueueStep

\* What a call into the queue does to the places.
LEMMA Calls ==
  ASSUME NEW t \in Thread, NEW v
  PROVE  /\ Empty_Call(t) => pc' = [pc EXCEPT ![t] = "loadTail"] /\ drain' = drain
         /\ Dequeue_Call(t) => pc' = [pc EXCEPT ![t] = "take"] /\ drain' = drain
         /\ Enqueue_Alloc(t, v) => pc' = [pc EXCEPT ![t] = "link"] /\ drain' = drain
         /\ Drain_Call(t) => /\ pc' = [pc EXCEPT ![t] = "loadTail"]
                            /\ drain' = [drain EXCEPT ![t] = "test"]
  BY DEF Empty_Call, Dequeue_Call, Enqueue_Alloc, Drain_Call, DrainGoto, Load, Goto

LEMMA Lengths ==
  ASSUME NEW s \in Seq(Node), NEW n \in Node
  PROVE  /\ Len(Append(s, n)) = Len(s) + 1
         /\ Len(s) = 2 => Len(Tail(s)) = 1
<1>1. Len(Append(s, n)) = Len(s) + 1
  OBVIOUS
<1>2. ASSUME Len(s) = 2 PROVE Len(Tail(s)) = 1
  <2>1. s # << >>
    BY <1>2
  <2>2. Len(Tail(s)) = Len(s) - 1
    BY <2>1, HeadTailProperties
  <2> QED BY <1>2, <2>2
<1> QED BY <1>1, <1>2

LEMMA OneOrMore ==
  ASSUME Inv
  PROVE  /\ chain \in Seq(Node)
         /\ head = chain[1] /\ Len(chain) \in Nat /\ Len(chain) >= 1
         /\ chain[1] = chain[Len(chain)] => Len(chain) = 1
<1>1. chain \in Seq(Node) /\ ChainLinked
  BY DEF Inv, TypeOK, QueueInv
<1>2. Len(chain) \in Nat /\ Len(chain) >= 1 /\ head = chain[1]
  BY <1>1 DEF ChainLinked
<1>3. 1 \in 1..Len(chain) /\ Len(chain) \in 1..Len(chain)
  BY <1>2
<1>4. \A i, j \in 1..Len(chain) : chain[i] = chain[j] => i = j
  BY <1>1 DEF ChainLinked
<1> QED BY <1>1, <1>2, <1>3, <1>4
==============================================================================
