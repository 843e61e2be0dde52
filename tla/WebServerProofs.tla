---------------------------- MODULE WebServerProofs ----------------------------
(***************************************************************************)
(* Proofs about the thread pool for any number of workers, descriptors,    *)
(* connections and nodes.  The server is a client of the queue that calls  *)
(* as the most general one may, so that what LinkedQueueProofs shows holds *)
(* of it; and main, the only thread that enqueues, sees enough of the      *)
(* queue without a lock to keep it at one job.                             *)
(***************************************************************************)
EXTENDS WebServer, LinkedQueueProofs, FiniteSetTheorems

USE QueueAssumption, ServerAssumption

\* Which thread is where: in the code of main or of a worker, and which
\* functions of the queue it calls there.
Roles ==
  /\ at[Main] \in {"accept", "fill", "enqueue", "drain"}
  /\ at[Main] \in {"fill", "enqueue"} => conn \in Fd
  /\ pc[Main] \in {"link", "swing"} => at[Main] = "enqueue"
  /\ \A w \in Worker :
       /\ at[w] \in {"lock", "test", "wait", "dequeue", "handle", "close"}
       /\ pc[w] \notin {"link", "swing"} /\ drain[w] = "no"

ServerInv == Inv /\ ServerTypeOK /\ Roles /\ OneWorkerInside

\* Every step of the server is one of the queue's most general client.
LEMMA ServerIsClient == ServerInv /\ [ServerNext]_svars => [Next]_qvars
<1> SUFFICES ASSUME ServerInv, [ServerNext]_svars PROVE [Next]_qvars
  OBVIOUS
<1>1. \A t \in Thread : Empty_Call(t) /\ Outside(t) => Next
  BY DEF Next, Call
<1>2. \A t \in Thread : Dequeue_Call(t) /\ Outside(t) => Next
  BY DEF Next, Call
<1>3. \A t \in Thread : Drain_Call(t) => Next
  BY DEF Next, Call, Drain_Call, Outside
<1>4. \A t \in Thread : QueueStep(t) => Next
  BY DEF Next
<1>5. Enqueue => Next
  BY DEF Enqueue, Ready, Next, Call, ServerInv, Roles, Fd
<1>6. Main_Accept \/ Main_AcceptFails \/ Main_Signal => [Next]_qvars
  BY <1>1 DEF Main_Accept, Ready, Main_AcceptFails, Abort, Main_Signal
<1>7. Main_Enqueue \/ Main_Retest \/ Main_Drain \/ InQueue(Main) => Next
  BY <1>1, <1>3, <1>4, <1>5 DEF Main_Enqueue, Main_Retest, Ready, Main_Drain, InQueue
<1>8. ASSUME NEW w \in Worker, WorkerStep(w) \/ Worker_Spurious(w) PROVE [Next]_qvars
  <2>1. w \in Thread
    BY DEF Worker
  <2> QED BY <1>1, <1>2, <1>4, <1>8, <2>1
          DEF WorkerStep, Worker_Lock, Worker_Wait, Worker_Dequeue, Worker_Unlock,
              Worker_Handle, Worker_Close, Worker_BadFd, Worker_Spurious, InQueue, Ready, Abort
<1>9. CASE UNCHANGED svars
  BY <1>9 DEF svars
<1> QED BY <1>6, <1>7, <1>8, <1>9 DEF ServerNext, MainStep

\* No step breaks the roles, the types or the mutex.
LEMMA ServerStep == ServerInv /\ [ServerNext]_svars => ServerInv'
<1> SUFFICES ASSUME ServerInv, [ServerNext]_svars PROVE ServerInv'
  OBVIOUS
<1>0. Inv'
  BY ServerIsClient, NextInv DEF ServerInv
<1> USE DEF ServerInv, Ready, Move, Outside, DrainAt
<1>1. ASSUME NEW t \in Thread, InQueue(t) PROVE ServerInv'
  <2>1. UNCHANGED <<at, m, server>> /\ QueueStep(t)
    BY <1>1 DEF InQueue
  <2>2. ServerTypeOK'
    BY <1>0, <2>1 DEF ServerTypeOK, Inv, server
  <2>3. Roles'
    BY <2>1, InQueueKeeps DEF Roles, Worker, server
  <2>4. OneWorkerInside'
    BY <2>1, InQueueKeeps DEF OneWorkerInside, Worker, Roles
  <2> QED BY <1>0, <2>2, <2>3, <2>4
<1>2. ASSUME Main_Accept \/ Main_AcceptFails \/ Main_Enqueue \/ Main_Retest \/ Main_Signal
             \/ Main_Drain
      PROVE  ServerInv'
  <2>1. /\ ServerTypeOK /\ pc = [t \in Thread |-> pc[t]]
        /\ drain = [t \in Thread |-> drain[t]]
        /\ Main \notin Worker /\ Worker \subseteq Thread
    BY DEF ServerTypeOK, TypeOK, Worker
  <2>2. CASE Main_Accept
    <3>1. Empty_Call(Main) /\ at' = [at EXCEPT ![Main] = "fill"] /\ conn' \in Fd /\ m' = m
      BY <2>2 DEF Main_Accept
    <3>2. ServerTypeOK'
      BY <1>0, <2>2 DEF Main_Accept, ServerTypeOK, Inv
    <3>3. /\ \A w \in Worker : pc'[w] = pc[w] /\ drain'[w] = drain[w] /\ at'[w] = at[w]
          /\ pc'[Main] = "loadTail" /\ at'[Main] = "fill"
      BY <2>1, <3>1, Calls DEF ServerTypeOK
    <3> QED BY <1>0, <3>1, <3>2, <3>3 DEF Roles, OneWorkerInside
  <2>3. CASE Main_AcceptFails
    <3>1. ServerTypeOK'
      BY <1>0, <2>3 DEF Main_AcceptFails, Abort, ServerTypeOK, Inv
    <3> QED BY <1>0, <2>3, <3>1 DEF Main_AcceptFails, Abort, qvars, Roles, OneWorkerInside
  <2>4. CASE Main_Enqueue
    <3>1. /\ Enqueue_Alloc(Main, conn) /\ at' = [at EXCEPT ![Main] = "enqueue"]
          /\ at[Main] = "fill" /\ m' = m /\ conn' = conn
      BY <2>4 DEF Main_Enqueue, Enqueue, server
    <3>2. ServerTypeOK'
      BY <1>0, <2>4 DEF Main_Enqueue, Enqueue, server, ServerTypeOK, Inv
    <3>3. /\ \A w \in Worker : pc'[w] = pc[w] /\ drain'[w] = drain[w] /\ at'[w] = at[w]
          /\ pc'[Main] = "link" /\ at'[Main] = "enqueue"
      BY <2>1, <3>1, Calls DEF ServerTypeOK
    <3> QED BY <1>0, <3>1, <3>2, <3>3 DEF Roles, OneWorkerInside
  <2>5. CASE Main_Retest
    <3>1. /\ Empty_Call(Main) /\ at' = [at EXCEPT ![Main] = "fill"]
          /\ at[Main] = "enqueue" /\ m' = m /\ conn' = conn
      BY <2>5 DEF Main_Retest, server
    <3>2. ServerTypeOK'
      BY <1>0, <2>5 DEF Main_Retest, server, ServerTypeOK, Inv
    <3>3. /\ \A w \in Worker : pc'[w] = pc[w] /\ drain'[w] = drain[w] /\ at'[w] = at[w]
          /\ pc'[Main] = "loadTail" /\ at'[Main] = "fill"
      BY <2>1, <3>1, Calls DEF ServerTypeOK
    <3> QED BY <1>0, <3>1, <3>2, <3>3 DEF Roles, OneWorkerInside
  <2>6. CASE Main_Signal
    <3>1. /\ at'[Main] = "drain" /\ at[Main] = "fill" /\ pc[Main] = "idle"
          /\ \A w \in Worker : at'[w] = at[w] \/ (at[w] = "wait" /\ at'[w] = "lock")
          /\ pc' = pc /\ drain' = drain /\ m' = m
      BY <2>1, <2>6 DEF Main_Signal, qvars, ServerTypeOK
    <3>2. ServerTypeOK'
      BY <1>0, <2>6 DEF Main_Signal, server, ServerTypeOK, Inv
    <3> QED BY <1>0, <3>1, <3>2 DEF Roles, OneWorkerInside
  <2>7. CASE Main_Drain
    <3>1. /\ Drain_Call(Main) /\ at' = [at EXCEPT ![Main] = "accept"]
          /\ at[Main] = "drain" /\ m' = m /\ conn' = conn
      BY <2>7 DEF Main_Drain, server
    <3>2. ServerTypeOK'
      BY <1>0, <2>7 DEF Main_Drain, server, ServerTypeOK, Inv
    <3>3. /\ \A w \in Worker : pc'[w] = pc[w] /\ drain'[w] = drain[w] /\ at'[w] = at[w]
          /\ pc'[Main] = "loadTail" /\ at'[Main] = "accept"
      BY <2>1, <3>1, Calls DEF ServerTypeOK
    <3> QED BY <1>0, <3>1, <3>2, <3>3 DEF Roles, OneWorkerInside
  <2> QED BY <1>2, <2>2, <2>3, <2>4, <2>5, <2>6, <2>7
<1>3. ASSUME NEW w \in Worker, Worker_Lock(w) \/ Worker_Wait(w) \/ Worker_Spurious(w)
             \/ Worker_Dequeue(w) \/ Worker_Unlock(w) \/ Worker_Handle(w) \/ Worker_Close(w)
             \/ Worker_BadFd(w)
      PROVE  ServerInv'
  <2>1. /\ pc = [t \in Thread |-> pc[t]] /\ at = [t \in Thread |-> at[t]]
        /\ w \in Thread /\ w # Main /\ w # NULL /\ Worker \subseteq Thread
    <3>1. pc = [t \in Thread |-> pc[t]]
      BY DEF Inv, TypeOK
    <3>2. at = [t \in Thread |-> at[t]]
      BY DEF ServerTypeOK
    <3> QED BY <3>1, <3>2 DEF Worker
  <2>2. CASE Worker_Lock(w) \/ Worker_Dequeue(w)
    <3>1. /\ \/ Empty_Call(w) /\ at' = [at EXCEPT ![w] = "test"] /\ m = NULL /\ m' = w
             \/ Dequeue_Call(w) /\ at[w] = "test" /\ at' = [at EXCEPT ![w] = "dequeue"] /\ m' = m
          /\ conn' = conn
      BY <2>2 DEF Worker_Lock, Worker_Dequeue, server
    <3>2. ServerTypeOK'
      BY <1>0, <2>2 DEF Worker_Lock, Worker_Dequeue, server, ServerTypeOK, Inv, Worker
    <3>3. Roles'
      BY <2>1, <3>1, Calls DEF Roles
    <3>4. \A u \in Worker \ {w} : pc'[u] = pc[u] /\ at'[u] = at[u]
      BY <2>1, <3>1, Calls
    <3>5. at'[w] \in {"test", "dequeue"} /\ m' = w
      <4>1. at[w] = "test" => m = w
        BY DEF OneWorkerInside
      <4> QED BY <2>1, <3>1, <4>1
    <3>6. \A u \in Worker \ {w} : m # u
      BY <2>1, <3>1 DEF OneWorkerInside
    <3>7. OneWorkerInside'
      BY <3>4, <3>5, <3>6 DEF OneWorkerInside
    <3> QED BY <1>0, <3>2, <3>3, <3>7
  <2>3. CASE Worker_Wait(w) \/ Worker_Spurious(w) \/ Worker_Unlock(w)
             \/ Worker_Handle(w) \/ Worker_Close(w)
    <3> USE DEF Worker_Wait, Worker_Spurious, Worker_Unlock, Worker_Handle, Worker_Close, server
    <3>1. /\ pc[w] = "idle" /\ pc' = pc /\ drain' = drain /\ conn' = conn
          /\ \/ at[w] \in {"test", "dequeue"} /\ m' = NULL
             \/ at[w] \notin {"test", "dequeue"} /\ m' = m
          /\ \E place \in {"wait", "lock", "handle", "close"} : at' = [at EXCEPT ![w] = place]
      BY <2>3 DEF qvars
    <3>2. ServerTypeOK'
      BY <1>0, <2>3 DEF ServerTypeOK, Inv
    <3>3. Roles'
      BY <2>1, <3>1 DEF Roles
    <3>4. \A u \in Worker \ {w} : pc'[u] = pc[u] /\ at'[u] = at[u] /\ (m' = u <=> m = u)
      BY <2>1, <3>1 DEF OneWorkerInside
    <3>5. at'[w] \notin {"test", "dequeue"} /\ m' # w /\ pc'[w] = "idle"
      BY <2>1, <3>1 DEF OneWorkerInside
    <3>6. OneWorkerInside'
      BY <3>4, <3>5 DEF OneWorkerInside
    <3> QED BY <1>0, <3>2, <3>3, <3>6
  <2>4. CASE Worker_BadFd(w)
    <3>1. ServerTypeOK'
      BY <1>0, <2>4 DEF Worker_BadFd, Abort, ServerTypeOK, Inv
    <3> QED BY <1>0, <2>4, <3>1 DEF Worker_BadFd, Abort, qvars, Roles, OneWorkerInside
  <2> QED BY <1>3, <2>2, <2>3, <2>4
<1>4. CASE UNCHANGED svars
  BY <1>0, <1>4 DEF svars, server, qvars, ServerTypeOK, Roles, OneWorkerInside, Inv
<1> QED BY <1>1, <1>2, <1>3, <1>4 DEF ServerNext, MainStep, WorkerStep, Worker

LEMMA ServerStart == ServerInit => ServerInv
<1> SUFFICES ASSUME ServerInit PROVE ServerInv
  OBVIOUS
<1>1. Inv
  BY InitInv DEF ServerInit
<1>2. ServerTypeOK
  <2>1. at \in [Thread -> {"accept", "lock"}] /\ m = NULL /\ conn = NoValue /\ open = {}
        /\ accepted = 0 /\ aborted = FALSE
    BY DEF ServerInit
  <2>2. accepted \in 0..MaxConn
    BY <2>1
  <2>3. aborted \in BOOLEAN
    BY <2>1
  <2> QED BY <1>1, <2>1, <2>2, <2>3 DEF ServerTypeOK, Inv
<1>3. Roles /\ OneWorkerInside
  BY DEF ServerInit, Queue_Init, Roles, OneWorkerInside, Worker
<1> QED BY <1>1, <1>2, <1>3 DEF ServerInv

LEMMA ServerInvariant == ServerSpec => []ServerInv
  BY ServerStart, ServerStep, PTL DEF ServerSpec

\* For any workers, descriptors, connections and nodes: the types of the server.
THEOREM ServerTypeSafety == ServerSpec => []ServerTypeOK
  BY ServerInvariant, PTL DEF ServerInv

\* For any number of workers: the mutex keeps all but one of them out of the queue.
THEOREM MutexSafety == ServerSpec => []OneWorkerInside
  BY ServerInvariant, PTL DEF ServerInv

\* The server uses the queue as its specification allows: what is proved of every
\* client of the queue is so of the server, the first-in first-out order included.
THEOREM ServerUsesQueue == ServerSpec => Spec /\ ImplementsFifo
<1>1. ServerSpec => Queue_Init /\ [][Next]_qvars
  BY ServerInvariant, ServerIsClient, PTL DEF ServerSpec, ServerInit
<1> QED BY <1>1, Refinement, PTL DEF Spec

------------------------------------------------------------------------------
(* One job at a time                                                        *)

\* What main knows of the queue at each place.  Nobody else enqueues, so once it
\* has found the queue empty, or has emptied it, it stays empty.
MainView ==
  /\ Len(chain) <= 2
  /\ pc[Main] \in {"link", "reload", "loadNext", "free"} => Len(chain) = 1
  /\ pc[Main] = "loadTail" /\ tmp[Main] = chain[Len(chain)] => Len(chain) = 1
  /\ pc[Main] = "loadNext" => tmp[Main] = chain[1]
  /\ pc[Main] \in {"link", "swing"} \/ (pc[Main] = "idle" /\ drain[Main] # "dequeue")
       => rv[Main] \in {0, 1}
  /\ pc[Main] = "idle" /\ drain[Main] # "dequeue" /\ at[Main] # "enqueue" /\ rv[Main] = 1
       => Len(chain) = 1
  /\ pc[Main] = "idle" /\ drain[Main] = "no" /\ at[Main] = "accept" => Len(chain) = 1
  /\ pc[Main] # "idle" /\ at[Main] = "accept" => drain[Main] # "no"
  /\ drain[Main] # "no" => at[Main] = "accept"
  /\ pc[Main] \in {"take", "advance", "free"} => drain[Main] = "dequeue"
  /\ pc[Main] \in {"loadTail", "reload", "loadNext"} => drain[Main] # "dequeue"

LEMMA Two == ASSUME NEW k \in Nat, k >= 2, k <= 2 PROVE k = 2
  OBVIOUS

LEMMA OneOrTwo == ASSUME NEW k \in Nat, k >= 1, k <= 2 PROVE k \in 1..2
  OBVIOUS

\* What a worker does in the queue: at most it takes the job.
LEMMA WorkerInQueue ==
  ASSUME ServerInv, MainView, NEW w \in Worker, QueueStep(w), UNCHANGED at PROVE MainView'
<1> USE DEF ServerInv, Inv, TypeOK, Goto, results, list, locks
<1>1. w \in Thread /\ w # Main /\ drain[w] = "no" /\ pc[w] \notin {"link", "swing"}
  BY DEF Worker, Roles
<1>2. DequeueStep(w) \/ EmptyStep(w)
  BY <1>1 DEF QueueStep, EnqueueStep, Enqueue_Link, LinkLast, Enqueue_Swing, SwingTo,
              DrainStep, Drain_Dequeue, Drain_Again, Drain_Return, DrainAt
<1>3. /\ pc'[Main] = pc[Main] /\ tmp'[Main] = tmp[Main] /\ rv'[Main] = rv[Main]
      /\ drain' = drain
  <2>1. CASE DequeueStep(w)
    BY <1>1, <2>1 DEF DequeueStep, Dequeue_Miss, Dequeue_Take, LoadHead, Dequeue_Advance,
                      Dequeue_Free
  <2>2. CASE EmptyStep(w)
    BY <1>1, <2>2 DEF EmptyStep, Empty_Differ, Empty_Same, Empty_Reload, Empty_Next, Answer, Load
  <2> QED BY <1>2, <2>1, <2>2
<1>4. chain' = chain \/ (chain' = Tail(chain) /\ Len(chain) >= 2)
  <2>1. CASE Dequeue_Advance(w)
    BY <2>1 DEF Dequeue_Advance, QueueInv, HeadHeld, Worker
  <2>2. CASE ~Dequeue_Advance(w)
    BY <1>2, <2>2 DEF DequeueStep, Dequeue_Miss, Dequeue_Take, LoadHead, Dequeue_Free, EmptyStep,
                      Empty_Differ, Empty_Same, Empty_Reload, Empty_Next, Answer, Load
  <2> QED BY <2>1, <2>2
<1>5. CASE chain' = chain
  BY <1>3, <1>5 DEF MainView
<1>6. CASE chain' = Tail(chain) /\ Len(chain) >= 2
  <2>1. Len(chain) = 2 /\ Len(chain') = 1
    <3>1. Len(chain) = 2
      <4>1. Len(chain) \in Nat /\ Len(chain) >= 2 /\ Len(chain) <= 2
        BY <1>6, OneOrMore DEF MainView
      <4> QED BY ONLY <4>1, Two
    <3>2. head \in Node
      OBVIOUS
    <3> QED BY ONLY <1>6, <3>1, <3>2, OneOrMore, Lengths, ServerInv DEF ServerInv
  <2>2. pc[Main] \notin {"link", "reload", "loadNext", "free"}
    BY <2>1 DEF MainView
  <2> QED BY <1>3, <2>1, <2>2 DEF MainView
<1> QED BY <1>4, <1>5, <1>6

\* main in the queue: it is the only enqueuer, so that its own test is exact
LEMMA MainInQueue ==
  ASSUME ServerInv, MainView, QueueStep(Main), UNCHANGED at PROVE MainView'
<1> USE DEF ServerInv, Inv, TypeOK, Goto, results, list, locks
<1>1. head = chain[1] /\ Len(chain) \in Nat /\ Len(chain) >= 1
      /\ (chain[1] = chain[Len(chain)] => Len(chain) = 1)
  BY OneOrMore
<1>2. CASE Enqueue_Link(Main)
  <2>1. Len(chain) = 1 /\ chain' = Append(chain, tmp[Main]) /\ Len(chain') = 2
    <3>1. Len(chain) = 1 /\ chain' = Append(chain, tmp[Main]) /\ pc[Main] = "link"
      BY <1>2 DEF Enqueue_Link, LinkLast, MainView
    <3>2. tmp[Main] \in Node
      BY <3>1 DEF QueueInv, PrivateNodes, Owned
    <3>3. Len(Append(chain, tmp[Main])) = Len(chain) + 1
      BY ONLY <3>2, OneOrMore, Lengths, ServerInv DEF ServerInv
    <3> QED BY ONLY <3>1, <3>3
  <2>2. pc[Main] = "link" /\ pc'[Main] = "swing" /\ rv' = rv /\ drain' = drain
    BY <1>2 DEF Enqueue_Link, LinkLast
  <2> QED BY <2>1, <2>2 DEF MainView, Roles
<1>3. CASE Enqueue_Swing(Main)
  BY <1>3 DEF Enqueue_Swing, SwingTo, MainView, Roles
<1>4. CASE Dequeue_Miss(Main) \/ Dequeue_Take(Main) \/ Dequeue_Free(Main)
  BY <1>4 DEF Dequeue_Miss, Dequeue_Take, LoadHead, Dequeue_Free, MainView
<1>5. CASE Dequeue_Advance(Main)
  <2>1. Len(chain) = 2 /\ chain' = Tail(chain)
    <3>1. Len(chain) >= 2 /\ chain' = Tail(chain)
      BY <1>5 DEF Dequeue_Advance, QueueInv, HeadHeld
    <3>2. Len(chain) <= 2 /\ Len(chain) \in Nat
      BY <1>1 DEF MainView
    <3> QED BY ONLY <3>1, <3>2, Two
  <2>2. Len(chain') = 1
    <3>1. head \in Node
      OBVIOUS
    <3> QED BY ONLY <2>1, <3>1, OneOrMore, Lengths, ServerInv DEF ServerInv
  <2>3. pc[Main] = "advance" /\ pc'[Main] = "free" /\ drain' = drain
    BY <1>5 DEF Dequeue_Advance
  <2> QED BY <2>2, <2>3 DEF MainView
<1>6. CASE Empty_Differ(Main)
  BY <1>6 DEF Empty_Differ, Answer, MainView
<1>7. CASE Empty_Same(Main)
  <2>1. tailLock = NULL
    BY <1>7 DEF QueueInv, TailLags, Roles, Worker, Empty_Same
  <2>2. tmp[Main] = chain[Len(chain)]
    BY <1>7, <2>1 DEF QueueInv, TailLags, Empty_Same
  <2> QED BY <1>7, <2>2 DEF Empty_Same, MainView
<1>8. CASE Empty_Reload(Main)
  BY <1>1, <1>8 DEF Empty_Reload, Load, MainView
<1>9. CASE Empty_Next(Main)
  <2>1. Len(chain) = 1 /\ tmp[Main] = chain[1] /\ drain[Main] # "dequeue"
    BY <1>9 DEF Empty_Next, MainView
  <2>2. next[tmp[Main]] = NULL /\ tmp[Main] \in heap
    BY <2>1 DEF QueueInv, ChainLinked
  <2>3. Answer(Main, 1)
    BY <1>9, <2>2 DEF Empty_Next
  <2> QED BY <1>9, <2>1, <2>3 DEF Empty_Next, Answer, MainView
<1>10. CASE Drain_Dequeue(Main)
  BY <1>10 DEF Drain_Dequeue, DrainAt, DrainGoto, MainView
<1>11. CASE Drain_Again(Main)
  BY <1>1, <1>11 DEF Drain_Again, DrainAt, DrainGoto, Load, MainView
<1>12. CASE Drain_Return(Main)
  BY <1>12 DEF Drain_Return, DrainAt, DrainGoto, MainView
<1> QED BY <1>2, <1>3, <1>4, <1>5, <1>6, <1>7, <1>8, <1>9, <1>10, <1>11, <1>12
        DEF QueueStep, EnqueueStep, DequeueStep, EmptyStep, DrainStep

LEMMA MainViewStep == ServerInv /\ MainView /\ [ServerNext]_svars => MainView'
<1> SUFFICES ASSUME ServerInv, MainView, [ServerNext]_svars PROVE MainView'
  OBVIOUS
<1>0. head = chain[1] /\ (chain[1] = chain[Len(chain)] => Len(chain) = 1)
  BY OneOrMore DEF ServerInv
<1>1. ASSUME UNCHANGED chain, pc'[Main] = pc[Main], tmp'[Main] = tmp[Main], rv'[Main] = rv[Main],
             drain'[Main] = drain[Main], at'[Main] = at[Main]
      PROVE  MainView'
  BY <1>1 DEF MainView
<1>2. ASSUME NEW t \in Thread, InQueue(t) PROVE MainView'
  BY <1>2, WorkerInQueue, MainInQueue DEF InQueue, Worker
<1> USE DEF Ready, Move, Outside, DrainAt, Goto, results, list
<1>3. CASE Main_Accept \/ Main_Retest
  BY <1>0, <1>3 DEF Main_Accept, Main_Retest, Empty_Call, Load, MainView, ServerInv, Inv, TypeOK,
                    ServerTypeOK
<1>4. CASE Main_AcceptFails
  BY <1>1, <1>4 DEF Main_AcceptFails, Abort, qvars
<1>5. CASE Main_Enqueue
  BY <1>5 DEF Main_Enqueue, Enqueue, Enqueue_Alloc, MainView, ServerInv, Inv, TypeOK, ServerTypeOK
<1>6. CASE Main_Signal
  <2>1. at'[Main] = "drain"
    BY <1>6 DEF Main_Signal, Worker, ServerInv, ServerTypeOK
  <2> QED BY <1>6, <2>1 DEF Main_Signal, qvars, MainView
<1>7. CASE Main_Drain
  BY <1>0, <1>7 DEF Main_Drain, Drain_Call, DrainGoto, Load, MainView, ServerInv, Inv, TypeOK,
                    ServerTypeOK
<1>8. ASSUME NEW w \in Worker, Worker_Lock(w) \/ Worker_Wait(w) \/ Worker_Spurious(w)
             \/ Worker_Dequeue(w) \/ Worker_Unlock(w) \/ Worker_Handle(w) \/ Worker_Close(w)
             \/ Worker_BadFd(w)
      PROVE  MainView'
  <2>1. w # Main
    BY DEF Worker
  <2> USE DEF ServerInv, Inv, TypeOK, ServerTypeOK
  <2>2. CASE Worker_Lock(w) \/ Worker_Dequeue(w)
    BY <1>1, <2>1, <2>2 DEF Worker_Lock, Worker_Dequeue, Empty_Call, Load, Dequeue_Call
  <2>3. CASE ~(Worker_Lock(w) \/ Worker_Dequeue(w))
    BY <1>1, <1>8, <2>1, <2>3
       DEF Worker_Wait, Worker_Spurious, Worker_Unlock, Worker_Handle, Worker_Close,
           Worker_BadFd, Abort, qvars
  <2> QED BY <2>2, <2>3
<1>9. CASE UNCHANGED svars
  BY <1>1, <1>9 DEF svars, qvars
<1> QED BY <1>2, <1>3, <1>4, <1>5, <1>6, <1>7, <1>8, <1>9
        DEF ServerNext, MainStep, WorkerStep, Worker

LEMMA MainViewInvariant == ServerSpec => [](ServerInv /\ MainView)
<1>1. ServerInit => MainView
  BY DEF ServerInit, Queue_Init, MainView
<1> QED BY <1>1, ServerInvariant, MainViewStep, PTL DEF ServerSpec

\* Another element makes a set larger by one at the most.
LEMMA OneMore ==
  ASSUME NEW S, IsFiniteSet(S), NEW k \in Nat, Cardinality(S) <= k, NEW x
  PROVE  IsFiniteSet(S \cup {x}) /\ Cardinality(S \cup {x}) <= k + 1
<1>1. /\ IsFiniteSet(S \cup {x})
      /\ Cardinality(S \cup {x}) = Cardinality(S) \/ Cardinality(S \cup {x}) = Cardinality(S) + 1
  BY FS_AddElement
<1>2. Cardinality(S) \in Nat
  BY FS_CardinalityType
<1> QED BY <1>1, <1>2

LEMMA ThreeAtMost ==
  ASSUME NEW a, NEW b, NEW c
  PROVE  IsFiniteSet({a, b, c}) /\ Cardinality({a, b, c}) <= 3
<1>1. IsFiniteSet({a}) /\ Cardinality({a}) <= 1
  BY FS_Singleton
<1>2. IsFiniteSet({a} \cup {b}) /\ Cardinality({a} \cup {b}) <= 1 + 1
  BY <1>1, OneMore, 1 \in Nat
<1>3. IsFiniteSet(({a} \cup {b}) \cup {c}) /\ Cardinality(({a} \cup {b}) \cup {c}) <= 2 + 1
  BY <1>2, OneMore, 2 \in Nat, 1 + 1 = 2
<1>4. ({a} \cup {b}) \cup {c} = {a, b, c}
  OBVIOUS
<1> QED BY <1>3, <1>4, 2 + 1 = 3

\* At most one worker is inside, and main has no node while there is a job:
\* three nodes at the most.
LEMMA ThreeNodes == ASSUME ServerInv, MainView, NoLeak PROVE Cardinality(heap) <= 3
<1> DEFINE owner == CHOOSE w \in Worker : Owned(w)
           mine == IF Owned(Main) THEN tmp[Main] ELSE chain[Len(chain)]
           its == IF \E w \in Worker : Owned(w) THEN tmp[owner] ELSE chain[1]
<1>1. Len(chain) \in 1..2 /\ (Owned(Main) => Len(chain) = 1)
  <2>1. Len(chain) <= 2 /\ Len(chain) \in Nat /\ Len(chain) >= 1
    BY OneOrMore DEF MainView, ServerInv
  <2>2. Owned(Main) => Len(chain) = 1
    BY DEF MainView, Owned
  <2> QED BY ONLY <2>1, <2>2, OneOrTwo
<1>2. \A w \in Worker : Owned(w) => w = owner
  BY DEF ServerInv, OneWorkerInside, Owned
<1>3. heap \subseteq {chain[1], mine, its}
  <2> SUFFICES ASSUME NEW n \in heap PROVE n \in {chain[1], mine, its}
    OBVIOUS
  <2>1. CASE InChain(n)
    BY <1>1, <2>1 DEF InChain
  <2>2. CASE Owned(Main) /\ tmp[Main] = n
    BY <2>2
  <2>3. ASSUME NEW w \in Worker, Owned(w), tmp[w] = n PROVE n = its
    BY <1>2, <2>3
  <2> QED BY <2>1, <2>2, <2>3 DEF NoLeak, Worker
<1> HIDE DEF mine, its
<1>4. IsFiniteSet({chain[1], mine, its}) /\ Cardinality({chain[1], mine, its}) <= 3
  BY ONLY ThreeAtMost
<1> QED BY <1>3, <1>4, FS_Subset, FS_CardinalityType

\* For any number of workers, connections and nodes: AtMostOneJob.
THEOREM OneJobSafety == ServerSpec => []AtMostOneJob
<1>1. ServerInv /\ MainView /\ NoLeak => AtMostOneJob
  BY ThreeNodes DEF AtMostOneJob, MainView, Outside, DrainAt
<1>2. ServerSpec => []NoLeak
  BY ServerUsesQueue, LeakSafety
<1> QED BY <1>1, <1>2, MainViewInvariant, PTL

\* For any number of workers, connections and nodes: QueueSound.
THEOREM ServerQueueSafety == ServerSpec => []QueueSound
<1>1. ServerInv /\ MainView => QueueSound
  BY DEF QueueSound, ServerInv, Inv, MainView, Outside, DrainAt
<1> QED BY <1>1, MainViewInvariant, PTL
================================================================================
