------------------------------ MODULE WebServer ------------------------------
(***************************************************************************)
(* The thread pool of the Lab4-5 web server: the accept loop of wserver.c  *)
(* and the workers of thread_pool.c over the job queue of queue.c.         *)
(* The main thread enqueues and signals without holding m, tests the queue *)
(* to decide whether to enqueue, and empties it after every signal; the    *)
(* workers test and dequeue under m.  A request is one step here: it       *)
(* either succeeds or, on a descriptor that is not open, fails an assert.  *)
(***************************************************************************)
EXTENDS LinkedQueue

CONSTANTS
  Main,     \* the thread that runs main(); the other threads are workers
  MaxConn   \* how many connections the clients make

ASSUME ServerAssumption == Main \in Thread /\ MaxConn \in Nat

Worker == Thread \ {Main}

\* The queued values are descriptors: Value is the process's descriptor table.
Fd == Value

VARIABLES
  at,        \* where each thread is in wserver.c or thread_pool.c
  m,         \* the owner of the mutex m, or NULL
  conn,      \* main's conn_fd
  open,      \* the descriptors of accepted, not yet closed connections
  accepted,  \* how many connections have been accepted
  aborted    \* an assert has failed: the process is gone

\* A worker's local fd is its out: Queue_Dequeue(&jobs, &fd) writes it there,
\* or leaves what the slot held, from the last round or from nobody.
fd(w) == out[w]

server == <<conn, open, accepted, aborted>>
svars  == <<qvars, at, m, server>>

ServerInit ==
  /\ Queue_Init
  /\ at = [t \in Thread |-> IF t = Main THEN "accept" ELSE "lock"]
  /\ m = NULL
  /\ conn = NoValue
  /\ open = {}
  /\ accepted = 0
  /\ aborted = FALSE

\* t is back from queue.c and stands at the given place
Ready(t, place) == ~aborted /\ Outside(t) /\ at[t] = place

Move(t, place) == at' = [at EXCEPT ![t] = place]

Abort == aborted' = TRUE /\ UNCHANGED <<qvars, at, m, conn, open, accepted>>

------------------------------------------------------------------------------
(* main (wserver.c)                                                         *)

\* accept_or_die returns a descriptor that is not in use; test the queue
Main_Accept ==
  /\ Ready(Main, "accept") /\ Move(Main, "fill")
  /\ accepted < MaxConn
  /\ \E f \in Fd \ open : conn' = f /\ open' = open \cup {f}
  /\ accepted' = accepted + 1
  /\ Empty_Call(Main)
  /\ UNCHANGED <<m, aborted>>

Fault_AcceptUnchecked ==
  /\ Ready(Main, "accept") /\ Move(Main, "fill")
  /\ open = Fd
  /\ conn' = -1
  /\ Empty_Call(Main)
  /\ UNCHANGED <<m, open, accepted, aborted>>

\* no descriptor is left: accept fails, and its assert with it
Main_AcceptFails == Ready(Main, "accept") /\ accepted < MaxConn /\ open = Fd /\ Abort

Enqueue ==
  /\ Ready(Main, "fill") /\ Move(Main, "enqueue")
  /\ Enqueue_Alloc(Main, conn)
  /\ UNCHANGED <<m, server>>

Fault_EnqueueUntested == Enqueue

\* while (Queue_Empty(&jobs) == 1) Queue_Enqueue(&jobs, conn_fd)
Main_Enqueue == rv[Main] = 1 /\ Enqueue

\* Queue_Enqueue returned: the while tests again
Main_Retest ==
  /\ Ready(Main, "enqueue") /\ Move(Main, "fill")
  /\ Empty_Call(Main)
  /\ UNCHANGED <<m, server>>

\* the while is over: pthread_cond_signal, which wakes a waiting worker
Main_Signal ==
  /\ Ready(Main, "fill")
  /\ rv[Main] # 1
  /\ LET waiting == {w \in Worker : at[w] = "wait"}
     IN  \/ waiting = {} /\ Move(Main, "drain")
         \/ \E w \in waiting : at' = [at EXCEPT ![Main] = "drain", ![w] = "lock"]
  /\ UNCHANGED <<qvars, m, server>>

\* Empty_Queue(&jobs); main is back at accept once it returns
Main_Drain ==
  /\ Ready(Main, "drain") /\ Move(Main, "accept")
  /\ Drain_Call(Main)
  /\ UNCHANGED <<m, server>>

------------------------------------------------------------------------------
(* worker (thread_pool.c)                                                   *)

Fault_NoLock(w) ==
  /\ Ready(w, "lock") /\ Move(w, "test")
  /\ Empty_Call(w)
  /\ UNCHANGED <<m, server>>

\* pthread_mutex_lock, also the one at the end of pthread_cond_wait; then the
\* while tests the queue
Worker_Lock(w) ==
  /\ Ready(w, "lock") /\ Move(w, "test")
  /\ m = NULL /\ m' = w
  /\ Empty_Call(w)
  /\ UNCHANGED server

\* Queue_Empty answered anything but 0: pthread_cond_wait
Worker_Wait(w) ==
  /\ Ready(w, "test") /\ Move(w, "wait")
  /\ rv[w] # 0
  /\ m' = NULL
  /\ UNCHANGED <<qvars, server>>

\* pthread_cond_wait may return without a signal
Worker_Spurious(w) == Ready(w, "wait") /\ Move(w, "lock") /\ UNCHANGED <<qvars, m, server>>

\* Queue_Empty answered 0: call Queue_Dequeue
Worker_Dequeue(w) ==
  /\ Ready(w, "test") /\ Move(w, "dequeue")
  /\ rv[w] = 0
  /\ Dequeue_Call(w)
  /\ UNCHANGED <<m, server>>

\* Queue_Dequeue returned, its result is not looked at: unlock m
Worker_Unlock(w) ==
  /\ Ready(w, "dequeue") /\ Move(w, "handle")
  /\ m' = NULL
  /\ UNCHANGED <<qvars, server>>

\* request_handle(fd) came to its end
Worker_Handle(w) ==
  /\ Ready(w, "handle") /\ Move(w, "close")
  /\ fd(w) \in open
  /\ UNCHANGED <<qvars, m, server>>

Fault_CloseForgotten(w) ==
  /\ Ready(w, "close") /\ Move(w, "lock")
  /\ UNCHANGED <<qvars, m, server>>

\* close_or_die(fd); for (;;)
Worker_Close(w) ==
  /\ Ready(w, "close") /\ Move(w, "lock")
  /\ fd(w) \in open
  /\ open' = open \ {fd(w)}
  /\ UNCHANGED <<qvars, m, conn, accepted, aborted>>

\* fd is not open: a read or a write of request_handle fails its assert, or
\* the close does
Worker_BadFd(w) ==
  /\ Ready(w, "handle") \/ Ready(w, "close")
  /\ fd(w) \notin open
  /\ Abort

------------------------------------------------------------------------------
InQueue(t) == ~aborted /\ QueueStep(t) /\ UNCHANGED <<at, m, server>>

\* main goes on from accept to the next accept
MainStep ==
  Main_Enqueue \/ Main_Retest \/ Main_Signal \/ Main_Drain \/ InQueue(Main)

WorkerStep(w) ==
  \/ Worker_Lock(w) \/ Worker_Wait(w) \/ Worker_Dequeue(w) \/ Worker_Unlock(w)
  \/ Worker_Handle(w) \/ Worker_Close(w) \/ Worker_BadFd(w)
  \/ InQueue(w)

ServerNext ==
  \/ Main_Accept \/ Main_AcceptFails \/ MainStep
  \/ \E w \in Worker : WorkerStep(w) \/ Worker_Spurious(w)

\* Threads are scheduled; clients need not connect and no wakeup is spurious
\* unless it happens.  A request that is being handled comes to its end.
ServerSpec ==
  /\ ServerInit /\ [][ServerNext]_svars
  /\ WF_svars(MainStep)
  /\ \A w \in Worker : WF_svars(WorkerStep(w))

------------------------------------------------------------------------------
(* Properties                                                               *)

ServerTypeOK ==
  /\ TypeOK
  /\ at \in [Thread -> {"accept", "fill", "enqueue", "drain",
                        "lock", "test", "wait", "dequeue", "handle", "close"}]
  /\ m \in Worker \cup {NULL}
  /\ conn \in Fd \cup {NoValue}
  /\ open \in SUBSET Fd
  /\ accepted \in 0..MaxConn
  /\ aborted \in BOOLEAN

\* m is held exactly by the worker between its lock and its unlock, and so at
\* most one worker at a time is in Queue_Empty or Queue_Dequeue.
OneWorkerInside ==
  /\ \A w \in Worker : m = w <=> at[w] \in {"test", "dequeue"}
  /\ \A w \in Worker : pc[w] # "idle" => m = w

\* Although main tests, enqueues and tests again without m, the queue never
\* holds a second job, and no more than three nodes are ever allocated; and main
\* comes back to accept only with an empty queue: no job is handed from one
\* connection's round to the next.
AtMostOneJob ==
  /\ Len(chain) <= 2 /\ Cardinality(heap) <= 3
  /\ at[Main] = "accept" /\ Outside(Main) => Len(chain) = 1

\* The queue's own invariant survives the server's use of it; and with a
\* single enqueuer main never gets past the end of Queue_Empty without an answer.
QueueSound == QueueInv /\ (Outside(Main) => rv[Main] \in {0, 1})

\* Main always comes back to accept, unless an assert ends the process: the
\* while that enqueues the same connection again and again ends.
MainComesBack == []<>(aborted \/ (at[Main] = "accept" /\ Outside(Main)))

\* io_helper.h:52 asserts of every close_or_die that close(fd) == 0.
CloseSucceeds == \A w \in Worker : Ready(w, "close") => fd(w) \in open

\* Does not hold: thread_pool.c:14 says of the while that guards the dequeue: "if empty, no
\* job to do".  So a worker that gets past it should have been given a job; but
\* main may empty the queue before it dequeues.
WorkerHasJob == [][\A w \in Worker : Worker_Unlock(w) => rv[w] = 0]_svars

\* Does not hold: wclient.c:7-8, of a client of this server: "Sends one HTTP request to the
\* specified HTTP server.  Prints out the HTTP response."  So an accepted
\* connection should be answered and closed, short of a failed assert; but main
\* may take it out of the queue itself.
ConnectionAnswered == \A f \in Fd : f \in open ~> (f \notin open \/ aborted)
==============================================================================
