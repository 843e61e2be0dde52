------------------------------ MODULE QueueMain ------------------------------
(***************************************************************************)
(* The program of Lab4-5 "Concurrent Queue/main.c": threads that each      *)
(* enqueue 1, 2, ..., Items on one shared queue, and a main thread that    *)
(* creates them, joins them in order and then empties the queue.           *)
(***************************************************************************)
EXTENDS LinkedQueue

CONSTANTS
  N,      \* the number of enqueuing threads (numThreads)
  Items   \* how many numbers each of them enqueues

Main == 0

ASSUME MainAssumption ==
  /\ N \in Nat \ {0} /\ Items \in Nat
  /\ Thread = 0..N
  /\ Value = 1..Items

Producer == 1..N

VARIABLES
  step,      \* the loop variable i of each thread, counted from 1
  started,   \* started[p]: pthread_create has made p
  place,     \* where main is: creating, joining, about to call Empty_Queue,
             \* in it ("drain"), done ("freed")
  printed    \* the numbers main has printed, in order

mvars == <<qvars, step, started, place, printed>>

MainInit ==
  /\ Queue_Init
  /\ step = [t \in Thread |-> 1]
  /\ started = {}
  /\ place = "create"
  /\ printed = << >>

------------------------------------------------------------------------------
(* threadEnqueue                                                            *)

\* for (int i = 1; i < 4; ++i) Queue_Enqueue(queue, i)
Producer_Enqueue(p) ==
  /\ p \in started /\ Outside(p)
  /\ step[p] <= Items
  /\ Enqueue_Alloc(p, step[p])
  /\ step' = [step EXCEPT ![p] = @ + 1]
  /\ UNCHANGED <<started, place, printed>>

Producer_Inside(p) == QueueStep(p) /\ UNCHANGED <<step, started, place, printed>>

Done(p) == p \in started /\ Outside(p) /\ step[p] = Items + 1

------------------------------------------------------------------------------
(* main                                                                     *)

\* one turn of a loop over the N threads
Turn(here, there) ==
  /\ place = here
  /\ IF step[Main] < N
       THEN step' = [step EXCEPT ![Main] = @ + 1] /\ UNCHANGED place
       ELSE step' = [step EXCEPT ![Main] = 1] /\ place' = there

\* pthread_create(&threads[i], NULL, threadEnqueue, queue)
Main_Create ==
  /\ Turn("create", "join")
  /\ started' = started \cup {step[Main]}
  /\ UNCHANGED <<qvars, printed>>

Fault_NotJoined ==
  /\ Turn("join", "call")
  /\ UNCHANGED <<qvars, started, printed>>

\* pthread_join(threads[i], NULL): returns once the thread has
Main_Join ==
  /\ Turn("join", "call")
  /\ Done(step[Main])
  /\ UNCHANGED <<qvars, started, printed>>

\* Empty_Queue(queue)
Main_Drain ==
  /\ place = "call" /\ place' = "drain"
  /\ Drain_Call(Main)
  /\ UNCHANGED <<step, started, printed>>

\* inside Empty_Queue: what a successful dequeue stored is printed
Main_Inside ==
  /\ QueueStep(Main)
  /\ printed' = IF DrainAt(Main, "dequeue") /\ rv[Main] = 0
                  THEN Append(printed, out[Main])
                  ELSE printed
  /\ UNCHANGED <<step, started, place>>

\* free(queue); return 0
Main_Free ==
  /\ place = "drain" /\ place' = "freed"
  /\ Outside(Main)
  /\ UNCHANGED <<qvars, step, started, printed>>

MainNext ==
  \/ Main_Create \/ Main_Join \/ Main_Drain \/ Main_Inside \/ Main_Free
  \/ \E p \in Producer : Producer_Enqueue(p) \/ Producer_Inside(p)

\* Every thread that can run is eventually run.
MainSpec ==
  /\ MainInit /\ [][MainNext]_mvars
  /\ WF_mvars(Main_Create \/ Main_Join \/ Main_Drain \/ Main_Inside \/ Main_Free)
  /\ \A p \in Producer : WF_mvars(Producer_Enqueue(p) \/ Producer_Inside(p))

------------------------------------------------------------------------------
(* Properties                                                               *)

Copies(v, k) == Cardinality({i \in 1..k : printed[i] = v})

\* The numbers come out in the order each thread put them in: main never
\* prints a number more often than its predecessor, and none more than N times.
PrintedInOrder ==
  \A k \in 1..Len(printed) : \A v \in Value :
    /\ Copies(v, k) <= N
    /\ v > 1 => Copies(v, k) <= Copies(v - 1, k)

\* When main frees the queue, everything enqueued has been printed, no thread
\* is inside queue.c, and of all the nodes only the dummy is left (it leaks).
AllPrintedAtFree ==
  place = "freed" =>
    /\ Len(printed) = N * Items
    /\ \A t \in Thread : Outside(t)
    /\ heap = {head}

\* The program ends: the enqueuers all return, and so does Empty_Queue.
MainEnds == <>(place = "freed")
==============================================================================
