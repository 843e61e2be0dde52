--------------------------- MODULE QueueMainProofs ---------------------------
(***************************************************************************)
(* Proofs about the queue's test program for any number of threads and of  *)
(* numbers: everything is printed, each thread's numbers in their order,   *)
(* and nothing but the dummy is left when the queue is freed.  What has    *)
(* been put into the queue so far is followed as one sequence (Taken),     *)
(* which only the linking of a node makes longer.                          *)
(***************************************************************************)
EXTENDS QueueMain, LinkedQueueProofs, FiniteSetTheorems

USE QueueAssumption, MainAssumption

\* Which thread is where.
Roles ==
  /\ step \in [Thread -> Int]
  /\ place \in {"create", "join", "call", "drain", "freed"}
  /\ step[Main] \in 1..N
  /\ \A p \in Producer :
       /\ step[p] \in 1..(Items + 1)
       /\ pc[p] \in {"idle", "link", "swing"} /\ drain[p] = "no"
       /\ pc[p] = "link" => step[p] > 1
  /\ pc[Main] \notin {"link", "swing"}
  /\ pc[Main] # "idle" => drain[Main] # "no"
  /\ place # "drain" => drain[Main] = "no"

\* The threads that main has joined are out of the queue for good.
Joined ==
  /\ place = "join" => \A p \in 1..(step[Main] - 1) : Done(p)
  /\ place \in {"call", "drain", "freed"} => \A p \in Producer : Done(p)

MainInv == Inv /\ Roles /\ Joined

LEMMA Threads ==
  /\ Main \in Thread /\ Producer \subseteq Thread /\ Main \notin Producer
  /\ Thread = Producer \cup {Main}
  BY DEF Main, Producer

\* Every step of the program is one of the queue's most general client.
LEMMA MainIsClient == MainInv /\ [MainNext]_mvars => [Next]_qvars
<1> SUFFICES ASSUME MainInv, [MainNext]_mvars PROVE [Next]_qvars
  OBVIOUS
<1>1. \A t \in Thread : QueueStep(t) => Next
  BY DEF Next
<1>2. ASSUME NEW p \in Producer, Producer_Enqueue(p) PROVE Next
  <2>1. p \in Thread /\ step[p] \in Value
    BY <1>2, Threads DEF Producer_Enqueue, MainInv, Roles
  <2> QED BY <1>2, <2>1 DEF Producer_Enqueue, Next, Call
<1>3. CASE Main_Drain
  BY <1>3, Threads DEF Main_Drain, Drain_Call, Outside, Next, Call
<1>4. CASE Main_Create \/ Main_Join \/ Main_Free
  BY <1>4 DEF Main_Create, Main_Join, Main_Free
<1>5. CASE UNCHANGED mvars
  BY <1>5 DEF mvars
<1> QED BY <1>1, <1>2, <1>3, <1>4, <1>5, Threads DEF MainNext, Main_Inside, Producer_Inside

LEMMA MainStart == MainInit => MainInv
<1> SUFFICES ASSUME MainInit PROVE MainInv
  OBVIOUS
<1>1. Inv
  BY InitInv DEF MainInit
<1>2. Roles /\ Joined
  BY Threads DEF MainInit, Queue_Init, Roles, Joined
<1> QED BY <1>1, <1>2 DEF MainInv

LEMMA MainStep == MainInv /\ [MainNext]_mvars => MainInv'
<1> SUFFICES ASSUME MainInv, [MainNext]_mvars PROVE MainInv'
  OBVIOUS
<1> USE Threads DEF MainInv
<1>0. Inv'
  BY MainIsClient, NextInv
<1>1. ASSUME NEW t \in Thread, QueueStep(t), UNCHANGED <<step, started, place>> PROVE MainInv'
  <2>0. step' = step /\ place' = place
    BY <1>1
  <2>1. Roles'
    <3>1. CASE t = Main
      <4>1. \A p \in Producer : pc'[p] = pc[p] /\ drain'[p] = drain[p]
        BY <1>1, <3>1, InQueueKeeps
      <4>2. place = "drain" /\ pc'[Main] \notin {"link", "swing"}
            /\ (pc'[Main] # "idle" => drain'[Main] # "no")
        BY <1>1, <3>1, InQueueKeeps DEF Roles
      <4> QED BY <2>0, <4>1, <4>2 DEF Roles
    <3>2. CASE t \in Producer
      <4>1. /\ pc'[t] \in {"idle", "swing"} /\ drain'[t] = "no"
            /\ \A u \in Thread \ {t} : pc'[u] = pc[u] /\ drain'[u] = drain[u]
        BY <1>1, <3>2, InQueueKeeps DEF Roles
      <4> QED BY <2>0, <3>2, <4>1 DEF Roles
    <3> QED BY <3>1, <3>2
  <2>2. ASSUME NEW p \in Producer, Done(p) PROVE Done(p)'
    <3>1. p # t
      BY <1>1, <2>2, InQueueKeeps DEF Done, Outside, DrainAt
    <3> QED BY <1>1, <2>2, <3>1, InQueueKeeps DEF Done, Outside, DrainAt
  <2>3. place = "join" => 1..(step[Main] - 1) \subseteq Producer
    BY DEF Roles, Producer
  <2>4. Joined'
    BY <1>1, <2>2, <2>3 DEF Joined
  <2> QED BY <1>0, <2>1, <2>4
<1>2. ASSUME NEW p \in Producer, Producer_Enqueue(p) PROVE MainInv'
  <2>1. /\ step' = [step EXCEPT ![p] = @ + 1] /\ step[p] \in 1..Items
        /\ pc' = [pc EXCEPT ![p] = "link"] /\ drain' = drain
        /\ UNCHANGED <<started, place>>
    BY <1>2, Calls DEF Producer_Enqueue, Roles
  <2>2. \A t \in Thread : pc'[t] = IF t = p THEN "link" ELSE pc[t]
    BY <2>1 DEF Inv, TypeOK
  <2>3. \A t \in Thread : step'[t] = IF t = p THEN step[t] + 1 ELSE step[t]
    BY <2>1 DEF Roles
  <2>4. Roles'
    BY <2>1, <2>2, <2>3 DEF Roles
  <2>5. \A q \in Producer : Done(q) => q # p
    BY <2>1 DEF Done
  <2>6. \A q \in Producer : Done(q) => Done(q)'
    BY <2>1, <2>2, <2>3, <2>5 DEF Done, Outside, DrainAt
  <2>7. 1..(step[Main] - 1) \subseteq Producer
    BY DEF Roles, Producer
  <2>8. Joined'
    BY <2>1, <2>3, <2>6, <2>7 DEF Joined
  <2> QED BY <1>0, <2>4, <2>8
<1>3. CASE Main_Create \/ Main_Join
  <2>1. /\ UNCHANGED <<pc, drain>> /\ started \subseteq started'
        /\ \/ Main_Create /\ place = "create" /\ place' \in {"create", "join"}
           \/ Main_Join /\ place = "join" /\ Done(step[Main])
        /\ Turn("create", "join") \/ Turn("join", "call")
    BY <1>3 DEF Main_Create, Main_Join, Turn, qvars
  <2>2. /\ step[Main] < N => step' = [step EXCEPT ![Main] = @ + 1] /\ place' = place
        /\ ~(step[Main] < N) => step' = [step EXCEPT ![Main] = 1] /\ place' \in {"join", "call"}
                                /\ (place = "join" => place' = "call")
                                /\ (place = "create" => place' = "join")
    BY <2>1 DEF Turn
  <2>3. \A p \in Producer : step'[p] = step[p]
    BY <2>2 DEF Roles
  <2>4. step' \in [Thread -> Int] /\ step'[Main] \in 1..N
        /\ step'[Main] = IF step[Main] < N THEN step[Main] + 1 ELSE 1
    BY <2>2 DEF Roles
  <2>5. Roles'
    BY <2>1, <2>2, <2>3, <2>4 DEF Roles
  <2>6. \A p \in Producer : Done(p) => Done(p)'
    BY <2>1, <2>3 DEF Done, Outside, DrainAt
  <2>7. Joined'
    <3>1. CASE place = "create"
      <4>1. place' = "create" \/ (place' = "join" /\ step'[Main] = 1)
        BY <2>2, <2>4, <3>1
      <4>2. 1..(1 - 1) = {}
        OBVIOUS
      <4> QED BY <4>1, <4>2 DEF Joined
    <3>2. CASE place = "join"
      <4>1. \A p \in 1..step[Main] : Done(p)
        BY <2>1, <3>2 DEF Joined, Roles
      <4>2. 1..step[Main] \subseteq Producer
        BY DEF Roles, Producer
      <4>3. \A p \in 1..step[Main] : Done(p)'
        BY <4>1, <4>2, <2>6
      <4>4. CASE step[Main] < N
        BY <3>2, <4>3, <4>4, <2>2, <2>4 DEF Joined, Roles
      <4>5. CASE ~(step[Main] < N)
        BY <3>2, <4>3, <4>5, <2>2, <2>4 DEF Joined, Roles, Producer
      <4> QED BY <4>4, <4>5
    <3> QED BY <2>1, <3>1, <3>2
  <2> QED BY <1>0, <2>5, <2>7
<1>4. CASE Main_Drain
  <2>1. /\ place = "call" /\ place' = "drain" /\ UNCHANGED <<step, started>>
        /\ pc' = [pc EXCEPT ![Main] = "loadTail"] /\ drain' = [drain EXCEPT ![Main] = "test"]
    BY <1>4, Calls DEF Main_Drain
  <2>2. \A t \in Thread : /\ pc'[t] = IF t = Main THEN "loadTail" ELSE pc[t]
                          /\ drain'[t] = IF t = Main THEN "test" ELSE drain[t]
    BY <2>1 DEF Inv, TypeOK
  <2>3. Roles'
    BY <2>1, <2>2 DEF Roles
  <2>4. Joined'
    BY <2>1, <2>2 DEF Joined, Done, Outside, DrainAt
  <2> QED BY <1>0, <2>3, <2>4
<1>5. CASE Main_Free
  BY <1>0, <1>5 DEF Main_Free, qvars, Roles, Joined, Done, Outside, DrainAt
<1>6. CASE UNCHANGED mvars
  BY <1>0, <1>6 DEF mvars, qvars, Roles, Joined, Done, Outside, DrainAt
<1> QED BY <1>1, <1>2, <1>3, <1>4, <1>5, <1>6 DEF MainNext, Main_Inside, Producer_Inside

LEMMA MainInvariant == MainSpec => []MainInv
  BY MainStart, MainStep, PTL DEF MainSpec

\* The program uses the queue as its specification allows.
THEOREM MainUsesQueue == MainSpec => Spec /\ ImplementsFifo
<1>1. MainSpec => Queue_Init /\ [][Next]_qvars
  BY MainInvariant, MainIsClient, PTL DEF MainSpec, MainInit
<1> QED BY <1>1, Refinement, PTL DEF Spec

------------------------------------------------------------------------------
(* How much of what: a sequence T of n numbers holds as many v's as there   *)
(* are threads whose first P[p] numbers include v, and at every point of it *)
(* no more v's than v - 1's.                                                *)

At(T, v, k) == {i \in 1..k : T[i] = v}
Linked(P, v) == {p \in Producer : v <= P[p]}
AllLinked(P) == {x \in Producer \X Value : x[2] <= P[x[1]]}

Balanced(T, n, P) ==
  /\ n = Cardinality(AllLinked(P))
  /\ \A v \in Value : Cardinality(At(T, v, n)) = Cardinality(Linked(P, v))
  /\ \A k \in 1..n, v \in Value :
       /\ Cardinality(At(T, v, k)) <= N
       /\ v > 1 => Cardinality(At(T, v, k)) <= Cardinality(At(T, v - 1, k))

LEMMA Finite ==
  /\ IsFiniteSet(Producer) /\ Cardinality(Producer) = N
  /\ IsFiniteSet(Value) /\ Cardinality(Value) = Items
  /\ \A T, v : \A k \in Nat : IsFiniteSet(At(T, v, k))
  /\ \A P : IsFiniteSet(AllLinked(P)) /\ \A v : IsFiniteSet(Linked(P, v))
<1>1. \A k \in Nat : IsFiniteSet(1..k) /\ Cardinality(1..k) = k
  <2> TAKE k \in Nat
  <2>1. \A a, b \in Int : /\ IsFiniteSet(a..b)
                          /\ Cardinality(a..b) = IF a > b THEN 0 ELSE b - a + 1
    BY FS_Interval
  <2>2. IsFiniteSet(1..k) /\ Cardinality(1..k) = IF 1 > k THEN 0 ELSE k - 1 + 1
    BY <2>1, 1 \in Int, k \in Int
  <2>3. (IF 1 > k THEN 0 ELSE k - 1 + 1) = k
    OBVIOUS
  <2> QED BY <2>2, <2>3
<1>2. /\ IsFiniteSet(Producer) /\ Cardinality(Producer) = N
      /\ IsFiniteSet(Value) /\ Cardinality(Value) = Items
  BY <1>1 DEF Producer
<1>3. ASSUME NEW T, NEW v, NEW k \in Nat PROVE IsFiniteSet(At(T, v, k))
  BY <1>1, FS_Subset DEF At
<1>4. ASSUME NEW P, NEW v PROVE IsFiniteSet(Linked(P, v)) /\ IsFiniteSet(AllLinked(P))
  <2>1. IsFiniteSet(Producer \X Value)
    BY <1>2, FS_Product
  <2> QED BY <1>2, <2>1, FS_Subset DEF Linked, AllLinked
<1> QED BY <1>2, <1>3, <1>4

LEMMA OneMore ==
  ASSUME NEW S, NEW x, IsFiniteSet(S)
  PROVE  /\ Cardinality(S) \in Nat
         /\ Cardinality(S \cup {x}) = IF x \in S THEN Cardinality(S) ELSE Cardinality(S) + 1
<1>1. Cardinality(S) \in Nat
  BY FS_CardinalityType
<1>2. Cardinality(S \cup {x}) = IF x \in S THEN Cardinality(S) ELSE Cardinality(S) + 1
  BY FS_AddElement
<1> QED BY <1>1, <1>2

LEMMA Grows ==
  ASSUME NEW n \in Nat, NEW T, NEW U, NEW P \in [Producer -> 0..Items], NEW Q,
         NEW p \in Producer, P[p] < Items, Q = [P EXCEPT ![p] = @ + 1],
         \A i \in 1..n : U[i] = T[i], U[n + 1] = P[p] + 1,
         Balanced(T, n, P)
  PROVE  Balanced(U, n + 1, Q)
<1> DEFINE w == P[p] + 1
<1>1. w \in Value /\ Q \in [Producer -> 0..Items]
  OBVIOUS
<1>2. n + 1 = Cardinality(AllLinked(Q))
  <2>1. AllLinked(Q) = AllLinked(P) \cup {<<p, w>>}
    BY <1>1 DEF AllLinked
  <2>2. <<p, w>> \notin AllLinked(P)
    BY DEF AllLinked
  <2>3. IsFiniteSet(AllLinked(P)) /\ n = Cardinality(AllLinked(P))
    BY Finite DEF Balanced
  <2>4. Cardinality(AllLinked(P) \cup {<<p, w>>}) = Cardinality(AllLinked(P)) + 1
    BY <2>2, <2>3, OneMore
  <2> QED BY <2>1, <2>3, <2>4
<1>3. ASSUME NEW v PROVE \A k \in 0..n : At(U, v, k) = At(T, v, k)
  BY DEF At
<1>4. ASSUME NEW v \in Value
      PROVE  Cardinality(At(U, v, n + 1)) = Cardinality(Linked(Q, v))
  <2>1. Cardinality(At(T, v, n)) = Cardinality(Linked(P, v))
    BY DEF Balanced
  <2>2. CASE v = w
    <3>1. At(U, v, n + 1) = At(T, v, n) \cup {n + 1} /\ n + 1 \notin At(T, v, n)
      BY <2>2 DEF At
    <3>2. Linked(Q, v) = Linked(P, v) \cup {p} /\ p \notin Linked(P, v)
      BY <2>2 DEF Linked
    <3>3. IsFiniteSet(At(T, v, n)) /\ IsFiniteSet(Linked(P, v))
      BY Finite
    <3>4. Cardinality(At(U, v, n + 1)) = Cardinality(At(T, v, n)) + 1
      BY <3>1, <3>3, OneMore
    <3>5. Cardinality(Linked(Q, v)) = Cardinality(Linked(P, v)) + 1
      BY <3>2, <3>3, OneMore
    <3> QED BY <2>1, <3>4, <3>5
  <2>3. CASE v # w
    <3>1. At(U, v, n + 1) = At(T, v, n)
      BY <2>3 DEF At
    <3>2. Linked(Q, v) = Linked(P, v)
      BY <2>3 DEF Linked
    <3> QED BY <2>1, <3>1, <3>2
  <2> QED BY <2>2, <2>3
<1>5. ASSUME NEW v \in Value
      PROVE  /\ Cardinality(At(U, v, n + 1)) <= N
             /\ v > 1 => Cardinality(At(U, v, n + 1)) <= Cardinality(At(U, v - 1, n + 1))
  <2>1. Cardinality(Linked(Q, v)) <= N
    BY Finite, FS_Subset DEF Linked
  <2>2. CASE v > 1
    <3>1. Linked(Q, v) \subseteq Linked(Q, v - 1) /\ v - 1 \in Value
      BY <1>1, <2>2 DEF Linked
    <3>2. Cardinality(Linked(Q, v)) <= Cardinality(Linked(Q, v - 1))
      BY <3>1, Finite, FS_Subset
    <3> QED BY <1>4, <2>1, <3>1, <3>2
  <2> QED BY <1>4, <2>1, <2>2
<1>6. ASSUME NEW k \in 1..(n + 1), NEW v \in Value
      PROVE  /\ Cardinality(At(U, v, k)) <= N
             /\ v > 1 => Cardinality(At(U, v, k)) <= Cardinality(At(U, v - 1, k))
  <2>1. CASE k = n + 1
    BY <1>5, <2>1
  <2>2. CASE k \in 1..n
    BY <1>3, <2>2 DEF Balanced
  <2> QED BY <2>1, <2>2
<1> QED BY <1>2, <1>4, <1>6 DEF Balanced

LEMMA Stays ==
  ASSUME NEW n \in Nat, NEW T, NEW U, NEW P,
         \A i \in 1..n : U[i] = T[i], Balanced(T, n, P)
  PROVE  Balanced(U, n, P)
<1>1. \A v : \A k \in 0..n : At(U, v, k) = At(T, v, k)
  BY DEF At
<1> QED BY <1>1 DEF Balanced

LEMMA Starts ==
  ASSUME NEW T
  PROVE  Balanced(T, 0, [p \in Producer |-> 0])
<1> DEFINE P == [p \in Producer |-> 0]
<1>1. AllLinked(P) = {} /\ \A v \in Value : At(T, v, 0) = {} /\ Linked(P, v) = {}
  BY DEF AllLinked, At, Linked
<1>2. \A k \in 1..0 : FALSE
  OBVIOUS
<1> QED BY <1>1, <1>2, FS_EmptySet DEF Balanced
------------------------------------------------------------------------------
(* What main knows while it empties the queue                               *)

Loads == {"loadTail", "reload", "loadNext"}

\* Only main dequeues, and only when the others are done: an answer that is
\* not 0 means that the dummy alone is left.
View ==
  /\ pc[Main] \in {"take", "advance", "free"} => drain[Main] = "dequeue"
  /\ pc[Main] \in Loads => drain[Main] = "test"
  /\ pc[Main] = "free" => rv[Main] = 0
  /\ pc[Main] \in {"loadTail", "loadNext"} => tmp[Main] = chain[1]
  /\ pc[Main] \in {"reload", "loadNext"} => Len(chain) = 1
  /\ DrainAt(Main, "test") /\ rv[Main] # 0 => Len(chain) = 1
  /\ Outside(Main) /\ place \in {"drain", "freed"} => Len(chain) = 1

\* A node that waits to be linked holds the number its thread is at.
Pending ==
  /\ \A p \in Producer : pc[p] = "link" => value[tmp[p]] = step[p] - 1
  /\ printed \in Seq(Value \cup {NoValue})

LEMMA ProducerIs ==
  ASSUME MainInv, NEW p \in Producer, QueueStep(p)
  PROVE  /\ Enqueue_Link(p) \/ Enqueue_Swing(p)
         /\ place \notin {"drain", "freed"}
<1>1. pc[p] \in {"idle", "link", "swing"} /\ drain[p] = "no"
  BY DEF MainInv, Roles
<1>2. Enqueue_Link(p) \/ Enqueue_Swing(p)
  BY <1>1 DEF QueueStep, DequeueStep, EmptyStep, DrainStep, EnqueueStep, Dequeue_Miss,
              Dequeue_Take, LoadHead, Dequeue_Advance, Dequeue_Free, Empty_Differ, Empty_Same,
              Empty_Reload, Empty_Next, Drain_Dequeue, Drain_Again, Drain_Return, DrainAt
<1>3. pc[p] # "idle"
  BY <1>2 DEF Enqueue_Link, LinkLast, Enqueue_Swing, SwingTo
<1> QED BY <1>2, <1>3 DEF MainInv, Joined, Done, Outside, DrainAt

LEMMA MainIs ==
  ASSUME MainInv, QueueStep(Main)
  PROVE  /\ DequeueStep(Main) \/ EmptyStep(Main) \/ DrainStep(Main)
         /\ place = "drain" /\ drain[Main] # "no"
<1>1. drain[Main] # "no"
  BY Threads, InQueueKeeps DEF MainInv, Roles
<1> QED BY <1>1 DEF MainInv, Roles, QueueStep, EnqueueStep, Enqueue_Link, LinkLast,
                    Enqueue_Swing, SwingTo

\* While main empties the queue q->tail does not lag.
LEMMA TailThere ==
  ASSUME MainInv, place \in {"drain", "freed"}
  PROVE  tail = chain[Len(chain)] /\ \A p \in Producer : Done(p) /\ pc[p] = "idle"
<1>1. \A p \in Producer : Done(p) /\ pc[p] = "idle"
  BY DEF MainInv, Joined, Done, Outside, DrainAt
<1>2. pc[Main] # "swing" /\ \A t \in Thread : pc[t] = "swing" <=> tailLock = t
  BY DEF MainInv, Roles, Inv, QueueInv, TailLags
<1>3. tailLock = NULL
  BY <1>1, <1>2, Threads DEF MainInv, Inv, TypeOK
<1> QED BY <1>1, <1>3 DEF MainInv, Inv, QueueInv, TailLags

LEMMA ViewStep == MainInv /\ View /\ [MainNext]_mvars => View'
<1> SUFFICES ASSUME MainInv, View, [MainNext]_mvars PROVE View'
  OBVIOUS
<1> USE DEF Outside, DrainAt
<1>0. MainInv' /\ Main \in Thread
  BY MainStep, Threads
<1>1. ASSUME place' \notin {"drain", "freed"} PROVE View'
  <2>1. pc'[Main] = "idle" /\ drain'[Main] = "no"
    BY <1>0, <1>1 DEF MainInv, Roles
  <2> QED BY <1>1, <2>1 DEF View, Loads
<1>2. CASE Main_Create \/ Main_Join
  BY <1>1, <1>2 DEF Main_Create, Main_Join, Turn
<1>3. ASSUME NEW p \in Producer, Producer_Enqueue(p) \/ Producer_Inside(p) PROVE View'
  <2>1. place' = place
    BY <1>3 DEF Producer_Enqueue, Producer_Inside
  <2>2. CASE Producer_Inside(p)
    BY <1>1, <2>1, <2>2, ProducerIs DEF Producer_Inside
  <2>3. CASE Producer_Enqueue(p)
    <3>1. ~Done(p)
      BY <2>3 DEF Producer_Enqueue, Done, MainInv, Roles
    <3> QED BY <1>1, <2>1, <3>1 DEF MainInv, Joined
  <2> QED BY <1>3, <2>2, <2>3
<1>4. CASE Main_Drain
  <2>1. /\ chain' = chain /\ place' = "drain" /\ pc'[Main] = "loadTail"
        /\ drain'[Main] = "test" /\ tmp'[Main] = head
    BY <1>0, <1>4 DEF Main_Drain, Drain_Call, DrainGoto, Load, Goto, list, MainInv, Inv, TypeOK
  <2> QED BY <2>1, OneOrMore DEF View, Loads, MainInv
<1>5. CASE Main_Free
  BY <1>5 DEF Main_Free, qvars, list, results, View, Loads
<1>6. CASE Main_Inside
  <2>1. /\ DequeueStep(Main) \/ EmptyStep(Main) \/ DrainStep(Main)
        /\ place = "drain" /\ place' = place /\ drain[Main] # "no"
        /\ tail = chain[Len(chain)] /\ Inv
    BY <1>6, MainIs, TailThere DEF Main_Inside, MainInv
  <2> USE <1>0 DEF Inv, TypeOK, View, Loads, Goto
  <2>2. CASE DequeueStep(Main)
    BY <2>1, <2>2 DEF DequeueStep, Dequeue_Miss, Dequeue_Take, LoadHead, Dequeue_Advance,
                      Dequeue_Free
  <2>3. CASE Empty_Differ(Main)
    BY <2>1, <2>3 DEF Empty_Differ, Answer
  <2>4. CASE Empty_Same(Main)
    BY <2>1, <2>4, OneOrMore DEF Empty_Same, list
  <2>5. CASE Empty_Reload(Main)
    BY <2>1, <2>5, OneOrMore DEF Empty_Reload, Load, list
  <2>6. CASE Empty_Next(Main)
    BY <2>1, <2>6 DEF Empty_Next, Answer, list
  <2>7. CASE Drain_Dequeue(Main) \/ Drain_Return(Main)
    BY <2>1, <2>7 DEF Drain_Dequeue, Drain_Return, DrainGoto, list
  <2>8. CASE Drain_Again(Main)
    BY <2>1, <2>8, OneOrMore DEF Drain_Again, DrainGoto, Load, list
  <2> QED BY <2>1, <2>2, <2>3, <2>4, <2>5, <2>6, <2>7, <2>8 DEF EmptyStep, DrainStep
<1>7. CASE UNCHANGED mvars
  BY <1>7 DEF mvars, qvars, list, results, View, Loads
<1> QED BY <1>2, <1>3, <1>4, <1>5, <1>6, <1>7 DEF MainNext

LEMMA PendingStep == MainInv /\ Pending /\ [MainNext]_mvars => Pending'
<1> SUFFICES ASSUME MainInv, Pending, [MainNext]_mvars PROVE Pending'
  OBVIOUS
<1>0. Inv /\ Main \in Thread \ Producer /\ Producer \subseteq Thread
  BY Threads DEF MainInv
<1>1. ASSUME UNCHANGED <<step, pc, tmp, value, printed>> PROVE Pending'
  BY <1>1 DEF Pending
<1>2. ASSUME NEW p \in Producer, Producer_Enqueue(p) PROVE Pending'
  <2> PICK n \in Node \ heap : /\ value' = [value EXCEPT ![n] = step[p]]
                               /\ tmp' = [tmp EXCEPT ![p] = n]
    BY <1>2 DEF Producer_Enqueue, Enqueue_Alloc
  <2>1. /\ step' = [step EXCEPT ![p] = @ + 1] /\ pc' = [pc EXCEPT ![p] = "link"]
        /\ printed' = printed
    BY <1>2 DEF Producer_Enqueue, Enqueue_Alloc, Goto
  <2>2. \A q \in Producer : pc[q] = "link" => tmp[q] # n
    BY <1>0 DEF Inv, QueueInv, PrivateNodes, Owned
  <2>3. step'[p] - 1 = value'[tmp'[p]]
    BY <1>0, <2>1 DEF Inv, TypeOK, MainInv, Roles
  <2>4. ASSUME NEW q \in Producer \ {p}, pc'[q] = "link" PROVE value'[tmp'[q]] = step'[q] - 1
    <3>1. pc[q] = "link" /\ tmp'[q] = tmp[q] /\ step'[q] = step[q]
      BY <1>0, <2>1, <2>4 DEF Inv, TypeOK, MainInv, Roles
    <3>2. tmp[q] \in Node /\ tmp[q] # n
      BY <1>0, <2>2, <3>1 DEF Inv, TypeOK, QueueInv, PrivateNodes, Owned
    <3>3. value'[tmp[q]] = value[tmp[q]]
      BY <1>0, <3>2 DEF Inv, TypeOK
    <3> QED BY <3>1, <3>3 DEF Pending
  <2> QED BY <2>1, <2>3, <2>4 DEF Pending
<1>3. ASSUME NEW p \in Producer, Producer_Inside(p) PROVE Pending'
  <2>1. Enqueue_Link(p) \/ Enqueue_Swing(p)
    BY <1>3, ProducerIs DEF Producer_Inside
  <2> QED BY <1>0, <1>3, <2>1
          DEF Producer_Inside, Enqueue_Link, LinkLast, Enqueue_Swing, SwingTo, Goto, Inv,
              TypeOK, Pending
<1>4. CASE Main_Create \/ Main_Join
  <2>1. \A p \in Producer : step'[p] = step[p]
    BY <1>0, <1>4 DEF Main_Create, Main_Join, Turn, MainInv, Roles
  <2>2. UNCHANGED <<pc, tmp, value, printed>>
    BY <1>4 DEF Main_Create, Main_Join, qvars, list
  <2> QED BY <2>1, <2>2 DEF Pending
<1>5. CASE Main_Drain
  BY <1>0, <1>5 DEF Main_Drain, Drain_Call, Load, Goto, list, Inv, TypeOK, Pending
<1>6. CASE Main_Inside
  <2>1. printed' \in Seq(Value \cup {NoValue}) /\ step' = step
    BY <1>0, <1>6 DEF Main_Inside, Inv, TypeOK, Pending
  <2>2. \A p \in Producer : pc'[p] = pc[p]
    BY <1>0, <1>6, InQueueKeeps DEF Main_Inside
  <2>3. \A p \in Producer : pc[p] = "link" => tmp'[p] = tmp[p] /\ value'[tmp[p]] = value[tmp[p]]
    <3>1. DequeueStep(Main) \/ EmptyStep(Main) \/ DrainStep(Main)
      BY <1>6, MainIs DEF Main_Inside
    <3> USE <1>0 DEF Inv, TypeOK
    <3>2. CASE Dequeue_Free(Main)
      BY <3>2 DEF Dequeue_Free, QueueInv, PrivateNodes, Owned
    <3>3. CASE DequeueStep(Main) /\ ~Dequeue_Free(Main)
      BY <3>3 DEF DequeueStep, Dequeue_Miss, Dequeue_Take, LoadHead, Dequeue_Advance, list
    <3>4. CASE EmptyStep(Main)
      BY <3>4 DEF EmptyStep, Empty_Differ, Empty_Same, Empty_Reload, Empty_Next, Answer, Load, list
    <3>5. CASE DrainStep(Main)
      BY <3>5 DEF DrainStep, Drain_Dequeue, Drain_Again, Drain_Return, Load, list
    <3> QED BY <3>1, <3>2, <3>3, <3>4, <3>5
  <2> QED BY <2>1, <2>2, <2>3 DEF Pending
<1>7. CASE Main_Free
  BY <1>1, <1>7 DEF Main_Free, qvars, list
<1>8. CASE UNCHANGED mvars
  BY <1>1, <1>8 DEF mvars, qvars, list
<1> QED BY <1>2, <1>3, <1>4, <1>5, <1>6, <1>7, <1>8 DEF MainNext

------------------------------------------------------------------------------
(* Everything that has been linked so far, in order: what main has printed, *)
(* the number it holds and is about to print, and what is in the queue.     *)

InHand ==
  IF /\ drain[Main] = "dequeue"
     /\ pc[Main] = "free" \/ (pc[Main] = "idle" /\ rv[Main] = 0)
    THEN 1 ELSE 0

Total == Len(printed) + InHand + Len(chain) - 1

Taken ==
  [i \in 1..Total |->
     IF i <= Len(printed) THEN printed[i]
     ELSE IF i <= Len(printed) + InHand THEN out[Main]
     ELSE value[chain[i - Len(printed) - InHand + 1]]]

\* how many numbers each thread has linked
Put == [p \in Producer |-> IF pc[p] = "link" THEN step[p] - 2 ELSE step[p] - 1]

Fed == Balanced(Taken, Total, Put)

\* The steps that link nothing.
Kept == Total' = Total /\ Put' = Put /\ \A i \in 1..Total : Taken'[i] = Taken[i]

LEMMA Sizes ==
  ASSUME Inv, Pending
  PROVE  /\ Len(printed) \in Nat /\ Len(chain) \in Nat /\ Len(chain) >= 1
         /\ InHand \in {0, 1} /\ Total \in Nat
<1>1. Len(printed) \in Nat /\ Len(chain) \in Nat /\ Len(chain) >= 1
  BY OneOrMore DEF Pending
<1>2. InHand \in {0, 1}
  BY DEF InHand
<1> QED BY <1>1, <1>2 DEF Total

LEMMA SameQueue ==
  ASSUME Inv, Pending, chain' = chain, printed' = printed, out'[Main] = out[Main],
         InHand' = InHand, \A i \in 1..Len(chain) : value'[chain[i]] = value[chain[i]]
  PROVE  Total' = Total /\ \A i \in 1..Total : Taken'[i] = Taken[i]
<1>1. Total' = Total
  BY DEF Total
<1>2. ASSUME NEW i \in 1..Total, ~(i <= Len(printed) + InHand)
      PROVE  i - Len(printed) - InHand + 1 \in 1..Len(chain)
  BY <1>2, Sizes DEF Total
<1> QED BY <1>1, <1>2, Sizes DEF Taken

\* Main takes the first number out of the queue.
LEMMA AdvanceKeeps ==
  ASSUME MainInv, View, Pending, Dequeue_Advance(Main), printed' = printed
  PROVE  Total' = Total /\ \A i \in 1..Total : Taken'[i] = Taken[i]
<1> USE Threads DEF MainInv, Inv, TypeOK, Dequeue_Advance, Goto
<1>1. /\ Len(chain) >= 2 /\ newHead[Main] = chain[2] /\ chain' = Tail(chain)
      /\ out'[Main] = value[chain[2]] /\ value' = value
  BY DEF QueueInv, HeadHeld
<1>2. /\ Len(chain') = Len(chain) - 1
      /\ \A i \in 1..(Len(chain) - 1) : chain'[i] = chain[i + 1]
  BY <1>1
<1>3. InHand = 0 /\ InHand' = 1
  BY DEF InHand, View
<1>4. Total' = Total
  <2>1. Len(printed) \in Nat /\ Len(chain) \in Nat
    BY Sizes
  <2>2. Total' = Len(printed) + 1 + (Len(chain) - 1) - 1
    BY ONLY <1>2, <1>3, printed' = printed DEF Total
  <2>3. Total = Len(printed) + 0 + Len(chain) - 1
    BY ONLY <1>3 DEF Total
  <2> QED BY ONLY <2>1, <2>2, <2>3
<1>5. ASSUME NEW i \in 1..Total, ~(i <= Len(printed) + 1)
      PROVE  chain'[i - Len(printed) - 1 + 1] = chain[i - Len(printed) - 0 + 1]
  <2>1. i - Len(printed) \in 1..(Len(chain) - 1)
    BY <1>3, <1>5, Sizes DEF Total
  <2>2. /\ i - Len(printed) - 1 + 1 = i - Len(printed)
        /\ i - Len(printed) - 0 + 1 = i - Len(printed) + 1
    BY Sizes
  <2> QED BY <1>2, <2>1, <2>2
<1>6. ASSUME NEW i \in 1..Total PROVE Taken'[i] = Taken[i]
  <2>1. CASE i <= Len(printed)
    BY <1>3, <1>4, <2>1, Sizes DEF Taken
  <2>2. CASE i = Len(printed) + 1
    <3>1. i - Len(printed) - 0 + 1 = 2 /\ ~(i <= Len(printed) + 0)
      BY <2>2, Sizes
    <3> QED BY <1>1, <1>3, <1>4, <2>2, <3>1, Sizes DEF Taken
  <2>3. CASE ~(i <= Len(printed) + 1)
    <3>1. Len(printed) \in Nat /\ i \in Int
      BY Sizes
    <3>2. ~(i <= Len(printed)) /\ ~(i <= Len(printed) + 0)
      BY ONLY <2>3, <3>1
    <3>3. Taken[i] = value[chain[i - Len(printed) - 0 + 1]]
      BY ONLY <1>3, <3>2, i \in 1..Total DEF Taken
    <3>4. Taken'[i] = value'[chain'[i - Len(printed) - 1 + 1]]
      BY ONLY <1>3, <1>4, <2>3, <3>2, i \in 1..Total, printed' = printed DEF Taken
    <3> QED BY <1>1, <1>5, <2>3, <3>3, <3>4
  <2>4. Len(printed) \in Nat /\ i \in Int
    BY Sizes
  <2> QED BY ONLY <2>1, <2>2, <2>3, <2>4
<1> QED BY <1>4, <1>6

\* Main prints the number it holds.
LEMMA PrintKeeps ==
  ASSUME MainInv, Pending, Drain_Again(Main), rv[Main] = 0,
         printed' = Append(printed, out[Main])
  PROVE  Total' = Total /\ \A i \in 1..Total : Taken'[i] = Taken[i]
<1> USE Threads DEF MainInv, Inv, TypeOK, Drain_Again, DrainAt, DrainGoto, Load, Goto, list, results
<1>1. InHand = 1 /\ InHand' = 0
  BY DEF InHand
<1>2. /\ Len(printed') = Len(printed) + 1 /\ printed'[Len(printed) + 1] = out[Main]
      /\ \A i \in 1..Len(printed) : printed'[i] = printed[i]
  BY DEF Pending
<1>3. Total' = Total
  BY <1>1, <1>2, Sizes DEF Total
<1>4. chain' = chain /\ value' = value
  OBVIOUS
<1>5. ASSUME NEW i \in 1..Total PROVE Taken'[i] = Taken[i]
  <2>1. CASE i <= Len(printed)
    BY <1>1, <1>2, <1>3, <2>1, Sizes DEF Taken
  <2>2. CASE i = Len(printed) + 1
    BY <1>1, <1>2, <1>3, <2>2, Sizes DEF Taken
  <2>3. CASE ~(i <= Len(printed) + 1)
    <3>1. i - Len(printed) - 1 + 1 = i - (Len(printed) + 1) - 0 + 1
      BY Sizes
    <3> QED BY <1>1, <1>2, <1>3, <1>4, <2>3, <3>1, Sizes DEF Taken
  <2>4. Len(printed) \in Nat /\ i \in Int
    BY Sizes
  <2> QED BY ONLY <2>1, <2>2, <2>3, <2>4
<1> QED BY <1>3, <1>5

LEMMA InsideKeeps ==
  ASSUME MainInv, View, Pending, Main_Inside
  PROVE  Total' = Total /\ \A i \in 1..Total : Taken'[i] = Taken[i]
<1> USE Threads DEF MainInv, Inv, TypeOK, Goto, DrainAt, DrainGoto, View, Loads, InHand
<1>1. DequeueStep(Main) \/ EmptyStep(Main) \/ DrainStep(Main)
  BY MainIs DEF Main_Inside
<1>2. CASE Dequeue_Advance(Main)
  <2>1. printed' = printed
    BY <1>2 DEF Main_Inside, Dequeue_Advance
  <2> QED BY <1>2, <2>1, AdvanceKeeps
<1>3. CASE Dequeue_Free(Main)
  <2>1. \A i \in 1..Len(chain) : value'[chain[i]] = value[chain[i]]
    BY <1>3 DEF Dequeue_Free, QueueInv, PrivateNodes, Owned, InChain
  <2>2. printed' = printed /\ chain' = chain /\ out' = out
    BY <1>3 DEF Main_Inside, Dequeue_Free, results
  <2>3. InHand' = InHand
    BY <1>3 DEF Dequeue_Free, results
  <2> QED BY <2>1, <2>2, <2>3, SameQueue
<1>4. CASE DequeueStep(Main) /\ ~Dequeue_Advance(Main) /\ ~Dequeue_Free(Main)
  <2>1. printed' = printed /\ UNCHANGED <<list, out>> /\ pc[Main] = "take"
    BY <1>4 DEF Main_Inside, DequeueStep, Dequeue_Miss, Dequeue_Take, LoadHead, results, list
  <2>2. InHand' = InHand
    BY <1>4 DEF DequeueStep, Dequeue_Miss, Dequeue_Take, LoadHead
  <2> QED BY <2>1, <2>2, SameQueue DEF list
<1>5. CASE EmptyStep(Main)
  <2>1. /\ printed' = printed /\ UNCHANGED <<list, out, drain>> /\ drain[Main] = "test"
    BY <1>5 DEF Main_Inside, EmptyStep, Empty_Differ, Empty_Same, Empty_Reload, Empty_Next,
                Answer, Load, results
  <2>2. InHand' = InHand
    BY <2>1
  <2> QED BY <2>1, <2>2, SameQueue DEF list
<1>6. CASE Drain_Dequeue(Main) \/ Drain_Return(Main)
  <2>1. /\ printed' = printed /\ UNCHANGED <<list, out>> /\ drain[Main] = "test"
    BY <1>6 DEF Main_Inside, Drain_Dequeue, Drain_Return, results
  <2>2. InHand' = InHand
    BY <1>6 DEF Drain_Dequeue, Drain_Return
  <2> QED BY <2>1, <2>2, SameQueue DEF list
<1>7. CASE Drain_Again(Main) /\ rv[Main] = 0
  <2>1. printed' = Append(printed, out[Main])
    BY <1>7 DEF Main_Inside, Drain_Again
  <2> QED BY <1>7, <2>1, PrintKeeps
<1>8. CASE Drain_Again(Main) /\ rv[Main] # 0
  <2>1. /\ printed' = printed /\ UNCHANGED <<list, out>>
    BY <1>8 DEF Main_Inside, Drain_Again, Load, results
  <2>2. InHand' = InHand
    BY <1>8 DEF Drain_Again, Load
  <2> QED BY <2>1, <2>2, SameQueue DEF list
<1> QED BY <1>1, <1>2, <1>3, <1>4, <1>5, <1>6, <1>7, <1>8 DEF DrainStep

LEMMA KeptStep ==
  ASSUME MainInv, View, Pending, [MainNext]_mvars,
         \A p \in Producer : ~(Producer_Inside(p) /\ Enqueue_Link(p))
  PROVE  Kept
<1>0. Inv /\ Main \in Thread \ Producer /\ Producer \subseteq Thread
  BY Threads DEF MainInv
<1>1. ASSUME UNCHANGED <<chain, value, printed, out>>, InHand' = InHand
      PROVE  Total' = Total /\ \A i \in 1..Total : Taken'[i] = Taken[i]
  BY <1>0, <1>1, SameQueue
<1>2. ASSUME NEW p \in Producer, Producer_Enqueue(p) PROVE Kept
  <2>1. /\ step' = [step EXCEPT ![p] = @ + 1] /\ pc' = [pc EXCEPT ![p] = "link"]
        /\ UNCHANGED <<printed, chain, out, rv, drain>> /\ pc[p] = "idle"
    BY <1>2 DEF Producer_Enqueue, Enqueue_Alloc, Goto, results
  <2>2. \A i \in 1..Len(chain) : value'[chain[i]] = value[chain[i]]
    BY <1>0, <1>2 DEF Producer_Enqueue, Enqueue_Alloc, Inv, TypeOK, QueueInv, ChainLinked
  <2>3. pc'[Main] = pc[Main]
    BY <1>0, <2>1 DEF Inv, TypeOK
  <2>4. InHand' = InHand
    BY <2>1, <2>3 DEF InHand
  <2>5. Put' = Put
    <3>1. \A q \in Producer \ {p} : pc'[q] = pc[q] /\ step'[q] = step[q]
      BY <1>0, <2>1 DEF Inv, TypeOK, MainInv, Roles
    <3>2. pc'[p] = "link" /\ step'[p] = step[p] + 1 /\ step[p] \in Int
      BY <1>0, <2>1 DEF Inv, TypeOK, MainInv, Roles
    <3>3. step'[p] - 2 = step[p] - 1 /\ pc[p] # "link"
      BY <2>1, <3>2
    <3> QED BY <3>1, <3>2, <3>3 DEF Put
  <2> QED BY <1>0, <2>1, <2>2, <2>4, <2>5, SameQueue DEF Kept
<1>3. ASSUME NEW p \in Producer, Producer_Inside(p) PROVE Kept
  <2>1. Enqueue_Swing(p) /\ UNCHANGED <<step, printed>>
    BY <1>3, ProducerIs DEF Producer_Inside
  <2>2. /\ UNCHANGED <<chain, value, out, rv, drain>>
        /\ pc[p] = "swing" /\ pc' = [pc EXCEPT ![p] = "idle"]
    BY <2>1 DEF Enqueue_Swing, SwingTo, Goto, results
  <2>3. pc'[Main] = pc[Main]
    BY <1>0, <2>2 DEF Inv, TypeOK
  <2>4. InHand' = InHand
    BY <2>2, <2>3 DEF InHand
  <2>5. Put' = Put
    BY <1>0, <2>1, <2>2 DEF Put, Inv, TypeOK
  <2> QED BY <1>1, <2>1, <2>2, <2>4, <2>5 DEF Kept
<1>4. CASE Main_Create \/ Main_Join \/ Main_Free \/ UNCHANGED mvars
  <2>1. UNCHANGED <<chain, value, printed, out, rv, pc, drain>>
    BY <1>4 DEF Main_Create, Main_Join, Main_Free, mvars, qvars, list, results
  <2>2. \A p \in Producer : step'[p] = step[p]
    BY <1>0, <1>4 DEF Main_Create, Main_Join, Main_Free, mvars, Turn, MainInv, Roles
  <2>3. InHand' = InHand /\ Put' = Put
    BY <2>1, <2>2 DEF InHand, Put
  <2> QED BY <1>1, <2>1, <2>3 DEF Kept
<1>5. CASE Main_Drain
  <2>1. /\ UNCHANGED <<chain, value, printed, out, step>>
        /\ pc' = [pc EXCEPT ![Main] = "loadTail"] /\ drain' = [drain EXCEPT ![Main] = "test"]
        /\ drain[Main] = "no"
    BY <1>5 DEF Main_Drain, Drain_Call, DrainAt, DrainGoto, Load, Goto, list, results
  <2>2. InHand' = InHand
    BY <1>0, <2>1 DEF InHand, Inv, TypeOK
  <2>3. Put' = Put
    BY <1>0, <2>1 DEF Put, Inv, TypeOK
  <2> QED BY <1>1, <2>1, <2>2, <2>3 DEF Kept
<1>6. CASE Main_Inside
  <2>1. Put' = Put
    BY <1>0, <1>6, InQueueKeeps DEF Put, Main_Inside
  <2> QED BY <1>6, <2>1, InsideKeeps DEF Kept
<1> QED BY <1>2, <1>3, <1>4, <1>5, <1>6 DEF MainNext

LEMMA LinkFeeds ==
  ASSUME MainInv, Pending, NEW p \in Producer, Producer_Inside(p), Enqueue_Link(p)
  PROVE  /\ Put \in [Producer -> 0..Items] /\ Put[p] < Items
         /\ Put' = [Put EXCEPT ![p] = @ + 1]
         /\ Total' = Total + 1 /\ Taken'[Total + 1] = Put[p] + 1
         /\ \A i \in 1..Total : Taken'[i] = Taken[i]
<1> DEFINE n == tmp[p]
<1>0. Inv /\ Main \in Thread \ Producer /\ Producer \subseteq Thread
  BY Threads DEF MainInv
<1>1. /\ chain' = Append(chain, n) /\ n \in Node /\ value[n] = step[p] - 1
      /\ pc[p] = "link" /\ pc' = [pc EXCEPT ![p] = "swing"]
      /\ UNCHANGED <<value, printed, out, rv, drain, step>>
  BY <1>0 DEF Enqueue_Link, LinkLast, Goto, results, Inv, TypeOK, QueueInv, PrivateNodes, Owned,
              Pending, Producer_Inside
<1>2. /\ Len(chain') = Len(chain) + 1 /\ chain'[Len(chain) + 1] = n
      /\ \A i \in 1..Len(chain) : chain'[i] = chain[i]
  BY <1>0, <1>1 DEF Inv, TypeOK
<1>3. InHand' = InHand
  BY <1>0, <1>1 DEF InHand, Inv, TypeOK
<1>4. /\ Put \in [Producer -> 0..Items] /\ Put[p] < Items /\ Put[p] = step[p] - 2
      /\ Put' = [Put EXCEPT ![p] = @ + 1]
  <2>1. \A q \in Producer : /\ step[q] \in 1..(Items + 1)
                            /\ pc[q] = "link" => step[q] > 1
                            /\ pc'[q] = IF q = p THEN "swing" ELSE pc[q]
    BY <1>0, <1>1 DEF MainInv, Roles, Inv, TypeOK
  <2>2. Put \in [Producer -> 0..Items]
    BY <2>1 DEF Put
  <2>3. Put[p] = step[p] - 2 /\ Put[p] < Items
    BY <1>1, <2>1 DEF Put
  <2>4. \A q \in Producer : Put'[q] = IF q = p THEN Put[q] + 1 ELSE Put[q]
    BY <1>1, <2>1 DEF Put
  <2>5. Put' = [q \in Producer |-> Put'[q]]
    BY DEF Put
  <2> QED BY <2>2, <2>3, <2>4, <2>5
<1>5. Total' = Total + 1
  BY <1>1, <1>2, <1>3, <1>0, Sizes DEF Total
<1>6. ASSUME NEW i \in 1..Total PROVE Taken'[i] = Taken[i]
  <2>1. CASE i <= Len(printed) + InHand
    BY <1>0, <1>1, <1>3, <1>5, <2>1, Sizes DEF Taken
  <2>2. CASE ~(i <= Len(printed) + InHand)
    <3>1. i - Len(printed) - InHand + 1 \in 1..Len(chain) /\ ~(i <= Len(printed))
      BY <1>0, <2>2, Sizes DEF Total
    <3> QED BY <1>0, <1>1, <1>2, <1>3, <1>5, <2>2, <3>1, Sizes DEF Taken
  <2> QED BY <2>1, <2>2
<1>7. Taken'[Total + 1] = value[n]
  <2>1. /\ Len(printed) \in Nat /\ Len(chain) \in Nat /\ Len(chain) >= 1
        /\ InHand \in {0, 1} /\ Total = Len(printed) + InHand + Len(chain) - 1
    BY <1>0, Sizes DEF Total
  <2>2. Taken' = [i \in 1..(Total + 1) |->
                    IF i <= Len(printed) THEN printed[i]
                    ELSE IF i <= Len(printed) + InHand THEN out'[Main]
                    ELSE value'[chain'[i - Len(printed) - InHand + 1]]]
    BY <1>1, <1>3, <1>5 DEF Taken
  <2>3. ASSUME NEW i, i = Total + 1 PROVE Taken'[i] = value[n]
    <3>1. /\ i \in 1..(Total + 1) /\ ~(i <= Len(printed)) /\ ~(i <= Len(printed) + InHand)
          /\ i - Len(printed) - InHand + 1 = Len(chain) + 1
      BY ONLY <2>1, <2>3
    <3>2. Taken'[i] = value'[chain'[i - Len(printed) - InHand + 1]]
      BY ONLY <2>2, <3>1
    <3> QED BY <1>1, <1>2, <3>1, <3>2
  <2> QED BY <2>3
<1>8. step[p] \in Int
  BY DEF MainInv, Roles
<1> QED BY <1>1, <1>4, <1>5, <1>6, <1>7, <1>8

LEMMA FedStep == MainInv /\ View /\ Pending /\ Fed /\ [MainNext]_mvars => Fed'
<1> SUFFICES ASSUME MainInv, View, Pending, Fed, [MainNext]_mvars PROVE Fed'
  OBVIOUS
<1>0. Total \in Nat
  BY Sizes DEF MainInv
<1>1. CASE \A p \in Producer : ~(Producer_Inside(p) /\ Enqueue_Link(p))
  <2>1. Kept
    BY <1>1, KeptStep
  <2>2. Balanced(Taken', Total, Put)
    BY <1>0, <2>1, Stays DEF Kept, Fed
  <2> QED BY <2>1, <2>2 DEF Kept, Fed
<1>2. ASSUME NEW p \in Producer, Producer_Inside(p), Enqueue_Link(p) PROVE Fed'
  <2>1. Balanced(Taken', Total + 1, Put')
    BY <1>0, <1>2, LinkFeeds, Grows DEF Fed
  <2> QED BY <1>2, <2>1, LinkFeeds DEF Fed
<1> QED BY <1>1, <1>2

FeedInv == MainInv /\ View /\ Pending /\ Fed

LEMMA FeedStart == MainInit => FeedInv
<1> SUFFICES ASSUME MainInit PROVE FeedInv
  OBVIOUS
<1> USE Threads DEF MainInit, Queue_Init
<1>1. MainInv
  BY MainStart
<1>2. View /\ Pending
  BY DEF View, Loads, Pending, DrainAt, Outside
<1>3. Total = 0
  <2>1. Len(printed) = 0 /\ Len(chain) = 1 /\ InHand = 0
    BY DEF InHand
  <2> QED BY ONLY <2>1 DEF Total
<1>4. Put = [p \in Producer |-> 0]
  BY DEF Put
<1> QED BY <1>1, <1>2, <1>3, <1>4, Starts DEF FeedInv, Fed

LEMMA FeedInvariant == MainSpec => []FeedInv
<1>1. FeedInv /\ [MainNext]_mvars => FeedInv'
  BY MainStep, ViewStep, PendingStep, FedStep DEF FeedInv
<1> QED BY <1>1, FeedStart, PTL DEF MainSpec

\* For any number of threads and of numbers: PrintedInOrder.
THEOREM InOrder == MainSpec => []PrintedInOrder
<1>1. FeedInv => PrintedInOrder
  <2> SUFFICES ASSUME FeedInv, NEW k \in 1..Len(printed), NEW v \in Value
               PROVE  /\ Copies(v, k) <= N
                      /\ v > 1 => Copies(v, k) <= Copies(v - 1, k)
    BY DEF PrintedInOrder
  <2>1. k \in 1..Total /\ \A i \in 1..k : i \in 1..Total /\ Taken[i] = printed[i]
    BY Sizes DEF FeedInv, MainInv, Total, Taken
  <2>2. \A w : Copies(w, k) = Cardinality(At(Taken, w, k))
    BY <2>1 DEF Copies, At
  <2> QED BY <2>1, <2>2 DEF FeedInv, Fed, Balanced
<1> QED BY <1>1, FeedInvariant, PTL

\* For any number of threads and of numbers: AllPrintedAtFree.
THEOREM NothingLeft == MainSpec => []AllPrintedAtFree
<1>1. FeedInv /\ NoLeak => AllPrintedAtFree
  <2> SUFFICES ASSUME FeedInv, NoLeak, place = "freed" PROVE AllPrintedAtFree
    BY DEF AllPrintedAtFree
  <2> USE Threads DEF FeedInv
  <2>1. /\ \A p \in Producer : Done(p) /\ pc[p] = "idle"
        /\ pc[Main] = "idle" /\ drain[Main] = "no"
    BY TailThere DEF MainInv, Roles
  <2>2. Len(chain) = 1 /\ chain[1] = head /\ head \in heap
    BY <2>1, OneOrMore DEF View, Outside, DrainAt, MainInv, Inv, QueueInv, ChainLinked
  <2>3. \A t \in Thread : Outside(t) /\ ~Owned(t)
    BY <2>1 DEF Done, Outside, DrainAt, Owned
  <2>4. heap = {head}
    BY <2>2, <2>3 DEF NoLeak, InChain
  <2>5. Len(printed) = Total
    <3>1. InHand = 0 /\ Len(printed) \in Nat
      BY <2>1, Sizes DEF InHand, MainInv
    <3> QED BY ONLY <2>2, <3>1 DEF Total
  <2>6. Total = N * Items
    <3>1. \A p \in Producer : Put[p] = Items
      BY <2>1 DEF Put, Done
    <3>2. AllLinked(Put) = Producer \X Value
      BY <3>1 DEF AllLinked
    <3>3. Cardinality(Producer \X Value) = Cardinality(Producer) * Cardinality(Value)
      BY Finite, FS_Product
    <3> QED BY <3>2, <3>3, Finite DEF Fed, Balanced
  <2> QED BY <2>3, <2>4, <2>5, <2>6 DEF AllPrintedAtFree
<1> QED BY <1>1, FeedInvariant, MainUsesQueue, LeakSafety, PTL
==============================================================================
