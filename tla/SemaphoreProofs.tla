--------------------------- MODULE SemaphoreProofs ---------------------------
(***************************************************************************)
(* Proofs about the barrier and the readers-writers lock of chapter 31,    *)
(* for any number of threads.                                              *)
(***************************************************************************)
EXTENDS Barrier, RWLock, FiniteSetTheorems, TLAPS

------------------------------------------------------------------------------
(***************************************************************************)
(* The barrier of question 3 holds back every child, for any number of     *)
(* children.  The count is the number of children that have arrived, since *)
(* b->mutex serialises its increments; hence a count of N, the only thing  *)
(* that opens the barrier, means that all of them have printed "before".   *)
(***************************************************************************)

USE NAssumption

\* A child has been counted or not, and the mutex is what its holder left.
CountMutex ==
  /\ \A c, d \in Child : pc[c] = "unlock" /\ pc[d] = "unlock" => c = d
  /\ mutex = 1 <=> \A c \in Child : pc[c] # "unlock"

ArrivedInv == count = Cardinality(Arrived)

PassInv == \A c \in Child : pc[c] \in {"post", "leave", "done"} => count = N

PrintInv ==
  /\ before = {c \in Child : pc[c] \notin {"new", "start"}}
  /\ after = {c \in Child : pc[c] = "done"}

\* Main creates the children in order, before it joins any.
TurnInv == \A c \in Child : pc[c] = "new" <=> turn < c

BarrierInv == BarrierTypeOK /\ TurnInv /\ CountMutex /\ ArrivedInv /\ PassInv /\ PrintInv

LEMMA ChildFinite == IsFiniteSet(Child) /\ Cardinality(Child) = N
  BY FS_Interval DEF Child

LEMMA ArrivedFinite ==
  /\ IsFiniteSet(Arrived) /\ Cardinality(Arrived) \in 0..N
  /\ (Cardinality(Arrived) = N => Arrived = Child)
<1>1. Arrived \subseteq Child
  BY DEF Arrived
<1>2. /\ IsFiniteSet(Arrived) /\ Cardinality(Arrived) <= Cardinality(Child)
      /\ Cardinality(Arrived) = Cardinality(Child) => Arrived = Child
  BY <1>1, ChildFinite, FS_Subset
<1> QED  BY <1>2, ChildFinite, FS_CardinalityType

LEMMA BarrierStart == BarrierInit => BarrierInv
<1> SUFFICES ASSUME BarrierInit PROVE BarrierInv
  OBVIOUS
<1>1. BarrierTypeOK /\ TurnInv /\ CountMutex /\ PassInv /\ PrintInv
  BY DEF BarrierInit, BarrierTypeOK, Labels, TurnInv, CountMutex, PassInv, PrintInv, Child
<1>2. Arrived = {}
  BY DEF BarrierInit, Arrived
<1> QED  BY <1>1, <1>2, FS_EmptySet DEF BarrierInit, BarrierInv, ArrivedInv

\* A step that counts nobody: every arrived child remains arrived.
LEMMA SameCount ==
  ASSUME BarrierInv, count' = count, Arrived' = Arrived
  PROVE  ArrivedInv'
  BY DEF BarrierInv, ArrivedInv

LEMMA MainKeeps == BarrierInv /\ MainStep => BarrierInv'
<1> SUFFICES ASSUME BarrierInv, NEW c \in Child, Create(c) \/ Join(c) PROVE BarrierInv'
  BY DEF MainStep
<1> USE DEF BarrierInv, Goto, SemWait, SemPost, sems, prints
<1>1. CASE Create(c)
  <2> USE <1>1 DEF Create
  <2>1. pc[c] = "new"
    BY DEF BarrierTypeOK, TurnInv, Child
  <2>2. Arrived' = Arrived
    BY <2>1 DEF BarrierTypeOK, Arrived
  <2>3. BarrierTypeOK' /\ TurnInv'
    BY DEF BarrierTypeOK, TurnInv, Labels, Child
  <2> QED  BY <2>1, <2>2, <2>3, SameCount DEF BarrierTypeOK, CountMutex, PassInv, PrintInv
<1>2. CASE Join(c)
  <2> USE <1>2 DEF Join
  <2>1. Arrived' = Arrived
    BY DEF Arrived
  <2>2. BarrierTypeOK' /\ TurnInv'
    BY DEF BarrierTypeOK, TurnInv, Child
  <2> QED  BY <2>1, <2>2, SameCount DEF CountMutex, PassInv, PrintInv
<1> QED  BY <1>1, <1>2

LEMMA EnterKeeps ==
  ASSUME BarrierInv, NEW c \in Child, Enter(c)
  PROVE  BarrierInv'
<1> USE DEF BarrierInv, Enter, Arrive, Goto, SemWait, SemPost
<1>1. Arrived' = Arrived \cup {c} /\ c \notin Arrived
  BY DEF BarrierTypeOK, Arrived
<1>2. ArrivedInv'
  BY <1>1, ArrivedFinite, FS_AddElement DEF ArrivedInv
<1>3. count < N
  <2>1. Arrived # Child
    BY <1>1
  <2> QED  BY <2>1, ArrivedFinite DEF ArrivedInv, BarrierTypeOK
<1>4. BarrierTypeOK'
  BY <1>3 DEF BarrierTypeOK, Labels, prints
<1>5. CountMutex'
  BY DEF BarrierTypeOK, CountMutex
<1>6. PassInv'
  BY <1>3 DEF BarrierTypeOK, PassInv
<1>7. PrintInv'
  BY DEF BarrierTypeOK, PrintInv, prints
<1>8. TurnInv'
  BY DEF BarrierTypeOK, TurnInv
<1> QED  BY <1>2, <1>4, <1>5, <1>6, <1>7, <1>8

LEMMA ChildKeeps ==
  ASSUME BarrierInv, NEW c \in Child, ChildStep(c)
  PROVE  BarrierInv'
<1> USE DEF BarrierInv, Goto, SemWait, SemPost, sems, prints
<1>1. CASE PrintBefore(c)
  <2> USE <1>1 DEF PrintBefore
  <2>1. Arrived' = Arrived
    BY DEF BarrierTypeOK, Arrived
  <2> QED  BY <2>1, SameCount
         DEF BarrierTypeOK, Labels, TurnInv, CountMutex, PassInv, PrintInv
<1>2. CASE Enter(c)
  BY <1>2, EnterKeeps
<1>3. CASE Unlock(c)
  <2> USE <1>3 DEF Unlock
  <2>1. Arrived' = Arrived
    BY DEF BarrierTypeOK, Arrived
  <2>2. mutex = 0
    BY DEF BarrierTypeOK, CountMutex
  <2> QED  BY <2>1, <2>2, SameCount
         DEF BarrierTypeOK, Labels, TurnInv, CountMutex, PassInv, PrintInv
<1>4. CASE Test(c)
  <2> USE <1>4 DEF Test
  <2>1. Arrived' = Arrived
    BY DEF BarrierTypeOK, Arrived
  <2> QED  BY <2>1, SameCount
         DEF BarrierTypeOK, Labels, TurnInv, CountMutex, PassInv, PrintInv
<1>5. CASE Wait(c)
  <2> USE <1>5 DEF Wait
  <2>1. Arrived' = Arrived
    BY DEF BarrierTypeOK, Arrived
  <2> QED  BY <2>1, SameCount
         DEF BarrierTypeOK, Labels, TurnInv, CountMutex, PassInv, PrintInv
<1>6. CASE Post(c)
  <2> USE <1>6 DEF Post
  <2>1. Arrived' = Arrived
    BY DEF BarrierTypeOK, Arrived
  <2> QED  BY <2>1, SameCount
         DEF BarrierTypeOK, Labels, TurnInv, CountMutex, PassInv, PrintInv
<1>7. CASE PrintAfter(c)
  <2> USE <1>7 DEF PrintAfter
  <2>1. Arrived' = Arrived
    BY DEF BarrierTypeOK, Arrived
  <2> QED  BY <2>1, SameCount
         DEF BarrierTypeOK, Labels, TurnInv, CountMutex, PassInv, PrintInv
<1> QED  BY <1>1, <1>2, <1>3, <1>4, <1>5, <1>6, <1>7 DEF ChildStep

LEMMA BarrierStep == BarrierInv /\ [BarrierNext]_bvars => BarrierInv'
<1> SUFFICES ASSUME BarrierInv, [BarrierNext]_bvars PROVE BarrierInv'
  OBVIOUS
<1>1. CASE UNCHANGED bvars
  BY <1>1 DEF bvars, sems, prints, BarrierInv, BarrierTypeOK, TurnInv, CountMutex,
              ArrivedInv, Arrived, PassInv, PrintInv
<1>2. CASE MainStep
  BY <1>2, MainKeeps
<1>3. CASE \E c \in Child : ChildStep(c)
  BY <1>3, ChildKeeps
<1> QED  BY <1>1, <1>2, <1>3 DEF BarrierNext

\* The semaphore b->mutex stays binary and the count stays within 0..N.
THEOREM BarrierTypeSafety == BarrierSpec => []BarrierTypeOK
<1>1. BarrierSpec => []BarrierInv
  BY BarrierStart, BarrierStep, PTL DEF BarrierSpec
<1> QED  BY <1>1, PTL DEF BarrierInv

\* No wakeup is lost at the barrier.
THEOREM WakeupSafety == BarrierSpec => []NoLostWakeup
<1>1. BarrierInit => NoLostWakeup
  BY DEF BarrierInit, NoLostWakeup
<1>2. BarrierInv /\ NoLostWakeup /\ [BarrierNext]_bvars => NoLostWakeup'
  <2> SUFFICES ASSUME BarrierInv, NoLostWakeup, [BarrierNext]_bvars,
                      count' = N, NEW w \in Child, pc'[w] = "wait",
                      \A d \in Child : pc'[d] \notin {"unlock", "test", "post"}
               PROVE  barrier' > 0
    BY DEF NoLostWakeup
  <2> USE DEF BarrierInv, BarrierTypeOK, Goto, SemWait, SemPost, sems, prints
  <2>1. CASE UNCHANGED bvars
    BY <2>1 DEF NoLostWakeup, bvars
  <2>2. CASE MainStep
    BY <2>2 DEF NoLostWakeup, MainStep, Create, Join, TurnInv, Child
  <2>3. ASSUME NEW c \in Child, ChildStep(c)
        PROVE  barrier' > 0
    <3>1. CASE PrintBefore(c) \/ PrintAfter(c)
      BY <3>1 DEF PrintBefore, PrintAfter, NoLostWakeup
    <3>2. CASE Enter(c) \/ Unlock(c) \/ Wait(c)
      BY <3>2 DEF Enter, Arrive, Unlock, Wait
    <3>3. CASE Test(c)
      BY <3>3 DEF Test
    <3>4. CASE Post(c)
      BY <3>4 DEF Post
    <3> QED  BY <2>3, <3>1, <3>2, <3>3, <3>4 DEF ChildStep
  <2> QED  BY <2>1, <2>2, <2>3 DEF BarrierNext
<1> QED  BY <1>1, <1>2, BarrierStart, BarrierStep, PTL DEF BarrierSpec

\* A child that is through the barrier has seen every child arrive, so each
\* child prints "before" before any child prints "after".
THEOREM BarrierRefinement == BarrierSpec => ImplementsBeforeAfter
<1>1. BarrierInit => BA!Init
  BY DEF BarrierInit, BA!Init
<1>2. BarrierInv /\ [BarrierNext]_bvars => [BA!Next]_(BA!vars)
  <2> SUFFICES ASSUME BarrierInv, [BarrierNext]_bvars PROVE [BA!Next]_(BA!vars)
    OBVIOUS
  <2> USE DEF BarrierInv, BA!vars, prints
  <2>1. CASE UNCHANGED bvars \/ MainStep
    BY <2>1 DEF bvars, MainStep, Create, Join
  <2>2. ASSUME NEW c \in Child, ChildStep(c)
        PROVE  [BA!Next]_(BA!vars)
    <3>1. CASE PrintBefore(c)
      BY <3>1 DEF PrintBefore, PrintInv, BA!Next, BA!Before
    <3>2. CASE PrintAfter(c)
      <4> USE <3>2 DEF PrintAfter
      <4>1. count = N
        BY DEF PassInv
      <4>2. Arrived = Child
        BY <4>1, ArrivedFinite DEF ArrivedInv
      <4>3. before = Child
        BY <4>2 DEF PrintInv, Arrived
      <4>4. c \notin after
        BY DEF PrintInv
      <4> QED  BY <4>3, <4>4 DEF BA!Next, BA!After
    <3>3. CASE Enter(c) \/ Unlock(c) \/ Test(c) \/ Wait(c) \/ Post(c)
      BY <3>3 DEF Enter, Arrive, Unlock, Test, Wait, Post
    <3> QED  BY <2>2, <3>1, <3>2, <3>3 DEF ChildStep
  <2> QED  BY <2>1, <2>2 DEF BarrierNext
<1> QED  BY <1>1, <1>2, BarrierStart, BarrierStep, PTL
       DEF BarrierSpec, ImplementsBeforeAfter, BA!Spec

------------------------------------------------------------------------------
(***************************************************************************)
(* The readers-writers lock of question 4 is correct for any number of     *)
(* readers, writers and rounds.  The readers counted by rw->readers hold   *)
(* roomEmpty as a group, from the moment the first of them takes it to the *)
(* moment the last one gives it back; the mutex makes these two moments    *)
(* the only ones at which the count and the semaphore disagree.            *)
(***************************************************************************)

USE LockAssumption

\* The readers that rw->readers counts.
Counted == {r \in Reader : pc[r] \in {"room", "in", "read", "leave"}}

\* The labels at which a reader holds rw->mutex.
Locked == {"room", "in", "vacate", "out"}

\* The readers that hold roomEmpty, as a group.
Group == {r \in Reader : pc[r] \in {"in", "read", "leave", "vacate"}}

ReadersMutex ==
  /\ \A r, q \in Reader : pc[r] \in Locked /\ pc[q] \in Locked => r = q
  /\ mutex = 1 <=> \A r \in Reader : pc[r] \notin Locked

ReadersInv ==
  /\ readers = Cardinality(Counted)
  /\ \A r \in Reader : pc[r] = "room" => Counted = {r}
  /\ \A r \in Reader : pc[r] = "vacate" => Counted = {}

RoomInv ==
  /\ roomEmpty = 1 <=> Writing = {} /\ Group = {}
  /\ \A w \in Writing : Group = {} /\ Writing = {w}

LockInv == LockTypeOK /\ ReadersMutex /\ ReadersInv /\ RoomInv

LEMMA CountedFinite == IsFiniteSet(Counted) /\ Cardinality(Counted) \in Nat
<1>1. Counted \subseteq Reader
  BY DEF Counted
<1> QED  BY <1>1, FS_Subset, FS_CardinalityType

LEMMA CountedEmpty == Cardinality(Counted) = 0 <=> Counted = {}
  BY CountedFinite, FS_EmptySet

LEMMA LockStart == LockInit => LockInv
<1> SUFFICES ASSUME LockInit PROVE LockInv
  OBVIOUS
<1>1. LockTypeOK /\ ReadersMutex
  <2>1. /\ \A r \in Reader : pc[r] = "idle"
        /\ \A w \in Writer : pc[w] = "idle"
    BY DEF LockInit, Thread
  <2>2. pc \in [Thread -> ReaderLabels \cup WriterLabels]
    BY DEF LockInit, ReaderLabels
  <2>3. rounds \in [Thread -> 0..Loops] /\ reg \in [Thread -> Nat]
    BY DEF LockInit
  <2>4. readers \in Nat /\ mutex \in 0..1 /\ roomEmpty \in 0..1 /\ value \in Nat
    BY DEF LockInit
  <2>5. ended \in BOOLEAN
    BY Zenon DEF LockInit
  <2>6. /\ \A r \in Reader : pc[r] \in ReaderLabels
        /\ \A w \in Writer : pc[w] \in WriterLabels
    BY <2>1 DEF ReaderLabels, WriterLabels
  <2>7. LockTypeOK
    BY <2>2, <2>3, <2>4, <2>5, <2>6, Zenon DEF LockTypeOK
  <2>8. ReadersMutex
    BY <2>1 DEF LockInit, ReadersMutex, Locked
  <2> QED  BY <2>7, <2>8
<1>2. Counted = {} /\ Group = {} /\ Writing = {}
  BY DEF LockInit, Counted, Group, Writing, Thread
<1>3. ReadersInv /\ RoomInv
  BY <1>2, FS_EmptySet DEF LockInit, ReadersInv, RoomInv, Thread
<1> QED  BY <1>1, <1>3 DEF LockInv

------------------------------------------------------------------------------
(* The reader's steps                                                       *)

LEMMA AcquireReadInv ==
  ASSUME LockInv, NEW r \in Reader, AcquireRead(r)
  PROVE  LockInv'
<1> USE DEF LockInv, AcquireRead, ReaderIn, Round, Goto, SemWait, SemPost
<1>1. r \in Thread /\ \A q \in Reader : q \in Thread
  BY DEF Thread
<1>2. mutex = 1 /\ \A q \in Reader : pc[q] \notin Locked
  BY DEF LockTypeOK, ReadersMutex
<1>3. Counted' = Counted \cup {r} /\ r \notin Counted
  BY <1>1 DEF LockTypeOK, Counted
<1>4. readers' = Cardinality(Counted')
  BY <1>3, CountedFinite, FS_AddElement DEF ReadersInv
<1>5. LockTypeOK'
  BY <1>1, <1>2 DEF LockTypeOK, data, ReaderLabels, WriterLabels, Thread
<1>6. Writing' = Writing
  BY <1>1 DEF LockTypeOK, Writing, Thread
<1>7. ReadersMutex'
  BY <1>1, <1>2 DEF LockTypeOK, ReadersMutex, Locked
<1>8. CASE readers' = 1
  <2>1. Counted = {} /\ Counted' = {r}
    BY <1>3, <1>8, CountedEmpty, CountedFinite DEF ReadersInv
  <2>2. Group' = Group
    BY <1>1, <1>8, <2>1 DEF LockTypeOK, Group
  <2>3. ReadersInv'
    BY <1>1, <1>2, <1>4, <2>1, <1>8 DEF LockTypeOK, ReadersInv, Locked
  <2> QED  BY <1>5, <1>6, <1>7, <2>2, <2>3 DEF RoomInv
<1>9. CASE readers' # 1
  <2>1. PICK q \in Counted : TRUE
    BY <1>9, CountedEmpty DEF ReadersInv
  <2>2. q \in Group /\ q \in Reader
    BY <1>2, <2>1 DEF Counted, Group, Locked
  <2>3. Group' = Group \cup {r}
    BY <1>1, <1>9 DEF LockTypeOK, Group
  <2>4. ReadersInv'
    BY <1>1, <1>2, <1>4, <1>9 DEF LockTypeOK, ReadersInv, Locked
  <2> QED  BY <1>5, <1>6, <1>7, <2>2, <2>3, <2>4 DEF RoomInv
<1> QED  BY <1>8, <1>9

LEMMA TakeRoomInv ==
  ASSUME LockInv, NEW r \in Reader, TakeRoom(r)
  PROVE  LockInv'
<1> USE DEF LockInv, TakeRoom, Goto, SemWait, SemPost
<1>1. r \in Thread /\ \A q \in Reader : q \in Thread
  BY DEF Thread
<1>2. Counted' = Counted /\ Group' = Group \cup {r} /\ Writing' = Writing
  BY <1>1 DEF LockTypeOK, Counted, Group, Writing, Thread
<1>3. roomEmpty = 1 /\ roomEmpty' = 0
  BY DEF LockTypeOK
<1>4. LockTypeOK' /\ ReadersMutex'
  BY <1>1 DEF LockTypeOK, ReadersMutex, Locked, data, ReaderLabels, WriterLabels, Thread
<1>5. ReadersInv'
  BY <1>1, <1>2 DEF LockTypeOK, ReadersInv, ReadersMutex, Locked
<1>6. RoomInv'
  BY <1>2, <1>3 DEF RoomInv
<1> QED  BY <1>4, <1>5, <1>6

LEMMA ReleaseReadInv ==
  ASSUME LockInv, NEW r \in Reader, ReleaseRead(r)
  PROVE  LockInv'
<1> USE DEF LockInv, ReleaseRead, Goto, SemWait, SemPost
<1>1. r \in Thread /\ \A q \in Reader : q \in Thread
  BY DEF Thread
<1>2. mutex = 1 /\ \A q \in Reader : pc[q] \notin Locked
  BY DEF LockTypeOK, ReadersMutex
<1>3. Counted' = Counted \ {r} /\ r \in Counted
  BY <1>1 DEF LockTypeOK, Counted
<1>4. readers' = Cardinality(Counted') /\ readers' \in Nat
  <2>1. /\ IsFiniteSet(Counted \ {r})
        /\ Cardinality(Counted \ {r}) = Cardinality(Counted) - 1
    BY <1>3, CountedFinite, FS_RemoveElement
  <2>2. readers' = Cardinality(Counted \ {r})
    BY <2>1 DEF ReadersInv
  <2> QED  BY <1>3, <2>1, <2>2, FS_CardinalityType
<1>5. LockTypeOK'
  BY <1>1, <1>2, <1>4 DEF LockTypeOK, data, ReaderLabels, WriterLabels, Thread
<1>6. Writing' = Writing
  BY <1>1 DEF LockTypeOK, Writing, Thread
<1>7. ReadersMutex'
  BY <1>1, <1>2 DEF LockTypeOK, ReadersMutex, Locked
<1>8. r \in Group
  BY DEF Group
<1>9. Counted' = {} <=> readers' = 0
  BY <1>3, <1>4, CountedFinite, FS_RemoveElement, FS_EmptySet
<1>10. ReadersInv'
  BY <1>1, <1>2, <1>4, <1>9 DEF LockTypeOK, ReadersInv, Locked
<1>11. Group' # {}
  <2>1. CASE readers' = 0
    BY <1>1, <2>1 DEF LockTypeOK, Group
  <2>2. CASE readers' # 0
    <3>1. PICK q \in Counted' : TRUE
      BY <1>9, <2>2
    <3>2. q \in Reader /\ q # r /\ pc[q] \in {"read", "leave"}
      BY <1>2, <1>3, <3>1 DEF Counted, Locked
    <3> QED  BY <1>1, <3>2 DEF LockTypeOK, Group
  <2> QED  BY <2>1, <2>2
<1> QED  BY <1>5, <1>6, <1>7, <1>8, <1>10, <1>11 DEF RoomInv

LEMMA VacateInv ==
  ASSUME LockInv, NEW r \in Reader, Vacate(r)
  PROVE  LockInv'
<1> USE DEF LockInv, Vacate, Goto, SemWait, SemPost
<1>1. r \in Thread /\ \A q \in Reader : q \in Thread
  BY DEF Thread
<1>2. Counted = {} /\ Counted' = Counted
  BY <1>1 DEF LockTypeOK, Counted, ReadersInv
<1>3. r \in Group /\ Group' = {}
  BY <1>1, <1>2 DEF LockTypeOK, Group, Counted, ReadersMutex, Locked
<1>4. Writing = {} /\ Writing' = {}
  BY <1>1, <1>3 DEF LockTypeOK, Writing, RoomInv, Thread
<1>5. roomEmpty = 0
  BY <1>3 DEF LockTypeOK, RoomInv
<1>6. LockTypeOK' /\ ReadersMutex'
  BY <1>1, <1>5 DEF LockTypeOK, ReadersMutex, Locked, data, ReaderLabels, WriterLabels, Thread
<1>7. ReadersInv'
  BY <1>1, <1>2 DEF LockTypeOK, ReadersInv
<1>8. RoomInv'
  BY <1>3, <1>4, <1>5 DEF RoomInv
<1> QED  BY <1>6, <1>7, <1>8

\* Sem_post(&rw->mutex) at the end of either function, and the read itself
LEMMA QuietReadInv ==
  ASSUME LockInv, NEW r \in Reader, EndAcquireRead(r) \/ Read(r) \/ EndReleaseRead(r)
  PROVE  LockInv'
<1> USE DEF LockInv, EndAcquireRead, Read, EndReleaseRead, Goto, SemWait, SemPost
<1>1. r \in Thread /\ \A q \in Reader : q \in Thread
  BY DEF Thread
<1>2. Counted' = Counted /\ Group' = Group /\ Writing' = Writing
  BY <1>1 DEF LockTypeOK, Counted, Group, Writing, Thread
<1>3. pc[r] \in Locked => mutex = 0
  BY DEF LockTypeOK, ReadersMutex
<1>4. LockTypeOK' /\ ReadersMutex'
  <2>1. CASE Read(r)
    BY <1>1, <2>1 DEF LockTypeOK, ReadersMutex, Locked, lock, ReaderLabels, WriterLabels, Thread
  <2>2. CASE EndAcquireRead(r) \/ EndReleaseRead(r)
    BY <1>1, <1>3, <2>2
       DEF LockTypeOK, ReadersMutex, Locked, data, ReaderLabels, WriterLabels, Thread
  <2> QED  BY <2>1, <2>2
<1>5. ReadersInv'
  BY <1>1, <1>2 DEF LockTypeOK, ReadersInv, lock
<1>6. RoomInv'
  BY <1>2 DEF RoomInv, lock
<1> QED  BY <1>4, <1>5, <1>6

LEMMA ReaderInv ==
  ASSUME LockInv, NEW r \in Reader, ReaderStep(r)
  PROVE  LockInv'
  BY AcquireReadInv, TakeRoomInv, ReleaseReadInv, VacateInv, QuietReadInv DEF ReaderStep

------------------------------------------------------------------------------
(* The writer's steps                                                       *)

LEMMA WriterInv ==
  ASSUME LockInv, NEW w \in Writer, WriterStep(w)
  PROVE  LockInv'
<1> USE DEF LockInv, WriterStep, AcquireWrite, Load, Store, ReleaseWrite, Round,
            Goto, SemWait, SemPost
<1>1. w \in Thread /\ w \notin Reader /\ \A q \in Reader : q \in Thread /\ pc'[q] = pc[q]
  BY DEF LockTypeOK, Thread
<1>2. Counted' = Counted /\ Group' = Group
  BY <1>1 DEF Counted, Group
<1>3. ReadersMutex' /\ ReadersInv'
  BY <1>1, <1>2 DEF ReadersMutex, ReadersInv, lock
<1>4. CASE AcquireWrite(w)
  <2>1. roomEmpty = 1 /\ roomEmpty' = 0 /\ Writing = {} /\ Group = {}
    BY <1>4 DEF LockTypeOK, RoomInv
  <2>2. Writing' = {w}
    BY <1>1, <1>4, <2>1 DEF LockTypeOK, Writing, Thread
  <2>3. LockTypeOK'
    BY <1>1, <1>4, <2>1 DEF LockTypeOK, Thread, ReaderLabels, WriterLabels
  <2> QED  BY <1>2, <1>3, <2>1, <2>2, <2>3 DEF RoomInv
<1>5. CASE Store(w)
  <2>1. Writing' = Writing
    BY <1>1, <1>5 DEF LockTypeOK, Writing, Thread
  <2>2. LockTypeOK'
    BY <1>1, <1>5 DEF LockTypeOK, Thread, ReaderLabels, WriterLabels, lock
  <2> QED  BY <1>2, <1>3, <1>5, <2>1, <2>2 DEF RoomInv, lock
<1>6. CASE ReleaseWrite(w)
  <2>1. w \in Writing
    BY <1>6 DEF Writing
  <2>2. Writing = {w} /\ Group = {} /\ roomEmpty = 0
    BY <2>1 DEF LockTypeOK, RoomInv
  <2>3. Writing' = {}
    BY <1>1, <1>6, <2>2 DEF LockTypeOK, Writing, Thread
  <2>4. LockTypeOK'
    BY <1>1, <1>6, <2>2 DEF LockTypeOK, Thread, ReaderLabels, WriterLabels, data
  <2> QED  BY <1>2, <1>3, <1>6, <2>2, <2>3, <2>4 DEF RoomInv
<1> QED  BY <1>4, <1>5, <1>6

LEMMA LockStep == LockInv /\ [LockNext]_lvars => LockInv'
<1> SUFFICES ASSUME LockInv, [LockNext]_lvars PROVE LockInv'
  OBVIOUS
<1>1. CASE UNCHANGED lvars \/ End
  BY <1>1 DEF lvars, lock, data, End, LockInv, LockTypeOK, ReadersMutex, ReadersInv, Counted,
              RoomInv, Group, Writing
<1>2. CASE \E r \in Reader : ReaderStep(r)
  BY <1>2, ReaderInv
<1>3. CASE \E w \in Writer : WriterStep(w)
  BY <1>3, WriterInv
<1> QED  BY <1>1, <1>2, <1>3 DEF LockNext

LEMMA LockInvHolds == LockSpec => []LockInv
  BY LockStart, LockStep, PTL DEF LockSpec

\* Both semaphores stay binary, the count never goes below zero.
THEOREM LockTypeSafety == LockSpec => []LockTypeOK
  BY LockInvHolds, PTL DEF LockInv

\* A writer has the critical section for itself.
THEOREM ExclusionSafety == LockSpec => []Exclusion
<1>1. LockInv => Exclusion
  <2> SUFFICES ASSUME LockInv, NEW w \in Writing PROVE Reading = {} /\ Writing = {w}
    BY DEF Exclusion
  <2>1. Reading \subseteq Group
    BY DEF Reading, Group
  <2> QED  BY <2>1 DEF LockInv, RoomInv
<1> QED  BY <1>1, LockInvHolds, PTL

------------------------------------------------------------------------------
(* No increment is lost.  The increments made so far are counted by a set:  *)
(* writer w has made its k-th one when it has begun round k and is not      *)
(* about to store.                                                          *)

HasMade(w, k) == k <= Loops - rounds[w] /\ ~(pc[w] = "store" /\ k = Loops - rounds[w])

Made == {p \in Writer \X (1..Loops) : HasMade(p[1], p[2])}

Begun == \A w \in Writer : pc[w] = "store" => rounds[w] < Loops

ValueInv == Stable /\ Begun /\ value = Cardinality(Made)

LEMMA RoundsFinite == IsFiniteSet(1..Loops) /\ Cardinality(1..Loops) = Loops
  BY FS_Interval

LEMMA MadeFinite == IsFiniteSet(Made)
<1>1. IsFiniteSet(Writer \X (1..Loops))
  BY RoundsFinite, FS_Product
<1>2. Made \subseteq Writer \X (1..Loops)
  BY DEF Made, HasMade
<1> QED  BY <1>1, <1>2, FS_Subset

LEMMA ValueInit == LockInit => ValueInv
<1> SUFFICES ASSUME LockInit PROVE ValueInv
  OBVIOUS
<1>1. Made = {}
  BY DEF LockInit, Made, HasMade, Thread
<1>2. \A t \in Thread : pc[t] = "idle"
  BY DEF LockInit
<1> QED  BY <1>1, <1>2, FS_EmptySet DEF LockInit, ValueInv, Stable, Begun, Thread

\* Steps that leave the value and the writers alone; a reader that is about to
\* leave has read the value just now, or stays as it was.
LEMMA SameValue ==
  ASSUME LockInv, ValueInv, value' = value,
         \A w \in Writer : pc'[w] = pc[w] /\ rounds'[w] = rounds[w] /\ reg'[w] = reg[w],
         \A r \in Reader : pc'[r] = "leave" =>
           reg'[r] = value \/ (pc[r] = "leave" /\ reg'[r] = reg[r])
  PROVE  ValueInv'
<1>1. Made' = Made
  BY DEF Made, HasMade
<1>2. Stable' /\ Begun'
  BY DEF ValueInv, Stable, Begun
<1> QED  BY <1>1, <1>2 DEF ValueInv

LEMMA ReaderValue ==
  ASSUME LockInv, ValueInv, NEW r \in Reader, ReaderStep(r)
  PROVE  ValueInv'
<1> USE DEF LockInv, LockTypeOK, Thread
<1>1. value' = value
  BY DEF ReaderStep, AcquireRead, ReaderIn, TakeRoom, EndAcquireRead, Read,
         ReleaseRead, Vacate, EndReleaseRead, data
<1>2. \A t \in Thread \ {r} : pc'[t] = pc[t] /\ rounds'[t] = rounds[t] /\ reg'[t] = reg[t]
  BY DEF ReaderStep, AcquireRead, ReaderIn, TakeRoom, EndAcquireRead, Read,
         ReleaseRead, Vacate, EndReleaseRead, data, Round, Goto, SemWait, SemPost
<1>3. pc'[r] = "leave" => reg'[r] = value
  BY DEF ReaderStep, AcquireRead, ReaderIn, TakeRoom, EndAcquireRead, Read,
         ReleaseRead, Vacate, EndReleaseRead, Goto, SemWait, SemPost
<1>4. \A w \in Writer : w \in Thread \ {r}
  OBVIOUS
<1> QED  BY <1>1, <1>2, <1>3, <1>4, SameValue

LEMMA WriterValue ==
  ASSUME LockInv, ValueInv, NEW w \in Writer, WriterStep(w)
  PROVE  ValueInv'
<1> USE DEF LockInv, LockTypeOK, Thread, Goto, SemWait, SemPost
<1>1. CASE AcquireWrite(w)
  <2> USE <1>1 DEF AcquireWrite, Load, Round
  <2>1. /\ pc[w] = "idle" /\ pc'[w] = "store"
        /\ rounds[w] \in 0..Loops /\ rounds'[w] = rounds[w] - 1
        /\ \A x \in Writer \ {w} : pc'[x] = pc[x] /\ rounds'[x] = rounds[x]
    OBVIOUS
  <2>2. ASSUME NEW x \in Writer, NEW k \in 1..Loops
        PROVE  HasMade(x, k)' <=> HasMade(x, k)
    BY <2>1 DEF HasMade
  <2>3. Made' = Made
    BY <2>2 DEF Made
  <2>4. Stable' /\ Begun'
    BY <2>1 DEF ValueInv, Stable, Begun
  <2> QED  BY <2>3, <2>4 DEF ValueInv
<1>2. CASE Store(w)
  <2> USE <1>2 DEF Store
  <2> DEFINE last == <<w, Loops - rounds[w]>>
  <2>1. w \in Writing
    BY DEF Writing
  <2>2. Writing = {w} /\ Group = {}
    BY <2>1 DEF RoomInv
  <2>3. /\ pc[w] = "store" /\ pc'[w] = "print" /\ rounds' = rounds
        /\ \A x \in Writer \ {w} : pc'[x] = pc[x]
    OBVIOUS
  <2>4. rounds[w] \in 0..Loops /\ rounds[w] # Loops
    BY <2>3 DEF ValueInv, Begun
  <2>5. Made' = Made \cup {last} /\ last \notin Made
    BY <2>3, <2>4 DEF Made, HasMade
  <2>6. value' = value + 1
    BY DEF ValueInv, Stable
  <2>7. value' = Cardinality(Made')
    BY <2>5, <2>6, MadeFinite, FS_AddElement DEF ValueInv
  <2>8. Stable' /\ Begun'
    BY <2>2, <2>3 DEF ValueInv, Stable, Begun, Writing, Group
  <2> QED  BY <2>7, <2>8 DEF ValueInv
<1>3. CASE ReleaseWrite(w)
  <2> USE <1>3 DEF ReleaseWrite, data
  <2>1. Made' = Made
    BY DEF Made, HasMade
  <2>2. Stable' /\ Begun'
    BY DEF ValueInv, Stable, Begun
  <2> QED  BY <2>1, <2>2 DEF ValueInv
<1> QED  BY <1>1, <1>2, <1>3 DEF WriterStep

\* After the end, nobody moves; so what main prints stays true.
EndInv == ended => \A t \in Thread : pc[t] = "idle" /\ rounds[t] = 0

LEMMA NextValue ==
  LockInv /\ ValueInv /\ EndInv /\ [LockNext]_lvars => ValueInv' /\ EndInv'
<1> SUFFICES ASSUME LockInv, ValueInv, EndInv, [LockNext]_lvars PROVE ValueInv' /\ EndInv'
  OBVIOUS
<1>1. CASE UNCHANGED lvars \/ End
  <2>1. ValueInv'
    BY <1>1 DEF lvars, lock, data, End, ValueInv, Stable, Begun, Made, HasMade
  <2>2. CASE UNCHANGED lvars
    BY <2>1, <2>2 DEF lvars, data, EndInv
  <2>3. CASE End
    BY <2>1, <2>3 DEF End, EndInv
  <2> QED  BY <1>1, <2>1, <2>2, <2>3
<1>2. ASSUME NEW r \in Reader, ReaderStep(r) PROVE ValueInv' /\ EndInv'
  <2>1. ~ended /\ ~ended'
    BY <1>2 DEF ReaderStep, AcquireRead, ReaderIn, Round, TakeRoom, EndAcquireRead, Read,
                ReleaseRead, Vacate, EndReleaseRead, data, EndInv, LockInv, LockTypeOK, Thread
  <2> QED  BY <1>2, <2>1, ReaderValue DEF EndInv
<1>3. ASSUME NEW w \in Writer, WriterStep(w) PROVE ValueInv' /\ EndInv'
  <2>1. ~ended /\ ~ended'
    BY <1>3 DEF WriterStep, AcquireWrite, Load, Round, Store, ReleaseWrite, data,
                EndInv, LockInv, LockTypeOK, Thread
  <2> QED  BY <1>3, <2>1, WriterValue DEF EndInv
<1> QED  BY <1>1, <1>2, <1>3 DEF LockNext

LEMMA ValueHolds == LockSpec => [](LockInv /\ ValueInv /\ EndInv)
<1>1. LockInit => EndInv
  BY DEF LockInit, EndInv
<1> QED  BY <1>1, LockStart, LockStep, ValueInit, NextValue, PTL DEF LockSpec

\* Nobody writes while a reader is inside or another writer is half-way.
THEOREM StableSafety == LockSpec => []Stable
  BY ValueHolds, PTL DEF ValueInv

\* Main prints Loops times the number of writers, in every execution.
THEOREM NothingLostSafety == LockSpec => []NothingLost
<1>1. LockInv /\ ValueInv /\ EndInv => NothingLost
  <2> SUFFICES ASSUME LockInv, ValueInv, EndInv, ended
               PROVE  value = Loops * Cardinality(Writer)
    BY DEF NothingLost
  <2>1. \A w \in Writer : pc[w] = "idle" /\ rounds[w] = 0
    BY DEF EndInv, Thread
  <2>2. Made = Writer \X (1..Loops)
    BY <2>1 DEF Made, HasMade
  <2>3. Cardinality(Made) = Cardinality(Writer) * Loops
    BY <2>2, RoundsFinite, FS_Product
  <2>4. Cardinality(Writer) \in Nat
    BY FS_CardinalityType
  <2> QED  BY <2>3, <2>4 DEF ValueInv
<1> QED  BY <1>1, ValueHolds, PTL
==============================================================================
