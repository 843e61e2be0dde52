----------------------------- MODULE ShellProofs -----------------------------
(***************************************************************************)
(* Proofs about the shells.  How a line is taken apart: places in a line   *)
(* are counted, and what the code finds by scanning is found at the first  *)
(* or the last place of a set.  So a program gets what its command says.   *)
(* The three waits of the parent are enough for lines of up to three       *)
(* commands: what the shell has forked and what it still has to fork are   *)
(* counted against the waits that it still has to make.  Lines that come   *)
(* out of a pipe are read once, in their order; what the children of a     *)
(* line still have to report is counted against what the line comes to.    *)
(***************************************************************************)
EXTENDS Shells, FiniteSetTheorems, FunctionTheorems, SequenceTheorems, TLAPS

------------------------------------------------------------------------------
(* Counting                                                                 *)

LEMMA Induction ==
  ASSUME NEW S, 0 \in S, \A n \in Nat : n \in S => n + 1 \in S PROVE Nat \subseteq S
<1> SUFFICES ASSUME NEW n \in Nat, n \notin S PROVE FALSE
  OBVIOUS
<1> DEFINE A == {i \in 0..n : \A j \in 0..i : j \in S}
           f == [i \in A |-> i + 1]
<1>1. 0 \in A /\ A \subseteq 0..n /\ n \notin A
  OBVIOUS
<1>2. \A i \in A : i + 1 \in A \ {0}
  OBVIOUS
<1>3. f \in Injection(A, A \ {0})
  <2>1. f \in [A -> A \ {0}]
    BY <1>2
  <2>2. \A a, b \in A : f[a] = f[b] => a = b
    OBVIOUS
  <2> HIDE DEF f
  <2> QED BY <2>1, <2>2, Fun_IsInj
<1>4. IsFiniteSet(A)
  <2>1. IsFiniteSet(0..n)
    BY FS_Interval
  <2> HIDE DEF A
  <2> QED BY <2>1, <1>1, FS_Subset
<1> HIDE DEF A, f
<1>5. IsFiniteSet(A \ {0}) /\ Cardinality(A \ {0}) = Cardinality(A) - 1
  BY <1>1, <1>4, FS_RemoveElement
<1>6. Cardinality(A) <= Cardinality(A \ {0})
  BY <1>3, <1>5, FS_Injection
<1> QED BY <1>4, <1>5, <1>6, FS_CardinalityType

------------------------------------------------------------------------------
(* Places in a line                                                         *)

Rank(places, i) == Cardinality({j \in places : j <= i})

\* There is a k-th place,
LEMMA NthExists ==
  ASSUME NEW n \in Nat, NEW places \in SUBSET (1..n), NEW k \in 1..Cardinality(places)
  PROVE  \E i \in places : Rank(places, i) = k
<1> DEFINE Has(A) == \A l \in 1..Cardinality(A) : \E i \in A : Rank(A, i) = l
           Good == {m \in Nat : \A A \in SUBSET (1..m) : Has(A)}
<1>1. 0 \in Good
  <2> SUFFICES ASSUME NEW A \in SUBSET (1..0) PROVE Has(A)
    OBVIOUS
  <2>1. A = {}
    OBVIOUS
  <2>2. Cardinality(A) = 0
    BY <2>1, FS_EmptySet
  <2> QED BY <2>2
<1>2. ASSUME NEW m \in Nat, m \in Good PROVE m + 1 \in Good
  <2> SUFFICES ASSUME NEW A \in SUBSET (1..(m + 1)), NEW l \in 1..Cardinality(A)
               PROVE  \E i \in A : Rank(A, i) = l
    OBVIOUS
  <2> PICK B : B = A \ {m + 1}
    OBVIOUS
  <2>1. B \in SUBSET (1..m)
    OBVIOUS
  <2>4. Has(B)
    <3> HIDE DEF Has
    <3> QED BY <1>2, <2>1
  <2>2. CASE m + 1 \notin A
    <3>1. A = B
      BY <2>2
    <3> QED BY <2>4, <3>1
  <2>3. CASE m + 1 \in A
    <3>1. IsFiniteSet(A)
      <4>1. m + 1 \in Int /\ 1 \in Int
        OBVIOUS
      <4>2. IsFiniteSet(1..(m + 1))
        BY ONLY <4>1, FS_Interval
      <4> QED BY <4>2, FS_Subset
    <3>2. Cardinality(B) = Cardinality(A) - 1 /\ Cardinality(B) \in Nat /\ Cardinality(A) \in Nat
      BY <2>3, <3>1, FS_RemoveElement, FS_CardinalityType
    <3>3. CASE l \in 1..Cardinality(B)
      <4> PICK i \in B : Rank(B, i) = l
        BY <2>4, <3>3
      <4>1. i \in A /\ {j \in A : j <= i} = {j \in B : j <= i}
        BY <2>1
      <4> QED BY <4>1 DEF Rank
    <3>4. CASE l = Cardinality(A)
      <4>1. {j \in A : j <= m + 1} = A
        <5>1. \A j \in A : j <= m + 1
          OBVIOUS
        <5> QED BY ONLY <5>1, Zenon
      <4> QED BY <2>3, <3>4, <4>1 DEF Rank
    <3> QED BY <3>2, <3>3, <3>4
  <2> QED BY <2>2, <2>3
<1> HIDE DEF Good
<1>3. Nat \subseteq Good
  BY <1>1, <1>2, Induction
<1> QED BY <1>3 DEF Good

\* and it is the only one.
LEMMA NthOf ==
  ASSUME NEW n \in Nat, NEW places \in SUBSET (1..n), NEW i \in places
  PROVE  Nth(places, Rank(places, i)) = i
<1>1. ASSUME NEW a \in places, NEW b \in places, a < b PROVE Rank(places, a) # Rank(places, b)
  <2> DEFINE A == {j \in places : j <= a}
             B == {j \in places : j <= b}
  <2>1. IsFiniteSet(B)
    <3>1. n \in Int /\ 1 \in Int
      OBVIOUS
    <3>2. IsFiniteSet(1..n)
      BY ONLY <3>1, FS_Interval
    <3>3. B \in SUBSET (1..n)
      BY DEF B
    <3> HIDE DEF B
    <3> QED BY <3>2, <3>3, FS_Subset
  <2>2. A \in SUBSET B /\ A # B
    <3>1. \A j \in places : j \in Nat
      OBVIOUS
    <3>2. b \in B /\ b \notin A
      BY <1>1, <3>1
    <3>3. \A j \in places : j <= a => j <= b
      BY <1>1, <3>1
    <3> QED BY <3>2, <3>3, Zenon
  <2> HIDE DEF A, B
  <2>3. Cardinality(A) # Cardinality(B)
    BY <2>1, <2>2, FS_Subset
  <2> QED BY <2>3 DEF Rank, A, B
<1>2. \A a \in places : Rank(places, a) = Rank(places, i) => a = i
  <2> TAKE a \in places
  <2>1. a < i \/ i < a \/ a = i
    OBVIOUS
  <2> QED BY <1>1, <2>1
<1> QED BY <1>2 DEF Nth, Rank

LEMMA NthIs ==
  ASSUME NEW n \in Nat, NEW places \in SUBSET (1..n), NEW k \in 1..Cardinality(places)
  PROVE  Nth(places, k) \in places /\ Rank(places, Nth(places, k)) = k
<1>1. \E i \in places : Rank(places, i) = k
  BY NthExists
<1> QED BY <1>1, Zenon DEF Nth, Rank

\* The first places are those of the set below some bound.
LEMMA NthBelow ==
  ASSUME NEW n \in Nat, NEW places \in SUBSET (1..n), NEW m \in Nat,
         NEW k \in 1..Cardinality({i \in places : i <= m})
  PROVE  Nth({i \in places : i <= m}, k) = Nth(places, k)
<1> PICK some : some = {i \in places : i <= m}
  OBVIOUS
<1> PICK i : i = Nth(some, k)
  OBVIOUS
<1>1. i \in some /\ Rank(some, i) = k
  <2>1. some \in SUBSET (1..n)
    OBVIOUS
  <2> QED BY <2>1, NthIs
<1>2. {j \in some : j <= i} = {j \in places : j <= i}
  <2>1. i \in Nat /\ i <= m
    BY <1>1
  <2>2. \A j \in places : j <= i => j <= m
    BY <2>1
  <2> QED BY <2>2, Zenon
<1>3. i \in places /\ Rank(places, i) = k
  BY <1>1, <1>2 DEF Rank
<1> QED BY <1>3, NthOf
LEMMA PlacesFinite ==
  ASSUME NEW n \in Nat, NEW places \in SUBSET (1..n)
  PROVE  IsFiniteSet(places) /\ Cardinality(places) \in Nat
<1>1. IsFiniteSet(1..n)
  <2>1. n \in Int /\ 1 \in Int
    OBVIOUS
  <2> QED BY ONLY <2>1, FS_Interval
<1>2. IsFiniteSet(places)
  BY <1>1, FS_Subset
<1> QED BY <1>2, FS_CardinalityType

\* One place behind all the others is the last one.
LEMMA NthLast ==
  ASSUME NEW n \in Nat, NEW places \in SUBSET (1..n), NEW m \in places, NEW l \in Nat, l < m,
         \A i \in places : i <= l \/ i = m
  PROVE  /\ Cardinality(places) = Cardinality({i \in places : i <= l}) + 1
         /\ Nth(places, Cardinality(places)) = m
<1> PICK some : some = {i \in places : i <= l}
  OBVIOUS
<1>1. some \in SUBSET (1..n) /\ m \notin some /\ places = some \cup {m}
  <2>1. some \in SUBSET (1..n)
    OBVIOUS
  <2>2. m \notin some
    OBVIOUS
  <2>3. \A i \in places : i \in some \/ i = m
    OBVIOUS
  <2>4. some \subseteq places
    OBVIOUS
  <2> QED BY <2>1, <2>2, <2>3, <2>4, Zenon
<1>2. Cardinality(places) = Cardinality(some) + 1
  BY <1>1, PlacesFinite, FS_AddElement
<1>3. {j \in places : j <= m} = places
  <2>1. \A j \in places : j <= m
    OBVIOUS
  <2> QED BY <2>1, Zenon
<1>4. Rank(places, m) = Cardinality(places)
  BY <1>3 DEF Rank
<1>5. Nth(places, Cardinality(places)) = m
  BY <1>4, NthOf
<1> QED BY <1>2, <1>5

------------------------------------------------------------------------------
(* Words of a line                                                          *)

\* A single place is kept, or none.
LEMMA WithoutSingle ==
  ASSUME NEW s, IsSequence(s), NEW units, NEW m \in 1..Len(s),
         \A i \in 1..Len(s) : s[i] \notin units <=> i = m
  PROVE  Without(s, units) = <<s[m]>>
<1> PICK kept : kept = {i \in DOMAIN s : s[i] \notin units}
  OBVIOUS
<1>1. kept = {m}
  BY DEF IsSequence
<1>2. Cardinality(kept) = 1
  BY <1>1, FS_Singleton
<1>3. Nth(kept, 1) = m
  <2>1. Len(s) \in Nat /\ kept \in SUBSET (1..Len(s)) /\ 1 \in 1..Cardinality(kept)
    BY <1>1, <1>2 DEF IsSequence
  <2>2. Nth(kept, 1) \in kept
    BY ONLY <2>1, NthIs
  <2> QED BY <1>1, <2>2
<1>4. Without(s, units) = [k \in 1..1 |-> s[Nth(kept, k)]]
  BY <1>2 DEF Without
<1> QED BY <1>3, <1>4

LEMMA WithoutNone ==
  ASSUME NEW s, IsSequence(s), NEW units, \A i \in 1..Len(s) : s[i] \in units
  PROVE  Without(s, units) = << >>
<1> PICK kept : kept = {i \in DOMAIN s : s[i] \notin units}
  OBVIOUS
<1>1. kept = {}
  BY DEF IsSequence
<1>2. Cardinality(kept) = 0
  BY <1>1, FS_EmptySet
<1>3. Without(s, units) = [k \in 1..0 |-> s[Nth(kept, k)]]
  BY <1>2 DEF Without
<1> QED BY <1>3

\* What is kept of the beginning of a line.
LEMMA WithoutPrefix ==
  ASSUME NEW s, IsSequence(s), NEW units, NEW m \in 0..Len(s)
  PROVE  LET kept == {i \in 1..Len(s) : s[i] \notin units}
             some == {i \in kept : i <= m}
         IN  Without(SubSeq(s, 1, m), units) = [k \in 1..Cardinality(some) |-> s[Nth(kept, k)]]
<1> PICK kept : kept = {i \in 1..Len(s) : s[i] \notin units}
  OBVIOUS
<1> PICK some : some = {i \in kept : i <= m}
  OBVIOUS
<1> PICK n \in Nat : n = Len(s)
  BY DEF IsSequence
<1> PICK t : t = SubSeq(s, 1, m)
  OBVIOUS
<1>1. Len(t) = m /\ DOMAIN t = 1..m /\ \A i \in 1..m : t[i] = s[i]
  <2> PICK S : S = {s[i] : i \in 1..m}
    OBVIOUS
  <2>1. 1 \in Int /\ m \in Int /\ \A i \in 1..m : s[i] \in S
    OBVIOUS
  <2>2. /\ t \in Seq(S) /\ Len(t) = IF 1 <= m THEN m - 1 + 1 ELSE 0
        /\ \A i \in 1..(m - 1 + 1) : t[i] = s[1 + i - 1]
    BY <2>1, SubSeqProperties
  <2> QED BY <2>2
<1>2. {i \in DOMAIN t : t[i] \notin units} = some
  BY <1>1
<1>3. Without(t, units) = [k \in 1..Cardinality(some) |-> t[Nth(some, k)]]
  BY <1>2 DEF Without
<1>4. ASSUME NEW k \in 1..Cardinality(some) PROVE t[Nth(some, k)] = s[Nth(kept, k)]
  <2>1. kept \in SUBSET (1..n) /\ some \in SUBSET (1..n) /\ m \in Nat
    OBVIOUS
  <2>2. Nth(some, k) = Nth(kept, k)
    BY <2>1, NthBelow
  <2>3. Nth(some, k) \in some
    BY <2>1, NthIs
  <2> QED BY <1>1, <2>2, <2>3
<1> QED BY <1>3, <1>4

\* Where no two units that are no delimiters are neighbours, each of them is a token.
LEMMA StrtokWords ==
  ASSUME NEW s, IsSequence(s), NEW delimiters,
         \A i \in 1..(Len(s) - 1) : s[i] \in delimiters \/ s[i + 1] \in delimiters
  PROVE  LET kept == {i \in 1..Len(s) : s[i] \notin delimiters}
         IN  Strtok(s, delimiters) = [k \in 1..Cardinality(kept) |-> <<s[Nth(kept, k)]>>]
<1> DEFINE in(i)   == i \in DOMAIN s /\ s[i] \notin delimiters
           last(i) == Min({j \in i..Len(s) : ~in(j + 1)})
<1> PICK first : first = {i \in DOMAIN s : in(i) /\ ~in(i - 1)}
  OBVIOUS
<1> PICK n \in Nat : n = Len(s)
  BY DEF IsSequence
<1> PICK kept : kept = {i \in 1..n : s[i] \notin delimiters}
  OBVIOUS
<1>0. DOMAIN s = 1..n
  BY DEF IsSequence
<1>1. \A i \in 1..n : in(i) => ~in(i - 1) /\ ~in(i + 1)
  BY <1>0
<1>2. first = kept
  BY <1>0, <1>1
<1>3. Strtok(s, delimiters) = [k \in 1..Cardinality(first) |->
                                 SubSeq(s, Nth(first, k), last(Nth(first, k)))]
  BY DEF Strtok
<1>4. ASSUME NEW i \in kept PROVE SubSeq(s, i, last(i)) = <<s[i]>>
  <2> PICK ends : ends = {j \in i..n : ~in(j + 1)}
    OBVIOUS
  <2>1. i \in ends /\ \A j \in ends : i <= j
    BY <1>0, <1>1
  <2>2. last(i) = i
    <3>1. \A j \in ends : (\A l \in ends : j <= l) => j = i
      BY <2>1
    <3> QED BY <2>1, <3>1 DEF Min
  <2> HIDE DEF last
  <2> PICK t : t = SubSeq(s, i, i)
    OBVIOUS
  <2>3. t \in Seq({s[i]}) /\ Len(t) = 1 /\ t[1] = s[i]
    <3>1. i \in Int /\ \A j \in i..i : s[j] \in {s[i]}
      OBVIOUS
    <3>2. /\ t \in Seq({s[i]}) /\ Len(t) = IF i <= i THEN i - i + 1 ELSE 0
          /\ \A j \in 1..(i - i + 1) : t[j] = s[i + j - 1]
      BY ONLY <3>1, t = SubSeq(s, i, i), SubSeqProperties
    <3>3. i - i + 1 = 1 /\ i + 1 - 1 = i /\ i <= i
      OBVIOUS
    <3> QED BY <3>2, <3>3
  <2> PICK c : c = s[i]
    OBVIOUS
  <2>4. t = <<c>>
    <3>1. t \in Seq({c}) /\ Len(t) = 1 /\ t[1] = c
      BY <2>3
    <3> QED BY ONLY <3>1
  <2> QED BY <2>2, <2>4
<1> HIDE DEF last
<1>5. \A k \in 1..Cardinality(kept) : Nth(kept, k) \in kept
  <2> TAKE k \in 1..Cardinality(kept)
  <2>1. kept \in SUBSET (1..n)
    OBVIOUS
  <2> QED BY <2>1, NthIs
<1>6. \A k \in 1..Cardinality(kept) :
        SubSeq(s, Nth(kept, k), last(Nth(kept, k))) = <<s[Nth(kept, k)]>>
  BY <1>4, <1>5
<1>7. Strtok(s, delimiters) = [k \in 1..Cardinality(kept) |->
                                 SubSeq(s, Nth(kept, k), last(Nth(kept, k)))]
  BY <1>2, <1>3
<1>8. Strtok(s, delimiters) = [k \in 1..Cardinality(kept) |-> <<s[Nth(kept, k)]>>]
  BY <1>6, <1>7
<1> QED BY <1>8

LEMMA Extremes ==
  ASSUME NEW n \in Nat, NEW places \in SUBSET (1..n), places # {}
  PROVE  /\ Min(places) \in places /\ \A i \in places : Min(places) <= i
         /\ Max(places) \in places /\ \A i \in places : i <= Max(places)
<1> DEFINE Has(A) == /\ \E i \in A : \A j \in A : i <= j
                     /\ \E i \in A : \A j \in A : i >= j
           Good == {m \in Nat : \A A \in SUBSET (1..m) : A # {} => Has(A)}
<1>1. 0 \in Good
  <2>1. \A A \in SUBSET (1..0) : A = {}
    OBVIOUS
  <2> HIDE DEF Has
  <2> QED BY <2>1
<1>2. ASSUME NEW m \in Nat, m \in Good PROVE m + 1 \in Good
  <2> SUFFICES ASSUME NEW A \in SUBSET (1..(m + 1)), A # {} PROVE Has(A)
    OBVIOUS
  <2> PICK B : B = A \ {m + 1}
    OBVIOUS
  <2>1. B \in SUBSET (1..m)
    OBVIOUS
  <2>2. CASE m + 1 \notin A
    <3>1. A = B
      BY <2>2
    <3> QED BY <1>2, <2>1, <3>1
  <2>3. CASE A = {m + 1}
    BY <2>3
  <2>4. CASE m + 1 \in A /\ B # {}
    <3>1. Has(B)
      BY <1>2, <2>1, <2>4
    <3>2. \A i \in A : i \in B \/ i = m + 1
      OBVIOUS
    <3>3. \A i \in B : i <= m + 1 /\ i \in A
      BY <2>1
    <3>4. \E i \in A : \A j \in A : i <= j
      BY <3>1, <3>2, <3>3
    <3>5. \E i \in A : \A j \in A : i >= j
      BY <2>4, <3>2, <3>3
    <3> QED BY <3>4, <3>5
  <2> QED BY <2>2, <2>3, <2>4
<1> HIDE DEF Good
<1>3. Nat \subseteq Good
  BY <1>1, <1>2, Induction
<1>4. Has(places)
  BY <1>3 DEF Good
<1> QED BY <1>4 DEF Min, Max

\* A piece of a line.
LEMMA Piece ==
  ASSUME NEW s, IsSequence(s), NEW a \in 1..(Len(s) + 1), NEW b \in (a - 1)..Len(s)
  PROVE  LET t == SubSeq(s, a, b)
         IN  /\ IsSequence(t) /\ Len(t) = b - a + 1
             /\ t = [i \in 1..(b - a + 1) |-> s[a + i - 1]]
<1> PICK n \in Nat : n = Len(s)
  BY DEF IsSequence
<1> PICK t : t = SubSeq(s, a, b)
  OBVIOUS
<1> PICK S : S = {s[i] : i \in a..b}
  OBVIOUS
<1>1. a \in Int /\ b \in Int /\ \A i \in a..b : s[i] \in S
  OBVIOUS
<1>2. /\ t \in Seq(S) /\ Len(t) = IF a <= b THEN b - a + 1 ELSE 0
      /\ \A i \in 1..(b - a + 1) : t[i] = s[a + i - 1]
  BY ONLY <1>1, t = SubSeq(s, a, b), SubSeqProperties
<1>3. Len(t) = b - a + 1
  <2>1. ~(a <= b) => b - a + 1 = 0
    OBVIOUS
  <2> QED BY <1>2, <2>1
<1>4. t = [i \in 1..(b - a + 1) |-> t[i]]
  BY <1>2, <1>3
<1>5. IsSequence(t)
  BY <1>3, <1>4 DEF IsSequence
<1>6. t = [i \in 1..(b - a + 1) |-> s[a + i - 1]]
  BY <1>2, <1>4
<1> QED BY <1>3, <1>5, <1>6

\* A line without the spaces and the newline at its end.
LEMMA Trimmed ==
  ASSUME NEW s, IsLine(s)
  PROVE  \E m \in 0..Len(s) :
           /\ RemoveTrailingSpaces(RemoveNewLine(s)) = SubSeq(s, 1, m)
           /\ \A i \in 1..Len(s) : i > m => s[i] \in {Sp, "\n"}
           /\ \A i \in 1..m : s[i] # "\n"
           /\ m > 0 => s[m] # Sp
<1> PICK n \in Nat : n = Len(s) /\ DOMAIN s = 1..n
  BY DEF IsLine, IsSequence
<1> PICK l : l = IF n # 0 /\ s[n] = "\n" THEN n - 1 ELSE n
  OBVIOUS
<1>0. l \in 0..n
  OBVIOUS
<1> PICK u : u = RemoveNewLine(s)
  OBVIOUS
<1>1. Len(u) = l /\ \A i \in 1..l : u[i] = s[i]
  <2>1. s # << >> <=> n # 0
    BY DEF IsLine, IsSequence
  <2>2. CASE n # 0 /\ s[n] = "\n"
    <3>1. u = SubSeq(s, 1, n - 1)
      BY <2>1, <2>2 DEF RemoveNewLine, Front, Last
    <3>2. Len(u) = n - 1 /\ u = [i \in 1..(n - 1) |-> s[i]]
      BY <2>2, <3>1, Piece DEF IsLine
    <3> QED BY <2>2, <3>2
  <2>3. CASE ~(n # 0 /\ s[n] = "\n")
    BY <2>1, <2>3 DEF RemoveNewLine, Last
  <2> QED BY <2>2, <2>3
<1>2. \A i \in 1..n : s[i] = "\n" <=> i > l
  BY DEF IsLine
<1> PICK solid : solid = {i \in 1..l : s[i] # Sp}
  OBVIOUS
<1> PICK m : m = IF solid = {} THEN 0 ELSE Max(solid)
  OBVIOUS
<1>3. RemoveTrailingSpaces(u) = SubSeq(u, 1, m)
  <2>1. {i \in 1..Len(u) : u[i] # Sp} = solid
    BY <1>1
  <2> QED BY <2>1 DEF RemoveTrailingSpaces, SelectLastInSeq
<1>4. m \in 0..l /\ (m > 0 => s[m] # Sp) /\ \A i \in 1..l : i > m => s[i] = Sp
  <2>0. l \in Nat /\ solid \in SUBSET (1..l)
    BY <1>0
  <2>1. CASE solid = {}
    <3>1. m = 0
      BY ONLY <2>1, m = IF solid = {} THEN 0 ELSE Max(solid)
    <3>2. \A i \in 1..l : s[i] = Sp
      BY ONLY <2>1, solid = {i \in 1..l : s[i] # Sp}
    <3> QED BY ONLY <2>0, <3>1, <3>2
  <2>2. CASE solid # {}
    <3>1. m = Max(solid)
      BY ONLY <2>2, m = IF solid = {} THEN 0 ELSE Max(solid)
    <3>2. m \in solid /\ \A i \in solid : i <= m
      BY ONLY <2>0, <2>2, <3>1, Extremes
    <3>3. m \in 1..l /\ s[m] # Sp
      BY ONLY <3>2, solid = {i \in 1..l : s[i] # Sp}
    <3>4. \A i \in 1..l : i > m => i \notin solid
      BY ONLY <2>0, <3>2, <3>3
    <3>5. \A i \in 1..l : i > m => s[i] = Sp
      BY ONLY <3>4, solid = {i \in 1..l : s[i] # Sp}
    <3> QED BY ONLY <2>0, <3>3, <3>5
  <2> QED BY <2>1, <2>2
<1>5. SubSeq(u, 1, m) = SubSeq(s, 1, m)
  <2>0. m \in 0..n /\ m \in 0..l
    BY ONLY <1>4, <1>0, n \in Nat
  <2>1. IsSequence(s)
    BY DEF IsLine
  <2>4. IsSequence(u)
    <3>1. CASE u = s
      BY <2>1, <3>1
    <3>2. CASE u # s
      <4>1. s # << >> /\ u = SubSeq(s, 1, n - 1)
        BY <3>2 DEF RemoveNewLine, Front
      <4>2. n # 0
        BY <2>1, <4>1 DEF IsSequence
      <4>3. 1 \in 1..(Len(s) + 1) /\ n - 1 \in (1 - 1)..Len(s)
        BY <4>2
      <4> QED BY ONLY <2>1, <4>1, <4>3, Piece
    <3> QED BY <3>1, <3>2
  <2>2. SubSeq(s, 1, m) = [i \in 1..m |-> s[i]]
    <3>1. 1 \in 1..(Len(s) + 1) /\ m \in (1 - 1)..Len(s)
      BY <2>0
    <3>2. SubSeq(s, 1, m) = [i \in 1..(m - 1 + 1) |-> s[1 + i - 1]]
      BY ONLY <2>1, <3>1, Piece
    <3> QED BY <2>0, <3>2
  <2>3. SubSeq(u, 1, m) = [i \in 1..m |-> u[i]]
    <3>1. 1 \in 1..(Len(u) + 1) /\ m \in (1 - 1)..Len(u)
      BY <1>1, <2>0
    <3>2. SubSeq(u, 1, m) = [i \in 1..(m - 1 + 1) |-> u[1 + i - 1]]
      BY ONLY <2>4, <3>1, Piece
    <3> QED BY <2>0, <3>2
  <2>5. \A i \in 1..m : u[i] = s[i]
    BY <1>1, <2>0
  <2> QED BY ONLY <2>2, <2>3, <2>5
<1>6. /\ m \in 0..n
      /\ \A i \in 1..n : i > m => s[i] \in {Sp, "\n"}
      /\ \A i \in 1..m : s[i] # "\n"
  <2>1. \A i \in 1..n : i <= l \/ i > l
    BY <1>0
  <2> QED BY ONLY <1>2, <1>4, <2>1, n \in Nat, <1>0
<1> QED BY ONLY n = Len(s), u = RemoveNewLine(s), <1>3, <1>4, <1>5, <1>6

\* What a command is made from: a line without an &.
IsText(s) == IsLine(s) /\ \A i \in 1..Len(s) : s[i] # "&"

WordPlaces(s) == {i \in 1..Len(s) : s[i] \notin Marks}

\* The words the parser finds are all the words.
LEMMA ParsedWords ==
  ASSUME NEW s, IsText(s)
  PROVE  ParseStringIntoArray(s) =
           [k \in 1..Cardinality(WordPlaces(s)) |-> <<s[Nth(WordPlaces(s), k)]>>]
<1> PICK n \in Nat : n = Len(s)
  BY DEF IsText, IsLine, IsSequence
<1> PICK m \in 0..Len(s) :
      /\ RemoveTrailingSpaces(RemoveNewLine(s)) = SubSeq(s, 1, m)
      /\ \A i \in 1..Len(s) : i > m => s[i] \in {Sp, "\n"}
      /\ \A i \in 1..m : s[i] # "\n"
      /\ m > 0 => s[m] # Sp
  BY Trimmed DEF IsText
<1>0. m \in 0..n
  OBVIOUS
<1> PICK t : t = SubSeq(s, 1, m)
  OBVIOUS
<1> PICK d : d = {Sp, "\t", ">"}
  OBVIOUS
<1>1. IsSequence(s) /\ \A i \in 1..n : s[i] # "&"
  BY DEF IsText, IsLine
<1>2. IsSequence(t) /\ Len(t) = m /\ \A i \in 1..m : t[i] = s[i]
  <2>1. 1 \in 1..(Len(s) + 1) /\ m \in (1 - 1)..Len(s)
    BY <1>0
  <2>2. IsSequence(t) /\ Len(t) = m - 1 + 1 /\ t = [i \in 1..(m - 1 + 1) |-> s[1 + i - 1]]
    BY ONLY <1>1, <2>1, t = SubSeq(s, 1, m), Piece
  <2> QED BY ONLY <1>0, <2>2, n \in Nat
<1>3. \A u : u \in Marks <=> u \in d \/ u = "&" \/ u = "\n"
  BY DEF Marks
<1>4. \A i \in 1..m : i \in 1..n /\ (s[i] \in Marks <=> s[i] \in d)
  BY <1>0, <1>1, <1>3
<1>5. \A i \in 1..n : i > m => s[i] \in Marks
  BY DEF Marks
<1> PICK kept : kept = {i \in 1..m : t[i] \notin d}
  OBVIOUS
<1>6. kept = WordPlaces(s)
  <2>1. \A i \in 1..n : i \in 1..m \/ i > m
    BY <1>0
  <2> QED BY <1>2, <1>4, <1>5, <2>1, Zenon DEF WordPlaces
<1>7. \A i \in 1..(m - 1) : t[i] \in d \/ t[i + 1] \in d
  <2> SUFFICES ASSUME NEW i \in 1..(m - 1) PROVE t[i] \in d \/ t[i + 1] \in d
    OBVIOUS
  <2>1. i \in 1..m /\ i + 1 \in 1..m /\ i \in 1..(n - 1)
    BY <1>0
  <2>2. s[i] \in Marks \/ s[i + 1] \in Marks
    BY <2>1 DEF IsText, IsLine
  <2> QED BY <1>2, <1>4, <2>1, <2>2
<1>8. Strtok(t, d) = [k \in 1..Cardinality(kept) |-> <<t[Nth(kept, k)]>>]
  <2>1. \A i \in 1..(Len(t) - 1) : t[i] \in d \/ t[i + 1] \in d
    BY <1>2, <1>7
  <2>2. kept = {i \in 1..Len(t) : t[i] \notin d}
    BY <1>2
  <2> QED BY ONLY <1>2, <2>1, <2>2, StrtokWords
<1>9. \A k \in 1..Cardinality(kept) : t[Nth(kept, k)] = s[Nth(kept, k)]
  <2> TAKE k \in 1..Cardinality(kept)
  <2>1. m \in Nat /\ kept \in SUBSET (1..m)
    BY <1>0
  <2>2. Nth(kept, k) \in kept
    BY ONLY <2>1, k \in 1..Cardinality(kept), NthIs
  <2> QED BY <1>2, <2>2
<1>10. ParseStringIntoArray(s) = Strtok(t, d)
  BY DEF ParseStringIntoArray
<1>11. Strtok(t, d) = [k \in 1..Cardinality(kept) |-> <<s[Nth(kept, k)]>>]
  BY <1>8, <1>9
<1> QED BY <1>6, <1>10, <1>11

\* The search for a redirection, with its parts named.
Search(s, t, gts, r, after, ends) ==
  /\ t = RemoveTrailingSpaces(RemoveNewLine(s))
  /\ gts = {i \in DOMAIN t : t[i] = ">"}
  /\ r = IF gts = {} THEN 0 ELSE Min(gts)
  /\ after = SubSeq(t, r + 1, Len(t))
  /\ ends = {j \in DOMAIN after : after[j] = ">" \/ (after[j] = Sp /\ j > 1)}
  /\ SearchForRedirection(s).redirect = (r > 1)
  /\ SearchForRedirection(s).output = IF r = 0 THEN << >> ELSE RemoveSpaces(after)
  /\ SearchForRedirection(s).errs =
       IF r = 0 THEN 0
       ELSE IF ends # {} THEN (IF after[Min(ends)] = ">" THEN 2 ELSE 1)
       ELSE IF after = << >> THEN 1 ELSE 0

LEMMA SearchIs ==
  ASSUME NEW s PROVE \E t, gts, r, after, ends : Search(s, t, gts, r, after, ends)
<1> DEFINE t == RemoveTrailingSpaces(RemoveNewLine(s))
           gts == {i \in DOMAIN t : t[i] = ">"}
           r == IF gts = {} THEN 0 ELSE Min(gts)
           after == SubSeq(t, r + 1, Len(t))
           ends == {j \in DOMAIN after : after[j] = ">" \/ (after[j] = Sp /\ j > 1)}
           runAway == t = << >>
           bad == IF r = 0 THEN 0
                  ELSE IF ends # {} THEN (IF after[Min(ends)] = ">" THEN 2 ELSE 1)
                  ELSE IF after = << >> THEN 1 ELSE 0
           redirect == r > 1
           output == IF r = 0 THEN << >> ELSE RemoveSpaces(after)
<1>1. SearchForRedirection(s) =
        [runAway |-> runAway, errs |-> bad, redirect |-> redirect, output |-> output]
  BY DEF SearchForRedirection
<1>2. /\ SearchForRedirection(s).errs = bad /\ SearchForRedirection(s).output = output
      /\ SearchForRedirection(s).redirect = redirect
  <2> HIDE DEF runAway, bad, redirect, output
  <2> QED BY ONLY <1>1
<1>3. Search(s, t, gts, r, after, ends)
  BY <1>2, Zenon DEF Search
<1> HIDE DEF t, gts, r, after, ends
<1> QED BY <1>3

\* Without a > it finds none.
LEMMA NotRedirected ==
  ASSUME NEW s, IsText(s), \A i \in 1..Len(s) : s[i] # ">"
  PROVE  SearchForRedirection(s).redirect = FALSE /\ SearchForRedirection(s).output = << >>
<1> PICK m \in 0..Len(s) : RemoveTrailingSpaces(RemoveNewLine(s)) = SubSeq(s, 1, m)
  BY Trimmed DEF IsText
<1> PICK t, gts, r, after, ends : Search(s, t, gts, r, after, ends)
  BY SearchIs
<1>0. t = SubSeq(s, 1, m)
  BY DEF Search
<1>1. {i \in DOMAIN t : t[i] = ">"} = {}
  <2>0. Len(s) \in Nat /\ IsSequence(s)
    BY DEF IsText, IsLine, IsSequence
  <2>1. 1 \in 1..(Len(s) + 1) /\ m \in (1 - 1)..Len(s)
    BY <2>0
  <2>2. t = [i \in 1..(m - 1 + 1) |-> s[1 + i - 1]]
    BY ONLY <1>0, <2>0, <2>1, Piece
  <2> QED BY <2>0, <2>2
<1>2. r = 0
  BY <1>1, Zenon DEF Search
<1>3. (r > 1) = FALSE
  BY <1>2
<1> QED BY <1>2, <1>3, Zenon DEF Search

\* Without an error, and with no tab, there is one word behind the >, and it is the file.
LEMMA Redirected ==
  ASSUME NEW s, IsText(s), NEW g \in 1..Len(s), s[g] = ">", \A i \in 1..(g - 1) : s[i] # ">",
         SearchForRedirection(s).errs = 0, \A i \in g..Len(s) : s[i] # "\t"
  PROVE  /\ SearchForRedirection(s).redirect = (g > 1)
         /\ \E w \in (g + 1)..Len(s) :
              /\ \A i \in g..Len(s) : s[i] \notin Marks <=> i = w
              /\ SearchForRedirection(s).output = <<s[w]>>
<1> PICK n \in Nat : n = Len(s)
  BY DEF IsText, IsLine, IsSequence
<1> PICK m \in 0..Len(s) :
      /\ RemoveTrailingSpaces(RemoveNewLine(s)) = SubSeq(s, 1, m)
      /\ \A i \in 1..Len(s) : i > m => s[i] \in {Sp, "\n"}
      /\ \A i \in 1..m : s[i] # "\n"
      /\ m > 0 => s[m] # Sp
  BY Trimmed DEF IsText
<1>0. m \in 0..n /\ g \in 1..n
  OBVIOUS
<1>1. ">" \notin {Sp, "\n"}
  BY DEF Sp
<1>2. g <= m
  BY <1>0, <1>1
<1> PICK t, gts, r, after, ends : Search(s, t, gts, r, after, ends)
  BY SearchIs
<1> PICK found : found = SearchForRedirection(s)
  OBVIOUS
<1>17. t = SubSeq(s, 1, m)
  BY DEF Search
<1>3. IsSequence(s) /\ \A i \in 1..n : s[i] # "&"
  BY DEF IsText, IsLine
<1>4. IsSequence(t) /\ Len(t) = m /\ \A i \in 1..m : t[i] = s[i]
  <2>1. 1 \in 1..(Len(s) + 1) /\ m \in (1 - 1)..Len(s)
    BY <1>0
  <2>2. IsSequence(t) /\ Len(t) = m - 1 + 1 /\ t = [i \in 1..(m - 1 + 1) |-> s[1 + i - 1]]
    BY ONLY <1>3, <1>17, <2>1, Piece
  <2> QED BY ONLY <1>0, <2>2, n \in Nat
<1>5. r = g
  <2>1. DOMAIN t = 1..m
    BY <1>4 DEF IsSequence
  <2>4. gts = {i \in DOMAIN t : t[i] = ">"} /\ r = IF gts = {} THEN 0 ELSE Min(gts)
    BY DEF Search
  <2>2. g \in gts /\ gts \in SUBSET (1..m) /\ \A i \in gts : ~(i < g)
    BY <1>0, <1>2, <1>4, <2>1, <2>4
  <2>3. r \in gts /\ \A i \in gts : r <= i
    <3>1. gts # {} /\ r = Min(gts)
      BY ONLY <2>2, <2>4
    <3>2. m \in Nat
      BY ONLY <1>0, n \in Nat
    <3> QED BY ONLY <2>2, <3>1, <3>2, Extremes
  <2> QED BY ONLY <1>0, <2>2, <2>3, n \in Nat
<1>6. DOMAIN after = 1..(m - g) /\ IsSequence(after) /\ Len(after) = m - g
      /\ \A j \in 1..(m - g) : after[j] = s[g + j]
  <2>1. g + 1 \in 1..(Len(t) + 1) /\ m \in (g + 1 - 1)..Len(t)
    BY <1>0, <1>2, <1>4
  <2>2. after = SubSeq(t, g + 1, m)
    BY <1>4, <1>5 DEF Search
  <2>3. IsSequence(after) /\ Len(after) = m - (g + 1) + 1
        /\ after = [j \in 1..(m - (g + 1) + 1) |-> t[g + 1 + j - 1]]
    BY ONLY <1>4, <2>1, <2>2, Piece
  <2>4. m - (g + 1) + 1 = m - g /\ \A j \in 1..(m - g) : g + 1 + j - 1 = g + j /\ g + j \in 1..m
    BY ONLY <1>0, <1>2, n \in Nat
  <2> QED BY ONLY <1>4, <2>3, <2>4
<1>7. /\ ends = {j \in DOMAIN after : after[j] = ">" \/ (after[j] = Sp /\ j > 1)}
      /\ found.redirect = (r > 1)
      /\ found.output = IF r = 0 THEN << >> ELSE RemoveSpaces(after)
      /\ found.errs = IF r = 0 THEN 0
                      ELSE IF ends # {} THEN (IF after[Min(ends)] = ">" THEN 2 ELSE 1)
                      ELSE IF after = << >> THEN 1 ELSE 0
  BY Zenon DEF Search
<1>8. r # 0 /\ ends = {} /\ after # << >>
  <2>1. r # 0
    BY ONLY <1>0, <1>5, n \in Nat
  <2>2. found.errs = 0
    OBVIOUS
  <2> QED BY ONLY <1>7, <2>1, <2>2
<1>9. m > g
  <2>1. CASE m = g
    <3>1. after = << >>
      BY ONLY <1>0, <1>6, <2>1, n \in Nat DEF IsSequence
    <3> QED BY <1>8, <3>1
  <2> QED BY ONLY <1>0, <1>2, <2>1, n \in Nat
<1>10. \A i \in (g + 1)..m : s[i] # ">" /\ (i > g + 1 => s[i] # Sp)
  <2> SUFFICES ASSUME NEW i \in (g + 1)..m PROVE s[i] # ">" /\ (i > g + 1 => s[i] # Sp)
    OBVIOUS
  <2>1. i - g \in 1..(m - g) /\ g + (i - g) = i /\ (i > g + 1 => i - g > 1)
    BY <1>0
  <2>2. i - g \notin ends /\ after[i - g] = s[i]
    BY <1>6, <1>8, <2>1
  <2> QED BY ONLY <1>6, <1>7, <2>1, <2>2
<1>11. \A i \in (g + 1)..m : s[i] \in Marks <=> s[i] = Sp
  <2>1. \A i \in (g + 1)..m : s[i] # "\t" /\ s[i] # "&" /\ s[i] # "\n" /\ s[i] # ">"
    BY <1>0, <1>3, <1>10
  <2>2. \A u : u \in Marks <=> u = Sp \/ u = "\t" \/ u = ">" \/ u = "&" \/ u = "\n"
    BY DEF Marks
  <2> QED BY <2>1, <2>2, Zenon
<1>12. m = g + 1 \/ (m = g + 2 /\ s[g + 1] = Sp)
  <2>1. \A i \in 1..(n - 1) : s[i] \in Marks \/ s[i + 1] \in Marks
    BY DEF IsText, IsLine
  <2>2. CASE m > g + 2
    <3>1. g + 2 \in (g + 1)..m /\ g + 3 \in (g + 1)..m /\ g + 2 \in 1..(n - 1) /\ g + 2 + 1 = g + 3
          /\ g + 2 > g + 1 /\ g + 3 > g + 1
      BY <1>0, <2>2
    <3> QED BY ONLY <1>10, <1>11, <2>1, <3>1
  <2>3. CASE m = g + 2
    <3>1. g + 2 \in (g + 1)..m /\ g + 1 \in (g + 1)..m /\ g + 1 \in 1..(n - 1) /\ g + 1 + 1 = g + 2
          /\ g + 2 > g + 1
      BY <1>0, <2>3
    <3>2. s[g + 1] = Sp
      BY ONLY <1>10, <1>11, <2>1, <3>1
    <3> QED BY <2>3, <3>2
  <2> QED BY <1>0, <1>9, <2>2, <2>3
<1>13. s[m] \notin Marks /\ \A i \in g..m : i # m => s[i] \in Marks
  <2>1. s[m] # Sp /\ m \in (g + 1)..m /\ s[g] \in Marks
    BY <1>0, <1>9 DEF Marks
  <2>2. \A i \in g..m : i # m => i = g \/ (i = g + 1 /\ s[g + 1] = Sp)
    BY ONLY <1>0, <1>12, n \in Nat
  <2>3. Sp \in Marks
    BY DEF Marks
  <2> QED BY <1>11, <2>1, <2>2, <2>3
<1>14. \A i \in g..n : s[i] \notin Marks <=> i = m
  <2>1. \A i \in 1..n : i > m => s[i] \in Marks
    BY DEF Marks
  <2>2. \A i \in g..n : i \in g..m \/ (i \in 1..n /\ i > m)
    BY <1>0
  <2>3. \A i \in g..m : ~(i > m)
    BY <1>0
  <2> QED BY <1>13, <2>1, <2>2, <2>3
<1>18. Sp \in Marks
  BY DEF Marks
<1>15. RemoveSpaces(after) = <<s[m]>>
  <2>1. m - g \in 1..Len(after) /\ after[m - g] = s[m]
    <3>1. m - g \in 1..(m - g) /\ g + (m - g) = m
      BY ONLY <1>0, <1>9, n \in Nat
    <3> QED BY ONLY <1>6, <3>1
  <2>2. \A j \in 1..Len(after) : after[j] \notin {Sp} <=> j = m - g
    <3>1. \A j \in 1..(m - g) : g + j \in (g + 1)..m /\ g + j \in g..m /\ (g + j = m <=> j = m - g)
      BY <1>0
    <3> QED BY ONLY <1>6, <1>11, <1>13, <1>18, <3>1
  <2>3. Without(after, {Sp}) = <<after[m - g]>>
    BY ONLY <1>6, <2>1, <2>2, WithoutSingle
  <2> QED BY <2>1, <2>3 DEF RemoveSpaces
<1>16. m \in (g + 1)..n
  BY <1>0, <1>9
<1>19. found.redirect = (g > 1) /\ found.output = <<s[m]>>
  BY <1>5, <1>7, <1>8, <1>15, Zenon
<1> QED BY <1>14, <1>16, <1>19

\* The words before a place.
LEMMA FrontWords ==
  ASSUME NEW s, IsSequence(s), NEW m \in 0..Len(s)
  PROVE  WordsIn(SubSeq(s, 1, m)) =
           [k \in 1..Cardinality({i \in WordPlaces(s) : i <= m}) |-> <<s[Nth(WordPlaces(s), k)]>>]
<1> PICK places : places = WordPlaces(s)
  OBVIOUS
<1> PICK c : c = Cardinality({i \in places : i <= m})
  OBVIOUS
<1> PICK t : t = Without(SubSeq(s, 1, m), Marks)
  OBVIOUS
<1>1. t = [k \in 1..c |-> s[Nth(places, k)]]
  BY WithoutPrefix DEF WordPlaces
<1>2. DOMAIN t = 1..c /\ \A k \in 1..c : t[k] = s[Nth(places, k)]
  BY <1>1
<1>3. WordsIn(SubSeq(s, 1, m)) = [k \in DOMAIN t |-> <<t[k]>>]
  BY DEF WordsIn
<1>4. WordsIn(SubSeq(s, 1, m)) = [k \in 1..c |-> <<s[Nth(places, k)]>>]
  BY ONLY <1>2, <1>3
<1> QED BY <1>4

LEMMA CommandIs ==
  ASSUME NEW s, NEW cmd, cmd = Command(s), cmd.op = "run",
         NEW found, found = SearchForRedirection(s)
  PROVE  /\ cmd.text = s
         /\ cmd.argv = DiscardOutput(ParseStringIntoArray(s), found.output)
         /\ cmd.output = IF found.redirect THEN found.output ELSE << >>
         /\ found.errs = 0
<1> PICK w : w = ParseStringIntoArray(s)
  OBVIOUS
<1> PICK op : op = IF found.runAway THEN "runaway"
                   ELSE IF found.errs > 0 THEN "bad"
                   ELSE IF w = << >> THEN "none"
                   ELSE IF w[1] \in {<<"exit">>, <<"cd">>, <<"path">>} THEN w[1][1] ELSE "run"
  OBVIOUS
<1> PICK argv : argv = DiscardOutput(w, found.output)
  OBVIOUS
<1> PICK output : output = IF found.redirect THEN found.output ELSE << >>
  OBVIOUS
<1>1. cmd = [text |-> s, op |-> op, errs |-> found.errs, words |-> w, argv |-> argv,
             output |-> output]
  BY Zenon DEF Command
<1>2. cmd.text = s /\ cmd.op = op /\ cmd.argv = argv /\ cmd.output = output
  BY ONLY <1>1
<1>3. ~(found.errs > 0)
  BY ONLY <1>2, cmd.op = "run",
          op = IF found.runAway THEN "runaway"
               ELSE IF found.errs > 0 THEN "bad"
               ELSE IF w = << >> THEN "none"
               ELSE IF w[1] \in {<<"exit">>, <<"cd">>, <<"path">>} THEN w[1][1] ELSE "run"
<1>4. found.errs \in {0, 1, 2}
  <2> PICK t, gts, r, after, ends : Search(s, t, gts, r, after, ends)
    BY SearchIs
  <2>1. found.errs =
          IF r = 0 THEN 0
          ELSE IF ends # {} THEN (IF after[Min(ends)] = ">" THEN 2 ELSE 1)
          ELSE IF after = << >> THEN 1 ELSE 0
    BY Zenon DEF Search
  <2> QED BY ONLY <2>1
<1>5. found.errs = 0
  BY ONLY <1>3, <1>4
<1> QED BY <1>2, <1>5, Zenon

LEMMA WrittenIs ==
  ASSUME NEW s, NEW gts, gts = {i \in DOMAIN s : s[i] = ">"},
         NEW r, r = IF gts = {} THEN Len(s) + 1 ELSE Min(gts),
         NEW target, target = WordsIn(SubSeq(s, r, Len(s)))
  PROVE  Written(s) = [argv   |-> WordsIn(SubSeq(s, 1, r - 1)),
                       output |-> IF target = << >> THEN << >> ELSE target[1]]
BY Zenon DEF Written

\* A command without a >.
LEMMA WrittenWithout ==
  ASSUME NEW s, IsText(s), \A i \in 1..Len(s) : s[i] # ">", Command(s).op = "run"
  PROVE  [argv |-> Command(s).argv, output |-> Command(s).output] = Written(s)
<1> PICK n \in Nat : n = Len(s)
  BY DEF IsText, IsLine, IsSequence
<1> PICK places : places = WordPlaces(s)
  OBVIOUS
<1> PICK c : c = Cardinality(places)
  OBVIOUS
<1> PICK words : words = ParseStringIntoArray(s)
  OBVIOUS
<1> PICK found : found = SearchForRedirection(s)
  OBVIOUS
<1> PICK cmd : cmd = Command(s)
  OBVIOUS
<1>1. IsSequence(s)
  BY DEF IsText, IsLine
<1>2. words = [k \in 1..c |-> <<s[Nth(places, k)]>>]
  BY ParsedWords
<1>3. cmd.argv = words /\ cmd.output = << >>
  <2>1. /\ cmd.argv = DiscardOutput(words, found.output)
        /\ cmd.output = IF found.redirect THEN found.output ELSE << >>
    BY CommandIs
  <2>2. found.redirect = FALSE /\ found.output = << >>
    BY NotRedirected
  <2>3. {i \in 1..Len(words) : words[i] = << >>} = {}
    <3>1. \A k \in 1..c : words[k] # << >>
      BY <1>2
    <3>2. c \in Nat
      BY PlacesFinite DEF WordPlaces
    <3>3. Len(words) = c
      BY <1>2, <3>2
    <3> QED BY <3>1, <3>3
  <2>4. DiscardOutput(words, << >>) = words
    BY <2>3, Zenon DEF DiscardOutput, SelectInSeq
  <2> QED BY <2>1, <2>2, <2>4, Zenon
<1>4. {i \in DOMAIN s : s[i] = ">"} = {}
  BY <1>1 DEF IsSequence
<1>5. WordsIn(SubSeq(s, 1, n)) = words
  <2>1. n \in 0..Len(s)
    OBVIOUS
  <2>2. {i \in places : i <= n} = places
    <3>1. \A i \in places : i <= n
      BY DEF WordPlaces
    <3> QED BY ONLY <3>1, Zenon
  <2>3. WordsIn(SubSeq(s, 1, n)) =
          [k \in 1..Cardinality({i \in places : i <= n}) |-> <<s[Nth(places, k)]>>]
    BY <1>1, <2>1, FrontWords
  <2> QED BY <1>2, <2>2, <2>3, Zenon
<1>6. WordsIn(SubSeq(s, n + 1, n)) = << >>
  <2> PICK t : t = SubSeq(s, n + 1, n)
    OBVIOUS
  <2>1. n + 1 \in 1..(Len(s) + 1) /\ n \in (n + 1 - 1)..Len(s) /\ n - (n + 1) + 1 = 0
    OBVIOUS
  <2>2. IsSequence(t) /\ Len(t) = 0
    BY <1>1, <2>1, Piece
  <2>3. Without(t, Marks) = << >>
    <3>1. \A i \in 1..Len(t) : t[i] \in Marks
      BY <2>2
    <3> QED BY ONLY <2>2, <3>1, WithoutNone
  <2> QED BY <2>3 DEF WordsIn
<1>7. n \in Nat
  OBVIOUS
<1> PICK gts : gts = {i \in DOMAIN s : s[i] = ">"}
  OBVIOUS
<1> PICK r : r = IF gts = {} THEN Len(s) + 1 ELSE Min(gts)
  OBVIOUS
<1> PICK target : target = WordsIn(SubSeq(s, r, Len(s)))
  OBVIOUS
<1>8. Written(s) = [argv   |-> WordsIn(SubSeq(s, 1, r - 1)),
                    output |-> IF target = << >> THEN << >> ELSE target[1]]
  BY WrittenIs
<1>9. r = n + 1
  BY <1>4, Zenon
<1>10. target = << >>
  BY <1>6, <1>9, Zenon
<1>11. WordsIn(SubSeq(s, 1, r - 1)) = words
  <2>1. r - 1 = n
    BY ONLY <1>7, <1>9
  <2> QED BY ONLY <1>5, <2>1
<1>12. Written(s) = [argv |-> words, output |-> << >>]
  BY ONLY <1>8, <1>10, <1>11
<1> QED BY ONLY <1>3, <1>12, cmd = Command(s)

\* A command with a >.
LEMMA WrittenRedirected ==
  ASSUME NEW s, IsText(s), NEW g \in 1..Len(s), s[g] = ">", \A i \in 1..(g - 1) : s[i] # ">",
         Plain(s), Command(s).op = "run"
  PROVE  [argv |-> Command(s).argv, output |-> Command(s).output] = Written(s)
<1> PICK n \in Nat : n = Len(s)
  BY DEF IsText, IsLine, IsSequence
<1>0. n \in Nat /\ g \in 1..n
  OBVIOUS
<1> PICK places : places = WordPlaces(s)
  OBVIOUS
<1> PICK c : c = Cardinality({i \in places : i <= g - 1})
  OBVIOUS
<1> PICK words : words = ParseStringIntoArray(s)
  OBVIOUS
<1> PICK found : found = SearchForRedirection(s)
  OBVIOUS
<1> PICK cmd : cmd = Command(s)
  OBVIOUS
<1> PICK gts : gts = {i \in DOMAIN s : s[i] = ">"}
  OBVIOUS
<1> PICK r : r = IF gts = {} THEN Len(s) + 1 ELSE Min(gts)
  OBVIOUS
<1> PICK target : target = WordsIn(SubSeq(s, r, Len(s)))
  OBVIOUS
<1> PICK argv : argv = WordsIn(SubSeq(s, 1, g - 1))
  OBVIOUS
<1> PICK output : output = IF target = << >> THEN << >> ELSE target[1]
  OBVIOUS
<1>1. IsSequence(s) /\ DOMAIN s = 1..n
  BY DEF IsText, IsLine, IsSequence
<1>2. r = g /\ gts # {}
  <2>1. g \in gts /\ gts \in SUBSET (1..n) /\ \A i \in gts : ~(i < g)
    BY <1>0, <1>1
  <2>2. gts # {}
    BY ONLY <2>1
  <2>3. r = Min(gts)
    BY ONLY <2>2, r = IF gts = {} THEN Len(s) + 1 ELSE Min(gts)
  <2>4. r \in gts /\ \A i \in gts : r <= i
    BY ONLY <1>0, <2>1, <2>2, <2>3, Extremes
  <2> QED BY ONLY <1>0, <2>1, <2>2, <2>4
<1>3. Written(s) = [argv |-> argv, output |-> output]
  <2>1. Written(s) = [argv   |-> WordsIn(SubSeq(s, 1, r - 1)),
                      output |-> IF target = << >> THEN << >> ELSE target[1]]
    BY WrittenIs
  <2> QED BY <1>2, <2>1, Zenon
<1>4. Written(s).argv = argv /\ Written(s).output = output
  BY ONLY <1>3
<1>5. /\ argv # << >>
      /\ \A i \in gts : ~Contains(SubSeq(s, i, Len(s)), "\t")
      /\ ~Contains(argv, output)
  BY <1>2, <1>4, Zenon DEF Plain
<1> PICK u : u = SubSeq(s, g, n)
  OBVIOUS
<1>6. /\ IsSequence(u) /\ Len(u) = n - g + 1
      /\ \A i \in g..n : i - g + 1 \in 1..Len(u) /\ u[i - g + 1] = s[i]
      /\ \A j \in 1..Len(u) : u[j] = s[g + j - 1]
  <2>1. g \in 1..(Len(s) + 1) /\ n \in (g - 1)..Len(s)
    BY <1>0
  <2>2. IsSequence(u) /\ Len(u) = n - g + 1 /\ u = [i \in 1..(n - g + 1) |-> s[g + i - 1]]
    BY ONLY <1>1, <2>1, u = SubSeq(s, g, n), Piece
  <2>3. \A i \in g..n : i - g + 1 \in 1..(n - g + 1) /\ g + (i - g + 1) - 1 = i
    BY ONLY <1>0
  <2> QED BY ONLY <2>2, <2>3
<1>7. \A i \in g..n : s[i] # "\t"
  <2>1. ~Contains(u, "\t")
    <3>1. g \in gts
      BY <1>0, <1>1
    <3> QED BY <1>5, <3>1
  <2> QED BY <1>6, <2>1 DEF Contains
<1>8. /\ found.redirect = (g > 1)
      /\ \E w \in (g + 1)..Len(s) :
           (\A i \in g..Len(s) : s[i] \notin Marks <=> i = w) /\ found.output = <<s[w]>>
  <2>1. SearchForRedirection(s).errs = 0
    BY CommandIs
  <2>2. \A i \in g..Len(s) : s[i] # "\t"
    BY <1>7
  <2>3. /\ SearchForRedirection(s).redirect = (g > 1)
        /\ \E w \in (g + 1)..Len(s) :
             /\ \A i \in g..Len(s) : s[i] \notin Marks <=> i = w
             /\ SearchForRedirection(s).output = <<s[w]>>
    BY <2>1, <2>2, Redirected
  <2> QED BY <2>3, Zenon
<1> PICK w \in (g + 1)..Len(s) :
      (\A i \in g..Len(s) : s[i] \notin Marks <=> i = w) /\ found.output = <<s[w]>>
  BY <1>8
<1>9. w \in (g + 1)..n /\ \A i \in g..n : s[i] \notin Marks <=> i = w
  OBVIOUS
<1>10. output = <<s[w]>>
  <2>1. w - g + 1 \in 1..Len(u) /\ u[w - g + 1] = s[w]
    BY <1>0, <1>6, <1>9
  <2>2. \A j \in 1..Len(u) : u[j] \notin Marks <=> j = w - g + 1
    <3> SUFFICES ASSUME NEW j \in 1..Len(u) PROVE u[j] \notin Marks <=> j = w - g + 1
      OBVIOUS
    <3>1. g + j - 1 \in g..n /\ (g + j - 1 = w <=> j = w - g + 1)
      BY <1>0, <1>6, <1>9
    <3>2. u[j] = s[g + j - 1]
      BY ONLY <1>6, j \in 1..Len(u)
    <3> QED BY <1>9, <3>1, <3>2
  <2>3. Without(u, Marks) = <<s[w]>>
    <3>1. IsSequence(u)
      BY <1>6
    <3>2. Without(u, Marks) = <<u[w - g + 1]>>
      BY ONLY <2>1, <2>2, <3>1, WithoutSingle
    <3> QED BY <2>1, <3>2
  <2> PICK x : x = <<s[w]>>
    OBVIOUS
  <2>4. target = <<x>>
    <3>1. WordsIn(u) = <<x>>
      BY <2>3 DEF WordsIn
    <3> QED BY <1>2, <3>1
  <2>5. target # << >> /\ target[1] = x
    BY ONLY <2>4
  <2> QED BY <2>5, Zenon
<1>11. n \in Nat /\ places \in SUBSET (1..n) /\ w \in places /\ g - 1 \in Nat /\ g - 1 < w
       /\ \A i \in places : i <= g - 1 \/ i = w
  <2>1. \A i \in 1..n : i <= g - 1 \/ i \in g..n
    BY <1>0
  <2> QED BY <1>0, <1>9, <2>1 DEF WordPlaces
<1>12. Cardinality(places) = c + 1 /\ Nth(places, c + 1) = w /\ c \in Nat
  <2>1. /\ Cardinality(places) = Cardinality({i \in places : i <= g - 1}) + 1
        /\ Nth(places, Cardinality(places)) = w
    BY ONLY <1>11, NthLast
  <2>2. {i \in places : i <= g - 1} \in SUBSET (1..n)
    BY ONLY <1>11
  <2>3. c \in Nat
    BY ONLY <2>2, n \in Nat, c = Cardinality({i \in places : i <= g - 1}), PlacesFinite
  <2> QED BY <2>1, <2>3
<1>13. words = [k \in 1..(c + 1) |-> <<s[Nth(places, k)]>>]
  <2>1. words = [k \in 1..Cardinality(places) |-> <<s[Nth(places, k)]>>]
    BY ParsedWords
  <2> QED BY <1>12, <2>1
<1>14. argv = [k \in 1..c |-> <<s[Nth(places, k)]>>]
  <2>1. g - 1 \in 0..Len(s)
    BY <1>0
  <2>2. WordsIn(SubSeq(s, 1, g - 1)) =
          [k \in 1..Cardinality({i \in places : i <= g - 1}) |-> <<s[Nth(places, k)]>>]
    BY ONLY <1>1, <2>1, places = WordPlaces(s), FrontWords
  <2> QED BY <2>2, Zenon
<1>15. g > 1
  <2>1. CASE g = 1
    <3>1. {i \in places : i <= g - 1} = {}
      BY <1>11, <2>1
    <3>2. c = 0
      BY <3>1, FS_EmptySet
    <3>3. argv = << >>
      BY ONLY <1>14, <3>2
    <3> QED BY <1>5, <3>3
  <2> QED BY <1>0, <2>1
<1>16. {k \in 1..Len(words) : words[k] = output} = {c + 1}
  <2>1. Len(words) = c + 1 /\ words[c + 1] = output
    BY ONLY <1>10, <1>12, <1>13
  <2>2. \A k \in 1..c : words[k] # output
    <3>1. \A k \in 1..c : words[k] = argv[k]
      BY ONLY <1>12, <1>13, <1>14
    <3>2. Len(argv) = c
      BY ONLY <1>12, <1>14
    <3> QED BY <1>5, <3>1, <3>2 DEF Contains
  <2> QED BY ONLY <1>12, <2>1, <2>2
<1>17. DiscardOutput(words, output) = argv
  <2>1. Min({c + 1}) = c + 1
    BY <1>12 DEF Min
  <2>2. c + 1 # 0 /\ c + 1 - 1 = c
    BY <1>12
  <2>3. SelectInSeq(words, LAMBDA x : x = output) = c + 1
    BY <1>16, <2>1, Zenon DEF SelectInSeq
  <2>4. DiscardOutput(words, output) = SubSeq(words, 1, c)
    <3> PICK i : i = c + 1
      OBVIOUS
    <3>1. SelectInSeq(words, LAMBDA x : x = output) = i /\ i # 0
      BY <2>2, <2>3
    <3>2. DiscardOutput(words, output) = SubSeq(words, 1, i - 1)
      BY <3>1, Zenon DEF DiscardOutput
    <3>3. i - 1 = c
      BY ONLY <1>12, i = c + 1
    <3> QED BY ONLY <3>2, <3>3
  <2>5. IsSequence(words) /\ Len(words) = c + 1
    BY ONLY <1>12, <1>13 DEF IsSequence
  <2>6. 1 \in 1..(Len(words) + 1) /\ c \in (1 - 1)..Len(words)
    BY ONLY <1>12, <2>5
  <2>7. SubSeq(words, 1, c) = [k \in 1..(c - 1 + 1) |-> words[1 + k - 1]]
    BY ONLY <2>5, <2>6, Piece
  <2>8. SubSeq(words, 1, c) = [k \in 1..c |-> <<s[Nth(places, k)]>>]
    BY ONLY <1>12, <1>13, <2>7
  <2> QED BY <1>14, <2>4, <2>8, Zenon
<1>18. cmd.argv = argv /\ cmd.output = output
  <2>1. /\ cmd.argv = DiscardOutput(words, found.output)
        /\ cmd.output = IF found.redirect THEN found.output ELSE << >>
    BY ONLY cmd = Command(s), Command(s).op = "run", found = SearchForRedirection(s),
            words = ParseStringIntoArray(s), CommandIs
  <2>2. found.redirect /\ found.output = output
    BY <1>8, <1>10, <1>15, Zenon
  <2> QED BY <1>17, <2>1, <2>2, Zenon
<1> QED BY ONLY <1>3, <1>18, cmd = Command(s)

\* A program gets what its command says.
LEMMA CommandWritten ==
  ASSUME NEW s, IsText(s), Plain(s), Command(s).op = "run"
  PROVE  [argv |-> Command(s).argv, output |-> Command(s).output] = Written(s)
<1> PICK gts : gts = {i \in 1..Len(s) : s[i] = ">"}
  OBVIOUS
<1>1. CASE gts = {}
  BY <1>1, WrittenWithout
<1>2. CASE gts # {}
  <2> PICK g : g = Min(gts)
    OBVIOUS
  <2>0. Len(s) \in Nat /\ gts \in SUBSET (1..Len(s))
    BY DEF IsText, IsLine, IsSequence
  <2>1. g \in gts /\ \A i \in gts : g <= i
    BY ONLY <1>2, <2>0, g = Min(gts), Extremes
  <2>2. g \in 1..Len(s) /\ s[g] = ">" /\ \A i \in 1..(g - 1) : s[i] # ">"
    BY ONLY <2>0, <2>1, gts = {i \in 1..Len(s) : s[i] = ">"}
  <2> QED BY <2>2, WrittenRedirected
<1> QED BY <1>1, <1>2

\* A piece between two & is a text.
LEMMA PieceIsText ==
  ASSUME NEW s, IsLine(s), NEW i \in 1..Len(s), NEW e \in i..Len(s), \A j \in i..e : s[j] # "&"
  PROVE  IsText(SubSeq(s, i, e))
<1> PICK n \in Nat : n = Len(s)
  BY DEF IsLine, IsSequence
<1> PICK t : t = SubSeq(s, i, e)
  OBVIOUS
<1>0. n \in Nat /\ i \in 1..n /\ e \in i..n
  OBVIOUS
<1>1. IsSequence(s)
  BY DEF IsLine
<1>2. IsSequence(t) /\ Len(t) = e - i + 1 /\ \A j \in 1..Len(t) : t[j] = s[i + j - 1]
  <2>1. i \in 1..(Len(s) + 1) /\ e \in (i - 1)..Len(s)
    BY <1>0
  <2>2. IsSequence(t) /\ Len(t) = e - i + 1 /\ t = [j \in 1..(e - i + 1) |-> s[i + j - 1]]
    BY ONLY <1>1, <2>1, t = SubSeq(s, i, e), Piece
  <2> QED BY ONLY <2>2
<1>3. \A j \in 1..Len(t) : t[j] # "&"
  <2> SUFFICES ASSUME NEW j \in 1..Len(t) PROVE t[j] # "&"
    OBVIOUS
  <2>1. i + j - 1 \in i..e /\ t[j] = s[i + j - 1]
    BY <1>0, <1>2
  <2> QED BY <2>1
<1>4. DOMAIN t = 1..Len(t) /\ DOMAIN s = 1..n
  BY <1>1, <1>2 DEF IsSequence
<1>5. ASSUME NEW j \in DOMAIN t, t[j] = "\n" PROVE j = Len(t)
  <2>1. j \in 1..Len(t) /\ i + j - 1 \in 1..n /\ i + j - 1 <= e
    BY <1>0, <1>2, <1>4
  <2>2. s[i + j - 1] = "\n"
    BY <1>2, <1>5, <2>1
  <2>3. i + j - 1 = n
    BY <1>4, <2>1, <2>2 DEF IsLine
  <2> QED BY <1>0, <1>2, <2>1, <2>3
<1>6. ASSUME NEW j \in 1..(Len(t) - 1) PROVE t[j] \in Marks \/ t[j + 1] \in Marks
  <2>1. j \in 1..Len(t) /\ j + 1 \in 1..Len(t) /\ i + j - 1 \in 1..(n - 1)
        /\ i + (j + 1) - 1 = i + j - 1 + 1
    BY <1>0, <1>2
  <2>2. s[i + j - 1] \in Marks \/ s[i + j - 1 + 1] \in Marks
    BY <2>1 DEF IsLine
  <2>3. t[j] = s[i + j - 1] /\ t[j + 1] = s[i + j - 1 + 1]
    BY ONLY <1>2, <2>1
  <2> QED BY <2>2, <2>3
<1> QED BY <1>2, <1>3, <1>5, <1>6 DEF IsText, IsLine

LEMMA TokenIsText ==
  ASSUME NEW s, IsLine(s), NEW k \in DOMAIN Strtok(s, {"&"}) PROVE IsText(Strtok(s, {"&"})[k])
<1> PICK n \in Nat : n = Len(s)
  BY DEF IsLine, IsSequence
<1> DEFINE in(j)   == j \in DOMAIN s /\ s[j] \notin {"&"}
           last(i) == Min({j \in i..Len(s) : ~in(j + 1)})
<1> PICK first : first = {i \in DOMAIN s : in(i) /\ ~in(i - 1)}
  OBVIOUS
<1>0. DOMAIN s = 1..n
  BY DEF IsLine, IsSequence
<1>1. Strtok(s, {"&"}) = [l \in 1..Cardinality(first) |->
                            SubSeq(s, Nth(first, l), last(Nth(first, l)))]
  BY DEF Strtok
<1> PICK i : i = Nth(first, k)
  OBVIOUS
<1>2. i \in 1..n /\ in(i)
  <2>1. k \in 1..Cardinality(first)
    BY <1>1
  <2>2. first \in SUBSET (1..n)
    BY <1>0
  <2>3. i \in first
    BY <2>1, <2>2, NthIs
  <2> QED BY <1>0, <2>3
<1> PICK ends : ends = {j \in i..n : ~in(j + 1)}
  OBVIOUS
<1> PICK e : e = last(i)
  OBVIOUS
<1>3. e \in ends /\ \A j \in ends : e <= j
  <2>1. n \in ends /\ ends \in SUBSET (1..n)
    <3>1. ~in(n + 1)
      BY <1>0
    <3>2. n \in i..n /\ \A j \in i..n : j \in 1..n
      BY <1>2
    <3> HIDE DEF in
    <3> QED BY <3>1, <3>2
  <2>2. e = Min(ends) /\ ends # {}
    BY <2>1
  <2> QED BY ONLY <2>1, <2>2, n \in Nat, Extremes
<1>4. \A j \in i..e : s[j] # "&"
  <2> SUFFICES ASSUME NEW j \in i..e PROVE in(j)
    OBVIOUS
  <2>1. CASE j = i
    BY <1>2, <2>1
  <2>2. CASE j # i
    <3>1. j - 1 \in i..n /\ j - 1 < e /\ j - 1 + 1 = j
      BY <1>2, <1>3, <2>2
    <3>2. j - 1 \notin ends
      <4>1. e \in i..n /\ i \in 1..n
        BY <1>2, <1>3
      <4> QED BY ONLY <1>3, <3>1, <4>1, n \in Nat
    <3> QED BY <3>1, <3>2
  <2> QED BY <2>1, <2>2
<1>5. Strtok(s, {"&"})[k] = SubSeq(s, i, e)
  <2> HIDE DEF last
  <2>1. k \in 1..Cardinality(first)
    BY <1>1
  <2> QED BY <1>1, <2>1
<1>6. i \in 1..Len(s) /\ e \in i..Len(s)
  BY <1>2, <1>3
<1> QED BY <1>4, <1>5, <1>6, PieceIsText

------------------------------------------------------------------------------
(* Sums                                                                     *)

LEMMA TotalChange ==
  ASSUME NEW S, NEW F, F \subseteq S, IsFiniteSet(F), NEW p \in S,
         NEW w, DOMAIN w = S, NEW v, DOMAIN v = S,
         \A q \in S : q \notin F => w[q] = 0,
         \A q \in S : q # p => v[q] = w[q],
         w[p] \in 0..2, v[p] \in 0..2
  PROVE  /\ Total(w) \in Nat /\ Total(v) \in Nat
         /\ Total(v) + w[p] = Total(w) + v[p]
         /\ w[p] <= Total(w)
<1> DEFINE Rest == {x \in S \X (1..2) : x[1] # p /\ x[2] <= w[x[1]]}
           At(n) == {x \in S \X (1..2) : x[1] = p /\ x[2] <= n}
<1>1. IsFiniteSet(Rest) /\ Cardinality(Rest) \in Nat
  <2>1. IsFiniteSet(F \X (1..2))
    <3>1. IsFiniteSet(1..2)
      <4>1. 1 \in Int /\ 2 \in Int
        OBVIOUS
      <4> QED BY ONLY <4>1, FS_Interval
    <3> QED BY <3>1, FS_Product
  <2>2. \A q \in S, i \in 1..2 : i <= w[q] => q \in F
    <3> SUFFICES ASSUME NEW q \in S, NEW i \in 1..2, i <= w[q], q \notin F PROVE FALSE
      OBVIOUS
    <3>1. w[q] = 0
      OBVIOUS
    <3> QED BY ONLY <3>1, i \in 1..2, i <= w[q]
  <2>3. Rest \subseteq F \X (1..2)
    BY <2>2
  <2> HIDE DEF Rest
  <2> QED BY <2>1, <2>3, FS_Subset, FS_CardinalityType
<1>2. ASSUME NEW x \in 0..2 PROVE IsFiniteSet(At(x)) /\ Cardinality(At(x)) = x
  <2>1. CASE x = 0
    <3>1. At(x) = {}
      BY <2>1
    <3> QED BY <2>1, <3>1, FS_EmptySet
  <2>2. CASE x = 1
    <3>1. At(x) = {<<p, 1>>}
      BY <2>2
    <3> HIDE DEF At
    <3> QED BY <2>2, <3>1, FS_Singleton
  <2>3. CASE x = 2
    <3>1. At(x) = {<<p, 1>>} \cup {<<p, 2>>}
      BY <2>3
    <3>2. <<p, 2>> \notin {<<p, 1>>}
      OBVIOUS
    <3> HIDE DEF At
    <3>3. IsFiniteSet({<<p, 1>>}) /\ Cardinality({<<p, 1>>}) = 1
      BY FS_Singleton
    <3>4. IsFiniteSet(At(x)) /\ Cardinality(At(x)) = 1 + 1
      <4> PICK a : a = {<<p, 1>>}
        OBVIOUS
      <4> PICK b : b = <<p, 2>>
        OBVIOUS
      <4>1. IsFiniteSet(a \cup {b}) /\ Cardinality(a \cup {b}) = Cardinality(a) + 1
        BY <3>2, <3>3, FS_AddElement
      <4> QED BY <3>1, <3>3, <4>1
    <3> QED BY <2>3, <3>4
  <2> QED BY <2>1, <2>2, <2>3
<1>3. ASSUME NEW u, DOMAIN u = S, u[p] \in 0..2, \A q \in S : q # p => u[q] = w[q]
      PROVE  Total(u) = Cardinality(Rest) + u[p]
  <2> PICK x \in 0..2 : x = u[p]
    BY <1>3
  <2>1. {y \in S \X (1..2) : y[2] <= u[y[1]]} = Rest \cup At(x)
    BY <1>3
  <2>2. Rest \cap At(x) = {}
    OBVIOUS
  <2>3. IsFiniteSet(At(x)) /\ Cardinality(At(x)) = x
    BY <1>2
  <2> HIDE DEF Rest, At
  <2>4. Cardinality(Rest \cup At(x)) = Cardinality(Rest) + Cardinality(At(x)) - Cardinality({})
    BY <1>1, <2>2, <2>3, FS_Union
  <2>5. Cardinality({}) = 0
    BY FS_EmptySet
  <2>6. Total(u) = Cardinality(Rest \cup At(x))
    BY <1>3, <2>1 DEF Total
  <2> QED BY ONLY <1>1, x \in 0..2, x = u[p], <2>3, <2>4, <2>5, <2>6
<1> HIDE DEF Rest
<1>4. Total(w) = Cardinality(Rest) + w[p] /\ Total(v) = Cardinality(Rest) + v[p]
  BY <1>3
<1> QED BY <1>1, <1>4

\* Nothing adds up to nothing.
LEMMA TotalZero ==
  ASSUME NEW w, \A q \in DOMAIN w : w[q] = 0 PROVE Total(w) = 0
<1>1. {x \in (DOMAIN w) \X (1..2) : x[2] <= w[x[1]]} = {}
  <2>1. \A k \in DOMAIN w, i \in 1..2 : ~(i <= w[k])
    <3> SUFFICES ASSUME NEW k \in DOMAIN w, NEW i \in 1..2, i <= w[k] PROVE FALSE
      OBVIOUS
    <3>1. w[k] = 0
      OBVIOUS
    <3> QED BY ONLY <3>1, i \in 1..2, i <= w[k]
  <2> QED BY <2>1
<1> QED BY <1>1, FS_EmptySet DEF Total

\* One value is its own sum.
LEMMA TotalOne ==
  ASSUME NEW w, DOMAIN w = {1}, w[1] \in 0..2 PROVE Total(w) = w[1]
<1> PICK zero : zero = [k \in {1} |-> 0]
  OBVIOUS
<1>1. Total(zero) = 0
  BY TotalZero
<1>2. IsFiniteSet({1})
  BY FS_Singleton
<1>3. /\ DOMAIN zero = {1} /\ zero[1] = 0
      /\ \A q \in {1} : q # 1 => w[q] = zero[q]
      /\ \A q \in {1} : q \notin {1} => zero[q] = 0
  OBVIOUS
<1>4. Total(zero) \in Nat /\ Total(w) \in Nat /\ Total(w) + zero[1] = Total(zero) + w[1]
  <2> PICK S : S = {1}
    OBVIOUS
  <2>1. DOMAIN w = S /\ DOMAIN zero = S /\ 1 \in S /\ IsFiniteSet(S) /\ S \subseteq S
    BY <1>2, <1>3
  <2>2. zero[1] \in 0..2 /\ w[1] \in 0..2
    BY <1>3
  <2>3. \A q \in S : q # 1 => w[q] = zero[q]
    BY <1>3
  <2>4. \A q \in S : q \notin S => zero[q] = 0
    OBVIOUS
  <2> QED BY ONLY <2>1, <2>2, <2>3, <2>4, TotalChange
<1> QED BY <1>1, <1>3, <1>4

LEMMA TotalNat ==
  ASSUME NEW w, IsFiniteSet(DOMAIN w) PROVE Total(w) \in Nat
<1>1. IsFiniteSet(1..2)
  <2>1. 1 \in Int /\ 2 \in Int
    OBVIOUS
  <2> QED BY ONLY <2>1, FS_Interval
<1>2. IsFiniteSet((DOMAIN w) \X (1..2))
  BY <1>1, FS_Product
<1> PICK some : some = {x \in (DOMAIN w) \X (1..2) : x[2] <= w[x[1]]}
  OBVIOUS
<1>3. some \subseteq (DOMAIN w) \X (1..2)
  OBVIOUS
<1>4. Cardinality(some) \in Nat
  BY ONLY <1>2, <1>3, FS_Subset, FS_CardinalityType
<1> QED BY <1>4 DEF Total

LEMMA SequenceFinite == ASSUME NEW s, IsSequence(s) PROVE IsFiniteSet(DOMAIN s)
<1> PICK n \in Nat : n = Len(s) /\ DOMAIN s = 1..n
  BY DEF IsSequence
<1>1. 1 \in Int /\ n \in Int
  OBVIOUS
<1> QED BY ONLY DOMAIN s = 1..n, <1>1, FS_Interval

------------------------------------------------------------------------------
(* What a command leads to                                                  *)

\* A command leads to at most two messages.
Counted(cmd) == cmd.op = "bad" => cmd.errs \in 0..2

LEMMA MessagesFew ==
  ASSUME NEW cmd, Counted(cmd), NEW e
  PROVE  /\ Messages(cmd, e) \in 0..2
         /\ cmd.op = "runaway" => Messages(cmd, e) = 0
         /\ cmd.op = "run" => Messages(cmd, e) = IF Found(cmd, e) THEN 0 ELSE 1
<1>1. cmd.op = "bad" => Messages(cmd, e) = cmd.errs
  BY DEF Messages
<1>2. cmd.op # "bad" => Messages(cmd, e) \in {0, 1}
  BY DEF Messages
<1>3. cmd.op = "runaway" => Messages(cmd, e) = 0
  BY DEF Messages
<1>4. cmd.op = "run" => Messages(cmd, e) = IF Found(cmd, e) THEN 0 ELSE 1
  BY DEF Messages
<1> QED BY <1>1, <1>2, <1>3, <1>4 DEF Counted

LEMMA ErrorsFew == ASSUME NEW s PROVE SearchForRedirection(s).errs \in {0, 1, 2}
<1> PICK t, gts, r, after, ends : Search(s, t, gts, r, after, ends)
  BY SearchIs
<1>1. SearchForRedirection(s).errs =
        IF r = 0 THEN 0
        ELSE IF ends # {} THEN (IF after[Min(ends)] = ">" THEN 2 ELSE 1)
        ELSE IF after = << >> THEN 1 ELSE 0
  BY Zenon DEF Search
<1> QED BY ONLY <1>1

LEMMA CommandCounted == ASSUME NEW s PROVE Counted(Command(s))
<1>1. Command(s).errs = SearchForRedirection(s).errs
  BY DEF Command
<1>2. SearchForRedirection(s).errs \in 0..2
  BY ErrorsFew
<1> QED BY <1>1, <1>2 DEF Counted

------------------------------------------------------------------------------
(* What lines come to                                                       *)

Fresh == [env |-> Start, errs |-> 0, over |-> FALSE, runaways |-> 0]

\* OneByOne computes what its definition says.
LEMMA OneByOneIs ==
  ASSUME NEW lines, Len(lines) \in Nat
  PROVE  /\ OneByOne(lines)[0] = Fresh
         /\ \A i \in 1..Len(lines) : OneByOne(lines)[i] = Carry(OneByOne(lines)[i - 1], lines[i])
<1> PICK n \in Nat : n = Len(lines)
  OBVIOUS
<1> DEFINE Next1(g, i) == IF i = 0 THEN Fresh ELSE Carry(g[i - 1], lines[i])
           Long(m) == \E h : /\ h = [i \in 0..m |-> h[i]]
                             /\ \A i \in 0..m : h[i] = Next1(h, i)
           Good == {m \in Nat : Long(m)}
<1>1. 0 \in Good
  <2> PICK h : h = [i \in 0..0 |-> Fresh]
    OBVIOUS
  <2>1. h = [i \in 0..0 |-> h[i]] /\ \A i \in 0..0 : h[i] = Next1(h, i)
    OBVIOUS
  <2> QED BY <2>1
<1>2. ASSUME NEW m \in Nat, m \in Good PROVE m + 1 \in Good
  <2> PICK h : h = [i \in 0..m |-> h[i]] /\ \A i \in 0..m : h[i] = Next1(h, i)
    BY <1>2
  <2> PICK x : x = Carry(h[m], lines[m + 1])
    OBVIOUS
  <2> PICK H : H = [i \in 0..(m + 1) |-> IF i <= m THEN h[i] ELSE x]
    OBVIOUS
  <2>1. H = [i \in 0..(m + 1) |-> H[i]]
    OBVIOUS
  <2>2. H[m + 1] = x /\ H[m + 1 - 1] = h[m] /\ \A i \in 0..m : H[i] = h[i]
    OBVIOUS
  <2>3. H[m + 1] = Next1(H, m + 1)
    <3>1. m + 1 # 0
      OBVIOUS
    <3>2. H[m + 1] = Carry(H[m + 1 - 1], lines[m + 1])
      BY <2>2
    <3> HIDE DEF Fresh
    <3> QED BY ONLY <3>1, <3>2
  <2>4. \A i \in 0..m : H[i] = Next1(H, i)
    <3> TAKE i \in 0..m
    <3>1. CASE i = 0
      BY <2>2, <3>1
    <3>2. CASE i # 0
      <4>1. i - 1 \in 0..m
        BY <3>2
      <4>2. H[i] = h[i] /\ H[i - 1] = h[i - 1]
        BY <2>2, <4>1
      <4>3. h[i] = Carry(h[i - 1], lines[i])
        BY <3>2
      <4> QED BY <3>2, <4>2, <4>3
    <3> QED BY <3>1, <3>2
  <2> HIDE DEF Next1
  <2>5. \A i \in 0..(m + 1) : H[i] = Next1(H, i)
    <3>1. \A i \in 0..(m + 1) : i \in 0..m \/ i = m + 1
      OBVIOUS
    <3> QED BY ONLY <2>3, <2>4, <3>1, Zenon
  <2>6. Long(m + 1)
    BY <2>1, <2>5
  <2> QED BY <2>6
<1> HIDE DEF Good, Next1
<1>3. n \in Good
  BY <1>1, <1>2, Induction
<1> PICK h : h = [i \in 0..n |-> h[i]] /\ \A i \in 0..n : h[i] = Next1(h, i)
  BY <1>3 DEF Good
<1> PICK g : g = OneByOne(lines)
  OBVIOUS
<1>4. g = CHOOSE f : f = [i \in 0..n |-> Next1(f, i)]
  BY DEF OneByOne, Next1, Fresh
<1>5. h = [i \in 0..n |-> Next1(h, i)]
  OBVIOUS
<1>6. g = [i \in 0..n |-> Next1(g, i)]
  BY <1>4, <1>5, Zenon
<1>7. \A i \in 0..n : g[i] = Next1(g, i)
  BY <1>6
<1>8. g[0] = Fresh
  BY <1>7 DEF Next1
<1>9. \A i \in 1..n : g[i] = Carry(g[i - 1], lines[i])
  <2> TAKE i \in 1..n
  <2>1. i \in 0..n /\ i # 0
    OBVIOUS
  <2> QED BY <1>7, <2>1 DEF Next1
<1> QED BY <1>8, <1>9

\* What a line of either shell says.
Fine(says) ==
  /\ IsSequence(says.commands) /\ \A k \in DOMAIN says.commands : Counted(says.commands[k])
  /\ says.kind = "blank" => says.commands = << >>
  /\ says.kind \in {"single", "first"} => DOMAIN says.commands = {1}
  /\ says.kind = "first" => says.commands[1].op \in {"none", "exit", "cd", "path", "run"}

\* What lines come to.
Account(x) ==
  /\ x = [env |-> x.env, errs |-> x.errs, over |-> x.over, runaways |-> x.runaways]
  /\ x.errs \in Nat /\ x.over \in BOOLEAN /\ x.runaways \in Nat

AllMessages(cmds, e) == Total([k \in DOMAIN cmds |-> Messages(cmds[k], e)])

AllRunaways(cmds) == Total([k \in DOMAIN cmds |-> IF cmds[k].op = "runaway" THEN 1 ELSE 0])

LEMMA AllNat ==
  ASSUME NEW cmds, IsFiniteSet(DOMAIN cmds), NEW e
  PROVE  AllMessages(cmds, e) \in Nat /\ AllRunaways(cmds) \in Nat
<1> PICK w, v : /\ w = [k \in DOMAIN cmds |-> Messages(cmds[k], e)]
                /\ v = [k \in DOMAIN cmds |-> IF cmds[k].op = "runaway" THEN 1 ELSE 0]
  OBVIOUS
<1>1. IsFiniteSet(DOMAIN w) /\ IsFiniteSet(DOMAIN v)
  OBVIOUS
<1>2. Total(w) \in Nat /\ Total(v) \in Nat
  BY ONLY <1>1, TotalNat
<1> QED BY <1>2 DEF AllMessages, AllRunaways

LEMMA CarryOver ==
  ASSUME NEW x, Account(x), NEW says, x.over \/ says.kind = "amp"
  PROVE  /\ Carry(x, says).env = x.env /\ Carry(x, says).errs = x.errs
         /\ Carry(x, says).runaways = x.runaways /\ Carry(x, says).over
         /\ Account(Carry(x, says))
<1> PICK y : y = [x EXCEPT !.over = TRUE]
  OBVIOUS
<1>1. Carry(x, says) = y
  BY Zenon DEF Carry
<1>2. y = [env |-> x.env, errs |-> x.errs, over |-> TRUE, runaways |-> x.runaways]
  BY DEF Account
<1>3. y.env = x.env /\ y.errs = x.errs /\ y.over = TRUE /\ y.runaways = x.runaways
  BY ONLY <1>2
<1> QED BY <1>1, <1>2, <1>3 DEF Account

LEMMA CarryIs ==
  ASSUME NEW x, NEW says, ~x.over, says.kind # "amp",
         NEW cmds, cmds = IF says.kind = "first" /\ says.redirection = "found" THEN << >>
                          ELSE says.commands,
         NEW alone, alone = (cmds # << >> /\ (says.kind = "first" \/ says.kind = "single"))
  PROVE  /\ Carry(x, says).env =
              IF ~alone THEN x.env
              ELSE IF says.kind = "first" THEN FirstChanged(cmds[1], x.env)
              ELSE Changed(cmds[1], x.env)
         /\ Carry(x, says).errs = x.errs + AllMessages(cmds, x.env)
                                   + (IF says.kind = "first" THEN FirstErrors(says) ELSE 0)
         /\ Carry(x, says).over = (alone /\ Leaves(cmds[1]))
         /\ Carry(x, says).runaways = x.runaways + AllRunaways(cmds)
         /\ Carry(x, says) =
              [env |-> Carry(x, says).env, errs |-> Carry(x, says).errs,
               over |-> Carry(x, says).over, runaways |-> Carry(x, says).runaways]
<1> DEFINE First == says.kind = "first"
           Cmds == IF First /\ says.redirection = "found" THEN << >> ELSE says.commands
           Alone == Cmds # << >> /\ (First \/ says.kind = "single")
           Env == IF ~Alone THEN x.env
                  ELSE IF First THEN FirstChanged(Cmds[1], x.env)
                  ELSE Changed(Cmds[1], x.env)
           Errs == x.errs + Total([k \in DOMAIN Cmds |-> Messages(Cmds[k], x.env)])
                     + (IF First THEN FirstErrors(says) ELSE 0)
           Over == Alone /\ Leaves(Cmds[1])
           Runaways == x.runaways
                         + Total([k \in DOMAIN Cmds |-> IF Cmds[k].op = "runaway" THEN 1 ELSE 0])
<1>1. Carry(x, says) =
        IF x.over \/ says.kind = "amp" THEN [x EXCEPT !.over = TRUE]
        ELSE [env |-> Env, errs |-> Errs, over |-> Over, runaways |-> Runaways]
  BY DEF Carry
<1>2. Carry(x, says) = [env |-> Env, errs |-> Errs, over |-> Over, runaways |-> Runaways]
  <2> HIDE DEF Env, Errs, Over, Runaways
  <2> QED BY <1>1
<1>3. /\ Carry(x, says).env = Env /\ Carry(x, says).errs = Errs
      /\ Carry(x, says).over = Over /\ Carry(x, says).runaways = Runaways
  <2> HIDE DEF Env, Errs, Over, Runaways
  <2> QED BY ONLY <1>2
<1>4. cmds = Cmds
  OBVIOUS
<1> HIDE DEF Cmds
<1>5. alone = Alone
  BY <1>4
<1> HIDE DEF Alone
<1>6. /\ Env = IF ~alone THEN x.env
               ELSE IF says.kind = "first" THEN FirstChanged(cmds[1], x.env)
               ELSE Changed(cmds[1], x.env)
      /\ Over = (alone /\ Leaves(cmds[1]))
  BY ONLY <1>4, <1>5, Zenon DEF Env, Over, First
<1>7. /\ Errs = x.errs + AllMessages(cmds, x.env)
                  + (IF says.kind = "first" THEN FirstErrors(says) ELSE 0)
      /\ Runaways = x.runaways + AllRunaways(cmds)
  BY ONLY <1>4 DEF Errs, Runaways, First, AllMessages, AllRunaways
<1> HIDE DEF Env, Errs, Over, Runaways
<1>8. Carry(x, says) =
        [env |-> Carry(x, says).env, errs |-> Carry(x, says).errs,
         over |-> Carry(x, says).over, runaways |-> Carry(x, says).runaways]
  BY ONLY <1>2, <1>3
<1> QED BY ONLY <1>3, <1>6, <1>7, <1>8, Zenon

\* A line only adds messages, and none once the shell is to be left.
LEMMA CarryGrows ==
  ASSUME NEW x, Account(x), NEW says, Fine(says)
  PROVE  /\ Account(Carry(x, says))
         /\ x.errs <= Carry(x, says).errs /\ x.runaways <= Carry(x, says).runaways
         /\ x.over => /\ Carry(x, says).over /\ Carry(x, says).env = x.env
                      /\ Carry(x, says).errs = x.errs /\ Carry(x, says).runaways = x.runaways
<1> PICK y : y = Carry(x, says)
  OBVIOUS
<1>1. CASE x.over \/ says.kind = "amp"
  <2>1. /\ y.env = x.env /\ y.errs = x.errs /\ y.runaways = x.runaways
        /\ y.over /\ Account(y)
    BY <1>1, CarryOver
  <2>2. x.errs \in Nat /\ x.runaways \in Nat
    BY DEF Account
  <2> QED BY ONLY y = Carry(x, says), <2>1, <2>2
<1>2. CASE ~x.over /\ says.kind # "amp"
  <2> PICK cmds : cmds = IF says.kind = "first" /\ says.redirection = "found" THEN << >>
                         ELSE says.commands
    OBVIOUS
  <2> PICK alone : alone = (cmds # << >> /\ (says.kind = "first" \/ says.kind = "single"))
    OBVIOUS
  <2>1. /\ y.errs = x.errs + AllMessages(cmds, x.env)
                     + (IF says.kind = "first" THEN FirstErrors(says) ELSE 0)
        /\ y.over = (alone /\ Leaves(cmds[1]))
        /\ y.runaways = x.runaways + AllRunaways(cmds)
        /\ y = [env |-> y.env, errs |-> y.errs, over |-> y.over, runaways |-> y.runaways]
    BY <1>2, CarryIs
  <2>2. IsFiniteSet(DOMAIN cmds)
    <3>1. CASE cmds = << >>
      <4>1. DOMAIN cmds = {}
        BY <3>1
      <4> QED BY <4>1, FS_EmptySet
    <3>2. CASE cmds = says.commands
      BY <3>2, SequenceFinite DEF Fine
    <3> QED BY <3>1, <3>2
  <2>3. AllMessages(cmds, x.env) \in Nat /\ AllRunaways(cmds) \in Nat
    BY <2>2, AllNat
  <2> PICK m \in Nat : m = IF says.kind = "first" THEN FirstErrors(says) ELSE 0
    BY DEF FirstErrors
  <2>5. y.over \in BOOLEAN
    BY ONLY <2>1, Zenon
  <2>6. x.errs \in Nat /\ x.runaways \in Nat
    BY DEF Account
  <2>7. y.errs = x.errs + AllMessages(cmds, x.env) + m
    BY ONLY <2>1, m = IF says.kind = "first" THEN FirstErrors(says) ELSE 0
  <2>8. y.errs \in Nat /\ y.runaways \in Nat /\ x.errs <= y.errs /\ x.runaways <= y.runaways
    BY ONLY <2>1, <2>3, <2>6, <2>7, m \in Nat
  <2>9. Account(y)
    BY ONLY <2>1, <2>5, <2>8, Zenon DEF Account
  <2> QED BY ONLY y = Carry(x, says), <1>2, <2>8, <2>9, Zenon
<1> QED BY <1>1, <1>2

\* What lines come to grows with them, and once the shell is to be left it stays.
LEMMA OneByOneGrows ==
  ASSUME NEW lines, Len(lines) \in Nat, \A i \in 1..Len(lines) : Fine(lines[i])
  PROVE  \A j \in 0..Len(lines) :
           /\ Account(OneByOne(lines)[j])
           /\ \A i \in 0..j :
                /\ OneByOne(lines)[i].errs <= OneByOne(lines)[j].errs
                /\ OneByOne(lines)[i].runaways <= OneByOne(lines)[j].runaways
                /\ OneByOne(lines)[i].over =>
                     /\ OneByOne(lines)[j].env = OneByOne(lines)[i].env
                     /\ OneByOne(lines)[j].errs = OneByOne(lines)[i].errs
                     /\ OneByOne(lines)[j].runaways = OneByOne(lines)[i].runaways
                     /\ OneByOne(lines)[j].over
<1> PICK n \in Nat : n = Len(lines)
  OBVIOUS
<1> PICK A : A = OneByOne(lines)
  OBVIOUS
<1>1. A[0] = Fresh /\ \A i \in 1..n : A[i] = Carry(A[i - 1], lines[i])
  BY OneByOneIs
<1> DEFINE Grown(x, y) == /\ x.errs <= y.errs /\ x.runaways <= y.runaways
                          /\ x.over => /\ y.env = x.env /\ y.errs = x.errs
                                       /\ y.runaways = x.runaways /\ y.over
           Good == {j \in Nat : j <= n => \A i \in 0..j : Account(A[i]) /\ Grown(A[i], A[j])}
<1>2. ASSUME NEW x, Account(x) PROVE Grown(x, x)
  BY <1>2 DEF Account
<1>3. 0 \in Good
  <2>1. Account(Fresh)
    BY DEF Account, Fresh
  <2>2. \A i \in 0..0 : i = 0
    OBVIOUS
  <2> HIDE DEF Grown
  <2> QED BY <1>1, <1>2, <2>1, <2>2
<1>4. ASSUME NEW m \in Nat, m \in Good PROVE m + 1 \in Good
  <2> SUFFICES ASSUME m + 1 <= n
               PROVE  \A i \in 0..(m + 1) : Account(A[i]) /\ Grown(A[i], A[m + 1])
    OBVIOUS
  <2>1. \A i \in 0..m : Account(A[i]) /\ Grown(A[i], A[m])
    <3>1. m <= n
      OBVIOUS
    <3> HIDE DEF Grown
    <3> QED BY <1>4, <3>1
  <2>2. A[m + 1] = Carry(A[m], lines[m + 1]) /\ Fine(lines[m + 1])
    <3>1. m + 1 \in 1..n /\ m + 1 - 1 = m
      OBVIOUS
    <3> QED BY <1>1, <3>1
  <2>3. Account(A[m + 1]) /\ Grown(A[m], A[m + 1])
    <3>1. m \in 0..m
      OBVIOUS
    <3>2. Account(A[m])
      BY <2>1, <3>1
    <3> QED BY <2>2, <3>2, CarryGrows
  <2>4. ASSUME NEW i \in 0..m PROVE Grown(A[i], A[m + 1])
    <3> PICK x, y, z : x = A[i] /\ y = A[m] /\ z = A[m + 1]
      OBVIOUS
    <3>1. Account(x) /\ Account(y) /\ Account(z)
      <4>1. m \in 0..m
        OBVIOUS
      <4> QED BY <2>1, <2>3, <4>1
    <3>2. Grown(x, y) /\ Grown(y, z)
      BY <2>1, <2>3
    <3>3. /\ x.errs \in Nat /\ y.errs \in Nat /\ z.errs \in Nat
          /\ x.runaways \in Nat /\ y.runaways \in Nat /\ z.runaways \in Nat
      BY ONLY <3>1 DEF Account
    <3>4. Grown(x, z)
      BY ONLY <3>2, <3>3
    <3> QED BY <3>4
  <2>5. \A i \in 0..(m + 1) : i \in 0..m \/ i = m + 1
    OBVIOUS
  <2> HIDE DEF Grown
  <2> QED BY <1>2, <2>1, <2>3, <2>4, <2>5
<1> HIDE DEF Good, Grown
<1>5. Nat \subseteq Good
  BY <1>3, <1>4, Induction
<1>6. ASSUME NEW j \in 0..n PROVE \A i \in 0..j : Account(A[i]) /\ Grown(A[i], A[j])
  BY <1>5 DEF Good
<1> QED BY <1>6 DEF Grown

\* What the lines of each kind come to.
LEMMA CarryQuiet ==
  ASSUME NEW x, Account(x), ~x.over, NEW says, Fine(says),
         says.kind = "blank" \/ (says.kind = "first" /\ says.redirection = "found")
  PROVE  /\ Carry(x, says).env = x.env /\ Carry(x, says).errs = x.errs
         /\ Carry(x, says).runaways = x.runaways /\ ~Carry(x, says).over
<1> PICK y : y = Carry(x, says)
  OBVIOUS
<1> PICK cmds : cmds = IF says.kind = "first" /\ says.redirection = "found" THEN << >>
                       ELSE says.commands
  OBVIOUS
<1>1. cmds = << >>
  BY DEF Fine
<1> PICK alone : alone = (cmds # << >> /\ (says.kind = "first" \/ says.kind = "single"))
  OBVIOUS
<1>2. /\ y.env = IF ~alone THEN x.env
                 ELSE IF says.kind = "first" THEN FirstChanged(cmds[1], x.env)
                 ELSE Changed(cmds[1], x.env)
      /\ y.errs = x.errs + AllMessages(cmds, x.env)
                   + (IF says.kind = "first" THEN FirstErrors(says) ELSE 0)
      /\ y.over = (alone /\ Leaves(cmds[1]))
      /\ y.runaways = x.runaways + AllRunaways(cmds)
  BY CarryIs
<1>3. ~alone
  BY <1>1
<1>4. says.kind = "first" => FirstErrors(says) = 0
  BY DEF FirstErrors
<1>5. DOMAIN cmds = {}
  BY <1>1
<1>6. AllMessages(cmds, x.env) = 0 /\ AllRunaways(cmds) = 0
  BY <1>5, TotalZero DEF AllMessages, AllRunaways
<1>7. x.errs \in Nat /\ x.runaways \in Nat
  BY DEF Account
<1>8. y.env = x.env /\ ~y.over
  BY ONLY <1>2, <1>3, Zenon
<1>9. y.errs = x.errs /\ y.runaways = x.runaways
  <2>1. /\ y.errs = x.errs + 0 + (IF says.kind = "first" THEN FirstErrors(says) ELSE 0)
        /\ y.runaways = x.runaways + 0
    BY ONLY <1>2, <1>6
  <2> QED BY ONLY <2>1, <1>4, <1>7
<1> QED BY ONLY y = Carry(x, says), <1>8, <1>9, Zenon

LEMMA CarryParallel ==
  ASSUME NEW x, Account(x), ~x.over, NEW says, Fine(says), says.kind = "parallel"
  PROVE  /\ Carry(x, says).env = x.env /\ ~Carry(x, says).over
         /\ Carry(x, says).errs = x.errs + AllMessages(says.commands, x.env)
         /\ Carry(x, says).runaways = x.runaways + AllRunaways(says.commands)
<1> PICK y : y = Carry(x, says)
  OBVIOUS
<1> PICK cmds : cmds = IF says.kind = "first" /\ says.redirection = "found" THEN << >>
                       ELSE says.commands
  OBVIOUS
<1>1. cmds = says.commands
  OBVIOUS
<1> PICK alone : alone = (cmds # << >> /\ (says.kind = "first" \/ says.kind = "single"))
  OBVIOUS
<1>2. /\ y.env = IF ~alone THEN x.env
                 ELSE IF says.kind = "first" THEN FirstChanged(cmds[1], x.env)
                 ELSE Changed(cmds[1], x.env)
      /\ y.errs = x.errs + AllMessages(cmds, x.env)
                   + (IF says.kind = "first" THEN FirstErrors(says) ELSE 0)
      /\ y.over = (alone /\ Leaves(cmds[1]))
      /\ y.runaways = x.runaways + AllRunaways(cmds)
  BY CarryIs
<1>3. ~alone /\ says.kind # "first"
  OBVIOUS
<1>4. y.env = x.env /\ ~y.over
  BY ONLY <1>2, <1>3, Zenon
<1>5. AllMessages(cmds, x.env) \in Nat
  BY <1>1, SequenceFinite, AllNat DEF Fine
<1>6. x.errs \in Nat
  BY DEF Account
<1>7. y.errs = x.errs + AllMessages(cmds, x.env)
  BY ONLY <1>2, <1>3, <1>5, <1>6
<1> QED BY ONLY y = Carry(x, says), <1>1, <1>2, <1>4, <1>7, Zenon

\* A line with one command.
LEMMA CarryAlone ==
  ASSUME NEW x, Account(x), ~x.over, NEW says, Fine(says),
         says.kind = "single" \/ (says.kind = "first" /\ says.redirection # "found"),
         NEW cmd, cmd = says.commands[1]
  PROVE  /\ Counted(cmd)
         /\ Carry(x, says).env = IF says.kind = "first" THEN FirstChanged(cmd, x.env)
                                 ELSE Changed(cmd, x.env)
         /\ Carry(x, says).errs = x.errs + Messages(cmd, x.env)
                                   + (IF says.kind = "first" THEN FirstErrors(says) ELSE 0)
         /\ Carry(x, says).over = Leaves(cmd)
         /\ Carry(x, says).runaways = x.runaways + (IF cmd.op = "runaway" THEN 1 ELSE 0)
<1> PICK y : y = Carry(x, says)
  OBVIOUS
<1> PICK cmds : cmds = IF says.kind = "first" /\ says.redirection = "found" THEN << >>
                       ELSE says.commands
  OBVIOUS
<1>1. cmds = says.commands /\ DOMAIN cmds = {1} /\ cmds[1] = cmd
  BY DEF Fine
<1> PICK alone : alone = (cmds # << >> /\ (says.kind = "first" \/ says.kind = "single"))
  OBVIOUS
<1>2. /\ y.env = IF ~alone THEN x.env
                 ELSE IF says.kind = "first" THEN FirstChanged(cmds[1], x.env)
                 ELSE Changed(cmds[1], x.env)
      /\ y.errs = x.errs + AllMessages(cmds, x.env)
                   + (IF says.kind = "first" THEN FirstErrors(says) ELSE 0)
      /\ y.over = (alone /\ Leaves(cmds[1]))
      /\ y.runaways = x.runaways + AllRunaways(cmds)
  BY CarryIs
<1>3. alone
  <2>1. DOMAIN << >> = {}
    OBVIOUS
  <2> QED BY <1>1, <2>1
<1>4. Counted(cmd)
  BY <1>1 DEF Fine
<1>5. AllMessages(cmds, x.env) = Messages(cmd, x.env)
  <2> PICK w : w = [k \in DOMAIN cmds |-> Messages(cmds[k], x.env)]
    OBVIOUS
  <2>1. DOMAIN w = {1} /\ w[1] = Messages(cmd, x.env) /\ w[1] \in 0..2
    BY <1>1, <1>4, MessagesFew
  <2>2. Total(w) = w[1]
    BY ONLY <2>1, TotalOne
  <2> QED BY <2>1, <2>2 DEF AllMessages
<1>6. AllRunaways(cmds) = IF cmd.op = "runaway" THEN 1 ELSE 0
  <2> PICK w : w = [k \in DOMAIN cmds |-> IF cmds[k].op = "runaway" THEN 1 ELSE 0]
    OBVIOUS
  <2>1. DOMAIN w = {1} /\ w[1] = (IF cmd.op = "runaway" THEN 1 ELSE 0)
    BY <1>1
  <2>2. w[1] \in 0..2
    BY ONLY <2>1
  <2>3. Total(w) = w[1]
    BY ONLY <2>1, <2>2, TotalOne
  <2> QED BY <2>1, <2>3 DEF AllRunaways
<1>7. y.over = Leaves(cmd)
  <2>1. y.over = (alone /\ Leaves(cmd))
    BY ONLY <1>1, <1>2, Zenon
  <2> QED BY ONLY <1>3, <2>1, Zenon DEF Leaves
<1>8. y.env = IF says.kind = "first" THEN FirstChanged(cmd, x.env) ELSE Changed(cmd, x.env)
  BY ONLY <1>1, <1>2, <1>3
<1>9. /\ y.errs = x.errs + Messages(cmd, x.env)
                   + (IF says.kind = "first" THEN FirstErrors(says) ELSE 0)
      /\ y.runaways = x.runaways + (IF cmd.op = "runaway" THEN 1 ELSE 0)
  BY ONLY <1>2, <1>5, <1>6
<1> QED BY ONLY y = Carry(x, says), <1>4, <1>7, <1>8, <1>9, Zenon

USE ShellAssumption

------------------------------------------------------------------------------
(* What the lines say                                                       *)

Few(commands) == Len(commands) \in 0..3 /\ \E S : commands \in Seq(S)

\* No line of the input comes to more than three parallel commands.
FewCommands ==
  \A i \in DOMAIN script.says :
    script.says[i].kind = "parallel" => Len(script.says[i].commands) <= 3

LEMMA StrtokIs ==
  ASSUME NEW s, IsSequence(s), NEW d
  PROVE  Len(Strtok(s, d)) \in Nat /\ DOMAIN Strtok(s, d) = 1..Len(Strtok(s, d))
<1> DEFINE in(i)   == i \in DOMAIN s /\ s[i] \notin d
           first   == {i \in DOMAIN s : in(i) /\ ~in(i - 1)}
           n       == Cardinality(first)
<1>1. n \in Nat
  <2>1. IsFiniteSet(1..Len(s))
    BY FS_Interval DEF IsSequence
  <2>2. first \subseteq 1..Len(s)
    BY DEF IsSequence
  <2> HIDE DEF first
  <2> QED BY <2>1, <2>2, FS_Subset, FS_CardinalityType
<1>2. \E f : Strtok(s, d) = [k \in 1..n |-> f[k]]
  <2> DEFINE last(i) == Min({j \in i..Len(s) : ~in(j + 1)})
             f == [k \in 1..n |-> SubSeq(s, Nth(first, k), last(Nth(first, k)))]
  <2>1. Strtok(s, d) = f
    BY DEF Strtok
  <2> HIDE DEF last, n
  <2>2. f = [k \in 1..n |-> f[k]]
    OBVIOUS
  <2> HIDE DEF f
  <2> QED BY <2>1, <2>2
<1> HIDE DEF n
<1> QED BY <1>1, <1>2

LEMMA ReadFew ==
  ASSUME NEW s, IsSequence(s), Read(s).kind = "parallel", Len(Read(s).commands) <= 3
  PROVE  Few(Read(s).commands)
<1> DEFINE texts == Strtok(s, {"&"})
           commands == [k \in DOMAIN texts |-> Command(texts[k])]
<1>1. Read(s).commands = commands
  BY DEF Read
<1>2. Len(texts) \in Nat /\ DOMAIN texts = 1..Len(texts)
  BY StrtokIs, Zenon
<1> DEFINE S == {commands[k] : k \in 1..Len(texts)}
<1> HIDE DEF texts
<1>3. commands \in Seq(S) /\ Len(commands) \in Nat
  <2>1. commands = [k \in 1..Len(texts) |-> commands[k]]
    BY <1>2
  <2> HIDE DEF commands
  <2> QED BY <1>2, <2>1
<1> HIDE DEF commands, S
<1>4. Len(commands) \in 0..3
  <2> PICK n : n = Len(commands)
    OBVIOUS
  <2>1. n \in Nat
    BY <1>3, Zenon
  <2>2. n <= 3
    BY <1>1, Zenon
  <2>3. n \in 0..3
    BY ONLY <2>1, <2>2, SMT
  <2> QED BY <2>3, Zenon
<1> QED BY ONLY <1>1, <1>3, <1>4 DEF Few

------------------------------------------------------------------------------
(* The input, and the children                                              *)

Buffer(b) == b = [lo |-> b.lo, hi |-> b.hi] /\ b.lo \in Nat /\ b.hi \in Nat /\ b.lo <= b.hi

InputInv ==
  /\ Len(script.says) \in Nat
  /\ offset \in 0..Len(script.says)
  /\ Buffer(buf) /\ buf.hi <= Len(script.says)
  /\ at = "dispatch" => line \in 1..Len(script.says)

FewInv ==
  \A i \in 1..Len(script.says) :
    script.says[i].kind = "parallel" => Few(script.says[i].commands)

IsChild(x) ==
  /\ x = [state |-> x.state, cmd |-> x.cmd, buf |-> x.buf, env |-> x.env]
  /\ Buffer(x.buf)
  /\ x.state # "free"

ProcInv ==
  /\ proc = [p \in Pid |-> proc[p]]
  /\ \A p \in Pid : proc[p] = Free \/ IsChild(proc[p])

Kids == {p \in Pid : proc[p] # Free}

\* What is still to be forked and waited for.
KidsInv ==
  /\ IsFiniteSet(Kids)
  /\ at = "fork" => Few(todo) /\ Cardinality(Kids) + Len(todo) <= 3
  /\ at = "wait" => waits \in Nat /\ Cardinality(Kids) <= waits
  /\ at = "waitpid" => Cardinality(Kids) = 1
  /\ at \notin {"fork", "wait", "waitpid"} => Kids = {}

ShellInv == InputInv /\ FewInv /\ ProcInv /\ KidsInv

LEMMA SpawnKids ==
  ASSUME ProcInv, Buffer(buf), NEW p \in Pid,
         NEW state, state # "free", NEW cmd, Spawn(p, state, cmd)
  PROVE  ProcInv' /\ Kids' = Kids \cup {p} /\ p \notin Kids
<1> PICK new : new = [state |-> state, cmd |-> cmd, buf |-> buf, env |-> env]
  OBVIOUS
<1>1. proc[p] = Free /\ proc' = [proc EXCEPT ![p] = new]
  BY DEF Spawn
<1>2. IsChild(new) /\ new # Free
  BY DEF IsChild, Free
<1>3. /\ proc' = [q \in Pid |-> proc'[q]]
      /\ \A q \in Pid : proc'[q] = IF q = p THEN new ELSE proc[q]
  BY <1>1 DEF ProcInv
<1> QED BY <1>1, <1>2, <1>3 DEF ProcInv, Kids

LEMMA FreeKids ==
  ASSUME ProcInv, NEW p \in Pid, proc[p].state # "free", proc' = [proc EXCEPT ![p] = Free]
  PROVE  ProcInv' /\ Kids' = Kids \ {p} /\ p \in Kids
<1>1. proc[p] # Free
  BY DEF Free
<1>2. /\ proc' = [q \in Pid |-> proc'[q]]
      /\ \A q \in Pid : proc'[q] = IF q = p THEN Free ELSE proc[q]
  BY DEF ProcInv
<1> QED BY <1>1, <1>2 DEF ProcInv, Kids

LEMMA BecomeKids ==
  ASSUME ProcInv, NEW p \in Pid, proc[p].state # "free", NEW state, state # "free", Become(p, state)
  PROVE  ProcInv' /\ Kids' = Kids /\ Buffer(proc[p].buf)
<1>1. proc[p] # Free /\ IsChild(proc[p])
  BY DEF Free, ProcInv
<1> PICK x : x = [proc[p] EXCEPT !.state = state]
  OBVIOUS
<1>2. /\ proc' = [q \in Pid |-> proc'[q]]
      /\ \A q \in Pid : proc'[q] = IF q = p THEN x ELSE proc[q]
  BY DEF ProcInv, Become
<1>3. IsChild(x) /\ x # Free
  <2> PICK y : y = proc[p]
    OBVIOUS
  <2>1. y = [state |-> y.state, cmd |-> y.cmd, buf |-> y.buf, env |-> y.env] /\ Buffer(y.buf)
    BY <1>1 DEF IsChild
  <2>2. x = [state |-> state, cmd |-> y.cmd, buf |-> y.buf, env |-> y.env]
    BY <2>1
  <2>3. x.state = state /\ x.buf = y.buf /\ x.cmd = y.cmd /\ x.env = y.env
    BY <2>2
  <2> QED BY <2>1, <2>2, <2>3 DEF IsChild, Free
<1> QED BY <1>1, <1>2, <1>3 DEF ProcInv, Kids, IsChild

\* What a child does to its record, the input and the shell.
LEMMA ChildDoes ==
  ASSUME NEW p \in Pid, ChildStep(p)
  PROVE  /\ proc[p].state # "free" /\ \E state : state # "free" /\ Become(p, state)
         /\ UNCHANGED <<shell, script, buf>>
         /\ UNCHANGED offset \/ GiveBack(proc[p].buf)
<1>1. CASE OnlyChild(p)
  BY <1>1 DEF OnlyChild, OtherCommands, input, GiveBack
<1>2. CASE Grandchild(p)
  BY <1>2 DEF Grandchild, OtherCommands, input, GiveBack
<1>3. CASE ForkAgain(p) \/ ChildBuiltin(p) \/ ProgramEnds(p)
  BY <1>3 DEF ForkAgain, ChildBuiltin, ProgramEnds, input
<1>4. CASE ChildRunsAway(p)
  BY <1>4 DEF ChildRunsAway, input
<1>5. CASE ChildExit(p)
  BY <1>5 DEF ChildExit, GiveBack
<1> QED BY <1>1, <1>2, <1>3, <1>4, <1>5 DEF ChildStep

LEMMA ChildKeeps ==
  ASSUME ShellInv, NEW p \in Pid, ChildStep(p)
  PROVE  ShellInv'
<1> PICK state : state # "free" /\ Become(p, state)
  BY ChildDoes
<1>1. ProcInv' /\ Kids' = Kids /\ Buffer(proc[p].buf)
  BY ChildDoes, BecomeKids DEF ShellInv
<1>2. at' = at /\ line' = line /\ todo' = todo /\ waits' = waits /\ script' = script /\ buf' = buf
  BY ChildDoes DEF shell
<1>3. offset' \in 0..Len(script.says)
  <2> PICK d : d = proc[p].buf.hi - proc[p].buf.lo
    OBVIOUS
  <2>1. d \in Nat /\ offset \in 0..Len(script.says) /\ Len(script.says) \in Nat
    BY <1>1 DEF Buffer, ShellInv, InputInv
  <2>2. offset' = offset \/ (offset >= d /\ offset' = offset - d)
    BY ChildDoes DEF GiveBack
  <2> QED BY <2>1, <2>2
<1>4. InputInv' /\ FewInv'
  BY <1>2, <1>3 DEF ShellInv, InputInv, FewInv
<1>5. KidsInv'
  BY <1>1, <1>2 DEF ShellInv, KidsInv
<1> QED BY <1>1, <1>4, <1>5 DEF ShellInv

------------------------------------------------------------------------------
(* The parent                                                               *)

\* How far a read of the file comes.
LEMMA FillIs ==
  ASSUME InputInv, NEW fill, fill = Min({offset + BufLines, Len(script.says)})
  PROVE  fill \in offset..Len(script.says) /\ (offset < Len(script.says) => offset < fill)
<1> DEFINE n == Len(script.says)
           S == {offset + BufLines, n}
           least(i) == i \in S /\ \A x \in S : i <= x
<1>1. offset \in 0..n /\ n \in Nat /\ BufLines \in Nat
  BY DEF InputInv
<1> PICK m \in S : \A x \in S : m <= x
  <2>1. CASE offset + BufLines <= n
    BY <1>1, <2>1
  <2>2. CASE n <= offset + BufLines
    BY <1>1, <2>2
  <2> QED BY <1>1, <2>1, <2>2
<1>2. least(m)
  OBVIOUS
<1>3. fill = CHOOSE i : least(i)
  BY DEF Min
<1>4. least(fill)
  <2> HIDE DEF least
  <2> QED BY <1>2, <1>3
<1>5. fill \in S /\ \A x \in S : fill <= x
  BY <1>4
<1> QED BY <1>1, <1>5

LEMMA GetlineInput ==
  ASSUME InputInv, Getline
  PROVE  InputInv' /\ script' = script /\ at = "prompt" /\ at' \in {"dispatch", "end", "exited"}
<1> DEFINE n == Len(script.says)
<1> PICK fill : fill = Min({offset + BufLines, n})
  OBVIOUS
<1>1. fill \in offset..n
  BY FillIs
<1> PICK b : b = IF buf.lo < buf.hi THEN buf ELSE [lo |-> offset, hi |-> fill]
  OBVIOUS
<1>2. /\ offset' = IF buf.lo < buf.hi THEN offset ELSE fill
      /\ \/ b.lo < b.hi /\ buf' = [b EXCEPT !.lo = @ + 1] /\ line' = b.lo + 1 /\ at' = "dispatch"
         \/ at' \in {"end", "exited"} /\ buf' = buf
      /\ script' = script /\ at = "prompt"
  BY DEF Getline
<1>3. Buffer(b) /\ b.hi <= n /\ n \in Nat /\ offset' \in 0..n
  BY <1>1, <1>2 DEF InputInv, Buffer
<1>4. CASE at' \in {"end", "exited"}
  BY <1>2, <1>3, <1>4 DEF InputInv
<1>5. CASE at' = "dispatch"
  <2>1. b.lo < b.hi /\ buf' = [b EXCEPT !.lo = @ + 1] /\ line' = b.lo + 1
    BY <1>2, <1>5
  <2>2. buf'.hi = b.hi /\ buf'.lo = b.lo + 1
    BY <1>3, <2>1 DEF Buffer
  <2>3. buf' = [lo |-> buf'.lo, hi |-> buf'.hi]
    BY <1>3, <2>1 DEF Buffer
  <2>4. Buffer(buf') /\ buf'.hi <= n /\ line' \in 1..n
    BY <1>3, <2>1, <2>2, <2>3 DEF Buffer
  <2> QED BY <1>2, <1>3, <2>4 DEF InputInv
<1> QED BY <1>2, <1>4, <1>5

\* The steps of the parent between lines that concern no child.
LEMMA QuietKeeps ==
  ASSUME ShellInv, proc' = proc, script' = script, InputInv',
         at \notin {"fork", "wait", "waitpid"}, at' \notin {"fork", "wait", "waitpid"}
  PROVE  ShellInv'
<1>1. ProcInv' /\ Kids' = Kids /\ Kids = {}
  BY DEF ShellInv, ProcInv, Kids, KidsInv
<1>2. FewInv'
  BY DEF ShellInv, FewInv
<1>3. KidsInv'
  BY <1>1 DEF ShellInv, KidsInv
<1> QED BY <1>1, <1>2, <1>3 DEF ShellInv

\* The input is left alone.
LEMMA InputKeeps ==
  ASSUME ShellInv, UNCHANGED input, at' # "dispatch" PROVE InputInv' /\ FewInv'
BY DEF ShellInv, InputInv, FewInv, input

LEMMA BetweenKeeps ==
  ASSUME ShellInv,
         \/ Getline \/ Blank \/ LeadingAmpersand \/ Builtin \/ LineRunsAway
         \/ FirstEnd \/ FirstRedirect \/ FirstBlank \/ FirstBuiltin
  PROVE  ShellInv'
<1>1. CASE Getline
  <2>1. InputInv
    BY DEF ShellInv
  <2>2. proc' = proc
    BY <1>1 DEF Getline
  <2> QED BY <1>1, <2>1, <2>2, GetlineInput, QuietKeeps
<1>2. CASE Blank \/ LeadingAmpersand \/ Builtin \/ LineRunsAway
  <2>1. /\ proc' = proc /\ UNCHANGED input
        /\ at = "dispatch" /\ at' \in {"prompt", "exited", "crashed"}
    BY <1>2 DEF Blank, LeadingAmpersand, Builtin, LineRunsAway, Dispatch
  <2>2. InputInv' /\ script' = script
    BY <2>1, InputKeeps DEF input
  <2> QED BY <2>1, <2>2, QuietKeeps
<1>3. CASE FirstEnd \/ FirstRedirect \/ FirstBlank \/ FirstBuiltin
  <2>1. /\ proc' = proc /\ UNCHANGED input
        /\ at \in {"end", "dispatch"} /\ at' \in {"prompt", "exited", "crashed"}
    BY <1>3 DEF FirstEnd, FirstRedirect, FirstBlank, FirstBuiltin, FirstDispatch, Dispatch
  <2>2. InputInv' /\ script' = script
    BY <2>1, InputKeeps DEF input
  <2> QED BY <2>1, <2>2, QuietKeeps
<1> QED BY <1>1, <1>2, <1>3

\* One command in one child.
LEMMA ForkKeeps == ASSUME ShellInv, Fork \/ FirstFork PROVE ShellInv'
<1>1. /\ at = "dispatch" /\ at' = "waitpid" /\ UNCHANGED input
      /\ \E p \in Pid : Spawn(p, "only", Cmd)
  BY DEF Fork, FirstFork, FirstDispatch, Dispatch
<1> PICK p \in Pid : Spawn(p, "only", Cmd)
  BY <1>1
<1>2. ProcInv' /\ Kids' = Kids \cup {p} /\ p \notin Kids
  <2>1. ProcInv /\ Buffer(buf)
    BY DEF ShellInv, InputInv
  <2> QED BY <2>1, SpawnKids
<1>3. Kids = {}
  BY <1>1 DEF ShellInv, KidsInv
<1>4. IsFiniteSet(Kids') /\ Cardinality(Kids') = 1
  <2>1. Kids' = {p}
    BY <1>2, <1>3
  <2> QED BY <2>1, FS_Singleton
<1>5. KidsInv'
  BY <1>1, <1>4 DEF KidsInv
<1> QED BY <1>1, <1>2, <1>5, InputKeeps DEF ShellInv

LEMMA WaitPidKeeps == ASSUME ShellInv, WaitPid PROVE ShellInv'
<1> PICK p \in Pid : proc[p].state = "reapable" /\ proc' = [proc EXCEPT ![p] = Free]
  BY DEF WaitPid
<1>1. ProcInv' /\ Kids' = Kids \ {p} /\ p \in Kids
  BY FreeKids DEF ShellInv
<1>2. at = "waitpid" /\ at' = "prompt" /\ UNCHANGED input
  BY DEF WaitPid
<1>3. Kids' = {} /\ IsFiniteSet(Kids')
  <2>1. IsFiniteSet(Kids) /\ Cardinality(Kids) = 1
    BY <1>2 DEF ShellInv, KidsInv
  <2>2. IsFiniteSet(Kids \ {p}) /\ Cardinality(Kids \ {p}) = Cardinality(Kids) - 1
    BY <1>1, <2>1, FS_RemoveElement
  <2>3. Kids \ {p} = {}
    BY <2>1, <2>2, FS_EmptySet
  <2> QED BY <1>1, <2>3, FS_EmptySet
<1>4. KidsInv'
  BY <1>2, <1>3 DEF KidsInv
<1> QED BY <1>1, <1>2, <1>4, InputKeeps DEF ShellInv

\* The commands of a parallel line.
LEMMA SplitKeeps == ASSUME ShellInv, Split PROVE ShellInv'
<1>1. at = "dispatch" /\ at' = "fork" /\ UNCHANGED input /\ proc' = proc
      /\ Line.kind = "parallel" /\ todo' = Line.commands
  BY DEF Split, Dispatch
<1>2. Few(Line.commands)
  <2>1. line \in 1..Len(script.says)
    BY <1>1 DEF ShellInv, InputInv
  <2> QED BY <1>1, <2>1 DEF ShellInv, FewInv, Line
<1>3. ProcInv' /\ Kids' = Kids /\ Kids = {}
  BY <1>1 DEF ShellInv, ProcInv, Kids, KidsInv
<1>4. KidsInv'
  <2>1. IsFiniteSet(Kids') /\ Cardinality(Kids') = 0
    BY <1>3, FS_EmptySet
  <2>2. Few(todo')
    BY <1>1, <1>2
  <2>3. Cardinality(Kids') + Len(todo') <= 3
    <3> PICK n : n = Len(todo')
      OBVIOUS
    <3> PICK m : m = Cardinality(Kids')
      OBVIOUS
    <3>1. n \in 0..3
      BY <2>2, Zenon DEF Few
    <3>2. m = 0
      BY <2>1, Zenon
    <3>3. m + n <= 3
      BY ONLY <3>1, <3>2
    <3> QED BY <3>3, Zenon
  <2> QED BY <1>1, <2>1, <2>2, <2>3 DEF KidsInv
<1> QED BY <1>1, <1>3, <1>4, InputKeeps DEF ShellInv

LEMMA ForkNextKeeps == ASSUME ShellInv, ForkNext PROVE ShellInv'
<1> PICK p \in Pid : Spawn(p, "parallel", Head(todo))
  BY DEF ForkNext
<1>1. ProcInv' /\ Kids' = Kids \cup {p} /\ p \notin Kids
  <2>1. ProcInv /\ Buffer(buf)
    BY DEF ShellInv, InputInv
  <2> QED BY <2>1, SpawnKids
<1>2. /\ at = "fork" /\ at' = "fork" /\ UNCHANGED input
      /\ todo # << >> /\ todo' = Tail(todo)
  BY DEF ForkNext
<1>3. Few(todo) /\ IsFiniteSet(Kids) /\ Cardinality(Kids) + Len(todo) <= 3
  BY <1>2 DEF ShellInv, KidsInv
<1>4. IsFiniteSet(Kids') /\ Cardinality(Kids') = Cardinality(Kids) + 1
  BY <1>1, <1>3, FS_AddElement
<1>5. Few(todo') /\ Len(todo') = Len(todo) - 1 /\ Len(todo) \in Nat
  <2> PICK S : todo \in Seq(S)
    BY <1>3 DEF Few
  <2>1. todo' \in Seq(S) /\ Len(todo') = Len(todo) - 1 /\ Len(todo) \in 1..3
    BY <1>2, <1>3, HeadTailProperties, LenProperties DEF Few
  <2> QED BY <2>1 DEF Few
<1>6. Cardinality(Kids') + Len(todo') <= 3
  BY <1>3, <1>4, <1>5, FS_CardinalityType
<1>7. KidsInv'
  BY <1>2, <1>4, <1>5, <1>6 DEF KidsInv
<1> QED BY <1>1, <1>2, <1>7, InputKeeps DEF ShellInv

LEMMA ForkedKeeps == ASSUME ShellInv, Forked PROVE ShellInv'
<1>1. at = "fork" /\ at' = "wait" /\ waits' = 3 /\ UNCHANGED input /\ proc' = proc /\ todo = << >>
  BY DEF Forked
<1>2. ProcInv' /\ Kids' = Kids
  BY <1>1 DEF ShellInv, ProcInv, Kids
<1>3. IsFiniteSet(Kids) /\ Cardinality(Kids) + Len(todo) <= 3 /\ Len(todo) = 0
  BY <1>1 DEF ShellInv, KidsInv
<1>4. Cardinality(Kids) <= 3
  BY <1>3, FS_CardinalityType
<1>5. KidsInv'
  BY <1>1, <1>2, <1>3, <1>4 DEF KidsInv
<1> QED BY <1>1, <1>2, <1>5, InputKeeps DEF ShellInv

LEMMA WaitKeeps == ASSUME ShellInv, Wait PROVE ShellInv'
<1>1. /\ at = "wait" /\ at' = "wait" /\ waits > 0 /\ waits' = waits - 1 /\ UNCHANGED input
      /\ \/ \E p \in Pid : proc[p].state = "zombie" /\ proc' = [proc EXCEPT ![p] = Free]
         \/ (\A p \in Pid : proc[p] = Free) /\ UNCHANGED proc
  BY DEF Wait
<1>2. waits \in Nat /\ IsFiniteSet(Kids) /\ Cardinality(Kids) <= waits
  BY <1>1 DEF ShellInv, KidsInv
<1>3. ProcInv' /\ IsFiniteSet(Kids') /\ Cardinality(Kids') <= waits - 1
  <2>1. ASSUME NEW p \in Pid, proc[p].state = "zombie", proc' = [proc EXCEPT ![p] = Free]
        PROVE  ProcInv' /\ IsFiniteSet(Kids') /\ Cardinality(Kids') <= waits - 1
    <3>1. ProcInv' /\ Kids' = Kids \ {p} /\ p \in Kids
      BY <2>1, FreeKids DEF ShellInv
    <3>2. IsFiniteSet(Kids \ {p}) /\ Cardinality(Kids \ {p}) = Cardinality(Kids) - 1
      BY <1>2, <3>1, FS_RemoveElement
    <3> QED BY <1>2, <3>1, <3>2, FS_CardinalityType
  <2>2. ASSUME \A p \in Pid : proc[p] = Free, UNCHANGED proc
        PROVE  ProcInv' /\ IsFiniteSet(Kids') /\ Cardinality(Kids') <= waits - 1
    <3>1. ProcInv' /\ Kids' = {}
      BY <2>2 DEF ShellInv, ProcInv, Kids
    <3> QED BY <1>1, <1>2, <3>1, FS_EmptySet
  <2> QED BY <1>1, <2>1, <2>2
<1>4. KidsInv'
  BY <1>1, <1>2, <1>3 DEF KidsInv
<1> QED BY <1>1, <1>3, <1>4, InputKeeps DEF ShellInv

LEMMA WaitedKeeps == ASSUME ShellInv, Waited PROVE ShellInv'
<1>1. at = "wait" /\ at' = "prompt" /\ waits = 0 /\ UNCHANGED input /\ proc' = proc
  BY DEF Waited
<1>2. ProcInv' /\ Kids' = Kids
  BY <1>1 DEF ShellInv, ProcInv, Kids
<1>3. Kids = {}
  <2>1. IsFiniteSet(Kids) /\ Cardinality(Kids) <= 0
    BY <1>1 DEF ShellInv, KidsInv
  <2> QED BY <2>1, FS_CardinalityType, FS_EmptySet
<1>4. KidsInv'
  BY <1>1, <1>2, <1>3, FS_EmptySet DEF KidsInv
<1> QED BY <1>1, <1>2, <1>4, InputKeeps DEF ShellInv

LEMMA InputStart == ASSUME Init PROVE InputInv
<1> PICK f \in Script :
      Begin(f, [i \in DOMAIN f.lines |->
                  IF f.first THEN FirstRead(f.lines[i]) ELSE Read(f.lines[i])])
  BY DEF Init
<1> PICK says :
      says = [i \in DOMAIN f.lines |-> IF f.first THEN FirstRead(f.lines[i]) ELSE Read(f.lines[i])]
  OBVIOUS
<1>1. Begin(f, says)
  OBVIOUS
<1>2. Len(says) = Len(f.lines) /\ Len(f.lines) \in Nat
  BY DEF IsSequence
<1> QED BY <1>1, <1>2 DEF Begin, InputInv, Buffer

LEMMA ShellStart == ASSUME Init, FewCommands PROVE ShellInv
<1> PICK f \in Script :
      Begin(f, [i \in DOMAIN f.lines |->
                  IF f.first THEN FirstRead(f.lines[i]) ELSE Read(f.lines[i])])
  BY DEF Init
<1> PICK says :
      says = [i \in DOMAIN f.lines |-> IF f.first THEN FirstRead(f.lines[i]) ELSE Read(f.lines[i])]
  OBVIOUS
<1>1. Begin(f, says)
  OBVIOUS
<1>2. script.says = says
  BY <1>1 DEF Begin
<1>3. DOMAIN f.lines = 1..Len(f.lines) /\ Len(f.lines) \in Nat
  BY DEF IsSequence
<1>4. Len(says) = Len(f.lines)
  BY <1>3
<1>5. InputInv
  BY InputStart
<1>6. FewInv
  <2> SUFFICES ASSUME NEW i \in 1..Len(says), says[i].kind = "parallel" PROVE Few(says[i].commands)
    BY <1>2 DEF FewInv
  <2>1. i \in DOMAIN f.lines /\ IsSequence(f.lines[i]) /\ i \in DOMAIN script.says
    BY <1>2, <1>3, <1>4
  <2>2. says[i] = IF f.first THEN FirstRead(f.lines[i]) ELSE Read(f.lines[i])
    BY <2>1
  <2>3. FirstRead(f.lines[i]).kind = "first"
    BY DEF FirstRead
  <2>4. says[i] = Read(f.lines[i])
    BY <2>2, <2>3
  <2>5. Len(Read(f.lines[i]).commands) <= 3
    BY <1>2, <2>1, <2>4 DEF FewCommands
  <2> QED BY <2>1, <2>4, <2>5, ReadFew
<1>7. ProcInv /\ Kids = {}
  BY <1>1 DEF Begin, ProcInv, Kids
<1>8. KidsInv
  BY <1>1, <1>7, FS_EmptySet DEF Begin, KidsInv
<1> QED BY <1>5, <1>6, <1>7, <1>8 DEF ShellInv

LEMMA ShellStep == ShellInv /\ [Next]_vars => ShellInv'
<1> SUFFICES ASSUME ShellInv, [Next]_vars PROVE ShellInv'
  OBVIOUS
<1>1. CASE Parent
  BY <1>1, BetweenKeeps, ForkKeeps, WaitPidKeeps, SplitKeeps, ForkNextKeeps, ForkedKeeps,
     WaitKeeps, WaitedKeeps DEF Parent, ParentStep, FirstStep
<1>2. CASE \E p \in Pid : ChildStep(p)
  BY <1>2, ChildKeeps
<1>3. CASE UNCHANGED vars
  BY <1>3 DEF vars, shell, input, ShellInv, InputInv, FewInv, ProcInv, Kids, KidsInv
<1> QED BY <1>1, <1>2, <1>3 DEF Next

\* Whenever no line of the input has more than three commands, no child is left when the
\* shell is at its prompt, however many processes there may be and in whatever order the
\* children end.
THEOREM NoChildSafety == Spec /\ FewCommands => []NoChildLeft
<1>1. Init /\ FewCommands => ShellInv
  BY ShellStart
<1>2. ShellInv => NoChildLeft
  BY DEF ShellInv, KidsInv, Kids, NoChildLeft
<1> QED BY <1>1, <1>2, ShellStep, PTL DEF Spec

------------------------------------------------------------------------------
(* The order of the lines                                                   *)

\* The buffer begins behind the line that was read last, and ends where the file goes on.
OrderInv == InputInv /\ ~script.seekable /\ line = buf.lo /\ offset = buf.hi

LEMMA GetlineOrder ==
  ASSUME OrderInv, Getline PROVE OrderInv' /\ (at' = "dispatch" => line' = line + 1)
<1> PICK fill : fill = Min({offset + BufLines, Len(script.says)})
  OBVIOUS
<1> PICK b : b = IF buf.lo < buf.hi THEN buf ELSE [lo |-> offset, hi |-> fill]
  OBVIOUS
<1>1. /\ offset' = IF buf.lo < buf.hi THEN offset ELSE fill
      /\ \/ b.lo < b.hi /\ buf' = [b EXCEPT !.lo = @ + 1] /\ line' = b.lo + 1 /\ at' = "dispatch"
         \/ /\ ~(b.lo < b.hi) /\ at' \in {"end", "exited"}
            /\ buf' = buf /\ line' = line
  BY DEF Getline
<1>2. InputInv' /\ script' = script
  BY GetlineInput DEF OrderInv
<1>3. /\ fill \in offset..Len(script.says) /\ offset \in Nat /\ Len(script.says) \in Nat
      /\ Buffer(buf) /\ line = buf.lo /\ offset = buf.hi
  <2>1. InputInv
    BY DEF OrderInv
  <2>2. fill \in offset..Len(script.says)
    BY <2>1, FillIs
  <2> QED BY <2>2 DEF OrderInv, InputInv
<1>4. b = [lo |-> b.lo, hi |-> b.hi] /\ b.lo = line /\ b.hi = offset'
  BY <1>1, <1>3 DEF Buffer
<1>5. CASE at' = "dispatch"
  <2>1. buf' = [b EXCEPT !.lo = @ + 1] /\ line' = b.lo + 1
    BY <1>1, <1>5
  <2>2. buf'.lo = b.lo + 1 /\ buf'.hi = b.hi
    BY <1>4, <2>1
  <2> QED BY <1>2, <1>4, <2>1, <2>2 DEF OrderInv
<1>6. CASE at' # "dispatch"
  <2>1. ~(b.lo < b.hi) /\ buf' = buf /\ line' = line
    BY <1>1, <1>6
  <2>2. offset' = offset
    BY <1>1, <1>3, <1>4, <2>1 DEF Buffer
  <2> QED BY <1>2, <1>6, <2>1, <2>2 DEF OrderInv
<1> QED BY <1>5, <1>6

\* No other step reads a line or moves in the input.
LEMMA OthersOrder ==
  ASSUME OrderInv, [Next]_vars, ~Getline
  PROVE  /\ UNCHANGED <<line, script, buf, offset>>
         /\ ~(at = "prompt" /\ at' = "dispatch") /\ (at' = "dispatch" => at = "dispatch")
<1>1. CASE \/ Blank \/ LeadingAmpersand \/ Builtin \/ LineRunsAway
           \/ Fork \/ WaitPid \/ Split \/ ForkNext \/ Forked \/ Wait \/ Waited
  BY <1>1 DEF Blank, LeadingAmpersand, Builtin, LineRunsAway, Dispatch, Fork, WaitPid, Split,
              ForkNext, Forked, Wait, Waited, input
<1>2. CASE FirstStep
  BY <1>2 DEF FirstStep, FirstEnd, FirstRedirect, FirstBlank, FirstBuiltin, FirstFork,
              FirstDispatch, Dispatch, input
<1>3. CASE \E p \in Pid : ChildStep(p)
  BY <1>3, ChildDoes DEF OrderInv, GiveBack, shell
<1>4. CASE UNCHANGED vars
  BY <1>4 DEF vars, shell, input
<1> QED BY <1>1, <1>2, <1>3, <1>4 DEF Next, Parent, ParentStep

\* Lines that come from where the file offset cannot be moved back, as from a pipe or a
\* terminal, are run in order, each of them once, whatever the children do.
THEOREM OrderSafety == Spec /\ ~script.seekable => OnceInOrder
<1>1. Init /\ ~script.seekable => OrderInv
  <2> SUFFICES ASSUME Init, ~script.seekable PROVE OrderInv
    OBVIOUS
  <2>1. InputInv
    BY InputStart
  <2> QED BY <2>1 DEF Init, Begin, OrderInv
<1>2. OrderInv /\ [Next]_vars =>
        OrderInv' /\ [at = "prompt" /\ at' = "dispatch" => line' = line + 1]_vars
  <2> SUFFICES ASSUME OrderInv, [Next]_vars
               PROVE  OrderInv' /\ (at = "prompt" /\ at' = "dispatch" => line' = line + 1)
    OBVIOUS
  <2>1. CASE Getline
    BY <2>1, GetlineOrder
  <2>2. CASE ~Getline
    BY <2>2, OthersOrder DEF OrderInv, InputInv
  <2> QED BY <2>1, <2>2
<1> QED BY <1>1, <1>2, PTL DEF Spec, OnceInOrder

------------------------------------------------------------------------------
(* What programs get                                                        *)

IsCommand(cmd) == \E s : IsText(s) /\ cmd = Command(s)

Commands(cmds) == IsSequence(cmds) /\ \A k \in DOMAIN cmds : IsCommand(cmds[k])

\* A line of the shell of Project.
Reads(says) ==
  /\ says.kind # "first" /\ Commands(says.commands)
  /\ says.kind = "single" => 1 \in DOMAIN says.commands

LEMMA ReadReads == ASSUME NEW s, IsLine(s) PROVE Reads(Read(s))
<1> PICK v : v = SearchForParallelCommands(s)
  OBVIOUS
<1> PICK kind : kind = IF TestBlankInput(s) THEN "blank"
                       ELSE CASE v = -1 -> "amp" [] v = 0 -> "single" [] v = 1 -> "parallel"
  OBVIOUS
<1> PICK texts : texts = CASE kind = "single" -> <<s>> [] kind = "parallel" -> Strtok(s, {"&"})
                           [] OTHER -> << >>
  OBVIOUS
<1> PICK cmds : cmds = [k \in DOMAIN texts |-> Command(texts[k])]
  OBVIOUS
<1>1. Read(s) = [kind |-> kind, commands |-> cmds]
  BY DEF Read
<1>2. Read(s).kind = kind /\ Read(s).commands = cmds
  BY ONLY <1>1
<1>3. v \in {-1, 0, 1} /\ (v = 0 => ~Contains(s, "&"))
  BY DEF SearchForParallelCommands
<1>4. kind \in {"blank", "amp", "single", "parallel"} /\ (kind = "single" => v = 0)
  BY <1>3
<1>5. IsSequence(texts) /\ \A k \in DOMAIN texts : IsText(texts[k])
  <2>1. CASE kind = "single"
    <3>1. texts = <<s>>
      BY <2>1
    <3>2. IsText(s)
      BY <1>3, <1>4, <2>1 DEF IsText, Contains
    <3> QED BY ONLY <3>1, <3>2 DEF IsSequence
  <2>2. CASE kind = "parallel"
    <3>1. texts = Strtok(s, {"&"})
      BY <2>2
    <3>2. IsSequence(s)
      BY DEF IsLine
    <3>3. Len(texts) \in Nat /\ DOMAIN texts = 1..Len(texts)
      BY <3>1, <3>2, StrtokIs, Zenon
    <3>4. texts = [k \in DOMAIN texts |-> texts[k]]
      <4> PICK f : f = [k \in DOMAIN texts |-> texts[k]]
        OBVIOUS
      <4> QED BY <3>1 DEF Strtok
    <3> QED BY <3>1, <3>3, <3>4, TokenIsText DEF IsSequence
  <2>3. CASE kind \notin {"single", "parallel"}
    <3>1. texts = << >>
      BY <2>3
    <3> QED BY ONLY <3>1 DEF IsSequence
  <2> QED BY <2>1, <2>2, <2>3
<1>6. Commands(cmds)
  <2>1. DOMAIN texts = 1..Len(texts) /\ Len(texts) \in Nat
    BY <1>5 DEF IsSequence
  <2>2. cmds = [k \in 1..Len(texts) |-> Command(texts[k])]
    BY <2>1
  <2>3. IsSequence(cmds) /\ DOMAIN cmds = DOMAIN texts
    BY ONLY <2>1, <2>2 DEF IsSequence
  <2> QED BY <1>5, <2>1, <2>2, <2>3 DEF Commands, IsCommand
<1>7. kind = "single" => 1 \in DOMAIN cmds
  <2> SUFFICES ASSUME kind = "single" PROVE 1 \in DOMAIN cmds
    OBVIOUS
  <2>1. texts = <<s>>
    OBVIOUS
  <2>2. DOMAIN texts = {1}
    BY ONLY <2>1
  <2> QED BY <2>2
<1> QED BY <1>2, <1>4, <1>6, <1>7 DEF Reads

Runs(x) ==
  x = Free \/ /\ IsCommand(x.cmd)
              /\ x.state \in {"only", "program", "grandchild", "subprogram"} => x.cmd.op = "run"

\* What is still to be forked, and what the children are, are commands of the input;
\* only those that run a program become one.
RunsInv ==
  /\ InputInv /\ ProcInv
  /\ \A i \in 1..Len(script.says) : Reads(script.says[i])
  /\ at = "fork" => Commands(todo)
  /\ \A p \in Pid : Runs(proc[p])

\* The first shell is another matter.
WrittenInv == ~script.first => RunsInv

\* No step changes the input.
LEMMA ScriptStays == ASSUME [Next]_vars PROVE script' = script
<1>1. CASE ParentStep
  BY <1>1 DEF ParentStep, Getline, Blank, LeadingAmpersand, Builtin, LineRunsAway, Fork, WaitPid,
              Split, ForkNext, Forked, Wait, Waited, input
<1>2. CASE FirstStep
  BY <1>2 DEF FirstStep, FirstEnd, FirstRedirect, FirstBlank, FirstBuiltin, FirstFork, input
<1>3. CASE \E p \in Pid : ChildStep(p)
  BY <1>3, ChildDoes
<1>4. CASE UNCHANGED vars
  BY <1>4 DEF vars, input
<1> QED BY <1>1, <1>2, <1>3, <1>4 DEF Next, Parent

LEMMA ChildOffset ==
  ASSUME InputInv, ProcInv, NEW p \in Pid, ChildStep(p) PROVE offset' \in 0..Len(script.says)
<1> PICK d : d = proc[p].buf.hi - proc[p].buf.lo
  OBVIOUS
<1>1. Buffer(proc[p].buf)
  BY ChildDoes, BecomeKids
<1>2. d \in Nat /\ offset \in 0..Len(script.says) /\ Len(script.says) \in Nat
  BY <1>1 DEF Buffer, InputInv
<1>3. offset' = offset \/ (offset >= d /\ offset' = offset - d)
  BY ChildDoes DEF GiveBack
<1> QED BY <1>2, <1>3

LEMMA CommandsTail ==
  ASSUME NEW cmds, Commands(cmds), cmds # << >> PROVE IsCommand(Head(cmds)) /\ Commands(Tail(cmds))
<1> PICK n \in Nat : n = Len(cmds)
  BY DEF Commands, IsSequence
<1> PICK S : S = {cmds[k] : k \in 1..n}
  OBVIOUS
<1>1. cmds = [k \in 1..n |-> cmds[k]] /\ \A k \in 1..n : IsCommand(cmds[k])
  BY DEF Commands, IsSequence
<1>2. cmds \in Seq(S) /\ n # 0
  BY <1>1
<1>3. /\ Head(cmds) = cmds[1] /\ Len(Tail(cmds)) = n - 1
      /\ Tail(cmds) = [k \in 1..(n - 1) |-> cmds[k + 1]]
  <2> PICK rest : rest = Tail(cmds)
    OBVIOUS
  <2>1. rest \in Seq(S) /\ Len(rest) = n - 1 /\ \A k \in 1..Len(rest) : rest[k] = cmds[k + 1]
    BY <1>2, HeadTailProperties
  <2>2. rest = [k \in 1..(n - 1) |-> rest[k]]
    BY ONLY <2>1
  <2>3. rest = [k \in 1..(n - 1) |-> cmds[k + 1]]
    BY ONLY <2>1, <2>2
  <2>4. Head(cmds) = cmds[1]
    BY <1>2
  <2> QED BY <2>1, <2>3, <2>4
<1>4. IsSequence(Tail(cmds)) /\ DOMAIN Tail(cmds) = 1..(n - 1)
  BY <1>2, <1>3 DEF IsSequence
<1>5. 1 \in 1..n /\ \A k \in 1..(n - 1) : k + 1 \in 1..n
  BY <1>2
<1>6. \A k \in 1..(n - 1) : Tail(cmds)[k] = cmds[k + 1]
  BY ONLY <1>3
<1>7. \A k \in 1..(n - 1) : IsCommand(Tail(cmds)[k])
  BY ONLY <1>1, <1>5, <1>6
<1>8. IsCommand(Head(cmds))
  BY ONLY <1>1, <1>3, <1>5
<1> QED BY ONLY <1>4, <1>7, <1>8 DEF Commands

LEMMA InputStep ==
  ASSUME InputInv, ProcInv, [Next]_vars PROVE InputInv' /\ script' = script
<1>1. CASE Getline
  BY <1>1, GetlineInput
<1>2. CASE \/ Blank \/ LeadingAmpersand \/ Builtin \/ LineRunsAway
           \/ Fork \/ WaitPid \/ Split \/ ForkNext \/ Forked \/ Wait \/ Waited
  <2>1. UNCHANGED input /\ at' # "dispatch"
    BY <1>2 DEF Blank, LeadingAmpersand, Builtin, LineRunsAway, Dispatch, Fork, WaitPid, Split,
                ForkNext, Forked, Wait, Waited
  <2> QED BY <2>1 DEF InputInv, input
<1>3. CASE FirstStep
  <2>1. UNCHANGED input /\ at' # "dispatch"
    BY <1>3 DEF FirstStep, FirstEnd, FirstRedirect, FirstBlank, FirstBuiltin, FirstFork,
                FirstDispatch, Dispatch
  <2> QED BY <2>1 DEF InputInv, input
<1>4. ASSUME NEW p \in Pid, ChildStep(p) PROVE InputInv' /\ script' = script
  <2>1. at' = at /\ line' = line /\ script' = script /\ buf' = buf
    BY <1>4, ChildDoes DEF shell
  <2> QED BY <1>4, <2>1, ChildOffset DEF InputInv
<1>5. CASE UNCHANGED vars
  BY <1>5 DEF vars, shell, input, InputInv
<1> QED BY <1>1, <1>2, <1>3, <1>4, <1>5 DEF Next, Parent, ParentStep

\* A new child, a child that is gone, and a child that goes on.
LEMMA SpawnRuns ==
  ASSUME RunsInv, NEW p \in Pid, NEW cmd, IsCommand(cmd),
         \/ Spawn(p, "only", cmd) /\ cmd.op = "run"
         \/ Spawn(p, "parallel", cmd)
  PROVE  ProcInv' /\ \A q \in Pid : Runs(proc'[q])
<1> PICK state : Spawn(p, state, cmd) /\ ((state = "only" /\ cmd.op = "run") \/ state = "parallel")
  OBVIOUS
<1>1. ProcInv'
  <2>1. ProcInv /\ Buffer(buf) /\ state # "free"
    BY DEF RunsInv, InputInv
  <2> QED BY <2>1, SpawnKids
<1> PICK new : new = [state |-> state, cmd |-> cmd, buf |-> buf, env |-> env]
  OBVIOUS
<1>2. \A q \in Pid : proc'[q] = IF q = p THEN new ELSE proc[q]
  BY DEF Spawn, RunsInv, ProcInv
<1>3. Runs(new)
  <2>1. new.state = state /\ new.cmd = cmd
    BY ONLY new = [state |-> state, cmd |-> cmd, buf |-> buf, env |-> env]
  <2> QED BY <2>1 DEF Runs
<1> QED BY <1>1, <1>2, <1>3 DEF RunsInv

LEMMA FreeRuns ==
  ASSUME RunsInv, NEW p \in Pid, proc[p].state # "free", proc' = [proc EXCEPT ![p] = Free]
  PROVE  ProcInv' /\ \A q \in Pid : Runs(proc'[q])
<1>1. ProcInv'
  BY FreeKids DEF RunsInv
<1>2. \A q \in Pid : proc'[q] = IF q = p THEN Free ELSE proc[q]
  BY DEF RunsInv, ProcInv
<1> QED BY <1>1, <1>2 DEF RunsInv, Runs

LEMMA ChildRuns ==
  ASSUME RunsInv, NEW p \in Pid, ChildStep(p)
  PROVE  ProcInv' /\ \A q \in Pid : Runs(proc'[q])
<1> PICK x : x = proc[p]
  OBVIOUS
<1>1. x.state # "free" /\ x # Free /\ IsChild(x) /\ Runs(x)
  BY ChildDoes DEF Free, RunsInv, ProcInv
<1> PICK state :
      /\ state # "free" /\ Become(p, state)
      /\ state \in {"only", "program", "grandchild", "subprogram"} => x.cmd.op = "run"
  <2>1. CASE OnlyChild(p) \/ Grandchild(p)
    BY <1>1, <2>1 DEF OnlyChild, Grandchild, OtherCommands, Runs
  <2>2. CASE ForkAgain(p)
    BY <2>2 DEF ForkAgain
  <2>3. CASE ChildBuiltin(p) \/ ProgramEnds(p) \/ ChildExit(p)
    BY <2>3 DEF ChildBuiltin, ProgramEnds, ChildExit
  <2>4. CASE ChildRunsAway(p)
    BY <2>4 DEF ChildRunsAway
  <2> QED BY <2>1, <2>2, <2>3, <2>4 DEF ChildStep
<1>2. ProcInv'
  BY <1>1, BecomeKids DEF RunsInv
<1> PICK y : y = [x EXCEPT !.state = state]
  OBVIOUS
<1>3. \A q \in Pid : proc'[q] = IF q = p THEN y ELSE proc[q]
  BY DEF Become, RunsInv, ProcInv
<1>4. Runs(y)
  <2>1. y.state = state /\ y.cmd = x.cmd
    BY <1>1 DEF IsChild
  <2> QED BY <1>1, <2>1 DEF Runs
<1> QED BY <1>2, <1>3, <1>4 DEF RunsInv

LEMMA RunsStep == ASSUME RunsInv, ~script.first, [Next]_vars PROVE RunsInv'
<1>1. InputInv' /\ script' = script
  BY InputStep DEF RunsInv
<1>2. at = "dispatch" => Reads(Line)
  BY DEF RunsInv, InputInv, Line
<1>3. ASSUME ProcInv', \A p \in Pid : Runs(proc'[p]), at' = "fork" => Commands(todo')
      PROVE  RunsInv'
  BY <1>1, <1>3 DEF RunsInv
<1>4. CASE \/ Getline \/ Blank \/ LeadingAmpersand \/ Builtin \/ LineRunsAway
           \/ Forked \/ Waited
           \/ FirstEnd \/ FirstRedirect \/ FirstBlank \/ FirstBuiltin
  <2>1. proc' = proc /\ at' # "fork"
    BY <1>4 DEF Getline, Blank, LeadingAmpersand, Builtin, LineRunsAway, Forked, Waited,
                FirstEnd, FirstRedirect, FirstBlank, FirstBuiltin
  <2> QED BY <1>3, <2>1 DEF RunsInv, ProcInv
<1>5. CASE Fork
  <2>1. /\ at = "dispatch" /\ Line.kind = "single" /\ Cmd.op = "run" /\ at' # "fork"
        /\ \E p \in Pid : Spawn(p, "only", Cmd)
    BY <1>5 DEF Fork, Dispatch
  <2>2. IsCommand(Cmd)
    BY <1>2, <2>1 DEF Reads, Commands, Cmd
  <2> QED BY <1>3, <2>1, <2>2, SpawnRuns
<1>6. CASE FirstFork
  <2>1. at = "dispatch" /\ Line.kind = "first"
    BY <1>6 DEF FirstFork, FirstDispatch, Dispatch
  <2> QED BY <1>2, <2>1 DEF Reads
<1>7. CASE Split
  <2>1. /\ at = "dispatch" /\ todo' = Line.commands /\ proc' = proc
    BY <1>7 DEF Split, Dispatch
  <2> QED BY <1>2, <1>3, <2>1 DEF Reads, RunsInv, ProcInv
<1>8. CASE ForkNext
  <2>1. /\ at = "fork" /\ todo # << >> /\ todo' = Tail(todo)
        /\ \E p \in Pid : Spawn(p, "parallel", Head(todo))
    BY <1>8 DEF ForkNext
  <2>2. IsCommand(Head(todo)) /\ Commands(Tail(todo))
    BY <2>1, CommandsTail DEF RunsInv
  <2> QED BY <1>3, <2>1, <2>2, SpawnRuns
<1>9. CASE WaitPid
  <2>1. /\ at' = "prompt"
        /\ \E p \in Pid : proc[p].state = "reapable" /\ proc' = [proc EXCEPT ![p] = Free]
    BY <1>9 DEF WaitPid
  <2> QED BY <1>3, <2>1, FreeRuns
<1>10. CASE Wait
  <2>1. at' # "fork"
    BY <1>10 DEF Wait
  <2>2. CASE proc' = proc
    BY <1>3, <2>1, <2>2 DEF RunsInv, ProcInv
  <2>3. CASE \E p \in Pid : proc[p].state = "zombie" /\ proc' = [proc EXCEPT ![p] = Free]
    BY <1>3, <2>1, <2>3, FreeRuns
  <2> QED BY <1>10, <2>2, <2>3 DEF Wait
<1>11. ASSUME NEW p \in Pid, ChildStep(p) PROVE RunsInv'
  <2>1. at' = at /\ todo' = todo
    BY <1>11, ChildDoes DEF shell
  <2> QED BY <1>3, <1>11, <2>1, ChildRuns DEF RunsInv
<1>12. CASE UNCHANGED vars
  BY <1>3, <1>12 DEF vars, shell, RunsInv, ProcInv
<1> QED BY <1>4, <1>5, <1>6, <1>7, <1>8, <1>9, <1>10, <1>11, <1>12
        DEF Next, Parent, ParentStep, FirstStep

LEMMA RunsStart == ASSUME Init, ~script.first PROVE RunsInv
<1> PICK f \in Script :
      Begin(f, [i \in DOMAIN f.lines |->
                  IF f.first THEN FirstRead(f.lines[i]) ELSE Read(f.lines[i])])
  BY DEF Init
<1> PICK says :
      says = [i \in DOMAIN f.lines |-> IF f.first THEN FirstRead(f.lines[i]) ELSE Read(f.lines[i])]
  OBVIOUS
<1>1. Begin(f, says)
  OBVIOUS
<1>2. script.says = says /\ ~f.first
  BY <1>1 DEF Begin
<1>3. DOMAIN f.lines = 1..Len(f.lines) /\ Len(f.lines) \in Nat
  BY DEF IsSequence
<1>4. Len(says) = Len(f.lines)
  BY <1>3
<1>5. ASSUME NEW i \in 1..Len(says) PROVE Reads(says[i])
  <2>1. i \in DOMAIN f.lines
    BY <1>3, <1>4
  <2>3. IsLine(f.lines[i])
    BY ONLY <1>2, <2>1, f \in Script, ShellAssumption DEF ShellAssumption
  <2>2. says[i] = Read(f.lines[i])
    BY <1>2, <2>1
  <2> QED BY <2>2, <2>3, ReadReads
<1>6. ProcInv /\ \A p \in Pid : Runs(proc[p])
  BY <1>1 DEF Begin, ProcInv, Runs
<1>7. at # "fork"
  BY <1>1 DEF Begin
<1> QED BY <1>2, <1>5, <1>6, <1>7, InputStart DEF RunsInv

\* In the shell of Project every program gets the words before the > as its arguments, and
\* the word after it is the file of its output, of every command that is Plain.
THEOREM WrittenSafety == Spec => []RunsAsWritten
<1>1. Init => WrittenInv
  BY RunsStart DEF WrittenInv
<1>2. WrittenInv /\ [Next]_vars => WrittenInv'
  <2> SUFFICES ASSUME WrittenInv, [Next]_vars, ~script'.first PROVE RunsInv'
    BY DEF WrittenInv
  <2>1. script' = script
    BY ScriptStays
  <2> QED BY <2>1, RunsStep DEF WrittenInv
<1>3. WrittenInv => RunsAsWritten
  <2> SUFFICES ASSUME RunsInv, NEW p \in Pid, proc[p].state \in {"program", "subprogram"},
                      Plain(proc[p].cmd.text)
               PROVE  [argv |-> proc[p].cmd.argv, output |-> proc[p].cmd.output]
                        = Written(proc[p].cmd.text)
    BY DEF WrittenInv, RunsAsWritten
  <2>1. proc[p] # Free /\ Runs(proc[p])
    BY DEF Free, RunsInv
  <2>2. proc[p].cmd.op = "run"
    BY <2>1 DEF Runs
  <2> PICK s : IsText(s) /\ proc[p].cmd = Command(s)
    BY <2>1 DEF Runs, IsCommand
  <2>3. proc[p].cmd.text = s
    BY <2>2, CommandIs
  <2> QED BY <2>2, <2>3, CommandWritten
<1> QED BY <1>1, <1>2, <1>3, PTL DEF Spec

------------------------------------------------------------------------------
(* What is still to be reported                                             *)

\* The messages that a child still leads to, and whether it may run away.
Due(x) == IF x.state \in {"only", "parallel", "grandchild"} THEN Messages(x.cmd, x.env) ELSE 0

Pending(x) == IF x.state = "parallel" /\ x.cmd.op = "runaway" THEN 1 ELSE 0

DueKids     == Total([p \in Pid |-> Due(proc[p])])
PendingKids == Total([p \in Pid |-> Pending(proc[p])])

Able(x) ==
  x = Free \/ /\ Counted(x.cmd)
              /\ x.state \in {"only", "grandchild"} => x.cmd.op = "run"

LEMMA DueFew ==
  ASSUME NEW x, Able(x)
  PROVE  Due(x) \in 0..2 /\ Pending(x) \in 0..2 /\ (x = Free => Due(x) = 0 /\ Pending(x) = 0)
<1>1. Pending(x) \in 0..2
  BY DEF Pending
<1>2. CASE x = Free
  BY <1>2 DEF Free, Due, Pending
<1>3. CASE x # Free
  <2>1. Messages(x.cmd, x.env) \in 0..2
    BY <1>3, MessagesFew DEF Able
  <2> QED BY <1>1, <1>3, <2>1 DEF Due
<1> QED BY <1>2, <1>3

\* One child changes.
LEMMA KidChange ==
  ASSUME ProcInv, IsFiniteSet(Kids), \A q \in Pid : Able(proc[q]),
         NEW p \in Pid, NEW y, Able(y), proc' = [proc EXCEPT ![p] = y]
  PROVE  /\ DueKids \in Nat /\ DueKids' \in Nat /\ PendingKids \in Nat /\ PendingKids' \in Nat
         /\ DueKids' + Due(proc[p]) = DueKids + Due(y) /\ Due(proc[p]) <= DueKids
         /\ PendingKids' + Pending(proc[p]) = PendingKids + Pending(y)
         /\ Pending(proc[p]) <= PendingKids
         /\ \A q \in Pid : Able(proc'[q])
<1> PICK S, F : S = Pid /\ F = Kids
  OBVIOUS
<1>1. F \subseteq S /\ IsFiniteSet(F) /\ p \in S
  BY DEF Kids
<1>2. \A q \in Pid : proc'[q] = IF q = p THEN y ELSE proc[q]
  BY DEF ProcInv
<1>3. \A q \in S : q \notin F => proc[q] = Free
  BY DEF Kids
<1>4. /\ DueKids \in Nat /\ DueKids' \in Nat
      /\ DueKids' + Due(proc[p]) = DueKids + Due(y) /\ Due(proc[p]) <= DueKids
  <2> PICK w, v : w = [q \in Pid |-> Due(proc[q])] /\ v = [q \in Pid |-> Due(proc'[q])]
    OBVIOUS
  <2>1. w[p] = Due(proc[p]) /\ v[p] = Due(y)
    BY <1>2
  <2>2. DOMAIN w = S /\ DOMAIN v = S
    OBVIOUS
  <2>3. \A q \in S : q \notin F => w[q] = 0
    BY <1>3, DueFew
  <2>4. \A q \in S : q # p => v[q] = w[q]
    BY <1>2
  <2>5. w[p] \in 0..2 /\ v[p] \in 0..2
    BY <2>1, DueFew
  <2>6. /\ Total(w) \in Nat /\ Total(v) \in Nat
        /\ Total(v) + w[p] = Total(w) + v[p] /\ w[p] <= Total(w)
    BY ONLY <1>1, <2>3, <2>4, <2>5, <2>2, TotalChange
  <2>7. DueKids = Total(w) /\ DueKids' = Total(v)
    BY DEF DueKids
  <2> QED BY ONLY <2>1, <2>6, <2>7
<1>5. /\ PendingKids \in Nat /\ PendingKids' \in Nat
      /\ PendingKids' + Pending(proc[p]) = PendingKids + Pending(y)
      /\ Pending(proc[p]) <= PendingKids
  <2> PICK w, v : w = [q \in Pid |-> Pending(proc[q])] /\ v = [q \in Pid |-> Pending(proc'[q])]
    OBVIOUS
  <2>1. w[p] = Pending(proc[p]) /\ v[p] = Pending(y)
    BY <1>2
  <2>2. DOMAIN w = S /\ DOMAIN v = S
    OBVIOUS
  <2>3. \A q \in S : q \notin F => w[q] = 0
    BY <1>3, DueFew
  <2>4. \A q \in S : q # p => v[q] = w[q]
    BY <1>2
  <2>5. w[p] \in 0..2 /\ v[p] \in 0..2
    BY <2>1, DueFew
  <2>6. /\ Total(w) \in Nat /\ Total(v) \in Nat
        /\ Total(v) + w[p] = Total(w) + v[p] /\ w[p] <= Total(w)
    BY ONLY <1>1, <2>3, <2>4, <2>5, <2>2, TotalChange
  <2>7. PendingKids = Total(w) /\ PendingKids' = Total(v)
    BY DEF PendingKids
  <2> QED BY ONLY <2>1, <2>6, <2>7
<1>6. \A q \in Pid : Able(proc'[q])
  BY <1>2
<1> QED BY <1>4, <1>5, <1>6

\* No child is left that reports anything.
LEMMA NoKids == ASSUME Kids = {} PROVE DueKids = 0 /\ PendingKids = 0
<1>1. \A p \in Pid : proc[p] = Free
  BY DEF Kids
<1>2. \A p \in Pid : Due(proc[p]) = 0 /\ Pending(proc[p]) = 0
  BY <1>1 DEF Due, Pending, Free
<1>3. DueKids = 0
  <2> PICK w : w = [p \in Pid |-> Due(proc[p])]
    OBVIOUS
  <2>1. \A q \in DOMAIN w : w[q] = 0
    BY <1>2
  <2> QED BY <2>1, TotalZero DEF DueKids
<1>4. PendingKids = 0
  <2> PICK w : w = [p \in Pid |-> Pending(proc[p])]
    OBVIOUS
  <2>1. \A q \in DOMAIN w : w[q] = 0
    BY <1>2
  <2> QED BY <2>1, TotalZero DEF PendingKids
<1> QED BY <1>3, <1>4

\* What a step of a child reports is what it owed, and one that may run away up to two
\* messages more.
LEMMA ChildReports ==
  ASSUME NEW p \in Pid, ChildStep(p), NEW x, x = proc[p], IsChild(x), Able(x)
  PROVE  \E y, m :
           /\ proc' = [proc EXCEPT ![p] = y] /\ Able(y)
           /\ m \in 0..2 /\ (Throw(m) \/ (m = 0 /\ errs' = errs))
           /\ Due(y) + m >= Due(x)
           /\ Due(y) + m + 2 * Pending(y) <= Due(x) + 2 * Pending(x)
<1> DEFINE Y(s) == [state |-> s, cmd |-> x.cmd, buf |-> x.buf, env |-> x.env]
           Goal(s, m) ==
             /\ proc' = [proc EXCEPT ![p] = Y(s)] /\ Able(Y(s))
             /\ m \in 0..2 /\ (Throw(m) \/ (m = 0 /\ errs' = errs))
             /\ Due(Y(s)) + m >= Due(x)
             /\ Due(Y(s)) + m + 2 * Pending(Y(s)) <= Due(x) + 2 * Pending(x)
<1>1. ASSUME NEW s, Become(p, s) PROVE proc' = [proc EXCEPT ![p] = Y(s)]
  <2>1. x = [state |-> x.state, cmd |-> x.cmd, buf |-> x.buf, env |-> x.env]
    BY DEF IsChild
  <2>2. [x EXCEPT !.state = s] = Y(s)
    BY <2>1
  <2> QED BY <1>1, <2>2 DEF Become
<1>2. Counted(x.cmd) /\ x.state # "free" /\ (x.state \in {"only", "grandchild"} => x.cmd.op = "run")
  <2>1. x # Free
    BY DEF IsChild, Free
  <2> QED BY <2>1 DEF Able, IsChild
<1> PICK ms : ms = Messages(x.cmd, x.env)
  OBVIOUS
<1>3. /\ ms \in 0..2 /\ (x.cmd.op = "runaway" => ms = 0)
      /\ x.cmd.op = "run" => ms = IF Found(x.cmd, x.env) THEN 0 ELSE 1
  BY <1>2, MessagesFew
<1>4. ASSUME NEW s PROVE /\ Y(s).state = s /\ Y(s).cmd = x.cmd /\ Y(s).env = x.env
                         /\ Due(Y(s)) = IF s \in {"only", "parallel", "grandchild"} THEN ms ELSE 0
                         /\ Pending(Y(s)) = IF s = "parallel" /\ x.cmd.op = "runaway" THEN 1 ELSE 0
                         /\ s \notin {"only", "grandchild"} => Able(Y(s))
                         /\ x.cmd.op = "run" => Able(Y(s))
  <2>1. Y(s).state = s /\ Y(s).cmd = x.cmd /\ Y(s).env = x.env
    OBVIOUS
  <2> HIDE DEF Y
  <2> QED BY <1>2, <2>1 DEF Due, Pending, Able
<1>5. /\ Due(x) = IF x.state \in {"only", "parallel", "grandchild"} THEN ms ELSE 0
      /\ Pending(x) = IF x.state = "parallel" /\ x.cmd.op = "runaway" THEN 1 ELSE 0
  BY DEF Due, Pending
<1> HIDE DEF Y
<1>6. ASSUME NEW s, NEW m, Become(p, s), s \notin {"only", "parallel", "grandchild"},
             m \in 0..2, Throw(m) \/ (m = 0 /\ errs' = errs),
             m >= Due(x), m <= Due(x) + 2 * Pending(x)
      PROVE  \E t, j : Goal(t, j)
  <2>1. proc' = [proc EXCEPT ![p] = Y(s)] /\ Able(Y(s)) /\ Due(Y(s)) = 0 /\ Pending(Y(s)) = 0
    BY <1>1, <1>4, <1>6
  <2>2. Due(x) \in 0..2 /\ Pending(x) \in 0..2
    BY DueFew
  <2>3. 0 + m >= Due(x) /\ 0 + m + 2 * 0 <= Due(x) + 2 * Pending(x)
    BY ONLY <1>6, <2>2
  <2>4. Goal(s, m)
    BY ONLY <1>6, <2>1, <2>3
  <2> QED BY <2>4
<1> SUFFICES \E s, m : Goal(s, m)
  OBVIOUS
<1>7. CASE OnlyChild(p) \/ Grandchild(p)
  <2>1. x.cmd.op = "run" /\ Due(x) = ms /\ Pending(x) = 0
    BY <1>2, <1>5, <1>7 DEF OnlyChild, Grandchild
  <2>2. CASE Found(x.cmd, x.env)
    <3>1. \E s \in {"program", "subprogram"} : Become(p, s) /\ errs' = errs
      BY <1>7, <2>2 DEF OnlyChild, Grandchild, OtherCommands
    <3>2. ms = 0
      BY <1>3, <2>1, <2>2
    <3>3. 0 \in 0..2 /\ 0 >= Due(x) /\ 0 <= Due(x) + 2 * Pending(x)
      BY ONLY <2>1, <3>2
    <3> HIDE DEF Goal
    <3> QED BY ONLY <1>6, <3>1, <3>3, Zenon
  <2>3. CASE ~Found(x.cmd, x.env)
    <3>1. \E s \in {"reapable", "done"} : Become(p, s) /\ Throw(1)
      BY <1>7, <2>3 DEF OnlyChild, Grandchild, OtherCommands
    <3>2. ms = 1
      BY <1>3, <2>1, <2>3
    <3>3. 1 \in 0..2 /\ 1 >= Due(x) /\ 1 <= Due(x) + 2 * Pending(x)
      BY ONLY <2>1, <3>2
    <3> HIDE DEF Goal
    <3> QED BY ONLY <1>6, <3>1, <3>3, Zenon
  <2> QED BY <2>2, <2>3
<1>8. CASE ForkAgain(p)
  <2>1. x.state = "parallel" /\ x.cmd.op = "run" /\ Become(p, "grandchild") /\ errs' = errs
    BY <1>8 DEF ForkAgain
  <2>2. /\ proc' = [proc EXCEPT ![p] = Y("grandchild")] /\ Able(Y("grandchild"))
        /\ Due(Y("grandchild")) = ms /\ Pending(Y("grandchild")) = 0
    BY <1>1, <1>4, <2>1
  <2>3. Due(x) = ms /\ Pending(x) = 0
    BY <1>5, <2>1
  <2>4. ms + 0 >= ms /\ ms + 0 + 2 * 0 <= ms + 2 * 0 /\ 0 \in 0..2
    BY ONLY <1>3
  <2>5. Goal("grandchild", 0)
    BY ONLY <2>1, <2>2, <2>3, <2>4
  <2> QED BY <2>5
<1>9. CASE ChildBuiltin(p)
  <2>1. x.state = "parallel" /\ x.cmd.op # "runaway" /\ Become(p, "done") /\ Throw(ms)
    BY <1>9 DEF ChildBuiltin
  <2>2. Due(x) = ms /\ Pending(x) = 0
    BY <1>5, <2>1
  <2>3. ms \in 0..2 /\ ms >= Due(x) /\ ms <= Due(x) + 2 * Pending(x)
    BY ONLY <1>3, <2>2
  <2> HIDE DEF Goal
  <2> QED BY ONLY <1>6, <2>1, <2>3, Zenon
<1>10. CASE ChildRunsAway(p)
  <2>1. /\ x.state = "parallel" /\ x.cmd.op = "runaway"
        /\ \E s \in {"zombie", "done"} : Become(p, s) /\ \E m \in 0..2 : Throw(m)
    BY <1>10 DEF ChildRunsAway, RunsAway
  <2>2. Due(x) = 0 /\ Pending(x) = 1
    BY <1>3, <1>5, <2>1
  <2> PICK s, m : s \in {"zombie", "done"} /\ Become(p, s) /\ m \in 0..2 /\ Throw(m)
    BY <2>1
  <2>3. m >= Due(x) /\ m <= Due(x) + 2 * Pending(x)
    BY ONLY <2>2, m \in 0..2
  <2> HIDE DEF Goal
  <2> QED BY ONLY <1>6, <2>1, <2>3, s \in {"zombie", "done"}, Become(p, s), m \in 0..2, Throw(m),
                  Zenon
<1>11. CASE ProgramEnds(p) \/ ChildExit(p)
  <2>1. /\ x.state \in {"program", "subprogram", "done"}
        /\ \E s \in {"reapable", "done", "zombie"} : Become(p, s) /\ errs' = errs
    BY <1>11 DEF ProgramEnds, ChildExit
  <2>2. Due(x) = 0 /\ Pending(x) = 0
    BY <1>5, <2>1
  <2>3. 0 \in 0..2 /\ 0 >= Due(x) /\ 0 <= Due(x) + 2 * Pending(x)
    BY ONLY <2>2
  <2> HIDE DEF Goal
  <2> QED BY ONLY <1>6, <2>1, <2>3, Zenon
<1> HIDE DEF Goal
<1> QED BY ONLY ChildStep(p), <1>7, <1>8, <1>9, <1>10, <1>11, Zenon DEF ChildStep

\* The commands that are still to be forked are the last ones of the line.
Left(k) == k > Len(Line.commands) - Len(todo)

DueTodo ==
  IF at # "fork" THEN 0
  ELSE Total([k \in DOMAIN Line.commands |->
                IF Left(k) THEN Messages(Line.commands[k], env) ELSE 0])

PendingTodo ==
  IF at # "fork" THEN 0
  ELSE Total([k \in DOMAIN Line.commands |->
                IF Left(k) /\ Line.commands[k].op = "runaway" THEN 1 ELSE 0])

TodoInv ==
  at = "fork" =>
    /\ Len(todo) <= Len(Line.commands)
    /\ \A k \in 1..Len(todo) : todo[k] = Line.commands[Len(Line.commands) - Len(todo) + k]

\* The shell has come to what a says, up to the messages of what ran away.
Ended(a) == env = a.env /\ a.errs <= errs /\ errs <= a.errs + 2 * a.runaways

\* At the end of the input the first shell has reported the last line's redirection again.
Again(a, n) ==
  /\ script.first /\ ~a.over /\ n > 0 /\ script.says[n].redirection = "bad"
  /\ env = a.env /\ a.errs <= errs /\ errs <= a.errs + 2 * a.runaways + 1

\* It comes to that with what is still due.
Open(a) ==
  LET due     == DueKids + DueTodo
      pending == PendingKids + PendingTodo
  IN  /\ env = a.env /\ ~a.over
      /\ a.errs <= errs + due /\ errs + due + 2 * pending <= a.errs + 2 * a.runaways

\* A[i] is what the lines up to i come to.
Progress(A, n) ==
  /\ at \in {"prompt", "end"} => line \in 0..n /\ ~A[line].over /\ Ended(A[line])
  /\ at = "end" => line = n /\ script.first
  /\ at = "dispatch" => line \in 1..n /\ ~A[line - 1].over /\ Ended(A[line - 1])
  /\ at \in {"waitpid", "fork", "wait"} => line \in 1..n /\ Open(A[line])
  /\ at = "exited" => Ended(A[n]) \/ Again(A[n], n)

Owed(A, n) ==
  errs \in 0..MaxErrs /\ (\A p \in Pid : Able(proc[p])) /\ TodoInv /\ Progress(A, n)

Accounts(A, n, says) ==
  /\ n \in Nat /\ A[0] = Fresh /\ A[n].errs + 2 * A[n].runaways < MaxErrs
  /\ \A j \in 0..n :
       /\ Account(A[j]) /\ A[j].errs + 2 * A[j].runaways <= MaxErrs
       /\ A[j].over => /\ A[n].env = A[j].env /\ A[n].errs = A[j].errs
                       /\ A[n].runaways = A[j].runaways
  /\ \A j \in 1..n : A[j] = Carry(A[j - 1], says[j]) /\ Fine(says[j])

Running(A, n, says) ==
  /\ says = script.says /\ n = Len(says) /\ Accounts(A, n, says)
  /\ ShellInv /\ OrderInv /\ Owed(A, n)

\* The input ends behind its last line.
LEMMA GetlineEnd ==
  ASSUME OrderInv, Getline, at' # "dispatch"
  PROVE  line = Len(script.says) /\ line' = line /\ at' \in {"end", "exited"}
<1> PICK fill : fill = Min({offset + BufLines, Len(script.says)})
  OBVIOUS
<1> PICK b : b = IF buf.lo < buf.hi THEN buf ELSE [lo |-> offset, hi |-> fill]
  OBVIOUS
<1>1. ~(b.lo < b.hi) /\ at' \in {"end", "exited"} /\ line' = line
  BY DEF Getline
<1>2. /\ Len(script.says) \in Nat /\ offset \in 0..Len(script.says)
      /\ Buffer(buf) /\ line = buf.lo /\ offset = buf.hi
  BY DEF OrderInv, InputInv
<1>3. ~(buf.lo < buf.hi) /\ b = [lo |-> offset, hi |-> fill]
  BY <1>1
<1>4. ~(offset < fill)
  BY <1>1, <1>3
<1>5. line = offset
  BY ONLY <1>2, <1>3 DEF Buffer
<1> PICK n \in Nat : n = Len(script.says)
  BY <1>2
<1>6. fill \in offset..n /\ (offset < n => offset < fill)
  BY FillIs DEF OrderInv
<1>7. offset = n
  BY ONLY <1>2, <1>4, <1>6, n \in Nat, n = Len(script.says)
<1> QED BY <1>1, <1>5, <1>7

LEMMA GetlineOwes ==
  ASSUME NEW A, NEW n, NEW says, Running(A, n, says), Getline PROVE Owed(A, n)'
<1>1. /\ at = "prompt" /\ at' \in {"dispatch", "end", "exited"}
      /\ env' = env /\ proc' = proc /\ errs' = errs
  BY DEF Getline
<1>2. /\ line \in 0..n /\ ~A[line].over /\ Ended(A[line]) /\ n \in Nat /\ OrderInv
      /\ n = Len(script.says)
  BY <1>1 DEF Running, Owed, Progress, Accounts
<1>3. CASE at' = "dispatch"
  <2>1. line' = line + 1 /\ OrderInv'
    BY <1>2, <1>3, GetlineOrder
  <2> PICK a : a = A[line]
    OBVIOUS
  <2>2. line' \in 1..n /\ A[line' - 1] = a
    <3>1. line' \in 1..Len(script'.says) /\ script' = script
      BY <1>3, <2>1 DEF OrderInv, InputInv, Getline
    <3>2. line' - 1 = line
      BY <1>2, <2>1
    <3> QED BY <1>2, <3>1, <3>2
  <2>3. Ended(a)' /\ ~a.over
    BY <1>1, <1>2 DEF Ended
  <2>4. Progress(A, n)'
    BY <1>3, <2>2, <2>3 DEF Progress
  <2> QED BY <1>1, <1>3, <2>4 DEF Running, Owed, TodoInv
<1>4. CASE at' # "dispatch"
  <2>1. line = n /\ line' = line
    BY <1>2, <1>4, GetlineEnd
  <2>2. Ended(A[n])' /\ ~A[n].over
    BY <1>1, <1>2, <2>1 DEF Ended
  <2>3. at' = "end" => script'.first
    BY DEF Getline
  <2>4. Progress(A, n)'
    BY <1>1, <1>2, <1>4, <2>1, <2>2, <2>3 DEF Progress
  <2> QED BY <1>1, <1>4, <2>4 DEF Running, Owed, TodoInv
<1> QED BY <1>3, <1>4

\* Where the shell is with a line that it has read, x before it and y after it.
AtLine(A, n, x, y) ==
  /\ line \in 1..n /\ n \in Nat /\ x = A[line - 1] /\ y = A[line]
  /\ y = Carry(x, Line) /\ Fine(Line)
  /\ Account(x) /\ Account(y) /\ y.errs + 2 * y.runaways <= MaxErrs
  /\ y.over => A[n].env = y.env /\ A[n].errs = y.errs /\ A[n].runaways = y.runaways

LEMMA LineIs ==
  ASSUME NEW A, NEW n, NEW says, Running(A, n, says), line \in 1..n
  PROVE  \E x, y : AtLine(A, n, x, y)
<1> PICK x, y : x = A[line - 1] /\ y = A[line]
  OBVIOUS
<1>1. n \in Nat /\ line \in 0..n /\ line - 1 \in 0..n
  BY DEF Running, Accounts
<1>2. y = Carry(x, Line) /\ Fine(Line)
  BY DEF Running, Accounts, Line
<1>3. /\ Account(x) /\ Account(y) /\ y.errs + 2 * y.runaways <= MaxErrs
      /\ y.over => A[n].env = y.env /\ A[n].errs = y.errs /\ A[n].runaways = y.runaways
  BY <1>1 DEF Running, Accounts
<1>4. AtLine(A, n, x, y)
  BY <1>1, <1>2, <1>3 DEF AtLine
<1> QED BY <1>4

\* A line that the parent sees to by itself.
LEMMA DoneOwes ==
  ASSUME NEW A, NEW n, NEW says, Running(A, n, says),
         NEW x, NEW y, AtLine(A, n, x, y),
         line' = line, proc' = proc, at' = IF y.over THEN "exited" ELSE "prompt",
         errs' \in 0..MaxErrs, Ended(y)'
  PROVE  Owed(A, n)'
<1>1. CASE ~y.over
  <2>1. line \in 1..n /\ n \in Nat /\ y = A[line]
    BY DEF AtLine
  <2>2. line' \in 0..n /\ A[line'] = y
    BY <2>1
  <2>3. Progress(A, n)'
    BY <1>1, <2>2 DEF Progress, Ended
  <2> QED BY <1>1, <2>3 DEF Running, Owed, TodoInv
<1>2. CASE y.over
  <2>1. Ended(A[n])'
    BY <1>2 DEF AtLine, Ended
  <2>2. Progress(A, n)'
    BY <1>2, <2>1 DEF Progress
  <2> QED BY <1>2, <2>2 DEF Running, Owed, TodoInv
<1> QED BY <1>1, <1>2

\* The messages of a built-in command.
LEMMA ThrowIs ==
  ASSUME NEW m, m \in Nat, errs \in 0..MaxErrs, errs + m <= MaxErrs, Throw(m)
  PROVE  errs' = errs + m /\ errs' \in 0..MaxErrs
BY DEF Throw

LEMMA QuietOwes ==
  ASSUME NEW A, NEW n, NEW says, Running(A, n, says),
         Blank \/ LeadingAmpersand \/ FirstRedirect \/ FirstBlank
  PROVE  Owed(A, n)'
<1>1. at = "dispatch" /\ line' = line /\ env' = env /\ errs' = errs /\ proc' = proc
  BY DEF Blank, LeadingAmpersand, FirstRedirect, FirstBlank, FirstDispatch, Dispatch
<1>2. line \in 1..n /\ ~A[line - 1].over /\ Ended(A[line - 1]) /\ errs \in 0..MaxErrs
  BY <1>1 DEF Running, Owed, Progress
<1> PICK x, y : AtLine(A, n, x, y)
  BY <1>2, LineIs
<1>3. ~x.over /\ Ended(x) /\ Account(x) /\ y = Carry(x, Line) /\ Fine(Line)
  BY <1>2 DEF AtLine
<1>4. CASE Blank \/ FirstRedirect
  <2>1. /\ at' = "prompt"
        /\ Line.kind = "blank" \/ (Line.kind = "first" /\ Line.redirection = "found")
    BY <1>4 DEF Blank, FirstRedirect, Dispatch
  <2>2. y.env = x.env /\ y.errs = x.errs /\ y.runaways = x.runaways /\ ~y.over
    BY <1>3, <2>1, CarryQuiet
  <2>3. Ended(y)'
    BY <1>1, <1>3, <2>2 DEF Ended
  <2> QED BY <1>1, <1>2, <2>1, <2>2, <2>3, DoneOwes
<1>5. CASE LeadingAmpersand
  <2>1. at' = "exited" /\ Line.kind = "amp"
    BY <1>5 DEF LeadingAmpersand, Dispatch
  <2>2. y.env = x.env /\ y.errs = x.errs /\ y.runaways = x.runaways /\ y.over
    BY <1>3, <2>1, CarryOver
  <2>3. Ended(y)'
    BY <1>1, <1>3, <2>2 DEF Ended
  <2> QED BY <1>1, <1>2, <2>1, <2>2, <2>3, DoneOwes
<1>6. CASE FirstBlank
  <2>1. at' = "crashed"
    BY <1>6 DEF FirstBlank
  <2>2. Progress(A, n)'
    BY <2>1 DEF Progress
  <2> QED BY <1>1, <2>1, <2>2 DEF Running, Owed, TodoInv
<1> QED BY <1>4, <1>5, <1>6

\* A line with one command, before it is carried out: its messages, and those of the first
\* shell about its redirection.
Alone(A, n, x, y, ms, first) ==
  /\ AtLine(A, n, x, y) /\ ~x.over /\ Ended(x) /\ Counted(Cmd)
  /\ ms = Messages(Cmd, env) /\ ms \in 0..2
  /\ first = (IF Line.kind = "first" THEN FirstErrors(Line) ELSE 0) /\ first \in 0..1
  /\ y.env = IF Line.kind = "first" THEN FirstChanged(Cmd, env) ELSE Changed(Cmd, env)
  /\ y.errs = x.errs + ms + first /\ y.over = Leaves(Cmd)
  /\ y.runaways = x.runaways + (IF Cmd.op = "runaway" THEN 1 ELSE 0)
  /\ errs \in 0..MaxErrs /\ x.errs \in Nat /\ x.runaways \in Nat

LEMMA AloneIs ==
  ASSUME NEW A, NEW n, NEW says, Running(A, n, says), at = "dispatch",
         Line.kind = "single" \/ (Line.kind = "first" /\ Line.redirection # "found")
  PROVE  \E x, y, ms, first : Alone(A, n, x, y, ms, first)
<1>1. line \in 1..n /\ ~A[line - 1].over /\ Ended(A[line - 1]) /\ errs \in 0..MaxErrs
  BY DEF Running, Owed, Progress
<1> PICK x, y : AtLine(A, n, x, y)
  BY <1>1, LineIs
<1>2. ~x.over /\ Ended(x) /\ Account(x) /\ y = Carry(x, Line) /\ Fine(Line)
  BY <1>1 DEF AtLine
<1> PICK cmd : cmd = Line.commands[1]
  OBVIOUS
<1>3. /\ Counted(cmd)
      /\ y.env = IF Line.kind = "first" THEN FirstChanged(cmd, x.env) ELSE Changed(cmd, x.env)
      /\ y.errs = x.errs + Messages(cmd, x.env)
                   + (IF Line.kind = "first" THEN FirstErrors(Line) ELSE 0)
      /\ y.over = Leaves(cmd)
      /\ y.runaways = x.runaways + (IF cmd.op = "runaway" THEN 1 ELSE 0)
  BY <1>2, CarryAlone
<1>4. cmd = Cmd /\ x.env = env
  BY <1>2 DEF Cmd, Ended
<1> PICK ms : ms = Messages(Cmd, env)
  OBVIOUS
<1>5. ms \in 0..2
  BY <1>3, <1>4, MessagesFew
<1> PICK first : first = IF Line.kind = "first" THEN FirstErrors(Line) ELSE 0
  OBVIOUS
<1>6. first \in 0..1
  BY DEF FirstErrors
<1>7. y.errs = x.errs + ms + first
  BY <1>3, <1>4
<1>8. x.errs \in Nat /\ x.runaways \in Nat
  BY <1>2 DEF Account
<1>9. /\ y.env = IF Line.kind = "first" THEN FirstChanged(Cmd, env) ELSE Changed(Cmd, env)
      /\ y.over = Leaves(Cmd) /\ Counted(Cmd)
      /\ y.runaways = x.runaways + (IF Cmd.op = "runaway" THEN 1 ELSE 0)
  BY ONLY <1>3, <1>4
<1> WITNESS x, y, ms, first
<1> QED BY ONLY AtLine(A, n, x, y), ms = Messages(Cmd, env),
                first = IF Line.kind = "first" THEN FirstErrors(Line) ELSE 0,
                <1>1, <1>2, <1>5, <1>6, <1>7, <1>8, <1>9, Zenon DEF Alone

LEMMA BuiltinOwes ==
  ASSUME NEW A, NEW n, NEW says, Running(A, n, says), Builtin \/ FirstBuiltin
  PROVE  Owed(A, n)'
<1>1. /\ at = "dispatch" /\ line' = line /\ proc' = proc
      /\ at' = IF Leaves(Cmd) THEN "exited" ELSE "prompt"
      /\ Line.kind = "single" \/ (Line.kind = "first" /\ Line.redirection # "found")
      /\ env' = IF Line.kind = "first" THEN FirstChanged(Cmd, env) ELSE Changed(Cmd, env)
      /\ Cmd.op # "runaway"
  BY DEF Builtin, FirstBuiltin, FirstDispatch, Dispatch
<1> PICK x, y, ms, first : Alone(A, n, x, y, ms, first)
  BY <1>1, AloneIs
<1> USE DEF Alone
<1> PICK m : m = first + ms
  OBVIOUS
<1>2. Throw(m)
  <2>1. CASE Builtin
    <3>1. Line.kind = "single" /\ Throw(ms)
      BY <2>1 DEF Builtin, Dispatch
    <3>2. m = ms
      BY <3>1
    <3> QED BY <3>1, <3>2
  <2>2. CASE FirstBuiltin
    BY <2>2 DEF FirstBuiltin, FirstDispatch, Dispatch
  <2> QED BY <2>1, <2>2
<1>3. /\ m \in Nat /\ y.errs = x.errs + m /\ y.runaways = x.runaways
      /\ y.errs + 2 * y.runaways <= MaxErrs /\ MaxErrs \in Nat
      /\ x.errs <= errs /\ errs <= x.errs + 2 * x.runaways
  <2>1. y.errs + 2 * y.runaways <= MaxErrs /\ MaxErrs \in Nat
    BY DEF AtLine
  <2>2. x.errs <= errs /\ errs <= x.errs + 2 * x.runaways
    BY DEF Ended
  <2> QED BY <1>1, <2>1, <2>2
<1>4. errs + m <= MaxErrs
  BY ONLY <1>3, errs \in 0..MaxErrs, x.errs \in Nat, x.runaways \in Nat
<1>5. errs' = errs + m /\ errs' \in 0..MaxErrs
  BY <1>2, <1>3, <1>4, ThrowIs
<1>6. y.errs <= errs' /\ errs' <= y.errs + 2 * y.runaways
  BY ONLY <1>3, <1>5, errs \in 0..MaxErrs, x.errs \in Nat, x.runaways \in Nat
<1>7. Ended(y)'
  BY <1>1, <1>6 DEF Ended
<1>8. at' = IF y.over THEN "exited" ELSE "prompt"
  BY <1>1
<1> QED BY <1>1, <1>5, <1>7, <1>8, DoneOwes

LEMMA RunsAwayOwes ==
  ASSUME NEW A, NEW n, NEW says, Running(A, n, says), LineRunsAway
  PROVE  Owed(A, n)'
<1>1. /\ at = "dispatch" /\ line' = line /\ proc' = proc /\ env' = env
      /\ Line.kind = "single" /\ Cmd.op = "runaway"
      /\ at' \in {"crashed", "prompt"} /\ \E m \in 0..2 : Throw(m)
  BY DEF LineRunsAway, RunsAway, Dispatch
<1> PICK m \in 0..2 : Throw(m)
  BY <1>1
<1> PICK x, y, ms, first : Alone(A, n, x, y, ms, first)
  BY <1>1, AloneIs
<1> USE DEF Alone
<1>2. ms = 0 /\ first = 0 /\ ~Leaves(Cmd) /\ Changed(Cmd, env) = env
  <2>1. ms = 0
    BY <1>1, MessagesFew
  <2> QED BY <1>1, <2>1 DEF Leaves, Changed
<1>3. /\ y.env = env /\ ~y.over /\ y.errs = x.errs /\ y.runaways = x.runaways + 1
      /\ y.errs + 2 * y.runaways <= MaxErrs /\ MaxErrs \in Nat
      /\ x.errs <= errs /\ errs <= x.errs + 2 * x.runaways
  <2>1. y.errs + 2 * y.runaways <= MaxErrs /\ MaxErrs \in Nat
    BY DEF AtLine
  <2>2. x.errs <= errs /\ errs <= x.errs + 2 * x.runaways
    BY DEF Ended
  <2>3. y.env = env /\ ~y.over
    BY <1>1, <1>2
  <2> QED BY <1>1, <1>2, <2>1, <2>2, <2>3
<1>4. m \in Nat /\ errs + m <= MaxErrs
  BY ONLY <1>3, m \in 0..2, errs \in 0..MaxErrs, x.errs \in Nat, x.runaways \in Nat
<1>5. errs' = errs + m /\ errs' \in 0..MaxErrs
  BY <1>4, ThrowIs
<1>6. y.errs <= errs' /\ errs' <= y.errs + 2 * y.runaways
  BY ONLY <1>3, <1>5, m \in 0..2, errs \in 0..MaxErrs, x.errs \in Nat, x.runaways \in Nat
<1>7. Ended(y)'
  BY <1>1, <1>3, <1>6 DEF Ended
<1>8. CASE at' = "prompt"
  BY <1>1, <1>3, <1>5, <1>7, <1>8, DoneOwes
<1>9. CASE at' = "crashed"
  <2>1. Progress(A, n)'
    BY <1>9 DEF Progress
  <2> QED BY <1>1, <1>5, <1>9, <2>1 DEF Running, Owed, TodoInv
<1> QED BY <1>1, <1>8, <1>9

LEMMA ForkOwes ==
  ASSUME NEW A, NEW n, NEW says, Running(A, n, says), Fork \/ FirstFork
  PROVE  Owed(A, n)'
<1>1. /\ at = "dispatch" /\ line' = line /\ at' = "waitpid" /\ env' = env
      /\ Line.kind = "single" \/ (Line.kind = "first" /\ Line.redirection # "found")
      /\ Cmd.op = "run" /\ \E p \in Pid : Spawn(p, "only", Cmd)
  BY DEF Fork, FirstFork, FirstDispatch, Dispatch
<1> PICK x, y, ms, first : Alone(A, n, x, y, ms, first)
  BY <1>1, AloneIs
<1> USE DEF Alone
<1>2. ~Leaves(Cmd) /\ Changed(Cmd, env) = env /\ FirstChanged(Cmd, env) = env
  BY <1>1 DEF Leaves, Changed, FirstChanged
<1>3. /\ y.env = env /\ ~y.over /\ y.errs = x.errs + ms + first /\ y.runaways = x.runaways
      /\ y.errs + 2 * y.runaways <= MaxErrs /\ MaxErrs \in Nat
      /\ x.errs <= errs /\ errs <= x.errs + 2 * x.runaways
  <2>1. y.errs + 2 * y.runaways <= MaxErrs /\ MaxErrs \in Nat
    BY DEF AtLine
  <2>2. x.errs <= errs /\ errs <= x.errs + 2 * x.runaways
    BY DEF Ended
  <2>3. y.env = env /\ ~y.over
    BY <1>1, <1>2
  <2> QED BY <1>1, <2>1, <2>2, <2>3
<1>4. first \in Nat /\ errs + first <= MaxErrs
  BY ONLY <1>3, first \in 0..1, ms \in 0..2, errs \in 0..MaxErrs, x.errs \in Nat, x.runaways \in Nat
<1>5. errs' = errs + first /\ errs' \in 0..MaxErrs
  <2>1. CASE Fork
    <3>1. first = 0 /\ errs' = errs
      BY <2>1 DEF Fork, Dispatch
    <3> QED BY <3>1, <1>4
  <2>2. CASE FirstFork
    <3>1. Throw(first)
      BY <2>2 DEF FirstFork, FirstDispatch, Dispatch
    <3> QED BY <1>4, <3>1, ThrowIs
  <2> QED BY <2>1, <2>2
<1> PICK p \in Pid : Spawn(p, "only", Cmd)
  BY <1>1
<1> PICK new : new = [state |-> "only", cmd |-> Cmd, buf |-> buf, env |-> env]
  OBVIOUS
<1>6. proc[p] = Free /\ proc' = [proc EXCEPT ![p] = new]
  BY DEF Spawn
<1>7. new.state = "only" /\ new.cmd = Cmd /\ new.env = env
  BY ONLY new = [state |-> "only", cmd |-> Cmd, buf |-> buf, env |-> env]
<1>8. Able(new) /\ Due(new) = ms /\ Pending(new) = 0
  BY <1>1, <1>7 DEF Able, Due, Pending
<1>9. ProcInv /\ Kids = {} /\ IsFiniteSet(Kids) /\ \A q \in Pid : Able(proc[q])
  BY <1>1, FS_EmptySet DEF Running, ShellInv, KidsInv, Owed
<1>10. DueKids' = ms /\ PendingKids' = 0 /\ \A q \in Pid : Able(proc'[q])
  <2>1. DueKids = 0 /\ PendingKids = 0
    BY <1>9, NoKids
  <2>2. Due(proc[p]) = 0 /\ Pending(proc[p]) = 0
    BY <1>6 DEF Due, Pending, Free
  <2>3. /\ DueKids' \in Nat /\ PendingKids' \in Nat
        /\ DueKids' + Due(proc[p]) = DueKids + Due(new)
        /\ PendingKids' + Pending(proc[p]) = PendingKids + Pending(new)
        /\ \A q \in Pid : Able(proc'[q])
    BY <1>6, <1>8, <1>9, KidChange
  <2>4. /\ DueKids' \in Nat /\ DueKids' + 0 = 0 + ms
        /\ PendingKids' \in Nat /\ PendingKids' + 0 = 0 + 0
    BY <1>8, <2>1, <2>2, <2>3, Zenon
  <2>5. \A i \in Nat : (i + 0 = 0 + ms => i = ms) /\ (i + 0 = 0 + 0 => i = 0)
    BY ONLY ms \in 0..2
  <2>6. DueKids' = ms /\ PendingKids' = 0
    BY ONLY <2>4, <2>5, Zenon
  <2> QED BY <2>3, <2>6
<1>11. DueTodo' = 0 /\ PendingTodo' = 0
  BY <1>1 DEF DueTodo, PendingTodo
<1>12. Open(y)'
  <2>1. y.errs <= errs' + (ms + 0) /\ errs' + (ms + 0) + 2 * (0 + 0) <= y.errs + 2 * y.runaways
    BY ONLY <1>3, <1>5, first \in 0..1, ms \in 0..2, errs \in 0..MaxErrs, x.errs \in Nat,
            x.runaways \in Nat
  <2> QED BY <1>1, <1>3, <1>10, <1>11, <2>1 DEF Open
<1>13. line' \in 1..n /\ A[line'] = y
  BY <1>1 DEF AtLine
<1>14. Progress(A, n)'
  BY <1>1, <1>12, <1>13 DEF Progress, Open
<1> QED BY <1>1, <1>5, <1>10, <1>14 DEF Owed, TodoInv

LEMMA SplitOwes ==
  ASSUME NEW A, NEW n, NEW says, Running(A, n, says), Split
  PROVE  Owed(A, n)'
<1>1. /\ at = "dispatch" /\ line' = line /\ at' = "fork" /\ env' = env /\ errs' = errs
      /\ proc' = proc /\ script' = script /\ Line.kind = "parallel" /\ todo' = Line.commands
  BY DEF Split, Dispatch, input
<1>2. line \in 1..n /\ ~A[line - 1].over /\ Ended(A[line - 1]) /\ errs \in 0..MaxErrs
  BY <1>1 DEF Running, Owed, Progress
<1> PICK x, y : AtLine(A, n, x, y)
  BY <1>2, LineIs
<1>3. /\ ~x.over /\ Account(x) /\ y = Carry(x, Line) /\ Fine(Line)
      /\ x.env = env /\ x.errs <= errs /\ errs <= x.errs + 2 * x.runaways
  BY <1>2 DEF AtLine, Ended
<1> PICK cmds : cmds = Line.commands
  OBVIOUS
<1>4. /\ y.env = env /\ ~y.over
      /\ y.errs = x.errs + AllMessages(cmds, env)
      /\ y.runaways = x.runaways + AllRunaways(cmds)
  BY <1>1, <1>3, CarryParallel
<1>5. Line' = Line /\ Len(cmds) \in Nat /\ DOMAIN cmds = 1..Len(cmds)
  BY <1>1, <1>3 DEF Line, Fine, IsSequence
<1>6. \A k \in DOMAIN cmds : Left(k)'
  <2>1. Len(Line.commands)' - Len(todo)' = 0
    BY <1>1, <1>5
  <2> QED BY <1>5, <2>1 DEF Left
<1>7. DueTodo' = AllMessages(cmds, env)
  <2> PICK w : w = [k \in DOMAIN cmds |-> Messages(cmds[k], env)]
    OBVIOUS
  <2> PICK v : v = [k \in DOMAIN cmds |-> IF Left(k)' THEN Messages(cmds[k], env) ELSE 0]
    OBVIOUS
  <2>1. v = w
    BY <1>6
  <2>2. DueTodo' = Total(v)
    BY <1>1, <1>5 DEF DueTodo
  <2> QED BY <2>1, <2>2 DEF AllMessages
<1>8. PendingTodo' = AllRunaways(cmds)
  <2> PICK w : w = [k \in DOMAIN cmds |-> IF cmds[k].op = "runaway" THEN 1 ELSE 0]
    OBVIOUS
  <2> PICK v : v = [k \in DOMAIN cmds |-> IF Left(k)' /\ cmds[k].op = "runaway" THEN 1 ELSE 0]
    OBVIOUS
  <2>1. v = w
    BY <1>6
  <2>2. PendingTodo' = Total(v)
    BY <1>1, <1>5 DEF PendingTodo
  <2> QED BY <2>1, <2>2 DEF AllRunaways
<1>9. DueKids' = 0 /\ PendingKids' = 0
  <2>1. Kids = {}
    BY <1>1 DEF Running, ShellInv, KidsInv
  <2>2. DueKids = 0 /\ PendingKids = 0
    BY <2>1, NoKids
  <2>3. DueKids' = DueKids /\ PendingKids' = PendingKids
    BY <1>1 DEF DueKids, PendingKids
  <2> QED BY <2>2, <2>3
<1>10. AllMessages(cmds, env) \in Nat /\ AllRunaways(cmds) \in Nat
  BY <1>3, SequenceFinite, AllNat DEF Fine
<1>11. Open(y)'
  <2>1. x.errs \in Nat /\ x.runaways \in Nat
    BY <1>3 DEF Account
  <2>2. \A d, r \in Nat : y.errs = x.errs + d /\ y.runaways = x.runaways + r =>
          /\ y.errs <= errs + (0 + d)
          /\ errs + (0 + d) + 2 * (0 + r) <= y.errs + 2 * y.runaways
    BY ONLY <1>2, <1>3, <2>1
  <2>3. /\ y.errs <= errs' + (DueKids' + DueTodo')
        /\ errs' + (DueKids' + DueTodo') + 2 * (PendingKids' + PendingTodo')
             <= y.errs + 2 * y.runaways
    BY ONLY <1>1, <1>4, <1>7, <1>8, <1>9, <1>10, <2>2
  <2> QED BY <1>1, <1>4, <2>3 DEF Open
<1>12. line' \in 1..n /\ A[line'] = y
  BY <1>1 DEF AtLine
<1>13. Progress(A, n)'
  BY <1>1, <1>11, <1>12 DEF Progress, Open
<1>14. TodoInv'
  BY <1>1, <1>5 DEF TodoInv
<1> QED BY <1>1, <1>2, <1>13, <1>14 DEF Running, Owed

\* The sums over the commands that are still to be forked.
LEMMA TodoSums ==
  ASSUME at = "fork", Fine(Line), Len(todo) \in Nat,
         NEW j \in DOMAIN Line.commands, j = Len(Line.commands) - Len(todo) + 1,
         Len(todo') = Len(todo) - 1, at' = at, line' = line, script' = script, env' = env,
         NEW cmd, cmd = Line.commands[j]
  PROVE  /\ DueTodo \in Nat /\ DueTodo' \in Nat /\ DueTodo = DueTodo' + Messages(cmd, env)
         /\ PendingTodo \in Nat /\ PendingTodo' \in Nat
         /\ PendingTodo = PendingTodo' + (IF cmd.op = "runaway" THEN 1 ELSE 0)
<1> PICK cmds : cmds = Line.commands
  OBVIOUS
<1> PICK m : m = Len(cmds)
  OBVIOUS
<1>1. m \in Nat /\ DOMAIN cmds = 1..m /\ Line' = Line
  BY DEF Fine, IsSequence, Line
<1> PICK S : S = DOMAIN cmds
  OBVIOUS
<1>2. IsFiniteSet(S) /\ S \subseteq S /\ j \in S
  <2>1. 1 \in Int /\ m \in Int
    BY <1>1
  <2>2. IsFiniteSet(1..m)
    BY ONLY <2>1, FS_Interval
  <2> QED BY <1>1, <2>2
<1>3. \A k \in S : /\ Left(k)' = (k > j) /\ (k # j => (Left(k) = (k > j))) /\ (k = j => Left(k))
  <2> TAKE k \in S
  <2>1. /\ Len(Line'.commands) - Len(todo') = j
        /\ Len(Line.commands) - Len(todo) = j - 1 /\ j \in Int /\ k \in Int
    BY <1>1
  <2> QED BY ONLY <2>1 DEF Left
<1>4. ~Left(j)' /\ Left(j)
  <2>1. Left(j)' = (j > j) /\ j \in Nat /\ Left(j)
    BY <1>1, <1>2, <1>3
  <2>2. ~(j > j)
    BY ONLY <2>1
  <2> QED BY ONLY <2>1, <2>2, Zenon
<1>5. \A k \in S : Messages(cmds[k], env) \in 0..2
  BY MessagesFew DEF Fine
<1>6. DueTodo \in Nat /\ DueTodo' \in Nat /\ DueTodo = DueTodo' + Messages(cmd, env)
  <2> PICK w : w = [k \in S |-> IF Left(k)' THEN Messages(cmds[k], env) ELSE 0]
    OBVIOUS
  <2> PICK v : v = [k \in S |-> IF Left(k) THEN Messages(cmds[k], env) ELSE 0]
    OBVIOUS
  <2>1. DOMAIN w = S /\ DOMAIN v = S
    OBVIOUS
  <2>2. \A k \in S : k \notin S => w[k] = 0
    OBVIOUS
  <2>3. \A k \in S : k # j => v[k] = w[k]
    BY <1>3
  <2>4. w[j] = 0 /\ v[j] = Messages(cmd, env)
    BY <1>2, <1>4
  <2>5. w[j] \in 0..2 /\ v[j] \in 0..2
    BY <1>2, <1>5, <2>4
  <2>6. Total(w) \in Nat /\ Total(v) \in Nat /\ Total(v) + w[j] = Total(w) + v[j]
    BY ONLY <1>2, <2>1, <2>2, <2>3, <2>5, TotalChange
  <2>7. DueTodo = Total(v) /\ DueTodo' = Total(w)
    BY <1>1 DEF DueTodo
  <2> QED BY ONLY <2>4, <2>5, <2>6, <2>7
<1>7. /\ PendingTodo \in Nat /\ PendingTodo' \in Nat
      /\ PendingTodo = PendingTodo' + (IF cmd.op = "runaway" THEN 1 ELSE 0)
  <2> PICK w : w = [k \in S |-> IF Left(k)' /\ cmds[k].op = "runaway" THEN 1 ELSE 0]
    OBVIOUS
  <2> PICK v : v = [k \in S |-> IF Left(k) /\ cmds[k].op = "runaway" THEN 1 ELSE 0]
    OBVIOUS
  <2>1. DOMAIN w = S /\ DOMAIN v = S
    OBVIOUS
  <2>2. \A k \in S : k \notin S => w[k] = 0
    OBVIOUS
  <2>3. \A k \in S : k # j => v[k] = w[k]
    BY <1>3
  <2>4. w[j] = 0 /\ v[j] = (IF cmd.op = "runaway" THEN 1 ELSE 0)
    BY <1>2, <1>4
  <2>5. w[j] \in 0..2 /\ v[j] \in 0..2
    BY <2>4
  <2>6. Total(w) \in Nat /\ Total(v) \in Nat /\ Total(v) + w[j] = Total(w) + v[j]
    BY ONLY <1>2, <2>1, <2>2, <2>3, <2>5, TotalChange
  <2>7. PendingTodo = Total(v) /\ PendingTodo' = Total(w)
    BY <1>1 DEF PendingTodo
  <2> QED BY ONLY <2>4, <2>5, <2>6, <2>7
<1> QED BY <1>6, <1>7

LEMMA TodoNat ==
  ASSUME at = "fork" => Fine(Line) PROVE DueTodo \in Nat /\ PendingTodo \in Nat
<1>1. CASE at # "fork"
  BY <1>1 DEF DueTodo, PendingTodo
<1>2. CASE at = "fork"
  <2> PICK w : w = [k \in DOMAIN Line.commands |->
                      IF Left(k) THEN Messages(Line.commands[k], env) ELSE 0]
    OBVIOUS
  <2> PICK v : v = [k \in DOMAIN Line.commands |->
                      IF Left(k) /\ Line.commands[k].op = "runaway" THEN 1 ELSE 0]
    OBVIOUS
  <2>1. IsFiniteSet(DOMAIN Line.commands)
    BY <1>2, SequenceFinite DEF Fine
  <2>3. IsFiniteSet(DOMAIN w) /\ IsFiniteSet(DOMAIN v)
    BY <2>1
  <2>4. Total(w) \in Nat /\ Total(v) \in Nat
    BY ONLY <2>3, TotalNat
  <2> QED BY <1>2, <2>4 DEF DueTodo, PendingTodo
<1> QED BY <1>1, <1>2

\* What is known while children are there.
Busy(A, n, x, y) ==
  /\ AtLine(A, n, x, y) /\ Open(y) /\ y.errs \in Nat /\ y.runaways \in Nat
  /\ y.errs + 2 * y.runaways <= MaxErrs /\ errs \in 0..MaxErrs /\ MaxErrs \in Nat
  /\ ProcInv /\ IsFiniteSet(Kids) /\ (\A q \in Pid : Able(proc[q]))
  /\ DueTodo \in Nat /\ PendingTodo \in Nat

LEMMA BusyIs ==
  ASSUME NEW A, NEW n, NEW says, Running(A, n, says), at \in {"waitpid", "fork", "wait"}
  PROVE  \E x, y : Busy(A, n, x, y)
<1>1. line \in 1..n /\ Open(A[line]) /\ errs \in 0..MaxErrs
  BY DEF Running, Owed, Progress
<1> PICK x, y : AtLine(A, n, x, y)
  BY <1>1, LineIs
<1>2. /\ Open(y) /\ y.errs \in Nat /\ y.runaways \in Nat /\ Fine(Line)
      /\ y.errs + 2 * y.runaways <= MaxErrs
  BY <1>1 DEF AtLine, Account
<1>3. ProcInv /\ IsFiniteSet(Kids) /\ (\A q \in Pid : Able(proc[q]))
  BY DEF Running, ShellInv, KidsInv, Owed
<1>4. DueTodo \in Nat /\ PendingTodo \in Nat
  BY <1>2, TodoNat
<1>5. MaxErrs \in Nat
  OBVIOUS
<1> QED BY ONLY AtLine(A, n, x, y), <1>1, <1>2, <1>3, <1>4, <1>5, Zenon DEF Busy

\* Steps while children are there: what is due and what has been reported stay in balance.
LEMMA OpenOwes ==
  ASSUME NEW A, NEW n, NEW says, Running(A, n, says),
         NEW x, NEW y, AtLine(A, n, x, y), ~y.over, env' = y.env,
         line' = line, at' \in {"fork", "wait", "waitpid"}, TodoInv',
         errs' \in 0..MaxErrs, \A q \in Pid : Able(proc'[q]),
         y.errs <= errs' + (DueKids' + DueTodo'),
         errs' + (DueKids' + DueTodo') + 2 * (PendingKids' + PendingTodo')
           <= y.errs + 2 * y.runaways
  PROVE  Owed(A, n)'
<1>1. Open(y)'
  BY DEF Open
<1>2. line' \in 1..n /\ A[line'] = y
  BY DEF AtLine
<1>3. Progress(A, n)'
  BY <1>1, <1>2 DEF Progress, Open
<1> QED BY <1>3 DEF Owed

LEMMA ForkNextOwes ==
  ASSUME NEW A, NEW n, NEW says, Running(A, n, says), ForkNext
  PROVE  Owed(A, n)'
<1>1. /\ at = "fork" /\ at' = at /\ line' = line /\ env' = env /\ errs' = errs
      /\ script' = script /\ todo # << >> /\ todo' = Tail(todo)
      /\ \E p \in Pid : Spawn(p, "parallel", Head(todo))
  BY DEF ForkNext, input
<1> PICK x, y : Busy(A, n, x, y)
  BY <1>1, BusyIs
<1> USE DEF Busy
<1> PICK cmds : cmds = Line.commands
  OBVIOUS
<1> PICK l : l = Len(todo)
  OBVIOUS
<1> PICK cmd : cmd = Head(todo)
  OBVIOUS
<1>2. /\ l \in Nat \ {0} /\ cmd = todo[1]
      /\ Len(todo') = l - 1 /\ \A k \in 1..(l - 1) : todo'[k] = todo[k + 1]
  <2>1. Few(todo)
    BY <1>1 DEF Running, ShellInv, KidsInv
  <2> PICK S : todo \in Seq(S)
    BY <2>1 DEF Few
  <2>2. Len(Tail(todo)) = Len(todo) - 1 /\ \A k \in 1..Len(Tail(todo)) : Tail(todo)[k] = todo[k + 1]
    BY <1>1, HeadTailProperties
  <2>3. Len(todo) \in Nat \ {0}
    BY <1>1
  <2>4. Head(todo) = todo[1]
    BY <1>1
  <2> QED BY <1>1, <2>2, <2>3, <2>4
<1>3. /\ Fine(Line) /\ Line' = Line /\ Len(cmds) \in Nat /\ DOMAIN cmds = 1..Len(cmds)
      /\ l <= Len(cmds) /\ \A k \in 1..l : todo[k] = cmds[Len(cmds) - l + k]
  <2>1. Fine(Line)
    BY DEF AtLine
  <2>2. TodoInv
    BY DEF Running, Owed
  <2> QED BY <1>1, <2>1, <2>2 DEF TodoInv, Fine, IsSequence, Line
<1> PICK j : j = Len(cmds) - l + 1
  OBVIOUS
<1>4. j \in DOMAIN cmds /\ cmd = cmds[j]
  BY <1>2, <1>3
<1> PICK ms, r : ms = Messages(cmd, env) /\ r = IF cmd.op = "runaway" THEN 1 ELSE 0
  OBVIOUS
<1>5. /\ DueTodo' \in Nat /\ DueTodo = DueTodo' + ms
      /\ PendingTodo' \in Nat /\ PendingTodo = PendingTodo' + r
  <2>1. Len(todo) \in Nat /\ Len(todo') = Len(todo) - 1
    BY <1>2
  <2> QED BY <1>1, <1>3, <1>4, <2>1, TodoSums
<1> PICK p \in Pid : Spawn(p, "parallel", cmd)
  BY <1>1
<1> PICK new : new = [state |-> "parallel", cmd |-> cmd, buf |-> buf, env |-> env]
  OBVIOUS
<1>6. proc[p] = Free /\ proc' = [proc EXCEPT ![p] = new]
  BY DEF Spawn
<1>7. new.state = "parallel" /\ new.cmd = cmd /\ new.env = env
  BY ONLY new = [state |-> "parallel", cmd |-> cmd, buf |-> buf, env |-> env]
<1>8. Able(new) /\ Due(new) = ms /\ Pending(new) = r
  <2>1. Counted(cmd)
    BY <1>3, <1>4 DEF Fine
  <2> QED BY <1>7, <2>1 DEF Able, Due, Pending
<1>9. /\ DueKids \in Nat /\ DueKids' \in Nat /\ PendingKids \in Nat /\ PendingKids' \in Nat
      /\ DueKids' = DueKids + ms /\ PendingKids' = PendingKids + r
      /\ \A q \in Pid : Able(proc'[q])
  <2>1. Due(proc[p]) = 0 /\ Pending(proc[p]) = 0
    BY <1>6 DEF Due, Pending, Free
  <2>2. /\ DueKids \in Nat /\ DueKids' \in Nat /\ PendingKids \in Nat /\ PendingKids' \in Nat
        /\ DueKids' + Due(proc[p]) = DueKids + Due(new)
        /\ PendingKids' + Pending(proc[p]) = PendingKids + Pending(new)
        /\ \A q \in Pid : Able(proc'[q])
    BY <1>6, <1>8, KidChange
  <2>3. /\ DueKids \in Nat /\ DueKids' \in Nat /\ PendingKids \in Nat /\ PendingKids' \in Nat
        /\ DueKids' + 0 = DueKids + ms /\ PendingKids' + 0 = PendingKids + r
    BY ONLY <1>8, <2>1, <2>2, Zenon
  <2>4. DueKids' = DueKids + ms /\ PendingKids' = PendingKids + r
    BY ONLY <2>3
  <2> QED BY ONLY <2>2, <2>4, Zenon
<1>10. TodoInv'
  <2>1. \A k \in 1..(l - 1) : todo'[k] = cmds[Len(cmds) - (l - 1) + k]
    <3> TAKE k \in 1..(l - 1)
    <3>1. k + 1 \in 1..l /\ Len(cmds) - l + (k + 1) = Len(cmds) - (l - 1) + k
      <4>1. l \in Nat /\ Len(cmds) \in Nat
        BY <1>2, <1>3
      <4> QED BY ONLY <4>1, k \in 1..(l - 1)
    <3> QED BY <1>2, <1>3, <3>1
  <2>2. l - 1 <= Len(cmds)
    BY <1>2, <1>3
  <2> QED BY <1>2, <1>3, <2>1, <2>2 DEF TodoInv
<1>11. /\ env = y.env /\ ~y.over
       /\ y.errs <= errs + (DueKids + DueTodo)
       /\ errs + (DueKids + DueTodo) + 2 * (PendingKids + PendingTodo) <= y.errs + 2 * y.runaways
  BY Zenon DEF Open
<1>12. ms \in Nat /\ r \in Nat
  <2>1. ms \in 0..2
    BY <1>3, <1>4, MessagesFew DEF Fine
  <2>2. r \in {0, 1}
    OBVIOUS
  <2> QED BY ONLY <2>1, <2>2
<1>13. /\ DueKids' + DueTodo' = DueKids + DueTodo
       /\ PendingKids' + PendingTodo' = PendingKids + PendingTodo
  BY ONLY <1>5, <1>9, <1>12
<1>14. /\ y.errs <= errs' + (DueKids' + DueTodo')
       /\ errs' + (DueKids' + DueTodo') + 2 * (PendingKids' + PendingTodo')
            <= y.errs + 2 * y.runaways
  BY ONLY <1>1, <1>11, <1>13
<1>15. at' \in {"fork", "wait", "waitpid"} /\ env' = y.env /\ errs' \in 0..MaxErrs
  BY <1>1, <1>11
<1> QED BY ONLY Running(A, n, says), AtLine(A, n, x, y), <1>1, <1>9, <1>10, <1>11, <1>14, <1>15,
                OpenOwes, Zenon

LEMMA ForkedOwes ==
  ASSUME NEW A, NEW n, NEW says, Running(A, n, says), Forked
  PROVE  Owed(A, n)'
<1>1. /\ at = "fork" /\ at' = "wait" /\ line' = line /\ env' = env /\ errs' = errs
      /\ proc' = proc /\ todo = << >>
  BY DEF Forked
<1> PICK x, y : Busy(A, n, x, y)
  BY <1>1, BusyIs
<1> USE DEF Busy
<1>2. \A k \in DOMAIN Line.commands : ~Left(k)
  <2>1. /\ Len(todo) = 0 /\ Len(Line.commands) \in Nat
        /\ DOMAIN Line.commands = 1..Len(Line.commands)
    BY <1>1 DEF AtLine, Fine, IsSequence
  <2> QED BY ONLY <2>1 DEF Left
<1>3. DueTodo = 0 /\ PendingTodo = 0
  <2> PICK w : w = [k \in DOMAIN Line.commands |->
                      IF Left(k) THEN Messages(Line.commands[k], env) ELSE 0]
    OBVIOUS
  <2> PICK v : v = [k \in DOMAIN Line.commands |->
                      IF Left(k) /\ Line.commands[k].op = "runaway" THEN 1 ELSE 0]
    OBVIOUS
  <2>1. (\A k \in DOMAIN w : w[k] = 0) /\ \A k \in DOMAIN v : v[k] = 0
    BY <1>2
  <2>2. Total(w) = 0 /\ Total(v) = 0
    BY ONLY <2>1, TotalZero
  <2> QED BY <1>1, <2>2 DEF DueTodo, PendingTodo
<1>4. DueTodo' = 0 /\ PendingTodo' = 0 /\ DueKids' = DueKids /\ PendingKids' = PendingKids
  BY <1>1 DEF DueTodo, PendingTodo, DueKids, PendingKids
<1>5. /\ env = y.env /\ ~y.over
      /\ y.errs <= errs + (DueKids + DueTodo)
      /\ errs + (DueKids + DueTodo) + 2 * (PendingKids + PendingTodo) <= y.errs + 2 * y.runaways
  BY Zenon DEF Open
<1>6. /\ y.errs <= errs' + (DueKids' + DueTodo')
      /\ errs' + (DueKids' + DueTodo') + 2 * (PendingKids' + PendingTodo')
           <= y.errs + 2 * y.runaways
  BY ONLY <1>1, <1>3, <1>4, <1>5
<1>7. at' \in {"fork", "wait", "waitpid"} /\ env' = y.env /\ errs' \in 0..MaxErrs /\ TodoInv'
      /\ \A q \in Pid : Able(proc'[q])
  BY <1>1, <1>5 DEF TodoInv
<1> QED BY ONLY Running(A, n, says), AtLine(A, n, x, y), <1>1, <1>5, <1>6, <1>7, OpenOwes, Zenon

\* A child that is waited for does not owe anything.
LEMMA FreeOwes ==
  ASSUME ProcInv, IsFiniteSet(Kids), \A q \in Pid : Able(proc[q]),
         NEW p \in Pid, proc[p].state \in {"zombie", "reapable"}, proc' = [proc EXCEPT ![p] = Free]
  PROVE  /\ DueKids \in Nat /\ PendingKids \in Nat
         /\ DueKids' = DueKids /\ PendingKids' = PendingKids /\ \A q \in Pid : Able(proc'[q])
<1>1. Able(Free) /\ Due(Free) = 0 /\ Pending(Free) = 0
  BY DEF Able, Due, Pending, Free
<1>2. Due(proc[p]) = 0 /\ Pending(proc[p]) = 0
  BY DEF Due, Pending
<1>3. /\ DueKids \in Nat /\ DueKids' \in Nat /\ PendingKids \in Nat /\ PendingKids' \in Nat
      /\ DueKids' + Due(proc[p]) = DueKids + Due(Free)
      /\ PendingKids' + Pending(proc[p]) = PendingKids + Pending(Free)
      /\ \A q \in Pid : Able(proc'[q])
  BY <1>1, KidChange
<1>4. /\ DueKids \in Nat /\ DueKids' \in Nat /\ PendingKids \in Nat /\ PendingKids' \in Nat
      /\ DueKids' + 0 = DueKids + 0 /\ PendingKids' + 0 = PendingKids + 0
  BY ONLY <1>1, <1>2, <1>3, Zenon
<1>5. DueKids' = DueKids /\ PendingKids' = PendingKids
  <2>1. \A a, b \in Nat : a + 0 = b + 0 => a = b
    OBVIOUS
  <2> QED BY ONLY <1>4, <2>1, Zenon
<1> QED BY ONLY <1>3, <1>5, Zenon

LEMMA WaitOwes ==
  ASSUME NEW A, NEW n, NEW says, Running(A, n, says), Wait
  PROVE  Owed(A, n)'
<1>1. at = "wait" /\ at' = at /\ line' = line /\ env' = env /\ errs' = errs
  BY DEF Wait
<1> PICK x, y : Busy(A, n, x, y)
  BY <1>1, BusyIs
<1> USE DEF Busy
<1>2. DueKids' = DueKids /\ PendingKids' = PendingKids /\ \A q \in Pid : Able(proc'[q])
  <2>1. CASE proc' = proc
    BY <2>1 DEF DueKids, PendingKids
  <2>2. CASE \E p \in Pid : proc[p].state = "zombie" /\ proc' = [proc EXCEPT ![p] = Free]
    BY <2>2, FreeOwes
  <2> QED BY <2>1, <2>2 DEF Wait
<1>3. DueTodo = 0 /\ PendingTodo = 0 /\ DueTodo' = 0 /\ PendingTodo' = 0
  BY <1>1 DEF DueTodo, PendingTodo
<1>4. /\ env = y.env /\ ~y.over
      /\ y.errs <= errs + (DueKids + DueTodo)
      /\ errs + (DueKids + DueTodo) + 2 * (PendingKids + PendingTodo) <= y.errs + 2 * y.runaways
  BY Zenon DEF Open
<1>5. /\ y.errs <= errs' + (DueKids' + DueTodo')
      /\ errs' + (DueKids' + DueTodo') + 2 * (PendingKids' + PendingTodo')
           <= y.errs + 2 * y.runaways
  BY ONLY <1>1, <1>2, <1>3, <1>4
<1>6. at' \in {"fork", "wait", "waitpid"} /\ env' = y.env /\ errs' \in 0..MaxErrs /\ TodoInv'
  BY <1>1, <1>4 DEF TodoInv
<1> QED BY ONLY Running(A, n, says), AtLine(A, n, x, y), <1>1, <1>2, <1>4, <1>5, <1>6, OpenOwes,
                Zenon

\* When all children are gone the shell has come to what the line says.
LEMMA BackOwes ==
  ASSUME NEW A, NEW n, NEW says, Running(A, n, says), ShellInv', Waited \/ WaitPid
  PROVE  Owed(A, n)'
<1>1. /\ at \in {"wait", "waitpid"} /\ at' = "prompt" /\ line' = line /\ env' = env /\ errs' = errs
  BY DEF Waited, WaitPid
<1> PICK x, y : Busy(A, n, x, y)
  BY <1>1, BusyIs
<1> USE DEF Busy
<1>2. DueKids' = DueKids /\ PendingKids' = PendingKids /\ \A q \in Pid : Able(proc'[q])
  <2>1. CASE Waited
    BY <2>1 DEF Waited, DueKids, PendingKids
  <2>2. CASE WaitPid
    BY <2>2, FreeOwes DEF WaitPid
  <2> QED BY <2>1, <2>2
<1>3. DueKids' = 0 /\ PendingKids' = 0
  <2>1. Kids' = {}
    BY <1>1 DEF ShellInv, KidsInv
  <2>2. \A p \in Pid : proc'[p] = Free
    BY <2>1 DEF Kids
  <2>3. \A p \in Pid : Due(proc'[p]) = 0 /\ Pending(proc'[p]) = 0
    BY <2>2 DEF Due, Pending, Free
  <2> PICK w, v : w = [p \in Pid |-> Due(proc'[p])] /\ v = [p \in Pid |-> Pending(proc'[p])]
    OBVIOUS
  <2>4. Total(w) = 0 /\ Total(v) = 0
    BY <2>3, TotalZero
  <2> QED BY <2>4 DEF DueKids, PendingKids
<1>4. DueTodo = 0 /\ PendingTodo = 0
  BY <1>1 DEF DueTodo, PendingTodo
<1>5. /\ env = y.env /\ ~y.over
      /\ y.errs <= errs + (DueKids + DueTodo)
      /\ errs + (DueKids + DueTodo) + 2 * (PendingKids + PendingTodo) <= y.errs + 2 * y.runaways
  BY Zenon DEF Open
<1>6. y.errs <= errs' /\ errs' <= y.errs + 2 * y.runaways /\ errs \in Int
  <2>1. errs \in Int
    OBVIOUS
  <2>2. DueKids = 0 /\ PendingKids = 0
    BY ONLY <1>2, <1>3, Zenon
  <2> QED BY ONLY <1>1, <1>4, <1>5, <2>1, <2>2
<1>7. line' \in 0..n /\ A[line'] = y
  <2>1. line \in 1..n /\ n \in Nat /\ y = A[line]
    BY DEF AtLine
  <2> QED BY <1>1, <2>1
<1>8. Progress(A, n)'
  BY <1>1, <1>5, <1>6, <1>7 DEF Progress, Ended
<1> QED BY <1>1, <1>2, <1>8 DEF Owed, TodoInv

LEMMA FirstEndOwes ==
  ASSUME NEW A, NEW n, NEW says, Running(A, n, says), FirstEnd
  PROVE  Owed(A, n)'
<1> PICK text, again :
      /\ text \in {0, line}
      /\ again = IF text = 0 THEN "none" ELSE script.says[text].redirection
      /\ at' = IF again = "found" THEN "prompt" ELSE "exited"
      /\ Throw(IF again = "bad" THEN 1 ELSE 0)
  BY DEF FirstEnd
<1>1. /\ at = "end" /\ line' = line /\ env' = env /\ proc' = proc /\ script' = script
  BY DEF FirstEnd, input
<1>2. /\ line \in 0..n /\ ~A[line].over /\ Ended(A[line]) /\ line = n /\ script.first
      /\ errs \in 0..MaxErrs
  BY <1>1 DEF Running, Owed, Progress
<1> PICK a : a = A[n]
  OBVIOUS
<1>3. /\ a.errs \in Nat /\ a.runaways \in Nat /\ a.errs + 2 * a.runaways < MaxErrs
      /\ n \in Nat /\ MaxErrs \in Nat
  BY <1>2 DEF Running, Accounts, Account
<1>4. /\ errs' = errs + (IF again = "bad" THEN 1 ELSE 0) /\ errs' \in 0..MaxErrs
      /\ a.errs <= errs'
      /\ errs' <= a.errs + 2 * a.runaways + (IF again = "bad" THEN 1 ELSE 0)
  <2> PICK m : m = IF again = "bad" THEN 1 ELSE 0
    OBVIOUS
  <2>1. m \in 0..1 /\ Throw(m) /\ errs \in 0..MaxErrs
    BY <1>2
  <2>2. a.errs <= errs /\ errs <= a.errs + 2 * a.runaways
    BY <1>2 DEF Ended
  <2>3. m \in Nat /\ errs + m <= MaxErrs
    BY ONLY <1>3, <2>1, <2>2
  <2>4. errs' = errs + m /\ errs' \in 0..MaxErrs
    BY <2>1, <2>3, ThrowIs
  <2>5. a.errs <= errs' /\ errs' <= a.errs + 2 * a.runaways + m
    BY ONLY <1>3, <2>1, <2>2, <2>4
  <2> QED BY <2>4, <2>5
<1>5. CASE again # "bad"
  <2>1. Ended(A[n])'
    BY <1>1, <1>2, <1>3, <1>4, <1>5 DEF Ended
  <2>2. Progress(A, n)'
    BY <1>1, <1>2, <2>1 DEF Progress
  <2> QED BY <1>1, <1>4, <2>2 DEF Running, Owed, TodoInv
<1>6. CASE again = "bad"
  <2>1. text = n /\ n > 0 /\ script.says[n].redirection = "bad" /\ at' = "exited"
    BY <1>2, <1>3, <1>6
  <2>2. Again(A[n], n)'
    <3>1. script'.first /\ script'.says[n].redirection = "bad" /\ ~A[n].over /\ n > 0
      BY <1>1, <1>2, <2>1
    <3>2. env' = A[n].env /\ A[n].errs <= errs' /\ errs' <= A[n].errs + 2 * A[n].runaways + 1
      BY <1>1, <1>2, <1>4, <1>6 DEF Ended
    <3> QED BY <3>1, <3>2 DEF Again
  <2>3. Progress(A, n)'
    BY <2>1, <2>2 DEF Progress
  <2> QED BY <1>1, <1>4, <2>1, <2>3 DEF Running, Owed, TodoInv
<1> QED BY <1>5, <1>6

LEMMA ChildOwes ==
  ASSUME NEW A, NEW n, NEW says, Running(A, n, says), NEW p \in Pid, ChildStep(p)
  PROVE  Owed(A, n)'
<1>1. /\ proc[p].state # "free" /\ at' = at /\ line' = line /\ env' = env /\ todo' = todo
      /\ script' = script
  BY ChildDoes DEF shell
<1>2. proc[p] # Free
  BY <1>1 DEF Free
<1>3. at \in {"waitpid", "fork", "wait"}
  BY <1>2 DEF Running, ShellInv, KidsInv, Kids
<1> PICK x, y : Busy(A, n, x, y)
  BY <1>3, BusyIs
<1> USE DEF Busy
<1> PICK kid : kid = proc[p]
  OBVIOUS
<1>4. IsChild(kid) /\ Able(kid)
  BY <1>2 DEF ProcInv
<1> PICK z, m :
      /\ proc' = [proc EXCEPT ![p] = z] /\ Able(z)
      /\ m \in 0..2 /\ (Throw(m) \/ (m = 0 /\ errs' = errs))
      /\ Due(z) + m >= Due(kid)
      /\ Due(z) + m + 2 * Pending(z) <= Due(kid) + 2 * Pending(kid)
  BY <1>4, ChildReports
<1> PICK d, e, r, s : d = Due(kid) /\ e = Due(z) /\ r = Pending(kid) /\ s = Pending(z)
  OBVIOUS
<1>5. d \in 0..2 /\ e \in 0..2 /\ r \in 0..2 /\ s \in 0..2
  BY <1>4, DueFew
<1>6. /\ DueKids \in Nat /\ DueKids' \in Nat /\ PendingKids \in Nat /\ PendingKids' \in Nat
      /\ DueKids' + d = DueKids + e /\ d <= DueKids
      /\ PendingKids' + r = PendingKids + s /\ r <= PendingKids
      /\ \A q \in Pid : Able(proc'[q])
  BY <1>4, KidChange
<1>7. DueTodo' = DueTodo /\ PendingTodo' = PendingTodo
  BY <1>1 DEF DueTodo, PendingTodo, Left, Line
<1>8. /\ env = y.env /\ ~y.over
      /\ y.errs <= errs + (DueKids + DueTodo)
      /\ errs + (DueKids + DueTodo) + 2 * (PendingKids + PendingTodo) <= y.errs + 2 * y.runaways
  BY Zenon DEF Open
<1>9. e + m >= d /\ e + m + 2 * s <= d + 2 * r /\ m \in 0..2
  OBVIOUS
<1>10. /\ errs \in Nat /\ MaxErrs \in Nat /\ y.errs \in Nat /\ y.runaways \in Nat
       /\ DueTodo \in Nat /\ PendingTodo \in Nat /\ y.errs + 2 * y.runaways <= MaxErrs
  OBVIOUS
<1>11. errs + m <= MaxErrs
  BY ONLY <1>5, <1>6, <1>8, <1>9, <1>10
<1>12. errs' = errs + m /\ errs' \in 0..MaxErrs
  <2>1. CASE Throw(m)
    <3>1. m \in Nat
      BY <1>9
    <3> QED BY <1>11, <2>1, <3>1, ThrowIs
  <2>2. CASE m = 0 /\ errs' = errs
    BY <1>10, <2>2
  <2> QED BY <2>1, <2>2
<1>13. /\ y.errs <= errs' + (DueKids' + DueTodo')
       /\ errs' + (DueKids' + DueTodo') + 2 * (PendingKids' + PendingTodo')
            <= y.errs + 2 * y.runaways
  <2>1. \A i, j, k, l, o, t, u \in Nat :
          /\ j + d = i + e /\ l + r = k + s
          /\ y.errs <= o + (i + t) /\ o + (i + t) + 2 * (k + u) <= y.errs + 2 * y.runaways
          => /\ y.errs <= (o + m) + (j + t)
             /\ (o + m) + (j + t) + 2 * (l + u) <= y.errs + 2 * y.runaways
    BY ONLY <1>5, <1>9, <1>10
  <2> QED BY ONLY <1>6, <1>7, <1>8, <1>10, <1>12, <2>1, Zenon
<1>14. at' \in {"fork", "wait", "waitpid"} /\ env' = y.env
  BY <1>1, <1>3, <1>8
<1>15. TodoInv'
  BY <1>1 DEF Running, Owed, TodoInv, Line
<1> QED BY ONLY Running(A, n, says), AtLine(A, n, x, y), <1>1, <1>6, <1>8, <1>12, <1>13, <1>14,
                <1>15, OpenOwes, Zenon

------------------------------------------------------------------------------
(* One by one                                                               *)

\* Every line is fine.
LEMMA ReadFine == ASSUME NEW s, IsLine(s) PROVE Fine(Read(s))
<1> PICK says : says = Read(s)
  OBVIOUS
<1>1. Reads(says)
  BY ReadReads
<1>2. says.kind # "first" /\ IsSequence(says.commands)
  BY <1>1 DEF Reads, Commands
<1>3. \A k \in DOMAIN says.commands : Counted(says.commands[k])
  BY <1>1, CommandCounted DEF Reads, Commands, IsCommand
<1> PICK kind : kind = IF TestBlankInput(s) THEN "blank"
                       ELSE CASE SearchForParallelCommands(s) = -1 -> "amp"
                              [] SearchForParallelCommands(s) = 0  -> "single"
                              [] SearchForParallelCommands(s) = 1  -> "parallel"
  OBVIOUS
<1> PICK texts : texts = CASE kind = "single" -> <<s>> [] kind = "parallel" -> Strtok(s, {"&"})
                           [] OTHER -> << >>
  OBVIOUS
<1> PICK cmds : cmds = [k \in DOMAIN texts |-> Command(texts[k])]
  OBVIOUS
<1>4. says = [kind |-> kind, commands |-> cmds]
  BY DEF Read
<1>5. says.kind = kind /\ says.commands = cmds
  BY ONLY <1>4
<1>6. kind = "blank" => cmds = << >>
  <2> SUFFICES ASSUME kind = "blank" PROVE cmds = << >>
    OBVIOUS
  <2>1. texts = << >>
    OBVIOUS
  <2>2. DOMAIN texts = {}
    BY ONLY <2>1
  <2> PICK none : none = << >>
    OBVIOUS
  <2>3. none = [k \in DOMAIN texts |-> Command(texts[k])]
    BY ONLY <2>2, none = << >>
  <2> QED BY <2>3
<1>7. kind = "single" => DOMAIN cmds = {1}
  <2> SUFFICES ASSUME kind = "single" PROVE DOMAIN cmds = {1}
    OBVIOUS
  <2>1. texts = <<s>>
    OBVIOUS
  <2>2. DOMAIN texts = {1}
    BY ONLY <2>1
  <2> QED BY <2>2
<1> QED BY <1>2, <1>3, <1>5, <1>6, <1>7 DEF Fine

LEMMA FirstFine == ASSUME NEW s PROVE Fine(FirstRead(s))
<1> PICK says : says = FirstRead(s)
  OBVIOUS
<1> PICK cmd : cmd = FirstCommand(s)
  OBVIOUS
<1>1. says.kind = "first" /\ says.commands = <<cmd>>
  BY DEF FirstRead
<1>2. cmd.op \in {"none", "exit", "cd", "path", "run"}
  <2> PICK w : w = Strtok(RemoveNewLine(s), {Sp})
    OBVIOUS
  <2>1. cmd.op = IF w = << >> THEN "none"
                 ELSE IF w[1] \in {<<"exit">>, <<"cd">>, <<"path">>} THEN w[1][1] ELSE "run"
    BY DEF FirstCommand
  <2>2. \A a : a \in {<<"exit">>, <<"cd">>, <<"path">>} => a[1] \in {"exit", "cd", "path"}
    OBVIOUS
  <2> QED BY ONLY <2>1, <2>2
<1>3. IsSequence(says.commands) /\ DOMAIN says.commands = {1} /\ says.commands[1] = cmd
  BY ONLY <1>1 DEF IsSequence
<1> QED BY <1>1, <1>2, <1>3 DEF Fine, Counted

\* The messages are counted far enough, a repeated one included.
EnoughErrs == AllLines.errs + 2 * AllLines.runaways < MaxErrs

CountInv == Running(OneByOne(script.says), Len(script.says), script.says)

LEMMA AccountsStart ==
  ASSUME NEW says, Len(says) \in Nat, \A i \in 1..Len(says) : Fine(says[i]),
         NEW A, A = OneByOne(says), NEW n, n = Len(says), A[n].errs + 2 * A[n].runaways < MaxErrs
  PROVE  Accounts(A, n, says)
<1>1. A[0] = Fresh /\ \A j \in 1..n : A[j] = Carry(A[j - 1], says[j])
  BY OneByOneIs
<1>2. ASSUME NEW j \in 0..n
      PROVE  /\ Account(A[j]) /\ Account(A[n])
             /\ A[j].errs <= A[n].errs /\ A[j].runaways <= A[n].runaways
             /\ A[j].over => /\ A[n].env = A[j].env /\ A[n].errs = A[j].errs
                             /\ A[n].runaways = A[j].runaways
  <2>1. n \in 0..n /\ j \in 0..n
    OBVIOUS
  <2> QED BY <2>1, OneByOneGrows
<1>3. ASSUME NEW j \in 0..n PROVE A[j].errs + 2 * A[j].runaways <= MaxErrs
  <2>1. /\ A[j].errs \in Nat /\ A[n].errs \in Nat /\ A[j].runaways \in Nat /\ A[n].runaways \in Nat
        /\ A[j].errs <= A[n].errs /\ A[j].runaways <= A[n].runaways /\ MaxErrs \in Nat
    BY <1>2 DEF Account
  <2> QED BY ONLY <2>1, A[n].errs + 2 * A[n].runaways < MaxErrs
<1> QED BY <1>1, <1>2, <1>3 DEF Accounts

LEMMA SaysFine == ASSUME Init PROVE \A i \in 1..Len(script.says) : Fine(script.says[i])
<1> PICK f \in Script :
      Begin(f, [i \in DOMAIN f.lines |->
                  IF f.first THEN FirstRead(f.lines[i]) ELSE Read(f.lines[i])])
  BY DEF Init
<1> PICK says :
      says = [i \in DOMAIN f.lines |-> IF f.first THEN FirstRead(f.lines[i]) ELSE Read(f.lines[i])]
  OBVIOUS
<1>1. script.says = says
  BY DEF Begin
<1>2. DOMAIN f.lines = 1..Len(f.lines) /\ Len(f.lines) \in Nat
  BY DEF IsSequence
<1>3. Len(says) = Len(f.lines)
  BY <1>2
<1>4. ASSUME NEW i \in 1..Len(says) PROVE Fine(says[i])
  <2>1. i \in DOMAIN f.lines
    BY <1>2, <1>3
  <2>2. f.first \/ IsLine(f.lines[i])
    BY ONLY <2>1, f \in Script, ShellAssumption DEF ShellAssumption
  <2>3. says[i] = IF f.first THEN FirstRead(f.lines[i]) ELSE Read(f.lines[i])
    BY <2>1
  <2> QED BY <2>2, <2>3, ReadFine, FirstFine
<1> QED BY <1>1, <1>4

LEMMA CountStart ==
  ASSUME Init, FewCommands, ~script.seekable, EnoughErrs PROVE CountInv
<1> PICK says, A, n : says = script.says /\ A = OneByOne(says) /\ n = Len(says)
  OBVIOUS
<1>1. InputInv /\ ShellInv
  BY InputStart, ShellStart
<1>2. n \in Nat
  BY <1>1 DEF InputInv
<1>3. Accounts(A, n, says)
  <2>1. A[n].errs + 2 * A[n].runaways < MaxErrs
    BY DEF EnoughErrs, AllLines
  <2> QED BY <1>2, <2>1, SaysFine, AccountsStart
<1>4. /\ offset = 0 /\ buf = [lo |-> 0, hi |-> 0] /\ at = "prompt" /\ line = 0 /\ env = Start
      /\ proc = [p \in Pid |-> Free] /\ errs = 0
  BY DEF Init, Begin
<1>5. OrderInv
  BY <1>1, <1>4 DEF OrderInv
<1>6. ~A[0].over /\ Ended(A[0])
  BY <1>3, <1>4 DEF Accounts, Fresh, Ended
<1>7. Progress(A, n)
  BY <1>2, <1>4, <1>6 DEF Progress
<1>8. Owed(A, n)
  BY <1>4, <1>7 DEF Owed, TodoInv, Able
<1> QED BY <1>1, <1>3, <1>5, <1>8 DEF CountInv, Running

LEMMA CountStep == CountInv /\ [Next]_vars => CountInv'
<1> SUFFICES ASSUME CountInv, [Next]_vars PROVE CountInv'
  OBVIOUS
<1> PICK says, A, n : says = script.says /\ A = OneByOne(says) /\ n = Len(says)
  OBVIOUS
<1>1. Running(A, n, says)
  BY DEF CountInv
<1>2. ShellInv' /\ script' = script
  BY <1>1, ShellStep, ScriptStays DEF Running
<1>3. OrderInv'
  <2>1. OrderInv
    BY <1>1 DEF Running
  <2>2. CASE Getline
    BY <2>1, <2>2, GetlineOrder
  <2>3. CASE ~Getline
    <3>1. /\ UNCHANGED <<line, script, buf, offset>> /\ (at' = "dispatch" => at = "dispatch")
      BY <2>1, <2>3, OthersOrder
    <3> QED BY <2>1, <3>1 DEF OrderInv, InputInv
  <2> QED BY <2>2, <2>3
<1>4. Owed(A, n)'
  <2>1. CASE ParentStep
    BY <1>1, <1>2, <2>1, GetlineOwes, QuietOwes, BuiltinOwes, RunsAwayOwes, ForkOwes, BackOwes,
       SplitOwes, ForkNextOwes, ForkedOwes, WaitOwes DEF ParentStep
  <2>2. CASE FirstStep
    BY <1>1, <2>2, FirstEndOwes, QuietOwes, BuiltinOwes, ForkOwes DEF FirstStep
  <2>3. CASE \E p \in Pid : ChildStep(p)
    BY <1>1, <2>3, ChildOwes
  <2>4. CASE UNCHANGED vars
    <3>1. Owed(A, n)
      BY <1>1 DEF Running
    <3> QED BY <2>4, <3>1 DEF vars, shell, input, Owed, TodoInv, Progress, Ended, Again, Open,
                           DueKids, PendingKids, DueTodo, PendingTodo, Left, Line
  <2> QED BY <2>1, <2>2, <2>3, <2>4 DEF Next, Parent
<1>5. Running(A, n, says)'
  BY <1>1, <1>2, <1>3, <1>4 DEF Running
<1> QED BY <1>2, <1>5 DEF CountInv

\* At its end the shell of an input that cannot be moved has what its lines come to one by
\* one: no child changes its environment, and every command that fails has been reported
\* once, however the steps of the children of a line follow each other; but a command that
\* runs away may add up to two messages, and the first shell may report a bad redirection
\* of the last line again.
THEOREM OneByOneSafety ==
  Spec /\ FewCommands /\ ~script.seekable /\ EnoughErrs => []AsOneByOne
<1>1. CountInv => AsOneByOne
  <2> SUFFICES ASSUME CountInv, at = "exited"
               PROVE  /\ env = AllLines.env
                      /\ errs - AllLines.errs \in 0..(2 * AllLines.runaways + Repeats)
    BY DEF AsOneByOne
  <2> PICK says, A, n : says = script.says /\ A = OneByOne(says) /\ n = Len(says)
    OBVIOUS
  <2>1. Running(A, n, says)
    BY DEF CountInv
  <2>2. n \in Nat /\ n \in 0..n
    BY <2>1 DEF Running, Accounts
  <2>3. Account(A[n]) /\ (Ended(A[n]) \/ Again(A[n], n)) /\ errs \in 0..MaxErrs
    BY <2>1, <2>2 DEF Running, Owed, Progress, Accounts
  <2> PICK a, r : a = A[n] /\ r = Repeats
    OBVIOUS
  <2>4. a = AllLines
    BY DEF AllLines
  <2>5. r \in 0..1 /\ (Again(a, n) => r = 1)
    BY <2>4 DEF Repeats, Again
  <2>6. /\ a.errs \in Nat /\ a.runaways \in Nat /\ errs \in Nat /\ env = a.env
        /\ a.errs <= errs /\ errs <= a.errs + 2 * a.runaways + r
    BY <2>3, <2>5 DEF Account, Ended, Again
  <2>7. errs - a.errs \in 0..(2 * a.runaways + r)
    BY ONLY <2>5, <2>6
  <2> QED BY <2>4, <2>6, <2>7
<1> QED BY <1>1, CountStart, CountStep, PTL DEF Spec
==============================================================================
