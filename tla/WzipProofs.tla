----------------------------- MODULE WzipProofs ------------------------------
(***************************************************************************)
(* Proofs about the programs of Project2.  The four bytes of a record give *)
(* its count back, for every int there is; the records of wzip never cut a *)
(* run in two, and stand for what it has read; the chunks of wzipThreads   *)
(* are the beginning of the file, and no run goes on from one to the next; *)
(* the text a chunk is encoded as gives its characters back, and so what   *)
(* main writes stands for the file, whatever the order of the threads.     *)
(***************************************************************************)
EXTENDS Wzip, WzipThreads, FiniteSetTheorems, FunctionTheorems, SequenceTheorems, TLAPS

\* decimalToBinaryBytes writes four bytes, and a reader gets the count back
\* from them, also beyond the counts that a model checker reaches.
THEOREM BytesRoundTrip ==
  ASSUME NEW n \in Nat, n <= IntMax, NEW c
  PROVE  /\ \A i \in 1..4 : Bytes(n)[i] \in 0..255
         /\ Count(Record(n, c)) = n
<1> DEFINE q == n \div 256
           r == n \div 65536
           s == n \div 16777216
<1>1. q \in Nat /\ r \in Nat /\ s \in 0..127
  BY SMTT(30) DEF IntMax
<1>2. n = 256 * q + (n % 256) /\ (n % 256) \in 0..255
  BY SMTT(30)
<1>3. q = 256 * r + (q % 256) /\ (q % 256) \in 0..255
  BY SMTT(30)
<1>4. r = 256 * s + (r % 256) /\ (r % 256) \in 0..255
  BY SMTT(30)
<1>5. (s % 256) = s
  BY <1>1, SMTT(30)
<1>6. Bytes(n) = <<(n % 256), (q % 256), (r % 256), (s % 256)>>
  BY SMT DEF Bytes
<1>7. Record(n, c).bytes = <<(n % 256), (q % 256), (r % 256), (s % 256)>>
  BY <1>6, SMT DEF Record
<1> HIDE DEF q, r, s
<1>8. \A i \in 1..4 : Bytes(n)[i] \in 0..255
  BY <1>1, <1>2, <1>3, <1>4, <1>5, <1>6, SMT
<1>9. Count(Record(n, c)) = (n % 256) + 256 * (q % 256) + 65536 * (r % 256) + 16777216 * (s % 256)
  BY <1>7, SMT DEF Count
<1> QED BY <1>1, <1>2, <1>3, <1>4, <1>5, <1>8, <1>9, SMT

------------------------------------------------------------------------------
(* Induction and recursion over data                                        *)

\* Induction, for the set of the numbers that a formula holds of.  (A set of numbers
\* with the successor of each of its members has as many members without 0.)
LEMMA Induction ==
  ASSUME NEW S, 0 \in S, \A n \in Nat : n \in S => n + 1 \in S PROVE Nat \subseteq S
<1> SUFFICES ASSUME NEW n \in Nat, n \notin S PROVE FALSE
  OBVIOUS
<1> DEFINE A == {i \in 0..n : \A j \in 0..i : j \in S}
           f == [i \in A |-> i + 1]
<1>1. 0 \in A /\ A \subseteq 0..n /\ n \notin A
  OBVIOUS
<1>2. \A i \in A : i + 1 \in A \ {0}
  OBVIOUS
<1>3. f \in Injection(A, A \ {0})
  <2>1. f \in [A -> A \ {0}]
    BY <1>2
  <2>2. \A a, b \in A : f[a] = f[b] => a = b
    OBVIOUS
  <2> HIDE DEF f
  <2> QED BY <2>1, <2>2, Fun_IsInj
<1>4. IsFiniteSet(A)
  <2>1. IsFiniteSet(0..n)
    BY FS_Interval
  <2> HIDE DEF A
  <2> QED BY <2>1, <1>1, FS_Subset
<1> HIDE DEF A, f
<1>5. IsFiniteSet(A \ {0}) /\ Cardinality(A \ {0}) = Cardinality(A) - 1
  BY <1>1, <1>4, FS_RemoveElement
<1>6. Cardinality(A) <= Cardinality(A \ {0})
  BY <1>3, <1>5, FS_Injection
<1> QED BY <1>4, <1>5, <1>6, FS_CardinalityType

\* h computes what the recursion over 0..n gives, from base with step[<<i, what i gives>>].
Follows(h, n, base, step) == h[0] = base /\ \A i \in 0..(n - 1) : h[i + 1] = step[<<i, h[i]>>]

LEMMA Unique ==
  ASSUME NEW base, NEW step, NEW n \in Nat, NEW g, NEW h,
         Follows(g, n, base, step), Follows(h, n, base, step)
  PROVE  \A i \in 0..n : g[i] = h[i]
<1> DEFINE Same == {i \in Nat : i <= n => g[i] = h[i]}
<1>1. 0 \in Same
  BY DEF Follows
<1>2. ASSUME NEW i \in Nat, i \in Same PROVE i + 1 \in Same
  <2> SUFFICES ASSUME i + 1 <= n PROVE g[i + 1] = h[i + 1]
    OBVIOUS
  <2>1. i \in 0..(n - 1) /\ g[i] = h[i]
    BY <1>2
  <2> QED BY <2>1 DEF Follows
<1> HIDE DEF Same
<1>3. Nat \subseteq Same
  BY <1>1, <1>2, Induction
<1> QED BY <1>3 DEF Same

\* The function on Nat that the recursion defines.
Recurses(g, base, step) == g[0] = base /\ \A i \in Nat : g[i + 1] = step[<<i, g[i]>>]

LEMMA Recursion ==
  ASSUME NEW T, NEW base, NEW step, base \in T, step \in [Nat \X T -> T]
  PROVE  \E g \in [Nat -> T] : Recurses(g, base, step)
<1> DEFINE Short == {n \in Nat : \E h \in [0..n -> T] : Follows(h, n, base, step)}
           Part(n) == CHOOSE h \in [0..n -> T] : Follows(h, n, base, step)
           g == [n \in Nat |-> Part(n)[n]]
<1>1. Nat \subseteq Short
  <2>1. 0 \in Short
    <3>1. [i \in 0..0 |-> base] \in [0..0 -> T] /\ Follows([i \in 0..0 |-> base], 0, base, step)
      BY DEF Follows
    <3> QED BY <3>1
  <2>2. ASSUME NEW n \in Nat, n \in Short PROVE n + 1 \in Short
    <3> PICK h \in [0..n -> T] : Follows(h, n, base, step)
      BY <2>2
    <3> DEFINE x == step[<<n, h[n]>>]
               H == [i \in 0..(n + 1) |-> IF i <= n THEN h[i] ELSE x]
    <3>1. x \in T
      OBVIOUS
    <3> HIDE DEF x
    <3>2. H \in [0..(n + 1) -> T]
      BY <3>1
    <3>3. ASSUME NEW i \in 0..n PROVE H[i + 1] = step[<<i, H[i]>>]
      <4>1. CASE i = n
        BY <4>1 DEF x
      <4>2. CASE i \in 0..(n - 1)
        BY <4>2 DEF Follows
      <4> QED BY <4>1, <4>2
    <3>4. H[0] = base
      BY DEF Follows
    <3> HIDE DEF H
    <3>5. Follows(H, n + 1, base, step)
      BY <3>3, <3>4 DEF Follows
    <3> QED BY <3>2, <3>5
  <2> HIDE DEF Short
  <2> QED BY <2>1, <2>2, Induction
<1>2. \A n \in Nat : Part(n) \in [0..n -> T] /\ Follows(Part(n), n, base, step)
  BY <1>1
<1> HIDE DEF Part, Short
<1>3. \A n \in Nat : Part(n + 1)[n] = Part(n)[n]
  <2> SUFFICES ASSUME NEW n \in Nat PROVE Part(n + 1)[n] = Part(n)[n]
    OBVIOUS
  <2>1. Follows(Part(n + 1), n, base, step) /\ Follows(Part(n), n, base, step)
    BY <1>2 DEF Follows
  <2> QED BY <2>1, Unique
<1>4. \A n \in Nat : g[n] = Part(n)[n]
  OBVIOUS
<1> HIDE DEF g
<1>5. g \in [Nat -> T]
  BY <1>2 DEF g
<1>6. g[0] = base
  BY <1>2, <1>4 DEF Follows
<1>7. ASSUME NEW i \in Nat PROVE g[i + 1] = step[<<i, g[i]>>]
  <2>1. Part(i + 1)[i + 1] = step[<<i, Part(i + 1)[i]>>]
    <3>1. i + 1 \in Nat /\ i \in 0..((i + 1) - 1)
      OBVIOUS
    <3> QED BY <1>2, <3>1 DEF Follows
  <2> QED BY <1>3, <1>4, <2>1
<1> QED BY <1>5, <1>6, <1>7 DEF Recurses

------------------------------------------------------------------------------
(* FlattenSeq                                                               *)

\* g joins the first sequences of seqs, one after the other.
Joins(g, seqs) == g[0] = << >> /\ \A i \in 1..Len(seqs) : g[i] = g[i - 1] \o seqs[i]

\* FlattenSeq computes what they do.
LEMMA FlattenIs ==
  ASSUME NEW S, NEW seqs \in Seq(Seq(S)), NEW g, Joins(g, seqs)
  PROVE  FlattenSeq(seqs) = g[Len(seqs)]
<1>0. Len(seqs) \in Nat
  BY LenProperties
<1>1. CASE Len(seqs) = 0
  BY <1>1 DEF FlattenSeq, Joins
<1>2. CASE Len(seqs) # 0
  <2>0. g[1] = seqs[1]
    <3>1. 1 \in 1..Len(seqs) /\ 1 - 1 = 0
      BY <1>0, <1>2
    <3>2. seqs[1] \in Seq(S)
      BY <3>1, ElementOfSeq
    <3>3. g[1] = g[1 - 1] \o seqs[1] /\ g[0] = << >>
      BY <3>1 DEF Joins
    <3> QED BY <3>1, <3>2, <3>3, ConcatEmptySeq
  <2> DEFINE P(f) == f = [i \in 1..Len(seqs) |-> IF i = 1 THEN seqs[i] ELSE f[i - 1] \o seqs[i]]
             flat == CHOOSE f : P(f)
  <2>1. FlattenSeq(seqs) = flat[Len(seqs)]
    BY <1>2 DEF FlattenSeq
  <2> HIDE DEF flat
  <2>2. P(flat)
    <3> PICK w : w = [i \in 1..Len(seqs) |-> g[i]]
      OBVIOUS
    <3>1. \A i \in 1..Len(seqs) : w[i] = IF i = 1 THEN seqs[i] ELSE w[i - 1] \o seqs[i]
      <4> SUFFICES ASSUME NEW i \in 1..Len(seqs), i # 1 PROVE w[i] = w[i - 1] \o seqs[i]
        BY <2>0
      <4>1. i - 1 \in 1..Len(seqs) /\ w[i - 1] = g[i - 1]
        BY <1>0
      <4> QED BY <4>1 DEF Joins
    <3>2. P(w)
      BY <3>1
    <3> HIDE DEF P
    <3> QED BY <3>2 DEF flat
  <2>3. \A i \in 1..Len(seqs) : flat[i] = IF i = 1 THEN seqs[i] ELSE flat[i - 1] \o seqs[i]
    <3> SUFFICES ASSUME NEW i \in 1..Len(seqs)
                 PROVE  flat[i] = IF i = 1 THEN seqs[i] ELSE flat[i - 1] \o seqs[i]
      OBVIOUS
    <3>1. flat = [j \in 1..Len(seqs) |-> IF j = 1 THEN seqs[j] ELSE flat[j - 1] \o seqs[j]]
      BY <2>2
    <3> DEFINE v(j) == IF j = 1 THEN seqs[j] ELSE flat[j - 1] \o seqs[j]
    <3>2. flat = [j \in 1..Len(seqs) |-> v(j)]
      BY <3>1
    <3> HIDE DEF v
    <3>3. flat[i] = v(i)
      BY <3>2
    <3> QED BY <3>3 DEF v
  <2> HIDE DEF P
  <2> DEFINE Same == {n \in Nat : n + 1 <= Len(seqs) => flat[n + 1] = g[n + 1]}
  <2>4. 0 \in Same
    BY <1>0, <1>2, <2>0, <2>3
  <2>5. ASSUME NEW n \in Nat, n \in Same PROVE n + 1 \in Same
    <3> SUFFICES ASSUME n + 2 <= Len(seqs) PROVE flat[n + 2] = g[n + 2]
      OBVIOUS
    <3> DEFINE i == n + 2
    <3>1. i \in 1..Len(seqs) /\ i - 1 = n + 1 /\ i # 1
      BY <1>0
    <3>2. flat[i - 1] = g[i - 1]
      BY <2>5, <3>1
    <3> HIDE DEF i
    <3>3. flat[i] = g[i]
      BY <2>3, <3>1, <3>2 DEF Joins
    <3> QED BY <3>3 DEF i
  <2> HIDE DEF Same
  <2>6. Nat \subseteq Same
    BY <2>4, <2>5, Induction
  <2> PICK m \in Nat : Len(seqs) = m + 1
    <3>1. Len(seqs) - 1 \in Nat /\ Len(seqs) = (Len(seqs) - 1) + 1
      BY <1>0, <1>2
    <3> QED BY <3>1
  <2>7. m \in Same
    BY <2>6
  <2>8. flat[m + 1] = g[m + 1]
    BY <2>7 DEF Same
  <2> QED BY <2>1, <2>8
<1> QED BY <1>1, <1>2

LEMMA JoinsExists ==
  ASSUME NEW S, NEW seqs \in Seq(Seq(S)) PROVE \E g \in [Nat -> Seq(S)] : Joins(g, seqs)
<1> DEFINE step == [x \in Nat \X Seq(S) |->
                      IF x[1] + 1 \in 1..Len(seqs) THEN x[2] \o seqs[x[1] + 1] ELSE x[2]]
<1>1. step \in [Nat \X Seq(S) -> Seq(S)]
  <2> SUFFICES ASSUME NEW x \in Nat \X Seq(S), x[1] + 1 \in 1..Len(seqs)
               PROVE  x[2] \o seqs[x[1] + 1] \in Seq(S)
    OBVIOUS
  <2>1. x[2] \in Seq(S) /\ seqs[x[1] + 1] \in Seq(S)
    OBVIOUS
  <2> QED BY <2>1, ConcatProperties
<1>2. << >> \in Seq(S)
  OBVIOUS
<1>3. \A i \in Nat, s \in Seq(S) : i + 1 \in 1..Len(seqs) => step[<<i, s>>] = s \o seqs[i + 1]
  OBVIOUS
<1> HIDE DEF step
<1> DEFINE T == Seq(S)
           none == << >>
<1> HIDE DEF T, none
<1>r. \E g \in [Nat -> T] : Recurses(g, none, step)
  <2>1. step \in [Nat \X T -> T]
    BY <1>1 DEF T
  <2>2. none \in T
    BY <1>2 DEF T, none
  <2> QED BY <2>1, <2>2, Recursion
<1> PICK g \in [Nat -> Seq(S)] : g[0] = << >> /\ \A i \in Nat : g[i + 1] = step[<<i, g[i]>>]
  BY <1>r DEF T, none, Recurses
<1>4. ASSUME NEW i \in 1..Len(seqs) PROVE g[i] = g[i - 1] \o seqs[i]
  <2>1. i - 1 \in Nat /\ (i - 1) + 1 = i /\ g[i - 1] \in Seq(S)
    BY LenProperties
  <2> DEFINE h == i - 1
  <2>2. g[h + 1] = step[<<h, g[h]>>] /\ step[<<h, g[h]>>] = g[h] \o seqs[h + 1]
    BY <1>3, <2>1
  <2> QED BY <2>1, <2>2
<1> QED BY <1>4 DEF Joins

\* What FlattenSeq returns, and that a sequence more is one more at the end.
LEMMA FlattenType ==
  ASSUME NEW S, NEW seqs \in Seq(Seq(S)) PROVE FlattenSeq(seqs) \in Seq(S)
<1> PICK g \in [Nat -> Seq(S)] : Joins(g, seqs)
  BY JoinsExists
<1>1. FlattenSeq(seqs) = g[Len(seqs)] /\ Len(seqs) \in Nat
  BY FlattenIs, LenProperties
<1> QED BY <1>1

LEMMA FlattenAppend ==
  ASSUME NEW S, NEW seqs \in Seq(Seq(S)), NEW s \in Seq(S)
  PROVE  FlattenSeq(Append(seqs, s)) = FlattenSeq(seqs) \o s
<1> DEFINE more == Append(seqs, s)
<1>1. /\ more \in Seq(Seq(S)) /\ Len(more) = Len(seqs) + 1 /\ more[Len(seqs) + 1] = s
      /\ \A i \in 1..Len(seqs) : more[i] = seqs[i]
      /\ Len(seqs) \in Nat
  BY AppendProperties, LenProperties
<1> HIDE DEF more
<1> PICK g \in [Nat -> Seq(S)] : Joins(g, more)
  BY <1>1, JoinsExists
<1>2. FlattenSeq(more) = g[Len(more)]
  BY <1>1, FlattenIs
<1>3. Joins(g, seqs)
  <2>1. \A i \in 1..Len(seqs) : i \in 1..Len(more) /\ more[i] = seqs[i]
    BY <1>1
  <2> QED BY <2>1 DEF Joins
<1>4. FlattenSeq(seqs) = g[Len(seqs)]
  BY <1>3, FlattenIs
<1> DEFINE n == Len(more)
<1>5. n \in 1..Len(more) /\ n - 1 = Len(seqs) /\ more[n] = s
  BY <1>1
<1> HIDE DEF n
<1>6. g[n] = g[n - 1] \o more[n]
  BY <1>5 DEF Joins
<1>7. FlattenSeq(more) = FlattenSeq(seqs) \o s
  BY <1>2, <1>4, <1>5, <1>6 DEF n
<1> QED BY <1>7 DEF more

LEMMA FlattenEmpty == FlattenSeq(<< >>) = << >>
BY DEF FlattenSeq

------------------------------------------------------------------------------
Rec == [bytes : Seq(Int), char : Byte]

\* The last record is of another character than the run that is being counted.
RunsInv ==
  /\ records \in Seq(Rec)
  /\ count \in Nat
  /\ currentChar \in Byte
  /\ place \in {"start", "loop", "ended"}
  /\ place = "start" => records = << >>
  /\ records # << >> => records[Len(records)].char # currentChar
  /\ Maximal(records)

\* A record of a run is one.
LEMMA RecordType == ASSUME NEW n \in Nat, NEW c \in Byte PROVE Record(n, c) \in Rec
<1>1. Bytes(n) \in Seq(Int)
  BY SMT DEF Bytes
<1> QED BY <1>1, SMT DEF Record, Rec

\* One turn of the loop of encodeRLE keeps the runs whole.
LEMMA TurnKeepsRuns == RunsInv /\ Turn => RunsInv'
<1> SUFFICES ASSUME RunsInv, Turn PROVE RunsInv'
  OBVIOUS
<1> PICK nextChar \in Byte :
      /\ Getc(nextChar)
      /\ \/ nextChar = currentChar /\ count' = count + 1 /\ UNCHANGED records
         \/ /\ nextChar # currentChar
            /\ records' = Append(records, Record(count, currentChar))
            /\ count' = 1
      /\ currentChar' = nextChar
  BY DEF Turn
<1>1. CASE nextChar = currentChar
  BY <1>1, SMT DEF RunsInv, Turn, Maximal
<1>2. CASE nextChar # currentChar
  <2> DEFINE r == Record(count, currentChar)
  <2>1. r \in Rec /\ r.char = currentChar
    BY RecordType DEF RunsInv, Record
  <2> HIDE DEF r
  <2>2. records' = Append(records, r) /\ count' = 1
    BY <1>2 DEF r
  <2>3. records' \in Seq(Rec) /\ records'[Len(records')] = r /\ place' = place /\ place' = "loop"
    BY <2>1, <2>2, SMT DEF RunsInv, Turn
  <2>4. Maximal(records')
    <3> SUFFICES ASSUME NEW i \in 1..(Len(records') - 1) PROVE records'[i].char # records'[i + 1].char
      BY DEF Maximal
    <3>1. CASE i = Len(records)
      BY <3>1, <2>1, <2>2, SMT DEF RunsInv
    <3>2. CASE i < Len(records)
      BY <3>2, <2>1, <2>2, SMT DEF RunsInv, Maximal
    <3> QED BY <3>1, <3>2, <2>1, <2>2, SMT DEF RunsInv
  <2> QED BY <1>2, <2>1, <2>2, <2>3, <2>4 DEF RunsInv
<1> QED BY <1>1, <1>2

\* For all files and bytes: wzip writes every run as one record, also a run
\* that goes on from one file into the next.
THEOREM RunsStayWhole == ZipSpec => []RunsWhole
<1>1. ZipInit => RunsInv
  BY WzipAssumption, SMT DEF ZipInit, RunsInv, Maximal
<1>2. RunsInv /\ [ZipNext]_zvars => RunsInv'
  <2> SUFFICES ASSUME RunsInv, [ZipNext]_zvars PROVE RunsInv'
    OBVIOUS
  <2>1. CASE Usage
    BY <2>1 DEF Usage, RunsInv, Maximal
  <2>2. CASE First
    BY <2>2 DEF First, RunsInv, Maximal
  <2>3. CASE Turn
    BY <2>3, TurnKeepsRuns
  <2>4. CASE Stop
    BY <2>4 DEF Stop, RunsInv, Maximal
  <2>5. CASE UNCHANGED zvars
    BY <2>5 DEF zvars, RunsInv, Maximal
  <2> QED BY <2>1, <2>2, <2>3, <2>4, <2>5 DEF ZipNext
<1>3. RunsInv => RunsWhole
  BY DEF RunsInv, RunsWhole
<1> QED BY <1>1, <1>2, <1>3, PTL DEF ZipSpec

------------------------------------------------------------------------------
(* What the records of wzip stand for                                       *)

Rep(n, c) == [i \in 1..n |-> c]

LEMMA RepIs ==
  ASSUME NEW S, NEW c \in S, NEW n \in Nat
  PROVE  /\ Rep(n, c) \in Seq(S) /\ Len(Rep(n, c)) = n /\ Rep(1, c) = <<c>>
         /\ Rep(n + 1, c) = Rep(n, c) \o <<c>>
<1>1. Rep(n, c) \in Seq(S) /\ Len(Rep(n, c)) = n /\ Rep(1, c) = <<c>>
  BY DEF Rep
<1>2. Rep(n + 1, c) = Rep(n, c) \o <<c>>
  <2>1. Rep(n + 1, c) \in Seq(S) /\ Len(Rep(n + 1, c)) = n + 1
    BY DEF Rep
  <2>2. <<c>> \in Seq(S) /\ Len(<<c>>) = 1
    OBVIOUS
  <2>3. /\ Rep(n, c) \o <<c>> \in Seq(S) /\ Len(Rep(n, c) \o <<c>>) = n + 1
        /\ \A i \in 1..(n + 1) : (Rep(n, c) \o <<c>>)[i] = c
    <3>1. \A i \in 1..(n + 1) : (Rep(n, c) \o <<c>>)[i] = IF i <= n THEN Rep(n, c)[i] ELSE <<c>>[i - n]
      BY <1>1, <2>2, ConcatProperties
    <3>2. \A i \in 1..(n + 1) : (IF i <= n THEN Rep(n, c)[i] ELSE <<c>>[i - n]) = c
      BY DEF Rep
    <3> QED BY <1>1, <2>2, <3>1, <3>2, ConcatProperties
  <2>4. \A i \in 1..(n + 1) : Rep(n + 1, c)[i] = c
    BY DEF Rep
  <2> HIDE DEF Rep
  <2> QED BY <2>1, <2>3, <2>4, SeqEqual
<1> QED BY <1>1, <1>2

\* A record more stands for its run at the end.
Runs(recs) == [j \in 1..Len(recs) |-> Rep(Count(recs[j]), recs[j].char)]

LEMMA RunsType ==
  ASSUME NEW recs \in Seq(Rec), \A j \in 1..Len(recs) : Count(recs[j]) \in Nat
  PROVE  Runs(recs) \in Seq(Seq(Byte)) /\ Len(Runs(recs)) = Len(recs)
<1>1. ASSUME NEW j \in 1..Len(recs) PROVE Rep(Count(recs[j]), recs[j].char) \in Seq(Byte)
  <2>1. recs[j] \in Rec
    BY ElementOfSeq
  <2>2. recs[j].char \in Byte
    BY <2>1 DEF Rec
  <2> QED BY <1>1, <2>2, RepIs
<1>2. Len(recs) \in Nat
  BY LenProperties
<1> QED BY <1>1, <1>2 DEF Runs

LEMMA ExpandIs ==
  ASSUME NEW recs \in Seq(Rec), \A j \in 1..Len(recs) : Count(recs[j]) \in Nat
  PROVE  Expand(recs) = FlattenSeq(Runs(recs)) /\ Expand(recs) \in Seq(Byte)
<1>1. Expand(recs) = FlattenSeq(Runs(recs))
  BY DEF Expand, Runs, Run, Rep
<1> QED BY <1>1, RunsType, FlattenType

LEMMA ExpandAppend ==
  ASSUME NEW recs \in Seq(Rec), \A j \in 1..Len(recs) : Count(recs[j]) \in Nat,
         NEW n \in Nat, n <= IntMax, NEW c \in Byte
  PROVE  LET more == Append(recs, Record(n, c))
         IN  /\ \A j \in 1..Len(more) : Count(more[j]) \in Nat
             /\ Expand(more) = Expand(recs) \o Rep(n, c)
<1> DEFINE r == Record(n, c)
           more == Append(recs, r)
<1>1. r \in Rec /\ r.char = c /\ Count(r) = n
  BY RecordType, BytesRoundTrip DEF Record
<1> HIDE DEF r
<1>2. /\ more \in Seq(Rec) /\ Len(more) = Len(recs) + 1 /\ more[Len(recs) + 1] = r
      /\ \A i \in 1..Len(recs) : more[i] = recs[i]
      /\ Len(recs) \in Nat
  BY <1>1, AppendProperties, LenProperties
<1> HIDE DEF more
<1>3. \A j \in 1..Len(more) : Count(more[j]) \in Nat
  <2> TAKE j \in 1..Len(more)
  <2>1. CASE j \in 1..Len(recs)
    BY <1>2, <2>1
  <2>2. CASE j = Len(recs) + 1
    BY <1>1, <1>2, <2>2
  <2> QED BY <1>2, <2>1, <2>2
<1>4. Runs(more) = Append(Runs(recs), Rep(n, c))
  <2>1. Rep(n, c) \in Seq(Byte) /\ Runs(recs) \in Seq(Seq(Byte)) /\ Len(Runs(recs)) = Len(recs)
    BY RepIs, RunsType
  <2>2. Runs(more) \in Seq(Seq(Byte)) /\ Len(Runs(more)) = Len(recs) + 1
    BY <1>2, <1>3, RunsType
  <2> DEFINE app == Append(Runs(recs), Rep(n, c))
  <2>3. /\ app \in Seq(Seq(Byte)) /\ Len(app) = Len(recs) + 1 /\ app[Len(recs) + 1] = Rep(n, c)
        /\ \A i \in 1..Len(recs) : app[i] = Runs(recs)[i]
    BY <2>1, AppendProperties
  <2> HIDE DEF app
  <2>4. \A i \in 1..Len(recs) : Runs(more)[i] = Runs(recs)[i]
    BY <1>2 DEF Runs
  <2>5. Runs(more)[Len(recs) + 1] = Rep(n, c)
    <3> DEFINE l == Len(recs) + 1
    <3>1. l \in 1..Len(more) /\ more[l] = r
      BY <1>2
    <3> HIDE DEF l
    <3>2. Runs(more)[l] = Rep(n, c)
      BY <1>1, <3>1 DEF Runs
    <3> QED BY <3>2 DEF l
  <2> DEFINE all == Runs(more)
  <2>6. \A i \in 1..(Len(recs) + 1) : all[i] = app[i]
    <3> HIDE DEF all
    <3>1. all[Len(recs) + 1] = app[Len(recs) + 1] /\ \A i \in 1..Len(recs) : all[i] = app[i]
      BY <2>3, <2>4, <2>5 DEF all
    <3> QED BY <1>2, <3>1
  <2> HIDE DEF all
  <2>7. all = app
    BY <1>2, <2>2, <2>3, <2>6, SeqEqual DEF all
  <2> QED BY <2>7 DEF app, all
<1>5. Expand(more) = Expand(recs) \o Rep(n, c)
  <2> DEFINE rs == Runs(recs)
             t == Rep(n, c)
  <2>1. rs \in Seq(Seq(Byte)) /\ t \in Seq(Byte)
    BY RunsType, RepIs
  <2>2. Expand(recs) = FlattenSeq(rs)
    BY ExpandIs
  <2>3. Expand(more) = FlattenSeq(Append(rs, t))
    BY <1>2, <1>3, <1>4, ExpandIs
  <2> HIDE DEF rs
  <2>4. FlattenSeq(Append(rs, t)) = FlattenSeq(rs) \o t
    BY <2>1, FlattenAppend
  <2> QED BY <2>2, <2>3, <2>4
<1> QED BY <1>3, <1>5 DEF more, r

\* UpTo stops before the first c.
LEMMA UpToNone ==
  ASSUME NEW s, NEW c, \A i \in 1..Len(s) : s[i] # c PROVE UpTo(s, c) = s
<1>1. {i \in 1..Len(s) : s[i] = c} = {}
  OBVIOUS
<1> QED BY <1>1 DEF UpTo

LEMMA UpToFirst ==
  ASSUME NEW s, Len(s) \in Nat, NEW c, NEW n \in 1..Len(s), s[n] = c,
         \A i \in 1..(n - 1) : s[i] # c
  PROVE  UpTo(s, c) = SubSeq(s, 1, n - 1)
<1> DEFINE ends == {i \in 1..Len(s) : s[i] = c}
           least(i) == i \in ends /\ \A j \in ends : i <= j
           first == CHOOSE i \in ends : \A j \in ends : i <= j
<1>1. n \in ends /\ \A j \in ends : n <= j /\ j \in Int
  OBVIOUS
<1>2. UpTo(s, c) = SubSeq(s, 1, first - 1)
  BY <1>1 DEF UpTo
<1> HIDE DEF ends
<1>3. first = n
  <2>1. least(n) /\ \A i : least(i) => i = n
    <3> SUFFICES ASSUME NEW i \in ends, i <= n PROVE i = n
      BY <1>1
    <3>1. i \in Int /\ n <= i /\ n \in Int
      BY <1>1
    <3> QED BY <3>1
  <2> HIDE DEF first
  <2>2. least(first)
    BY <2>1, Zenon DEF first
  <2> HIDE DEF least
  <2> QED BY <2>1, <2>2
<1> QED BY <1>2, <1>3

\* What getc reads, if there was no 255 so far: the next byte, or the end.
LEMMA GetcIs ==
  ASSUME NEW s \in Seq(Byte), s = Stream, pos \in 0..Len(s), \A i \in 1..pos : s[i] # FF,
         NEW c \in Byte, Getc(c)
  PROVE  /\ pos' \in 0..Len(s)
         /\ c = FF => UpTo(s, FF) = SubSeq(s, 1, pos)
         /\ c # FF => /\ pos' = pos + 1 /\ \A i \in 1..pos' : s[i] # FF
                      /\ SubSeq(s, 1, pos') = SubSeq(s, 1, pos) \o <<c>>
<1>0. Len(s) \in Nat
  BY LenProperties
<1>1. CASE pos < Len(s)
  <2>1. c = s[pos + 1] /\ pos' = pos + 1
    BY <1>1 DEF Getc
  <2> DEFINE n == pos + 1
  <2>2. n \in 1..Len(s) /\ n - 1 = pos /\ n = pos + 1 /\ 1 \in 1..Len(s)
    BY <1>0, <1>1
  <2> HIDE DEF n
  <2>3. c = FF => UpTo(s, FF) = SubSeq(s, 1, pos)
    BY <1>0, <2>1, <2>2, UpToFirst
  <2>4. SubSeq(s, 1, n) = SubSeq(s, 1, n - 1) \o <<s[n]>>
    BY <2>2, SubSeqRecursiveSecond
  <2> QED BY <1>0, <1>1, <2>1, <2>2, <2>3, <2>4
<1>2. CASE pos = Len(s)
  BY <1>0, <1>2, UpToNone, SubSeqFull DEF Getc
<1> QED BY <1>0, <1>1, <1>2

\* While the program reads there was no 255, and what it has read is its records and the
\* run it counts; then the records are the stream up to the first 255.
LostInv ==
  /\ files \in Input
  /\ pos \in 0..Len(Stream)
  /\ count \in Nat \ {0} /\ (currentChar # FF => count <= pos)
  /\ \A j \in 1..Len(records) : Count(records[j]) \in Nat
  /\ place = "start" => pos = 0 /\ records = << >> /\ count = 1
  /\ place = "loop" /\ currentChar # FF =>
       /\ \A i \in 1..pos : Stream[i] # FF
       /\ Expand(records) \o Rep(count, currentChar) = SubSeq(Stream, 1, pos)
  /\ place = "ended" \/ (place = "loop" /\ currentChar = FF) => Expand(records) = UpTo(Stream, FF)

LEMMA IntMaxType == IntMax \in Nat
BY SMT DEF IntMax

LEMMA StreamType ==
  ASSUME files \in Input
  PROVE  Stream \in Seq(Byte) /\ Len(Stream) \in Nat /\ Len(Stream) <= IntMax
<1>1. files \in Seq(Seq(Byte)) /\ Len(Stream) <= IntMax
  BY WzipAssumption DEF Stream
<1>2. Stream \in Seq(Byte)
  BY <1>1, FlattenType DEF Stream
<1> QED BY <1>1, <1>2, LenProperties

LEMMA ExpandEmpty == Expand(<< >>) = << >>
<1>1. << >> \in Seq(Rec) /\ Len(<< >>) = 0
  OBVIOUS
<1>2. Runs(<< >>) = << >>
  BY <1>1 DEF Runs
<1>3. Expand(<< >>) = FlattenSeq(Runs(<< >>))
  BY DEF Expand, Runs, Run, Rep
<1> QED BY <1>2, <1>3, FlattenEmpty

LEMMA FirstKeepsLost == RunsInv /\ LostInv /\ First => LostInv'
<1> SUFFICES ASSUME RunsInv, LostInv, First PROVE LostInv'
  OBVIOUS
<1> PICK c \in Byte : Getc(c) /\ currentChar' = c
  BY DEF First
<1> DEFINE s == Stream
<1>1. /\ place = "start" /\ place' = "loop" /\ files' = files /\ count' = 1 /\ records' = << >>
      /\ pos = 0 /\ s' = s /\ files \in Input
  BY DEF First, LostInv, Stream
<1>2. s \in Seq(Byte)
  BY StreamType DEF LostInv
<1> HIDE DEF s
<1>3. /\ pos' \in 0..Len(s)
      /\ c = FF => UpTo(s, FF) = SubSeq(s, 1, 0)
      /\ c # FF => /\ pos' = 1 /\ \A i \in 1..pos' : s[i] # FF
                   /\ SubSeq(s, 1, pos') = SubSeq(s, 1, 0) \o <<c>>
  BY <1>1, <1>2, GetcIs DEF LostInv, s
<1>4. SubSeq(s, 1, 0) = << >> /\ << >> \o <<c>> = <<c>>
  <2>1. <<c>> \in Seq(Byte)
    OBVIOUS
  <2> QED BY <2>1, SubSeqEmpty, ConcatEmptySeq
<1>5. Expand(records') = << >> /\ Rep(1, c) = <<c>>
  BY <1>1, ExpandEmpty, RepIs
<1>6. c # FF => Expand(records') \o Rep(count', currentChar') = SubSeq(s, 1, pos')
  BY <1>1, <1>3, <1>4, <1>5
<1>7. c = FF => Expand(records') = UpTo(s, FF)
  BY <1>3, <1>4, <1>5
<1>8. \A j \in 1..Len(records') : Count(records'[j]) \in Nat
  BY <1>1
<1>9. /\ files' \in Input /\ pos' \in 0..Len(s') /\ place' = "loop" /\ currentChar' = c
      /\ count' \in Nat \ {0} /\ (c # FF => count' <= pos')
  <2>1. files' \in Input /\ place' = "loop" /\ currentChar' = c
    BY <1>1
  <2>2. pos' \in 0..Len(s')
    BY <1>1, <1>3
  <2>3. count' \in Nat \ {0} /\ (c # FF => count' <= pos')
    <3>1. count' = 1 /\ (c # FF => pos' = 1)
      BY <1>1, <1>3, Zenon
    <3> QED BY ONLY <3>1, SMT
  <2> QED BY <2>1, <2>2, <2>3
<1>10. c # FF => \A i \in 1..pos' : (s')[i] # FF
  BY <1>1, <1>3
<1>11. /\ c # FF => Expand(records') \o Rep(count', currentChar') = SubSeq(s', 1, pos')
       /\ c = FF => Expand(records') = UpTo(s', FF)
  BY <1>1, <1>6, <1>7
<1> QED BY <1>8, <1>9, <1>10, <1>11 DEF LostInv, s

LEMMA TurnKeepsLost == RunsInv /\ LostInv /\ Turn => LostInv'
<1> SUFFICES ASSUME RunsInv, LostInv, Turn PROVE LostInv'
  OBVIOUS
<1> PICK c \in Byte :
      /\ Getc(c)
      /\ \/ c = currentChar /\ count' = count + 1 /\ UNCHANGED records
         \/ /\ c # currentChar
            /\ records' = Append(records, Record(count, currentChar))
            /\ count' = 1
      /\ currentChar' = c
  BY DEF Turn
<1> DEFINE s == Stream
           e == Expand(records)
           r == Rep(count, currentChar)
<1>1. /\ place = "loop" /\ place' = "loop" /\ files' = files /\ s' = s /\ files \in Input
      /\ currentChar # FF /\ currentChar \in Byte /\ count \in Nat /\ count <= pos
  BY DEF Turn, LostInv, RunsInv, Stream
<1>2. s \in Seq(Byte) /\ Len(s) \in Nat /\ Len(s) <= IntMax /\ pos \in 0..Len(s)
  BY StreamType DEF LostInv
<1>3. records \in Seq(Rec) /\ \A j \in 1..Len(records) : Count(records[j]) \in Nat
  BY DEF LostInv, RunsInv
<1>4. e \in Seq(Byte) /\ r \in Seq(Byte) /\ <<c>> \in Seq(Byte)
  <2>1. e \in Seq(Byte)
    BY <1>3, ExpandIs
  <2>2. r \in Seq(Byte)
    BY <1>1, RepIs
  <2> QED BY <2>1, <2>2
<1>5. e \o r = SubSeq(s, 1, pos) /\ \A i \in 1..pos : s[i] # FF
  BY <1>1 DEF LostInv
<1> HIDE DEF s
<1>6. /\ pos' \in 0..Len(s)
      /\ c = FF => UpTo(s, FF) = SubSeq(s, 1, pos)
      /\ c # FF => /\ pos' = pos + 1 /\ \A i \in 1..pos' : s[i] # FF
                   /\ SubSeq(s, 1, pos') = SubSeq(s, 1, pos) \o <<c>>
  BY <1>2, <1>5, GetcIs DEF s
<1>7. CASE c = currentChar
  <2>1. count' = count + 1 /\ records' = records
    BY <1>7
  <2>2. Rep(count + 1, currentChar) = r \o <<c>>
    BY <1>1, <1>7, RepIs
  <2> HIDE DEF e, r
  <2>3. e \o (r \o <<c>>) = (e \o r) \o <<c>>
    BY <1>4, ConcatAssociative
  <2>4. Expand(records') \o Rep(count', currentChar') = SubSeq(s, 1, pos')
    BY <1>1, <1>5, <1>6, <1>7, <2>1, <2>2, <2>3 DEF e
  <2> QED BY <1>1, <1>2, <1>6, <1>7, <2>1, <2>4 DEF LostInv, s
<1>8. CASE c # currentChar
  <2>1. count' = 1 /\ records' = Append(records, Record(count, currentChar))
    BY <1>8
  <2>2. /\ \A j \in 1..Len(records') : Count(records'[j]) \in Nat
        /\ Expand(records') = e \o r
    <3>1. count <= IntMax
      BY ONLY <1>1, <1>2, IntMaxType, SMT
    <3> QED BY <1>1, <1>3, <2>1, <3>1, ExpandAppend
  <2>3. Rep(1, c) = <<c>>
    BY RepIs
  <2>4. c # FF => Expand(records') \o Rep(count', currentChar') = SubSeq(s, 1, pos')
    BY <1>5, <1>6, <2>1, <2>2, <2>3
  <2>5. c = FF => Expand(records') = UpTo(s, FF)
    BY <1>5, <1>6, <2>2
  <2>6. /\ files' \in Input /\ pos' \in 0..Len(s') /\ place' = "loop" /\ currentChar' = c
        /\ count' \in Nat \ {0} /\ (c # FF => count' <= pos')
    <3>1. files' \in Input /\ place' = "loop" /\ currentChar' = c
      BY <1>1
    <3>2. pos' \in 0..Len(s')
      BY <1>1, <1>6
    <3>3. count' \in Nat \ {0} /\ (c # FF => count' <= pos')
      <4>1. count' = 1 /\ (c # FF => pos' = pos + 1)
        BY <1>6, <2>1, Zenon
      <4>2. pos \in Nat
        BY ONLY <1>2, SMT
      <4> QED BY ONLY <4>1, <4>2, SMT
    <3> QED BY <3>1, <3>2, <3>3
  <2>7. c # FF => \A i \in 1..pos' : (s')[i] # FF
    BY <1>1, <1>6
  <2>8. /\ c # FF => Expand(records') \o Rep(count', currentChar') = SubSeq(s', 1, pos')
        /\ c = FF => Expand(records') = UpTo(s', FF)
    BY <1>1, <2>4, <2>5
  <2> QED BY <2>2, <2>6, <2>7, <2>8 DEF LostInv, s
<1> QED BY <1>7, <1>8

LEMMA WzipInv == ZipSpec => [](RunsInv /\ LostInv)
<1>1. ZipInit => RunsInv /\ LostInv
  <2> SUFFICES ASSUME ZipInit PROVE RunsInv /\ LostInv
    OBVIOUS
  <2>1. RunsInv
    BY WzipAssumption, SMT DEF ZipInit, RunsInv, Maximal
  <2>2. Len(Stream) \in Nat /\ Len(records) = 0
    BY StreamType DEF ZipInit
  <2> QED BY <2>1, <2>2 DEF ZipInit, LostInv
<1>2. RunsInv /\ LostInv /\ [ZipNext]_zvars => RunsInv' /\ LostInv'
  <2> SUFFICES ASSUME RunsInv, LostInv, [ZipNext]_zvars PROVE RunsInv' /\ LostInv'
    OBVIOUS
  <2>1. CASE Usage
    <3>1. Stream = << >> /\ Expand(records) = << >> /\ UpTo(<< >>, FF) = << >>
      BY <2>1, FlattenEmpty, ExpandEmpty, UpToNone DEF Usage, LostInv, Stream
    <3> QED BY <2>1, <3>1 DEF Usage, RunsInv, LostInv, Maximal, Stream
  <2>2. CASE First
    BY <2>2, FirstKeepsLost DEF First, RunsInv, Maximal
  <2>3. CASE Turn
    BY <2>3, TurnKeepsRuns, TurnKeepsLost
  <2>4. CASE Stop
    BY <2>4 DEF Stop, RunsInv, LostInv, Maximal, Stream
  <2>5. CASE UNCHANGED zvars
    BY <2>5 DEF zvars, RunsInv, LostInv, Maximal, Stream
  <2> QED BY <2>1, <2>2, <2>3, <2>4, <2>5 DEF ZipNext
<1> QED BY <1>1, <1>2, PTL DEF ZipSpec

\* For all bytes and command lines of less than 2^31 bytes: the records that wzip has
\* written, with the run it is counting, stand for exactly what it has read, up to the first
\* byte 255.
THEOREM ZipSafety == ZipSpec => []NothingLost
<1>1. RunsInv /\ LostInv => NothingLost
  <2> SUFFICES ASSUME RunsInv, LostInv, place = "loop", currentChar # FF
               PROVE  UpTo(SubSeq(Stream, 1, pos), FF) = SubSeq(Stream, 1, pos)
    BY DEF LostInv, NothingLost, Rep
  <2>1. Stream \in Seq(Byte) /\ pos \in 0..Len(Stream) /\ \A i \in 1..pos : Stream[i] # FF
    BY StreamType DEF LostInv
  <2> DEFINE t == SubSeq(Stream, 1, pos)
  <2>2. Len(t) = pos /\ \A i \in 1..pos : t[i] = Stream[i]
    BY <2>1
  <2> HIDE DEF t
  <2>3. UpTo(t, FF) = t
    BY <2>1, <2>2, UpToNone
  <2> QED BY <2>3 DEF t
<1> QED BY <1>1, WzipInv, PTL

------------------------------------------------------------------------------
(* The chunks of wzipThreads.c                                              *)

LEMMA Least ==
  ASSUME NEW A, A \subseteq Nat, NEW n \in A PROVE \E m \in A : \A j \in A : m <= j
<1> SUFFICES ASSUME \A m \in A : \E j \in A : j < m PROVE FALSE
  OBVIOUS
<1> DEFINE None == {m \in Nat : \A i \in 0..m : i \notin A}
<1>1. 0 \in None
  OBVIOUS
<1>2. ASSUME NEW m \in Nat, m \in None PROVE m + 1 \in None
  <2>1. m + 1 \notin A
    <3> SUFFICES ASSUME m + 1 \in A PROVE FALSE
      OBVIOUS
    <3> PICK j \in A : j < m + 1
      OBVIOUS
    <3> QED BY <1>2
  <2> QED BY <1>2, <2>1
<1> HIDE DEF None
<1>3. Nat \subseteq None
  BY <1>1, <1>2, Induction
<1> QED BY <1>3 DEF None

LEMMA UpToType ==
  ASSUME NEW S, NEW s \in Seq(S), NEW c PROVE UpTo(s, c) \in Seq(S)
<1>0. Len(s) \in Nat /\ \A i \in 1..Len(s) : s[i] \in S
  BY LenProperties, ElementOfSeq
<1>1. CASE \A i \in 1..Len(s) : s[i] # c
  BY <1>1, UpToNone
<1>2. CASE \E i \in 1..Len(s) : s[i] = c
  <2> DEFINE ends == {i \in 1..Len(s) : s[i] = c}
  <2> PICK m \in ends : \A j \in ends : m <= j
    <3>1. ends \subseteq Nat /\ \E i \in ends : TRUE
      BY <1>2
    <3> HIDE DEF ends
    <3> QED BY <3>1, Least
  <2>1. m \in 1..Len(s) /\ s[m] = c /\ \A i \in 1..(m - 1) : s[i] # c
    BY <1>0
  <2>2. UpTo(s, c) = SubSeq(s, 1, m - 1)
    BY <1>0, <2>1, UpToFirst
  <2>3. m - 1 \in Int /\ \A i \in 1..(m - 1) : s[i] \in S
    BY <1>0, <2>1
  <2> DEFINE l == m - 1
  <2> HIDE DEF l
  <2>4. SubSeq(s, 1, l) \in Seq(S)
    BY <2>3, SubSeqProperties DEF l
  <2> QED BY <2>2, <2>4 DEF l
<1> QED BY <1>1, <1>2

\* A chunk that starts after b characters of s and ends after e of them.
Cut(s, b, e) ==
  /\ e \in b..Len(s)
  /\ MayEnd(s, b, e) \/ (Len(s) \div 3 = 0 /\ e = b)

LEMMA ChunkEndIs ==
  ASSUME NEW S, NEW s \in Seq(S), NEW b \in 0..Len(s), NEW e \in ChunkEnds(s, b)
  PROVE  Cut(s, b, e)
<1>0. Len(s) \in Nat
  BY LenProperties
<1> DEFINE A == {i \in b..Len(s) : MayEnd(s, b, i)}
           first(i) == i \in b..Len(s) /\ MayEnd(s, b, i) /\ \A j \in b..(i - 1) : ~MayEnd(s, b, j)
           c == CHOOSE i \in b..Len(s) : MayEnd(s, b, i) /\ \A j \in b..(i - 1) : ~MayEnd(s, b, j)
<1>1. \E m : first(m)
  <2>1. Len(s) \in A /\ A \subseteq Nat
    BY <1>0 DEF MayEnd
  <2>2. \A i \in b..Len(s) : MayEnd(s, b, i) => i \in A
    OBVIOUS
  <2>3. \A i \in A : i \in b..Len(s) /\ MayEnd(s, b, i)
    OBVIOUS
  <2> HIDE DEF A
  <2> PICK m \in A : \A j \in A : m <= j
    BY <2>1, Least
  <2>4. \A j \in b..(m - 1) : ~MayEnd(s, b, j)
    BY <1>0, <2>2, <2>3
  <2> QED BY <2>3, <2>4
<1>2. first(c)
  BY <1>1, Zenon
<1>3. e = c \/ (Len(s) \div 3 = 0 /\ e = b)
  BY Zenon DEF ChunkEnds
<1>4. c \in b..Len(s) /\ MayEnd(s, b, c)
  BY <1>2, Zenon
<1> HIDE DEF c
<1> QED BY <1>0, <1>3, <1>4 DEF Cut

\* The three chunks of s.
Three(s, e, f, g) == <<SubSeq(s, 1, e), SubSeq(s, e + 1, f), SubSeq(s, f + 1, g)>>

LEMMA ThreeIs ==
  ASSUME NEW S, NEW s \in Seq(S), NEW e \in 0..Len(s), NEW f \in e..Len(s), NEW g \in f..Len(s)
  PROVE  /\ FlattenSeq(Three(s, e, f, g)) = SubSeq(s, 1, g)
         /\ IsPrefix(SubSeq(s, 1, g), s)
         /\ Len(SubSeq(s, 1, g)) = g
<1>0. Len(s) \in Nat /\ \A i \in 1..Len(s) : s[i] \in S
  BY LenProperties, ElementOfSeq
<1> DEFINE x == SubSeq(s, 1, e)
           y == SubSeq(s, e + 1, f)
           z == SubSeq(s, f + 1, g)
<1>1. x \in Seq(S)
  BY <1>0, SubSeqProperties
<1>2. y \in Seq(S)
  <2> DEFINE b == e + 1
  <2>1. b \in Int /\ f \in Int /\ \A i \in b..f : s[i] \in S
    BY <1>0
  <2> HIDE DEF b
  <2>2. SubSeq(s, b, f) \in Seq(S)
    BY <2>1, SubSeqProperties
  <2> QED BY <2>2 DEF b
<1>3. z \in Seq(S)
  <2> DEFINE b == f + 1
  <2>1. b \in Int /\ g \in Int /\ \A i \in b..g : s[i] \in S
    BY <1>0
  <2> HIDE DEF b
  <2>2. SubSeq(s, b, g) \in Seq(S)
    BY <2>1, SubSeqProperties
  <2> QED BY <2>2 DEF b
<1>4. x \o y = SubSeq(s, 1, f) /\ SubSeq(s, 1, f) \o z = SubSeq(s, 1, g)
  <2>1. 1 \in 1..(Len(s) + 1) /\ e \in (1 - 1)..Len(s) /\ f \in (1 - 1)..Len(s)
    BY <1>0
  <2> QED BY <1>0, <2>1, ConcatAdjacentSubSeq
<1>5. Len(SubSeq(s, 1, g)) = g /\ IsPrefix(SubSeq(s, 1, g), s)
  <2>1. Len(SubSeq(s, 1, g)) = g
    BY <1>0
  <2>2. SubSeq(s, 1, g) \in Seq(S)
    BY <1>0, SubSeqProperties
  <2> DEFINE t == SubSeq(s, 1, g)
  <2> HIDE DEF t
  <2>3. SubSeq(t, 1, g) = t
    BY <2>1, <2>2, SubSeqFull DEF t
  <2> QED BY <1>0, <2>1, <2>3 DEF IsPrefix, t
<1> HIDE DEF x, y, z
<1>6. FlattenSeq(<<x, y, z>>) = (x \o y) \o z
  <2>1. /\ << >> \in Seq(Seq(S)) /\ <<x>> \in Seq(Seq(S)) /\ <<x, y>> \in Seq(Seq(S))
        /\ <<x>> = Append(<< >>, x) /\ <<x, y>> = Append(<<x>>, y)
        /\ <<x, y, z>> = Append(<<x, y>>, z)
    BY <1>1, <1>2, <1>3
  <2>2. FlattenSeq(<<x>>) = x
    <3>1. FlattenSeq(Append(<< >>, x)) = << >> \o x
      BY <1>1, <2>1, FlattenAppend, FlattenEmpty
    <3> QED BY <1>1, <2>1, <3>1, ConcatEmptySeq
  <2>3. FlattenSeq(<<x, y>>) = x \o y
    BY <1>2, <2>1, <2>2, FlattenAppend
  <2>4. FlattenSeq(Append(<<x, y>>, z)) = FlattenSeq(<<x, y>>) \o z
    BY <1>3, <2>1, FlattenAppend
  <2> QED BY <2>1, <2>3, <2>4
<1> QED BY <1>4, <1>5, <1>6 DEF Three, x, y, z

\* Main is at a file, and the chunks it creates threads for are cut one after the other.
CutInv ==
  /\ args \in Argument
  /\ arg \in Nat
  /\ at = "create" =>
       /\ string \in Seq(Char \cup {Nul})
       /\ \E e, f, g \in Nat :
            /\ Cut(string, 0, e) /\ Cut(string, e, f) /\ Cut(string, f, g)
            /\ chunk = Three(string, e, f, g)

LEMMA MappedType ==
  ASSUME args \in Argument, arg \in Nat, arg < Len(args), NEW s \in Mapped
  PROVE  s \in Seq(Char \cup {Nul})
<1> DEFINE S == Char \cup {Nul}
<1>1. args \in Seq(Seq(S)) /\ arg + 1 \in 1..Len(args)
  BY ThreadsAssumption, LenProperties
<1> HIDE DEF S
<1>2. File \in Seq(S)
  BY <1>1, ElementOfSeq DEF File
<1>3. \A x \in Beyond : x \in Seq(S)
  BY ThreadsAssumption DEF S
<1>4. CASE s = UpTo(File, Nul)
  BY <1>2, <1>4, UpToType DEF S
<1>5. CASE \E x \in Beyond : s = File \o x
  BY <1>2, <1>3, <1>5, ConcatProperties DEF S
<1> QED BY <1>4, <1>5 DEF Mapped

LEMMA LargeKeepsCut == CutInv /\ Large => CutInv'
<1> SUFFICES ASSUME CutInv, Large PROVE CutInv'
  OBVIOUS
<1> DEFINE S == Char \cup {Nul}
<1> PICK s \in Mapped : 
      /\ string' = s
      /\ \E end1 \in ChunkEnds(s, 0) : \E end2 \in ChunkEnds(s, end1) :
         \E end3 \in ChunkEnds(s, end2) :
           chunk' = <<SubSeq(s, 1, end1), SubSeq(s, end1 + 1, end2), SubSeq(s, end2 + 1, end3)>>
  BY DEF Large
<1> PICK e \in ChunkEnds(s, 0) :
      \E f \in ChunkEnds(s, e) : \E g \in ChunkEnds(s, f) : chunk' = Three(s, e, f, g)
  BY DEF Three
<1> PICK f \in ChunkEnds(s, e) : \E g \in ChunkEnds(s, f) : chunk' = Three(s, e, f, g)
  OBVIOUS
<1> PICK g \in ChunkEnds(s, f) : chunk' = Three(s, e, f, g)
  OBVIOUS
<1>1. s \in Seq(S) /\ Len(s) \in Nat
  <2>1. s \in Seq(S)
    BY MappedType DEF Large, CutInv
  <2> QED BY <2>1, LenProperties
<1> HIDE DEF S
<1>2. Cut(s, 0, e) /\ e \in 0..Len(s)
  BY <1>1, ChunkEndIs DEF Cut
<1>3. Cut(s, e, f) /\ f \in 0..Len(s)
  BY <1>1, <1>2, ChunkEndIs DEF Cut
<1>4. Cut(s, f, g) /\ g \in 0..Len(s)
  BY <1>1, <1>3, ChunkEndIs DEF Cut
<1>5. \E x, y, z \in Nat :
        /\ Cut(s, 0, x) /\ Cut(s, x, y) /\ Cut(s, y, z)
        /\ chunk' = Three(s, x, y, z)
  <2>1. e \in Nat /\ f \in Nat /\ g \in Nat
    BY <1>1, <1>2, <1>3, <1>4
  <2> QED BY <1>2, <1>3, <1>4, <2>1, Zenon
<1>6. string' = s /\ args' = args /\ arg' = arg
  BY DEF Large
<1> QED BY <1>1, <1>5, <1>6, Zenon DEF CutInv, S

\* What the chunks have to do with one another.
LEMMA CutsInOrder ==
  ASSUME NEW S, NEW s \in Seq(S), NEW e \in Nat, NEW f \in Nat, NEW g \in Nat,
         Cut(s, 0, e), Cut(s, e, f), Cut(s, f, g)
  PROVE  LET c == Three(s, e, f, g)
         IN  /\ IsPrefix(FlattenSeq(c), s)
             /\ Len(s) >= 3 => Len(s) - Len(FlattenSeq(c)) <= Len(s) % 3
             /\ \A v, w \in Worker :
                  (v < w /\ c[v] # << >> /\ c[w] # << >> /\ (w = v + 1 \/ c[v + 1] = << >>))
                    => Last(c[v]) # Head(c[w])
<1>0. /\ Len(s) \in Nat /\ e \in 0..Len(s) /\ f \in e..Len(s) /\ g \in f..Len(s)
      /\ \A i \in 1..Len(s) : s[i] \in S
  BY LenProperties, ElementOfSeq DEF Cut
<1> DEFINE c == Three(s, e, f, g)
<1>1. FlattenSeq(c) = SubSeq(s, 1, g) /\ IsPrefix(FlattenSeq(c), s) /\ Len(FlattenSeq(c)) = g
  BY <1>0, ThreeIs
<1>2. Len(s) >= 3 => Len(s) - g <= Len(s) % 3
  <2> SUFFICES ASSUME Len(s) >= 3 PROVE Len(s) - g <= Len(s) % 3
    OBVIOUS
  <2> PICK d : d = Len(s) \div 3
    OBVIOUS
  <2>1. d \in Nat /\ d >= 1 /\ Len(s) = 3 * d + (Len(s) % 3) /\ (Len(s) % 3) \in 0..2
    BY <1>0
  <2>2. /\ e >= Len(s) \/ e >= d
        /\ f >= Len(s) \/ f - e >= d
        /\ g >= Len(s) \/ g - f >= d
    BY <1>0, <2>1 DEF Cut, MayEnd
  <2> QED BY <1>0, <2>1, <2>2
<1>3. ASSUME NEW b \in 0..Len(s), NEW i \in b..Len(s), Cut(s, b, i), b < i,
             NEW j \in i..Len(s), i < j
      PROVE  Last(SubSeq(s, b + 1, i)) # Head(SubSeq(s, i + 1, j))
  <2>1. s[i + 1] # s[i]
    BY <1>0, <1>3 DEF Cut, MayEnd
  <2>2. Last(SubSeq(s, b + 1, i)) = s[i]
    <3> DEFINE m == b + 1
    <3>1. m \in Int /\ i \in Int /\ m <= i /\ (i - m) + 1 \in 1..((i - m) + 1) /\ (m + ((i - m) + 1)) - 1 = i
          /\ \A n \in m..i : s[n] \in S
      BY <1>0, <1>3
    <3> HIDE DEF m
    <3>2. Len(SubSeq(s, m, i)) = (i - m) + 1 /\ SubSeq(s, m, i)[(i - m) + 1] = s[i]
      <4>1. \A n \in 1..((i - m) + 1) : SubSeq(s, m, i)[n] = s[(m + n) - 1]
        BY <3>1, SubSeqProperties
      <4>2. Len(SubSeq(s, m, i)) = (i - m) + 1
        BY <3>1, SubSeqProperties
      <4> DEFINE n == (i - m) + 1
      <4>3. n \in 1..n /\ (m + n) - 1 = i
        BY <3>1
      <4> HIDE DEF n
      <4> QED BY <4>1, <4>2, <4>3 DEF n
    <3> QED BY <3>2 DEF Last, m
  <2>3. Head(SubSeq(s, i + 1, j)) = s[i + 1]
    <3> DEFINE m == i + 1
    <3>1. m \in Int /\ j \in Int /\ m <= j /\ 1 \in 1..((j - m) + 1) /\ (m + 1) - 1 = m
          /\ \A n \in m..j : s[n] \in S
      BY <1>0, <1>3
    <3> HIDE DEF m
    <3>2. SubSeq(s, m, j) \in Seq(S) /\ Len(SubSeq(s, m, j)) >= 1 /\ SubSeq(s, m, j)[1] = s[m]
      BY <3>1, SubSeqProperties
    <3>3. Head(SubSeq(s, m, j)) = SubSeq(s, m, j)[1]
      BY <3>2
    <3> QED BY <3>2, <3>3 DEF m
  <2> QED BY <2>1, <2>2, <2>3
<1>4. ASSUME NEW v \in Worker, NEW w \in Worker,
             v < w, c[v] # << >>, c[w] # << >>, w = v + 1 \/ c[v + 1] = << >>
      PROVE  Last(c[v]) # Head(c[w])
  <2>1. /\ c[1] = SubSeq(s, 0 + 1, e) /\ c[2] = SubSeq(s, e + 1, f) /\ c[3] = SubSeq(s, f + 1, g)
        /\ 1 + 1 = 2 /\ 2 + 1 = 3
    BY DEF Three
  <2>2. /\ c[1] # << >> => 0 < e
        /\ c[2] # << >> => e < f
        /\ c[3] # << >> => f < g
    BY <1>0, <2>1, SubSeqEmpty
  <2>3. c[2] = << >> => e = f
    <3> SUFFICES ASSUME e < f PROVE c[2] # << >>
      BY <1>0
    <3> DEFINE m == e + 1
    <3>1. m \in Int /\ f \in Int /\ m <= f /\ \A n \in m..f : s[n] \in S
      BY <1>0
    <3> HIDE DEF m
    <3>2. Len(SubSeq(s, m, f)) = (f - m) + 1
      BY <3>1, SubSeqProperties
    <3>3. SubSeq(s, m, f) # << >>
      <4>1. Len(SubSeq(s, m, f)) # 0
        BY <3>1, <3>2
      <4>2. Len(<< >>) = 0
        OBVIOUS
      <4> QED BY <4>1, <4>2, Zenon
    <3> QED BY <2>1, <3>3 DEF m
  <2> HIDE DEF c
  <2>7. 0 \in 0..Len(s)
    BY <1>0
  <2>8. ASSUME 0 < e, NEW j \in e..Len(s), e < j PROVE Last(c[1]) # Head(SubSeq(s, e + 1, j))
    BY <1>0, <1>3, <2>1, <2>7, <2>8, Zenon
  <2>4. CASE v = 1 /\ w = 2
    BY <1>0, <1>4, <2>1, <2>2, <2>4, <2>8
  <2>5. CASE v = 2 /\ w = 3
    BY <1>0, <1>3, <1>4, <2>1, <2>2, <2>5
  <2>6. CASE v = 1 /\ w = 3
    <3>1. 0 < e /\ e = f /\ f < g /\ g \in e..Len(s)
      BY <1>0, <1>4, <2>1, <2>2, <2>3, <2>6
    <3> QED BY <2>1, <2>6, <2>8, <3>1
  <2> QED BY <1>4, <2>4, <2>5, <2>6 DEF Worker
<1> HIDE DEF c
<1> QED BY <1>1, <1>2, <1>4 DEF c

LEMMA CutStep == CutInv /\ [Next]_vars => CutInv'
<1> SUFFICES ASSUME CutInv, [Next]_vars PROVE CutInv'
  OBVIOUS
<1>1. CASE Large
  BY <1>1, LargeKeepsCut
<1>2. CASE Create
  BY <1>2 DEF Create, CreateUpTo, CutInv
<1>3. CASE Crash \/ Join \/ Joined \/ End
  BY <1>3 DEF Crash, Join, Joined, End, CutInv
<1>4. CASE Small
  BY <1>4 DEF Small, Collect, CutInv
<1>5. CASE \E w \in Worker : ThreadFunction(w)
  BY <1>5 DEF ThreadFunction, CutInv
<1>6. CASE UNCHANGED vars
  BY <1>6 DEF vars, CutInv
<1> QED BY <1>1, <1>2, <1>3, <1>4, <1>5, <1>6 DEF Next, MainStep

\* For all files: the chunks are the beginning of the mapped string, in order; no run goes on
\* from one into the next; and what is left out is less than three characters.
THEOREM ChunksSafety == Spec => []ChunksInOrder
<1>1. Init => CutInv
  BY DEF Init, CutInv
<1>2. CutInv /\ [Next]_vars => CutInv'
  BY CutStep
<1>3. CutInv => ChunksInOrder
  <2> SUFFICES ASSUME CutInv, at = "create" PROVE ChunksInOrder
    BY DEF ChunksInOrder
  <2> PICK e \in Nat, f \in Nat, g \in Nat :
        /\ Cut(string, 0, e) /\ Cut(string, e, f) /\ Cut(string, f, g)
        /\ chunk = Three(string, e, f, g)
    BY DEF CutInv
  <2>1. string \in Seq(Char \cup {Nul})
    BY DEF CutInv
  <2> QED BY <2>1, CutsInOrder DEF ChunksInOrder, Chunks
<1> QED BY <1>1, <1>2, <1>3, PTL DEF Spec

------------------------------------------------------------------------------
(* Numbers and texts                                                         *)

LEMMA TenthIs ==
  ASSUME NEW n \in Nat
  PROVE  /\ n \div 10 \in Nat /\ n % 10 \in Digit /\ n = 10 * (n \div 10) + (n % 10)
         /\ n >= 10 => n \div 10 \in 0..(n - 1)
         /\ n < 10 => n \in Digit
BY SMTT(30) DEF Digit

\* Decimal is what its recursion says.
DecimalStep(f) == [n \in Nat |-> IF n < 10 THEN <<n>> ELSE Append(f[n \div 10], n % 10)]

LEMMA DecimalIs == Decimal = DecimalStep(Decimal) /\ Decimal \in [Nat -> Seq(Digit)]
<1> DEFINE T == [Nat -> Seq(Digit)]
           step == [x \in Nat \X T |-> DecimalStep(x[2])]
           none == [n \in Nat |-> << >>]
<1>1. ASSUME NEW f \in T PROVE DecimalStep(f) \in T
  <2> SUFFICES ASSUME NEW n \in Nat
               PROVE  (IF n < 10 THEN <<n>> ELSE Append(f[n \div 10], n % 10)) \in Seq(Digit)
    BY DEF DecimalStep
  <2>1. f[n \div 10] \in Seq(Digit) /\ n % 10 \in Digit /\ (n < 10 => n \in Digit)
    BY TenthIs
  <2>2. Append(f[n \div 10], n % 10) \in Seq(Digit)
    BY <2>1, AppendProperties
  <2>3. n < 10 => <<n>> \in Seq(Digit)
    BY <2>1
  <2> QED BY <2>2, <2>3, Zenon
<1>2. none \in T
  <2>1. << >> \in Seq(Digit)
    OBVIOUS
  <2> QED BY <2>1
<1>3. step \in [Nat \X T -> T]
  BY <1>1
<1>4. \A i \in Nat, f \in T : step[<<i, f>>] = DecimalStep(f)
  OBVIOUS
<1> HIDE DEF step, none, T
<1> PICK F \in [Nat -> T] : Recurses(F, none, step)
  BY <1>2, <1>3, Recursion
<1>5. ASSUME NEW i \in Nat PROVE F[i + 1] = DecimalStep(F[i])
  BY <1>4 DEF Recurses
<1> DEFINE V(f, n) == IF n < 10 THEN <<n>> ELSE Append(f[n \div 10], n % 10)
           D == [n \in Nat |-> F[n + 1][n]]
<1>6. \A i, n \in Nat : F[i + 1][n] = V(F[i], n)
  BY <1>5 DEF DecimalStep
<1>7. \A n \in Nat : D[n] = F[n + 1][n]
  OBVIOUS
<1>8. ASSUME NEW f, NEW g, NEW n \in Nat, n >= 10 => f[n \div 10] = g[n \div 10]
      PROVE  V(f, n) = V(g, n)
  BY <1>8
<1> HIDE DEF V, D
<1> DEFINE Stable == {i \in Nat : \A j \in 0..i : \A n \in 0..j : F[j + 1][n] = D[n]}
<1>9. ASSUME NEW n \in Nat, \A j \in 0..(n - 1) : \A m \in 0..j : F[j + 1][m] = D[m]
      PROVE  D[n] = V(D, n)
  <2>1. D[n] = V(F[n], n)
    BY <1>6, <1>7
  <2>2. n >= 10 => F[n][n \div 10] = D[n \div 10]
    <3> SUFFICES ASSUME n >= 10 PROVE F[n][n \div 10] = D[n \div 10]
      OBVIOUS
    <3> PICK m : m = n \div 10
      OBVIOUS
    <3>1. m \in 0..(n - 1)
      BY TenthIs
    <3> PICK j \in Nat : n = j + 1
      <4>1. n - 1 \in Nat /\ n = (n - 1) + 1
        OBVIOUS
      <4> QED BY <4>1
    <3>2. j \in 0..(n - 1) /\ m \in 0..j
      BY <3>1
    <3> QED BY <1>9, <3>2
  <2> QED BY <1>8, <2>1, <2>2
<1>10. 0 \in Stable
  BY <1>7
<1>11. ASSUME NEW i \in Nat, i \in Stable PROVE i + 1 \in Stable
  <2> DEFINE l == i + 1
  <2>1. \A n \in 0..l : D[n] = V(D, n)
    BY <1>9, <1>11
  <2>2. ASSUME NEW n \in 0..l PROVE F[l + 1][n] = D[n]
    <3>1. F[l + 1][n] = V(F[l], n) /\ D[n] = V(D, n)
      BY <1>6, <2>1
    <3>2. n >= 10 => F[l][n \div 10] = D[n \div 10]
      <4> SUFFICES ASSUME n >= 10 PROVE F[l][n \div 10] = D[n \div 10]
        OBVIOUS
      <4> PICK m : m = n \div 10
        OBVIOUS
      <4>1. m \in 0..(n - 1) /\ n \in Nat
        BY TenthIs
      <4>2. m \in 0..i /\ i \in 0..i
        BY <4>1
      <4> QED BY <1>11, <4>2
    <3> QED BY <1>8, <3>1, <3>2
  <2>3. \A j \in 0..l : j \in 0..i \/ j = l
    OBVIOUS
  <2>4. l \in Nat
    OBVIOUS
  <2> HIDE DEF l
  <2>5. \A j \in 0..l : \A n \in 0..j : F[j + 1][n] = D[n]
    BY <1>11, <2>2, <2>3
  <2>6. l \in Stable
    BY <2>4, <2>5
  <2> QED BY <2>6 DEF l
<1> HIDE DEF Stable
<1>12. Nat \subseteq Stable
  BY <1>10, <1>11, Induction
<1>13. \A n \in Nat : D[n] = V(D, n)
  <2> TAKE n \in Nat
  <2>1. n \in Stable
    BY <1>12
  <2>2. \A j \in 0..(n - 1) : j \in 0..n
    OBVIOUS
  <2> QED BY <1>9, <2>1, <2>2 DEF Stable
<1>14. D = DecimalStep(D)
  BY <1>13 DEF DecimalStep, V, D
<1>15. Decimal = DecimalStep(Decimal)
  <2> HIDE DEF D
  <2> DEFINE P(f) == f = DecimalStep(f)
             d == CHOOSE f : P(f)
  <2>1. P(D)
    BY <1>14
  <2>2. Decimal = d
    BY DEF Decimal, DecimalStep
  <2> HIDE DEF P
  <2> QED BY <2>1, <2>2 DEF P
<1>16. Decimal \in T
  <2> PICK d : d = Decimal
    OBVIOUS
  <2>1. d = [n \in Nat |-> V(d, n)]
    BY <1>15 DEF DecimalStep, V
  <2>2. \A n \in Nat : d[n] = V(d, n)
    BY <2>1
  <2> DEFINE Good == {i \in Nat : \A n \in 0..i : d[n] \in Seq(Digit)}
  <2>3. ASSUME NEW n \in Nat, n >= 10 => d[n \div 10] \in Seq(Digit) PROVE d[n] \in Seq(Digit)
    <3>1. n % 10 \in Digit /\ (n < 10 => n \in Digit)
      BY TenthIs
    <3>2. n < 10 => <<n>> \in Seq(Digit)
      BY <3>1
    <3>3. n >= 10 => Append(d[n \div 10], n % 10) \in Seq(Digit)
      BY <2>3, <3>1, AppendProperties
    <3>4. CASE n < 10
      BY <2>2, <3>2, <3>4 DEF V
    <3>5. CASE n >= 10
      <4>1. ~(n < 10)
        BY <3>5
      <4> QED BY <2>2, <3>3, <3>5, <4>1, Zenon DEF V
    <3> QED BY <3>4, <3>5
  <2>4. 0 \in Good
    BY <2>3
  <2>5. ASSUME NEW i \in Nat, i \in Good PROVE i + 1 \in Good
    <3> SUFFICES ASSUME NEW n \in 0..(i + 1) PROVE d[n] \in Seq(Digit)
      OBVIOUS
    <3>1. n >= 10 => n \div 10 \in 0..(n - 1)
      BY TenthIs
    <3>2. n >= 10 => n \div 10 \in 0..i
      BY <3>1
    <3> HIDE DEF V
    <3> QED BY <2>3, <2>5, <3>2
  <2> HIDE DEF Good
  <2>6. Nat \subseteq Good
    BY <2>4, <2>5, Induction
  <2>7. ASSUME NEW n \in Nat PROVE d[n] \in Seq(Digit)
    <3>1. n \in Good /\ n \in 0..n
      BY <2>6
    <3> QED BY <3>1 DEF Good
  <2> HIDE DEF V
  <2> QED BY <2>1, <2>7 DEF T
<1> QED BY <1>15, <1>16 DEF T

\* Numbers and the records of Parse are what their recursions say.
NumberAt(text, f, i) == IF text[i] \in Digit THEN 10 * f[i - 1] + text[i] ELSE 0

NumbersFollow(text, f) == f[0] = 0 /\ \A i \in 1..Len(text) : f[i] = NumberAt(text, f, i)

LEMMA NumbersIs == ASSUME NEW A, NEW text \in Seq(A) PROVE NumbersFollow(text, Numbers(text))
<1> DEFINE n == Len(text)
           P(f) == f = [i \in 0..n |-> IF i = 0 THEN 0 ELSE NumberAt(text, f, i)]
           all == CHOOSE f : P(f)
           step == [x \in Nat \X Nat |->
                      IF text[x[1] + 1] \in Digit THEN 10 * x[2] + text[x[1] + 1] ELSE 0]
<1>0. n \in Nat
  BY LenProperties
<1>1. Numbers(text) = all
  BY DEF Numbers, NumberAt
<1>2. step \in [Nat \X Nat -> Nat]
  <2>1. \A d \in Digit, m \in Nat : 10 * m + d \in Nat
    BY DEF Digit
  <2>2. ASSUME NEW x \in Nat \X Nat PROVE step[x] \in Nat
    <3> PICK d : d = text[x[1] + 1]
      OBVIOUS
    <3>1. x[2] \in Nat /\ step[x] = IF d \in Digit THEN 10 * x[2] + d ELSE 0
      OBVIOUS
    <3> QED BY <2>1, <3>1
  <2> QED BY <2>2
<1>3. \A j, x \in Nat :
        step[<<j, x>>] = IF text[j + 1] \in Digit THEN 10 * x + text[j + 1] ELSE 0
  OBVIOUS
<1> HIDE DEF step, n
<1> PICK g \in [Nat -> Nat] : Recurses(g, 0, step)
  BY <1>2, Recursion
<1> PICK w : w = [i \in 0..n |-> g[i]]
  OBVIOUS
<1>4. P(w)
  <2> SUFFICES ASSUME NEW i \in 0..n PROVE w[i] = IF i = 0 THEN 0 ELSE NumberAt(text, w, i)
    BY Zenon
  <2>1. CASE i = 0
    BY <1>0, <2>1 DEF Recurses
  <2>2. CASE i # 0
    <3> PICK j \in Nat : i = j + 1
      <4>1. i - 1 \in Nat /\ i = (i - 1) + 1
        BY <1>0, <2>2
      <4> QED BY <4>1
    <3>1. g[j + 1] = step[<<j, g[j]>>]
      BY DEF Recurses
    <3>2. w[i] = g[i] /\ w[i - 1] = g[j] /\ i - 1 = j
      BY <1>0
    <3> QED BY <1>3, <2>2, <3>1, <3>2 DEF NumberAt
  <2> QED BY <2>1, <2>2
<1> HIDE DEF P
<1>5. P(all)
  BY <1>4
<1> HIDE DEF all
<1>6. \A i \in 0..n : all[i] = IF i = 0 THEN 0 ELSE NumberAt(text, all, i)
  <2> DEFINE v(i) == IF i = 0 THEN 0 ELSE NumberAt(text, all, i)
  <2>1. all = [i \in 0..n |-> v(i)]
    BY <1>5 DEF P
  <2> HIDE DEF v
  <2>2. \A i \in 0..n : all[i] = v(i)
    BY <2>1
  <2> QED BY <2>2 DEF v
<1>7. 0 \in 0..n /\ \A i \in 1..n : i \in 0..n /\ i # 0
  BY <1>0
<1> QED BY <1>1, <1>6, <1>7 DEF NumbersFollow, n

RecordsAt(text, f, i) ==
  IF text[i] \in Digit THEN f[i - 1]
                       ELSE Append(f[i - 1], Record(Numbers(text)[i - 1], text[i]))

RecordsFollow(text, f) == f[0] = << >> /\ \A i \in 1..Len(text) : f[i] = RecordsAt(text, f, i)

LEMMA ParseIs ==
  ASSUME NEW A, NEW text \in Seq(A)
  PROVE  \E f : RecordsFollow(text, f) /\ Parse(text) = f[Len(text)]
<1> DEFINE n == Len(text)
           P(f) == f = [i \in 0..n |-> IF i = 0 THEN << >> ELSE RecordsAt(text, f, i)]
           all == CHOOSE f : P(f)
           R == {Record(Numbers(text)[j], text[j + 1]) : j \in Nat}
           T == Seq(R)
           step == [x \in Nat \X T |->
                      IF text[x[1] + 1] \in Digit THEN x[2]
                      ELSE Append(x[2], Record(Numbers(text)[x[1]], text[x[1] + 1]))]
           none == << >>
<1>0. n \in Nat
  BY LenProperties
<1>1. Parse(text) = all[n]
  BY DEF Parse, RecordsAt
<1>2. step \in [Nat \X T -> T]
  <2> SUFFICES ASSUME NEW x \in Nat \X T
               PROVE  Append(x[2], Record(Numbers(text)[x[1]], text[x[1] + 1])) \in T
    OBVIOUS
  <2>1. x[2] \in Seq(R) /\ Record(Numbers(text)[x[1]], text[x[1] + 1]) \in R
    OBVIOUS
  <2> HIDE DEF R
  <2> QED BY <2>1, AppendProperties
<1>3. \A j \in Nat, x \in T :
        step[<<j, x>>] = IF text[j + 1] \in Digit THEN x
                         ELSE Append(x, Record(Numbers(text)[j], text[j + 1]))
  OBVIOUS
<1>4. none \in T
  OBVIOUS
<1> HIDE DEF step, n, T
<1> PICK g \in [Nat -> T] : Recurses(g, none, step)
  BY <1>2, <1>4, Recursion
<1> PICK w : w = [i \in 0..n |-> g[i]]
  OBVIOUS
<1>5. P(w)
  <2> SUFFICES ASSUME NEW i \in 0..n PROVE w[i] = IF i = 0 THEN << >> ELSE RecordsAt(text, w, i)
    BY Zenon
  <2>1. CASE i = 0
    BY <1>0, <2>1 DEF Recurses
  <2>2. CASE i # 0
    <3> PICK j \in Nat : i = j + 1
      <4>1. i - 1 \in Nat /\ i = (i - 1) + 1
        BY <1>0, <2>2
      <4> QED BY <4>1
    <3>1. g[j + 1] = step[<<j, g[j]>>]
      BY DEF Recurses
    <3>2. w[i] = g[i] /\ w[i - 1] = g[j] /\ i - 1 = j /\ g[j] \in T
      BY <1>0
    <3> QED BY <1>3, <2>2, <3>1, <3>2 DEF RecordsAt
  <2> QED BY <2>1, <2>2
<1> HIDE DEF P
<1>6. P(all)
  BY <1>5
<1> HIDE DEF all
<1>7. \A i \in 0..n : all[i] = IF i = 0 THEN << >> ELSE RecordsAt(text, all, i)
  <2> DEFINE v(i) == IF i = 0 THEN << >> ELSE RecordsAt(text, all, i)
  <2>1. all = [i \in 0..n |-> v(i)]
    BY <1>6 DEF P
  <2> HIDE DEF v
  <2>2. \A i \in 0..n : all[i] = v(i)
    BY <2>1
  <2> QED BY <2>2 DEF v
<1>8. 0 \in 0..n /\ \A i \in 1..n : i \in 0..n /\ i # 0
  BY <1>0
<1>9. RecordsFollow(text, all)
  BY <1>7, <1>8 DEF RecordsFollow, n
<1> QED BY <1>1, <1>9 DEF n

\* A character more at the end of a text.
Number(text) == Numbers(text)[Len(text)]

LEMMA ParseAppend ==
  ASSUME NEW A, NEW text \in Seq(A), NEW c \in A
  PROVE  LET more == Append(text, c)
         IN  /\ Number(more) = IF c \in Digit THEN 10 * Number(text) + c ELSE 0
             /\ Parse(more) = IF c \in Digit THEN Parse(text)
                              ELSE Append(Parse(text), Record(Number(text), c))
<1> DEFINE more == Append(text, c)
<1> PICK n \in Nat : n = Len(text)
  BY LenProperties
<1>1. /\ more \in Seq(A) /\ Len(more) = n + 1 /\ more[n + 1] = c
      /\ \A i \in 1..n : more[i] = text[i]
  BY AppendProperties
<1> HIDE DEF more
<1> PICK x : x = Numbers(text)
  OBVIOUS
<1> PICK y : y = Numbers(more)
  OBVIOUS
<1>2. /\ x[0] = 0 /\ \A i \in 1..n : x[i] = NumberAt(text, x, i)
      /\ y[0] = 0 /\ \A i \in 1..(n + 1) : y[i] = NumberAt(more, y, i)
  BY <1>1, NumbersIs DEF NumbersFollow
<1>3. \A i \in 0..n : x[i] = y[i]
  <2> DEFINE Same == {i \in Nat : i <= n => x[i] = y[i]}
  <2>1. 0 \in Same
    BY <1>2
  <2>2. ASSUME NEW i \in Nat, i \in Same PROVE i + 1 \in Same
    <3> SUFFICES ASSUME i + 1 <= n PROVE x[i + 1] = y[i + 1]
      OBVIOUS
    <3> DEFINE j == i + 1
    <3>1. j \in 1..n /\ j \in 1..(n + 1) /\ j - 1 = i
      OBVIOUS
    <3> HIDE DEF j
    <3>2. x[i] = y[i] /\ text[j] = more[j]
      BY <1>1, <2>2, <3>1
    <3>3. x[j] = NumberAt(text, x, j) /\ y[j] = NumberAt(more, y, j)
      BY <1>2, <3>1
    <3>4. x[j] = y[j]
      BY <3>1, <3>2, <3>3, Zenon DEF NumberAt
    <3> QED BY <3>4 DEF j
  <2> HIDE DEF Same
  <2>3. Nat \subseteq Same
    BY <2>1, <2>2, Induction
  <2> QED BY <2>3 DEF Same
<1>4. y[n + 1] = IF c \in Digit THEN 10 * x[n] + c ELSE 0
  <2>1. (n + 1) \in 1..(n + 1) /\ (n + 1) - 1 = n /\ x[n] = y[n]
    BY <1>3
  <2> QED BY <1>1, <1>2, <2>1 DEF NumberAt
<1> PICK r : RecordsFollow(text, r) /\ Parse(text) = r[n]
  BY ParseIs
<1> PICK q : RecordsFollow(more, q) /\ Parse(more) = q[n + 1]
  BY <1>1, ParseIs
<1>5. /\ r[0] = << >> /\ \A i \in 1..n : r[i] = RecordsAt(text, r, i)
      /\ q[0] = << >> /\ \A i \in 1..(n + 1) : q[i] = RecordsAt(more, q, i)
  BY <1>1 DEF RecordsFollow
<1>6. \A i \in 0..n : r[i] = q[i]
  <2> DEFINE Same == {i \in Nat : i <= n => r[i] = q[i]}
  <2>1. 0 \in Same
    BY <1>5
  <2>2. ASSUME NEW i \in Nat, i \in Same PROVE i + 1 \in Same
    <3> SUFFICES ASSUME i + 1 <= n PROVE r[i + 1] = q[i + 1]
      OBVIOUS
    <3> DEFINE j == i + 1
    <3>1. j \in 1..n /\ j \in 1..(n + 1) /\ j - 1 = i /\ i \in 0..n
      OBVIOUS
    <3> HIDE DEF j
    <3>2. r[i] = q[i] /\ text[j] = more[j] /\ x[i] = y[i]
      BY <1>1, <1>3, <2>2, <3>1
    <3>3. r[j] = RecordsAt(text, r, j) /\ q[j] = RecordsAt(more, q, j)
      BY <1>5, <3>1
    <3>4. r[j] = q[j]
      BY <3>1, <3>2, <3>3, Zenon DEF RecordsAt
    <3> QED BY <3>4 DEF j
  <2> HIDE DEF Same
  <2>3. Nat \subseteq Same
    BY <2>1, <2>2, Induction
  <2> QED BY <2>3 DEF Same
<1>7. q[n + 1] = IF c \in Digit THEN r[n] ELSE Append(r[n], Record(x[n], c))
  <2>1. (n + 1) \in 1..(n + 1) /\ (n + 1) - 1 = n /\ r[n] = q[n] /\ x[n] = y[n]
    BY <1>3, <1>6
  <2>2. q[n + 1] = RecordsAt(more, q, n + 1)
    BY <1>5, <2>1
  <2> QED BY <1>1, <2>1, <2>2, Zenon DEF RecordsAt
<1>8. Number(more) = y[n + 1] /\ Number(text) = x[n]
  BY <1>1 DEF Number
<1> QED BY <1>4, <1>7, <1>8 DEF more

LEMMA ParseEmpty == Number(<< >>) = 0 /\ Parse(<< >>) = << >>
<1>1. << >> \in Seq({}) /\ Len(<< >>) = 0
  OBVIOUS
<1>2. NumbersFollow(<< >>, Numbers(<< >>))
  BY <1>1, NumbersIs
<1> PICK f : RecordsFollow(<< >>, f) /\ Parse(<< >>) = f[0]
  BY <1>1, ParseIs
<1> QED BY <1>1, <1>2 DEF NumbersFollow, RecordsFollow, Number

\* The digits of m behind a text that ends a record are read as m; with the character c
\* behind them, as the record of m and c.
LEMMA ParseDecimal ==
  ASSUME NEW A, Digit \subseteq A, NEW text \in Seq(A), Number(text) = 0, NEW m \in Nat
  PROVE  /\ text \o Decimal[m] \in Seq(A)
         /\ Number(text \o Decimal[m]) = m
         /\ Parse(text \o Decimal[m]) = Parse(text)
<1> DEFINE Read(i) == /\ text \o Decimal[i] \in Seq(A)
                      /\ Number(text \o Decimal[i]) = i
                      /\ Parse(text \o Decimal[i]) = Parse(text)
           All == {i \in Nat : \A j \in 0..i : Read(j)}
<1>1. ASSUME NEW n \in Nat, n >= 10 => Read(n \div 10) PROVE Read(n)
  <2>0. Decimal[n] = IF n < 10 THEN <<n>> ELSE Append(Decimal[n \div 10], n % 10)
    <3> PICK d : d = Decimal
      OBVIOUS
    <3>1. d = [i \in Nat |-> IF i < 10 THEN <<i>> ELSE Append(d[i \div 10], i % 10)]
      BY DecimalIs DEF DecimalStep
    <3> DEFINE v(i) == IF i < 10 THEN <<i>> ELSE Append(d[i \div 10], i % 10)
    <3>2. d = [i \in Nat |-> v(i)]
      BY <3>1
    <3> HIDE DEF v
    <3>3. d[n] = v(n)
      BY <3>2
    <3> QED BY <3>3 DEF v
  <2>1. CASE n < 10
    <3>1. n \in Digit /\ n \in A /\ Decimal[n] = <<n>> /\ text \o <<n>> = Append(text, n)
      <4>1. n \in Digit /\ n \in A
        BY <2>1, TenthIs
      <4>2. text \o <<n>> = Append(text, n)
        BY <4>1, AppendIsConcat
      <4> QED BY <2>0, <2>1, <4>1, <4>2
    <3>2. Append(text, n) \in Seq(A)
      BY <3>1, AppendProperties
    <3>3. Number(Append(text, n)) = 10 * 0 + n /\ Parse(Append(text, n)) = Parse(text)
      BY <3>1, ParseAppend
    <3>4. 10 * 0 + n = n
      OBVIOUS
    <3> QED BY <3>1, <3>2, <3>3, <3>4, Zenon
  <2>2. CASE n >= 10
    <3> PICK q : q = n \div 10
      OBVIOUS
    <3> PICK d : d = n % 10
      OBVIOUS
    <3>1. q \in Nat /\ d \in Digit /\ d \in A /\ n = 10 * q + d
      BY TenthIs
    <3>2. Decimal[n] = Append(Decimal[q], d) /\ Read(q)
      BY <1>1, <2>0, <2>2
    <3> PICK t : t = text \o Decimal[q]
      OBVIOUS
    <3>3. t \in Seq(A) /\ Number(t) = q /\ Parse(t) = Parse(text)
      BY <3>2
    <3>4. text \o Decimal[n] = Append(t, d)
      <4> PICK e : e = Decimal[q]
        OBVIOUS
      <4>1. e \in Seq(Digit)
        BY <3>1, DecimalIs
      <4>2. e \in Seq(A)
        BY <4>1
      <4>3. <<d>> \in Seq(A)
        BY <3>1
      <4>4. Append(e, d) = e \o <<d>> /\ Append(t, d) = t \o <<d>>
        BY <3>1, <3>3, <4>2, AppendIsConcat
      <4>5. text \o (e \o <<d>>) = (text \o e) \o <<d>>
        <5> PICK u : u = <<d>>
          OBVIOUS
        <5>1. text \in Seq(A) /\ u \in Seq(A)
          BY <4>3
        <5>2. (text \o e) \o u = text \o (e \o u)
          BY ONLY <4>2, <5>1, ConcatAssociative
        <5> QED BY <5>2
      <4> QED BY <3>2, <4>4, <4>5
    <3>5. /\ Append(t, d) \in Seq(A) /\ Number(Append(t, d)) = 10 * q + d
          /\ Parse(Append(t, d)) = Parse(t)
      BY <3>1, <3>3, AppendProperties, ParseAppend
    <3> QED BY <3>1, <3>3, <3>4, <3>5
  <2> QED BY <2>1, <2>2
<1> HIDE DEF Read
<1>2. 0 \in All
  BY <1>1
<1>3. ASSUME NEW i \in Nat, i \in All PROVE i + 1 \in All
  <2> SUFFICES ASSUME NEW n \in 0..(i + 1) PROVE Read(n)
    OBVIOUS
  <2>1. n >= 10 => n \div 10 \in 0..i
    <3>1. n >= 10 => n \div 10 \in 0..(n - 1)
      BY TenthIs
    <3> QED BY <3>1
  <2> QED BY <1>1, <1>3, <2>1
<1> HIDE DEF All
<1>4. Nat \subseteq All
  BY <1>2, <1>3, Induction
<1>5. m \in All /\ m \in 0..m
  BY <1>4
<1>6. Read(m)
  BY <1>5 DEF All
<1> QED BY <1>6 DEF Read

------------------------------------------------------------------------------
(* encodeRLE of a text                                                       *)

RunAt(s, f, i) == IF i > 1 /\ s[i] = s[i - 1] THEN f[i - 1] + 1 ELSE 1

LEMMA RunsOfIs ==
  ASSUME NEW A, NEW s \in Seq(A)
  PROVE  \A i \in 1..Len(s) : RunsOf(s)[i] \in 1..i /\ RunsOf(s)[i] = RunAt(s, RunsOf(s), i)
<1> DEFINE n == Len(s)
           P(f) == f = [i \in 0..n |-> IF i = 0 THEN 0 ELSE RunAt(s, f, i)]
           all == CHOOSE f : P(f)
           step == [x \in Nat \X Nat |->
                      IF x[1] + 1 > 1 /\ s[x[1] + 1] = s[x[1]] THEN x[2] + 1 ELSE 1]
<1>0. n \in Nat
  BY LenProperties
<1>1. RunsOf(s) = all
  BY DEF RunsOf, RunAt
<1>2. step \in [Nat \X Nat -> Nat]
  OBVIOUS
<1>3. \A j, x \in Nat :
        step[<<j, x>>] = IF j + 1 > 1 /\ s[j + 1] = s[j] THEN x + 1 ELSE 1
  OBVIOUS
<1> HIDE DEF step, n
<1> PICK g \in [Nat -> Nat] : Recurses(g, 0, step)
  BY <1>2, Recursion
<1> PICK w : w = [i \in 0..n |-> g[i]]
  OBVIOUS
<1>4. P(w)
  <2> SUFFICES ASSUME NEW i \in 0..n PROVE w[i] = IF i = 0 THEN 0 ELSE RunAt(s, w, i)
    BY Zenon
  <2>1. CASE i = 0
    BY <1>0, <2>1 DEF Recurses
  <2>2. CASE i # 0
    <3> PICK j \in Nat : i = j + 1
      <4>1. i - 1 \in Nat /\ i = (i - 1) + 1
        BY <1>0, <2>2
      <4> QED BY <4>1
    <3>1. g[j + 1] = step[<<j, g[j]>>]
      BY DEF Recurses
    <3>2. w[i] = g[i] /\ w[i - 1] = g[j] /\ i - 1 = j
      BY <1>0
    <3>3. w[i] = IF j + 1 > 1 /\ s[j + 1] = s[j] THEN g[j] + 1 ELSE 1
      BY <1>3, <3>1, <3>2
    <3>4. RunAt(s, w, i) = IF i > 1 /\ s[i] = s[j] THEN g[j] + 1 ELSE 1
      BY <3>2 DEF RunAt
    <3> QED BY <2>2, <3>3, <3>4
  <2> QED BY <2>1, <2>2
<1> HIDE DEF P
<1>5. P(all)
  BY <1>4
<1> HIDE DEF all
<1>6. \A i \in 0..n : all[i] = IF i = 0 THEN 0 ELSE RunAt(s, all, i)
  <2> DEFINE v(i) == IF i = 0 THEN 0 ELSE RunAt(s, all, i)
  <2>1. all = [i \in 0..n |-> v(i)]
    BY <1>5 DEF P
  <2> HIDE DEF v
  <2>2. \A i \in 0..n : all[i] = v(i)
    BY <2>1
  <2> QED BY <2>2 DEF v
<1>7. \A i \in 1..n : all[i] = RunAt(s, all, i)
  <2>1. \A i \in 1..n : i \in 0..n /\ i # 0
    BY <1>0
  <2> QED BY <1>6, <2>1
<1> DEFINE Good == {i \in Nat : i + 1 <= n => all[i + 1] \in 1..(i + 1)}
<1>8. 0 \in Good
  <2> SUFFICES ASSUME 1 <= n PROVE all[1] = 1
    OBVIOUS
  <2>1. 1 \in 1..n
    BY <1>0
  <2> QED BY <1>7, <2>1 DEF RunAt
<1>9. ASSUME NEW i \in Nat, i \in Good PROVE i + 1 \in Good
  <2> SUFFICES ASSUME i + 2 <= n PROVE all[i + 2] \in 1..(i + 2)
    OBVIOUS
  <2> PICK j \in Nat : j = i + 2
    OBVIOUS
  <2>1. j \in 1..n /\ j - 1 = i + 1 /\ all[i + 1] \in 1..(i + 1)
    BY <1>0, <1>9
  <2>2. all[j] = all[i + 1] + 1 \/ all[j] = 1
    BY <1>7, <2>1 DEF RunAt
  <2>3. all[j] \in 1..j
    <3> PICK a : a = all[j]
      OBVIOUS
    <3> PICK b : b = all[i + 1]
      OBVIOUS
    <3>1. b \in 1..(i + 1) /\ (a = b + 1 \/ a = 1)
      BY <2>1, <2>2
    <3>2. i \in Nat /\ j = i + 2
      OBVIOUS
    <3>3. a \in 1..j
      <4>1. b \in Int /\ 1 <= b /\ b <= i + 1
        BY ONLY <3>1, <3>2
      <4>2. CASE a = 1
        BY ONLY <3>2, <4>2
      <4>3. CASE a = b + 1
        BY ONLY <3>2, <4>1, <4>3
      <4> QED BY <3>1, <4>2, <4>3
    <3> QED BY <3>3
  <2> QED BY <2>3
<1> HIDE DEF Good
<1>10. Nat \subseteq Good
  BY <1>8, <1>9, Induction
<1>11. ASSUME NEW i \in 1..n PROVE all[i] \in 1..i
  <2> PICK j \in Nat : i = j + 1
    <3>1. i - 1 \in Nat /\ i = (i - 1) + 1
      BY <1>0
    <3> QED BY <3>1
  <2>1. j \in Good /\ j + 1 <= n
    BY <1>0, <1>10
  <2> QED BY <2>1 DEF Good
<1> QED BY <1>1, <1>7, <1>11 DEF n

\* The text grows by an entry at the end of each run.
TextAt(s, f, i) ==
  IF i < Len(s) /\ s[i + 1] = s[i] THEN f[i - 1] ELSE f[i - 1] \o Entry(RunsOf(s)[i], s[i])

TextFollows(s, f) == f[0] = << >> /\ \A i \in 1..Len(s) : f[i] = TextAt(s, f, i)

LEMMA EncodeIs ==
  ASSUME NEW A, NEW s \in Seq(A), s # << >>
  PROVE  \E f : TextFollows(s, f) /\ EncodeRLE(s) = f[Len(s)]
<1> DEFINE n == Len(s)
           P(f) == f = [i \in 0..n |-> IF i = 0 THEN << >> ELSE TextAt(s, f, i)]
           all == CHOOSE f : P(f)
           T == Seq(A \cup Digit)
           run == RunsOf(s)
           more(j) == j < n /\ (j + 1 < n => s[j + 2] # s[j + 1])
           step == [x \in Nat \X T |->
                      IF more(x[1]) THEN x[2] \o Entry(run[x[1] + 1], s[x[1] + 1]) ELSE x[2]]
           none == << >>
<1>0. n \in Nat
  BY LenProperties
<1>1. EncodeRLE(s) = all[n]
  BY DEF EncodeRLE, TextAt
<1>2. step \in [Nat \X T -> T]
  <2> SUFFICES ASSUME NEW x \in Nat \X T, x[1] < n
               PROVE  x[2] \o Entry(run[x[1] + 1], s[x[1] + 1]) \in T
    OBVIOUS
  <2> PICK m : m = run[x[1] + 1]
    OBVIOUS
  <2> PICK c : c = s[x[1] + 1]
    OBVIOUS
  <2>1. x[1] + 1 \in 1..n
    BY <1>0
  <2>2. m \in Nat /\ c \in A
    <3> PICK i \in 1..n : i = x[1] + 1
      BY <2>1
    <3>1. run[i] \in 1..i
      BY RunsOfIs
    <3>2. s[i] \in A
      BY ElementOfSeq
    <3> QED BY <1>0, <3>1, <3>2
  <2> PICK d : d = Decimal[m]
    OBVIOUS
  <2>3. d \in Seq(Digit)
    BY <2>2, DecimalIs
  <2>4. d \in Seq(A \cup Digit)
    BY <2>3
  <2>5. Append(d, c) \in Seq(A \cup Digit)
    BY <2>2, <2>4, AppendProperties
  <2> QED BY <2>5, ConcatProperties DEF Entry
<1>3. \A j \in Nat, x \in T :
        step[<<j, x>>] = IF more(j) THEN x \o Entry(run[j + 1], s[j + 1]) ELSE x
  OBVIOUS
<1>4. none \in T
  OBVIOUS
<1> HIDE DEF step, T
<1> PICK g \in [Nat -> T] : Recurses(g, none, step)
  BY <1>2, <1>4, Recursion
<1> PICK w : w = [i \in 0..n |-> g[i]]
  OBVIOUS
<1>5. P(w)
  <2> SUFFICES ASSUME NEW i \in 0..n PROVE w[i] = IF i = 0 THEN << >> ELSE TextAt(s, w, i)
    BY Zenon
  <2>1. CASE i = 0
    BY <1>0, <2>1 DEF Recurses
  <2>2. CASE i # 0
    <3> PICK j \in Nat : i = j + 1
      <4>1. i - 1 \in Nat /\ i = (i - 1) + 1
        BY <1>0, <2>2
      <4> QED BY <4>1
    <3>1. g[j + 1] = step[<<j, g[j]>>]
      BY DEF Recurses
    <3>2. w[i] = g[i] /\ w[i - 1] = g[j] /\ i - 1 = j /\ g[j] \in T
      BY <1>0
    <3>3. more(j) <=> ~(i < n /\ s[i + 1] = s[i])
      <4>1. j < n /\ j + 2 = i + 1
        BY <1>0
      <4> QED BY <1>0, <4>1
    <3> HIDE DEF more, run
    <3> QED BY <1>3, <2>2, <3>1, <3>2, <3>3, Zenon DEF TextAt, run
  <2> QED BY <2>1, <2>2
<1> HIDE DEF P
<1>6. P(all)
  BY <1>5
<1> HIDE DEF all
<1>7. \A i \in 0..n : all[i] = IF i = 0 THEN << >> ELSE TextAt(s, all, i)
  <2> DEFINE v(i) == IF i = 0 THEN << >> ELSE TextAt(s, all, i)
  <2>1. all = [i \in 0..n |-> v(i)]
    BY <1>6 DEF P
  <2> HIDE DEF v
  <2>2. \A i \in 0..n : all[i] = v(i)
    BY <2>1
  <2> QED BY <2>2 DEF v
<1>8. 0 \in 0..n /\ \A i \in 1..n : i \in 0..n /\ i # 0
  BY <1>0
<1>9. TextFollows(s, all)
  BY <1>7, <1>8 DEF TextFollows
<1> QED BY <1>1, <1>9

------------------------------------------------------------------------------
(* What records stand for                                                    *)

LEMMA FlattenConcat ==
  ASSUME NEW S, NEW a \in Seq(Seq(S)), NEW b \in Seq(Seq(S))
  PROVE  FlattenSeq(a \o b) = FlattenSeq(a) \o FlattenSeq(b)
<1> DEFINE part(i) == SubSeq(b, 1, i)
           Good == {i \in Nat : i <= Len(b) =>
                      /\ part(i) \in Seq(Seq(S)) /\ a \o part(i) \in Seq(Seq(S))
                      /\ FlattenSeq(a \o part(i)) = FlattenSeq(a) \o FlattenSeq(part(i))}
<1>0. Len(b) \in Nat /\ FlattenSeq(a) \in Seq(S)
  BY LenProperties, FlattenType
<1>1. 0 \in Good
  <2>1. part(0) = << >> /\ a \o << >> = a
    BY SubSeqEmpty, ConcatEmptySeq
  <2>2. << >> \in Seq(Seq(S)) /\ FlattenSeq(a) \o << >> = FlattenSeq(a)
    BY <1>0, ConcatEmptySeq
  <2> HIDE DEF part
  <2> QED BY <2>1, <2>2, FlattenEmpty
<1>2. ASSUME NEW i \in Nat, i \in Good PROVE i + 1 \in Good
  <2> SUFFICES ASSUME i + 1 <= Len(b)
               PROVE  /\ part(i + 1) \in Seq(Seq(S)) /\ a \o part(i + 1) \in Seq(Seq(S))
                      /\ FlattenSeq(a \o part(i + 1)) = FlattenSeq(a) \o FlattenSeq(part(i + 1))
    OBVIOUS
  <2> PICK l \in Nat : l = i + 1
    OBVIOUS
  <2> PICK p : p = part(i)
    OBVIOUS
  <2> PICK x : x = b[l]
    OBVIOUS
  <2>1. l \in 1..Len(b) /\ 1 \in 1..l /\ l - 1 = i
    BY <1>0
  <2>2. x \in Seq(S)
    BY <2>1, ElementOfSeq
  <2>3. part(l) = part(l - 1) \o <<x>>
    BY <2>1, SubSeqRecursiveSecond
  <2>4. /\ p \in Seq(Seq(S)) /\ a \o p \in Seq(Seq(S))
        /\ FlattenSeq(a \o p) = FlattenSeq(a) \o FlattenSeq(p)
    BY <1>2, <2>1
  <2> HIDE DEF part
  <2>5. part(l) = Append(p, x)
    <3>1. Append(p, x) = p \o <<x>>
      BY <2>2, <2>4, AppendIsConcat
    <3>2. part(l) = p \o <<x>>
      BY <2>1, <2>3
    <3> QED BY <3>1, <3>2
  <2>6. a \o Append(p, x) = Append(a \o p, x)
    <3>1. <<x>> \in Seq(Seq(S))
      BY <2>2
    <3>2. Append(p, x) = p \o <<x>> /\ Append(a \o p, x) = (a \o p) \o <<x>>
      BY <2>2, <2>4, AppendIsConcat
    <3> PICK u : u = <<x>>
      OBVIOUS
    <3>3. (a \o p) \o u = a \o (p \o u)
      <4> PICK T : T = Seq(S)
        OBVIOUS
      <4>1. a \in Seq(T) /\ p \in Seq(T) /\ u \in Seq(T)
        BY <2>4, <3>1
      <4> QED BY ONLY <4>1, ConcatAssociative
    <3> QED BY <3>2, <3>3
  <2>7. /\ Append(p, x) \in Seq(Seq(S)) /\ Append(a \o p, x) \in Seq(Seq(S))
        /\ FlattenSeq(Append(p, x)) = FlattenSeq(p) \o x
        /\ FlattenSeq(Append(a \o p, x)) = FlattenSeq(a \o p) \o x
    BY <2>2, <2>4, AppendProperties, FlattenAppend
  <2>8. FlattenSeq(a) \o (FlattenSeq(p) \o x) = (FlattenSeq(a) \o FlattenSeq(p)) \o x
    <3>1. FlattenSeq(a) \in Seq(S) /\ FlattenSeq(p) \in Seq(S) /\ x \in Seq(S)
      BY <1>0, <2>2, <2>4, FlattenType
    <3> QED BY ONLY <3>1, ConcatAssociative
  <2>9. part(i + 1) = Append(p, x)
    BY <2>5
  <2> QED BY <2>4, <2>6, <2>7, <2>8, <2>9
<1> HIDE DEF Good
<1>3. Nat \subseteq Good
  BY <1>1, <1>2, Induction
<1>4. Len(b) \in Good /\ part(Len(b)) = b
  BY <1>0, <1>3, SubSeqFull
<1> HIDE DEF part
<1> QED BY <1>0, <1>4 DEF Good

LEMMA FlattenPrefix ==
  ASSUME NEW S, NEW s \in Seq(Seq(S)), NEW j \in 1..Len(s)
  PROVE  FlattenSeq(SubSeq(s, 1, j)) = FlattenSeq(SubSeq(s, 1, j - 1)) \o s[j]
<1> PICK T : T = Seq(S)
  OBVIOUS
<1> PICK p : p = SubSeq(s, 1, j - 1)
  OBVIOUS
<1> PICK c : c = s[j]
  OBVIOUS
<1>1. s \in Seq(T) /\ Len(s) \in Nat /\ 1 \in 1..j /\ c \in T
  BY LenProperties, ElementOfSeq
<1>2. p \in Seq(T)
  <2>1. j - 1 \in Int /\ 1 \in Int /\ \A i \in 1..(j - 1) : s[i] \in T
    BY <1>1, ElementOfSeq
  <2> QED BY <2>1, SubSeqProperties
<1>3. SubSeq(s, 1, j) = p \o <<c>>
  <2>1. SubSeq(s, 1, j) = SubSeq(s, 1, j - 1) \o <<s[j]>>
    BY ONLY j \in 1..Len(s), <1>1, SubSeqRecursiveSecond
  <2> QED BY <2>1
<1>4. Append(p, c) = p \o <<c>>
  BY <1>1, <1>2, AppendIsConcat
<1>5. FlattenSeq(Append(p, c)) = FlattenSeq(p) \o c
  BY <1>1, <1>2, FlattenAppend
<1> QED BY <1>3, <1>4, <1>5

\* A record of one of the program's runs, or of an empty chunk.
Records ==
  {r \in [bytes : Seq(Int), char : Letter \cup {Nul}] : Count(r) \in Nat}

Spelled(r) == IF r.char = Nul THEN << >> ELSE Run(r)

Spelling(recs) == [j \in 1..Len(recs) |-> Spelled(recs[j])]

LEMMA SpellingIs ==
  ASSUME NEW recs \in Seq(Records)
  PROVE  /\ Spelling(recs) \in Seq(Seq(Letter)) /\ Len(Spelling(recs)) = Len(recs)
         /\ Meaning(recs) = FlattenSeq(Spelling(recs))
         /\ Meaning(recs) \in Seq(Letter)
<1>1. ASSUME NEW j \in 1..Len(recs) PROVE Spelled(recs[j]) \in Seq(Letter)
  <2> PICK r \in Records : r = recs[j]
    BY ElementOfSeq
  <2>1. r.char \in Letter \cup {Nul} /\ Count(r) \in Nat
    BY DEF Records
  <2>2. CASE r.char = Nul
    <3>1. << >> \in Seq(Letter)
      OBVIOUS
    <3> QED BY <2>2, <3>1 DEF Spelled
  <2>3. CASE r.char \in Letter
    <3>1. Rep(Count(r), r.char) \in Seq(Letter)
      BY <2>1, <2>3, RepIs
    <3>2. r.char # Nul
      BY <2>3, ThreadsAssumption DEF Char
    <3> QED BY <3>1, <3>2 DEF Spelled, Run, Rep
  <2> QED BY <2>1, <2>2, <2>3
<1>2. Len(recs) \in Nat
  BY LenProperties
<1>3. Spelling(recs) \in Seq(Seq(Letter)) /\ Len(Spelling(recs)) = Len(recs)
  BY <1>1, <1>2 DEF Spelling
<1>4. Meaning(recs) = FlattenSeq(Spelling(recs))
  BY DEF Meaning, Spelling, Spelled
<1> QED BY <1>3, <1>4, FlattenType

LEMMA MeaningEmpty == Meaning(<< >>) = << >>
<1>1. << >> \in Seq(Records) /\ Len(<< >>) = 0
  OBVIOUS
<1>2. Spelling(<< >>) = << >>
  BY <1>1 DEF Spelling
<1> QED BY <1>1, <1>2, SpellingIs, FlattenEmpty

LEMMA MeaningConcat ==
  ASSUME NEW a \in Seq(Records), NEW b \in Seq(Records)
  PROVE  a \o b \in Seq(Records) /\ Meaning(a \o b) = Meaning(a) \o Meaning(b)
<1> PICK c : c = a \o b
  OBVIOUS
<1>1. /\ c \in Seq(Records) /\ Len(c) = Len(a) + Len(b) /\ Len(a) \in Nat /\ Len(b) \in Nat
      /\ \A i \in 1..(Len(a) + Len(b)) : c[i] = IF i <= Len(a) THEN a[i] ELSE b[i - Len(a)]
  BY ConcatProperties, LenProperties
<1> PICK x : x = Spelling(a)
  OBVIOUS
<1> PICK y : y = Spelling(b)
  OBVIOUS
<1> PICK z : z = Spelling(c)
  OBVIOUS
<1>2. /\ x \in Seq(Seq(Letter)) /\ Len(x) = Len(a) /\ Meaning(a) = FlattenSeq(x)
      /\ y \in Seq(Seq(Letter)) /\ Len(y) = Len(b) /\ Meaning(b) = FlattenSeq(y)
      /\ z \in Seq(Seq(Letter)) /\ Len(z) = Len(c) /\ Meaning(c) = FlattenSeq(z)
  BY <1>1, SpellingIs
<1>3. /\ \A i \in 1..Len(a) : x[i] = Spelled(a[i])
      /\ \A i \in 1..Len(b) : y[i] = Spelled(b[i])
      /\ \A i \in 1..Len(c) : z[i] = Spelled(c[i])
  BY DEF Spelling
<1>4. z = x \o y
  <2>1. /\ x \o y \in Seq(Seq(Letter)) /\ Len(x \o y) = Len(a) + Len(b)
        /\ \A i \in 1..(Len(a) + Len(b)) : (x \o y)[i] = IF i <= Len(a) THEN x[i] ELSE y[i - Len(a)]
    <3> PICK T : T = Seq(Letter)
      OBVIOUS
    <3>1. x \in Seq(T) /\ y \in Seq(T)
      BY <1>2
    <3>2. /\ x \o y \in Seq(T) /\ Len(x \o y) = Len(x) + Len(y)
          /\ \A i \in 1..(Len(x) + Len(y)) : (x \o y)[i] = IF i <= Len(x) THEN x[i] ELSE y[i - Len(x)]
      BY ONLY <3>1, ConcatProperties
    <3> QED BY <1>2, <3>2
  <2>2. ASSUME NEW i \in 1..(Len(a) + Len(b)) PROVE z[i] = (x \o y)[i]
    <3>1. CASE i <= Len(a)
      <4>1. i \in 1..Len(a) /\ i \in 1..Len(c)
        BY <1>1, <3>1
      <4>2. c[i] = a[i] /\ (x \o y)[i] = x[i]
        BY <1>1, <2>1, <3>1
      <4> QED BY <1>3, <4>1, <4>2
    <3>2. CASE i > Len(a)
      <4> PICK j : j = i - Len(a)
        OBVIOUS
      <4>1. j \in 1..Len(b) /\ i \in 1..Len(c) /\ ~(i <= Len(a))
        BY <1>1, <3>2
      <4>2. c[i] = b[j] /\ (x \o y)[i] = y[j]
        BY <1>1, <2>1, <4>1
      <4> QED BY <1>3, <4>1, <4>2
    <3>3. i <= Len(a) \/ i > Len(a)
      BY <1>1
    <3> QED BY <3>1, <3>2, <3>3, Zenon
  <2> PICK xy : xy = x \o y
    OBVIOUS
  <2>3. Len(z) = Len(xy) /\ \A i \in 1..Len(z) : z[i] = xy[i]
    BY <1>1, <1>2, <2>1, <2>2
  <2> QED BY <1>2, <2>1, <2>3, SeqEqual
<1>5. FlattenSeq(x \o y) = FlattenSeq(x) \o FlattenSeq(y)
  BY <1>2, FlattenConcat
<1> QED BY <1>1, <1>2, <1>4, <1>5

\* A record of a run is one more run at the end.
LEMMA MeaningRun ==
  ASSUME NEW recs \in Seq(Records), NEW m \in Nat, m <= IntMax, NEW c \in Letter
  PROVE  /\ Record(m, c) \in Records
         /\ Meaning(Append(recs, Record(m, c))) = Meaning(recs) \o Rep(m, c)
<1> PICK r : r = Record(m, c)
  OBVIOUS
<1>1. Count(r) = m /\ r.char = c
  BY BytesRoundTrip DEF Record
<1>2. r \in Records
  <2>1. Bytes(m) \in Seq(Int)
    BY SMT DEF Bytes
  <2> QED BY <1>1, <2>1 DEF Record, Records
<1>3. c # Nul
  BY ThreadsAssumption DEF Char
<1>4. Meaning(<<r>>) = Rep(m, c)
  <2>1. <<r>> \in Seq(Records) /\ Len(<<r>>) = 1 /\ <<r>>[1] = r
    BY <1>2
  <2>2. Spelling(<<r>>) = <<Rep(m, c)>>
    <3>1. Spelled(r) = Rep(m, c)
      BY <1>1, <1>3 DEF Spelled, Run, Rep
    <3> QED BY <2>1, <3>1 DEF Spelling
  <2>3. Rep(m, c) \in Seq(Letter)
    BY RepIs
  <2> PICK t \in Seq(Letter) : t = Rep(m, c)
    BY <2>3
  <2>4. FlattenSeq(Append(<< >>, t)) = << >> \o t /\ Append(<< >>, t) = <<t>> /\ << >> \o t = t
    <3>1. << >> \in Seq(Seq(Letter))
      OBVIOUS
    <3>2. FlattenSeq(Append(<< >>, t)) = FlattenSeq(<< >>) \o t
      BY <3>1, FlattenAppend
    <3>3. Append(<< >>, t) = <<t>>
      OBVIOUS
    <3>4. << >> \o t = t
      BY ConcatEmptySeq
    <3> QED BY <3>2, <3>3, <3>4, FlattenEmpty
  <2> QED BY <2>1, <2>2, <2>4, SpellingIs
<1>5. Append(recs, r) = recs \o <<r>> /\ <<r>> \in Seq(Records)
  BY <1>2, AppendIsConcat
<1> QED BY <1>2, <1>4, <1>5, MeaningConcat

------------------------------------------------------------------------------
(* A text and its records                                                    *)

LEMMA EntryIs ==
  ASSUME NEW t \in Seq(Char), Number(t) = 0, NEW m \in Nat, NEW c \in Letter
  PROVE  LET more == t \o Entry(m, c)
         IN  /\ more \in Seq(Char) /\ Number(more) = 0 /\ Last(more) = c
             /\ Parse(more) = Append(Parse(t), Record(m, c))
<1> PICK d : d = Decimal[m]
  OBVIOUS
<1> PICK e : e = t \o d
  OBVIOUS
<1>1. c \in Char /\ c \notin Digit /\ Digit \subseteq Char
  BY ThreadsAssumption DEF Char
<1>2. d \in Seq(Char)
  <2>1. d \in Seq(Digit)
    BY DecimalIs
  <2> QED BY <1>1, <2>1
<1>3. e \in Seq(Char) /\ Number(e) = m /\ Parse(e) = Parse(t)
  BY <1>1, ParseDecimal
<1>4. t \o Append(d, c) = Append(e, c)
  <2> PICK u : u = <<c>>
    OBVIOUS
  <2>1. t \in Seq(Char) /\ d \in Seq(Char) /\ u \in Seq(Char)
    BY <1>1, <1>2
  <2>2. (t \o d) \o u = t \o (d \o u)
    BY ONLY <2>1, ConcatAssociative
  <2>3. Append(d, c) = d \o u /\ Append(e, c) = e \o u
    BY <1>1, <1>2, <1>3, AppendIsConcat
  <2> QED BY <2>2, <2>3
<1>5. /\ Append(e, c) \in Seq(Char) /\ Number(Append(e, c)) = 0
      /\ Parse(Append(e, c)) = Append(Parse(e), Record(m, c))
  <2>1. Append(e, c) \in Seq(Char)
    BY <1>1, <1>3, AppendProperties
  <2>2. /\ Number(Append(e, c)) = IF c \in Digit THEN 10 * Number(e) + c ELSE 0
        /\ Parse(Append(e, c)) = IF c \in Digit THEN Parse(e)
                                 ELSE Append(Parse(e), Record(Number(e), c))
    BY <1>1, <1>3, ParseAppend
  <2> QED BY <1>1, <1>3, <2>1, <2>2, Zenon
<1>6. Last(Append(e, c)) = c
  BY <1>1, <1>3, AppendProperties DEF Last
<1> QED BY <1>3, <1>4, <1>5, <1>6 DEF Entry

\* The text t is read as the runs of s before the one that goes on at s[j].
Reads(s, t, j) ==
  /\ t \in Seq(Char) /\ Number(t) = 0
  /\ Parse(t) \in Seq(Records)
  /\ Maximal(Parse(t))
  /\ Parse(t) # << >> => Last(Parse(t)).char # s[j]
  /\ Meaning(Parse(t)) \o Rep(RunsOf(s)[j], s[j]) = SubSeq(s, 1, j)

\* With the entry of that run behind it, it is read as s up to there.
LEMMA EntryReads ==
  ASSUME NEW s \in Seq(Letter), Len(s) <= IntMax, NEW j \in 1..Len(s), NEW t, Reads(s, t, j)
  PROVE  LET more == t \o Entry(RunsOf(s)[j], s[j])
         IN  /\ more \in Seq(Char) /\ Number(more) = 0 /\ Last(more) = s[j]
             /\ Parse(more) \in Seq(Records) /\ Maximal(Parse(more))
             /\ Parse(more) # << >> /\ Last(Parse(more)).char = s[j]
             /\ Meaning(Parse(more)) = SubSeq(s, 1, j)
<1> PICK m : m = RunsOf(s)[j]
  OBVIOUS
<1> PICK c : c = s[j]
  OBVIOUS
<1> PICK p : p = Parse(t)
  OBVIOUS
<1> PICK r : r = Record(m, c)
  OBVIOUS
<1> PICK q : q = Append(p, r)
  OBVIOUS
<1>1. m \in Nat /\ m <= IntMax /\ c \in Letter
  <2>1. m \in 1..j /\ c \in Letter /\ Len(s) \in Nat
    BY RunsOfIs, ElementOfSeq, LenProperties
  <2>2. m \in Nat /\ m <= IntMax
    BY <2>1, IntMaxType
  <2> QED BY <2>1, <2>2
<1>2. /\ t \in Seq(Char) /\ Number(t) = 0 /\ p \in Seq(Records) /\ Maximal(p)
      /\ p # << >> => Last(p).char # c
      /\ Meaning(p) \o Rep(m, c) = SubSeq(s, 1, j)
  BY DEF Reads
<1>3. /\ r \in Records /\ r.char = c /\ Meaning(q) = SubSeq(s, 1, j)
  BY <1>1, <1>2, MeaningRun DEF Record
<1>4. /\ q \in Seq(Records) /\ Len(q) = Len(p) + 1 /\ q[Len(p) + 1] = r /\ Len(p) \in Nat
      /\ \A i \in 1..Len(p) : q[i] = p[i]
  BY <1>2, <1>3, AppendProperties, LenProperties
<1>5. Maximal(q)
  <2> SUFFICES ASSUME NEW i \in 1..Len(p) PROVE q[i].char # q[i + 1].char
    BY <1>4 DEF Maximal
  <2>1. CASE i = Len(p)
    <3>1. p # << >> /\ Last(p) = q[i]
      <4>1. Len(p) # 0 /\ Len(<< >>) = 0
        BY <1>4
      <4>2. p # << >>
        BY <4>1, Zenon
      <4> QED BY <1>4, <2>1, <4>2 DEF Last
    <3> QED BY <1>2, <1>3, <1>4, <2>1, <3>1
  <2>2. CASE i # Len(p)
    <3>1. i \in 1..(Len(p) - 1) /\ i + 1 \in 1..Len(p)
      BY <1>4, <2>2
    <3>2. p[i].char # p[i + 1].char
      BY <1>2, <3>1 DEF Maximal
    <3>3. q[i] = p[i] /\ q[i + 1] = p[i + 1]
      BY <1>4, <3>1
    <3> QED BY <3>2, <3>3, Zenon
  <2> QED BY <2>1, <2>2
<1>6. q # << >> /\ Last(q).char = c
  <2>1. Len(q) # 0 /\ Len(<< >>) = 0
    BY <1>4
  <2>2. q # << >>
    BY <2>1, Zenon
  <2> QED BY <1>3, <1>4, <2>2 DEF Last
<1> PICK more : more = t \o Entry(m, c)
  OBVIOUS
<1>7. more \in Seq(Char) /\ Number(more) = 0 /\ Last(more) = c /\ Parse(more) = q
  BY <1>1, <1>2, EntryIs
<1> QED BY <1>3, <1>4, <1>5, <1>6, <1>7

\* Encoding a text of letters and reading it back gives records of the runs of it.
LEMMA EncodingIs ==
  ASSUME NEW s \in Seq(Letter), s # << >>, Len(s) <= IntMax
  PROVE  LET recs == WriteOutput(EncodeRLE(s))
         IN  recs \in Seq(Records) /\ Meaning(recs) = s /\ Maximal(recs)
<1> PICK n \in Nat : n = Len(s)
  BY LenProperties
<1> PICK x : TextFollows(s, x) /\ EncodeRLE(s) = x[n]
  BY EncodeIs
<1> DEFINE run == RunsOf(s)
           Good == {i \in Nat : i + 1 <= n => Reads(s, x[i], i + 1)}
<1>0. n \in 1..n
  <2>1. s = << >> <=> Len(s) = 0
    BY EmptySeq
  <2> QED BY <2>1
<1>1. x[0] = << >> /\ \A i \in 1..n : x[i] = TextAt(s, x, i)
  BY DEF TextFollows
<1>2. \A i \in 1..n : run[i] \in 1..i /\ run[i] = RunAt(s, run, i) /\ s[i] \in Letter
  BY RunsOfIs, ElementOfSeq
<1>3. \A i \in 1..n : SubSeq(s, 1, i) = SubSeq(s, 1, i - 1) \o <<s[i]>>
  <2> TAKE i \in 1..n
  <2>1. i \in 1..Len(s) /\ 1 \in 1..i
    OBVIOUS
  <2> QED BY <2>1, SubSeqRecursiveSecond
<1> HIDE DEF run
<1>4. 0 \in Good
  <2>1. /\ << >> \in Seq(Char) /\ << >> \in Seq(Records) /\ Maximal(<< >>)
    BY DEF Maximal
  <2>2. 1 \in 1..n
    BY <1>0
  <2>3. run[1] = 1
    BY <1>2, <2>2 DEF RunAt
  <2>4. << >> \o Rep(1, s[1]) = SubSeq(s, 1, 1)
    <3>1. Rep(1, s[1]) = <<s[1]>> /\ <<s[1]>> \in Seq(Letter)
      <4>1. s[1] \in Letter /\ 1 \in Nat
        BY <1>2, <2>2
      <4>2. Rep(1, s[1]) = <<s[1]>> /\ Rep(1, s[1]) \in Seq(Letter)
        BY <4>1, RepIs
      <4> QED BY <4>2, Zenon
    <3>2. SubSeq(s, 1, 1) = SubSeq(s, 1, 0) \o <<s[1]>> /\ SubSeq(s, 1, 0) = << >>
      <4>1. 1 - 1 = 0
        OBVIOUS
      <4> QED BY <1>3, <2>2, <4>1, SubSeqEmpty
    <3> QED BY <3>1, <3>2
  <2>5. Reads(s, << >>, 1)
    BY <2>1, <2>3, <2>4, ParseEmpty, MeaningEmpty DEF Reads, run
  <2> QED BY <1>1, <2>5
<1>5. ASSUME NEW i \in Nat, i \in Good PROVE i + 1 \in Good
  <2> SUFFICES ASSUME i + 2 <= n PROVE Reads(s, x[i + 1], i + 2)
    OBVIOUS
  <2> PICK j \in Nat : j = i + 1
    OBVIOUS
  <2> PICK h \in Nat : h = j + 1
    OBVIOUS
  <2>0. j \in 1..n /\ h \in 1..n /\ j - 1 = i /\ h - 1 = j /\ h > 1 /\ j < n /\ h = i + 2 /\ 1 \in Nat
    OBVIOUS
  <2> PICK t : t = x[i]
    OBVIOUS
  <2>1. Reads(s, t, j)
    BY <1>5, <2>0
  <2> PICK c : c = s[j]
    OBVIOUS
  <2> PICK b : b = s[h]
    OBVIOUS
  <2> PICK m : m = run[j]
    OBVIOUS
  <2>2. c \in Letter /\ b \in Letter /\ m \in Nat /\ SubSeq(s, 1, h) = SubSeq(s, 1, j) \o <<b>>
    BY <1>2, <1>3, <2>0
  <2>3. /\ x[j] = IF b = c THEN t ELSE t \o Entry(m, c)
        /\ run[h] = IF b = c THEN m + 1 ELSE 1
    <3>1. x[j] = IF b = c THEN t ELSE t \o Entry(m, c)
      BY <1>1, <2>0 DEF TextAt, run
    <3>2. run[h] = IF b = c THEN m + 1 ELSE 1
      BY <1>2, <2>0 DEF RunAt
    <3> QED BY <3>1, <3>2
  <2>4. CASE b = c
    <3> PICK u : u = <<b>>
      OBVIOUS
    <3> PICK p : p = Meaning(Parse(t))
      OBVIOUS
    <3> PICK r : r = Rep(m, c)
      OBVIOUS
    <3>1. p \in Seq(Letter) /\ r \in Seq(Letter) /\ u \in Seq(Letter) /\ Rep(m + 1, c) = r \o u
      <4>1. p \in Seq(Letter)
        BY <2>1, SpellingIs DEF Reads
      <4>2. r \in Seq(Letter) /\ Rep(m + 1, c) = r \o <<c>>
        BY <2>2, RepIs
      <4>3. u \in Seq(Letter)
        BY <2>2
      <4> QED BY <2>4, <4>1, <4>2, <4>3
    <3>2. (p \o r) \o u = p \o (r \o u)
      <4>1. p \in Seq(Letter) /\ r \in Seq(Letter) /\ u \in Seq(Letter)
        BY <3>1
      <4> QED BY ONLY <4>1, ConcatAssociative
    <3>3. p \o r = SubSeq(s, 1, j)
      BY <2>1 DEF Reads, run
    <3>4. p \o Rep(run[h], s[h]) = SubSeq(s, 1, h)
      BY <2>2, <2>3, <2>4, <3>1, <3>2, <3>3
    <3>5. Reads(s, t, h)
      BY <2>1, <2>4, <3>4 DEF Reads, run
    <3> QED BY <2>0, <2>3, <2>4, <3>5
  <2>5. CASE b # c
    <3> PICK e : e = t \o Entry(m, c)
      OBVIOUS
    <3>1. /\ e \in Seq(Char) /\ Number(e) = 0
          /\ Parse(e) \in Seq(Records) /\ Maximal(Parse(e))
          /\ Last(Parse(e)).char = c
          /\ Meaning(Parse(e)) = SubSeq(s, 1, j)
      BY <2>0, <2>1, EntryReads DEF run
    <3>2. Rep(1, b) = <<b>>
      BY <2>0, <2>2, RepIs
    <3>3. Meaning(Parse(e)) \o Rep(run[h], s[h]) = SubSeq(s, 1, h)
      BY <2>2, <2>3, <2>5, <3>1, <3>2
    <3>4. Reads(s, e, h)
      BY <2>5, <3>1, <3>3 DEF Reads, run
    <3> QED BY <2>0, <2>3, <2>5, <3>4
  <2> QED BY <2>4, <2>5
<1> HIDE DEF Good
<1>6. Nat \subseteq Good
  BY <1>4, <1>5, Induction
<1> PICK i \in Nat : n = i + 1
  <2>1. n - 1 \in Nat /\ n = (n - 1) + 1
    BY <1>0
  <2> QED BY <2>1
<1>7. Reads(s, x[i], n)
  <2>1. i \in Good /\ i + 1 <= n
    BY <1>6
  <2> QED BY <2>1 DEF Good
<1>8. x[n] = x[i] \o Entry(RunsOf(s)[n], s[n])
  <2>1. n - 1 = i /\ ~(n < n)
    OBVIOUS
  <2> QED BY <1>0, <1>1, <2>1 DEF TextAt
<1>9. /\ Last(x[n]) = s[n] /\ Parse(x[n]) \in Seq(Records) /\ Maximal(Parse(x[n]))
      /\ Meaning(Parse(x[n])) = SubSeq(s, 1, n)
  BY <1>0, <1>7, <1>8, EntryReads
<1>10. s[n] \notin Digit
  BY <1>0, <1>2, ThreadsAssumption
<1>11. WriteOutput(x[n]) = Parse(x[n])
  BY <1>9, <1>10 DEF WriteOutput
<1> QED BY <1>9, <1>11, SubSeqFull

LEMMA EncodingEmpty ==
  LET recs == WriteOutput(EncodeRLE(<< >>))
  IN  recs \in Seq(Records) /\ Meaning(recs) = << >> /\ Maximal(recs)
<1> DEFINE A == Digit \cup {Nul}
<1>1. 1 \in Digit /\ Nul \notin Digit /\ 1 \in A /\ Nul \in A
  BY ThreadsAssumption DEF Char, Digit
<1>2. << >> \in Seq(A) /\ <<1>> \in Seq(A) /\ Append(<< >>, 1) = <<1>>
  BY <1>1
<1> HIDE DEF A
<1>3. Number(<<1>>) = 10 * 0 + 1 /\ Parse(<<1>>) = << >>
  BY <1>1, <1>2, ParseAppend, ParseEmpty
<1> PICK r : r = Record(1, Nul)
  OBVIOUS
<1>4. Parse(Append(<<1>>, Nul)) = <<r>>
  <2>1. Parse(Append(<<1>>, Nul)) = Append(<< >>, Record(10 * 0 + 1, Nul))
    BY <1>1, <1>2, <1>3, ParseAppend
  <2>2. 10 * 0 + 1 = 1 /\ Append(<< >>, r) = <<r>>
    OBVIOUS
  <2> QED BY <2>1, <2>2
<1>5. WriteOutput(EncodeRLE(<< >>)) = <<r>>
  <2>1. Last(<<1>>) = 1
    BY DEF Last
  <2> QED BY <1>1, <1>4, <2>1 DEF WriteOutput, EncodeRLE
<1>6. r \in Records /\ r.char = Nul
  <2>1. Count(r) = 1
    <3>1. 1 \in Nat /\ 1 <= IntMax
      BY SMT DEF IntMax
    <3> QED BY <3>1, BytesRoundTrip
  <2>2. Bytes(1) \in Seq(Int)
    BY SMT DEF Bytes
  <2> QED BY <2>1, <2>2 DEF Record, Records
<1>7. <<r>> \in Seq(Records) /\ Len(<<r>>) = 1 /\ <<r>>[1] = r
  BY <1>6
<1>8. Meaning(<<r>>) = << >>
  <2>1. Spelling(<<r>>) = << << >> >>
    BY <1>6, <1>7 DEF Spelling, Spelled
  <2>2. << >> \in Seq(Letter) /\ << >> \in Seq(Seq(Letter)) /\ Append(<< >>, << >>) = << << >> >>
    OBVIOUS
  <2>3. FlattenSeq(Append(<< >>, << >>)) = << >> \o << >>
    BY <2>2, FlattenAppend, FlattenEmpty
  <2>4. << >> \o << >> = << >>
    BY <2>2, ConcatEmptySeq
  <2> QED BY <1>7, <2>1, <2>2, <2>3, <2>4, SpellingIs
<1>9. Maximal(<<r>>)
  BY <1>7 DEF Maximal
<1> QED BY <1>5, <1>7, <1>8, <1>9

\* What a thread encodes as text and main turns into records stands for the same characters,
\* and no run of them is in two records.
THEOREM TextRoundTrip ==
  ASSUME NEW s \in Seq(Letter), Len(s) <= IntMax
  PROVE  LET recs == WriteOutput(EncodeRLE(s))
         IN  recs \in Seq(Records) /\ Meaning(recs) = s /\ Maximal(recs)
BY EncodingIs, EncodingEmpty

------------------------------------------------------------------------------
(* What main writes                                                          *)

\* A thread that has returned has encoded its chunk; main takes them one after the other.
ThreadInv ==
  /\ args \in Argument /\ arg \in 0..Len(args)
  /\ at \in {"file", "create", "join", "ended", "crashed"}
  /\ thread \in [Worker -> {"none", "running", "returned"}]
  /\ encoded = [w \in Worker |-> encoded[w]]
  /\ at = "file" => \A w \in Worker : thread[w] = "none"
  /\ at \in {"create", "join"} =>
       /\ k \in 0..3 /\ arg < Len(args)
       /\ \A w \in Worker : thread[w] = "returned" => encoded[w] = EncodeRLE(chunk[w])
  /\ at = "join" => \A w \in 1..k : thread[w] = "none"

LEMMA ThreadStep == ThreadInv /\ [Next]_vars => ThreadInv'
<1> SUFFICES ASSUME ThreadInv, [Next]_vars PROVE ThreadInv'
  OBVIOUS
<1>0. \A a \in Argument : Len(a) \in Nat
  <2> TAKE a \in Argument
  <2>1. a \in Seq(Seq(Char \cup {Nul}))
    BY ThreadsAssumption
  <2> QED BY <2>1, LenProperties
<1>1. CASE Large
  BY <1>1 DEF Large, ThreadInv, Worker
<1>2. CASE Crash
  BY <1>2 DEF Crash, ThreadInv
<1>3. CASE Create
  BY <1>3 DEF Create, CreateUpTo, ThreadInv, Worker
<1>4. CASE \E w \in Worker : ThreadFunction(w)
  <2> PICK w \in Worker : ThreadFunction(w)
    BY <1>4
  <2>1. /\ thread[w] = "running" /\ thread' = [thread EXCEPT ![w] = "returned"]
        /\ encoded' = [encoded EXCEPT ![w] = EncodeRLE(chunk[w])]
        /\ UNCHANGED <<args, arg, at, k, chunk>>
    BY DEF ThreadFunction
  <2>2. at # "file" /\ (at = "join" => w \notin 1..k)
    BY <2>1 DEF ThreadInv
  <2>3. \A v \in Worker : thread'[v] = IF v = w THEN "returned" ELSE thread[v]
    BY <2>1 DEF ThreadInv
  <2>4. thread' \in [Worker -> {"none", "running", "returned"}]
    BY <2>1 DEF ThreadInv
  <2>5. /\ encoded' = [v \in Worker |-> encoded'[v]]
        /\ \A v \in Worker : encoded'[v] = IF v = w THEN EncodeRLE(chunk[w]) ELSE encoded[v]
    <3> PICK g : g = EncodeRLE(chunk[w])
      OBVIOUS
    <3>1. /\ encoded = [v \in Worker |-> encoded[v]]
          /\ encoded' = [encoded EXCEPT ![w] = g]
      BY <2>1 DEF ThreadInv
    <3> QED BY <3>1
  <2>6. at \in {"create", "join"} =>
          \A v \in Worker : thread'[v] = "returned" => encoded'[v] = EncodeRLE(chunk[v])
    BY <2>3, <2>5 DEF ThreadInv
  <2>7. at = "join" => \A v \in 1..k : thread'[v] = "none"
    <3> SUFFICES ASSUME at = "join", NEW v \in 1..k PROVE thread'[v] = "none"
      OBVIOUS
    <3>1. k \in 0..3 /\ thread[v] = "none" /\ v # w /\ v \in Worker
      BY <2>2 DEF ThreadInv, Worker
    <3> QED BY <2>3, <3>1
  <2> QED BY <2>1, <2>2, <2>4, <2>5, <2>6, <2>7 DEF ThreadInv
<1>5. CASE Join
  <2>1. /\ at = "join" /\ at' = "join" /\ k \in 0..2 /\ k' = k + 1
        /\ thread' = [thread EXCEPT ![k + 1] = "none"]
        /\ UNCHANGED <<args, arg, chunk, encoded>>
    BY <1>5 DEF Join, ThreadInv
  <2> QED BY <2>1 DEF ThreadInv, Worker
<1>6. CASE Joined
  <2>1. /\ at = "join" /\ k = 3 /\ at' = "file" /\ arg' = arg + 1
        /\ UNCHANGED <<args, thread, encoded>>
    BY <1>6 DEF Joined
  <2>2. \A w \in Worker : thread[w] = "none"
    BY <2>1 DEF ThreadInv, Worker
  <2>3. arg' \in 0..Len(args)
    BY <1>0, <2>1 DEF ThreadInv
  <2> QED BY <2>1, <2>2, <2>3 DEF ThreadInv
<1>7. CASE Small
  BY <1>7, <1>0 DEF Small, Collect, ThreadInv
<1>8. CASE End
  BY <1>8 DEF End, ThreadInv
<1>9. CASE UNCHANGED vars
  BY <1>9 DEF vars, ThreadInv
<1> QED BY <1>1, <1>2, <1>3, <1>4, <1>5, <1>6, <1>7, <1>8, <1>9 DEF Next, MainStep

\* Files of letters are strings, and mapped as they are.
LEMMA PlainIs ==
  ASSUME args \in Argument, AllPlain
  PROVE  /\ args \in Seq(Seq(Letter)) /\ Len(args) \in Nat /\ Len(FlattenSeq(args)) <= IntMax
         /\ FlattenSeq(args) \in Seq(Letter)
         /\ \A s \in Seq(Letter) : UpTo(s, Nul) = s
         /\ arg \in 0..(Len(args) - 1) =>
              File \in Seq(Letter) /\ (Len(File) > Limit => Mapped = {File})
<1>1. args \in Seq(Seq(Char \cup {Nul})) /\ Len(FlattenSeq(args)) <= IntMax
  BY ThreadsAssumption
<1> PICK n \in Nat : n = Len(args)
  BY <1>1, LenProperties
<1>2. ASSUME NEW i \in 1..n PROVE args[i] \in Seq(Letter)
  <2> PICK f \in Seq(Char \cup {Nul}) : f = args[i]
    BY <1>1, ElementOfSeq
  <2>1. \A j \in 1..Len(f) : f[j] \in Letter
    BY DEF AllPlain, Plain
  <2>2. f = [j \in 1..Len(f) |-> f[j]] /\ Len(f) \in Nat
    BY LenProperties
  <2> QED BY <2>1, <2>2
<1>3. args \in Seq(Seq(Letter))
  <2>1. args = [i \in 1..n |-> args[i]]
    BY <1>1
  <2> QED BY <1>2, <2>1
<1>4. \A s \in Seq(Letter) : UpTo(s, Nul) = s
  <2> TAKE s \in Seq(Letter)
  <2>1. \A i \in 1..Len(s) : s[i] # Nul
    BY ElementOfSeq, ThreadsAssumption DEF Char
  <2> QED BY <2>1, UpToNone
<1>5. ASSUME arg \in 0..(n - 1)
      PROVE  File \in Seq(Letter) /\ (Len(File) > Limit => Mapped = {File})
  <2>1. arg + 1 \in 1..n
    BY <1>5
  <2>2. File \in Seq(Letter)
    BY <1>2, <2>1 DEF File
  <2>3. ASSUME Len(File) > Limit PROVE ~PageBorder
    <3>1. Len(File) % Page # 0
      BY <2>1, <2>3 DEF AllPlain, Plain, File
    <3> QED BY <3>1 DEF PageBorder
  <2> QED BY <1>4, <2>2, <2>3 DEF Mapped
<1> QED BY <1>1, <1>3, <1>4, <1>5, FlattenType

LEMMA ThreeType ==
  ASSUME NEW S, NEW s \in Seq(S), NEW e \in Nat, NEW f \in Nat, NEW g \in Nat,
         Cut(s, 0, e), Cut(s, e, f), Cut(s, f, g)
  PROVE  /\ Three(s, e, f, g) \in Seq(Seq(S)) /\ Len(Three(s, e, f, g)) = 3
         /\ \A w \in 1..3 : Len(Three(s, e, f, g)[w]) <= Len(s)
<1>0. /\ Len(s) \in Nat /\ e \in 0..Len(s) /\ f \in e..Len(s) /\ g \in f..Len(s)
      /\ \A i \in 1..Len(s) : s[i] \in S
  BY LenProperties, ElementOfSeq DEF Cut
<1>1. ASSUME NEW b \in 1..(Len(s) + 1), NEW i \in 0..Len(s), b <= i + 1
      PROVE  SubSeq(s, b, i) \in Seq(S) /\ Len(SubSeq(s, b, i)) <= Len(s)
  <2>1. \A j \in b..i : s[j] \in S
    BY <1>0
  <2>2. SubSeq(s, b, i) \in Seq(S) /\ Len(SubSeq(s, b, i)) = IF b <= i THEN (i - b) + 1 ELSE 0
    BY <2>1, SubSeqProperties
  <2> QED BY <1>0, <2>2
<1> PICK x : x = SubSeq(s, 1, e)
  OBVIOUS
<1> PICK y : y = SubSeq(s, e + 1, f)
  OBVIOUS
<1> PICK z : z = SubSeq(s, f + 1, g)
  OBVIOUS
<1>2. x \in Seq(S) /\ Len(x) <= Len(s)
  BY <1>0, <1>1
<1>3. y \in Seq(S) /\ Len(y) <= Len(s)
  <2>1. e + 1 \in 1..(Len(s) + 1) /\ e + 1 <= f + 1 /\ f \in 0..Len(s)
    BY <1>0
  <2> QED BY <1>1, <2>1
<1>4. z \in Seq(S) /\ Len(z) <= Len(s)
  <2>1. f + 1 \in 1..(Len(s) + 1) /\ f + 1 <= g + 1 /\ g \in 0..Len(s)
    BY <1>0
  <2> QED BY <1>1, <2>1
<1>5. Three(s, e, f, g) = <<x, y, z>>
  BY DEF Three
<1> QED BY <1>2, <1>3, <1>4, <1>5

\* What has been written of a single plain file.
OneFileInv ==
  Len(args) = 1 /\ AllPlain =>
    /\ at \in {"create", "join"} =>
         /\ arg = 0
         /\ chunk \in Seq(Seq(Letter)) /\ Len(chunk) = 3
         /\ \A w \in Worker : Len(chunk[w]) <= IntMax
    /\ at = "create" \/ (at = "file" /\ arg = 0) => out = << >>
    /\ at = "join" => out \in Seq(Records) /\ Meaning(out) = FlattenSeq(SubSeq(chunk, 1, k))

LEMMA LargeOne == CutInv /\ CutInv' /\ ThreadInv /\ OneFileInv /\ Large => OneFileInv'
<1> SUFFICES ASSUME CutInv', ThreadInv, OneFileInv, Large, Len(args) = 1, AllPlain
             PROVE  OneFileInv'
  BY DEF Large, OneFileInv, AllPlain
<1>1. at = "file" /\ at' = "create" /\ args' = args /\ arg' = arg /\ out' = out /\ arg = 0
  BY DEF Large, ThreadInv
<1>2. /\ args \in Seq(Seq(Letter)) /\ Len(FlattenSeq(args)) <= IntMax
      /\ File \in Seq(Letter) /\ Mapped = {File} /\ File = args[1]
  <2>1. args \in Argument /\ arg \in 0..(Len(args) - 1)
    BY <1>1 DEF ThreadInv
  <2>2. Len(File) > Limit
    BY DEF Large
  <2> QED BY <1>1, <2>1, <2>2, PlainIs DEF File
<1>3. string' = File
  BY <1>2 DEF Large
<1>4. Len(File) <= IntMax
  <2> PICK f \in Seq(Letter) : f = File
    BY <1>2
  <2>1. args = <<f>>
    BY <1>2
  <2>2. << >> \in Seq(Seq(Letter)) /\ Append(<< >>, f) = <<f>>
    OBVIOUS
  <2>3. FlattenSeq(Append(<< >>, f)) = FlattenSeq(<< >>) \o f /\ << >> \o f = f
    BY <2>2, FlattenAppend, ConcatEmptySeq
  <2> QED BY <1>2, <2>1, <2>2, <2>3, FlattenEmpty
<1> PICK e \in Nat, f \in Nat, g \in Nat :
      /\ Cut(File, 0, e) /\ Cut(File, e, f) /\ Cut(File, f, g)
      /\ chunk' = Three(File, e, f, g)
  BY <1>1, <1>3 DEF CutInv
<1>5. /\ chunk' \in Seq(Seq(Letter)) /\ Len(chunk') = 3
      /\ \A w \in Worker : Len(chunk'[w]) <= Len(File)
  BY <1>2, ThreeType DEF Worker
<1>6. \A w \in Worker : Len(chunk'[w]) <= IntMax
  <2> TAKE w \in Worker
  <2>1. Len(chunk'[w]) \in Nat /\ Len(File) \in Nat
    <3>1. chunk'[w] \in Seq(Letter)
      BY <1>5, ElementOfSeq DEF Worker
    <3> QED BY <1>2, <3>1, LenProperties
  <2> QED BY <1>4, <1>5, <2>1, IntMaxType
<1> QED BY <1>1, <1>5, <1>6 DEF OneFileInv

LEMMA JoinOne == ThreadInv /\ OneFileInv /\ Join => OneFileInv'
<1> SUFFICES ASSUME ThreadInv, OneFileInv, Join, Len(args) = 1, AllPlain
             PROVE  OneFileInv'
  BY DEF Join, OneFileInv, AllPlain
<1> PICK j \in Worker : j = k + 1
  BY DEF Join, ThreadInv, Worker
<1>1. /\ at = "join" /\ at' = "join" /\ k \in 0..2 /\ k' = j
      /\ args' = args /\ arg' = arg /\ chunk' = chunk
      /\ out' = out \o WriteOutput(EncodeRLE(chunk[j]))
  BY DEF Join, ThreadInv
<1>2. /\ arg = 0 /\ chunk \in Seq(Seq(Letter)) /\ Len(chunk) = 3
      /\ \A w \in Worker : Len(chunk[w]) <= IntMax
      /\ out \in Seq(Records) /\ Meaning(out) = FlattenSeq(SubSeq(chunk, 1, k))
  BY <1>1 DEF OneFileInv
<1> PICK c : c = chunk[j]
  OBVIOUS
<1> PICK p : p = SubSeq(chunk, 1, k)
  OBVIOUS
<1> PICK recs : recs = WriteOutput(EncodeRLE(c))
  OBVIOUS
<1>3. c \in Seq(Letter) /\ Len(c) <= IntMax
  BY <1>2, ElementOfSeq DEF Worker
<1>4. recs \in Seq(Records) /\ Meaning(recs) = c
  BY <1>3, TextRoundTrip
<1>5. out' \in Seq(Records) /\ Meaning(out') = Meaning(out) \o c
  <2> PICK o : o = out
    OBVIOUS
  <2>0. o \in Seq(Records) /\ recs \in Seq(Records)
    BY <1>2, <1>4
  <2>1. Meaning(o \o recs) = Meaning(o) \o Meaning(recs)
    BY ONLY <2>0, MeaningConcat
  <2>2. o \o recs \in Seq(Records)
    BY <2>0
  <2>3. out' = o \o recs
    BY <1>1
  <2> QED BY <1>4, <2>1, <2>2, <2>3
<1>6. FlattenSeq(SubSeq(chunk, 1, j)) = FlattenSeq(p) \o c
  <2>1. j \in 1..Len(chunk) /\ j - 1 = k
    BY <1>1, <1>2 DEF Worker
  <2> QED BY <1>2, <2>1, FlattenPrefix
<1>7. Meaning(out') = FlattenSeq(SubSeq(chunk', 1, k'))
  BY <1>1, <1>2, <1>5, <1>6
<1> QED BY <1>1, <1>2, <1>5, <1>7 DEF OneFileInv

LEMMA OneFileStep ==
  CutInv /\ CutInv' /\ ThreadInv /\ OneFileInv /\ [Next]_vars => OneFileInv'
<1> SUFFICES ASSUME CutInv, CutInv', ThreadInv, OneFileInv, [Next]_vars PROVE OneFileInv'
  OBVIOUS
<1>1. CASE Large
  BY <1>1, LargeOne
<1>2. CASE Crash
  BY <1>2 DEF Crash, OneFileInv, AllPlain
<1>3. CASE Create
  <2>1. CASE k < 3
    BY <1>3, <2>1 DEF Create, CreateUpTo, OneFileInv, AllPlain
  <2>2. CASE ~(k < 3)
    <3> SUFFICES ASSUME Len(args) = 1, AllPlain PROVE OneFileInv'
      BY <1>3 DEF Create, CreateUpTo, OneFileInv, AllPlain
    <3>1. at = "create" /\ at' = "join" /\ k' = 0 /\ UNCHANGED <<args, arg, chunk, out>>
      BY <1>3, <2>2 DEF Create, CreateUpTo
    <3>2. out = << >> /\ << >> \in Seq(Records)
      BY <3>1 DEF OneFileInv
    <3>3. SubSeq(chunk, 1, 0) = << >>
      BY SubSeqEmpty
    <3>4. Meaning(out') = FlattenSeq(SubSeq(chunk', 1, k'))
      BY <3>1, <3>2, <3>3, MeaningEmpty, FlattenEmpty
    <3> QED BY <3>1, <3>2, <3>4 DEF OneFileInv
  <2> QED BY <2>1, <2>2
<1>4. CASE \E w \in Worker : ThreadFunction(w)
  BY <1>4 DEF ThreadFunction, OneFileInv, AllPlain
<1>5. CASE Join
  BY <1>5, JoinOne
<1>6. CASE Joined
  BY <1>6 DEF Joined, OneFileInv, AllPlain, ThreadInv
<1>7. CASE Small
  BY <1>7 DEF Small, Collect, OneFileInv, AllPlain, ThreadInv
<1>8. CASE End
  BY <1>8 DEF End, OneFileInv, AllPlain
<1>9. CASE UNCHANGED vars
  BY <1>9 DEF vars, OneFileInv, AllPlain
<1> QED BY <1>1, <1>2, <1>3, <1>4, <1>5, <1>6, <1>7, <1>8, <1>9 DEF Next, MainStep

\* In whatever order the threads run: of the only file, if its characters are letters, main has
\* written after each pthread_join the records of the chunks joined so far, in their order.
THEOREM WrittenSafety == Spec => []WrittenInOrder
<1>1. Init => CutInv /\ ThreadInv /\ OneFileInv
  <2> SUFFICES ASSUME Init PROVE CutInv /\ ThreadInv /\ OneFileInv
    OBVIOUS
  <2>1. CutInv
    BY DEF Init, CutInv
  <2>2. args \in Argument /\ Len(args) \in Nat
    BY ThreadsAssumption, LenProperties DEF Init
  <2>3. ThreadInv
    BY <2>2 DEF Init, ThreadInv
  <2>4. OneFileInv
    BY DEF Init, OneFileInv
  <2> QED BY <2>1, <2>3, <2>4
<1>2. CutInv /\ ThreadInv /\ OneFileInv /\ [Next]_vars => (CutInv /\ ThreadInv /\ OneFileInv)'
  BY CutStep, ThreadStep, OneFileStep
<1>3. OneFileInv => WrittenInOrder
  BY DEF OneFileInv, WrittenInOrder
<1> QED BY <1>1, <1>2, <1>3, PTL DEF Spec

\* Of small plain files main collects the characters, and writes them after the last.
SmallInv ==
  AllPlain /\ (\A i \in 1..Len(args) : Len(args[i]) <= Limit) =>
    /\ at \in {"file", "ended"}
    /\ pending = FlattenSeq(SubSeq(args, 1, arg))
    /\ arg < Len(args) => out = << >>
    /\ arg = Len(args) /\ args # << >> => Meaning(out) = FlattenSeq(args) /\ Maximal(out)
    /\ at = "ended" => arg = Len(args)

LEMMA SmallStep == ThreadInv /\ SmallInv /\ [Next]_vars => SmallInv'
<1> SUFFICES ASSUME ThreadInv, SmallInv, [Next]_vars PROVE SmallInv'
  OBVIOUS
<1>0. args' = args
  <2>1. Large \/ Crash \/ Create => args' = args
    BY DEF Large, Crash, Create, CreateUpTo
  <2>2. Join \/ Joined \/ Small \/ End => args' = args
    BY DEF Join, Joined, Small, Collect, End
  <2>3. (\E w \in Worker : ThreadFunction(w)) \/ UNCHANGED vars => args' = args
    BY DEF ThreadFunction, vars
  <2> QED BY <2>1, <2>2, <2>3 DEF Next, MainStep
<1> SUFFICES ASSUME AllPlain, \A i \in 1..Len(args) : Len(args[i]) <= Limit
             PROVE  SmallInv'
  BY <1>0 DEF SmallInv, AllPlain
<1> PICK n \in Nat : n = Len(args)
  BY PlainIs DEF ThreadInv
<1>1. /\ at \in {"file", "ended"} /\ arg \in 0..n
      /\ pending = FlattenSeq(SubSeq(args, 1, arg))
      /\ arg < n => out = << >>
      /\ arg = n /\ args # << >> => Meaning(out) = FlattenSeq(args) /\ Maximal(out)
      /\ at = "ended" => arg = n
  BY DEF SmallInv, ThreadInv
<1>2. arg < n => Len(File) <= Limit
  <2>1. arg < n => arg + 1 \in 1..Len(args)
    BY <1>1
  <2> QED BY <2>1 DEF File
<1>3. CASE Large \/ Crash
  <2>1. arg < n /\ Len(File) > Limit
    BY <1>3 DEF Large, Crash
  <2>2. File \in Seq(Letter)
    BY <1>1, <2>1, PlainIs DEF ThreadInv
  <2>3. Len(File) \in Nat
    BY <2>2, LenProperties
  <2> QED BY <1>2, <2>1, <2>3, ThreadsAssumption
<1>4. CASE Small
  <2>1. /\ at = "file" /\ at' = "file" /\ args' = args /\ arg < n /\ arg' = arg + 1
        /\ pending' = pending \o File
        /\ out' = IF arg' = n THEN out \o WriteOutput(EncodeRLE(UpTo(pending', Nul))) ELSE out
    BY <1>4 DEF Small, Collect
  <2>2. /\ args \in Seq(Seq(Letter)) /\ FlattenSeq(args) \in Seq(Letter)
        /\ Len(FlattenSeq(args)) <= IntMax
        /\ UpTo(FlattenSeq(args), Nul) = FlattenSeq(args)
    BY PlainIs DEF ThreadInv
  <2>3. pending' = FlattenSeq(SubSeq(args, 1, arg'))
    <3>1. arg + 1 \in 1..Len(args) /\ (arg + 1) - 1 = arg
      BY <1>1, <2>1
    <3> QED BY <1>1, <2>1, <2>2, <3>1, FlattenPrefix DEF File
  <2>4. ASSUME arg' = n PROVE Meaning(out') = FlattenSeq(args) /\ Maximal(out')
    <3>1. pending' = FlattenSeq(args)
      BY <2>2, <2>3, <2>4, SubSeqFull
    <3> PICK recs : recs = WriteOutput(EncodeRLE(FlattenSeq(args)))
      OBVIOUS
    <3>2. recs \in Seq(Records) /\ Meaning(recs) = FlattenSeq(args) /\ Maximal(recs)
      BY <2>2, TextRoundTrip
    <3>3. out' = << >> \o recs
      BY <1>1, <2>1, <2>2, <2>4, <3>1
    <3>4. << >> \o recs = recs
      BY <3>2, ConcatEmptySeq
    <3> QED BY <3>2, <3>3, <3>4
  <2>5. arg' < n => out' = << >>
    BY <1>1, <2>1
  <2> QED BY <1>1, <2>1, <2>3, <2>4, <2>5 DEF SmallInv
<1>5. CASE End
  BY <1>1, <1>5 DEF End, SmallInv
<1>6. CASE Create \/ Join \/ Joined
  BY <1>1, <1>6 DEF Create, CreateUpTo, Join, Joined
<1>7. CASE \E w \in Worker : ThreadFunction(w)
  BY <1>1, <1>7 DEF ThreadFunction, SmallInv
<1>8. CASE UNCHANGED vars
  BY <1>1, <1>8 DEF vars, SmallInv
<1> QED BY <1>3, <1>4, <1>5, <1>6, <1>7, <1>8 DEF Next, MainStep

\* If all files are small and their characters are letters, the records at the end stand for
\* the files one after the other, and no run is split where two of them meet.
THEOREM SmallSafety == Spec => []SmallFilesWhole
<1>1. Init => ThreadInv /\ SmallInv
  <2> SUFFICES ASSUME Init PROVE ThreadInv /\ SmallInv
    OBVIOUS
  <2>1. args \in Argument /\ args \in Seq(Seq(Char \cup {Nul})) /\ Len(args) \in Nat
    BY ThreadsAssumption, LenProperties DEF Init
  <2>2. ThreadInv
    BY <2>1 DEF Init, ThreadInv
  <2>3. SubSeq(args, 1, 0) = << >> /\ FlattenSeq(<< >>) = << >>
    BY SubSeqEmpty, FlattenEmpty
  <2>4. Len(args) = 0 => args = << >>
    BY <2>1
  <2> QED BY <2>1, <2>2, <2>3, <2>4 DEF Init, SmallInv
<1>2. ThreadInv /\ SmallInv /\ [Next]_vars => (ThreadInv /\ SmallInv)'
  BY ThreadStep, SmallStep
<1>3. ThreadInv /\ SmallInv => SmallFilesWhole
  BY DEF SmallInv, SmallFilesWhole
<1> QED BY <1>1, <1>2, <1>3, PTL DEF Spec
==============================================================================
