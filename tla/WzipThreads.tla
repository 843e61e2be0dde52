----------------------------- MODULE WzipThreads -----------------------------
(***************************************************************************)
(* wzipThreads.c of Project2: a large file is cut into three chunks that   *)
(* three threads encode as text ("4a5b8c"), and main joins them in order   *)
(* and turns each text into records; the small files are collected and     *)
(* encoded together, when the last argument is a small file.               *)
(* A character is a digit (a number), another character, or the null       *)
(* character; a string is a sequence without the null character.           *)
(***************************************************************************)
EXTENDS Integers, Sequences, SequencesExt, RunLength

CONSTANTS
  Letter,    \* the characters that are no digits
  Nul,       \* '\0'
  Argument,  \* the command lines: sequences of files
  Limit,     \* a file of more bytes than this is large (4096)
  Page,      \* the size of a page
  Beyond     \* what strings may follow a mapping that ends on a page border

Digit == 0..9
Char  == Letter \cup Digit
Worker == 1..3

\* The third part: totalSize and index, ints, do not overflow.
ASSUME ThreadsAssumption ==
  /\ Letter \cap Digit = {} /\ Nul \notin Char
  /\ Argument \subseteq Seq(Seq(Char \cup {Nul}))
  /\ \A a \in Argument : Len(FlattenSeq(a)) <= IntMax
  /\ Limit \in Nat
  /\ Page \in Nat \ {0}
  /\ Beyond \subseteq Seq(Char)

VARIABLES
  args,     \* the files
  arg,      \* how many of them main has gone through
  at,       \* where main is
  k,        \* how many threads it has created, then joined
  string,   \* the string main takes a mapped file for
  chunk,    \* the string chunks
  thread,   \* thread[w]: "none", "running" or "returned"
  encoded,  \* encoded[w]: the text the thread has returned
  pending,  \* concatenatedString
  out       \* the records written

vars == <<args, arg, at, k, string, chunk, thread, encoded, pending, out>>

Init ==
  /\ args \in Argument
  /\ arg = 0
  /\ at = "file"
  /\ k = 0
  /\ string = << >>
  /\ chunk = [w \in Worker |-> << >>]
  /\ thread = [w \in Worker |-> "none"]
  /\ encoded = [w \in Worker |-> << >>]
  /\ pending = << >>
  /\ out = << >>

------------------------------------------------------------------------------
(* encodeRLE and writeOutput                                                *)

\* sprintf("%d")
Decimal[n \in Nat] == IF n < 10 THEN <<n>> ELSE Append(Decimal[n \div 10], n % 10)

\* sprintf("%d%c")
Entry(n, c) == Append(Decimal[n], c)

\* The count of encodeRLE at the i-th character: how often it has come in a row.
RunsOf(s) ==
  LET run[i \in 0..Len(s)] ==
        IF i = 0 THEN 0 ELSE IF i > 1 /\ s[i] = s[i - 1] THEN run[i - 1] + 1 ELSE 1
  IN  run

\* Count and character of each run, at its end.  For the empty string the text is "1" and
\* a null character: whatever follows it in the output is cut off.
EncodeRLE(s) ==
  LET text[i \in 0..Len(s)] ==
        IF i = 0 THEN << >>
        ELSE IF i < Len(s) /\ s[i + 1] = s[i] THEN text[i - 1]
        ELSE text[i - 1] \o Entry(RunsOf(s)[i], s[i])
  IN  IF s = << >> THEN <<1>> ELSE text[Len(s)]

\* What atoi makes of the digits that end at the i-th character of text.
Numbers(text) ==
  LET number[i \in 0..Len(text)] ==
        IF i = 0 THEN 0 ELSE IF text[i] \in Digit THEN 10 * number[i - 1] + text[i] ELSE 0
  IN  number

\* A character that is no digit ends a record.
Parse(text) ==
  LET recs[i \in 0..Len(text)] ==
        IF i = 0 THEN << >>
        ELSE IF text[i] \in Digit THEN recs[i - 1]
        ELSE Append(recs[i - 1], Record(Numbers(text)[i - 1], text[i]))
  IN  recs[Len(text)]

\* Behind digits at the end of the text comes the null character.
WriteOutput(text) == Parse(IF Last(text) \in Digit THEN Append(text, Nul) ELSE text)

------------------------------------------------------------------------------
(* defineChunks                                                             *)

\* A chunk that starts after `start' characters may end after `end' of them:
\* at the end of the string, or when it has a third of the length and the
\* next character is another one.
MayEnd(s, start, end) ==
  \/ end >= Len(s)
  \/ /\ end - start >= Len(s) \div 3
     /\ end > start
     /\ s[end + 1] # s[end]

Fault_CutInRun(s, start) ==
  {IF start + Len(s) \div 3 < Len(s) THEN start + Len(s) \div 3 ELSE Len(s)}

\* It ends at the first such place.  If a third of the length is 0, the first
\* character is compared with a variable that has no value: it may also end
\* at once.
ChunkEnds(s, start) ==
  {CHOOSE end \in start..Len(s) :
     MayEnd(s, start, end) /\ \A e \in start..(end - 1) : ~MayEnd(s, start, e)}
  \cup IF Len(s) \div 3 = 0 THEN {start} ELSE {}

------------------------------------------------------------------------------
(* main: loopFiles and threadDecode                                         *)

File == args[arg + 1]

\* A mapped file of whole pages, without a null character, has none after it.
PageBorder == UpTo(File, Nul) = File /\ Len(File) % Page = 0

\* The string at a mapping ends with its first null character.  What is left of
\* the last page is null characters; if nothing is left, the string goes on
\* into whatever memory is there, or the program crashes.
Mapped == IF PageBorder THEN {File \o x : x \in Beyond} ELSE {UpTo(File, Nul)}

\* a large file is mapped and cut into chunks
Large ==
  /\ at = "file" /\ arg < Len(args)
  /\ Len(File) > Limit
  /\ at' = "create" /\ k' = 0
  /\ \E s \in Mapped :
       /\ string' = s
       /\ \E end1 \in ChunkEnds(s, 0) : \E end2 \in ChunkEnds(s, end1) :
          \E end3 \in ChunkEnds(s, end2) :
            chunk' = <<SubSeq(s, 1, end1), SubSeq(s, end1 + 1, end2), SubSeq(s, end2 + 1, end3)>>
  /\ UNCHANGED <<args, arg, thread, encoded, pending, out>>

Crash ==
  /\ at = "file" /\ arg < Len(args)
  /\ Len(File) > Limit
  /\ PageBorder
  /\ at' = "crashed"
  /\ UNCHANGED <<args, arg, k, string, chunk, thread, encoded, pending, out>>

CreateUpTo(n) ==
  /\ at = "create"
  /\ IF k < n
       THEN k' = k + 1 /\ thread' = [thread EXCEPT ![k + 1] = "running"] /\ UNCHANGED at
       ELSE k' = 0 /\ at' = "join" /\ UNCHANGED thread
  /\ UNCHANGED <<args, arg, string, chunk, encoded, pending, out>>

Fault_TwoCreated == CreateUpTo(2)

\* pthread_create of the next thread
Create == CreateUpTo(3)

\* threadFunction
ThreadFunction(w) ==
  /\ thread[w] = "running" /\ thread' = [thread EXCEPT ![w] = "returned"]
  /\ encoded' = [encoded EXCEPT ![w] = EncodeRLE(chunk[w])]
  /\ UNCHANGED <<args, arg, at, k, string, chunk, pending, out>>

Fault_AnyFirst ==
  /\ at = "join" /\ k < 3
  /\ \E w \in Worker :
       /\ thread[w] = "returned"
       /\ thread' = [thread EXCEPT ![w] = "none"]
       /\ out' = out \o WriteOutput(encoded[w])
  /\ k' = k + 1
  /\ UNCHANGED <<args, arg, at, string, chunk, encoded, pending>>

\* pthread_join of the next thread; writeOutput of its text
Join ==
  /\ at = "join" /\ k < 3
  /\ thread[k + 1] = "returned"
  /\ thread' = [thread EXCEPT ![k + 1] = "none"]
  /\ out' = out \o WriteOutput(encoded[k + 1])
  /\ k' = k + 1
  /\ UNCHANGED <<args, arg, at, string, chunk, encoded, pending>>

\* free(chunkMemory): the next file
Joined ==
  /\ at = "join" /\ k = 3
  /\ at' = "file" /\ arg' = arg + 1
  /\ UNCHANGED <<args, k, string, chunk, thread, encoded, pending, out>>

Collect(collected) ==
  /\ at = "file" /\ arg < Len(args)
  /\ Len(File) <= Limit
  /\ arg' = arg + 1
  /\ pending' = collected
  /\ out' = IF arg + 1 = Len(args) THEN out \o WriteOutput(EncodeRLE(UpTo(collected, Nul))) ELSE out
  /\ UNCHANGED <<args, at, k, string, chunk, thread, encoded>>

Fault_OnlyTheLast == Collect(File)

\* a small file is added to the others; after the last argument they are encoded
Small == Collect(pending \o File)

\* no file is left, or none was given
End ==
  /\ at = "file" /\ arg = Len(args)
  /\ at' = "ended"
  /\ UNCHANGED <<args, arg, k, string, chunk, thread, encoded, pending, out>>

MainStep == Large \/ Crash \/ Create \/ Join \/ Joined \/ Small \/ End

Next == MainStep \/ \E w \in Worker : ThreadFunction(w)

\* Every thread is scheduled.
Spec ==
  /\ Init /\ [][Next]_vars
  /\ WF_vars(MainStep)
  /\ \A w \in Worker : WF_vars(ThreadFunction(w))

------------------------------------------------------------------------------
(* Properties                                                               *)

\* A file that the encoding as text can carry: no digits, no null character,
\* and no page border at its end.
Plain(file) ==
  /\ \A i \in 1..Len(file) : file[i] \in Letter
  /\ Len(file) > Limit => Len(file) % Page # 0

AllPlain == \A i \in 1..Len(args) : Plain(args[i])

Chunks == FlattenSeq(chunk)

\* The chunks are the beginning of the file, in order, and no run of equal
\* characters goes on from one chunk into the next: the threads do not have to
\* know of each other.  At most two characters are left out.
ChunksInOrder ==
  at = "create" =>
    /\ IsPrefix(Chunks, string)
    /\ Len(string) >= 3 => Len(string) - Len(Chunks) <= Len(string) % 3
    /\ \A v, w \in Worker :
         (v < w /\ chunk[v] # << >> /\ chunk[w] # << >> /\ (w = v + 1 \/ chunk[v + 1] = << >>))
           => Last(chunk[v]) # Head(chunk[w])

\* The characters a sequence of records stands for, without the null
\* character of the record an empty chunk is given.
Meaning(recs) ==
  FlattenSeq([j \in 1..Len(recs) |-> IF recs[j].char = Nul THEN << >> ELSE Run(recs[j])])

\* While a file is joined, the output stands for the chunks joined so far, in
\* their order, however the threads were scheduled.  (The only file.)
WrittenInOrder ==
  Len(args) = 1 /\ AllPlain /\ at = "join" =>
    Meaning(out) = FlattenSeq(SubSeq(chunk, 1, k))

\* Small files alone come out as one stream, without a border between them.
SmallFilesWhole ==
  at = "ended" /\ AllPlain /\ args # << >> /\ (\A i \in 1..Len(args) : Len(args[i]) <= Limit) =>
    Meaning(out) = FlattenSeq(args) /\ Maximal(out)

\* The program ends, or crashes at a page border.
Ends == <>(at \in {"ended", "crashed"})

\* Does not hold: wzipThreads.c:109 of defineChunks: "Split file into separate chunks to be
\* decoded".  So the chunks together should be the file; but the last one, too,
\* has only about a third.
ChunksCoverFile == at = "create" /\ AllPlain => Chunks = File

\* Does not hold: wzipThreads.c:207: "If at end of files under 4096 bytes", the files
\* collected so far are encoded.  So at the end their characters are in the
\* output; but not if the last file is a large one.
SmallFilesWritten ==
  at = "ended" /\ AllPlain => ToSet(pending) \subseteq ToSet(Meaning(out))

\* Does not hold: wzipThreads.c:25 of writeOutput: "Parse the RLE-encoded string".  So the
\* records of a string should stand for the string; but its digits become counts.
TextParses ==
  at = "join" => \A w \in Worker :
    thread[w] = "returned" /\ chunk[w] # << >> => Expand(WriteOutput(encoded[w])) = chunk[w]
==============================================================================
