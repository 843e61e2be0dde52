-------------------------------- MODULE Wzip ---------------------------------
(***************************************************************************)
(* wzip.c of Project2: the files given on the command line, taken as one   *)
(* stream, are run-length encoded.  The loop keeps what getc returns in a  *)
(* char, where the end of the file and the byte 255 are the same.          *)
(***************************************************************************)
EXTENDS Integers, Sequences, SequencesExt, RunLength

CONSTANTS
  Byte,     \* the bytes of the files
  FF,       \* the byte 255, which is EOF in a char
  Input     \* the command lines: sequences of files, which are sequences of bytes

\* The last part: count, an int, does not overflow.
ASSUME WzipAssumption ==
  /\ FF \in Byte
  /\ Input \subseteq Seq(Seq(Byte))
  /\ \A input \in Input : Len(FlattenSeq(input)) <= IntMax

VARIABLES
  files,        \* the files
  pos,          \* how many bytes of the stream have been read
  currentChar,  \* the local currentChar of encodeRLE
  count,        \* its local count
  records,      \* the records written
  place         \* where the program is

zvars == <<files, pos, currentChar, count, records, place>>

ZipInit ==
  /\ files \in Input
  /\ pos = 0
  /\ currentChar = FF
  /\ count = 1
  /\ records = << >>
  /\ place = "start"

\* main: one file is read as it is; several go byte by byte, with getc's int
\* result, into a temporary file
Stream == FlattenSeq(files)

\* getc, converted to char; at the end of the stream it does not move
Getc(c) ==
  IF pos < Len(Stream)
    THEN c = Stream[pos + 1] /\ pos' = pos + 1
    ELSE c = FF /\ pos' = pos

\* without a file the program prints its usage and returns 1
Usage ==
  /\ place = "start" /\ place' = "ended"
  /\ files = << >>
  /\ UNCHANGED <<files, pos, currentChar, count, records>>

\* encodeRLE reads its first character
First ==
  /\ place = "start" /\ place' = "loop"
  /\ files # << >>
  /\ \E c \in Byte : Getc(c) /\ currentChar' = c
  /\ UNCHANGED <<files, count, records>>

Fault_CountKept ==
  /\ place = "loop" /\ currentChar # FF
  /\ \E nextChar \in Byte :
       /\ Getc(nextChar)
       /\ count' = count + 1
       /\ records' = IF nextChar = currentChar THEN records ELSE Append(records, Record(count, currentChar))
       /\ currentChar' = nextChar
  /\ UNCHANGED <<files, place>>

Fault_OneEach ==
  /\ place = "loop" /\ currentChar # FF
  /\ \E nextChar \in Byte : Getc(nextChar) /\ currentChar' = nextChar
  /\ records' = Append(records, Record(1, currentChar))
  /\ UNCHANGED <<files, place, count>>

\* one turn of while (currentChar != EOF)
Turn ==
  /\ place = "loop" /\ currentChar # FF
  /\ \E nextChar \in Byte :
       /\ Getc(nextChar)
       /\ \/ /\ nextChar = currentChar
             /\ count' = count + 1
             /\ UNCHANGED records
          \/ /\ nextChar # currentChar
             /\ records' = Append(records, Record(count, currentChar))
             /\ count' = 1
       /\ currentChar' = nextChar
  /\ UNCHANGED <<files, place>>

\* the while is over
Stop ==
  /\ place = "loop" /\ place' = "ended"
  /\ currentChar = FF
  /\ UNCHANGED <<files, pos, currentChar, count, records>>

ZipNext == Usage \/ First \/ Turn \/ Stop

ZipSpec == ZipInit /\ [][ZipNext]_zvars

------------------------------------------------------------------------------
(* Properties                                                               *)

\* At every moment the records, with the run that is being counted, stand for
\* exactly what has been read, across the borders of the files and for every
\* byte but 255: nothing is lost, doubled or reordered.
NothingLost ==
  LET run == [i \in 1..count |-> currentChar]
      read    == UpTo(SubSeq(Stream, 1, pos), FF)
  IN  /\ place = "loop" /\ currentChar # FF => Expand(records) \o run = read
      /\ place = "ended" => Expand(records) = UpTo(Stream, FF)

\* A run is one record, also when it goes on from one file into the next.
RunsWhole == Maximal(records)

\* Does not hold: wzip.c:22: "Loop through the file until EOF is reached".  So the loop should
\* end with all of the stream read; but the byte 255 ends it, too.
ReadToTheEnd == place = "ended" /\ files # << >> => pos = Len(Stream)
==============================================================================
