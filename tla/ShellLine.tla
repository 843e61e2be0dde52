------------------------------ MODULE ShellLine ------------------------------
(***************************************************************************)
(* How the shell of Project takes a line apart (utilities.c).  A line is a *)
(* sequence of units: words, " ", "\t", ">", "&", and "\n" at its end.  No *)
(* two words are neighbours.  A token, as strtok returns it, is a sequence *)
(* of units too.  Lines are shorter than the buffers they are copied to.   *)
(***************************************************************************)
EXTENDS Integers, SequencesExt, FiniteSetsExt

Sp == " "

Marks == {Sp, "\t", ">", "&", "\n"}

IsSequence(s) == Len(s) \in Nat /\ s = [i \in 1..Len(s) |-> s[i]]

IsLine(s) ==
  /\ IsSequence(s)
  /\ \A i \in DOMAIN s : s[i] = "\n" => i = Len(s)
  /\ \A i \in 1..(Len(s) - 1) : s[i] \in Marks \/ s[i + 1] \in Marks

\* the k-th of a set of places
Nth(places, k) == CHOOSE i \in places : Cardinality({j \in places : j <= i}) = k

\* s without the units
Without(s, units) ==
  LET kept == {i \in DOMAIN s : s[i] \notin units}
  IN  [k \in 1..Cardinality(kept) |-> s[Nth(kept, k)]]

RemoveNewLine(s) == IF s # << >> /\ Last(s) = "\n" THEN Front(s) ELSE s

RemoveTrailingSpaces(s) == SubSeq(s, 1, SelectLastInSeq(s, LAMBDA u : u # Sp))

RemoveSpaces(s) == Without(s, {Sp})

\* only spaces before the newline
TestBlankInput(s) == Last(s) = "\n" /\ ToSet(Front(s)) \subseteq {Sp}

\* -1: the line begins with &;  1: it holds one;  0: it holds none
SearchForParallelCommands(s) ==
  IF s[1] = "&" THEN -1 ELSE IF Contains(s, "&") THEN 1 ELSE 0

\* strtok, to its end: the longest pieces of s without a delimiter, in order
Strtok(s, delimiters) ==
  LET in(i)   == i \in DOMAIN s /\ s[i] \notin delimiters
      first   == {i \in DOMAIN s : in(i) /\ ~in(i - 1)}
      last(i) == Min({j \in i..Len(s) : ~in(j + 1)})
  IN  [k \in 1..Cardinality(first) |-> SubSeq(s, Nth(first, k), last(Nth(first, k)))]

\* Both errors end the search where they are met: a second > (a message here
\* and one of runCommand's), and a space after the first character that follows
\* the >, be it a space itself.  So is a > with nothing after it an error.  An
\* index of 0 says that there is no redirection, or a line that begins with it.
\* Without a character strlen(readInLine) - 1 wraps around: a run away.
SearchForRedirection(s) ==
  LET t     == RemoveTrailingSpaces(RemoveNewLine(s))
      gts   == {i \in DOMAIN t : t[i] = ">"}
      r     == IF gts = {} THEN 0 ELSE Min(gts)
      after == SubSeq(t, r + 1, Len(t))
      ends  == {j \in DOMAIN after : after[j] = ">" \/ (after[j] = Sp /\ j > 1)}
  IN  [runAway  |-> t = << >>,
       errs     |-> IF r = 0 THEN 0
                    ELSE IF ends # {} THEN (IF after[Min(ends)] = ">" THEN 2 ELSE 1)
                    ELSE IF after = << >> THEN 1 ELSE 0,
       redirect |-> r > 1,
       output   |-> IF r = 0 THEN << >> ELSE RemoveSpaces(after)]

ParseStringIntoArray(s) ==
  Strtok(RemoveTrailingSpaces(RemoveNewLine(s)), {Sp, "\t", ">"})

Fault_DiscardOutput(words, output) == words

\* otherCommands: the words equal to the output path become NULL, and the first
\* NULL ends the arguments
DiscardOutput(words, output) ==
  LET i == SelectInSeq(words, LAMBDA w : w = output)
  IN  IF i = 0 THEN words ELSE SubSeq(words, 1, i - 1)

\* runCommand, up to what it does: the command op of the text s, and its words
Command(s) ==
  LET r == SearchForRedirection(s)
      w == ParseStringIntoArray(s)
  IN  [text   |-> s,
       op     |-> IF r.runAway THEN "runaway"
                  ELSE IF r.errs > 0 THEN "bad"
                  ELSE IF w = << >> THEN "none"
                  ELSE IF w[1] \in {<<"exit">>, <<"cd">>, <<"path">>} THEN w[1][1] ELSE "run",
       errs   |-> r.errs,
       words  |-> w,
       argv   |-> DiscardOutput(w, r.output),
       output |-> IF r.redirect THEN r.output ELSE << >>]

\* what processShell makes of a line: its kind and the commands it runs
Read(s) ==
  LET kind == IF TestBlankInput(s) THEN "blank"
              ELSE CASE SearchForParallelCommands(s) = -1 -> "amp"
                     [] SearchForParallelCommands(s) = 0  -> "single"
                     [] SearchForParallelCommands(s) = 1  -> "parallel"
      texts == CASE kind = "single" -> <<s>> [] kind = "parallel" -> Strtok(s, {"&"})
                 [] OTHER -> << >>
  IN  [kind |-> kind, commands |-> [k \in DOMAIN texts |-> Command(texts[k])]]

------------------------------------------------------------------------------
WordsIn(s) == [k \in DOMAIN Without(s, Marks) |-> <<Without(s, Marks)[k]>>]

\* What a command says, read off it at once: its words before the > are the
\* program and its arguments, the word after it is the file that the output
\* goes to (utilities.c:78-79).
Written(s) ==
  LET gts == {i \in DOMAIN s : s[i] = ">"}
      r   == IF gts = {} THEN Len(s) + 1 ELSE Min(gts)
      target == WordsIn(SubSeq(s, r, Len(s)))
  IN  [argv   |-> WordsIn(SubSeq(s, 1, r - 1)),
       output |-> IF target = << >> THEN << >> ELSE target[1]]

\* Commands that mean what they say: nothing but the file after the >, at most
\* one > that is not the first word, no tab after it, and another word for the
\* file than for the program and its arguments.
Plain(s) ==
  LET gts == {i \in DOMAIN s : s[i] = ">"}
  IN  gts = {} \/ /\ Written(s).argv # << >>
                  /\ \A i \in gts : ~Contains(SubSeq(s, i, Len(s)), "\t")
                  /\ ~Contains(Written(s).argv, Written(s).output)
==============================================================================
