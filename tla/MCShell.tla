------------------------------- MODULE MCShell -------------------------------
(* Small instances of Shells: the input files of its runs.                  *)
EXTENDS Shells

\* the programs, by directory; /tmp is a directory without one
Installed == [d \in {<<"/bin">>, <<"/usr">>} |->
                IF d = <<"/bin">> THEN {<<"ls">>} ELSE {<<"tool">>}]
Directories == DOMAIN Installed \cup {<<"/tmp">>}

\* letters have a code above 90, digits one of 49; "end" stands for a long word
Digits == {"1", "2"}
Words == {"ls", "tool", "gone", "f", "cd", "path", "exit",
          "/bin", "/usr", "/tmp", "end"} \cup Digits
Widths == [u \in Words \cup Marks |->
             IF u \in Digits \cup Marks THEN 1 ELSE IF u = "end" THEN 59 ELSE 4]
Codes == [u \in Words \cup Marks |-> IF u = ">" THEN 62 ELSE IF u \in Digits THEN 49
                                     ELSE IF u \in Marks THEN 32 ELSE 97]

Lines(texts) == [i \in DOMAIN texts |-> Append(texts[i], "\n")]
Piped(texts) == [lines |-> Lines(texts), seekable |-> FALSE, first |-> FALSE]
InFile(texts) == [lines |-> Lines(texts), seekable |-> TRUE, first |-> FALSE]
ToFirst(file) == [file EXCEPT !.first = TRUE]

\* every line of up to four units of a small alphabet, one to a file
Short == {s \in BoundedSeq({"ls", "f", Sp, "\t", ">", "&"}, 4) :
            \A i \in 1..(Len(s) - 1) : ~({s[i], s[i + 1]} \subseteq Words)}

\* every kind of command and of line, with up to three parallel commands
AllKinds ==
  << <<"gone", Sp, "f">>, << >>, <<"tool", "&", "path", Sp, "/usr", Sp, "&", "gone">>, <<"tool">>,
     <<"path", "\t", "/usr", Sp, "/tmp">>, <<"tool", Sp, "f", ">", Sp, "f", Sp>>,
     <<"cd", Sp, "f">>,
     <<"ls", ">", "f", ">", "f">>, <<"ls", Sp, ">", Sp, Sp, "f">>, <<"ls", Sp, ">", Sp>>,
     <<"exit", Sp, "&", Sp, "cd", Sp, "/tmp", "&", "tool", "\t", "f", ">", "1">>,
     <<"ls">>, <<"cd", Sp, "/usr">>, <<"cd">>, <<"exit", Sp, "f">>, <<"\t">>, <<"path">>,
     <<"tool">>, <<"exit">>, <<"gone">> >>

\* no child ends with exit() before the file has been read to its end
Harmless == << <<"ls">>, <<"path", Sp, "/usr">>, <<"cd", Sp, ">", "/tmp">>, <<"tool", ">", "f">>,
               << >>, <<"tool", Sp, "&", "gone", "&", "tool">>, <<"&">> >>

\* commands that run away, and a last line without a newline that does
Runaways == [Piped(<< <<"ls", "&">>, <<Sp>> >>) EXCEPT !.lines[2] = <<Sp>>]

\* for the first shell: all kinds of commands; redirections found, bad, or not
FirstKinds ==
  << <<"ls", Sp, "f", Sp, ">", Sp, "1">>, <<"tool">>, <<"path", Sp, "/usr">>, <<"tool", Sp, "f">>,
     <<"cd", Sp, "/tmp">>, <<"1", Sp, ">", "2", "end">>, <<">", "2", "end">>, <<"ls">>,
     <<">", "2", "2", "end">>, <<"1", "1", ">", "end">>,
     <<"cd", Sp, "f">>, <<"ls", "&">>, <<"path">>, <<"ls">>, <<"exit", Sp, "f">>, <<"f">> >>

Inputs ==
  {Piped(<<s>>) : s \in Short} \cup
  {Piped(AllKinds), InFile(Harmless), Runaways,
   ToFirst(Piped(FirstKinds)), ToFirst(InFile(<< <<"ls">>, <<"exit">> >>)),
   ToFirst(Piped(<< <<"ls">>, <<">", "2", "2", "end">> >>)),
   ToFirst(Piped(<< <<"ls">>, <<Sp>>, <<"ls">> >>)), ToFirst(Piped(<< >>))}

ThreeMissing == {InFile([i \in 1..3 |-> <<"gone">>])}
==============================================================================
