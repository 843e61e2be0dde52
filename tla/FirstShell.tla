----------------------------- MODULE FirstShell -----------------------------
(***************************************************************************)
(* The first version of the shell, of Lab2: no parallel commands, nothing  *)
(* but spaces between words, and a redirection that the shell carries out  *)
(* itself, by writing the text before the > to the file named after it.    *)
(* State, children and input file are those of Shell.                      *)
(***************************************************************************)
EXTENDS Shell

CONSTANTS
  Width,  \* of each unit, how many characters it has
  Code    \* of each unit, the code of its characters: those of a unit are alike

ASSUME FirstShellAssumption == \A u \in DOMAIN Width : Width[u] \in Nat /\ Code[u] \in Nat

\* searchForRedirection goes on as long as readInLine[i], the code of a character,
\* is at most the length of the line: in a line shorter than 62, the code of >, it
\* finds none.  Without text before or after the > it reports an error and says
\* that there is none.  Every line that is not blank ends the loop: it has a
\* character of a higher code.
FirstRedirection(s) ==
  LET t    == RemoveSpaces(RemoveNewLine(s))
      n    == FoldLeft(LAMBDA sum, u : sum + Width[u], 0, t)
      stop == SelectInSeq(t, LAMBDA u : Code[u] > n)
      read == SubSeq(t, 1, Max({stop, 1}) - 1)
      r    == SelectInSeq(read, LAMBDA u : u = ">")
  IN  IF r = 0 THEN "none" ELSE IF r \in {1, Len(read)} THEN "bad" ELSE "found"

\* what the line says: only a space parts words, and a program gets one argument
FirstCommand(s) ==
  LET w == Strtok(RemoveNewLine(s), {Sp})
  IN  [text   |-> s,
       op     |-> IF w = << >> THEN "none"
                  ELSE IF w[1] \in {<<"exit">>, <<"cd">>, <<"path">>} THEN w[1][1] ELSE "run",
       words  |-> w,
       argv   |-> SubSeq(w, 1, Min({2, Len(w)})),
       output |-> << >>]

FirstRead(s) ==
  [kind |-> "first", redirection |-> FirstRedirection(s), commands |-> <<FirstCommand(s)>>]

FirstErrors(says) == IF says.redirection = "bad" THEN 1 ELSE 0

\* path adds its words to the directories, and without a word clears them
FirstChanged(cmd, e) ==
  IF cmd.op # "path" THEN Changed(cmd, e)
  ELSE [e EXCEPT !.path = IF Len(cmd.words) > 1 THEN AddPaths(@, cmd.words) ELSE ClearDirectories]

------------------------------------------------------------------------------
\* At the end of the file the line that was read last is still there, unless the
\* C library empties it, and its redirection is looked for once more before the end is
\* noticed: it is carried out again, or its error is reported again.
FirstEnd ==
  /\ at = "end"
  /\ \E text \in {0, line} :
       LET again == IF text = 0 THEN "none" ELSE script.says[text].redirection
       IN  /\ at' = IF again = "found" THEN "prompt" ELSE "exited"
           /\ Throw(IF again = "bad" THEN 1 ELSE 0)
  /\ UNCHANGED <<line, env, todo, waits, input, proc>>

\* the file is written by the shell itself, on to the next line
FirstRedirect ==
  /\ Dispatch("first") /\ Line.redirection = "found" /\ at' = "prompt"
  /\ UNCHANGED <<line, env, todo, waits, input, proc, errs>>

FirstDispatch(ops) == Dispatch("first") /\ Line.redirection # "found" /\ Cmd.op \in ops

\* strtok finds no word in a blank line, and removeNewLine is given NULL
FirstBlank ==
  /\ FirstDispatch({"none"}) /\ at' = "crashed"
  /\ UNCHANGED <<line, env, todo, waits, input, proc, errs>>

FirstBuiltin ==
  /\ FirstDispatch({"cd", "path", "exit"})
  /\ at' = IF Leaves(Cmd) THEN "exited" ELSE "prompt"
  /\ env' = FirstChanged(Cmd, env)
  /\ Throw(FirstErrors(Line) + Messages(Cmd, env))
  /\ UNCHANGED <<line, todo, waits, input, proc>>

\* otherCommands
FirstFork ==
  /\ FirstDispatch({"run"}) /\ at' = "waitpid"
  /\ \E p \in Pid : Spawn(p, "only", Cmd)
  /\ Throw(FirstErrors(Line))
  /\ UNCHANGED <<line, env, todo, waits, input>>

\* what differs from the other shell's steps: Getline and WaitPid are the same
FirstStep == FirstEnd \/ FirstRedirect \/ FirstBlank \/ FirstBuiltin \/ FirstFork
==============================================================================
