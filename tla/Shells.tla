------------------------------- MODULE Shells -------------------------------
(***************************************************************************)
(* One of the two shells reads an input: that of Project or, if script     *)
(* says so, the first one, of Lab2.                                        *)
(***************************************************************************)
EXTENDS FirstShell

Init ==
  \E f \in Script :
    Begin(f, [i \in DOMAIN f.lines |-> IF f.first THEN FirstRead(f.lines[i]) ELSE Read(f.lines[i])])

Parent == ParentStep \/ FirstStep

Next == Parent \/ \E p \in Pid : ChildStep(p)

\* Every process is scheduled, and the programs it runs end.
Spec ==
  /\ Init /\ [][Next]_vars
  /\ WF_vars(Parent)
  /\ \A p \in Pid : WF_vars(ChildStep(p))

------------------------------------------------------------------------------
(* Properties                                                               *)

\* processShell.c:189, on the three waits: "have parent wait for children".
\* So at the prompt no child of an earlier line is left.  This holds of lines
\* with up to three commands and not of longer ones.
NoChildLeft == at = "prompt" => \A p \in Pid : proc[p] = Free

\* The lines are run in order, each of them once.
OnceInOrder == [][at = "prompt" /\ at' = "dispatch" => line' = line + 1]_vars

\* A program of the shell of Project gets the words before the > as its
\* arguments, and the word after it names the file of its output, of every
\* command that is Plain (utilities.c:78-79, processShell.c:21).
RunsAsWritten ==
  \A p \in Pid :
    proc[p].state \in {"program", "subprogram"} /\ ~script.first /\ Plain(proc[p].cmd.text) =>
      [argv |-> proc[p].cmd.argv, output |-> proc[p].cmd.output] = Written(proc[p].cmd.text)

\* Does not hold: "ls f > f" runs ls without the f and "> f" runs f without any
\* argument; the first shell hands on one argument, or the > as an argument.
AllRunAsWritten ==
  \A p \in Pid :
    proc[p].state \in {"program", "subprogram"} =>
      [argv |-> proc[p].cmd.argv, output |-> proc[p].cmd.output] = Written(proc[p].cmd.text)

\* the sum of a function whose values are at most 2
Total(w) == Cardinality({x \in (DOMAIN w) \X (1..2) : x[2] <= w[x[1]]})

\* What the lines up to one that says says come to, before being what the lines
\* before it came to: each command of a line sees the environment that the line
\* began with, and only a command on a line of its own changes it.
Carry(before, says) ==
  LET first == says.kind = "first"
      cmds  == IF first /\ says.redirection = "found" THEN << >> ELSE says.commands
      alone == cmds # << >> /\ (first \/ says.kind = "single")
  IN  IF before.over \/ says.kind = "amp" THEN [before EXCEPT !.over = TRUE]
      ELSE
        [env  |-> IF ~alone THEN before.env
                  ELSE IF first THEN FirstChanged(cmds[1], before.env)
                  ELSE Changed(cmds[1], before.env),
         errs |-> before.errs
           + Total([k \in DOMAIN cmds |-> Messages(cmds[k], before.env)])
           + (IF first THEN FirstErrors(says) ELSE 0),
         over |-> alone /\ Leaves(cmds[1]),
         runaways |-> before.runaways
           + Total([k \in DOMAIN cmds |-> IF cmds[k].op = "runaway" THEN 1 ELSE 0])]

\* What a file comes to, up to each line, when its lines are carried out one by one.
OneByOne(lines) ==
  LET after[i \in 0..Len(lines)] ==
        IF i = 0 THEN [env |-> Start, errs |-> 0, over |-> FALSE, runaways |-> 0]
        ELSE Carry(after[i - 1], lines[i])
  IN  after

AllLines == OneByOne(script.says)[Len(script.says)]

\* how often the first shell may report a bad redirection of the last line again
Repeats ==
  LET last == Len(script.says)
  IN  IF script.first /\ ~AllLines.over /\ last > 0 /\ script.says[last].redirection = "bad"
      THEN 1 ELSE 0

\* At its end the shell has the path and the working directory that its lines
\* lead to one by one, and every command that fails has been reported once and
\* only those have, whatever the children of a line do.  But for two cases: a command
\* that runs away adds up to two messages, and the first shell, when it comes to the
\* end of the input, may look at the redirection of the last line a second time.
AsOneByOne ==
  at = "exited" =>
    /\ env = AllLines.env
    /\ errs - AllLines.errs \in 0..(2 * AllLines.runaways + Repeats)

\* processShell.c:70: "If EOF is reached exit".  A finite input has an end.
Exits == <>(at \in {"exited", "crashed"})
==============================================================================
