-------------------------------- MODULE Shell --------------------------------
(***************************************************************************)
(* The shell of Project: the parent's loop (processShell), its commands    *)
(* (runCommand, otherCommands, runParallelCommands), the processes it      *)
(* forks, and what they share: the open input file, read through a stdio   *)
(* buffer that every fork copies.  A process that ends with exit(), not    *)
(* with execv, gives the unread part of its copy of the buffer back to the *)
(* file: stdio moves the file offset, which parent and children share,     *)
(* back by that much (a terminal or a pipe cannot be moved).               *)
(*                                                                         *)
(* The file offset counts lines: all lines of a file have the same length. *)
(***************************************************************************)
EXTENDS ShellLine

CONSTANTS
  Script,    \* what the input may be: records of the lines, of whether it can be
             \* moved (seekable), and of which shell reads it (first: Lab2's)
  BufLines,  \* how many lines one read fills the buffer with
  Pid,       \* process ids
  MaxErrs,   \* bound: messages are counted up to here
  Directory, \* the words that name a directory
  Programs   \* of some of them, the words that name a program there

ASSUME ShellAssumption ==
  /\ \A s \in Script :
       /\ s.seekable \in BOOLEAN /\ s.first \in BOOLEAN
       /\ IsSequence(s.lines)
       /\ \A i \in DOMAIN s.lines : IsSequence(s.lines[i]) /\ (s.first \/ IsLine(s.lines[i]))
  /\ BufLines \in Nat \ {0}
  /\ MaxErrs \in Nat
  /\ <<"/bin">> \in DOMAIN Programs /\ DOMAIN Programs \subseteq Directory

VARIABLES
  script,  \* the input; says is what its lines come to, worked out beforehand
  offset,  \* the shared file offset: how many lines lie before it
  buf,     \* the parent's stdio buffer: the lines lo+1..hi of the file
  at,      \* where the parent is
  line,    \* the number of the line it read last
  env,     \* its environment: path is mainDirectory, as a set (the order decides
           \* only which copy of a program runs), cwd the working directory
  todo,    \* parallelStringArray: the commands it still has to fork
  waits,   \* how many waits it still has to make
  proc,    \* the children
  errs     \* how many error messages have been written

shell == <<at, line, env, todo, waits>>
input == <<script, offset, buf>>
vars  == <<shell, input, proc, errs>>

Free == [state |-> "free"]

Start == [path |-> {<<"/bin">>}, cwd |-> << >>]

\* the input f, whose lines say says
Begin(f, says) ==
  /\ script = [says |-> says, seekable |-> f.seekable, first |-> f.first]
  /\ offset = 0
  /\ buf = [lo |-> 0, hi |-> 0]
  /\ at = "prompt"
  /\ line = 0
  /\ env = Start
  /\ todo = << >>
  /\ waits = 0
  /\ proc = [p \in Pid |-> Free]
  /\ errs = 0

\* throwError, n times
Throw(n) == errs' = IF errs + n > MaxErrs THEN MaxErrs ELSE errs + n

Found(cmd, e) == \E d \in e.path \cap DOMAIN Programs : cmd.words[1] \in Programs[d]

\* The messages a command leads to in the environment e.  chdir fails without an
\* argument and on what is no directory.
Messages(cmd, e) ==
  CASE cmd.op = "bad"  -> cmd.errs
    [] cmd.op = "exit" -> IF Len(cmd.words) > 1 THEN 1 ELSE 0
    [] cmd.op = "cd"   -> IF Len(cmd.words) > 1 /\ cmd.words[2] \in Directory THEN 0 ELSE 1
    [] cmd.op = "run"  -> IF Found(cmd, e) THEN 0 ELSE 1
    [] OTHER           -> 0

ClearDirectories == {}

AddPaths(dirs, words) == dirs \cup ToSet(Tail(words))

\* What a built-in command makes of the environment.  The path takes every further
\* word, the file of a redirection too.
Changed(cmd, e) ==
  CASE cmd.op = "cd" /\ Messages(cmd, e) = 0 -> [e EXCEPT !.cwd = cmd.words[2]]
    [] cmd.op = "path" -> [e EXCEPT !.path = AddPaths(ClearDirectories, cmd.words)]
    [] OTHER -> e

Leaves(cmd) == cmd.op = "exit" /\ Len(cmd.words) = 1

------------------------------------------------------------------------------
(* processShell                                                             *)

Line == script.says[line]
Cmd  == Line.commands[1]

\* getline: from the buffer, which is filled from the file when it is empty; the
\* first shell does not look for the end of the file at once
Getline ==
  /\ at = "prompt"
  /\ LET fill == Min({offset + BufLines, Len(script.says)})
         b    == IF buf.lo < buf.hi THEN buf ELSE [lo |-> offset, hi |-> fill]
     IN  /\ offset' = IF buf.lo < buf.hi THEN offset ELSE fill
         /\ IF b.lo < b.hi
              THEN /\ buf' = [b EXCEPT !.lo = @ + 1]
                   /\ line' = b.lo + 1
                   /\ at' = "dispatch"
              ELSE /\ at' = IF script.first THEN "end" ELSE "exited"
                   /\ UNCHANGED <<buf, line>>
  /\ UNCHANGED <<script, env, todo, waits, proc, errs>>

Dispatch(kind) == at = "dispatch" /\ Line.kind = kind

Blank ==
  /\ Dispatch("blank") /\ at' = "prompt"
  /\ UNCHANGED <<line, env, todo, waits, input, proc, errs>>

\* a line that begins with & ends the shell, without a message
LeadingAmpersand ==
  /\ Dispatch("amp") /\ at' = "exited"
  /\ UNCHANGED <<line, env, todo, waits, input, proc, errs>>

------------------------------------------------------------------------------
(* runCommand, called by the parent                                         *)

\* nothing, a redirection error, cd, path, exit
Builtin ==
  /\ Dispatch("single")
  /\ Cmd.op \notin {"run", "runaway"}
  /\ at' = IF Leaves(Cmd) THEN "exited" ELSE "prompt"
  /\ env' = Changed(Cmd, env)
  /\ Throw(Messages(Cmd, env))
  /\ UNCHANGED <<line, todo, waits, input, proc>>

\* searchForRedirection runs off its buffers: the process crashes, unless it
\* comes across an error on the way, which is one message or two.
RunsAway(crashes) ==
  \E n \in 0..2 : crashes = (n = 0) /\ Throw(n)

\* Only a last line of spaces, without a newline, is not blank and has nothing
\* to search.
LineRunsAway ==
  /\ Dispatch("single") /\ Cmd.op = "runaway"
  /\ at' \in {"crashed", "prompt"} /\ RunsAway(at' = "crashed")
  /\ UNCHANGED <<line, env, todo, waits, input, proc>>

\* fork: the child has its own copy of the buffer and of the environment
Spawn(p, state, cmd) ==
  /\ proc[p] = Free
  /\ proc' = [proc EXCEPT ![p] = [state |-> state, cmd |-> cmd, buf |-> buf, env |-> env]]

Fork ==
  /\ Dispatch("single") /\ at' = "waitpid"
  /\ Cmd.op = "run"
  /\ \E p \in Pid : Spawn(p, "only", Cmd)
  /\ UNCHANGED <<line, env, todo, waits, input, errs>>

\* waitpid(pid, NULL, 0): there is one such child
WaitPid ==
  /\ at = "waitpid" /\ at' = "prompt"
  /\ \E p \in Pid : proc[p].state = "reapable" /\ proc' = [proc EXCEPT ![p] = Free]
  /\ UNCHANGED <<line, env, todo, waits, input, errs>>

------------------------------------------------------------------------------
(* runParallelCommands                                                      *)

Split ==
  /\ Dispatch("parallel") /\ at' = "fork"
  /\ todo' = Line.commands
  /\ UNCHANGED <<line, env, waits, input, proc, errs>>

\* the for loop that forks one child per command
ForkNext ==
  /\ at = "fork" /\ todo # << >>
  /\ \E p \in Pid : Spawn(p, "parallel", Head(todo))
  /\ todo' = Tail(todo)
  /\ UNCHANGED <<at, line, env, waits, input, errs>>

Fault_WaitTwice ==
  /\ at = "fork" /\ todo = << >>
  /\ at' = "wait" /\ waits' = 2
  /\ UNCHANGED <<line, env, todo, input, proc, errs>>

\* all forked: three waits follow
Forked ==
  /\ at = "fork" /\ todo = << >>
  /\ at' = "wait" /\ waits' = 3
  /\ UNCHANGED <<line, env, todo, input, proc, errs>>

Fault_WaitBlocks ==
  /\ at = "wait" /\ waits > 0
  /\ waits' = waits - 1
  /\ \E p \in Pid : proc[p].state = "zombie" /\ proc' = [proc EXCEPT ![p] = Free]
  /\ UNCHANGED <<at, line, env, todo, input, errs>>

\* wait(NULL): any child that has ended; without children it returns at once
Wait ==
  /\ at = "wait" /\ waits > 0
  /\ waits' = waits - 1
  /\ \/ \E p \in Pid : proc[p].state = "zombie" /\ proc' = [proc EXCEPT ![p] = Free]
     \/ (\A p \in Pid : proc[p] = Free) /\ UNCHANGED proc
  /\ UNCHANGED <<at, line, env, todo, input, errs>>

Waited ==
  /\ at = "wait" /\ waits = 0
  /\ at' = "prompt"
  /\ UNCHANGED <<line, env, todo, waits, input, proc, errs>>

------------------------------------------------------------------------------
(* the children                                                             *)

Become(p, state) == proc' = [proc EXCEPT ![p].state = state]

\* stdio's part of exit(): give back what the copy of the buffer still holds
GiveBack(b) ==
  /\ offset' = IF script.seekable /\ offset >= b.hi - b.lo THEN offset - (b.hi - b.lo) ELSE offset
  /\ UNCHANGED <<script, buf>>

\* otherCommands: execv succeeds for a directory of the path, or it fails for
\* all of them; then one message and exit(0).
OtherCommands(p, program, ended) ==
  /\ IF Found(proc[p].cmd, proc[p].env)
       THEN Become(p, program) /\ UNCHANGED <<input, errs>>
       ELSE Become(p, ended) /\ Throw(1) /\ GiveBack(proc[p].buf)
  /\ UNCHANGED shell

\* the only child of a line
OnlyChild(p) == proc[p].state = "only" /\ OtherCommands(p, "program", "reapable")

Fault_ProgramEnds(p) ==
  /\ \/ proc[p].state = "program" /\ Become(p, "reapable")
     \/ proc[p].state = "subprogram" /\ Become(p, "done")
  /\ GiveBack(proc[p].buf)
  /\ UNCHANGED <<shell, errs>>

\* a program that was run comes to its end
ProgramEnds(p) ==
  /\ \/ proc[p].state = "program" /\ Become(p, "reapable")
     \/ proc[p].state = "subprogram" /\ Become(p, "done")
  /\ UNCHANGED <<shell, input, errs>>

\* a parallel child forks a child of its own for a program
ForkAgain(p) ==
  /\ proc[p].state = "parallel" /\ Become(p, "grandchild")
  /\ proc[p].cmd.op = "run"
  /\ UNCHANGED <<shell, input, errs>>

\* that one's otherCommands, and the waitpid of the parallel child
Grandchild(p) == proc[p].state = "grandchild" /\ OtherCommands(p, "subprogram", "done")

Fault_EnvShared(p) ==
  /\ proc[p].state = "parallel" /\ Become(p, "done")
  /\ proc[p].cmd.op \notin {"run", "runaway"}
  /\ env' = Changed(proc[p].cmd, proc[p].env)
  /\ Throw(Messages(proc[p].cmd, proc[p].env))
  /\ UNCHANGED <<at, line, todo, waits, input>>

\* a built-in command in a parallel child changes that child only
ChildBuiltin(p) ==
  /\ proc[p].state = "parallel" /\ Become(p, "done")
  /\ proc[p].cmd.op \notin {"run", "runaway"}
  /\ Throw(Messages(proc[p].cmd, proc[p].env))
  /\ UNCHANGED <<shell, input>>

\* a command of spaces, as between two & or after the last one
ChildRunsAway(p) ==
  /\ proc[p].state = "parallel" /\ proc[p].cmd.op = "runaway"
  /\ \E s \in {"zombie", "done"} : Become(p, s) /\ RunsAway(s = "zombie")
  /\ UNCHANGED <<shell, input>>

\* exit(0) of a parallel child
ChildExit(p) ==
  /\ proc[p].state = "done" /\ Become(p, "zombie")
  /\ GiveBack(proc[p].buf)
  /\ UNCHANGED <<shell, errs>>

ChildStep(p) ==
  \/ OnlyChild(p) \/ ForkAgain(p) \/ Grandchild(p) \/ ChildBuiltin(p)
  \/ ChildRunsAway(p) \/ ProgramEnds(p) \/ ChildExit(p)

------------------------------------------------------------------------------
ParentStep ==
  \/ Getline \/ Blank \/ LeadingAmpersand \/ Builtin \/ LineRunsAway
  \/ Fork \/ WaitPid \/ Split \/ ForkNext \/ Forked \/ Wait \/ Waited
==============================================================================
