------------------------------- MODULE Request -------------------------------
(***************************************************************************)
(* request.c of the Lab4-5 web server, run by the workers of its pool:     *)
(* reading a request, answering it with an error, a file or a CGI program, *)
(* and closing the connection.  The workers share the process's            *)
(* descriptors and its children: wait(NULL) may reap the CGI program of    *)
(* another worker, and a forked child inherits every open connection.      *)
(*                                                                         *)
(* The accept loop of wserver.c and the queue are those of WebServer in    *)
(* larger steps: at most one job is queued, a job is put in and taken out  *)
(* at once.  So main may hand one connection to two workers, or to none,   *)
(* and a worker may go on with a descriptor that it has closed.            *)
(*                                                                         *)
(* A connection is mixed when more than one worker has been at it, or at   *)
(* the file that is sent on it.  What is read from it and written to it is *)
(* then not followed any more: any of it is possible.                      *)
(*                                                                         *)
(* A request is a record: line is what comes first ("GET", "other", or     *)
(* "eof" when the client closes without a word), ends tells whether the    *)
(* empty line comes before the client closes, cgi is strstr(uri, "cgi"),   *)
(* and file is what the name stands for: "missing", "barred" (no regular   *)
(* file, or without the owner's permission), "empty", or by its text.      *)
(***************************************************************************)
EXTENDS Integers, Sequences, FiniteSets

CONSTANTS
  Worker,     \* the threads of the pool
  Conn,       \* the connections clients make
  Kind,       \* what clients may request
  Asks,       \* of these, what may come on each connection
  Text,       \* the files that have one, with their text
  Pid,        \* process ids
  Fd,         \* descriptors, save those that are always open
  NULL,       \* no connection, no descriptor
  FILE,       \* on a descriptor, a file that is being sent
  Junk        \* what the stack of a worker may hold where its fd is

\* What an answer and a file consist of: "cr" and "lf" are characters, "text" is two or
\* more others, "x" is one that ends a file.  None of them is a null.
Unit == {"text", "cr", "lf", "x"}

ASSUME RequestAssumption ==
  /\ IsFiniteSet(Worker) /\ IsFiniteSet(Pid)
  /\ NULL \notin Conn /\ FILE \notin Conn \cup {NULL}
  /\ Fd \subseteq Nat /\ NULL \notin Fd /\ Junk \subseteq Fd \cup {NULL}
  /\ Cardinality(Pid) >= Cardinality(Worker)  \* fork does not run out of them
  /\ \A file \in DOMAIN Text : Text[file] \in Seq(Unit)
  /\ DOMAIN Text \cap {"missing", "barred", "empty"} = {}
  /\ Kind \subseteq [line : {"GET", "other", "eof"}, ends : BOOLEAN, cgi : BOOLEAN,
                     file : {"missing", "barred", "empty"} \cup DOMAIN Text]
  /\ NULL \notin Kind /\ Asks \in [Conn -> SUBSET Kind]

VARIABLES
  main,      \* where main is: "accept", "fill" or "drain"
  connfd,    \* its conn_fd
  jobs,      \* the queued descriptor, or NULL
  came,      \* the connections that have been accepted
  at,        \* where each worker is
  fd,        \* its fd, which keeps the last round's value
  srcfd,     \* the descriptor of the file it sends
  open,      \* what each descriptor stands for: a connection, a file or NULL
  asked,     \* what has been requested on each connection, once it has been read
  served,    \* the connections that a worker has been at
  mixed,     \* those of them that are mixed
  sent,      \* what has been written to a connection before it was mixed
  child,     \* the children: "none", "running" or "zombie"
  out,       \* out[p]: the connection child p was forked to answer, its stdout
  heirs,     \* heirs[p]: the connections child p has inherited and still holds
  aborted    \* an assert has failed, or a signal has come: the process is gone, and
             \* what others still do is not followed

pool  == <<main, connfd, jobs, came>>
files == <<fd, srcfd, open, served, mixed>>
procs == <<child, out, heirs>>
vars  == <<pool, at, files, asked, sent, procs, aborted>>

Init ==
  /\ main = "accept" /\ connfd = NULL /\ jobs = NULL /\ came = {}
  /\ at = [w \in Worker |-> "idle"]
  /\ fd \in [Worker -> Junk]
  /\ srcfd = [w \in Worker |-> NULL]
  /\ open = [f \in Fd |-> NULL]
  /\ asked = [c \in Conn |-> NULL]
  /\ served = {} /\ mixed = {}
  /\ sent = [c \in Conn |-> << >>]
  /\ child = [p \in Pid |-> "none"]
  /\ out = [p \in Pid |-> NULL]
  /\ heirs = [p \in Pid |-> {}]
  /\ aborted = FALSE

\* The process is gone, with its threads and descriptors.
Abort ==
  /\ ~aborted /\ aborted' = TRUE
  /\ main' = "accept" /\ connfd' = NULL /\ jobs' = NULL
  /\ at' = [w \in Worker |-> "idle"]
  /\ fd' = [w \in Worker |-> NULL] /\ srcfd' = [w \in Worker |-> NULL]
  /\ open' = [f \in Fd |-> NULL]
  /\ child' = [p \in Pid |-> "none"] /\ out' = [p \in Pid |-> NULL]
  /\ heirs' = [p \in Pid |-> {}]
  /\ UNCHANGED <<came, served, mixed, asked, sent>>

\* The lowest descriptor that is free, which accept and open return.
Free == {f \in Fd : open[f] = NULL}

Lowest(f) == f \in Free /\ \A g \in Free : f <= g

\* what the descriptor f stands for
On(f) == IF f \in Fd THEN open[f] ELSE NULL

\* w is busy with a request
Busy(w) == at[w] \notin {"idle", "take"}

\* the connections whose file f is taken to be
Sending(f) == {On(fd[v]) : v \in {w \in Worker : at[w] = "map" /\ srcfd[w] = f}} \cap Conn

\* A worker still means something else by f.
Stale(f) == \E w \in Worker : (Busy(w) /\ fd[w] = f) \/ (at[w] = "map" /\ srcfd[w] = f)

\* The connections cs are mixed from now on.
Mix(cs) ==
  /\ mixed' = mixed \cup cs
  /\ asked' = [c \in Conn |-> IF c \in cs THEN NULL ELSE asked[c]]
  /\ sent' = [c \in Conn |-> IF c \in cs THEN << >> ELSE sent[c]]

------------------------------------------------------------------------------
(* main, on the queue                                                       *)

\* accept_or_die
Accept(c) ==
  /\ ~aborted /\ main = "accept" /\ main' = "fill"
  /\ c \notin came /\ came' = came \cup {c}
  /\ \E f \in Fd :
       /\ Lowest(f) /\ connfd' = f
       /\ open' = [open EXCEPT ![f] = c]
       /\ LET touched == IF Stale(f) THEN {c} ELSE {}
          IN  served' = served \cup touched /\ Mix(touched)
  /\ UNCHANGED <<jobs, at, fd, srcfd, procs, aborted>>

\* no descriptor is left: accept fails, and its assert with it
AcceptFails == main = "accept" /\ came # Conn /\ Free = {} /\ Abort

\* the while: as long as the queue is empty the connection is enqueued
Fill ==
  /\ ~aborted /\ main = "fill"
  /\ IF jobs = NULL THEN jobs' = connfd /\ UNCHANGED main
     ELSE main' = "drain" /\ UNCHANGED jobs
  /\ UNCHANGED <<connfd, came, at, files, asked, sent, procs, aborted>>

\* after the signal main empties the queue
Drain ==
  /\ ~aborted /\ main = "drain" /\ main' = "accept" /\ jobs' = NULL
  /\ UNCHANGED <<connfd, came, at, files, asked, sent, procs, aborted>>

------------------------------------------------------------------------------
(* the worker                                                               *)

Move(w, from, to) == ~aborted /\ at[w] = from /\ at' = [at EXCEPT ![w] = to]

\* The worker finds a job in the queue.  It holds m until it has dequeued.
Test(w) ==
  /\ Move(w, "idle", "take")
  /\ jobs # NULL /\ \A v \in Worker : at[v] # "take"
  /\ UNCHANGED <<pool, files, asked, sent, procs, aborted>>

\* Queue_Dequeue sets fd, but if main has emptied the queue in between fd is what
\* it was.  With that the worker calls request_handle.
Begin(w) ==
  /\ Move(w, "take", "line")
  /\ LET f == IF jobs = NULL THEN fd[w] ELSE jobs
     IN  /\ fd' = [fd EXCEPT ![w] = f]
         /\ served' = served \cup ({On(f)} \cap Conn)
         /\ Mix(({On(f)} \cap served) \cup Sending(f))
  /\ jobs' = NULL
  /\ UNCHANGED <<main, connfd, came, srcfd, open, procs, aborted>>

\* The connection is w's alone.
Own(w) == On(fd[w]) \in Conn \ mixed

\* what w may have read
Req(w) == IF Own(w) THEN {asked[On(fd[w])]} ELSE Kind

\* A write to the descriptor of w; to a file it fails.
Write(c, text) == sent' = [sent EXCEPT ![c] = @ \o text]

Answer(w, text) ==
  /\ On(fd[w]) \in Conn
  /\ IF Own(w) THEN Write(On(fd[w]), text) ELSE UNCHANGED sent

\* A read, a write or a close of a descriptor that is not open, or a write to a
\* file, fails its assert.
BadFd(w) == Busy(w) /\ at[w] # "wait" /\ On(fd[w]) \notin Conn /\ Abort

\* The client may be gone before everything is written or read: a reset, or SIGPIPE.
Reset(w) == at[w] \in {"line", "headers", "stat", "map", "fork"} /\ Abort

HeadLine  == <<"text", "cr", "lf">>
EmptyLine == <<"cr", "lf">>

\* request_error: lines of header (one stands for them), the empty one, and a body
ErrorText == HeadLine \o EmptyLine \o <<"text", "cr", "lf">>

\* request_serve_static: the header, and the file
StaticText(file) == HeadLine \o EmptyLine \o Text[file]

\* A CGI program ends the header that the server has begun, and writes a body.
\* An empty file cannot be executed: an assert ends the child.
Output(file) == IF file = "empty" THEN << >> ELSE HeadLine \o EmptyLine \o Text[file]

\* readline and sscanf of the request line; if nothing came, method is an array
\* nobody has written, which may hold the GET of an earlier request
RequestLine(w) ==
  /\ Own(w)
  /\ \E q \in Asks[On(fd[w])] :
       /\ asked' = [asked EXCEPT ![On(fd[w])] = q]
       /\ \/ Move(w, "line", "headers") /\ q.line \in {"GET", "eof"} /\ UNCHANGED sent
          \/ Move(w, "line", "close") /\ q.line \in {"other", "eof"} /\ Answer(w, ErrorText)
  /\ UNCHANGED <<pool, files, procs, aborted>>

\* request_read_headers: readline until the empty line.  At the end of the
\* input readline gives empty strings for ever, and the loop goes on.
ReadHeaders(w) ==
  /\ Move(w, "headers", "stat") /\ Own(w)
  /\ \A q \in Req(w) : q.line = "GET" /\ q.ends
  /\ UNCHANGED <<pool, files, asked, sent, procs, aborted>>

\* Two workers that read one request each get a part of it, and may wait for ever
\* for what the other has got; a descriptor may also be that of a file by now.
ReadMixed(w) ==
  /\ ~Own(w) /\ On(fd[w]) # NULL
  /\ \/ Move(w, "line", "headers") /\ UNCHANGED sent
     \/ Move(w, "line", "close") /\ Answer(w, ErrorText)
     \/ Move(w, "headers", "stat") /\ UNCHANGED sent
  /\ UNCHANGED <<pool, files, asked, procs, aborted>>

Fault_ReturnsSilently(w) ==
  /\ Move(w, "stat", "close")
  /\ \E q \in Req(w) : q.file \in {"missing", "barred"}
  /\ UNCHANGED <<pool, files, asked, sent, procs, aborted>>

\* request_parse_uri, stat: 404, 403
Refuse(w) ==
  /\ Move(w, "stat", "close")
  /\ \E q \in Req(w) : q.file \in {"missing", "barred"}
  /\ Answer(w, ErrorText)
  /\ UNCHANGED <<pool, files, asked, procs, aborted>>

\* stat found a file to be served
Found(w) ==
  /\ at[w] = "stat"
  /\ \E q \in Req(w) :
       /\ q.file \notin {"missing", "barred"}
       /\ IF q.cgi THEN Move(w, "stat", "fork") ELSE Move(w, "stat", "file")
  /\ UNCHANGED <<pool, files, asked, sent, procs, aborted>>

\* request_serve_static: open
OpenFile(w) ==
  /\ Move(w, "file", "map")
  /\ \E f \in Fd :
       /\ Lowest(f) /\ srcfd' = [srcfd EXCEPT ![w] = f]
       /\ open' = [open EXCEPT ![f] = FILE]
       /\ Mix(IF Stale(f) THEN {On(fd[w])} \cap Conn ELSE {})
  /\ UNCHANGED <<pool, fd, served, procs, aborted>>

\* mmap, close, write, munmap
ServeStatic(w) ==
  /\ Move(w, "map", "close")
  /\ On(srcfd[w]) = FILE /\ open' = [open EXCEPT ![srcfd[w]] = NULL]
  /\ srcfd' = [srcfd EXCEPT ![w] = NULL]
  /\ \E q \in Req(w) : q.file \in DOMAIN Text /\ Answer(w, StaticText(q.file))
  /\ UNCHANGED <<pool, fd, asked, served, mixed, procs, aborted>>

\* the file that stat found may be gone or not ours to read, or no descriptor is left
OpenFails(w) == at[w] = "file" /\ Abort

\* mmap of 0 bytes fails, and so it does of what is no file
MmapFails(w) ==
  /\ at[w] = "map" /\ (On(srcfd[w]) # FILE \/ \E q \in Req(w) : q.file = "empty")
  /\ Abort

Fault_NothingInherited(w) ==
  /\ Move(w, "fork", "wait")
  /\ Answer(w, HeadLine)
  /\ \E p \in Pid :
       /\ child[p] = "none"
       /\ child' = [child EXCEPT ![p] = "running"]
       /\ out' = [out EXCEPT ![p] = On(fd[w])]
  /\ UNCHANGED <<pool, files, asked, heirs, aborted>>

\* request_serve_dynamic: the first lines of the header, fork.  The child has all
\* connections that are open: of all workers, of main, and those main has dropped.
Fork(w) ==
  /\ Move(w, "fork", "wait")
  /\ Answer(w, HeadLine)
  /\ \E p \in Pid :
       /\ child[p] = "none"
       /\ child' = [child EXCEPT ![p] = "running"]
       /\ out' = [out EXCEPT ![p] = On(fd[w])]
       /\ heirs' = [heirs EXCEPT ![p] = {open[f] : f \in Fd} \cap Conn]
  /\ UNCHANGED <<pool, files, asked, aborted>>

Fault_NoWait(w) ==
  /\ Move(w, "wait", "close")
  /\ UNCHANGED <<pool, files, asked, sent, procs, aborted>>

Fault_WaitTwice(w) ==
  /\ Move(w, "wait", "close")
  /\ \E p, q \in Pid :
       /\ p # q /\ child[p] = "zombie" /\ child[q] = "zombie"
       /\ child' = [child EXCEPT ![p] = "none", ![q] = "none"]
  /\ UNCHANGED <<pool, files, asked, sent, out, heirs, aborted>>

\* wait_or_die(NULL): any child that has ended, or the assert fails without one
NoChild == \A p \in Pid : child[p] = "none"

Wait(w) ==
  \/ /\ Move(w, "wait", "close")
     /\ \E p \in Pid : child[p] = "zombie" /\ child' = [child EXCEPT ![p] = "none"]
     /\ UNCHANGED <<pool, files, asked, sent, out, heirs, aborted>>
  \/ at[w] = "wait" /\ NoChild /\ Abort

\* close_or_die(fd)
Close(w) ==
  /\ Move(w, "close", "idle")
  /\ On(fd[w]) # NULL /\ open' = [open EXCEPT ![fd[w]] = NULL]
  /\ UNCHANGED <<pool, fd, srcfd, asked, served, mixed, sent, procs, aborted>>

------------------------------------------------------------------------------
(* the child: setenv, dup2, execve; the program writes its output and ends, *)
(* or the assert of execve fails in the child                               *)

Ends(p) ==
  /\ ~aborted /\ child[p] = "running" /\ child' = [child EXCEPT ![p] = "zombie"]
  /\ IF out[p] \in mixed THEN UNCHANGED sent
     ELSE Write(out[p], Output(asked[out[p]].file))
  /\ out' = [out EXCEPT ![p] = NULL] /\ heirs' = [heirs EXCEPT ![p] = {}]
  /\ UNCHANGED <<pool, at, files, asked, aborted>>

WorkerStep(w) ==
  \/ Begin(w) \/ RequestLine(w) \/ ReadHeaders(w) \/ Refuse(w) \/ Found(w)
  \/ OpenFile(w) \/ ServeStatic(w) \/ OpenFails(w) \/ MmapFails(w) \/ BadFd(w)
  \/ Fork(w) \/ Wait(w) \/ Close(w)

MainStep == Fill \/ Drain

Next ==
  \/ \E c \in Conn : Accept(c)
  \/ AcceptFails \/ MainStep
  \/ \E w \in Worker : Test(w) \/ WorkerStep(w) \/ ReadMixed(w) \/ Reset(w)
  \/ \E p \in Pid : Ends(p)

\* Threads are scheduled and CGI programs end.  Clients need not come, a waiting
\* worker need not be woken before main empties the queue, and a mixed read may block.
Fairness ==
  /\ WF_vars(MainStep)
  /\ \A w \in Worker : WF_vars(WorkerStep(w))
  /\ \A p \in Pid : WF_vars(Ends(p))

Spec == Init /\ [][Next]_vars /\ Fairness

------------------------------------------------------------------------------
(* Properties                                                               *)

TypeOK ==
  /\ main \in {"accept", "fill", "drain"}
  /\ connfd \in Fd \cup {NULL} /\ jobs \in Fd \cup {NULL}
  /\ came \in SUBSET Conn /\ served \in SUBSET came /\ mixed \in SUBSET served
  /\ at \in [Worker -> {"idle", "take", "line", "headers", "stat", "file", "map",
                        "fork", "wait", "close"}]
  /\ fd \in [Worker -> Fd \cup {NULL}] /\ srcfd \in [Worker -> Fd \cup {NULL}]
  /\ open \in [Fd -> came \cup {NULL, FILE}]
  /\ asked \in [Conn -> Kind \cup {NULL}]
  /\ sent \in [Conn -> Seq(Unit)]
  /\ child \in [Pid -> {"none", "running", "zombie"}]
  /\ out \in [Pid -> came \cup {NULL}]
  /\ \A p \in Pid : child[p] = "running" => out[p] \in served
  /\ heirs \in [Pid -> SUBSET came]
  /\ aborted \in BOOLEAN

Children == {p \in Pid : child[p] # "none"}
Waiting  == {w \in Worker : at[w] = "wait"}

\* There are as many children as workers that wait for one, although a worker
\* may reap the child of another: no wait finds no child, and no child is left
\* unreaped once the workers are done.
ChildPerWaiter == Cardinality(Children) = Cardinality(Waiting)

\* What a request should be answered with.
Response(q) ==
  IF q.line # "GET" \/ q.file \in {"missing", "barred"} THEN ErrorText
  ELSE IF q.cgi THEN HeadLine \o Output(q.file) ELSE StaticText(q.file)

Held(c)    == \E f \in Fd : open[f] = c
Writing(c) == \E p \in Pid : child[p] = "running" /\ out[p] = c

\* A connection that one worker only has been at, and that was closed, has been
\* given one whole answer, that of its own request, but for what its CGI program has
\* still to write: its worker may have reaped another's program and closed before.
OneAnswer ==
  \A c \in served \ mixed :
    ~aborted /\ ~Held(c) => sent[c] = IF Writing(c) THEN HeadLine ELSE Response(asked[c])

\* Does not hold: io_helper.h:62 asserts of every mmap that it succeeds.  So no
\* request should end with that assert; but a file may be empty.
MmapSucceeds == [][\A w \in Worker : ~MmapFails(w)]_vars
==============================================================================
