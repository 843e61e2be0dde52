# Verification of the CMPE320 operating-systems programs

This directory specifies the programs of this repository in TLA+: the
concurrent queue and the web server of Lab4-5, the semaphore exercises of
chapter 31, the shells of `Project` and `Lab2`, the two compressors of `Project2`
and the vote server of `Lab3`. TLC checks small instances of every module; TLAPS
proves the main safety properties of each program for every value of the
constants.

    tlc -config LinkedQueue.cfg MCLinkedQueue     # any run of the table below
    tlapm LinkedQueueProofs.tla                   # any proof module

## 1. Inventory

The repository is a set of independent C programs. Only the web server is made
of several parts that interact.

| Component | State it keeps | Operations | What makes it hard | Correct when |
|---|---|---|---|---|
| Queue (`Lab4-5/Concurrent Queue/queue.c`, copied into `concurrency-webserver`) | linked list with a dummy node, `head`, `tail`, one lock for each end | `Queue_Init`, `Queue_Enqueue`, `Queue_Dequeue`, `Queue_Empty`, `Empty_Queue` | enqueuers and dequeuers hold different locks and meet on the dummy; `Queue_Empty` takes no lock; nodes are freed and reused | it is a first-in first-out queue; no freed node is touched |
| Its test program (`main.c`) | threads, the loop counters | create, enqueue, join, drain, free | the queue is freed while threads may be inside | everything comes out, per thread in order; it ends |
| Thread pool and accept loop (`wserver.c`, `thread_pool.c`) | `jobs`, mutex `m`, condition `fill`, open descriptors | accept, enqueue while empty, signal, drain; lock, wait, dequeue, handle, close | main uses the queue without `m`; results are not looked at; spurious wakeups | one worker inside, main comes back to accept, every connection has one handler (which the code does not keep: section 3) |
| Request handling (`request.c`, macros of `io_helper.h`) | the connection, the process's descriptors and children, inherited connections | read, refuse, serve a file, run a CGI program | `wait(NULL)` of several threads; `fork` in a threaded process; a descriptor that is closed, reused and still meant by another; asserts that end the server | one answer on a connection that one worker has, no child left |
| Web client (`wclient.c`, `spin.c`, `readline` of `io_helper.c`) | what it has read and printed | send a request; print the header in pieces, the body line by line | `read` cuts where it likes; `readline` answers 0 for an empty line, too; the connection ends only when no child holds it | it prints the answer and ends |
| Rendezvous, barrier, readers-writers lock (`question2.c` to `question4.c`) | semaphores and counts | arrive, wait, post; acquire, release | lost wakeups, tests outside of the mutex, starvation | before/after order, exclusion, no lost update, termination |
| Shell (`Project/processShell.c`, `utilities.c`) | input file and buffer, search path, children | built-ins, one command, parallel commands | children share the input's offset; a fixed number of waits; built-ins in children; where a redirection ends | each line once, in order, as written; environment and errors as if the lines ran one by one; all children awaited; it exits |
| First shell (`Lab2/processShell.c`, `utilities.c`, `otherCommands.c`) | the same without parallel commands | looks for a redirection before the end of the file; carries it out itself | bounds of loops that compare a character with a length; a line without a word | the same |
| Zip (`Project2/wzip.c`) | current character, count | read, compare, write | `EOF` in a `char`; runs across files | the records stand for the input |
| Parallel zip (`Project2/wzipThreads.c`) | mapped string, chunks, texts | cut, encode in threads, join, write; collect small files | where to cut, order of output, text that mixes counts and characters | the records stand for the input |
| Vote server and client (`Lab3`) | connections, buffer, candidates, votes | connect, send, receive; accept, echo, vote | TCP cuts the stream; the buffer is not cleared; one client at a time | the echo is the message; votes add up; all are served |

`PROJECT.json` lists the hazards of each at the line where they bite.

## 2. Modules

| Module | Models | Notes |
|---|---|---|
| `FifoQueue` | what the queue promises | abstract: call, instant of effect, result |
| `LinkedQueue`, `MCLinkedQueue`, `LinkedQueueProofs` | `queue.c` | most general client: any thread calls anything at any time |
| `QueueMain`, `MCQueueMain`, `QueueMainProofs` | `main.c` | composes `LinkedQueue` with producers and main |
| `WebServer`, `WebServerProofs` | `wserver.c`, `thread_pool.c` | composes `LinkedQueue` with the accept loop and workers |
| `Request`, `RequestProofs` | `request.c`, with the accept loop and the pool in larger steps | several workers of one process, its descriptors and its children |
| `WebClient`, `MCWebClient` | `wclient.c`, `spin.c`, `readline` | composes `Request` with clients |
| `BeforeAfter` | what questions 2 and 3 ask for | abstract |
| `Semaphores` | semaphores and places of threads | shared by the next two |
| `Barrier` | `question3.c` | implements `BeforeAfter` |
| `RWLock` | `question4.c` | lock and its users |
| `SemaphoreProofs` | | proofs about `Barrier` and `RWLock` |
| `ShellLine` | `Project/utilities.c` | a line taken apart, as operators; what it says, read off at once |
| `Shell` | `Project/processShell.c` | parent, children, shared file offset |
| `FirstShell` | `Lab2` | what differs from `Shell` |
| `Shells`, `MCShell`, `ShellProofs` | either of them on an input | the specification and its properties |
| `RunLength` | records of both compressors | encoding of a count in four bytes and its decoding |
| `Wzip`, `MCWzip` | `wzip.c` | |
| `WzipThreads`, `MCWzipThreads` | `wzipThreads.c` | |
| `WzipProofs` | | proofs about both compressors |
| `VoteServer`, `MCVoteServer`, `VoteServerProofs` | `Lab3` | server, clients and TCP |

Operators named `Fault_...` stand in front of some actions. They are not part
of a specification: each is a plausible slip in the definition it precedes, and
the property it belongs to fails with it (`PROJECT.json`, "mutants").

### Correspondence with the code

- **LinkedQueue.** `pc[t]` is where a thread is in `queue.c`. A step makes at
  most one access another thread can race with: taking a lock is merged with the
  first access under it, releasing it with the last. The two stores of an
  enqueue are two steps, because a dequeuer with the other lock comes between
  them; the loads and the stores of a dequeue under `head_lock` are two steps;
  the four loads of `Queue_Empty` are up to four steps without a lock. A freed
  node goes back to `Node` and may be handed out again at once. A `Queue_Empty`
  that runs off its end answers anything in `Junk`. Memory is sequentially
  consistent: on x86, and for the accesses under locks everywhere, this is what
  the code gets.
- **WebServer.** `at[t]` is the place in the caller, `pc[t]` in the queue. A
  worker's `fd` is the slot `Queue_Dequeue` fills in, which keeps the last
  round's value when nothing was dequeued. `open` is the descriptor table:
  `accept` picks any descriptor not in use, so one is reused after a close. A
  failed assert sets `aborted`, after which nothing moves. The `if` around
  `Empty_Queue` is always true, since signalling an initialised condition
  variable succeeds.
- **Request.** A request is reduced to what the control depends on: whether a
  request line comes and names GET, whether the headers end, whether the name
  contains "cgi", and what the file is. `Accept`, `Fill`, `Drain`, `Test` and
  `Begin` are the loops of `wserver.c` and `thread_pool.c` as `WebServer` has them,
  in larger steps: the queue holds no job or one (`AtMostOneJob` there), and a
  job is put in or taken out at once. So a connection may be handed to two workers,
  or dropped, and a worker whose dequeue finds nothing goes on with the `fd` of its
  last round, or with what its stack held (`Junk`). `open` is the descriptor table;
  `accept` and `open` return the lowest free descriptor, which may be one that
  another worker still means, or the file that another one is sending. A connection
  is `mixed` from the moment a second worker, or a second use of its descriptor, is
  at it: its workers still take every path (`ReadMixed`, and `Req` is any request),
  but what is read from it and written to it is not followed. An operation on a
  descriptor that is not open fails its assert (`BadFd`); a client that is gone ends
  the server by a signal or a failed read (`Reset`); either way `Abort` is the end of
  the process. `heirs[p]` are the connections a child has inherited; nothing is
  marked close-on-exec. `Wait` is also the assert of `wait_or_die`; that it never
  fails follows from `ChildPerWaiter`, and is the lemma `WaitFindsChild`.
- **WebClient.** An answer is a sequence of units: the characters `\r` and `\n`,
  one that is neither, and longer stretches of text. `ReadPiece` is a `read` that
  returns any part of what is there, also a part of a line. `FindEmptyLine` is a
  `read` that returns just `\r\n`: of the empty line, or the last two bytes of a line
  of the header, in which case the client goes on as if the header had ended and
  never prints them; a `\r` alone is taken for it, too, in front of a `\n` that an
  earlier read has left. What printf finds behind a piece in a buffer that nobody
  terminates is left out of `printed`; that the comparison sees such bytes, too,
  makes `FindEmptyLine` a choice. `readline` returns 0 for the end, for a line that
  is only a newline, and for a single last character, and the client stops at 0.
- **Barrier, RWLock.** Each `Sem_wait` and `Sem_post` is a step,
  merged with a neighbouring access only when a mutex protects it. `value++` is
  a load and a store. The sleeps change nothing that can be observed.
- **ShellLine.** A line is a sequence of words and marks (space, tab, `>`, `&`,
  newline). Each function of `utilities.c` is an operator of its name on it, and
  `Read` is what `processShell` makes of a line: its kind and its commands.
  `Strtok` and `Without` find the units that a scan keeps as sets of places, the
  k-th of which is `Nth`. `IsLine` is what `getline` gives: a newline at the end
  only, and no two words without a mark between them, since they would be one.
- **Shell.** `script` is the input: its lines, and whether it can be sought (a
  file) or not (a pipe). A line is one unit of the file. `Getline` takes the
  next line of the buffer and fills it when it is empty; a fork copies the
  buffer and the environment (search path, working directory); `exit` in a child
  moves the shared offset of a regular file back over what its copy still holds,
  as glibc does. Whether `execv` finds the program depends on the path the child
  has inherited. A command without any character runs off its buffers
  (`RunsAway`): the process crashes, or meets up to two errors on the way.
- **FirstShell.** Only what `Lab2` does differently; the rest is `Shell`. Its
  search for a redirection compares each character with the length of the line,
  so a redirection is found only behind enough characters of low codes in a line
  long enough: `Width` and `Code` say of a unit how long it is and what its
  characters are. Whether the buffer still holds the last line at the end of the
  file depends on the C library: both are allowed. If it does, the search for a
  redirection goes over that line again, and one that is bad is reported again.
- **Wzip.** `Getc` yields the byte `FF` at the end of the stream, as the `char`
  does. The byte read is chosen and then constrained, so that both branches of
  the `if` are disjuncts.
- **WzipThreads.** Characters are digits, letters or the null character, which
  is what `atoi` and `strlen` tell apart. The two loops of `encodeRLE` and `writeOutput` are
  recursive functions of the character reached. `MayEnd` is the condition of the `if`
  in `defineChunks`. A mapping that ends on a page border has no null character
  behind it: the string goes on into `Beyond`, or the program crashes. For the
  first character of a chunk shorter than three the comparison is with a
  variable without a value: both outcomes are allowed. For an empty chunk, and
  for an empty input, the program writes a record (1, NUL), since `encodeRLE` starts
  from a count of 1 and the character at the start of the string, its null. The
  models write it, too; but `Meaning`, by which `WrittenInOrder`, `SmallFilesWhole`
  and their theorems read the records, leaves it out: that such a record stands in
  the output for nothing in the input is not counted against the program there.
- **VoteServer.** `up` and `down` are the bytes under way; a receive takes any
  non-empty prefix that fits. The server's local buffer holds anything when a
  client is accepted. Counts wrap around as a signed `char` does. The table has
  `BufSize` places and nobody looks whether they are used up: one candidate more is the step `Overrun`, behind
  which the memory of the server is anything and nothing is followed.

## 3. Runs

Passing runs:

| Run | Instance | Properties and what they say |
|---|---|---|
| `LinkedQueue` | 3 threads, 3 nodes, 1 value | `TypeOK`. `QueueInv`: the list is a chain from head to tail whatever is interleaved. `LockedAccessesAlive`: no access under a lock, and no free, touches a freed node, although `q->tail` may dangle for a moment. `NoLeak`: an allocated node is in the list or in the hands of one thread. `ImplementsFifo`: the queue refines `FifoQueue`; "empty" is only answered at an instant at which it is empty |
| `QueueMain` | 2 producers of 2 numbers, 5 nodes | `PrintedInOrder`: each producer's numbers come out in its order. `AllPrintedAtFree`: nothing is left, and no thread is inside, when the queue is freed. `MainEnds` |
| `WebServer` | 2 workers, 1 descriptor, 2 connections, 4 nodes | `ServerTypeOK`. `OneWorkerInside`: the mutex keeps the other workers out. `QueueSound`: main's use of the queue without the mutex does it no harm. `AtMostOneJob`: there is never a second job in the queue, none when main is back at accept, and a fourth node is never used. `MainComesBack`: no draining loop goes on for ever |
| `Request` | 2 workers, 2 connections, one of them `wclient`'s, 3 descriptors, 2 processes, 5 kinds of request | `ChildPerWaiter`: as many children as workers in `wait`, although a worker may reap another's child and two may serve one connection. `OneAnswer`: a connection that one worker only has been at is given the whole answer to its own request and nothing else, whatever is reused around it. `PrintsAnswer`: the client of such a connection prints it, however it is cut and but for one piece taken for the empty line, the output of a CGI program included, whoever reaped the program. `ClientEnds`: unless main drops or doubles its connection, it sees the end although children of other requests inherited it |
| `Barrier` | 4 children | `NoLostWakeup`, `ImplementsBeforeAfter`, `AllJoined` |
| `RWLock` | 3 readers, 2 writers, 2 rounds | `Exclusion`, `Stable` (what a thread has read stays until it leaves or stores), `NothingLost`, `Ends` |
| `Shell` | every line of up to four units of six kinds, one to an input; inputs of all kinds of line from a pipe; a script file in which no child ends early; the first shell on inputs of its own | `NoChildLeft` (with at most three commands in a line). `AsOneByOne`: path, directory and number of errors at the end are those of the lines carried out one by one; the first shell may report a bad redirection of the last line once more. `RunsAsWritten`: a program gets the words before the `>`, and its output goes to the one behind it. `OnceInOrder`: no line is run twice or skipped. `Exits` |
| `Wzip` | one file of at most 5 bytes or two of at most 2, of 3 bytes | `NothingLost`: the records stand for what was read. `RunsWhole`: a run across two files is one record |
| `WzipThreads` | one file of at most 9 letters or 5 characters of any kind, or two, large or small | `ChunksInOrder`: the chunks cut no run and are consecutive. `WrittenInOrder`: they are written in that order whichever thread is first. `SmallFilesWhole`: small files alone become one stream. `Ends` |
| `VoteServer` | 3 clients, one may be killed, 5 messages of up to 3 letters, buffer and table of 2 | `EchoWhole`: what comes back is what was sent however TCP cuts it. `VoteFromMessage`. `VotesAddUp`: as long as the table is not overrun, each candidate has a place and its votes. `EveryoneServed`: unless the server hangs, dies or overruns its table |

Runs in which the code does not do what it says of itself:

| Run | Property | What happens |
|---|---|---|
| `WebServer_close` | `CloseSucceeds`: the assert of `close_or_die` never fails | main drains the queue between a worker's test and its dequeue, or two workers have one connection: the second close asserts and the server ends |
| `Shell_eof` | `Exits`: the loop ends at the end of the file | a child that fails gives the lines its copy of the buffer still holds back to the shared offset: the shell reads them again and again |

### Known deviations

Other statements of the repository that its code does not keep. Each is stated
as a property in the module, with the quoted line and a comment that begins
"Does not hold"; put its name into the module's configuration to see how.

| Property | Module | What happens |
|---|---|---|
| `EqualEndsAnswerEmpty` | `LinkedQueue` | head equals tail but an enqueuer has just linked its node: `Queue_Empty` ends without a value |
| `WorkerHasJob` | `WebServer` | a worker gets past the test and its dequeue finds nothing |
| `ConnectionAnswered` | `WebServer` | main's own `Empty_Queue` takes the connection and drops it: nobody answers it, and its descriptor stays open (`Dropped` in `WebClient`). The loop before may also hand it to two workers, which is what `WebServer_close` ends with and what `mixed` stands for in `Request` |
| `MmapSucceeds` | `Request` | an empty file ends the server |
| `PrintsEveryAnswer` | `WebClient` | the client takes the end of a header line, read alone, for the empty line and does not print it; it stops at an empty line of the body and drops a single last character |
| `AllRunAsWritten` | `Shells` | `ls f > f` runs `ls` without the `f`, `> f` runs `f` without any argument; the first shell hands on one argument, or the `>` as one |
| `ReadToTheEnd` | `Wzip` | the byte 255 ends the program |
| `ChunksCoverFile` | `WzipThreads` | the last chunk, too, has only about a third of the file |
| `SmallFilesWritten` | `WzipThreads` | small files before a large last one are lost |
| `TextParses` | `WzipThreads` | digits of a file become counts |

A line of the shell with four parallel commands leaves a child behind, since
`processShell.c` waits at most three times: add such a line to `Inputs` of
`MCShell` and `NoChildLeft` fails. The children of question 2 never wait for
each other (section 5).

Of the shells, the models also show what no statement of the repository speaks
of. In that of `Project`, two spaces behind a `>` are an error; a built-in takes
the file of a redirection for an argument; a line that ends in `&`, or two `&`
in a row with a space between, gives a command that runs off its buffers. That of
`Lab2` finds a redirection in practically no line shorter than 62 characters,
crashes on a blank line, adds to its path where the other replaces it, and, with
a C library that leaves the line at the end of the file alone, carries out a last
line with a redirection for ever.

### Bounds

- Three threads in the queue are one at each end and one in between (in
  `Queue_Empty`, or waiting for a lock). Three nodes are the dummy, a linked
  node and a private one, and force reuse at once; an enqueue that finds none
  free waits. With one value the refinement still tells apart how many are in
  the queue and when it is empty; the order of different values is checked
  through `QueueMain`, where every number is different, and proved in general.
- The web server never holds more than two nodes in the list and three in use
  (`AtMostOneJob`), and the fourth node shows that it is so; two workers are
  enough for two handlers of one connection, and a second connection on the one
  descriptor is one that is reused while a worker still holds it.
- Two workers of `Request` are enough to reap each other's child, to be handed one
  connection, and to close a descriptor the other still means. Three descriptors
  are two connections and a file: one more open file, or a connection main has
  dropped, makes `accept` or `open` find none. `Junk` is the first descriptor that
  is used, so a worker without a job may hit a connection before it has had one.
  One file has plain lines, one ends in what `readline` cannot tell from the end;
  requests that come to the same answer are left to one of each kind. The three
  standard descriptors, which stay open, are left out.
- The barrier's count and post chain differ for one, two and more children: four
  is one more than any case distinction of the code.
- Three readers give a first, a last and a middle one; two writers exclude each
  other.
- Four units of a line are enough for each pair of marks in a row with a word on
  either side; longer lines stand in the input files. Memory from `malloc` that
  the shells read before they write it is taken to be zero, as it is in a fresh
  process.
- `BufLines` is how many lines one read fetches, more than the lines before the
  first failing command. `MaxErrs` (30 in the passing run) is above what the
  scripts can reach, so the count is exact; in `Shell_eof` the bound keeps the
  endless repetition finite.
- `BufSize` of `VoteServer` is both `BUFSIZE` of the code: 2 makes a message of three
  need two receives of the server and of the client (which leaves a place for the
  null character), and fills the table with two candidates: a third vote, for a null byte
  of the uncleared buffer, finds no place in it.
- `Limit` and `Page` of `WzipThreads` are 3 and 4 in place of 4096 both: files
  of 4 and 8 characters end on a page border. `Wrap` 4 makes the count of
  `VoteServer` wrap around at the second vote.
- `CHECK_DEADLOCK FALSE` stands in every configuration: the programs end, and
  the servers stop when no client comes any more.

### Fairness

Weak fairness of each thread or process stands for the scheduler: a thread that
can run is run. It is enough, since every lock and semaphore a thread waits for
is, in these instances, in the end left to it; where a program's own loops are
bounded (`Loops`, `Items`) starvation is bounded as well. Clients need not
connect, no wakeup is spurious unless it happens, nobody is killed unless it
happens. The programs a shell or the server runs end. In `Request` a worker that
waits for a job need not be woken before main empties the queue, and a read on a
mixed connection may block for ever, so neither has fairness. `ClientEnds` starts
when the connection is accepted and is about clients that send a whole request: a
client that leaves in the middle of its headers keeps its worker in the header
loop for ever, and the code promises nothing there. It excuses what the code does
not do: a connection that main dropped, or gave to two workers, and a server that an
assert or a signal has ended.

## 4. Proofs

All theorems are for every value of the constants that satisfies the named
assumption of the module.

- **LinkedQueueProofs** (`QueueAssumption`): `TypeSafety`, `QueueSafety`,
  `MemorySafety`, `LeakSafety`, `Refinement`. `TypeOK /\ QueueInv` is inductive. Its parts are
  the chain (`ChainLinked`), how far the tail lags (`TailLags`), what a dequeuer
  with `head_lock` may rely on (`HeadHeld`), and that a node which is not yet
  or no longer linked belongs to one thread (`PrivateNodes`), which keeps two
  threads from linking or freeing one node. One lemma per action; actions that
  touch only a thread's own place share `QuietStep`. Under the invariant each
  step of the queue is a step of `FifoQueue` or a stutter. A last section states
  what the programs that use the queue need to know of its steps.
- **WebServerProofs** (`QueueAssumption`, `ServerAssumption`): `ServerTypeSafety`,
  `MutexSafety`, `ServerUsesQueue`, `OneJobSafety`, `ServerQueueSafety`. `Roles`
  says which thread calls what: only main enqueues. Every step of the server is
  then one of the queue's most general client (`ServerIsClient`), so the queue's
  theorems hold in it. `MainView` is what main's loads without a lock are worth: an
  answer "empty" means that only the dummy is linked, because no other thread
  adds to it. From that, one job at most, and at most three nodes.
- **QueueMainProofs** (`QueueAssumption`, `MainAssumption`): `MainUsesQueue`,
  `InOrder`, `NothingLeft`. The joins give `Joined`: when main empties the queue,
  the others are out of it, so that the tail does not lag and an answer "empty" is
  true (`View`). What has been linked so far is followed as one sequence
  (`Taken`): what is printed, what main holds, what is in the queue. Only
  the linking of a node makes it longer; every other step leaves it as it is
  (`KeptStep`). Each number stands in it as often as there are threads that
  have linked it (`Balanced`), which gives the order and, at the end, the count.
- **SemaphoreProofs**, the barrier (`NAssumption`): `BarrierTypeSafety`,
  `WakeupSafety`, `BarrierRefinement`. The invariant ties the mutex to the child between its wait and
  its post, `count` to the cardinality of the arrived children, and says that a
  child that has passed saw `count = N`, so all have printed.
- **SemaphoreProofs**, the lock (`LockAssumption`): `LockTypeSafety`,
  `ExclusionSafety`, `StableSafety`, `NothingLostSafety`. The invariant counts the readers between
  their increment and decrement and says when the readers as a group own the
  room. For `NothingLost` the value is the number of (writer, round) pairs whose
  store has been made.
- **WzipProofs** (`WzipAssumption`: bytes are 0 to 255 and all files together
  are shorter than 2^31, which is what the `int` that counts can hold):
  `BytesRoundTrip` (a count that an `int` can hold survives its four bytes),
  `RunsStayWhole` and `ZipSafety`. What the records stand for is a concatenation of
  runs, so the module first proves that the library's `FlattenSeq` is what its
  recursive definition says: from induction over the naturals stated of sets of
  numbers (`Induction`) comes that a recursively defined function exists and is
  unique (`Unique`, `Recursion`), and from that `FlattenAppend`. The invariant `LostInv`
  says that the records, with `count` copies of the current character behind
  them, are the stream up to the place read, cut at its first byte 255.
- **WzipProofs**, the parallel one (`ThreadsAssumption`: letters are no digits, and the
  files together are shorter than 2^31): `ChunksSafety`, for any files. `ChunkEndIs` says
  where a chunk ends (at the next border behind a third of the string, or at its
  end), `CutInv` that each chunk begins where the last one ended. `TextRoundTrip`
  says that `WriteOutput` takes back what `EncodeRLE` did to a string of letters.
  Each of the recursive functions of the two is first shown to be what its recursion
  says (`DecimalIs`, `RunsOfIs`, `EncodeIs`, `NumbersIs`, `ParseIs`); then the digits
  of a count are read as that count (`ParseDecimal`), and by induction over the
  string the text up to the end of a run is read as the string up to there
  (`Reads`, `EntryReads`). From it follow `WrittenSafety`, with an invariant that a
  thread which has returned has encoded its own chunk and that main has joined the
  first `k` (`ThreadInv`, `OneFileInv`), and `SmallSafety`, with one that
  `pending` is the concatenation of the files so far (`SmallInv`).
- **RequestProofs** (`RequestAssumption`): `TypeSafety`, `ChildSafety` (fork and
  wait change the two cardinalities together, on mixed connections, too; finiteness
  of workers and processes is assumed) and `AnswerSafety`. Nothing is assumed of
  main: it may drop jobs and double them, and the proofs hold for any descriptors and
  any reuse of them. The invariant `RequestInv` says of each connection that is not
  mixed that one worker and one child at most are at it (`Single`), what they know of
  its request at each place (`Known`), and what has been written so far (`Answered`);
  further, that a worker's connection is `served` and that one that was closed has
  been. A step either leaves all of that about a connection alone (`Frame`), or is
  its worker's, or mixes it. `PrintSafety` (`ClientAssumption`) follows an answer
  into the client: a connection ends for its client only when no process holds it
  any more (`HeirsInv`), an answer only grows (`SentGrows`) and is whole at the end
  (`EndedIsAnswered`), and what the client has printed is what it has read so far,
  without one piece that may have been taken for the empty line (`ClientInv`).
- **VoteServerProofs** (`VoteAssumption`): `EchoSafety`, `VoteSafety`, `TableSafety`. A
  client is new, then in the backlog, then served, once (`Served`), and nothing is
  under way to it before (`NothingBack`). The bytes printed, under way back, in the
  server's buffer and under way to it make up the message at every step. For the
  table, each ballot either takes a new place or adds to that of its candidate
  (`PlaceIs`), whose count is right up to laps of the `char` (`OneLap`).
  The number of characters is not bounded by the number of places: in the program it
  is 256 against 64. `TableSafety` is about the table until a vote finds no place in it.
- **ShellProofs** (`ShellAssumption`: lines are sequences of units, those of the
  shell of `Project` as `IsLine` says). For either shell: `NoChildSafety`, of
  every input in which no line has more than three commands (`FewCommands`), and
  `OrderSafety`, of every input that cannot be sought. `KidsInv` counts the
  children against the commands still to be forked and the waits still to be made.
  `OrderInv` says that the parent's buffer goes on where its last line was and the
  shared offset where the buffer ends; no child moves it.
- **ShellProofs**, lines: `WrittenSafety`, of every input of the shell of
  `Project`. `RunsInv` says of every process where its command comes from; what is
  left is a theorem about lines, `ReadReads`: each command that `Read` finds and
  that is `Plain` is run as `Written` says. Its proof counts places. The k-th
  place of a set is the one with k places of the set up to it (`Nth`); in a line
  in which words are apart, the pieces of `Strtok` and the words that stay when
  the marks are left out are at the same places, before the `>` and behind it.
- **ShellProofs**, errors: `OneByOneSafety`, for either shell, of every input that
  cannot be sought and in which no line has more than three commands, whenever the
  bound `MaxErrs` of the model is not below what the lines come to (`EnoughErrs`:
  two messages are the most that a command which runs away can add, and one more is
  what the first shell may say again of the last line, `Repeats`). `OneByOne` is
  a recursive function; that it exists and is what its recursion says comes from
  induction over sets of numbers (`Induction`, `OneByOneIs`), and so does that it
  only grows and stays as it is after a line that ends the shell
  (`OneByOneGrows`). The invariant `CountInv` ties it to the shell: between two
  lines the environment is that of `OneByOne` at the last line (`Ended`); within a
  line, the messages reported, those its children still owe (`DueKids`), and those
  of the commands still to be forked (`DueTodo`) make up what the line comes to
  (`Open`), but for up to two of each command that runs away and is not through
  yet. A sum is the cardinality of a set of pairs (`Total`), so that a step of one
  child changes it by what that child reports (`TotalChange`).

Every safety property, action property and refinement that a passing run checks is
stated by one of these theorems, and type invariants are proved where a module has
one. Only model-checked are the liveness properties (`MainEnds`, `MainComesBack`,
`ClientEnds`, `AllJoined`, `Ends`, `Exits`, `EveryoneServed`), which are outside
of TLAPS's reach here, and, of the shells, two kinds of input that the theorems
leave out: `AsOneByOne` of a script file in which no child ends early is checked
in the run `Shell`, and fails in general, as `Shell_eof` shows; a line of more
than three commands leaves children behind, and their messages come when they
come.

## 5. Not modelled

- Option parsing (`wserver -s` takes an argument that its `getopt` string does
  not announce, and so reads none), socket set-up, wording of pages and messages.
- Running out of memory or processes; a file that cannot be opened by the
  compressors or the shell; overruns of fixed arrays in the shell's line parsing
  and the text buffer of the parallel zip; what the vote server does once it has
  overrun its candidates.
- What two workers write to one connection, and what the CGI programs of a server
  that has ended still write.
- Weak memory effects of the unlocked loads in `Queue_Empty` and in the
  barrier's `while`.
- `Lab1`, questions 1 and 2 and the Bash scripts: see the notes in
  `PROJECT.json`. Question 2 is left out because its two children only post and
  never wait: the order of `BeforeAfter` fails in its first schedule, and nothing
  else is claimed of it. In question 1 there is one post and one wait.

## 6. Plan

Done: the queue, its test program, web server, barrier, readers-writers lock,
compressors, vote server and request handling; then the web client against the
server, the shell's lines as operators with the first shell beside it; proofs
of every safety property about all of them, with the recursion that the compressors
and the shells need.

Left:
1. `AsOneByOne` of a script file in which no child ends before the last line is
   read, as a theorem.
2. What the client of a mixed connection may at worst be given.
