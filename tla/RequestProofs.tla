---------------------------- MODULE RequestProofs ----------------------------
(***************************************************************************)
(* Proofs about request.c and wclient.c for any number of workers,         *)
(* connections, descriptors and process ids: waits and children match, a   *)
(* connection that one worker only has been at is given the answer to its  *)
(* request, and its client prints it.                                      *)
(***************************************************************************)
EXTENDS WebClient, FiniteSetTheorems, SequenceTheorems, TLAPS

Unanswered == {"line", "headers", "stat", "file", "map", "fork"}

\* w handles c.
Has(w, c) == Busy(w) /\ On(fd[w]) = c

\* p is the CGI program of c.
Kid(p, c) == child[p] = "running" /\ out[p] = c

Pending(c) == \E w \in Worker : Has(w, c) /\ at[w] \in Unanswered

\* What a worker has learnt of the request q at a place.
Knows(place, q) ==
  /\ place \in Unanswered \ {"line"} => q \in Kind
  /\ place \in {"stat", "file", "map", "fork"} => q.line = "GET"
  /\ place \in {"file", "map", "fork"} => q.file \notin {"missing", "barred"}
  /\ place \in {"file", "map"} => ~q.cgi
  /\ place = "fork" => q.cgi

\* A connection that is not mixed has at most one worker and one running child.
\* Nothing is sent on it before its worker answers; from then on the answer is
\* complete, but for what the child has still to write.
Single(c) ==
  /\ \A v, w \in Worker : Has(v, c) /\ Has(w, c) => v = w
  /\ \A p, q \in Pid : Kid(p, c) /\ Kid(q, c) => p = q

Known(c) ==
  /\ \A w \in Worker : Has(w, c) => Knows(at[w], asked[c])
  /\ \A p \in Pid : Kid(p, c) => Knows("fork", asked[c])

Answered(c) ==
  /\ Pending(c) \/ c \notin served => sent[c] = << >> /\ ~Writing(c)
  /\ ~Pending(c) /\ c \in served =>
       sent[c] = IF Writing(c) THEN HeadLine ELSE Response(asked[c])

ConnInv(c) == Single(c) /\ Known(c) /\ Answered(c)

\* What a worker is at, and what has been closed, has been served.
HasServed == \A w \in Worker : \A c \in Conn : Has(w, c) => c \in served
HeldServed == \A c \in came : ~Held(c) => c \in served

RequestInv ==
  /\ TypeOK /\ HasServed
  /\ ~aborted => HeldServed /\ \A c \in Conn \ mixed : ConnInv(c)

\* A step that is none of c's leaves all of this as it is.
Frame(c) ==
  /\ sent'[c] = sent[c] /\ asked'[c] = asked[c]
  /\ c \in served' <=> c \in served
  /\ \A w \in Worker : (Has(w, c)' <=> Has(w, c)) /\ (Has(w, c) => at'[w] = at[w])
  /\ \A p \in Pid : Kid(p, c)' <=> Kid(p, c)

LEMMA FrameKeeps ==
  ASSUME NEW c \in Conn, Frame(c), ConnInv(c) PROVE ConnInv(c)'
<1>1. Single(c)' /\ Known(c)'
  BY DEF Frame, ConnInv, Single, Known
<1>2. (Pending(c)' <=> Pending(c)) /\ (Writing(c)' <=> Writing(c))
  BY DEF Frame, Pending, Writing, Kid
<1>3. Answered(c)'
  BY <1>2 DEF Frame, ConnInv, Answered
<1> QED BY <1>1, <1>3 DEF ConnInv

\* w moves, but not with c.
LEMMA Elsewhere ==
  ASSUME TypeOK, NEW c \in Conn, NEW w \in Worker, NEW to, at' = [at EXCEPT ![w] = to],
         \A v \in Worker : v # w => (On(fd[v])' = c <=> On(fd[v]) = c),
         Has(w, c)' <=> Has(w, c), Has(w, c) => to = at[w],
         sent'[c] = sent[c], asked'[c] = asked[c], c \in served' <=> c \in served,
         \A p \in Pid : Kid(p, c)' <=> Kid(p, c)
  PROVE  Frame(c)
<1>1. at'[w] = to /\ \A v \in Worker : v # w => at'[v] = at[v]
  BY DEF TypeOK
<1>2. \A v \in Worker : v # w => (Has(v, c)' <=> Has(v, c))
  BY <1>1 DEF Has, Busy
<1> QED BY <1>1, <1>2 DEF Frame

\* A descriptor comes to stand for something that is not c, and did not stand for c.
LEMMA OpenElsewhere ==
  ASSUME TypeOK, NEW c, NEW f \in Fd, NEW x, open' = [open EXCEPT ![f] = x],
         open[f] # c, x # c, fd' = fd
  PROVE  /\ \A v \in Worker : On(fd[v])' = c <=> On(fd[v]) = c
         /\ Held(c)' <=> Held(c)
  BY DEF TypeOK, On, Held

\* The worker of c moves on: it has not answered yet, or writes the whole answer.
LEMMA ItsWorker ==
  ASSUME TypeOK, NEW c \in Conn, ConnInv(c), NEW w \in Worker, Has(w, c), at[w] \in Unanswered,
         NEW to \in Unanswered \cup {"close"}, at' = [at EXCEPT ![w] = to], c \in served',
         \A v \in Worker : On(fd[v])' = c <=> On(fd[v]) = c,
         \A p \in Pid : Kid(p, c)' <=> Kid(p, c),
         Knows(to, asked'[c]),
         \/ to # "close" /\ sent'[c] = sent[c]
         \/ to = "close" /\ sent'[c] = Response(asked'[c])
  PROVE  ConnInv(c)'
<1>1. at'[w] = to /\ \A v \in Worker : v # w => at'[v] = at[v]
  BY DEF TypeOK
<1>2. Pending(c) /\ ~Writing(c) /\ sent[c] = << >> /\ \A p \in Pid : ~Kid(p, c)
  BY DEF ConnInv, Answered, Pending, Writing, Kid
<1>3. \A v \in Worker : Has(v, c) <=> v = w
  BY DEF ConnInv, Single
<1>4. \A v \in Worker : Has(v, c)' <=> v = w
  BY <1>1, <1>3 DEF Has, Busy, Unanswered
<1>5. Single(c)' /\ Known(c)'
  BY <1>1, <1>2, <1>4 DEF Single, Known
<1>6. ~Writing(c)' /\ (Pending(c)' <=> to # "close")
  BY <1>1, <1>2, <1>4 DEF Writing, Kid, Pending, Unanswered
<1>7. Answered(c)'
  BY <1>2, <1>6 DEF Answered
<1> QED BY <1>5, <1>7 DEF ConnInv

\* The process's end.
LEMMA AbortEnds == ASSUME RequestInv, Abort PROVE RequestInv'
<1>1. aborted' = TRUE /\ at' = [w \in Worker |-> "idle"]
  BY DEF Abort
<1>2. HasServed'
  BY <1>1 DEF HasServed, Has, Busy
<1>3. TypeOK'
  BY RequestAssumption DEF Abort, TypeOK, RequestInv
<1> QED BY <1>1, <1>2, <1>3 DEF RequestInv

\* Nothing but units is written.
LEMMA Texts ==
  /\ ErrorText \in Seq(Unit) /\ HeadLine \in Seq(Unit)
  /\ \A file \in DOMAIN Text : StaticText(file) \in Seq(Unit)
  /\ \A file \in {"empty"} \cup DOMAIN Text : Output(file) \in Seq(Unit)
<1>1. ErrorText \in Seq(Unit) /\ HeadLine \in Seq(Unit) /\ HeadLine \o EmptyLine \in Seq(Unit)
      /\ << >> \in Seq(Unit)
  BY DEF ErrorText, HeadLine, EmptyLine, Unit
<1>2. \A file \in DOMAIN Text : HeadLine \o EmptyLine \o Text[file] \in Seq(Unit)
  BY <1>1, RequestAssumption, ConcatProperties
<1> QED BY <1>1, <1>2 DEF StaticText, Output

\* Writing keeps the type, and touches no other connection.
LEMMA Writes ==
  ASSUME TypeOK, NEW c \in Conn, NEW text \in Seq(Unit), Write(c, text)
  PROVE  /\ sent' \in [Conn -> Seq(Unit)]
         /\ sent'[c] = sent[c] \o text
         /\ sent[c] = << >> => sent'[c] = text
         /\ \A d \in Conn : d # c => sent'[d] = sent[d]
<1>1. sent[c] \in Seq(Unit) /\ sent[c] \o text \in Seq(Unit)
  BY ConcatProperties DEF TypeOK
<1>2. sent' \in [Conn -> Seq(Unit)] /\ sent'[c] = sent[c] \o text
      /\ \A d \in Conn : d # c => sent'[d] = sent[d]
  BY <1>1 DEF Write, TypeOK
<1>3. << >> \o text = text
  BY ConcatEmptySeq
<1> QED BY <1>2, <1>3

LEMMA Answers ==
  ASSUME TypeOK, NEW w \in Worker, NEW text \in Seq(Unit), Answer(w, text)
  PROVE  /\ On(fd[w]) \in Conn /\ sent' \in [Conn -> Seq(Unit)]
         /\ \A c \in Conn \ mixed :
              IF On(fd[w]) = c
              THEN /\ Own(w) /\ sent'[c] = sent[c] \o text
                   /\ sent[c] = << >> => sent'[c] = text
              ELSE sent'[c] = sent[c]
<1>1. CASE Own(w)
  <2>1. On(fd[w]) \in Conn /\ Write(On(fd[w]), text)
    BY <1>1 DEF Answer
  <2> QED BY <1>1, <2>1, Writes
<1>2. CASE ~Own(w)
  <2>1. On(fd[w]) \in Conn /\ sent' = sent
    BY <1>2 DEF Answer
  <2> QED BY <1>2, <2>1 DEF Own, TypeOK
<1> QED BY <1>1, <1>2

LEMMA Mixes ==
  ASSUME TypeOK, NEW cs, Mix(cs)
  PROVE  /\ mixed' = mixed \cup cs
         /\ asked' \in [Conn -> Kind \cup {NULL}] /\ sent' \in [Conn -> Seq(Unit)]
         /\ \A c \in Conn \ mixed' : c \notin mixed /\ asked'[c] = asked[c] /\ sent'[c] = sent[c]
<1>1. << >> \in Seq(Unit)
  OBVIOUS
<1> QED BY <1>1 DEF Mix, TypeOK

------------------------------------------------------------------------------
(* The steps                                                                *)

LEMMA AcceptKeeps == ASSUME RequestInv, NEW d \in Conn, Accept(d) PROVE RequestInv'
<1> PICK f \in Fd :
      /\ Lowest(f) /\ connfd' = f /\ open' = [open EXCEPT ![f] = d]
      /\ LET touched == IF Stale(f) THEN {d} ELSE {}
         IN  served' = served \cup touched /\ Mix(touched)
  BY DEF Accept
<1> DEFINE touched == IF Stale(f) THEN {d} ELSE {}
<1>1. /\ ~aborted /\ d \notin came /\ came' = came \cup {d} /\ open[f] = NULL
      /\ served' = served \cup touched /\ Mix(touched)
      /\ UNCHANGED <<jobs, at, fd, srcfd, procs, aborted>> /\ main' = "fill"
  BY DEF Accept, Lowest, Free
<1>2. touched \subseteq {d} /\ (Stale(f) => d \in touched)
  OBVIOUS
<1> HIDE DEF touched
<1>3. TypeOK
  BY DEF RequestInv
<1>4. /\ mixed' = mixed \cup touched
      /\ asked' \in [Conn -> Kind \cup {NULL}] /\ sent' \in [Conn -> Seq(Unit)]
      /\ \A c \in Conn \ mixed' : c \notin mixed /\ asked'[c] = asked[c] /\ sent'[c] = sent[c]
  BY <1>1, <1>3, Mixes
<1>5. TypeOK'
  <2>1. open' \in [Fd -> came' \cup {NULL, FILE}] /\ connfd' \in Fd \cup {NULL}
    BY <1>1, <1>3 DEF TypeOK
  <2>2. served' \in SUBSET came' /\ mixed' \in SUBSET served' /\ came' \in SUBSET Conn
    BY <1>1, <1>2, <1>3, <1>4 DEF TypeOK
  <2>3. heirs' \in [Pid -> SUBSET came'] /\ out' \in [Pid -> came' \cup {NULL}]
    BY <1>1, <1>3 DEF TypeOK, procs
  <2>4. /\ jobs' \in Fd \cup {NULL} /\ aborted' \in BOOLEAN
        /\ at' \in [Worker -> {"idle", "take", "line", "headers", "stat", "file", "map",
                               "fork", "wait", "close"}]
        /\ fd' \in [Worker -> Fd \cup {NULL}] /\ srcfd' \in [Worker -> Fd \cup {NULL}]
        /\ child' \in [Pid -> {"none", "running", "zombie"}]
        /\ \A p \in Pid : child'[p] = "running" => out'[p] \in served'
    BY <1>1, <1>3 DEF TypeOK, procs
  <2> QED BY <1>1, <1>4, <2>1, <2>2, <2>3, <2>4 DEF TypeOK
<1>6. NULL # d /\ FILE # d
  BY RequestAssumption
<1>7. \A w \in Worker : \A c \in Conn : c # d => (Has(w, c)' <=> Has(w, c))
  <2> TAKE w \in Worker
  <2> TAKE c \in Conn
  <2> HAVE c # d
  <2>1. On(fd[w])' = c <=> On(fd[w]) = c
    BY <1>1, <1>3, OpenElsewhere, RequestAssumption
  <2> QED BY <1>1, <2>1 DEF Has, Busy
<1>8. \A w \in Worker : ~Has(w, d)
  BY <1>1, <1>3, RequestAssumption DEF Has, On, TypeOK
<1>9. \A w \in Worker : Has(w, d)' => Stale(f)
  <2> SUFFICES ASSUME NEW w \in Worker, Has(w, d)' PROVE Stale(f)
    OBVIOUS
  <2>1. Busy(w) /\ fd[w] \in Fd /\ open'[fd[w]] = d
    BY <1>1, <1>6 DEF Has, Busy, On
  <2>2. open[fd[w]] # d
    BY <1>1, <1>3, <1>6, <2>1 DEF TypeOK
  <2>3. fd[w] = f
    BY <1>3, <2>1, <2>2 DEF TypeOK
  <2> QED BY <2>1, <2>3 DEF Stale
<1>10. HasServed'
  BY <1>1, <1>2, <1>7, <1>9 DEF HasServed, RequestInv
<1>11. HeldServed'
  <2> SUFFICES ASSUME NEW c \in came', ~Held(c)' PROVE c \in served'
    BY DEF HeldServed
  <2>1. c # d
    BY <1>1, <1>3 DEF Held, TypeOK
  <2>2. c \in came /\ c \in Conn /\ c # NULL
    BY <1>1, <1>3, <2>1, RequestAssumption DEF TypeOK
  <2>3. ~Held(c)
    BY <1>1, <1>3, <2>1, <2>2, OpenElsewhere
  <2> QED BY <1>1, <2>2, <2>3 DEF RequestInv, HeldServed
<1>12. ASSUME NEW c \in Conn \ mixed' PROVE ConnInv(c)'
  <2>1. c = d => ~Stale(f)
    BY <1>2, <1>4, <1>12
  <2>2. \A w \in Worker : Has(w, c)' <=> Has(w, c)
    BY <1>7, <1>8, <1>9, <2>1
  <2>3. c \in served' <=> c \in served
    BY <1>1, <1>2, <1>4, <1>12
  <2>4. \A p \in Pid : Kid(p, c)' <=> Kid(p, c)
    BY <1>1 DEF Kid, procs
  <2>5. Frame(c)
    BY <1>1, <1>4, <2>2, <2>3, <2>4 DEF Frame
  <2>6. ConnInv(c)
    BY <1>1, <1>4 DEF RequestInv
  <2> QED BY <2>5, <2>6, FrameKeeps
<1> QED BY <1>1, <1>5, <1>10, <1>11, <1>12 DEF RequestInv

\* main and a test of the queue disturb nothing.
LEMMA QueueKeeps ==
  ASSUME RequestInv, MainStep \/ \E w \in Worker : Test(w) PROVE RequestInv'
<1>1. /\ UNCHANGED <<came, files, asked, sent, procs, aborted>> /\ ~aborted
      /\ TypeOK /\ TypeOK'
      /\ \A w \in Worker : (Busy(w)' <=> Busy(w)) /\ (Busy(w) => at'[w] = at[w])
  <2>1. CASE MainStep
    BY <2>1 DEF MainStep, Fill, Drain, RequestInv, TypeOK, Busy, files, procs
  <2>2. ASSUME NEW w \in Worker, Test(w) PROVE <1>1!:
    BY <2>2 DEF Test, Move, RequestInv, TypeOK, Busy, pool, files, procs
  <2> QED BY <2>1, <2>2
<1>2. ASSUME NEW c \in Conn PROVE Frame(c) /\ (Held(c)' <=> Held(c))
  <2>1. \A w \in Worker : Has(w, c)' <=> Has(w, c)
    BY <1>1 DEF Has, On, files
  <2>2. \A w \in Worker : Has(w, c) => at'[w] = at[w]
    BY <1>1 DEF Has
  <2> QED BY <1>1, <2>1, <2>2 DEF Frame, Kid, Held, files, procs
<1>3. HasServed'
  BY <1>1, <1>2 DEF HasServed, RequestInv, Frame
<1>4. HeldServed'
  BY <1>1, <1>2 DEF HeldServed, RequestInv, files, TypeOK
<1>5. \A c \in Conn \ mixed' : ConnInv(c)'
  BY <1>1, <1>2, FrameKeeps DEF RequestInv, files
<1> QED BY <1>1, <1>3, <1>4, <1>5 DEF RequestInv

\* A connection nobody has been at becomes its worker's; one that somebody has been
\* at is mixed.
LEMMA BeginKeeps == ASSUME RequestInv, NEW w \in Worker, Begin(w) PROVE RequestInv'
<1> DEFINE f == IF jobs = NULL THEN fd[w] ELSE jobs
           d == On(f)
           cs == ({d} \cap served) \cup Sending(f)
<1>1. /\ ~aborted /\ at[w] = "take" /\ at' = [at EXCEPT ![w] = "line"]
      /\ fd' = [fd EXCEPT ![w] = f] /\ served' = served \cup ({d} \cap Conn) /\ Mix(cs)
      /\ jobs' = NULL /\ UNCHANGED <<main, connfd, came, srcfd, open, procs, aborted>>
  BY DEF Begin, Move
<1>2. TypeOK
  BY DEF RequestInv
<1>3. f \in Fd \cup {NULL} /\ d \in came \cup {NULL, FILE}
  BY <1>2 DEF TypeOK, On
<1>4. cs \subseteq served /\ (d \in served => d \in cs)
  <2>1. \A c \in Sending(f) : c \in served
    BY DEF Sending, RequestInv, HasServed, Has, Busy
  <2> QED BY <2>1
<1>5. On(fd[w])' = d
  BY <1>1, <1>2, <1>3 DEF On, TypeOK
<1> HIDE DEF f, d, cs
<1>6. /\ mixed' = mixed \cup cs
      /\ asked' \in [Conn -> Kind \cup {NULL}] /\ sent' \in [Conn -> Seq(Unit)]
      /\ \A c \in Conn \ mixed' : c \notin mixed /\ asked'[c] = asked[c] /\ sent'[c] = sent[c]
  BY <1>1, <1>2, Mixes
<1>7. TypeOK'
  <2>1. served' \in SUBSET came /\ mixed' \in SUBSET served'
    BY <1>1, <1>2, <1>3, <1>4, <1>6, RequestAssumption DEF TypeOK
  <2>2. at' \in [Worker -> {"idle", "take", "line", "headers", "stat", "file", "map",
                            "fork", "wait", "close"}]
        /\ fd' \in [Worker -> Fd \cup {NULL}]
    BY <1>1, <1>2, <1>3 DEF TypeOK
  <2>3. \A p \in Pid : child'[p] = "running" => out'[p] \in served'
    BY <1>1, <1>2 DEF TypeOK, procs
  <2> QED BY <1>1, <1>2, <1>6, <2>1, <2>2, <2>3 DEF TypeOK, procs
<1>8. at'[w] = "line" /\ \A v \in Worker : v # w => at'[v] = at[v] /\ fd'[v] = fd[v]
  BY <1>1, <1>2 DEF TypeOK
<1>9. \A v \in Worker : \A c \in Conn :
        /\ v # w => (Has(v, c)' <=> Has(v, c))
        /\ ~Has(w, c) /\ (Has(w, c)' <=> c = d)
  BY <1>1, <1>5, <1>8 DEF Has, Busy, On
<1>10. HasServed'
  BY <1>1, <1>9 DEF HasServed, RequestInv
<1>11. HeldServed'
  BY <1>1 DEF HeldServed, Held, RequestInv
<1>12. ASSUME NEW c \in Conn \ mixed' PROVE ConnInv(c)'
  <2>1. ConnInv(c) /\ \A p \in Pid : Kid(p, c)' <=> Kid(p, c)
    BY <1>1, <1>6 DEF RequestInv, Kid, procs
  <2>2. CASE c # d
    <3>1. Frame(c)
      BY <1>1, <1>6, <1>8, <1>9, <2>1, <2>2 DEF Frame
    <3> QED BY <2>1, <3>1, FrameKeeps
  <2>3. CASE c = d
    <3>1. c \notin served
      BY <1>4, <1>6, <1>12, <2>3
    <3>2. \A v \in Worker : Has(v, c)' <=> v = w
      BY <1>9, <2>3, <3>1 DEF HasServed, RequestInv
    <3>3. /\ sent[c] = << >> /\ ~Writing(c) /\ \A p \in Pid : ~Kid(p, c)'
      BY <2>1, <3>1 DEF ConnInv, Answered, Writing, Kid
    <3>4. Pending(c)' /\ ~Writing(c)'
      BY <1>8, <3>2, <3>3 DEF Pending, Unanswered, Writing, Kid
    <3>5. Single(c)' /\ Known(c)'
      BY <1>8, <3>2, <3>3 DEF Single, Known, Knows
    <3>6. Answered(c)'
      BY <1>6, <3>3, <3>4 DEF Answered
    <3> QED BY <3>5, <3>6 DEF ConnInv
  <2> QED BY <2>2, <2>3
<1> QED BY <1>1, <1>7, <1>10, <1>11, <1>12 DEF RequestInv

\* What a worker that handles an unmixed connection may have read is what came on it.
LEMMA ItsOwn ==
  ASSUME TypeOK, NEW w \in Worker, NEW c \in Conn \ mixed, On(fd[w]) = c
  PROVE  Own(w) /\ Req(w) = {asked[c]}
BY DEF Own, Req

\* A worker at from learns, or answers, and leaves children and connections alone.
Learns(w, from, to) ==
  /\ at[w] = from /\ at' = [at EXCEPT ![w] = to] /\ ~aborted
  /\ UNCHANGED <<pool, fd, served, procs, aborted>>
  /\ srcfd' \in [Worker -> Fd \cup {NULL}] /\ open' \in [Fd -> came \cup {NULL, FILE}]
  /\ mixed' \in SUBSET served /\ mixed \subseteq mixed'
  /\ asked' \in [Conn -> Kind \cup {NULL}] /\ sent' \in [Conn -> Seq(Unit)]
  /\ \A v \in Worker : \A c \in Conn : On(fd[v])' = c <=> On(fd[v]) = c
  /\ \A c \in Conn : Held(c)' <=> Held(c)
  /\ \A c \in Conn \ mixed' : On(fd[w]) # c => asked'[c] = asked[c] /\ sent'[c] = sent[c]
  /\ \A c \in Conn \ mixed' :
       On(fd[w]) = c /\ Knows(from, asked[c]) =>
         /\ Knows(to, asked'[c])
         /\ to # "close" => sent'[c] = sent[c]
         /\ to = "close" /\ sent[c] = << >> => sent'[c] = Response(asked'[c])

LEMMA LearnKeeps ==
  ASSUME RequestInv, NEW w \in Worker, NEW from \in Unanswered,
         NEW to \in (Unanswered \ {"line"}) \cup {"close"}, Learns(w, from, to)
  PROVE  RequestInv'
<1> USE DEF Learns
<1>1. TypeOK /\ HasServed /\ HeldServed /\ \A c \in Conn \ mixed : ConnInv(c)
  BY DEF RequestInv
<1>2. TypeOK'
  <2>1. at' \in [Worker -> {"idle", "take", "line", "headers", "stat", "file", "map",
                            "fork", "wait", "close"}]
    BY <1>1 DEF TypeOK, Unanswered
  <2>2. UNCHANGED <<main, connfd, jobs, came, child, out, heirs>>
    BY DEF pool, procs
  <2> QED BY <1>1, <2>1, <2>2 DEF TypeOK
<1>3. at'[w] = to /\ \A v \in Worker : v # w => at'[v] = at[v]
  BY <1>1 DEF TypeOK
<1>4. \A v \in Worker : Busy(v)' <=> Busy(v)
  BY <1>3 DEF Busy, Unanswered
<1>5. \A v \in Worker : \A c \in Conn : Has(v, c)' <=> Has(v, c)
  BY <1>4 DEF Has
<1>6. HasServed' /\ HeldServed'
  <2>1. HasServed'
    BY <1>1, <1>5 DEF HasServed
  <2>2. came' = came /\ came \subseteq Conn
    BY <1>1 DEF pool, TypeOK
  <2>3. HeldServed'
    BY <1>1, <2>2 DEF HeldServed
  <2> QED BY <2>1, <2>3
<1>7. ASSUME NEW c \in Conn \ mixed' PROVE ConnInv(c)'
  <2>1. ConnInv(c) /\ \A p \in Pid : Kid(p, c)' <=> Kid(p, c)
    BY <1>1 DEF Kid, procs
  <2>2. CASE On(fd[w]) = c
    <3>1. Has(w, c) /\ c \in served'
      BY <1>1, <2>2 DEF Has, Busy, Unanswered, HasServed
    <3>2. Knows(at[w], asked[c]) /\ sent[c] = << >>
      BY <2>1, <3>1 DEF ConnInv, Known, Answered, Pending
    <3>3. Knows(to, asked'[c])
      BY <2>2, <3>2
    <3>4. \/ to # "close" /\ sent'[c] = sent[c]
          \/ to = "close" /\ sent'[c] = Response(asked'[c])
      BY <2>2, <3>2
    <3> QED BY <1>1, <2>1, <3>1, <3>3, <3>4, ItsWorker
  <2>3. CASE On(fd[w]) # c
    <3>1. Frame(c)
      BY <1>3, <1>5, <2>1, <2>3 DEF Frame, Has
    <3> QED BY <2>1, <3>1, FrameKeeps
  <2> QED BY <2>2, <2>3
<1> QED BY <1>2, <1>6, <1>7 DEF RequestInv

\* Descriptors that are left alone.
LEMMA SameFiles ==
  ASSUME TypeOK, UNCHANGED <<fd, open>>
  PROVE  /\ \A v \in Worker : \A c \in Conn : On(fd[v])' = c <=> On(fd[v]) = c
         /\ \A c \in Conn : Held(c)' <=> Held(c)
BY DEF On, Held

\* of a request that is in Kind
LEMMA KindHas ==
  ASSUME NEW q \in Kind
  PROVE  /\ q.file \in {"missing", "barred", "empty"} \cup DOMAIN Text
         /\ q.cgi \in BOOLEAN
BY RequestAssumption

LEMMA LineKeeps == ASSUME RequestInv, NEW w \in Worker, RequestLine(w) PROVE RequestInv'
<1> DEFINE d == On(fd[w])
<1>1. TypeOK /\ d \in Conn \ mixed
  BY DEF RequestInv, RequestLine, Own
<1> PICK q \in Asks[d] :
      /\ asked' = [asked EXCEPT ![d] = q]
      /\ \/ Move(w, "line", "headers") /\ q.line \in {"GET", "eof"} /\ UNCHANGED sent
         \/ Move(w, "line", "close") /\ q.line \in {"other", "eof"} /\ Answer(w, ErrorText)
  BY DEF RequestLine
<1>2. q \in Kind
  BY <1>1, RequestAssumption
<1>3. asked' \in [Conn -> Kind \cup {NULL}] /\ asked'[d] = q
      /\ \A c \in Conn : c # d => asked'[c] = asked[c]
  BY <1>1, <1>2 DEF TypeOK
<1>4. UNCHANGED <<pool, fd, srcfd, open, served, mixed, procs, aborted>>
  BY DEF RequestLine, files
<1>5. /\ srcfd' \in [Worker -> Fd \cup {NULL}] /\ open' \in [Fd -> came \cup {NULL, FILE}]
      /\ mixed' \in SUBSET served /\ mixed \subseteq mixed'
  BY <1>1, <1>4 DEF TypeOK
<1> HIDE DEF d
<1>6. CASE Move(w, "line", "headers") /\ UNCHANGED sent
  <2>1. /\ at[w] = "line" /\ at' = [at EXCEPT ![w] = "headers"] /\ ~aborted
        /\ sent' \in [Conn -> Seq(Unit)]
    BY <1>1, <1>6 DEF Move, TypeOK
  <2>2. Knows("headers", q)
    BY <1>2 DEF Knows
  <2>3. "line" \in Unanswered /\ "headers" \in (Unanswered \ {"line"}) \cup {"close"}
    BY DEF Unanswered
  <2>4. /\ \A c \in Conn \ mixed' : d # c => asked'[c] = asked[c] /\ sent'[c] = sent[c]
        /\ \A c \in Conn \ mixed' : d = c => Knows("headers", asked'[c]) /\ sent'[c] = sent[c]
    BY <1>3, <1>6, <2>2
  <2>5. Learns(w, "line", "headers")
    BY <1>1, <1>3, <1>4, <1>5, <2>1, <2>4, SameFiles DEF Learns, d
  <2> QED BY <2>3, <2>5, LearnKeeps
<1>7. CASE Move(w, "line", "close") /\ q.line \in {"other", "eof"} /\ Answer(w, ErrorText)
  <2>1. /\ at[w] = "line" /\ at' = [at EXCEPT ![w] = "close"] /\ ~aborted
    BY <1>7 DEF Move
  <2>2. /\ sent' \in [Conn -> Seq(Unit)]
        /\ \A c \in Conn \ mixed : IF d = c THEN sent[c] = << >> => sent'[c] = ErrorText
                                   ELSE sent'[c] = sent[c]
    BY <1>1, <1>7, Answers, Texts DEF d
  <2>3. Knows("close", q) /\ Response(q) = ErrorText
    BY <1>7 DEF Knows, Response, Unanswered
  <2>4. "line" \in Unanswered /\ "close" \in (Unanswered \ {"line"}) \cup {"close"}
    BY DEF Unanswered
  <2>5. \A c \in Conn \ mixed' : d # c => asked'[c] = asked[c] /\ sent'[c] = sent[c]
    BY <1>3, <1>4, <2>2
  <2>6. \A c \in Conn \ mixed' :
          d = c => /\ Knows("close", asked'[c])
                   /\ sent[c] = << >> => sent'[c] = Response(asked'[c])
    BY <1>3, <1>4, <2>2, <2>3
  <2>7. Learns(w, "line", "close")
    BY <1>1, <1>3, <1>4, <1>5, <2>1, <2>2, <2>5, <2>6, SameFiles DEF Learns, d
  <2> QED BY <2>4, <2>7, LearnKeeps
<1> QED BY <1>6, <1>7

\* The steps that learn more of the request.
LEMMA ReadKeeps ==
  ASSUME RequestInv, NEW w \in Worker, ReadHeaders(w) \/ Found(w) PROVE RequestInv'
<1>1. TypeOK /\ ~aborted /\ UNCHANGED <<pool, files, asked, sent, procs, aborted>>
  BY DEF RequestInv, ReadHeaders, Found, Move
<1> PICK to \in {"stat", "file", "fork"} : Move(w, at[w], to)
                                           /\ at[w] \in {"headers", "stat"}
  BY DEF ReadHeaders, Found, Move
<1>2. at' = [at EXCEPT ![w] = to] /\ at[w] \in Unanswered
  BY DEF Move, Unanswered
<1>3. ASSUME NEW c \in Conn \ mixed, On(fd[w]) = c, Knows(at[w], asked[c])
      PROVE  Knows(to, asked[c])
  <2>1. Req(w) = {asked[c]} /\ asked[c] \in Kind
    BY <1>1, <1>3, ItsOwn DEF Knows, Unanswered
  <2>2. at'[w] = to
    BY <1>1, <1>2 DEF TypeOK
  <2>3. CASE ReadHeaders(w)
    <3>1. asked[c].line = "GET" /\ to = "stat"
      BY <1>1, <2>1, <2>2, <2>3 DEF ReadHeaders, Move, TypeOK
    <3> QED BY <2>1, <3>1 DEF Knows
  <2>4. CASE Found(w)
    <3>1. /\ at[w] = "stat" /\ asked[c].file \notin {"missing", "barred"}
          /\ IF asked[c].cgi THEN to = "fork" ELSE to = "file"
      BY <1>1, <2>1, <2>2, <2>4 DEF Found, Move, TypeOK
    <3> QED BY <1>3, <2>1, <3>1 DEF Knows
  <2> QED BY <2>3, <2>4
<1>4. /\ UNCHANGED <<pool, fd, served, procs, aborted>> /\ UNCHANGED <<fd, open>>
      /\ srcfd' \in [Worker -> Fd \cup {NULL}] /\ open' \in [Fd -> came \cup {NULL, FILE}]
      /\ mixed' = mixed /\ mixed' \in SUBSET served
      /\ asked' = asked /\ sent' = sent
      /\ asked' \in [Conn -> Kind \cup {NULL}] /\ sent' \in [Conn -> Seq(Unit)]
  BY <1>1 DEF TypeOK, files
<1>5. to \in (Unanswered \ {"line"}) \cup {"close"} /\ to # "close"
  BY DEF Unanswered
<1>6. Learns(w, at[w], to)
  BY <1>1, <1>2, <1>3, <1>4, <1>5, SameFiles DEF Learns
<1> QED BY <1>2, <1>5, <1>6, LearnKeeps

LEMMA MixedReadKeeps == ASSUME RequestInv, NEW w \in Worker, ReadMixed(w) PROVE RequestInv'
<1>1. TypeOK /\ ~aborted /\ UNCHANGED <<pool, files, asked, procs, aborted>> /\ ~Own(w)
  BY DEF RequestInv, ReadMixed, Move
<1> PICK to \in {"headers", "close", "stat"} : Move(w, at[w], to)
                                               /\ at[w] \in {"line", "headers"}
  BY DEF ReadMixed, Move
<1>2. at' = [at EXCEPT ![w] = to] /\ at[w] \in Unanswered
      /\ to \in (Unanswered \ {"line"}) \cup {"close"}
  BY DEF Move, Unanswered
<1>3. sent' \in [Conn -> Seq(Unit)] /\ \A c \in Conn \ mixed : sent'[c] = sent[c]
  <2>1. CASE UNCHANGED sent
    BY <1>1, <2>1 DEF TypeOK
  <2>2. CASE Answer(w, ErrorText)
    BY <1>1, <2>2, Answers, Texts
  <2> QED BY <2>1, <2>2 DEF ReadMixed
<1>4. \A c \in Conn \ mixed : On(fd[w]) # c
  BY <1>1 DEF Own
<1>5. /\ UNCHANGED <<pool, fd, served, procs, aborted>> /\ UNCHANGED <<fd, open>>
      /\ srcfd' \in [Worker -> Fd \cup {NULL}] /\ open' \in [Fd -> came \cup {NULL, FILE}]
      /\ mixed' = mixed /\ mixed' \in SUBSET served
      /\ asked' = asked /\ asked' \in [Conn -> Kind \cup {NULL}]
  BY <1>1 DEF TypeOK, files
<1>6. Learns(w, at[w], to)
  BY <1>1, <1>2, <1>3, <1>4, <1>5, SameFiles DEF Learns
<1> QED BY <1>2, <1>6, LearnKeeps

LEMMA RefuseKeeps == ASSUME RequestInv, NEW w \in Worker, Refuse(w) PROVE RequestInv'
<1>1. /\ TypeOK /\ ~aborted /\ UNCHANGED <<pool, files, asked, procs, aborted>>
      /\ at[w] = "stat" /\ at' = [at EXCEPT ![w] = "close"]
  BY DEF RequestInv, Refuse, Move
<1>2. /\ sent' \in [Conn -> Seq(Unit)]
      /\ \A c \in Conn \ mixed : IF On(fd[w]) = c THEN sent[c] = << >> => sent'[c] = ErrorText
                                 ELSE sent'[c] = sent[c]
  BY <1>1, Answers, Texts DEF Refuse
<1>3. ASSUME NEW c \in Conn \ mixed, On(fd[w]) = c PROVE Response(asked[c]) = ErrorText
  BY <1>1, <1>3, ItsOwn DEF Refuse, Response
<1>4. /\ UNCHANGED <<pool, fd, served, procs, aborted>> /\ UNCHANGED <<fd, open>>
      /\ srcfd' \in [Worker -> Fd \cup {NULL}] /\ open' \in [Fd -> came \cup {NULL, FILE}]
      /\ mixed' = mixed /\ mixed' \in SUBSET served
      /\ asked' = asked /\ asked' \in [Conn -> Kind \cup {NULL}]
  BY <1>1 DEF TypeOK, files
<1>5. \A q : Knows("close", q)
  BY DEF Knows, Unanswered
<1>6. at[w] \in Unanswered /\ "close" \in (Unanswered \ {"line"}) \cup {"close"}
  BY <1>1 DEF Unanswered
<1>7. \A c \in Conn \ mixed' : On(fd[w]) # c => asked'[c] = asked[c] /\ sent'[c] = sent[c]
  BY <1>2, <1>4
<1>8. \A c \in Conn \ mixed' :
        On(fd[w]) = c => Knows("close", asked'[c])
                         /\ (sent[c] = << >> => sent'[c] = Response(asked'[c]))
  BY <1>2, <1>3, <1>4, <1>5
<1>9. Learns(w, "stat", "close")
  BY <1>1, <1>2, <1>4, <1>7, <1>8, SameFiles DEF Learns
<1> QED BY <1>1, <1>6, <1>9, LearnKeeps

LEMMA OpenKeeps == ASSUME RequestInv, NEW w \in Worker, OpenFile(w) PROVE RequestInv'
<1> PICK f \in Fd :
      /\ Lowest(f) /\ srcfd' = [srcfd EXCEPT ![w] = f]
      /\ open' = [open EXCEPT ![f] = FILE]
      /\ Mix(IF Stale(f) THEN {On(fd[w])} \cap Conn ELSE {})
  BY DEF OpenFile
<1> DEFINE cs == IF Stale(f) THEN {On(fd[w])} \cap Conn ELSE {}
<1>1. /\ TypeOK /\ HasServed /\ ~aborted /\ UNCHANGED <<pool, fd, served, procs, aborted>>
      /\ at[w] = "file" /\ at' = [at EXCEPT ![w] = "map"] /\ open[f] = NULL /\ Mix(cs)
  BY DEF RequestInv, OpenFile, Move, Lowest, Free
<1>2. cs \subseteq served
  BY <1>1 DEF HasServed, Has, Busy
<1> HIDE DEF cs
<1>3. /\ mixed' = mixed \cup cs
      /\ asked' \in [Conn -> Kind \cup {NULL}] /\ sent' \in [Conn -> Seq(Unit)]
      /\ \A c \in Conn \ mixed' : c \notin mixed /\ asked'[c] = asked[c] /\ sent'[c] = sent[c]
  BY <1>1, Mixes
<1>4. /\ \A v \in Worker : \A c \in Conn : On(fd[v])' = c <=> On(fd[v]) = c
      /\ \A c \in Conn : Held(c)' <=> Held(c)
  <2> SUFFICES ASSUME NEW c \in Conn
               PROVE  /\ \A v \in Worker : On(fd[v])' = c <=> On(fd[v]) = c
                      /\ Held(c)' <=> Held(c)
    OBVIOUS
  <2>1. c # NULL /\ c # FILE /\ open[f] # c /\ fd' = fd
    BY <1>1, RequestAssumption
  <2> QED BY <1>1, <2>1, OpenElsewhere
<1>5. /\ srcfd' \in [Worker -> Fd \cup {NULL}] /\ open' \in [Fd -> came \cup {NULL, FILE}]
      /\ mixed' \in SUBSET served /\ mixed \subseteq mixed'
  BY <1>1, <1>2, <1>3 DEF TypeOK
<1>6. \A q : Knows("file", q) => Knows("map", q)
  BY DEF Knows, Unanswered
<1>7. at[w] \in Unanswered /\ "map" \in (Unanswered \ {"line"}) \cup {"close"}
  BY <1>1 DEF Unanswered
<1>8. \A c \in Conn \ mixed' : On(fd[w]) # c => asked'[c] = asked[c] /\ sent'[c] = sent[c]
  BY <1>3
<1>9. \A c \in Conn \ mixed' :
        Knows("file", asked[c]) => Knows("map", asked'[c]) /\ sent'[c] = sent[c]
  BY <1>1, <1>3, <1>6
<1>10. Learns(w, "file", "map")
  BY <1>1, <1>3, <1>4, <1>5, <1>8, <1>9 DEF Learns
<1> QED BY <1>1, <1>7, <1>10, LearnKeeps

LEMMA StaticKeeps == ASSUME RequestInv, NEW w \in Worker, ServeStatic(w) PROVE RequestInv'
<1>1. /\ TypeOK /\ ~aborted /\ UNCHANGED <<pool, fd, asked, served, mixed, procs, aborted>>
      /\ at[w] = "map" /\ at' = [at EXCEPT ![w] = "close"] /\ On(srcfd[w]) = FILE
      /\ open' = [open EXCEPT ![srcfd[w]] = NULL] /\ srcfd' = [srcfd EXCEPT ![w] = NULL]
  BY DEF RequestInv, ServeStatic, Move
<1> PICK q \in Req(w) : q.file \in DOMAIN Text /\ Answer(w, StaticText(q.file))
  BY DEF ServeStatic
<1>2. /\ sent' \in [Conn -> Seq(Unit)]
      /\ \A c \in Conn \ mixed :
           IF On(fd[w]) = c THEN sent[c] = << >> => sent'[c] = StaticText(q.file)
           ELSE sent'[c] = sent[c]
  BY <1>1, Answers, Texts
<1>3. ASSUME NEW c \in Conn \ mixed, On(fd[w]) = c, Knows("map", asked[c])
      PROVE  Response(asked[c]) = StaticText(q.file)
  <2>1. q = asked[c]
    BY <1>1, <1>3, ItsOwn
  <2> QED BY <1>3, <2>1 DEF Response, Knows
<1>4. /\ \A v \in Worker : \A c \in Conn : On(fd[v])' = c <=> On(fd[v]) = c
      /\ \A c \in Conn : Held(c)' <=> Held(c)
  <2> SUFFICES ASSUME NEW c \in Conn
               PROVE  /\ \A v \in Worker : On(fd[v])' = c <=> On(fd[v]) = c
                      /\ Held(c)' <=> Held(c)
    OBVIOUS
  <2>1. c # NULL /\ c # FILE /\ FILE # NULL
    BY RequestAssumption
  <2>2. srcfd[w] \in Fd /\ open[srcfd[w]] = FILE
    BY <1>1, <2>1 DEF On
  <2> QED BY <1>1, <2>1, <2>2, OpenElsewhere
<1>5. /\ srcfd' \in [Worker -> Fd \cup {NULL}] /\ open' \in [Fd -> came \cup {NULL, FILE}]
      /\ mixed' \in SUBSET served /\ mixed' = mixed /\ asked' = asked
      /\ asked' \in [Conn -> Kind \cup {NULL}]
  BY <1>1 DEF TypeOK
<1>6. \A r : Knows("close", r)
  BY DEF Knows, Unanswered
<1>7. at[w] \in Unanswered /\ "close" \in (Unanswered \ {"line"}) \cup {"close"}
  BY <1>1 DEF Unanswered
<1>8. \A c \in Conn \ mixed' : On(fd[w]) # c => asked'[c] = asked[c] /\ sent'[c] = sent[c]
  BY <1>2, <1>5
<1>9. \A c \in Conn \ mixed' :
        On(fd[w]) = c /\ Knows("map", asked[c]) =>
          Knows("close", asked'[c]) /\ (sent[c] = << >> => sent'[c] = Response(asked'[c]))
  BY <1>1, <1>2, <1>3, <1>5, <1>6
<1>10. mixed \subseteq mixed'
  BY <1>5
<1>11. Learns(w, "map", "close")
  BY <1>1, <1>2, <1>4, <1>5, <1>8, <1>9, <1>10 DEF Learns
<1> QED BY <1>1, <1>7, <1>11, LearnKeeps

\* The worker begins the header and leaves the rest to its child.
LEMMA ForkKeeps == ASSUME RequestInv, NEW w \in Worker, Fork(w) PROVE RequestInv'
<1> PICK p \in Pid :
      /\ child[p] = "none" /\ child' = [child EXCEPT ![p] = "running"]
      /\ out' = [out EXCEPT ![p] = On(fd[w])]
      /\ heirs' = [heirs EXCEPT ![p] = {open[f] : f \in Fd} \cap Conn]
  BY DEF Fork
<1> DEFINE d == On(fd[w])
           inherited == {open[f] : f \in Fd} \cap Conn
<1>1. /\ TypeOK /\ HasServed /\ HeldServed /\ ~aborted
      /\ at[w] = "fork" /\ at' = [at EXCEPT ![w] = "wait"]
      /\ UNCHANGED <<pool, files, asked, aborted>>
  BY DEF RequestInv, Fork, Move
<1>2. /\ d \in Conn /\ sent' \in [Conn -> Seq(Unit)]
      /\ \A c \in Conn \ mixed : IF d = c THEN sent[c] = << >> => sent'[c] = HeadLine
                                 ELSE sent'[c] = sent[c]
  BY <1>1, Answers, Texts DEF Fork
<1>3. Has(w, d)
  BY <1>1 DEF Has, Busy
<1>4. d \in served /\ d \in came
  BY <1>1, <1>2, <1>3 DEF HasServed, TypeOK
<1>5. inherited \in SUBSET came
  <2> SUFFICES ASSUME NEW f \in Fd, open[f] \in Conn PROVE open[f] \in came
    OBVIOUS
  <2>1. open[f] \in came \cup {NULL, FILE}
    BY <1>1 DEF TypeOK
  <2> QED BY <2>1, RequestAssumption
<1> HIDE DEF d, inherited
<1>6. /\ child'[p] = "running" /\ out'[p] = d
      /\ \A q \in Pid : q # p => child'[q] = child[q] /\ out'[q] = out[q]
  BY <1>1 DEF TypeOK, d
<1>7. TypeOK'
  <2>1. /\ child' \in [Pid -> {"none", "running", "zombie"}] /\ out' \in [Pid -> came \cup {NULL}]
        /\ heirs' \in [Pid -> SUBSET came]
    BY <1>1, <1>4, <1>5 DEF TypeOK, d, inherited
  <2>2. at' \in [Worker -> {"idle", "take", "line", "headers", "stat", "file", "map",
                            "fork", "wait", "close"}]
    BY <1>1 DEF TypeOK
  <2>3. \A q \in Pid : child'[q] = "running" => out'[q] \in served
    BY <1>1, <1>4, <1>6 DEF TypeOK
  <2>4. UNCHANGED <<main, connfd, jobs, came, fd, srcfd, open, served, mixed, asked, aborted>>
    BY <1>1 DEF pool, files
  <2> QED BY <1>1, <1>2, <2>1, <2>2, <2>3, <2>4 DEF TypeOK
<1>8. at'[w] = "wait" /\ \A v \in Worker : v # w => at'[v] = at[v]
  BY <1>1 DEF TypeOK
<1>9. \A v \in Worker : \A c \in Conn : Has(v, c)' <=> Has(v, c)
  BY <1>1, <1>8 DEF Has, Busy, On, files
<1>10. HasServed' /\ HeldServed'
  BY <1>1, <1>9 DEF HasServed, HeldServed, Held, pool, files
<1>11. ASSUME NEW c \in Conn \ mixed' PROVE ConnInv(c)'
  <2>1. c \notin mixed /\ ConnInv(c) /\ served' = served /\ asked' = asked
    BY <1>1, <1>11 DEF RequestInv, files
  <2>2. CASE c # d
    <3>1. \A q \in Pid : Kid(q, c)' <=> Kid(q, c)
      BY <1>6, <2>2 DEF Kid
    <3>2. ~Has(w, c)
      BY <2>2 DEF Has, d
    <3>3. Frame(c)
      BY <1>2, <1>8, <1>9, <2>1, <2>2, <3>1, <3>2 DEF Frame
    <3> QED BY <2>1, <3>3, FrameKeeps
  <2>3. CASE c = d
    <3>1. \A v \in Worker : Has(v, c)' <=> v = w
      BY <1>3, <1>9, <2>1, <2>3 DEF ConnInv, Single
    <3>2. sent[c] = << >> /\ (\A q \in Pid : ~Kid(q, c)) /\ Knows("fork", asked[c])
      BY <1>1, <1>3, <2>1, <2>3 DEF ConnInv, Answered, Known, Pending, Unanswered, Writing, Kid
    <3>3. \A q \in Pid : Kid(q, c)' <=> q = p
      BY <1>6, <2>3, <3>2 DEF Kid
    <3>4. ~Pending(c)' /\ Writing(c)'
      BY <1>6, <1>8, <2>3, <3>1 DEF Pending, Writing, Unanswered
    <3>5. sent'[c] = HeadLine
      BY <1>2, <2>1, <2>3, <3>2
    <3>6. Single(c)' /\ Known(c)'
      <4>1. Knows("wait", asked[c])
        BY DEF Knows, Unanswered
      <4> QED BY <1>8, <2>1, <3>1, <3>2, <3>3, <4>1 DEF Single, Known
    <3>7. Answered(c)'
      BY <1>4, <2>1, <2>3, <3>4, <3>5 DEF Answered
    <3> QED BY <3>6, <3>7 DEF ConnInv
  <2> QED BY <2>2, <2>3
<1> QED BY <1>1, <1>7, <1>10, <1>11 DEF RequestInv

\* Whichever child is reaped, it has written what it had to.
LEMMA WaitKeeps == ASSUME RequestInv, NEW w \in Worker, Wait(w) PROVE RequestInv'
<1>1. CASE Abort
  BY <1>1, AbortEnds
<1>2. CASE ~Abort
  <2>1. /\ TypeOK /\ HasServed /\ HeldServed /\ ~aborted
        /\ at[w] = "wait" /\ at' = [at EXCEPT ![w] = "close"]
        /\ UNCHANGED <<pool, files, asked, sent, out, heirs, aborted>>
        /\ child' \in [Pid -> {"none", "running", "zombie"}]
        /\ \A p \in Pid : child'[p] = "running" <=> child[p] = "running"
    BY <1>2 DEF RequestInv, Wait, Move, TypeOK
  <2>2. TypeOK'
    <3>1. UNCHANGED <<main, connfd, jobs, came, fd, srcfd, open, served, mixed, asked, sent, out,
                      heirs, aborted>>
      BY <2>1 DEF pool, files
    <3>2. at' \in [Worker -> {"idle", "take", "line", "headers", "stat", "file", "map",
                              "fork", "wait", "close"}]
      BY <2>1 DEF TypeOK
    <3> QED BY <2>1, <3>1, <3>2 DEF TypeOK
  <2>3. at'[w] = "close" /\ \A v \in Worker : v # w => at'[v] = at[v]
    BY <2>1 DEF TypeOK
  <2>4. \A v \in Worker : \A c \in Conn : Has(v, c)' <=> Has(v, c)
    BY <2>1, <2>3 DEF Has, Busy, On, files
  <2>5. HasServed' /\ HeldServed'
    BY <2>1, <2>4 DEF HasServed, HeldServed, Held, pool, files
  <2>6. ASSUME NEW c \in Conn \ mixed' PROVE ConnInv(c)'
    <3>1. ConnInv(c) /\ served' = served /\ asked' = asked /\ sent' = sent
      BY <2>1 DEF RequestInv, files
    <3>2. \A p \in Pid : Kid(p, c)' <=> Kid(p, c)
      BY <2>1 DEF Kid
    <3>3. (Writing(c)' <=> Writing(c)) /\ (Pending(c)' <=> Pending(c))
      BY <2>1, <2>3, <2>4, <3>2 DEF Writing, Kid, Pending, Unanswered
    <3>4. Knows("close", asked[c])
      BY DEF Knows, Unanswered
    <3>5. Single(c)' /\ Known(c)'
      BY <2>3, <2>4, <3>1, <3>2, <3>4 DEF ConnInv, Single, Known
    <3>6. Answered(c)'
      BY <3>1, <3>3 DEF ConnInv, Answered
    <3> QED BY <3>5, <3>6 DEF ConnInv
  <2> QED BY <2>1, <2>2, <2>5, <2>6 DEF RequestInv
<1> QED BY <1>1, <1>2

LEMMA CloseKeeps == ASSUME RequestInv, NEW w \in Worker, Close(w) PROVE RequestInv'
<1>1. /\ TypeOK /\ HasServed /\ HeldServed /\ ~aborted
      /\ at[w] = "close" /\ at' = [at EXCEPT ![w] = "idle"]
      /\ On(fd[w]) # NULL /\ open' = [open EXCEPT ![fd[w]] = NULL]
      /\ UNCHANGED <<pool, fd, srcfd, asked, served, mixed, sent, procs, aborted>>
  BY DEF RequestInv, Close, Move
<1> PICK d : d = On(fd[w])
  OBVIOUS
<1>2. fd[w] \in Fd /\ open[fd[w]] = d
  BY <1>1 DEF On
<1>3. TypeOK'
  <2>1. UNCHANGED <<main, connfd, jobs, came, child, out, heirs>>
    BY <1>1 DEF pool, procs
  <2>2. /\ open' \in [Fd -> came \cup {NULL, FILE}]
        /\ at' \in [Worker -> {"idle", "take", "line", "headers", "stat", "file", "map",
                               "fork", "wait", "close"}]
    BY <1>1 DEF TypeOK
  <2> QED BY <1>1, <2>1, <2>2 DEF TypeOK
<1>4. at'[w] = "idle" /\ \A v \in Worker : v # w => at'[v] = at[v]
  BY <1>1 DEF TypeOK
<1>5. ASSUME NEW c \in Conn, c # d
      PROVE  /\ \A v \in Worker : Has(v, c)' <=> Has(v, c)
             /\ Held(c)' <=> Held(c)
  <2>1. c # NULL /\ fd' = fd
    BY <1>1, RequestAssumption
  <2>2. (\A v \in Worker : On(fd[v])' = c <=> On(fd[v]) = c) /\ (Held(c)' <=> Held(c))
    BY <1>1, <1>2, <1>5, <2>1, OpenElsewhere
  <2>3. ~Has(w, c) /\ ~Has(w, c)'
    BY <1>4, <1>5, <2>2 DEF Has, Busy
  <2> QED BY <1>4, <2>2, <2>3 DEF Has, Busy
<1>6. \A v \in Worker : d \in Conn /\ Has(v, d)' => v # w /\ Has(v, d)
  <2> SUFFICES ASSUME NEW v \in Worker, d \in Conn, Has(v, d)' PROVE v # w /\ Has(v, d)
    OBVIOUS
  <2>1. v # w /\ Busy(v)
    BY <1>4 DEF Has, Busy
  <2>2. fd[v] \in Fd /\ open'[fd[v]] = d /\ d # NULL
    BY <1>1, RequestAssumption DEF Has, On
  <2>3. open[fd[v]] = d
    BY <1>1, <2>2 DEF TypeOK
  <2> QED BY <2>1, <2>2, <2>3 DEF Has, On
<1>7. d \in Conn => Has(w, d) /\ d \in served
  BY <1>1 DEF Has, Busy, HasServed
<1>8. HasServed'
  BY <1>1, <1>5, <1>6 DEF HasServed
<1>9. HeldServed'
  <2> SUFFICES ASSUME NEW c \in came, ~Held(c)' PROVE c \in served
    BY <1>1 DEF HeldServed, pool
  <2>1. c \in Conn
    BY <1>1 DEF TypeOK
  <2> QED BY <1>1, <1>5, <1>7, <2>1 DEF HeldServed
<1>10. ASSUME NEW c \in Conn \ mixed' PROVE ConnInv(c)'
  <2>1. ConnInv(c) /\ \A p \in Pid : Kid(p, c)' <=> Kid(p, c)
    BY <1>1 DEF RequestInv, Kid, procs
  <2>2. CASE c # d
    <3>1. \A v \in Worker : Has(v, c)' <=> Has(v, c)
      BY <1>5, <2>2
    <3>2. \A v \in Worker : Has(v, c) => at'[v] = at[v]
      BY <1>4, <2>2 DEF Has
    <3>3. Frame(c)
      BY <1>1, <2>1, <3>1, <3>2 DEF Frame
    <3> QED BY <2>1, <3>3, FrameKeeps
  <2>3. CASE c = d
    <3>1. \A v \in Worker : Has(v, c) <=> v = w
      BY <1>7, <2>1, <2>3 DEF ConnInv, Single
    <3>2. \A v \in Worker : ~Has(v, c)'
      BY <1>6, <2>3, <3>1
    <3>3. ~Pending(c) /\ ~Pending(c)' /\ (Writing(c)' <=> Writing(c))
      BY <1>1, <2>1, <3>1, <3>2 DEF Pending, Unanswered, Writing, Kid
    <3>4. Single(c)' /\ Known(c)'
      BY <1>1, <2>1, <3>2 DEF ConnInv, Single, Known
    <3>5. Answered(c)'
      BY <1>1, <2>1, <3>3 DEF ConnInv, Answered
    <3> QED BY <3>4, <3>5 DEF ConnInv
  <2> QED BY <2>2, <2>3
<1> QED BY <1>1, <1>3, <1>8, <1>9, <1>10 DEF RequestInv

\* What a child writes, if it is followed.
LEMMA EndWrites ==
  ASSUME RequestInv, NEW p \in Pid, Ends(p)
  PROVE  /\ out[p] \in served /\ Kid(p, out[p]) /\ sent' \in [Conn -> Seq(Unit)]
         /\ \A c \in Conn \ mixed :
              IF c = out[p]
              THEN /\ asked[c].file \in {"empty"} \cup DOMAIN Text /\ Knows("fork", asked[c])
                   /\ sent'[c] = sent[c] \o Output(asked[c].file)
              ELSE sent'[c] = sent[c]
<1>1. TypeOK /\ ~aborted /\ child[p] = "running" /\ out[p] \in served /\ out[p] \in Conn
  BY DEF RequestInv, Ends, TypeOK
<1>2. Kid(p, out[p])
  BY <1>1 DEF Kid
<1>3. CASE out[p] \in mixed
  <2>1. sent' = sent
    BY <1>3 DEF Ends
  <2> QED BY <1>1, <1>2, <1>3, <2>1 DEF TypeOK
<1>4. CASE out[p] \notin mixed
  <2>1. Knows("fork", asked[out[p]])
    BY <1>1, <1>2, <1>4 DEF RequestInv, ConnInv, Known
  <2>2. asked[out[p]].file \in {"empty"} \cup DOMAIN Text
    BY <2>1, KindHas DEF Knows, Unanswered
  <2>3. Write(out[p], Output(asked[out[p]].file)) /\ Output(asked[out[p]].file) \in Seq(Unit)
    BY <1>4, <2>2, Texts DEF Ends
  <2> QED BY <1>1, <1>2, <2>1, <2>2, <2>3, Writes
<1> QED BY <1>3, <1>4

\* The child writes what the answer lacks, whoever waits for it and even if its
\* worker has closed the connection.
LEMMA EndKeeps == ASSUME RequestInv, NEW p \in Pid, Ends(p) PROVE RequestInv'
<1>1. /\ TypeOK /\ HasServed /\ HeldServed /\ ~aborted
      /\ child[p] = "running" /\ child' = [child EXCEPT ![p] = "zombie"]
      /\ out' = [out EXCEPT ![p] = NULL] /\ heirs' = [heirs EXCEPT ![p] = {}]
      /\ UNCHANGED <<pool, at, files, asked, aborted>>
  BY DEF RequestInv, Ends
<1>2. /\ child'[p] = "zombie"
      /\ \A q \in Pid : q # p => child'[q] = child[q] /\ out'[q] = out[q]
  BY <1>1 DEF TypeOK
<1>3. TypeOK'
  <2>1. /\ child' \in [Pid -> {"none", "running", "zombie"}] /\ out' \in [Pid -> came \cup {NULL}]
        /\ heirs' \in [Pid -> SUBSET came]
    BY <1>1 DEF TypeOK
  <2>2. \A q \in Pid : child'[q] = "running" => out'[q] \in served
    BY <1>1, <1>2 DEF TypeOK
  <2>3. UNCHANGED <<main, connfd, jobs, came, fd, srcfd, open, served, mixed, asked, aborted, at>>
    BY <1>1 DEF pool, files
  <2> QED BY <1>1, <2>1, <2>2, <2>3, EndWrites DEF TypeOK
<1>4. \A v \in Worker : \A c \in Conn : Has(v, c)' <=> Has(v, c)
  BY <1>1 DEF Has, Busy, On, files
<1>5. HasServed' /\ HeldServed'
  BY <1>1, <1>4 DEF HasServed, HeldServed, Held, pool, files
<1>6. ASSUME NEW c \in Conn \ mixed' PROVE ConnInv(c)'
  <2>1. c \notin mixed /\ ConnInv(c) /\ UNCHANGED <<served, asked, at>>
    BY <1>1, <1>6 DEF RequestInv, files
  <2>2. CASE c # out[p]
    <3>1. \A q \in Pid : Kid(q, c)' <=> Kid(q, c)
      BY <1>2, <2>2 DEF Kid
    <3>2. sent'[c] = sent[c]
      BY <2>1, <2>2, EndWrites
    <3>3. Frame(c)
      BY <1>4, <2>1, <3>1, <3>2 DEF Frame
    <3> QED BY <2>1, <3>3, FrameKeeps
  <2>3. CASE c = out[p]
    <3>1. Kid(p, c) /\ Knows("fork", asked[c]) /\ sent'[c] = sent[c] \o Output(asked[c].file)
          /\ c \in served
      BY <2>1, <2>3, EndWrites
    <3>2. Writing(c)
      BY <3>1 DEF Writing, Kid
    <3>3. ~Pending(c) /\ sent[c] = HeadLine
      BY <2>1, <3>1, <3>2 DEF ConnInv, Answered
    <3>4. \A q \in Pid : ~Kid(q, c)'
      BY <1>2, <2>1, <3>1 DEF ConnInv, Single, Kid
    <3>5. ~Writing(c)' /\ ~Pending(c)'
      BY <1>4, <2>1, <3>3, <3>4 DEF Writing, Kid, Pending
    <3>6. sent'[c] = Response(asked[c])
      BY <3>1, <3>3 DEF Response, Knows
    <3>7. Single(c)' /\ Known(c)'
      BY <1>4, <2>1, <3>4 DEF ConnInv, Single, Known
    <3>8. Answered(c)'
      BY <2>1, <3>5, <3>6, <3>1 DEF Answered
    <3> QED BY <3>7, <3>8 DEF ConnInv
  <2> QED BY <2>2, <2>3
<1> QED BY <1>1, <1>3, <1>5, <1>6 DEF RequestInv

\* the actions that end the process
Aborts(w) == OpenFails(w) \/ MmapFails(w) \/ BadFd(w) \/ Reset(w)

LEMMA AbortsAbort == ASSUME NEW w \in Worker, Aborts(w) PROVE Abort
BY DEF Aborts, OpenFails, MmapFails, BadFd, Reset

\* The cases of Next.
LEMMA NextCases ==
  ASSUME Next
  PROVE  \/ \E d \in Conn : Accept(d)
         \/ Abort
         \/ MainStep \/ \E w \in Worker : Test(w)
         \/ \E w \in Worker : Begin(w) \/ RequestLine(w) \/ ReadHeaders(w) \/ Found(w)
                \/ ReadMixed(w) \/ Refuse(w) \/ OpenFile(w) \/ ServeStatic(w) \/ Fork(w)
                \/ Wait(w) \/ Close(w)
         \/ \E p \in Pid : Ends(p)
BY AbortsAbort DEF Next, WorkerStep, AcceptFails, Aborts

LEMMA Typing == Spec => []RequestInv
<1>1. Init => RequestInv
  <2> SUFFICES ASSUME Init PROVE RequestInv
    OBVIOUS
  <2>1. /\ \A w \in Worker : at[w] = "idle"
        /\ \A c \in Conn : sent[c] = << >>
        /\ \A p \in Pid : child[p] = "none"
        /\ came = {} /\ served = {}
    BY DEF Init
  <2>2. TypeOK
    <3>1. fd \in [Worker -> Fd \cup {NULL}]
      BY RequestAssumption DEF Init
    <3>2. << >> \in Seq(Unit)
      OBVIOUS
    <3>3. sent \in [Conn -> Seq(Unit)]
      BY <3>2 DEF Init
    <3> QED BY <2>1, <3>1, <3>3 DEF Init, TypeOK
  <2>3. \A w \in Worker : \A c : ~Has(w, c)
    BY <2>1 DEF Has, Busy
  <2>4. \A p \in Pid : \A c : ~Kid(p, c)
    BY <2>1 DEF Kid
  <2>5. HasServed /\ HeldServed
    BY <2>1, <2>3 DEF HasServed, HeldServed
  <2>6. ASSUME NEW c \in Conn PROVE ConnInv(c)
    <3>1. Single(c) /\ Known(c)
      BY <2>3, <2>4 DEF Single, Known
    <3>2. Answered(c)
      BY <2>1, <2>4 DEF Answered, Writing, Kid
    <3> QED BY <3>1, <3>2 DEF ConnInv
  <2> QED BY <2>2, <2>5, <2>6 DEF RequestInv
<1>2. RequestInv /\ [Next]_vars => RequestInv'
  <2> SUFFICES ASSUME RequestInv, [Next]_vars PROVE RequestInv'
    OBVIOUS
  <2>1. CASE Next
    BY <2>1, NextCases, AcceptKeeps, AbortEnds, QueueKeeps, BeginKeeps, LineKeeps, ReadKeeps,
       MixedReadKeeps, RefuseKeeps, OpenKeeps, StaticKeeps, ForkKeeps, WaitKeeps, CloseKeeps,
       EndKeeps
  <2>2. CASE UNCHANGED vars
    <3>1. UNCHANGED <<main, connfd, jobs, came, at, fd, srcfd, open, served, mixed, asked, sent,
                      child, out, heirs, aborted>>
      BY <2>2 DEF vars, pool, files, procs
    <3>2. TypeOK' /\ HasServed' /\ (HeldServed => HeldServed')
      BY <3>1 DEF RequestInv, TypeOK, HasServed, HeldServed, Has, Busy, On, Held
    <3>3. \A c \in Conn : Frame(c)
      BY <3>1 DEF Frame, Has, Busy, On, Kid
    <3> QED BY <3>1, <3>2, <3>3, FrameKeeps DEF RequestInv
  <2> QED BY <2>1, <2>2
<1> QED BY <1>1, <1>2, PTL DEF Spec

\* For any number of workers, connections, descriptors and process ids: TypeOK of Request.
THEOREM TypeSafety == Spec => []TypeOK
<1>1. RequestInv => TypeOK
  BY DEF RequestInv
<1> QED BY <1>1, Typing, PTL

\* For any number of workers, connections, descriptors and process ids, and any files:
\* OneAnswer.
THEOREM AnswerSafety == Spec => []OneAnswer
<1>1. RequestInv => OneAnswer
  <2> SUFFICES ASSUME RequestInv, NEW c \in served \ mixed, ~aborted, ~Held(c)
               PROVE  sent[c] = IF Writing(c) THEN HeadLine ELSE Response(asked[c])
    BY DEF OneAnswer
  <2>1. c \in Conn /\ ConnInv(c) /\ c # NULL
    BY RequestAssumption DEF RequestInv, TypeOK
  <2>2. ~Pending(c)
    BY <2>1 DEF Pending, Has, On, Held
  <2> QED BY <2>1, <2>2 DEF ConnInv, Answered
<1> QED BY <1>1, Typing, PTL

------------------------------------------------------------------------------
(* Children and waiting workers                                             *)

LEMMA FiniteBoth == ASSUME TypeOK PROVE IsFiniteSet(Children) /\ IsFiniteSet(Waiting)
<1>1. Children \subseteq Pid /\ Waiting \subseteq Worker
  BY DEF Children, Waiting
<1> QED BY <1>1, FS_Subset, RequestAssumption

\* A fork adds a child and a waiting worker.
LEMMA ForkAddsBoth ==
  ASSUME TypeOK, ChildPerWaiter, NEW w \in Worker, Fork(w) PROVE ChildPerWaiter'
<1> PICK p \in Pid : child[p] = "none" /\ child' = [child EXCEPT ![p] = "running"]
  BY DEF Fork
<1>1. Children' = Children \cup {p} /\ p \notin Children
  BY DEF Children, TypeOK
<1>2. Waiting' = Waiting \cup {w} /\ w \notin Waiting
  BY DEF Waiting, TypeOK, Fork, Move
<1>3. Cardinality(Children') = Cardinality(Children) + 1
  BY <1>1, FiniteBoth, FS_AddElement
<1>4. Cardinality(Waiting') = Cardinality(Waiting) + 1
  BY <1>2, FiniteBoth, FS_AddElement
<1> QED BY <1>3, <1>4 DEF ChildPerWaiter

\* When the process ends, it has neither.
LEMMA AbortEndsBoth == ASSUME Abort PROVE ChildPerWaiter'
<1>1. Children' = {} /\ Waiting' = {}
  BY DEF Abort, Children, Waiting
<1> QED BY <1>1 DEF ChildPerWaiter

\* The assert of wait_or_die never fails: a worker that waits has a child to
\* reap, its own or another's.
LEMMA WaitFindsChild ==
  ASSUME TypeOK, ChildPerWaiter, NEW w \in Worker, at[w] = "wait" PROVE ~NoChild
<1>1. w \in Waiting
  BY DEF Waiting
<1>2. Cardinality(Waiting) # 0
  BY <1>1, FiniteBoth, FS_EmptySet
<1>3. Children # {}
  BY <1>2, FS_EmptySet DEF ChildPerWaiter
<1> QED BY <1>3 DEF Children, NoChild

\* A wait removes one of each, though they need not belong together.
LEMMA WaitRemovesBoth ==
  ASSUME TypeOK, ChildPerWaiter, NEW w \in Worker, Wait(w) PROVE ChildPerWaiter'
<1>0. Move(w, "wait", "close")
      /\ \E p \in Pid : child[p] = "zombie" /\ child' = [child EXCEPT ![p] = "none"]
  BY WaitFindsChild DEF Wait
<1> PICK p \in Pid : child[p] = "zombie" /\ child' = [child EXCEPT ![p] = "none"]
  BY <1>0
<1>1. Children' = Children \ {p} /\ p \in Children
  BY DEF Children, TypeOK
<1>2. Waiting' = Waiting \ {w} /\ w \in Waiting
  BY <1>0 DEF Waiting, TypeOK, Move
<1>3. Cardinality(Children') = Cardinality(Children) - 1
  BY <1>1, FiniteBoth, FS_RemoveElement
<1>4. Cardinality(Waiting') = Cardinality(Waiting) - 1
  BY <1>2, FiniteBoth, FS_RemoveElement
<1> QED BY <1>3, <1>4 DEF ChildPerWaiter

\* For any number of workers, connections, descriptors and process ids: there are as
\* many children as workers in wait(NULL), whichever child each of them reaps.
THEOREM ChildSafety == Spec => []ChildPerWaiter
<1>1. Init => ChildPerWaiter
  <2> SUFFICES ASSUME Init PROVE ChildPerWaiter
    OBVIOUS
  <2>1. Children = {} /\ Waiting = {}
    BY DEF Init, Children, Waiting
  <2> QED BY <2>1 DEF ChildPerWaiter
<1>2. TypeOK /\ ChildPerWaiter /\ [Next]_vars => ChildPerWaiter'
  <2> SUFFICES ASSUME TypeOK, ChildPerWaiter, [Next]_vars PROVE ChildPerWaiter'
    OBVIOUS
  <2>1. ASSUME Children' = Children, Waiting' = Waiting PROVE ChildPerWaiter'
    BY <2>1 DEF ChildPerWaiter
  <2>2. ASSUME NEW w \in Worker, NEW from, NEW to, Move(w, from, to),
               from # "wait", to # "wait", UNCHANGED child
        PROVE  ChildPerWaiter'
    <3>1. Waiting' = Waiting
      BY <2>2 DEF Move, Waiting, TypeOK
    <3>2. Children' = Children
      BY <2>2 DEF Children
    <3> QED BY <2>1, <3>1, <3>2
  <2>3. ASSUME NEW w \in Worker, Test(w) \/ Begin(w) \/ RequestLine(w) \/ ReadHeaders(w)
               \/ ReadMixed(w) \/ Refuse(w) \/ Found(w) \/ OpenFile(w) \/ ServeStatic(w) \/ Close(w)
        PROVE  ChildPerWaiter'
    BY <2>2, <2>3 DEF Test, Begin, RequestLine, ReadHeaders, ReadMixed, Refuse, Found, OpenFile,
                      ServeStatic, Close, procs
  <2>4. CASE MainStep \/ \E d \in Conn : Accept(d)
    BY <2>1, <2>4 DEF MainStep, Fill, Drain, Accept, procs, Children, Waiting
  <2>5. ASSUME NEW p \in Pid, Ends(p) PROVE ChildPerWaiter'
    BY <2>1, <2>5 DEF Ends, Children, Waiting, TypeOK
  <2>6. CASE UNCHANGED vars
    BY <2>1, <2>6 DEF vars, procs, Children, Waiting
  <2>7. CASE Next
    BY <2>3, <2>4, <2>5, <2>7, NextCases, AbortEndsBoth, ForkAddsBoth, WaitRemovesBoth
  <2> QED BY <2>6, <2>7
<1> QED BY <1>1, <1>2, TypeSafety, PTL DEF Spec

------------------------------------------------------------------------------
(* The client                                                               *)

\* A client's steps are stutters of the server: what holds of Request holds with
\* clients.
LEMMA ClientIsRequest == ClientSpec => Spec
<1>1. ClientInit => Init
  BY DEF ClientInit
<1>2. [ClientNext]_<<vars, client>> => [Next]_vars
  BY DEF ClientNext, Send, ClientStep, ReadPiece, FindEmptyLine, HeaderEnds, Readline,
         ReadlineZero, BodyEnds
<1> QED BY <1>1, <1>2, PTL DEF ClientSpec, Spec

\* A running child holds the connection it writes to.
HeirsInv == \A p \in Pid : child[p] = "running" => out[p] \in heirs[p]

LEMMA HeirsStep == TypeOK /\ HeirsInv /\ [Next]_vars => HeirsInv'
<1> SUFFICES ASSUME TypeOK, HeirsInv, [Next]_vars PROVE HeirsInv'
  OBVIOUS
<1>1. ASSUME NEW w \in Worker, Fork(w) PROVE HeirsInv'
  <2> PICK p \in Pid :
        /\ child' = [child EXCEPT ![p] = "running"]
        /\ out' = [out EXCEPT ![p] = On(fd[w])]
        /\ heirs' = [heirs EXCEPT ![p] = {open[f] : f \in Fd} \cap Conn]
    BY <1>1 DEF Fork
  <2> DEFINE inherited == {open[f] : f \in Fd} \cap Conn
  <2>1. On(fd[w]) \in inherited
    BY <1>1, RequestAssumption DEF Fork, Answer, On
  <2>2. heirs' = [heirs EXCEPT ![p] = inherited]
    OBVIOUS
  <2> HIDE DEF inherited
  <2> QED BY <2>1, <2>2 DEF HeirsInv, TypeOK
<1>2. ASSUME NEW w \in Worker, Wait(w) PROVE HeirsInv'
  BY <1>2 DEF Wait, Abort, HeirsInv, TypeOK
<1>3. ASSUME NEW p \in Pid, Ends(p) PROVE HeirsInv'
  BY <1>3 DEF Ends, HeirsInv, TypeOK
<1>4. CASE Abort
  BY <1>4 DEF Abort, HeirsInv
<1>5. ASSUME UNCHANGED procs PROVE HeirsInv'
  BY <1>5 DEF procs, HeirsInv
<1>6. ASSUME NEW w \in Worker, Test(w) \/ Begin(w) \/ RequestLine(w) \/ ReadHeaders(w)
             \/ ReadMixed(w) \/ Refuse(w) \/ Found(w) \/ OpenFile(w) \/ ServeStatic(w) \/ Close(w)
      PROVE  UNCHANGED procs
  BY <1>6 DEF Test, Begin, RequestLine, ReadHeaders, ReadMixed, Refuse, Found, OpenFile,
              ServeStatic, Close, procs
<1>7. ASSUME MainStep \/ \E d \in Conn : Accept(d) PROVE UNCHANGED procs
  BY <1>7 DEF MainStep, Fill, Drain, Accept, procs
<1>8. CASE UNCHANGED vars
  BY <1>5, <1>8 DEF vars
<1>9. CASE Next
  BY <1>1, <1>2, <1>3, <1>4, <1>5, <1>6, <1>7, <1>9, NextCases
<1> QED BY <1>8, <1>9

\* What is sent on an unmixed connection is never taken back, and those that send
\* hold the connection.
LEMMA SentGrows ==
  ASSUME RequestInv, HeirsInv, [Next]_vars, ~aborted', NEW c \in Conn \ mixed'
  PROVE  /\ ~aborted /\ c \notin mixed
         /\ \/ sent'[c] = sent[c]
            \/ /\ ~Ended(c)
               /\ \E text \in Seq(Unit) : sent'[c] = sent[c] \o text
<1>1. TypeOK
  BY DEF RequestInv
<1>2. ASSUME NEW w \in Worker, NEW text \in Seq(Unit), Answer(w, text), c \notin mixed
      PROVE  \/ sent'[c] = sent[c]
             \/ ~Ended(c) /\ sent'[c] = sent[c] \o text
  <2>1. CASE On(fd[w]) = c
    <3>1. Held(c)
      BY <2>1, RequestAssumption DEF On, Held
    <3> QED BY <1>1, <1>2, <2>1, <3>1, Answers DEF Ended
  <2>2. CASE On(fd[w]) # c
    BY <1>1, <1>2, <2>2, Answers
  <2> QED BY <2>1, <2>2
<1> DEFINE Goal == /\ ~aborted /\ c \notin mixed
                   /\ \/ sent'[c] = sent[c]
                      \/ /\ ~Ended(c)
                         /\ \E text \in Seq(Unit) : sent'[c] = sent[c] \o text
<1>3. ASSUME NEW w \in Worker, RequestLine(w) \/ ReadMixed(w) \/ Refuse(w) \/ Fork(w) PROVE Goal
  <2>1. ~aborted /\ mixed' = mixed
    BY <1>3 DEF RequestLine, ReadMixed, Refuse, Fork, Move, files
  <2>2. sent' = sent \/ Answer(w, ErrorText) \/ Answer(w, HeadLine)
    BY <1>3 DEF RequestLine, ReadMixed, Refuse, Fork
  <2> QED BY <1>2, <2>1, <2>2, Texts
<1>4. ASSUME NEW w \in Worker, ServeStatic(w) PROVE Goal
  <2> PICK file \in DOMAIN Text : Answer(w, StaticText(file))
    BY <1>4 DEF ServeStatic
  <2>1. ~aborted /\ mixed' = mixed
    BY <1>4 DEF ServeStatic, Move
  <2> QED BY <1>2, <2>1, Texts
<1>5. ASSUME NEW p \in Pid, Ends(p) PROVE Goal
  <2>1. ~aborted /\ mixed' = mixed
    BY <1>5 DEF Ends, files
  <2>2. CASE c = out[p]
    <3>1. ~Ended(c)
      BY <1>5, <2>2 DEF Ends, Ended, HeirsInv
    <3> QED BY <1>5, <2>1, <2>2, <3>1, EndWrites, Texts
  <2>3. CASE c # out[p]
    BY <1>5, <2>1, <2>3, EndWrites
  <2> QED BY <2>2, <2>3
<1>6. ASSUME NEW w \in Worker, Begin(w) \/ OpenFile(w) PROVE Goal
  <2>1. ~aborted /\ \E cs : Mix(cs)
    BY <1>6 DEF Begin, OpenFile, Move
  <2> QED BY <1>1, <2>1, Mixes
<1>7. ASSUME NEW d \in Conn, Accept(d) PROVE Goal
  <2>1. ~aborted /\ \E cs : Mix(cs)
    BY <1>7 DEF Accept
  <2> QED BY <1>1, <2>1, Mixes
<1>8. ASSUME NEW w \in Worker, Test(w) \/ ReadHeaders(w) \/ Found(w) \/ Close(w) PROVE Goal
  BY <1>8 DEF Test, ReadHeaders, Found, Close, Move, files
<1>9. ASSUME MainStep PROVE Goal
  BY <1>9 DEF MainStep, Fill, Drain, files
<1>10. ASSUME NEW w \in Worker, Wait(w) PROVE Goal
  BY <1>10 DEF Wait, Move, Abort, files
<1>11. CASE UNCHANGED vars
  BY <1>11 DEF vars, files
<1>12. ~Abort
  BY DEF Abort
<1>13. ASSUME Next PROVE Goal
  <2> HIDE DEF Goal
  <2> QED BY <1>3, <1>4, <1>5, <1>6, <1>7, <1>8, <1>9, <1>10, <1>12, <1>13, NextCases
<1> QED BY <1>11, <1>13

\* A connection whose end nobody holds comes to nobody's hands.
LEMMA EndedStays ==
  ASSUME RequestInv, [Next]_vars, ~aborted', NEW c \in Conn, Ended(c)
  PROVE  Ended(c)'
<1>1. TypeOK /\ c \in came /\ ~Held(c) /\ (\A p \in Pid : c \notin heirs[p])
      /\ c # NULL /\ c # FILE
  BY RequestAssumption DEF RequestInv, Ended
<1>2. ASSUME UNCHANGED <<came, open, heirs>> PROVE Ended(c)'
  BY <1>1, <1>2 DEF Ended, Held
<1>3. ASSUME UNCHANGED <<came, heirs>>, NEW f \in Fd, NEW x \in {NULL, FILE},
             open' = [open EXCEPT ![f] = x]
      PROVE  Ended(c)'
  BY <1>1, <1>3 DEF Ended, Held, TypeOK
<1>4. ASSUME NEW d \in Conn, Accept(d) PROVE Ended(c)'
  <2> PICK f \in Fd : open' = [open EXCEPT ![f] = d]
    BY <1>4 DEF Accept
  <2>1. d # c /\ came' = came \cup {d} /\ heirs' = heirs
    BY <1>1, <1>4 DEF Accept, procs
  <2> QED BY <1>1, <2>1 DEF Ended, Held, TypeOK
<1>5. ASSUME NEW w \in Worker, Test(w) \/ Begin(w) \/ RequestLine(w) \/ ReadHeaders(w)
             \/ ReadMixed(w) \/ Refuse(w) \/ Found(w)
      PROVE  Ended(c)'
  BY <1>2, <1>5 DEF Test, Begin, RequestLine, ReadHeaders, ReadMixed, Refuse, Found, pool, files,
                    procs
<1>6. ASSUME NEW w \in Worker, OpenFile(w) PROVE Ended(c)'
  BY <1>3, <1>6 DEF OpenFile, pool, procs
<1>7. ASSUME NEW w \in Worker, ServeStatic(w) PROVE Ended(c)'
  <2>1. srcfd[w] \in Fd /\ UNCHANGED <<came, heirs>> /\ open' = [open EXCEPT ![srcfd[w]] = NULL]
    BY <1>7, RequestAssumption DEF ServeStatic, On, pool, procs
  <2> QED BY <1>3, <2>1
<1>8. ASSUME NEW w \in Worker, Close(w) PROVE Ended(c)'
  <2>1. fd[w] \in Fd /\ UNCHANGED <<came, heirs>> /\ open' = [open EXCEPT ![fd[w]] = NULL]
    BY <1>8 DEF Close, On, pool, procs
  <2> QED BY <1>3, <2>1
<1>9. ASSUME NEW w \in Worker, Fork(w) PROVE Ended(c)'
  <2> PICK p \in Pid : heirs' = [heirs EXCEPT ![p] = {open[f] : f \in Fd} \cap Conn]
    BY <1>9 DEF Fork
  <2> DEFINE inherited == {open[f] : f \in Fd} \cap Conn
  <2>1. c \notin inherited /\ heirs' = [heirs EXCEPT ![p] = inherited]
    BY <1>1 DEF Held
  <2>2. UNCHANGED <<came, open>>
    BY <1>9 DEF Fork, pool, files
  <2> HIDE DEF inherited
  <2>3. \A q \in Pid : c \notin heirs'[q]
    BY <1>1, <2>1 DEF TypeOK
  <2> QED BY <1>1, <2>2, <2>3 DEF Ended, Held
<1>10. ASSUME NEW w \in Worker, Wait(w) PROVE Ended(c)'
  BY <1>2, <1>10 DEF Wait, Abort, pool, files
<1>11. ASSUME NEW p \in Pid, Ends(p) PROVE Ended(c)'
  BY <1>1, <1>11 DEF Ends, Ended, Held, TypeOK, pool, files
<1>12. CASE MainStep
  BY <1>2, <1>12 DEF MainStep, Fill, Drain, files, procs
<1>13. CASE UNCHANGED vars
  BY <1>2, <1>13 DEF vars, pool, files, procs
<1>14. ~Abort
  BY DEF Abort
<1>15. CASE Next
  BY <1>4, <1>5, <1>6, <1>7, <1>8, <1>9, <1>10, <1>11, <1>12, <1>14, <1>15, NextCases
<1> QED BY <1>13, <1>15

\* t begins with s.
Extends(t, s) == Len(s) <= Len(t) /\ \A i \in 1..Len(s) : t[i] = s[i]

LEMMA ConcatExtends ==
  ASSUME NEW s \in Seq(Unit), NEW t \in Seq(Unit) PROVE s \o t \in Seq(Unit) /\ Extends(s \o t, s)
BY ConcatProperties DEF Extends

LEMMA ExtendsSame ==
  ASSUME NEW s \in Seq(Unit), NEW t \in Seq(Unit), Extends(t, s), NEW n \in 0..Len(s)
  PROVE  SubSeq(t, 1, n) = SubSeq(s, 1, n)
<1>1. \A i \in 1..n : s[i] \in Unit /\ t[i] \in Unit /\ s[i] = t[i]
  BY DEF Extends
<1> DEFINE a == SubSeq(s, 1, n)
           b == SubSeq(t, 1, n)
<1>2. a \in Seq(Unit) /\ Len(a) = n /\ \A i \in 1..n : a[i] = s[i]
  BY <1>1, SubSeqProperties
<1>3. b \in Seq(Unit) /\ Len(b) = n /\ \A i \in 1..n : b[i] = t[i]
  BY <1>1, SubSeqProperties
<1> HIDE DEF a, b
<1>4. a = b
  BY <1>1, <1>2, <1>3, SeqEqual
<1> QED BY <1>4 DEF a, b

\* What has been sent on an unmixed connection begins the answer to its request, and is
\* the answer once nobody holds its other end.
LEMMA SentBegins ==
  ASSUME RequestInv, ~aborted, NEW c \in Conn \ mixed, sent[c] # << >>
  PROVE  Response(asked[c]) \in Seq(Unit) /\ Extends(Response(asked[c]), sent[c])
<1>1. ConnInv(c) /\ sent[c] \in Seq(Unit)
  BY DEF RequestInv, TypeOK
<1>2. ~Pending(c) /\ c \in served
  BY <1>1 DEF ConnInv, Answered
<1>3. CASE Writing(c)
  <2> PICK p \in Pid : Kid(p, c)
    BY <1>3 DEF Writing, Kid
  <2>1. Knows("fork", asked[c]) /\ sent[c] = HeadLine
    BY <1>1, <1>2, <1>3 DEF ConnInv, Known, Answered
  <2>2. asked[c].file \in {"empty"} \cup DOMAIN Text
    BY <2>1, KindHas DEF Knows, Unanswered
  <2>3. Response(asked[c]) = HeadLine \o Output(asked[c].file)
    BY <2>1 DEF Response, Knows
  <2> QED BY <2>1, <2>2, <2>3, Texts, ConcatExtends
<1>4. CASE ~Writing(c)
  <2>1. sent[c] = Response(asked[c])
    BY <1>1, <1>2, <1>4 DEF ConnInv, Answered
  <2> QED BY <1>1, <2>1 DEF Extends
<1> QED BY <1>3, <1>4

LEMMA EndedIsAnswered ==
  ASSUME RequestInv, HeirsInv, ~aborted, NEW c \in Conn \ mixed, Ended(c)
  PROVE  sent[c] = Response(asked[c])
<1>1. ConnInv(c) /\ c \in came /\ c \in served /\ c # NULL /\ ~Held(c)
  BY RequestAssumption DEF RequestInv, HeldServed, Ended
<1>2. ~Writing(c)
  BY DEF Ended, Writing, HeirsInv
<1>3. ~Pending(c)
  BY <1>1 DEF Pending, Has, On, Held
<1> QED BY <1>1, <1>2, <1>3 DEF ConnInv, Answered

LEMMA Pieces == \A piece \in {EmptyLine, <<"cr">>} : piece \in Seq(Unit)
<1>1. <<"cr", "lf">> \in Seq(Unit) /\ <<"cr">> \in Seq(Unit)
  BY DEF Unit
<1> QED BY <1>1 DEF EmptyLine

LEMMA Associative ==
  ASSUME NEW p \in Seq(Unit), NEW s \in Seq(Unit), NEW t \in Seq(Unit)
  PROVE  (p \o s) \o t = p \o (s \o t)
BY ConcatAssociative

\* A piece more of what is sent, printed or taken for the empty line.
LEMMA PrintsMore ==
  ASSUME NEW p \in Seq(Unit), NEW s \in Seq(Unit), NEW t \in Seq(Unit), Prints(p, s)
  PROVE  Prints(p \o t, s \o t)
<1>1. CASE p = s
  BY <1>1 DEF Prints
<1>2. CASE \E i \in 0..Len(p), piece \in {EmptyLine, <<"cr">>} :
             s = SubSeq(p, 1, i) \o piece \o SubSeq(p, i + 1, Len(p))
  <2> PICK i \in 0..Len(p), piece \in {EmptyLine, <<"cr">>} :
        s = SubSeq(p, 1, i) \o piece \o SubSeq(p, i + 1, Len(p))
    BY <1>2
  <2> DEFINE q == p \o t
             a == SubSeq(p, 1, i)
             b == SubSeq(p, i + 1, Len(p))
             a1 == SubSeq(q, 1, i)
             b1 == SubSeq(q, i + 1, Len(q))
  <2>1. q \in Seq(Unit) /\ Len(q) = Len(p) + Len(t)
        /\ \A j \in 1..Len(q) : q[j] = IF j <= Len(p) THEN p[j] ELSE t[j - Len(p)]
    BY ConcatProperties
  <2>2. /\ a \in Seq(Unit) /\ Len(a) = i /\ \A j \in 1..i : a[j] = p[j]
    <3>1. \A j \in 1..i : p[j] \in Unit
      OBVIOUS
    <3> QED BY <3>1, SubSeqProperties
  <2>3. /\ b \in Seq(Unit) /\ Len(b) = Len(p) - i
        /\ \A j \in 1..(Len(p) - i) : b[j] = p[i + j]
    <3>1. \A j \in (i + 1)..Len(p) : p[j] \in Unit
      OBVIOUS
    <3> QED BY <3>1, SubSeqProperties
  <2> HIDE DEF q
  <2>4. /\ a1 \in Seq(Unit) /\ Len(a1) = i /\ \A j \in 1..i : a1[j] = q[j]
    <3>1. \A j \in 1..i : q[j] \in Unit
      BY <2>1
    <3> QED BY <3>1, SubSeqProperties
  <2>5. /\ b1 \in Seq(Unit) /\ Len(b1) = Len(q) - i
        /\ \A j \in 1..(Len(q) - i) : b1[j] = q[i + j]
    <3>1. \A j \in (i + 1)..Len(q) : q[j] \in Unit
      BY <2>1
    <3> QED BY <2>1, <3>1, SubSeqProperties
  <2> HIDE DEF a, b, a1, b1
  <2>6. a1 = a
    BY <2>1, <2>2, <2>4, SeqEqual
  <2>7. b1 = b \o t
    <3>1. b \o t \in Seq(Unit) /\ Len(b \o t) = Len(b) + Len(t)
          /\ \A j \in 1..(Len(b) + Len(t)) :
               (b \o t)[j] = IF j <= Len(b) THEN b[j] ELSE t[j - Len(b)]
      BY <2>3, ConcatProperties
    <3> DEFINE u == b \o t
    <3>2. /\ u \in Seq(Unit) /\ Len(u) = Len(b) + Len(t)
          /\ \A j \in 1..(Len(b) + Len(t)) : u[j] = IF j <= Len(b) THEN b[j] ELSE t[j - Len(b)]
      BY <3>1
    <3> HIDE DEF u
    <3>3. Len(u) = Len(b1) /\ \A j \in 1..Len(u) : u[j] = b1[j]
      <4>1. Len(u) = Len(b1)
        BY <2>1, <2>3, <2>5, <3>2
      <4>2. ASSUME NEW j \in 1..Len(u) PROVE u[j] = b1[j]
        <5>1. CASE j <= Len(b)
          BY <2>1, <2>3, <2>5, <3>2, <4>2, <5>1
        <5>2. CASE j > Len(b)
          <6>1. i + j \in 1..Len(q) /\ i + j > Len(p) /\ i + j - Len(p) = j - Len(b)
                /\ j \in 1..(Len(q) - i)
            BY <2>1, <2>3, <2>5, <3>2, <4>1, <5>2
          <6>2. b1[j] = q[i + j] /\ q[i + j] = t[i + j - Len(p)]
            BY <2>1, <2>5, <6>1
          <6>3. u[j] = t[j - Len(b)]
            BY <2>3, <3>2, <5>2
          <6> QED BY <6>1, <6>2, <6>3
        <5> QED BY <2>3, <3>2, <5>1, <5>2
      <4> QED BY <4>1, <4>2
    <3>4. u = b1
      BY <2>5, <3>2, <3>3, SeqEqual
    <3> QED BY <3>4 DEF u
  <2>8. piece \in Seq(Unit)
    BY Pieces
  <2>9. a \o piece \in Seq(Unit)
    BY <2>2, <2>8, ConcatProperties
  <2>10. s \o t = a \o piece \o (b \o t)
    <3> DEFINE ap == a \o piece
    <3>1. s = ap \o b /\ ap \in Seq(Unit) /\ b \in Seq(Unit) /\ t \in Seq(Unit)
      BY <2>3, <2>9 DEF a, b
    <3> HIDE DEF ap
    <3>2. (ap \o b) \o t = ap \o (b \o t)
      BY <3>1, Associative
    <3> QED BY <3>1, <3>2 DEF ap
  <2>11. s \o t = a1 \o piece \o b1
    BY <2>6, <2>7, <2>10
  <2>12. i \in 0..Len(q)
    BY <2>1
  <2> QED BY <2>11, <2>12 DEF Prints, q, a1, b1
<1> QED BY <1>1, <1>2 DEF Prints

LEMMA PrintsSkip ==
  ASSUME NEW p \in Seq(Unit), NEW piece \in {EmptyLine, <<"cr">>}
  PROVE  Prints(p, p \o piece)
<1> DEFINE n == Len(p)
<1>1. n \in Nat /\ n \in 0..Len(p)
  OBVIOUS
<1>2. SubSeq(p, 1, n) = p
  BY SubSeqFull
<1>3. SubSeq(p, n + 1, n) = << >>
  BY <1>1, SubSeqEmpty
<1>4. p \o piece \in Seq(Unit)
  <2>1. piece \in Seq(Unit)
    BY Pieces
  <2> QED BY <2>1, ConcatProperties
<1>5. p \o piece = p \o piece \o << >>
  BY <1>4, ConcatEmptySeq
<1>6. p \o piece = SubSeq(p, 1, n) \o piece \o SubSeq(p, n + 1, Len(p))
  BY <1>2, <1>3, <1>5
<1> HIDE DEF n
<1> QED BY <1>1, <1>6 DEF Prints

\* The first n units of r, which is what is left of s after g.
Cut(s, g, r) ==
  /\ r \in Seq(Unit) /\ Len(r) = Len(s) - g
  /\ \A i \in 1..Len(r) : r[i] = s[g + i]
  /\ \A n \in 0..Len(r) :
       /\ SubSeq(r, 1, n) \in Seq(Unit) /\ Len(SubSeq(r, 1, n)) = n
       /\ SubSeq(s, 1, g) \o SubSeq(r, 1, n) = SubSeq(s, 1, g + n)

LEMMA Cuts ==
  ASSUME NEW s \in Seq(Unit), NEW g \in 0..Len(s)
  PROVE  Cut(s, g, SubSeq(s, g + 1, Len(s)))
<1> DEFINE r == SubSeq(s, g + 1, Len(s))
<1>1. r \in Seq(Unit) /\ Len(r) = Len(s) - g /\ \A i \in 1..Len(r) : r[i] = s[g + i]
  <2>1. \A i \in (g + 1)..Len(s) : s[i] \in Unit
    OBVIOUS
  <2> QED BY <2>1, SubSeqProperties
<1> HIDE DEF r
<1>2. ASSUME NEW n \in 0..Len(r)
      PROVE  /\ SubSeq(r, 1, n) \in Seq(Unit) /\ Len(SubSeq(r, 1, n)) = n
             /\ SubSeq(s, 1, g) \o SubSeq(r, 1, n) = SubSeq(s, 1, g + n)
  <2> DEFINE a == SubSeq(r, 1, n)
             m == g + n
             b == SubSeq(s, g + 1, m)
  <2>0. n \in Nat /\ m \in g..Len(s) /\ g \in Nat
    BY <1>1
  <2>1. a \in Seq(Unit) /\ Len(a) = n /\ \A i \in 1..n : a[i] = r[i]
    <3>1. \A i \in 1..n : r[i] \in Unit
      BY <1>1
    <3> QED BY <2>0, <3>1, SubSeqProperties
  <2>2. b \in Seq(Unit) /\ Len(b) = n /\ \A i \in 1..n : b[i] = s[g + i]
    <3>1. \A i \in (g + 1)..m : s[i] \in Unit
      BY <2>0
    <3> QED BY <2>0, <3>1, SubSeqProperties
  <2> HIDE DEF a
  <2>3. a = b
    <3> HIDE DEF b
    <3>1. ASSUME NEW i \in 1..n PROVE a[i] = b[i]
      <4>1. i \in 1..Len(r)
        BY <2>0
      <4> QED BY <1>1, <2>1, <2>2, <4>1
    <3> QED BY <2>1, <2>2, <3>1, SeqEqual
  <2>4. SubSeq(s, 1, g) \o SubSeq(s, g + 1, m) = SubSeq(s, 1, m)
    <3>1. 1 \in 1..(Len(s) + 1) /\ g \in (1 - 1)..Len(s)
      OBVIOUS
    <3> HIDE DEF m
    <3> QED BY <2>0, <3>1, ConcatAdjacentSubSeq
  <2>5. SubSeq(s, 1, g) \o a = SubSeq(s, 1, m)
    BY <2>3, <2>4
  <2> QED BY <2>1, <2>5 DEF a, m
<1>3. Cut(s, g, r)
  BY <1>1, <1>2 DEF Cut
<1> QED BY <1>3 DEF r

\* The client stops at the end, or at a line that readline returns 0 for.
Stopped(c) ==
  \/ Ended(c) /\ (Rest(c) = << >> \/ Rest(c) \in Zero)
  \/ got[c] < Len(sent[c]) /\ sent[c][got[c] + 1] = "lf"

\* What a client has printed is what it has read, but for one piece once it has
\* passed the header.
ClientHas(c) ==
  /\ got[c] \in 0..Len(sent[c])
  /\ Prints(printed[c], SubSeq(sent[c], 1, got[c]))
  /\ phase[c] \in {"connect", "header"} => printed[c] = SubSeq(sent[c], 1, got[c])
  /\ phase[c] = "done" => Stopped(c)

ClientTypes ==
  /\ phase \in [Client -> {"connect", "header", "body", "done"}]
  /\ got \in [Client -> Nat]
  /\ printed \in [Client -> Seq(Unit)]

ClientInv == ClientTypes /\ (~aborted => \A c \in Client \ mixed : ClientHas(c))

\* The server's steps: more may have been sent to a client.
LEMMA ServerKeepsClient ==
  ASSUME RequestInv, RequestInv', HeirsInv, ClientInv, [Next]_vars, UNCHANGED client
  PROVE  ClientInv'
<1> SUFFICES ASSUME NEW c \in Client \ mixed', ~aborted' PROVE ClientHas(c)'
  BY DEF ClientInv, ClientTypes, client
<1>1. c \in Conn \ mixed'
  BY ClientAssumption
<1>2. /\ ~aborted /\ c \notin mixed
      /\ \/ sent'[c] = sent[c]
         \/ /\ ~Ended(c)
            /\ \E text \in Seq(Unit) : sent'[c] = sent[c] \o text
  BY <1>1, SentGrows
<1>3. sent[c] \in Seq(Unit) /\ sent'[c] \in Seq(Unit)
  BY <1>1 DEF RequestInv, TypeOK
<1>4. phase' = phase /\ got' = got /\ printed' = printed /\ ClientHas(c)
  BY <1>2 DEF client, ClientInv
<1>5. Extends(sent'[c], sent[c])
  BY <1>2, <1>3, ConcatExtends DEF Extends
<1>6. got[c] \in 0..Len(sent[c]) /\ got[c] \in 0..Len(sent'[c])
  BY <1>3, <1>4, <1>5 DEF ClientHas, Extends
<1>7. SubSeq(sent'[c], 1, got[c]) = SubSeq(sent[c], 1, got[c])
  BY <1>3, <1>5, <1>6, ExtendsSame
<1>8. ASSUME Stopped(c) PROVE Stopped(c)'
  <2>1. CASE got[c] < Len(sent[c]) /\ sent[c][got[c] + 1] = "lf"
    BY <1>3, <1>4, <1>5, <1>6, <2>1 DEF Extends, Stopped
  <2>2. CASE Ended(c) /\ (Rest(c) = << >> \/ Rest(c) \in Zero)
    <3>1. sent'[c] = sent[c] /\ Ended(c)'
      BY <1>1, <1>2, <2>2, EndedStays
    <3> QED BY <1>4, <2>2, <3>1 DEF Stopped, Rest
  <2> QED BY <1>8, <2>1, <2>2 DEF Stopped
<1> QED BY <1>4, <1>6, <1>7, <1>8 DEF ClientHas

\* A client's own steps.
LEMMA ClientKeepsClient ==
  ASSUME RequestInv, ClientInv, NEW c \in Client, Send(c) \/ ClientStep(c)
  PROVE  ClientInv'
<1>1. UNCHANGED vars
  BY DEF Send, ClientStep, ReadPiece, FindEmptyLine, HeaderEnds, Readline, ReadlineZero, BodyEnds
<1>2. /\ c \in Conn /\ sent[c] \in Seq(Unit) /\ sent' = sent /\ mixed' = mixed
      /\ aborted' = aborted /\ \A d \in Client : Ended(d)' <=> Ended(d)
  BY <1>1, ClientAssumption DEF RequestInv, TypeOK, vars, pool, files, procs, Ended, Held
<1>3. got[c] \in Nat /\ printed[c] \in Seq(Unit) /\ ClientTypes
  BY DEF ClientInv, ClientTypes
<1> DEFINE s == sent[c]
           g == got[c]
<1>4. ASSUME ClientTypes',
             \A d \in Client : d # c => phase'[d] = phase[d] /\ got'[d] = got[d]
                                        /\ printed'[d] = printed[d],
             ~aborted /\ c \notin mixed => ClientHas(c)'
      PROVE  ClientInv'
  <2>1. ASSUME NEW d \in Client \ mixed, d # c, ~aborted PROVE ClientHas(d)'
    <3>1. ClientHas(d) /\ (Ended(d)' <=> Ended(d))
      BY <1>2, <2>1 DEF ClientInv
    <3>2. Rest(d)' = Rest(d) /\ (Stopped(d)' <=> Stopped(d))
      BY <1>2, <1>4, <2>1, <3>1 DEF Rest, Stopped
    <3> QED BY <1>2, <1>4, <2>1, <3>1, <3>2 DEF ClientHas
  <2> QED BY <1>2, <1>4, <2>1 DEF ClientInv
<1>5. ASSUME Send(c) PROVE ClientInv'
  <2>1. phase[c] = "connect" /\ phase' = [phase EXCEPT ![c] = "header"]
        /\ got' = got /\ printed' = printed
    BY <1>5 DEF Send, Goto
  <2>2. phase'[c] = "header" /\ ClientTypes'
    BY <1>3, <2>1 DEF ClientTypes
  <2>3. ASSUME ~aborted, c \notin mixed PROVE ClientHas(c)'
    <3>1. ClientHas(c)
      BY <2>3 DEF ClientInv
    <3> QED BY <1>2, <2>1, <2>2, <3>1 DEF ClientHas
  <2> QED BY <1>3, <1>4, <2>1, <2>2, <2>3 DEF ClientTypes
<1>6. ASSUME ClientStep(c) PROVE ClientInv'
  <2>1. ~aborted /\ c \notin mixed /\ ClientHas(c) /\ g \in 0..Len(s)
    BY <1>6 DEF ClientStep, ClientInv, ClientHas
  <2> DEFINE r == Rest(c)
  <2>2. /\ r \in Seq(Unit) /\ Len(r) = Len(s) - g
        /\ \A i \in 1..Len(r) : r[i] = s[g + i]
        /\ \A n \in 0..Len(r) :
             /\ SubSeq(r, 1, n) \in Seq(Unit) /\ Len(SubSeq(r, 1, n)) = n
             /\ SubSeq(s, 1, g) \o SubSeq(r, 1, n) = SubSeq(s, 1, g + n)
    <3>1. r = SubSeq(s, g + 1, Len(s)) /\ s \in Seq(Unit)
      BY <1>2 DEF Rest
    <3> HIDE DEF r, s, g
    <3>2. Cut(s, g, SubSeq(s, g + 1, Len(s)))
      BY <2>1, <3>1, Cuts
    <3> QED BY <3>1, <3>2 DEF Cut
  <2> HIDE DEF r
  <2>3. ASSUME NEW n \in 1..Len(r), Show(c, SubSeq(r, 1, n)), UNCHANGED phase,
               phase[c] \in {"header", "body"}
        PROVE  ClientInv'
    <3> DEFINE piece == SubSeq(r, 1, n)
               m == g + n
               p == printed[c] \o piece
    <3>1. /\ piece \in Seq(Unit) /\ Len(piece) = n /\ SubSeq(s, 1, g) \o piece = SubSeq(s, 1, m)
          /\ m \in 0..Len(s) /\ m \in Nat
      <4>1. Len(s) \in Nat
        BY <1>2
      <4> HIDE DEF s, g
      <4>2. n \in 0..Len(r) /\ m \in 0..Len(s) /\ m \in Nat
        BY <2>1, <2>2, <4>1
      <4> QED BY <2>2, <4>2
    <3>2. p \in Seq(Unit)
      BY <1>3, <3>1, ConcatProperties
    <3>3. printed' = [printed EXCEPT ![c] = p] /\ got' = [got EXCEPT ![c] = m]
      BY <2>3, <3>1 DEF Show
    <3>4. SubSeq(s, 1, g) \in Seq(Unit)
      <4>1. \A i \in 1..g : s[i] \in Unit
        BY <1>2, <2>1
      <4> QED BY <1>3, <4>1, SubSeqProperties
    <3>5. Prints(p, SubSeq(s, 1, g) \o piece)
      BY <1>3, <2>1, <3>1, <3>4, PrintsMore DEF ClientHas
    <3>6. phase[c] = "header" => p = SubSeq(s, 1, m)
      BY <2>1, <3>1 DEF ClientHas
    <3> HIDE DEF piece, m, p
    <3>7. /\ ClientTypes' /\ printed'[c] = p /\ got'[c] = m
          /\ \A d \in Client : d # c => phase'[d] = phase[d] /\ got'[d] = got[d]
                                        /\ printed'[d] = printed[d]
      BY <1>3, <2>3, <3>1, <3>2, <3>3 DEF ClientTypes
    <3>8. ClientHas(c)'
      BY <1>2, <2>3, <3>1, <3>5, <3>6, <3>7 DEF ClientHas
    <3> QED BY <1>4, <3>7, <3>8
  <2>4. ASSUME ReadPiece(c) PROVE ClientInv'
    BY <2>3, <2>4 DEF ReadPiece, r
  <2>5. ASSUME Readline(c) PROVE ClientInv'
    BY <2>3, <2>5 DEF Readline, r
  <2>6. ASSUME FindEmptyLine(c) PROVE ClientInv'
    <3> PICK piece \in {EmptyLine, <<"cr">>} :
          IsPrefix(piece, r) /\ got' = [got EXCEPT ![c] = g + Len(piece)]
      BY <2>6 DEF FindEmptyLine, r
    <3> DEFINE n == Len(piece)
               m == g + n
    <3>1. phase[c] = "header" /\ phase' = [phase EXCEPT ![c] = "body"] /\ printed' = printed
      BY <2>6 DEF FindEmptyLine, Goto
    <3>2. piece \in Seq(Unit)
      BY Pieces
    <3>3. n \in 0..Len(r) /\ SubSeq(r, 1, n) = piece
      <4>1. SubSeq(piece, 1, Len(piece)) = piece
        BY <3>2, SubSeqFull
      <4> QED BY <2>2, <3>2, <4>1 DEF IsPrefix
    <3>4. SubSeq(s, 1, g) \o piece = SubSeq(s, 1, m) /\ m \in 0..Len(s) /\ m \in Nat
      <4>1. Len(s) \in Nat
        BY <1>2
      <4> HIDE DEF s, g, n
      <4>2. m \in 0..Len(s) /\ m \in Nat
        BY <2>1, <2>2, <3>3, <4>1
      <4> QED BY <2>2, <3>3, <4>2
    <3>5. printed[c] = SubSeq(s, 1, g)
      BY <2>1, <3>1 DEF ClientHas
    <3>6. Prints(printed[c], SubSeq(s, 1, m))
      BY <1>3, <3>4, <3>5, PrintsSkip
    <3> HIDE DEF n, m
    <3>7. got' = [got EXCEPT ![c] = m]
      BY DEF n, m
    <3>8. /\ ClientTypes' /\ phase'[c] = "body" /\ printed'[c] = printed[c] /\ got'[c] = m
          /\ \A d \in Client : d # c => phase'[d] = phase[d] /\ got'[d] = got[d]
                                        /\ printed'[d] = printed[d]
      BY <1>3, <3>1, <3>4, <3>7 DEF ClientTypes
    <3>9. ClientHas(c)'
      BY <1>2, <3>4, <3>6, <3>8 DEF ClientHas
    <3> QED BY <1>4, <3>8, <3>9
  <2>7. ASSUME HeaderEnds(c) \/ ReadlineZero(c) \/ BodyEnds(c) PROVE ClientInv'
    <3>1. PICK to \in {"body", "done"} :
            /\ phase' = [phase EXCEPT ![c] = to] /\ got' = got /\ printed' = printed
            /\ to = "done" => ReadlineZero(c) \/ BodyEnds(c)
      BY <2>7 DEF HeaderEnds, ReadlineZero, BodyEnds, Goto
    <3>2. /\ ClientTypes' /\ phase'[c] = to
          /\ \A d \in Client : d # c => phase'[d] = phase[d] /\ got'[d] = got[d]
                                        /\ printed'[d] = printed[d]
      BY <1>3, <3>1 DEF ClientTypes
    <3>3. to = "done" => Stopped(c)
      <4>1. CASE BodyEnds(c)
        BY <4>1 DEF BodyEnds, AtEnd, Stopped
      <4>2. CASE ReadlineZero(c)
        <5>1. r # << >> /\ <<r[1]>> \in Zero /\ (r[1] = "lf" \/ (1 = Len(r) /\ Ended(c)))
          BY <4>2 DEF ReadlineZero, OneLine, r
        <5>2. Len(r) >= 1
          BY <2>2, <5>1
        <5>3. CASE r[1] = "lf"
          BY <1>2, <1>3, <2>1, <2>2, <5>2, <5>3 DEF Stopped
        <5>4. CASE 1 = Len(r) /\ Ended(c)
          <6>1. r = <<r[1]>>
            BY <2>2, <5>4
          <6> QED BY <5>1, <5>4, <6>1 DEF Stopped, r
        <5> QED BY <5>1, <5>3, <5>4
      <4> QED BY <3>1, <4>1, <4>2
    <3>4. Stopped(c)' <=> Stopped(c)
      BY <1>2, <3>1 DEF Stopped, Rest
    <3>5. ClientHas(c)'
      BY <1>2, <2>1, <3>1, <3>2, <3>3, <3>4 DEF ClientHas
    <3> QED BY <1>4, <3>2, <3>5
  <2> QED BY <1>6, <2>4, <2>5, <2>6, <2>7 DEF ClientStep
<1> QED BY <1>5, <1>6

LEMMA ClientSafety == ClientSpec => [](HeirsInv /\ ClientInv)
<1>1. ClientInit => HeirsInv /\ ClientInv
  <2> SUFFICES ASSUME ClientInit PROVE HeirsInv /\ ClientInv
    OBVIOUS
  <2>1. HeirsInv /\ sent = [c \in Conn |-> << >>]
    BY DEF ClientInit, Init, HeirsInv
  <2>2. SubSeq(<< >>, 1, 0) = << >> /\ Len(<< >>) = 0 /\ << >> \in Seq(Unit)
    BY SubSeqEmpty
  <2>3. \A c \in Client : /\ phase[c] = "connect" /\ got[c] = 0 /\ printed[c] = << >>
                          /\ sent[c] = << >>
    BY <2>1, ClientAssumption DEF ClientInit
  <2>4. \A c \in Client : ClientHas(c)
    <3> SUFFICES ASSUME NEW c \in Client PROVE ClientHas(c)
      OBVIOUS
    <3>1. printed[c] = SubSeq(sent[c], 1, got[c])
      BY <2>2, <2>3
    <3> QED BY <2>2, <2>3, <3>1 DEF ClientHas, Prints
  <2>5. ClientTypes
    BY <2>2 DEF ClientInit, ClientTypes
  <2> QED BY <2>1, <2>4, <2>5 DEF ClientInv
<1>2. /\ RequestInv /\ RequestInv' /\ HeirsInv /\ ClientInv /\ [ClientNext]_<<vars, client>>
      => HeirsInv' /\ ClientInv'
  <2> SUFFICES ASSUME RequestInv, RequestInv', HeirsInv, ClientInv,
                      [ClientNext]_<<vars, client>>
               PROVE  HeirsInv' /\ ClientInv'
    OBVIOUS
  <2>1. ASSUME NEW c \in Client, Send(c) \/ ClientStep(c) PROVE UNCHANGED vars
    BY <2>1 DEF Send, ClientStep, ReadPiece, FindEmptyLine, HeaderEnds, Readline, ReadlineZero,
                BodyEnds
  <2>2. [Next]_vars
    BY <2>1 DEF ClientNext
  <2>3. HeirsInv'
    BY <2>2, HeirsStep DEF RequestInv
  <2>4. ClientInv'
    BY <2>2, ServerKeepsClient, ClientKeepsClient DEF ClientNext
  <2> QED BY <2>3, <2>4
<1> QED BY <1>1, <1>2, ClientIsRequest, Typing, PTL DEF ClientSpec

\* For any number of workers, connections, clients, descriptors and process ids, and any
\* files: a client that is done has printed, in order, what it has read of the answer to
\* its own request, save one piece; and it has read the whole answer, or stopped where
\* readline returns 0 (WebClient.PrintsAnswer).
THEOREM PrintSafety == ClientSpec => []PrintsAnswer
<1>1. RequestInv /\ HeirsInv /\ ClientInv => PrintsAnswer
  <2> SUFFICES ASSUME RequestInv, HeirsInv, ClientInv, NEW c \in Client \ mixed,
                      phase[c] = "done", ~aborted, NEW answer, answer = Response(asked[c])
               PROVE  LET unread == SubSeq(answer, got[c] + 1, Len(answer))
                      IN  /\ got[c] \in 0..Len(answer)
                          /\ Prints(printed[c], SubSeq(answer, 1, got[c]))
                          /\ unread = << >> \/ unread[1] = "lf" \/ unread \in Zero
    BY DEF PrintsAnswer
  <2> DEFINE s == sent[c]
             g == got[c]
             unread == SubSeq(answer, g + 1, Len(answer))
  <2>1. c \in Conn \ mixed /\ ClientHas(c) /\ Stopped(c) /\ s \in Seq(Unit) /\ g \in 0..Len(s)
    BY ClientAssumption DEF ClientInv, ClientHas, RequestInv, TypeOK
  <2>2. CASE Ended(c) /\ (Rest(c) = << >> \/ Rest(c) \in Zero)
    <3>1. s = answer
      BY <2>1, <2>2, EndedIsAnswered
    <3>2. Rest(c) = unread
      BY <3>1 DEF Rest
    <3> QED BY <2>1, <2>2, <3>1, <3>2 DEF ClientHas
  <2>3. CASE g < Len(s) /\ s[g + 1] = "lf"
    <3>1. s # << >>
      BY <2>1, <2>3
    <3>2. answer \in Seq(Unit) /\ Extends(answer, s)
      BY <2>1, <3>1, SentBegins
    <3>3. g \in 0..Len(answer) /\ g + 1 \in 1..Len(s) /\ answer[g + 1] = "lf"
      BY <2>1, <2>3, <3>2 DEF Extends
    <3>4. SubSeq(answer, 1, g) = SubSeq(s, 1, g)
      BY <2>1, <3>2, ExtendsSame
    <3>5. Len(unread) = Len(answer) - g /\ \A i \in 1..Len(unread) : unread[i] = answer[g + i]
      <4> HIDE DEF unread
      <4>1. unread = SubSeq(answer, g + 1, Len(answer))
        BY DEF unread
      <4> HIDE DEF g
      <4> QED BY <3>2, <3>3, <4>1, Cuts
    <3>6. unread[1] = "lf"
      <4> HIDE DEF unread
      <4>1. 1 \in 1..Len(unread)
        BY <2>1, <2>3, <3>2, <3>5 DEF Extends
      <4> QED BY <2>1, <3>3, <3>5, <4>1
    <3> QED BY <2>1, <3>3, <3>4, <3>6 DEF ClientHas
  <2> QED BY <2>1, <2>2, <2>3 DEF Stopped
<1> QED BY <1>1, Typing, ClientSafety, ClientIsRequest, PTL
==============================================================================
