-------------------------- MODULE VoteServerProofs --------------------------
(***************************************************************************)
(* Proofs about the vote server: for any clients, messages, buffer sizes   *)
(* and cuts that TCP makes, the echo is the message, and the vote of a     *)
(* client that sent something is a byte of its message.                    *)
(***************************************************************************)
EXTENDS VoteServer, FiniteSetTheorems, FunctionTheorems, SequenceTheorems, TLAPS

Typing ==
  /\ msg \in [Client -> Seq(Char)]
  /\ client \in [Client -> {"new", "receiving", "closed", "killed", "died"}]
  /\ up \in [Client -> Seq(Char)]
  /\ down \in [Client -> Seq(Char)]
  /\ printed \in [Client -> Seq(Char)]
  /\ backlog \in Seq(Client)
  /\ server \in {"accept", "first", "echo", "recv", "hung", "died", "overrun"}
  /\ sock \in Client \cup {NoOne}
  /\ buffer \in [1..BufSize -> Char]
  /\ size \in 0..BufSize

\* A client is new, then waits in the backlog, then is served, once; nothing is
\* sent back to it before it is served.
Served ==
  /\ server \in {"first", "echo", "recv"} => sock # NoOne
  /\ \A i, j \in 1..Len(backlog) : backlog[i] = backlog[j] => i = j
  /\ \A i \in 1..Len(backlog) : backlog[i] # sock /\ client[backlog[i]] # "new"
  /\ \A c \in Client : client[c] = "new" => c # sock
  /\ \A c \in Client : client[c] = "died" => server = "died"

Untouched(c) ==
  client[c] = "new" \/ (\E i \in 1..Len(backlog) : backlog[i] = c) \/ (c = sock /\ server = "first")

NothingBack == \A c \in Client : Untouched(c) => printed[c] = << >> /\ down[c] = << >>

\* From the first recv on, the first byte of the buffer is one of the message.
FirstByte ==
  server \in {"echo", "recv"} /\ client[sock] # "killed" /\ msg[sock] # << >> =>
    buffer[1] \in ToSet(msg[sock])

Inv == Typing /\ Served /\ NothingBack

------------------------------------------------------------------------------
(* Sequences                                                                *)

LEMMA Cut ==
  ASSUME NEW S, NEW s \in Seq(S), NEW n \in 0..Len(s)
  PROVE  /\ SubSeq(s, 1, n) \in Seq(S) /\ SubSeq(s, n + 1, Len(s)) \in Seq(S)
         /\ SubSeq(s, 1, n) \o SubSeq(s, n + 1, Len(s)) = s
<1>1. SubSeq(s, 1, n) \in Seq(S) /\ SubSeq(s, n + 1, Len(s)) \in Seq(S)
  OBVIOUS
<1>2. SubSeq(s, 1, n) \o SubSeq(s, n + 1, Len(s)) = SubSeq(s, 1, Len(s))
  <2>1. 1 \in 1..(Len(s) + 1) /\ n \in (1 - 1)..Len(s) /\ Len(s) \in n..Len(s)
    OBVIOUS
  <2> QED BY <2>1, ConcatAdjacentSubSeq
<1> QED BY <1>1, <1>2, SubSeqFull

\* s \o t, under a name that keeps the provers from taking it apart
Cat(s, t) == s \o t

LEMMA CatType ==
  ASSUME NEW S, NEW s \in Seq(S), NEW t \in Seq(S)
  PROVE  Cat(s, t) \in Seq(S)
BY ConcatProperties DEF Cat

LEMMA Associative ==
  ASSUME NEW S, NEW p \in Seq(S), NEW a \in Seq(S), NEW z \in Seq(S)
  PROVE  Cat(Cat(p, a), z) = Cat(p, Cat(a, z))
BY DEF Cat

\* Two neighbours may be cut otherwise.
LEMMA Regroup ==
  ASSUME NEW S, NEW p \in Seq(S), NEW a \in Seq(S), NEW z \in Seq(S),
         NEW b \in Seq(S), NEW y \in Seq(S), Cat(a, z) = Cat(b, y)
  PROVE  Cat(Cat(p, a), z) = Cat(Cat(p, b), y)
BY Associative

LEMMA FirstOfLast ==
  ASSUME NEW S, NEW x \in Seq(S), NEW u \in Seq(S), u # << >>
  PROVE  u[1] \in ToSet(x \o u)
<1>1. Len(x) + 1 \in DOMAIN (x \o u) /\ (x \o u)[Len(x) + 1] = u[1]
  OBVIOUS
<1> QED BY <1>1 DEF ToSet

------------------------------------------------------------------------------
(* Types                                                                    *)

\* What a recv of the server does to the buffer and to what is under way.
LEMMA TakeTypes ==
  ASSUME Typing, sock \in Client, NEW n \in 0..BufSize, n <= Len(up[sock]), Take(n)
  PROVE  /\ up' \in [Client -> Seq(Char)]
         /\ buffer' \in [1..BufSize -> Char]
         /\ size' \in 0..BufSize
<1> USE VoteAssumption DEF Typing, Take
<1>1. SubSeq(up[sock], n + 1, Len(up[sock])) \in Seq(Char)
  BY Cut
<1>2. up' \in [Client -> Seq(Char)]
  BY <1>1
<1>3. \A i \in 1..n : up[sock][i] \in Char
  <2>1. up[sock] \in Seq(Char)
    OBVIOUS
  <2> QED BY <2>1, ElementOfSeq
<1> QED BY <1>2, <1>3

LEMMA RecvIsTake ==
  ASSUME Typing, sock \in Client, ServerRecv
  PROVE  \E n \in 0..BufSize :
           /\ n <= Len(up[sock]) /\ Take(n)
           /\ n = 0 => up[sock] = << >> /\ client[sock] \in {"closed", "killed"}
BY VoteAssumption DEF ServerRecv, Typing

LEMMA TypingStep == Typing /\ Served /\ [Next]_vars => Typing'
<1> SUFFICES ASSUME Typing, Served, [Next]_vars PROVE Typing'
  OBVIOUS
<1> USE VoteAssumption
<1>1. ASSUME NEW c \in Client, Connect(c) PROVE Typing'
  <2>1. Append(backlog, c) \in Seq(Client)
    BY AppendProperties DEF Typing
  <2>2. backlog' \in Seq(Client) /\ up' \in [Client -> Seq(Char)]
    BY <1>1, <2>1 DEF Connect, Typing
  <2>3. client' \in [Client -> {"new", "receiving", "closed", "killed", "died"}]
    BY <1>1 DEF Connect, Step, Typing
  <2> QED BY <1>1, <2>2, <2>3 DEF Connect, Typing, local
<1>2. ASSUME NEW c \in Client, Receive(c) PROVE Typing'
  <2> PICK n \in 1..(BufSize - 1) :
        /\ n <= Len(down[c])
        /\ printed' = [printed EXCEPT ![c] = @ \o SubSeq(down[c], 1, n)]
        /\ down' = [down EXCEPT ![c] = SubSeq(@, n + 1, Len(@))]
    BY <1>2 DEF Receive
  <2>1. SubSeq(down[c], 1, n) \in Seq(Char) /\ SubSeq(down[c], n + 1, Len(down[c])) \in Seq(Char)
    <3>1. down[c] \in Seq(Char) /\ n \in 0..Len(down[c])
      BY DEF Typing
    <3> QED BY <3>1, Cut
  <2>2. printed[c] \o SubSeq(down[c], 1, n) \in Seq(Char)
    BY <2>1, ConcatProperties DEF Typing
  <2> QED BY <1>2, <2>1, <2>2 DEF Receive, Step, Typing, local
<1>3. ASSUME NEW c \in Client, ReceiveFails(c) \/ Close(c) \/ Kill(c) PROVE Typing'
  BY <1>3 DEF ReceiveFails, Close, Kill, Step, Typing, local, net
<1>4. CASE Accept
  <2>1. Head(backlog) \in Client /\ Tail(backlog) \in Seq(Client)
    BY <1>4, HeadTailProperties DEF Accept, Typing
  <2> QED BY <1>4, <2>1 DEF Accept, At, Typing, clients
<1>5. CASE First \/ Again
  <2>1. sock \in Client /\ ServerRecv
    BY <1>5 DEF First, Again, At, Served, Typing
  <2>2. up' \in [Client -> Seq(Char)] /\ buffer' \in [1..BufSize -> Char] /\ size' \in 0..BufSize
    <3>1. PICK n \in 0..BufSize : n <= Len(up[sock]) /\ Take(n)
      BY <2>1, RecvIsTake
    <3> QED BY <2>1, <3>1, TakeTypes
  <2> QED BY <1>5, <2>2 DEF First, Again, At, Typing, clients
<1>6. CASE Send
  <2>1. SubSeq(buffer, 1, size) \in Seq(Char)
    BY DEF Typing
  <2>2. sock \in Client /\ down[sock] \o SubSeq(buffer, 1, size) \in Seq(Char)
    BY <1>6, <2>1, ConcatProperties DEF Send, SendBytes, At, Served, Typing
  <2> QED BY <1>6, <2>2 DEF Send, SendBytes, At, Typing, clients, local
<1>7. CASE CheckVotes
  BY <1>7 DEF CheckVotes, Vote, At, Typing, clients, net
<1>8. CASE Fails \/ Overrun
  BY <1>8 DEF Fails, Overrun, At, Typing, clients, net, local
<1>9. CASE UNCHANGED vars
  BY <1>9 DEF vars, Typing, clients, net, local
<1> QED BY <1>1, <1>2, <1>3, <1>4, <1>5, <1>6, <1>7, <1>8, <1>9 DEF Next, ServerStep, ClientStep

LEMMA ServedStep == Typing /\ Typing' /\ Served /\ [Next]_vars => Served'
<1> SUFFICES ASSUME Typing, Typing', Served, [Next]_vars PROVE Served'
  OBVIOUS
<1> USE VoteAssumption DEF Served
<1>1. ASSUME NEW c \in Client, Connect(c), server # "died" PROVE Served'
  <2>1. /\ client' = [client EXCEPT ![c] = "receiving"] /\ client[c] = "new"
        /\ backlog' = Append(backlog, c)
        /\ sock' = sock /\ server' = server
    BY <1>1 DEF Connect, Step, local
  <2>2. /\ Len(backlog') = Len(backlog) + 1 /\ backlog'[Len(backlog) + 1] = c
        /\ \A i \in 1..Len(backlog) : backlog'[i] = backlog[i]
    BY <2>1, AppendProperties DEF Typing
  <2>3. Len(backlog) \in Nat
    BY LenProperties DEF Typing
  <2>4. \A i \in 1..Len(backlog) : backlog[i] \in Client
    BY ElementOfSeq DEF Typing
  <2>5. \A b \in Client : client'[b] = IF b = c THEN "receiving" ELSE client[b]
    BY <2>1 DEF Typing
  <2>6. \A i \in 1..Len(backlog) : backlog[i] # c
    BY <2>1
  <2>7. c # sock
    BY <2>1
  <2>8. \A i, j \in 1..Len(backlog') : backlog'[i] = backlog'[j] => i = j
    BY <2>2, <2>3, <2>6
  <2>9. \A i \in 1..Len(backlog') : backlog'[i] # sock' /\ client'[backlog'[i]] # "new"
    BY <2>1, <2>2, <2>3, <2>4, <2>5, <2>7
  <2> QED BY <2>1, <2>5, <2>8, <2>9
<1>2. ASSUME NEW c \in Client, Connect(c), server = "died" PROVE Served'
  <2>1. client' = [client EXCEPT ![c] = "died"] /\ UNCHANGED <<backlog, sock, server>>
    BY <1>2 DEF Connect, Step, local
  <2>2. \A b \in Client : client'[b] = IF b = c THEN "died" ELSE client[b]
    BY <2>1 DEF Typing
  <2>3. \A i \in 1..Len(backlog) : backlog[i] \in Client
    BY ElementOfSeq DEF Typing
  <2> QED BY <1>2, <2>1, <2>2, <2>3
<1>3. ASSUME NEW c \in Client, Receive(c) \/ ReceiveFails(c) \/ Close(c) \/ Kill(c) PROVE Served'
  <2>1. /\ client[c] = "receiving" /\ UNCHANGED <<backlog, sock, server>>
        /\ \E s \in {"receiving", "died", "closed", "killed"} :
             client' = [client EXCEPT ![c] = s] /\ (s = "died" => server = "died")
    BY <1>3 DEF Receive, ReceiveFails, Close, Kill, Step, local, net
  <2>2. /\ \A b \in Client : client'[b] = "new" => client[b] = "new"
        /\ \A b \in Client : client'[b] = "died" => client[b] = "died" \/ server = "died"
    BY <2>1 DEF Typing
  <2>3. \A i \in 1..Len(backlog) : backlog[i] \in Client
    BY ElementOfSeq DEF Typing
  <2> QED BY <2>1, <2>2, <2>3
<1>4. CASE Accept
  <2>1. /\ backlog # << >> /\ backlog' = Tail(backlog) /\ sock' = Head(backlog)
        /\ server = "accept" /\ server' = "first" /\ client' = client
    BY <1>4 DEF Accept, At, clients
  <2>2. /\ Len(backlog') = Len(backlog) - 1 /\ Len(backlog) \in Nat \ {0}
        /\ \A i \in 1..Len(backlog') : backlog'[i] = backlog[i + 1]
    BY <2>1, HeadTailProperties, EmptySeq DEF Typing
  <2>3. sock' = backlog[1] /\ sock' \in Client
    BY <2>1, <2>2 DEF Typing
  <2>4. \A i, j \in 1..Len(backlog') : backlog'[i] = backlog'[j] => i = j
    BY <2>2
  <2>5. \A i \in 1..Len(backlog') : backlog'[i] # sock' /\ client'[backlog'[i]] # "new"
    BY <2>1, <2>2, <2>3
  <2>6. \A c \in Client : client[c] = "new" => c # sock'
    BY <2>2, <2>3
  <2> QED BY <2>1, <2>3, <2>4, <2>5, <2>6
<1>5. CASE CheckVotes
  <2>1. sock' = NoOne /\ server' = "accept" /\ server = "echo" /\ UNCHANGED <<client, backlog>>
    BY <1>5 DEF CheckVotes, Vote, At, clients, net
  <2>2. \A i \in 1..Len(backlog) : backlog[i] \in Client
    BY ElementOfSeq DEF Typing
  <2> QED BY <2>1, <2>2
<1>6. CASE First \/ Again \/ Send \/ Fails \/ Overrun
  <2>1. UNCHANGED <<client, backlog, sock>> /\ server \in {"first", "echo", "recv"}
    BY <1>6 DEF First, Again, Send, SendBytes, Fails, Overrun, At, clients, net, local
  <2> QED BY <2>1
<1>7. CASE UNCHANGED vars
  BY <1>7 DEF vars, clients, net, local
<1> QED BY <1>1, <1>2, <1>3, <1>4, <1>5, <1>6, <1>7 DEF Next, ServerStep, ClientStep

LEMMA NothingBackStep == Inv /\ Typing' /\ [Next]_vars => NothingBack'
<1> SUFFICES ASSUME Inv, Typing', [Next]_vars, NEW c \in Client, Untouched(c)'
             PROVE  printed'[c] = << >> /\ down'[c] = << >>
  BY DEF NothingBack
<1> USE VoteAssumption DEF Inv
<1>1. ASSUME UNCHANGED <<printed, down>>, Untouched(c) PROVE printed'[c] = << >> /\ down'[c] = << >>
  BY <1>1 DEF NothingBack
<1>2. ASSUME NEW b \in Client, Connect(b) PROVE Untouched(c)
  <2>1. CASE client'[c] = "new"
    BY <1>2, <2>1 DEF Connect, Step, Untouched, Typing
  <2>2. ASSUME NEW i \in 1..Len(backlog'), backlog'[i] = c PROVE Untouched(c)
    <3>1. CASE backlog' = backlog
      BY <2>2, <3>1 DEF Untouched
    <3>2. CASE backlog' = Append(backlog, b)
      <4>0. /\ Len(backlog) \in Nat /\ Len(backlog') = Len(backlog) + 1
            /\ backlog'[Len(backlog) + 1] = b
        BY <3>2, AppendProperties, LenProperties DEF Typing
      <4>1. i \in 1..Len(backlog) \/ c = b
        BY <2>2, <4>0
      <4>2. \A k \in 1..Len(backlog) : backlog'[k] = backlog[k]
        BY <3>2, AppendProperties DEF Typing
      <4> QED BY <1>2, <2>2, <4>1, <4>2 DEF Connect, Step, Untouched
    <3> QED BY <1>2, <3>1, <3>2 DEF Connect
  <2>3. CASE c = sock' /\ server' = "first"
    BY <1>2, <2>3 DEF Connect, local, Untouched
  <2> QED BY <2>1, <2>2, <2>3 DEF Untouched
<1>3. ASSUME NEW b \in Client, Receive(b) PROVE Untouched(c) /\ b # c
  <2>1. Untouched(c)
    BY <1>3 DEF Receive, Step, Untouched, Typing, local
  <2>2. down[c] = << >>
    BY <2>1 DEF NothingBack
  <2> QED BY <1>3, <2>1, <2>2 DEF Receive
<1>4. ASSUME NEW b \in Client, ReceiveFails(b) \/ Close(b) \/ Kill(b)
      PROVE  UNCHANGED <<printed, down>> /\ Untouched(c)
  BY <1>4 DEF ReceiveFails, Close, Kill, Step, Untouched, Typing, local, net
<1>5. CASE Accept
  <2>1. /\ backlog # << >> /\ backlog' = Tail(backlog) /\ sock' = Head(backlog)
        /\ client' = client /\ UNCHANGED <<printed, down>>
    BY <1>5 DEF Accept, clients
  <2>2. /\ Len(backlog') = Len(backlog) - 1 /\ Len(backlog) \in Nat \ {0}
        /\ \A i \in 1..Len(backlog') : backlog'[i] = backlog[i + 1]
    BY <2>1, HeadTailProperties, EmptySeq DEF Typing
  <2>3. sock' = backlog[1]
    BY <2>1, <2>2 DEF Typing
  <2>4. Untouched(c)
    BY <2>1, <2>2, <2>3 DEF Untouched
  <2> QED BY <1>1, <2>1, <2>4
<1>6. CASE Send
  <2>1. /\ client' = client /\ backlog' = backlog /\ server' = "recv" /\ printed' = printed
        /\ server = "echo" /\ sock' = sock
        /\ down' = [down EXCEPT ![sock] = @ \o SubSeq(buffer, 1, size)]
    BY <1>6 DEF Send, SendBytes, At, clients, local
  <2>2. Untouched(c) /\ c # sock
    BY <2>1 DEF Untouched, Served
  <2> QED BY <2>1, <2>2 DEF NothingBack, Typing
<1>7. CASE First \/ Again \/ Fails \/ Overrun \/ CheckVotes
  <2>1. /\ UNCHANGED <<client, backlog, printed, down>> /\ server' # "first"
    BY <1>7 DEF First, Again, Fails, Overrun, CheckVotes, Vote, At, clients, net
  <2> QED BY <1>1, <2>1 DEF Untouched
<1>8. CASE UNCHANGED vars
  BY <1>1, <1>8 DEF vars, clients, net, local, Untouched
<1>9. ASSUME NEW b \in Client, Receive(b) PROVE printed'[c] = << >> /\ down'[c] = << >>
  BY <1>3, <1>9 DEF Receive, NothingBack, Typing
<1>10. ASSUME NEW b \in Client, Connect(b) PROVE UNCHANGED <<printed, down>>
  BY <1>10 DEF Connect
<1> QED BY <1>1, <1>2, <1>4, <1>5, <1>6, <1>7, <1>8, <1>9, <1>10 DEF Next, ServerStep, ClientStep

LEMMA InvInit == Init => Inv /\ EchoWhole /\ FirstByte
<1> SUFFICES ASSUME Init PROVE Inv /\ EchoWhole /\ FirstByte
  OBVIOUS
<1> USE VoteAssumption DEF Init
<1>1. \A m \in Message : m \in Seq(Char)
  BY SeqMonotonic
<1>2. << >> \in Seq(Char) /\ << >> \in Seq(Client) /\ Len(<< >>) = 0
  BY EmptySeq
<1>3. Typing
  BY <1>1, <1>2 DEF Typing
<1>4. Served /\ NothingBack
  BY DEF Served, NothingBack
<1>5. EchoWhole /\ FirstByte
  BY DEF EchoWhole, FirstByte
<1> QED BY <1>3, <1>4, <1>5 DEF Inv

LEMMA InvStep == Inv /\ [Next]_vars => Inv'
BY TypingStep, ServedStep, NothingBackStep DEF Inv

LEMMA Invariance == Spec => []Inv
BY InvInit, InvStep, PTL DEF Spec

------------------------------------------------------------------------------
(* The echo                                                                 *)

LEMMA HeldType == ASSUME Typing, NEW c \in Client PROVE Held(c) \in Seq(Char)
<1>1. SubSeq(buffer, 1, size) \in Seq(Char)
  BY VoteAssumption DEF Typing
<1> QED BY <1>1, EmptySeq DEF Held

\* What the server takes from what is under way it holds.
LEMMA TakeHeld ==
  ASSUME Typing, Typing', sock \in Client, server' = "echo", sock' = sock,
         NEW n \in 0..BufSize, n <= Len(up[sock]), Take(n)
  PROVE  Held(sock)' \o up'[sock] = up[sock]
<1> DEFINE u == up[sock]
<1>1. u \in Seq(Char) /\ n \in 0..Len(u)
  BY DEF Typing
<1>2. SubSeq(u, 1, n) \o SubSeq(u, n + 1, Len(u)) = u
  BY <1>1, Cut
<1>3. up'[sock] = SubSeq(u, n + 1, Len(u))
  BY DEF Take, Typing
<1>4. Held(sock)' = SubSeq(buffer', 1, n)
  BY DEF Held, Take
<1>5. SubSeq(buffer', 1, n) = SubSeq(u, 1, n)
  <2>1. \A i \in 1..n : buffer'[i] = u[i]
    BY VoteAssumption DEF Take
  <2> QED BY <2>1, <1>1
<1> QED BY <1>2, <1>3, <1>4, <1>5

LEMMA EchoStep == Inv /\ Inv' /\ EchoWhole /\ [Next]_vars => EchoWhole'
<1> SUFFICES ASSUME Inv, Inv', EchoWhole, [Next]_vars,
                    NEW c \in Client, client'[c] \in {"receiving", "closed"},
                    server' \notin {"hung", "overrun"}
             PROVE  (printed[c] \o down[c] \o Held(c) \o up[c] = msg[c])'
  BY DEF EchoWhole
<1> USE VoteAssumption DEF Inv
<1> DEFINE p == printed[c]
           d == down[c]
           h == Held(c)
           u == up[c]
<1>t. p \in Seq(Char) /\ d \in Seq(Char) /\ h \in Seq(Char) /\ u \in Seq(Char)
  BY HeldType DEF Typing
<1>u. p' \in Seq(Char) /\ d' \in Seq(Char) /\ h' \in Seq(Char) /\ u' \in Seq(Char)
  <2>1. SubSeq(buffer', 1, size') \in Seq(Char)
    BY DEF Typing
  <2>2. h' \in Seq(Char)
    BY <2>1, EmptySeq DEF Held
  <2> QED BY <2>2 DEF Typing
<1>w. client[c] \in {"receiving", "closed"} /\ server \notin {"hung", "overrun"} => p \o d \o h \o u = msg[c]
  BY DEF EchoWhole
<1>same. ASSUME client[c] \in {"receiving", "closed"}, server \notin {"hung", "overrun"},
                p' = p, d' = d, h' = h, u' = u, msg' = msg
         PROVE  (p \o d \o h \o u = msg[c])'
  BY <1>w, <1>same
<1>1. ASSUME NEW b \in Client, Connect(b) PROVE (p \o d \o h \o u = msg[c])'
  <2>1. UNCHANGED <<msg, printed, down, server, sock, buffer, size>> /\ h' = h
    BY <1>1 DEF Connect, local, Held
  <2>2. CASE c = b
    <3>1. client[c] = "new" /\ u' = msg[c]
      BY <1>1, <2>2 DEF Connect, Step, Typing
    <3>2. p' = << >> /\ d' = << >> /\ h' = << >>
      BY <2>1, <3>1 DEF NothingBack, Untouched, Served, Held
    <3> QED BY <2>1, <3>1, <3>2, <1>u
  <2>3. CASE c # b
    <3>1. client'[c] = client[c] /\ u' = u
      BY <1>1, <2>3 DEF Connect, Step, Typing
    <3> QED BY <2>1, <3>1, <1>same
  <2> QED BY <2>2, <2>3
<1>2. ASSUME NEW b \in Client, Receive(b) PROVE (p \o d \o h \o u = msg[c])'
  <2>1. /\ UNCHANGED <<msg, up, server, sock, buffer, size>> /\ h' = h /\ u' = u
        /\ client'[c] = client[c]
    BY <1>2 DEF Receive, Step, local, Held, Typing
  <2>2. Cat(p', d') = Cat(p, d)
    <3>1. CASE c = b
      <4> PICK n \in 1..(BufSize - 1) :
            /\ n <= Len(d)
            /\ printed' = [printed EXCEPT ![c] = @ \o SubSeq(down[c], 1, n)]
            /\ down' = [down EXCEPT ![c] = SubSeq(@, n + 1, Len(@))]
        BY <1>2, <3>1 DEF Receive
      <4> DEFINE a == SubSeq(d, 1, n)
                 z == SubSeq(d, n + 1, Len(d))
      <4>1. p' = Cat(p, a) /\ d' = z
        BY DEF Typing, Cat
      <4>2. n \in 0..Len(d)
        BY <1>t
      <4>3. a \in Seq(Char) /\ z \in Seq(Char) /\ Cat(a, z) = d
        BY <1>t, <4>2, Cut DEF Cat
      <4> HIDE DEF a, z, p, d
      <4>4. Cat(Cat(p, a), z) = Cat(p, Cat(a, z))
        BY ONLY <1>t, <4>3, Associative
      <4> QED BY <4>1, <4>3, <4>4
    <3>2. CASE c # b
      BY <1>2, <3>2 DEF Receive, Typing
    <3> QED BY <3>1, <3>2
  <2> HIDE DEF p, d, h, u
  <2>3. p' \o d' \o h' \o u' = p \o d \o h \o u
    BY <2>1, <2>2 DEF Cat
  <2> QED BY <2>1, <2>3, <1>w
<1>3. ASSUME NEW b \in Client, ReceiveFails(b) \/ Close(b) \/ Kill(b) PROVE (p \o d \o h \o u = msg[c])'
  <2>1. UNCHANGED <<msg, printed, up, down, server, sock, buffer, size>>
    BY <1>3 DEF ReceiveFails, Close, Kill, net, local
  <2>2. client[c] \in {"receiving", "closed"}
    BY <1>3 DEF ReceiveFails, Close, Kill, Step, Typing
  <2> QED BY <2>1, <2>2, <1>same DEF Held
<1>4. CASE Accept
  <2>1. /\ UNCHANGED <<msg, client, printed, up, down>> /\ h = << >> /\ h' = << >>
        /\ server \notin {"hung", "overrun"}
    BY <1>4 DEF Accept, At, clients, Held
  <2> QED BY <2>1, <1>same
<1>5. CASE First \/ Again
  <2>1. /\ UNCHANGED <<msg, client, printed, down, sock>> /\ server \in {"first", "recv"}
        /\ server' = "echo" /\ ServerRecv /\ sock \in Client
    BY <1>5 DEF First, Again, At, clients, Served, Typing
  <2>2. PICK n \in 0..BufSize : n <= Len(up[sock]) /\ Take(n)
    BY <2>1, RecvIsTake
  <2>3. CASE c = sock
    <3>1. h = << >>
      BY <2>1 DEF Held
    <3>2. Cat(h', u') = u
      BY <2>1, <2>2, <2>3, TakeHeld DEF Cat
    <3>3. Cat(h, u) = u
      BY <3>1, <1>t DEF Cat
    <3>4. p' = p /\ d' = d
      BY <2>1
    <3> HIDE DEF p, d, h, u
    <3>5. Cat(p, d) \in Seq(Char)
      BY ONLY <1>t, CatType
    <3>6. Cat(Cat(Cat(p, d), h'), u') = Cat(Cat(Cat(p, d), h), u)
      BY ONLY <1>t, <1>u, <3>2, <3>3, <3>5, Regroup
    <3>7. p' \o d' \o h' \o u' = p \o d \o h \o u
      BY <3>4, <3>6 DEF Cat
    <3> QED BY <2>1, <3>7, <1>w DEF p, d, h, u
  <2>4. CASE c # sock
    <3>1. h = << >> /\ h' = << >>
      BY <2>1, <2>4 DEF Held
    <3>2. u' = u
      BY <2>2, <2>4 DEF Take, Typing
    <3> QED BY <2>1, <3>1, <3>2, <1>same
  <2> QED BY <2>3, <2>4
<1>6. CASE Send
  <2>1. /\ UNCHANGED <<msg, client, printed, up>> /\ server = "echo" /\ server' = "recv"
        /\ down' = [down EXCEPT ![sock] = @ \o SubSeq(buffer, 1, size)] /\ sock \in Client
    BY <1>6 DEF Send, SendBytes, At, clients, Served, Typing
  <2>2. h' = << >>
    BY <2>1 DEF Held
  <2>3. CASE c = sock
    <3>1. h = SubSeq(buffer, 1, size) /\ d' = d \o h
      BY <2>1, <2>3 DEF Held, Typing
    <3>2. p' = p /\ u' = u
      BY <2>1
    <3> HIDE DEF p, d, h, u
    <3>3. Cat(d', h') = Cat(d, h)
      BY <3>1, <2>2, <1>u DEF Cat
    <3>4. Cat(Cat(p, d'), h') = Cat(Cat(p, d), h)
      BY ONLY <1>t, <1>u, <3>3, Regroup
    <3>5. p' \o d' \o h' \o u' = p \o d \o h \o u
      BY <3>2, <3>4 DEF Cat
    <3> QED BY <2>1, <3>5, <1>w DEF p, d, h, u
  <2>4. CASE c # sock
    <3>1. h = << >> /\ d' = d
      BY <2>1, <2>4 DEF Held, Typing
    <3> QED BY <2>1, <2>2, <3>1, <1>same
  <2> QED BY <2>3, <2>4
<1>7. CASE CheckVotes \/ Overrun \/ Fails
  <2>1. UNCHANGED <<msg, client, printed, up, down>> /\ server \notin {"hung", "overrun"}
        /\ server' # "echo"
    BY <1>7 DEF CheckVotes, Vote, Overrun, Fails, At, clients, net
  <2>2. h = << >>
    <3>1. CASE CheckVotes \/ Overrun
      <4>1. size = 0
        BY <3>1 DEF CheckVotes, Vote, Overrun
      <4>2. SubSeq(buffer, 1, 0) = << >>
        OBVIOUS
      <4> QED BY <4>1, <4>2 DEF Held
    <3>2. CASE Fails
      BY <2>1, <3>2 DEF Fails, Held
    <3> QED BY <1>7, <3>1, <3>2
  <2>3. h' = << >>
    BY <2>1 DEF Held
  <2> QED BY <2>1, <2>2, <2>3, <1>same
<1>8. CASE UNCHANGED vars
  BY <1>8, <1>same DEF vars, clients, net, local, Held
<1> QED BY <1>1, <1>2, <1>3, <1>4, <1>5, <1>6, <1>7, <1>8 DEF Next, ServerStep, ClientStep

\* For any clients, messages, buffer size and cuts that TCP makes: EchoWhole.
THEOREM EchoSafety == Spec => []EchoWhole
BY InvInit, InvStep, EchoStep, PTL DEF Spec

------------------------------------------------------------------------------
(* The vote                                                                 *)

LEMMA FirstByteStep == Inv /\ Inv' /\ EchoWhole /\ FirstByte /\ [Next]_vars => FirstByte'
<1> SUFFICES ASSUME Inv, Inv', EchoWhole, FirstByte, [Next]_vars,
                    server' \in {"echo", "recv"}, client'[sock'] # "killed", msg'[sock'] # << >>
             PROVE  buffer'[1] \in ToSet(msg'[sock'])
  BY DEF FirstByte
<1> USE VoteAssumption DEF Inv
<1>1. ASSUME UNCHANGED <<msg, server, sock, buffer>>, client[sock] # "killed"
      PROVE  buffer'[1] \in ToSet(msg'[sock'])
  BY <1>1 DEF FirstByte
<1>2. ASSUME NEW c \in Client, ClientStep(c) \/ Kill(c) PROVE buffer'[1] \in ToSet(msg'[sock'])
  <2>1. UNCHANGED <<msg, server, sock, buffer>>
    BY <1>2 DEF ClientStep, Connect, Receive, ReceiveFails, Close, Kill, local, net
  <2>2. /\ client[c] # "killed"
        /\ \E s \in {"receiving", "died", "closed", "killed"} : client' = [client EXCEPT ![c] = s]
    BY <1>2 DEF ClientStep, Connect, Receive, ReceiveFails, Close, Kill, Step
  <2>3. sock \in Client
    BY <2>1 DEF Served, Typing
  <2>4. client[sock] # "killed"
    BY <2>1, <2>2, <2>3 DEF Typing
  <2> QED BY <1>1, <2>1, <2>4
<1>3. CASE First \/ Again
  <2>1. /\ UNCHANGED <<msg, client, sock>> /\ server \in {"first", "recv"}
    BY <1>3 DEF First, Again, At, clients
  <2>2. sock \in Client /\ ServerRecv
    BY <1>3 DEF First, Again, At, Served, Typing
  <2>3. PICK n \in 0..BufSize :
          /\ n <= Len(up[sock]) /\ Take(n)
          /\ n = 0 => up[sock] = << >> /\ client[sock] \in {"closed", "killed"}
    BY <2>2, RecvIsTake
  <2>4. client[sock] \in {"receiving", "closed"}
    BY <2>1, <2>2 DEF Typing, Served
  <2> DEFINE x == printed[sock] \o down[sock] \o Held(sock)
  <2>5. x \in Seq(Char) /\ x \o up[sock] = msg[sock]
    <3>1. Held(sock) \in Seq(Char) /\ printed[sock] \in Seq(Char) /\ down[sock] \in Seq(Char)
      BY <2>2, HeldType DEF Typing
    <3>2. x \in Seq(Char)
      BY <3>1, ConcatProperties
    <3> QED BY <2>1, <2>2, <2>4, <3>2 DEF EchoWhole
  <2>6. CASE n = 0
    <3>1. buffer'[1] = buffer[1]
      BY <2>3, <2>6 DEF Take
    <3>2. CASE server = "recv"
      BY <2>1, <3>1, <3>2 DEF FirstByte
    <3>3. CASE server = "first"
      <4>1. x = << >>
        BY <2>2, <3>3 DEF NothingBack, Untouched, Held
      <4> HIDE DEF x
      <4>2. msg[sock] = << >>
        BY <2>3, <2>5, <2>6, <4>1
      <4> QED BY <2>1, <4>2
    <3> QED BY <2>1, <3>2, <3>3
  <2>7. CASE n > 0
    <3> HIDE DEF x
    <3>1. buffer'[1] = up[sock][1] /\ up[sock] \in Seq(Char) /\ up[sock] # << >>
      BY <2>2, <2>3, <2>7 DEF Take, Typing
    <3>2. up[sock][1] \in ToSet(x \o up[sock])
      BY <3>1, <2>5, FirstOfLast
    <3> QED BY <2>1, <2>5, <3>1, <3>2
  <2> QED BY <2>6, <2>7
<1>4. CASE Send
  BY <1>1, <1>4 DEF Send, SendBytes, At, clients, local, FirstByte
<1>5. CASE Accept \/ CheckVotes \/ Overrun \/ Fails
  BY <1>5 DEF Accept, CheckVotes, Vote, Overrun, Fails, At
<1>6. CASE UNCHANGED vars
  BY <1>1, <1>6 DEF vars, clients, local
<1> QED BY <1>2, <1>3, <1>4, <1>5, <1>6 DEF Next, ServerStep, ClientStep

\* For any clients, messages, buffer size and cuts that TCP makes: VoteFromMessage.
THEOREM VoteSafety == Spec => []VoteFromMessage
<1>1. FirstByte => VoteFromMessage
  BY DEF FirstByte, VoteFromMessage
<1> QED BY <1>1, InvInit, InvStep, EchoStep, FirstByteStep, PTL DEF Spec

------------------------------------------------------------------------------
(* The table                                                                *)

TableType ==
  /\ candidates \in Seq(Char \ {Zero})
  /\ votes \in [Slots -> Int]
  /\ ballots \in Seq(Char)

\* checkVotes counts the byte where it is listed, or lists it behind the others.
LEMMA PlaceIs ==
  ASSUME TableType, Counted, NEW b \in Char, NEW p \in Slots, p = Place(b), Count(b)
  PROVE  /\ candidates' \in Seq(Char \ {Zero})
         /\ \A i, j \in 1..Len(candidates') : candidates'[i] = candidates'[j] => i = j
         /\ Len(candidates) <= Len(candidates')
         /\ \A i \in 1..Len(candidates) : candidates'[i] = candidates[i]
         /\ b # Zero => p <= Len(candidates') /\ candidates'[p] = b
<1> DEFINE found == {i \in 1..Len(candidates) : candidates[i] = b}
<1>1. Len(candidates) \in Nat /\ candidates \in Seq(Char \ {Zero})
  BY LenProperties DEF TableType
<1>2. CASE found = {}
  <2>1. p = Len(candidates) + 1
    BY <1>2 DEF Place
  <2>2. CASE b = Zero
    <3>1. candidates' = candidates
      BY <2>2 DEF Count
    <3> QED BY <1>1, <2>1, <2>2, <3>1 DEF Counted
  <2>3. CASE b # Zero
    <3>1. candidates' = Append(candidates, b)
      BY <1>1, <2>1, <2>3 DEF Count
    <3>2. /\ candidates' \in Seq(Char \ {Zero})
          /\ Len(candidates') = Len(candidates) + 1
          /\ candidates'[Len(candidates) + 1] = b
          /\ \A i \in 1..Len(candidates) : candidates'[i] = candidates[i]
      BY <1>1, <2>3, <3>1, AppendProperties
    <3>3. \A i \in 1..Len(candidates) : candidates[i] # b
      BY <1>2
    <3>4. \A i, j \in 1..Len(candidates') : candidates'[i] = candidates'[j] => i = j
      BY <1>1, <3>2, <3>3 DEF Counted
    <3> QED BY <1>1, <2>1, <3>2, <3>4
  <2> QED BY <2>2, <2>3
<1>3. CASE found # {}
  <2>1. p \in found
    BY <1>3 DEF Place
  <2>2. p \in 1..Len(candidates) /\ candidates[p] = b
    BY <2>1
  <2>3. candidates' = candidates
    BY <1>1, <2>2 DEF Count
  <2> QED BY <1>1, <2>2, <2>3 DEF Counted
<1> QED BY <1>2, <1>3

\* One vote more, and one in the tally of its place.
LEMMA OneMore ==
  ASSUME NEW n \in Nat, NEW place \in [1..n -> Slots], NEW p \in Slots,
         NEW more, more = [j \in 1..(n + 1) |-> IF j <= n THEN place[j] ELSE p]
  PROVE  /\ more \in [1..(n + 1) -> Slots]
         /\ \A i \in Slots :
              /\ Tally(place, n, i) \in Nat
              /\ Tally(more, n + 1, i) = Tally(place, n, i) + IF i = p THEN 1 ELSE 0
<1>1. more \in [1..(n + 1) -> Slots]
  OBVIOUS
<1>2. ASSUME NEW i \in Slots
      PROVE  /\ Tally(place, n, i) \in Nat
             /\ Tally(more, n + 1, i) = Tally(place, n, i) + IF i = p THEN 1 ELSE 0
  <2> DEFINE b == {j \in 1..n : place[j] = i}
             a == {j \in 1..(n + 1) : more[j] = i}
  <2>1. IsFiniteSet(b)
    <3>1. b \subseteq 1..n /\ IsFiniteSet(1..n)
      BY FS_Interval
    <3> QED BY <3>1, FS_Subset
  <2>2. a = (IF i = p THEN b \cup {n + 1} ELSE b) /\ n + 1 \notin b
    OBVIOUS
  <2> HIDE DEF a, b
  <2>3. Cardinality(b) \in Nat /\ Cardinality(b \cup {n + 1}) = Cardinality(b) + 1
    BY <2>1, <2>2, FS_AddElement, FS_CardinalityType
  <2>4. Cardinality(a) = Cardinality(b) + IF i = p THEN 1 ELSE 0
    BY <2>2, <2>3
  <2>5. Tally(place, n, i) = Cardinality(b) /\ Tally(more, n + 1, i) = Cardinality(a)
    BY DEF Tally, a, b
  <2> QED BY <2>3, <2>4, <2>5
<1> QED BY <1>1, <1>2

LEMMA OneLap ==
  ASSUME NEW x \in Int, NEW y \in Int
  PROVE  (x + 1) * y = x * y + y /\ x * y \in Int /\ y \in Int
OBVIOUS

LEMMA CountStep ==
  ASSUME TableType, Counted, NEW b \in Char, Place(b) \in Slots, Count(b),
         ballots' = Append(ballots, b)
  PROVE  TableType' /\ Counted'
<1> DEFINE n == Len(ballots)
           m == Len(ballots')
           p == Place(b)
<1> PICK place \in [1..n -> Slots] :
      /\ \A i \in Slots : Tallies(place, i)
      /\ \A j \in 1..n :
           ballots[j] # Zero => place[j] <= Len(candidates) /\ candidates[place[j]] = ballots[j]
  BY DEF Counted
<1>1. /\ n \in Nat /\ m = n + 1 /\ ballots' \in Seq(Char) /\ ballots'[n + 1] = b
      /\ \A j \in 1..n : ballots'[j] = ballots[j]
  BY AppendProperties, LenProperties DEF TableType
<1>2. /\ p \in Slots
      /\ candidates' \in Seq(Char \ {Zero})
      /\ \A i, j \in 1..Len(candidates') : candidates'[i] = candidates'[j] => i = j
      /\ Len(candidates) <= Len(candidates')
      /\ \A i \in 1..Len(candidates) : candidates'[i] = candidates[i]
      /\ b # Zero => p <= Len(candidates') /\ candidates'[p] = b
  BY PlaceIs
<1> PICK more : more = [j \in 1..(n + 1) |-> IF j <= n THEN place[j] ELSE p]
  OBVIOUS
<1>3. /\ more \in [1..(n + 1) -> Slots]
      /\ \A i \in Slots :
           /\ Tally(place, n, i) \in Nat
           /\ Tally(more, n + 1, i) = Tally(place, n, i) + IF i = p THEN 1 ELSE 0
  <2>1. n \in Nat /\ p \in Slots /\ place \in [1..n -> Slots]
        /\ more = [j \in 1..(n + 1) |-> IF j <= n THEN place[j] ELSE p]
    BY <1>1, <1>2
  <2> HIDE DEF n, p
  <2> QED BY ONLY <2>1, OneMore
<1>4. votes' = [votes EXCEPT ![p] = Incremented(votes[p])]
  BY DEF Count
<1>5. votes' \in [Slots -> Int]
  BY <1>2, <1>4, VoteAssumption DEF TableType, Incremented
<1>6. ASSUME NEW i \in Slots PROVE Tallies(more, i)'
  <2> DEFINE before == Tally(place, n, i)
             after  == Tally(more, n + 1, i)
  <2>1. before \in Nat /\ after = before + IF i = p THEN 1 ELSE 0
    BY <1>3
  <2> PICK laps \in 0..n : votes[i] = before - laps * Wrap
    BY DEF Tallies
  <2> HIDE DEF before, p
  <2>2. \E more_laps \in 0..(n + 1) : votes'[i] = after - more_laps * Wrap
    <3> HIDE DEF after, n
    <3>1. laps \in Nat /\ laps + 1 \in 0..(n + 1) /\ laps \in 0..(n + 1)
      BY <1>1
    <3>2. (laps + 1) * Wrap = laps * Wrap + Wrap /\ laps * Wrap \in Int /\ Wrap \in Int
      <4>1. laps \in Int /\ Wrap \in Int
        BY <3>1, VoteAssumption
      <4> QED BY ONLY <4>1, OneLap
    <3>3. 2 * (Wrap \div 2) = Wrap /\ Wrap \div 2 \in Int
      BY VoteAssumption
    <3>4. CASE i # p
      <4>1. votes'[i] = votes[i]
        BY <1>4, <3>4 DEF TableType
      <4> QED BY <2>1, <3>1, <3>4, <4>1
    <3>5. CASE i = p /\ votes[i] + 1 = Wrap \div 2
      <4>1. votes'[i] = -(Wrap \div 2)
        BY <1>4, <3>5 DEF TableType, Incremented
      <4>2. votes'[i] = after - (laps + 1) * Wrap
        BY <2>1, <3>2, <3>3, <3>5, <4>1 DEF TableType
      <4> QED BY <3>1, <4>2
    <3>6. CASE i = p /\ votes[i] + 1 # Wrap \div 2
      <4>1. votes'[i] = votes[i] + 1
        BY <1>4, <3>6 DEF TableType, Incremented
      <4>2. votes'[i] = after - laps * Wrap
        BY <2>1, <3>2, <3>6, <4>1 DEF TableType
      <4> QED BY <3>1, <4>2
    <3> QED BY <3>4, <3>5, <3>6
  <2>3. \E more_laps \in 0..m : votes'[i] = Tally(more, m, i) - more_laps * Wrap
    BY <1>1, <2>2
  <2> QED BY <2>3 DEF Tallies
<1>7. ASSUME NEW j \in 1..m, ballots'[j] # Zero
      PROVE  more[j] <= Len(candidates') /\ candidates'[more[j]] = ballots'[j]
  <2>1. CASE j = n + 1
    BY <1>1, <1>2, <1>7, <2>1
  <2>2. CASE j \in 1..n
    <3>0. more[j] = place[j] /\ place[j] \in Slots /\ ballots[j] # Zero
      BY <1>1, <1>7, <2>2
    <3>1. more[j] = place[j] /\ place[j] \in 1..Len(candidates) /\ candidates[place[j]] = ballots[j]
      BY <2>2, <3>0, LenProperties DEF TableType, Slots
    <3> QED BY <1>1, <1>2, <1>7, <2>2, <3>1, LenProperties DEF TableType
  <2> QED BY <1>1, <2>1, <2>2
<1>8. TableType'
  BY <1>1, <1>2, <1>5 DEF TableType, Slots
<1>9. more \in [1..m -> Slots]
  BY <1>1, <1>3
<1>10. Counted'
  BY <1>2, <1>6, <1>7, <1>9 DEF Counted, Slots
<1> QED BY <1>8, <1>10

\* For any clients, messages, buffer size, cuts that TCP makes and range of a char: no
\* candidate is listed twice, and each has all of its votes, but for the laps of the char,
\* as long as nothing has been written behind the table.
THEOREM TableSafety == Spec => []VotesAddUp
<1>1. Init => TableType /\ Counted
  <2> SUFFICES ASSUME Init PROVE TableType /\ Counted
    OBVIOUS
  <2>1. /\ candidates = << >> /\ ballots = << >> /\ votes = [i \in Slots |-> 0]
        /\ Len(candidates) = 0 /\ Len(ballots) = 0
    BY DEF Init
  <2>2. TableType
    BY <2>1 DEF TableType
  <2> DEFINE place == [j \in 1..0 |-> 0]
  <2>3. place \in [1..0 -> Slots]
    OBVIOUS
  <2>4. \A i \in Slots : {j \in 1..0 : place[j] = i} = {}
    OBVIOUS
  <2> HIDE DEF place
  <2>5. \A i \in Slots : Tallies(place, i)
    BY <2>1, <2>4, FS_EmptySet, VoteAssumption DEF Tallies, Tally
  <2>6. Counted
    <3>1. \A i, j \in 1..Len(candidates) : candidates[i] = candidates[j] => i = j
      BY <2>1
    <3>2. place \in [1..Len(ballots) -> Slots] /\ \A j \in 1..Len(ballots) : FALSE
      BY <2>1, <2>3
    <3> QED BY <2>5, <3>1, <3>2 DEF Counted
  <2> QED BY <2>2, <2>6
<1>2. Inv /\ TableType /\ Counted /\ [Next]_vars => TableType' /\ Counted'
  <2> SUFFICES ASSUME Inv, TableType, Counted, [Next]_vars PROVE TableType' /\ Counted'
    OBVIOUS
  <2>1. CASE CheckVotes
    <3>1. buffer[1] \in Char
      BY VoteAssumption DEF Inv, Typing
    <3> QED BY <2>1, <3>1, CountStep DEF CheckVotes, Vote
  <2>2. CASE UNCHANGED table
    BY <2>2 DEF table, TableType, Counted, Tallies
  <2> QED BY <2>1, <2>2 DEF Next, ServerStep, ClientStep, Connect, Receive, ReceiveFails, Close, Kill,
            Accept, First, Send, SendBytes, Again, Overrun, Fails, vars
<1>3. Counted => VotesAddUp
  BY DEF VotesAddUp
<1> QED BY <1>1, <1>2, <1>3, Invariance, PTL DEF Spec
==============================================================================
