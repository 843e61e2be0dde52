------------------------------ MODULE VoteServer ------------------------------
(***************************************************************************)
(* Lab3: a server that handles one client at a time, echoes everything the *)
(* client sends, and counts as its vote what the first byte of the buffer  *)
(* is once the client has closed; and clients that send one message and    *)
(* receive until they have got as many bytes back.  TCP delivers the bytes *)
(* of a connection in order, in pieces of any size.  Once the server       *)
(* writes behind its full table of candidates it is "overrun": what it     *)
(* does then is undefined, and is not followed.                            *)
(***************************************************************************)
EXTENDS Integers, Sequences, FiniteSets, SequencesExt

CONSTANTS
  Client,   \* the client processes
  Char,     \* the bytes a char may hold, with Zero
  Zero,     \* '\0'
  Message,  \* what a client may send: no message contains Zero
  Dead,     \* the word that stops the server ("dead")
  BufSize,  \* BUFSIZE
  Wrap,     \* how many values a char has (256): a vote count wraps around
  Mortal,   \* the clients that may be killed
  NoOne     \* no client

ASSUME VoteAssumption ==
  /\ BufSize \in Nat \ {0, 1}
  /\ Zero \in Char
  /\ Message \subseteq Seq(Char \ {Zero})
  /\ Dead \in Seq(Char \ {Zero}) /\ Len(Dead) <= BufSize
  /\ Wrap \in Nat \ {0} /\ Wrap % 2 = 0
  /\ Mortal \subseteq Client /\ NoOne \notin Client

VARIABLES
  msg,      \* each client's message
  client,   \* where each client is
  up,       \* the bytes on their way from the client to the server
  down,     \* the bytes on their way back
  printed,  \* what the client has printed of them
  backlog,  \* the connections not yet accepted
  server,   \* where the server is
  sock,     \* the client it is handling
  buffer,   \* its buffer
  size,     \* the result of its last recv
  candidates,  \* the candidates found so far
  votes,    \* candidatesVotes
  ballots   \* history: the bytes that were counted as votes, in order

clients == <<msg, client, printed>>
net     == <<up, down, backlog>>
local   == <<sock, buffer, size>>
table   == <<candidates, votes, ballots>>
vars    == <<clients, net, server, local, table>>

Slots == 1..BufSize  \* of candidates[] and candidatesVotes[]

Init ==
  /\ msg \in [Client -> Message]
  /\ client = [c \in Client |-> "new"]
  /\ up = [c \in Client |-> << >>]
  /\ down = [c \in Client |-> << >>]
  /\ printed = [c \in Client |-> << >>]
  /\ backlog = << >>
  /\ server = "accept"
  /\ sock = NoOne
  /\ buffer = [i \in 1..BufSize |-> Zero]
  /\ size = 0
  /\ candidates = << >>
  /\ votes = [i \in Slots |-> 0]
  /\ ballots = << >>

------------------------------------------------------------------------------
(* client.lab.c                                                             *)

Step(c, from, to) == client[c] = from /\ client' = [client EXCEPT ![c] = to]

\* connect, whose result is not looked at, and send: the message is on its way,
\* or there is no server any more
Connect(c) ==
  /\ \/ /\ server # "died" /\ Step(c, "new", "receiving")
        /\ backlog' = Append(backlog, c)
        /\ up' = [up EXCEPT ![c] = msg[c]]
     \/ server = "died" /\ Step(c, "new", "died") /\ UNCHANGED <<backlog, up>>
  /\ UNCHANGED <<msg, printed, down, server, local, table>>

\* recv: up to BUFSIZE-1 of the bytes that are there; they are printed
Receive(c) ==
  /\ Step(c, "receiving", "receiving")
  /\ Len(printed[c]) < Len(msg[c])
  /\ \E n \in 1..(BufSize - 1) :
       /\ n <= Len(down[c])
       /\ printed' = [printed EXCEPT ![c] = @ \o SubSeq(down[c], 1, n)]
       /\ down' = [down EXCEPT ![c] = SubSeq(@, n + 1, Len(@))]
  /\ UNCHANGED <<msg, up, backlog, server, local, table>>

\* recv fails: the server has ended, or closed the connection
ReceiveFails(c) ==
  /\ Step(c, "receiving", "died")
  /\ Len(printed[c]) < Len(msg[c]) /\ down[c] = << >>
  /\ server = "died"
  /\ UNCHANGED <<msg, printed, net, server, local, table>>

\* all bytes are back: close
Close(c) ==
  /\ Step(c, "receiving", "closed")
  /\ Len(printed[c]) >= Len(msg[c])
  /\ UNCHANGED <<msg, printed, net, server, local, table>>

\* someone kills the client
Kill(c) ==
  /\ c \in Mortal
  /\ Step(c, "receiving", "killed")
  /\ UNCHANGED <<msg, printed, net, server, local, table>>

------------------------------------------------------------------------------
(* server.lab.c                                                             *)

At(from, to) == server = from /\ server' = to

\* accept; the local buffer of handle holds whatever the stack held
Accept ==
  /\ At("accept", "first")
  /\ backlog # << >>
  /\ sock' = Head(backlog) /\ backlog' = Tail(backlog)
  /\ buffer' \in [1..BufSize -> Char]
  /\ UNCHANGED <<clients, up, down, size, table>>

Fault_Cleared(n) ==
  /\ size' = n
  /\ buffer' = [i \in 1..BufSize |-> IF i <= n THEN up[sock][i] ELSE Zero]
  /\ up' = [up EXCEPT ![sock] = SubSeq(@, n + 1, Len(@))]

\* recv: up to BUFSIZE of the bytes that are there; the others stay as they were
Take(n) ==
  /\ size' = n
  /\ buffer' = [i \in 1..BufSize |-> IF i <= n THEN up[sock][i] ELSE buffer[i]]
  /\ up' = [up EXCEPT ![sock] = SubSeq(@, n + 1, Len(@))]

\* nothing is there: recv returns 0 once the client has closed
ServerRecv ==
  \/ \E n \in 1..BufSize : n <= Len(up[sock]) /\ Take(n)
  \/ up[sock] = << >> /\ client[sock] \in {"closed", "killed"} /\ Take(0)

\* the first recv, and the test for "dead": while (1)
First ==
  /\ server = "first"
  /\ ServerRecv
  /\ server' = IF SubSeq(buffer', 1, Len(Dead)) = Dead THEN "hung" ELSE "echo"
  /\ UNCHANGED <<clients, down, backlog, sock, table>>

SendBytes(n) ==
  /\ At("echo", "recv")
  /\ size > 0
  /\ down' = [down EXCEPT ![sock] = @ \o SubSeq(buffer, 1, n)]
  /\ UNCHANGED <<clients, up, backlog, local, table>>

Fault_SendBufsize == SendBytes(BufSize)

Fault_SendLess == SendBytes(size - 1)

\* while (size > 0): send the size bytes of the buffer
Send == SendBytes(size)

\* the next recv
Again ==
  /\ At("recv", "echo")
  /\ ServerRecv
  /\ UNCHANGED <<clients, down, backlog, sock, table>>

\* the client was killed: a send or a recv may fail, and the server with it
Fails ==
  /\ server \in {"first", "echo", "recv"} /\ server' = "died"
  /\ client[sock] = "killed"
  /\ UNCHANGED <<clients, net, local, table>>

\* a signed char is incremented: from the largest value to the smallest
Incremented(n) == IF n + 1 = Wrap \div 2 THEN -(Wrap \div 2) ELSE n + 1

\* checkVotes finds the candidate, or writes it behind the others: Zero is
\* not found, and writing it there adds no candidate, only a vote.  Behind a full
\* table there is no place.
Place(c) ==
  LET found == {i \in 1..Len(candidates) : candidates[i] = c}
  IN  IF found = {} THEN Len(candidates) + 1 ELSE CHOOSE i \in found : TRUE

Count(c) ==
  /\ votes' = [votes EXCEPT ![Place(c)] = Incremented(@)]
  /\ candidates' = IF Place(c) > Len(candidates) /\ c # Zero THEN Append(candidates, c) ELSE candidates

Vote ==
  /\ At("echo", "accept")
  /\ size = 0
  /\ Place(buffer[1]) \in Slots
  /\ ballots' = Append(ballots, buffer[1])
  /\ sock' = NoOne
  /\ UNCHANGED <<clients, net, buffer, size>>

Fault_CountedOnce ==
  /\ Vote
  /\ IF Place(buffer[1]) > Len(candidates) THEN Count(buffer[1]) ELSE UNCHANGED <<candidates, votes>>

\* size is 0: checkVotes(buffer[0]), close, print the table
CheckVotes == Vote /\ Count(buffer[1])

\* the table is full and does not have the byte: checkVotes reads on behind it, and
\* writes there
Overrun ==
  /\ At("echo", "overrun")
  /\ size = 0
  /\ Place(buffer[1]) \notin Slots
  /\ UNCHANGED <<clients, net, local, table>>

ServerStep == Accept \/ First \/ Send \/ Again \/ CheckVotes \/ Overrun

ClientStep(c) == Connect(c) \/ Receive(c) \/ ReceiveFails(c) \/ Close(c)

Next == ServerStep \/ Fails \/ \E c \in Client : ClientStep(c) \/ Kill(c)

\* The processes are scheduled and TCP delivers; nobody need be killed.
Spec ==
  /\ Init /\ [][Next]_vars
  /\ WF_vars(ServerStep)
  /\ \A c \in Client : WF_vars(ClientStep(c))

------------------------------------------------------------------------------
(* Properties                                                               *)

\* No byte is lost, doubled or reordered, however TCP cuts the stream: what the
\* client has printed, what is on its way back, what the server has received
\* and not sent back, and what is on its way there are the message.
Held(c) == IF sock = c /\ server = "echo" THEN SubSeq(buffer, 1, size) ELSE << >>

EchoWhole ==
  \A c \in Client :
    client[c] \in {"receiving", "closed"} /\ server \notin {"hung", "overrun"} =>
      printed[c] \o down[c] \o Held(c) \o up[c] = msg[c]

\* A client that sent something votes for a byte of its own message, although
\* the buffer is never cleared: which byte depends on how TCP cut the message.
VoteFromMessage ==
  server = "echo" /\ size = 0 /\ client[sock] = "closed" /\ msg[sock] # << >> =>
    buffer[1] \in ToSet(msg[sock])

\* If place[j] is where vote j was counted: how many of the first n went to place i,
\* and that its count is that, but for the wrap-around of a char.
Tally(place, n, i) == Cardinality({j \in 1..n : place[j] = i})

Tallies(place, i) ==
  \E laps \in 0..Len(ballots) : votes[i] = Tally(place, Len(ballots), i) - laps * Wrap

Counted ==
  /\ \A i, j \in 1..Len(candidates) : candidates[i] = candidates[j] => i = j
  /\ \E place \in [1..Len(ballots) -> Slots] :
       /\ \A i \in Slots : Tallies(place, i)
       /\ \A j \in 1..Len(ballots) :
            ballots[j] # Zero =>
              place[j] <= Len(candidates) /\ candidates[place[j]] = ballots[j]

\* As long as the table has not been overrun, every client that was handled has one vote
\* in it, and a candidate has all of its votes, though a Zero that nobody stood for may
\* have been counted there before it was listed; no candidate is listed twice.
VotesAddUp == server # "overrun" => Counted

\* Every client that is not killed gets its message back and closes, although
\* the server handles one at a time, unless the word is sent, the server dies
\* of a killed client, or overruns its table.
EveryoneServed ==
  \A c \in Client :
    <>(client[c] \in {"closed", "killed"} \/ server \in {"hung", "died", "overrun"})
==============================================================================
