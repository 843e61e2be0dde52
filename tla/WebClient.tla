------------------------------ MODULE WebClient ------------------------------
(***************************************************************************)
(* wclient.c with the server of Request: it connects, sends its request    *)
(* and prints what comes back, first in pieces as read returns them, until *)
(* a piece is the empty line or the connection ends, then line by line     *)
(* with readline of io_helper.c.  Lines are shorter than MAXBUF.           *)
(***************************************************************************)
EXTENDS Request, SequencesExt

CONSTANT Client  \* the connections that wclient makes: programs of its own

ASSUME ClientAssumption ==
  Client \subseteq Conn /\ \A c \in Client : \A q \in Asks[c] : q.line = "GET" /\ q.ends

VARIABLES
  phase,    \* where each client is
  got,      \* how much it has read of what was sent to it
  printed   \* what it has printed of that, without what printf finds behind a piece
            \* in the buffer of client_print, where nobody writes a null

client == <<phase, got, printed>>

ClientInit ==
  /\ Init
  /\ phase = [c \in Client |-> "connect"]
  /\ got = [c \in Client |-> 0]
  /\ printed = [c \in Client |-> << >>]

Goto(c, from, to) == phase[c] = from /\ phase' = [phase EXCEPT ![c] = to]

\* what was sent and is not read yet
Rest(c) == SubSeq(sent[c], got[c] + 1, Len(sent[c]))

\* nobody holds the other end of the connection any more
Ended(c) ==
  /\ c \in came /\ ~Held(c)
  /\ \A p \in Pid : c \notin heirs[p]

\* read returns 0
AtEnd(c) == Rest(c) = << >> /\ Ended(c)

Show(c, piece) ==
  /\ printed' = [printed EXCEPT ![c] = @ \o piece]
  /\ got' = [got EXCEPT ![c] = @ + Len(piece)]

\* open_client_fd, client_send: a whole GET request in one write
Send(c) == Goto(c, "connect", "header") /\ UNCHANGED <<got, printed, vars>>

\* the first loop of client_print: a read returns any part of what is there.  "text"
\* stands for any cut of it.
ReadPiece(c) ==
  /\ phase[c] = "header"
  /\ \E n \in 1..Len(Rest(c)) : Show(c, SubSeq(Rest(c), 1, n))
  /\ UNCHANGED <<phase, vars>>

\* strcmp(buf, "\r\n") ends the loop when a read has returned just that, be it the end
\* of another line, or a "\r" before an old "\n", and the next byte of the buffer is
\* null: reads do not write one, but nor does a read of one or two bytes overwrite it.
FindEmptyLine(c) ==
  /\ Goto(c, "header", "body")
  /\ \E piece \in {EmptyLine, <<"cr">>} :
       /\ IsPrefix(piece, Rest(c))
       /\ got' = [got EXCEPT ![c] = @ + Len(piece)]
  /\ UNCHANGED <<printed, vars>>

HeaderEnds(c) ==
  /\ Goto(c, "header", "body") /\ AtEnd(c)
  /\ UNCHANGED <<got, printed, vars>>

\* The first n units that are left are what readline reads: up to a newline or the end.
OneLine(c, n) ==
  /\ \A i \in 1..(n - 1) : Rest(c)[i] # "lf"
  /\ Rest(c)[n] = "lf" \/ (n = Len(Rest(c)) /\ Ended(c))

\* Of these readline returns 0: it counts the characters before the newline, and at the
\* end of the connection it takes one character for none.
Zero == {<<"lf">>, <<"cr">>, <<"x">>}

Readline(c) ==
  /\ phase[c] = "body"
  /\ \E n \in 1..Len(Rest(c)) :
       LET line == SubSeq(Rest(c), 1, n)
       IN  OneLine(c, n) /\ line \notin Zero /\ Show(c, line)
  /\ UNCHANGED <<phase, vars>>

\* What it has read is not printed, and the loop ends.
ReadlineZero(c) ==
  /\ Goto(c, "body", "done")
  /\ Rest(c) # << >> /\ OneLine(c, 1) /\ <<Rest(c)[1]>> \in Zero
  /\ UNCHANGED <<got, printed, vars>>

BodyEnds(c) ==
  /\ Goto(c, "body", "done") /\ AtEnd(c)
  /\ UNCHANGED <<got, printed, vars>>

\* What a client gets on a mixed connection is not followed.
ClientStep(c) ==
  /\ ~aborted /\ c \notin mixed
  /\ \/ ReadPiece(c) \/ FindEmptyLine(c) \/ HeaderEnds(c) \/ Readline(c)
     \/ ReadlineZero(c) \/ BodyEnds(c)

ClientNext ==
  \/ Next /\ UNCHANGED client /\ \A c \in Client : phase[c] = "connect" => c \notin came'
  \/ \E c \in Client : Send(c) \/ ClientStep(c)

\* Fairness of Request, and the clients are scheduled.
ClientSpec ==
  /\ ClientInit /\ [][ClientNext]_<<vars, client>>
  /\ Fairness
  /\ \A c \in Client : WF_<<vars, client>>(ClientStep(c))

------------------------------------------------------------------------------
(* Properties                                                               *)

\* What was printed of s is p: all of it, or all but one piece that was taken for the
\* empty line after the header.
Prints(p, s) ==
  \/ p = s
  \/ \E i \in 0..Len(p), piece \in {EmptyLine, <<"cr">>} :
       s = SubSeq(p, 1, i) \o piece \o SubSeq(p, i + 1, Len(p))

\* When a client is done it has printed what it has read of the answer to its
\* request, in order, save one piece that looked like the empty line; and it has read
\* the whole answer, or stopped before a newline or a last character, which readline
\* does not tell from the end.  In particular the connection does not end before a
\* CGI program has written its output, whoever reaped the program.  This holds of a
\* connection that one worker only has been at.
PrintsAnswer ==
  \A c \in Client \ mixed :
    phase[c] = "done" /\ ~aborted =>
      LET answer == Response(asked[c])
          unread == SubSeq(answer, got[c] + 1, Len(answer))
      IN  /\ got[c] \in 0..Len(answer)
          /\ Prints(printed[c], SubSeq(answer, 1, got[c]))
          /\ unread = << >> \/ unread[1] = "lf" \/ unread \in Zero

\* Does not hold: wclient.c:42, "Read the HTTP response and print it out".
PrintsEveryAnswer ==
  \A c \in Client :
    phase[c] = "done" /\ ~aborted =>
      got[c] = Len(Response(asked[c])) /\ Prints(printed[c], Response(asked[c]))

\* Main has taken the connection out of the queue itself, and no worker has got it.
Dropped(c) == main = "accept" /\ c \in came \ served

\* A client whose connection is accepted comes to its end, short of an assert that ends
\* the server, unless main drops the connection or gives it to two workers: a worker
\* answers and closes, and in the end no CGI program, also none of another request,
\* holds the connection open any more.
ClientEnds ==
  \A c \in Client :
    c \in came ~> (phase[c] = "done" \/ aborted \/ c \in mixed \/ Dropped(c))
==============================================================================
