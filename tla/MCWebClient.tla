----------------------------- MODULE MCWebClient -----------------------------
(* Small instances of Request with WebClient.                               *)
EXTENDS WebClient, TLC

Ask(line, cgi, file) == [line |-> line, ends |-> line = "GET", cgi |-> cgi, file |-> file]

\* a file of whole lines, and one with what readline cannot tell from the end
Texts == [file \in {"full", "odd"} |->
            IF file = "full" THEN <<"text", "lf">> ELSE <<"text", "lf", "lf", "x">>]

\* the kinds of request that make a difference
Kinds ==
  {Ask("eof", FALSE, "full"), Ask("GET", FALSE, "missing"), Ask("GET", FALSE, "empty"),
   Ask("GET", FALSE, "odd"), Ask("GET", TRUE, "full")}

Requests == [c \in Conn |->
   IF c \in Client THEN {Ask("GET", FALSE, "odd"), Ask("GET", TRUE, "full")}
   ELSE {Ask("eof", FALSE, "full"), Ask("GET", FALSE, "missing"),  Ask("GET", TRUE, "full")}]
==============================================================================
