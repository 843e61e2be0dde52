---------------------------- MODULE MCVoteServer -----------------------------
(* Small instances of VoteServer: words of up to three letters.            *)
EXTENDS VoteServer, TLC

CONSTANTS d, e

MCChar == {d, e, Zero}
MCDead == <<d, e>>
Messages == {<< >>, <<d>>, <<e>>, <<d, e>>, <<e, d, d>>}
==============================================================================
