----------------------------- MODULE MCQueueMain -----------------------------
(* A small instance of QueueMain: threads that enqueue 1 and 2.             *)
EXTENDS QueueMain, TLC

MCThread == 0..N
MCValue == 1..Items

==============================================================================
