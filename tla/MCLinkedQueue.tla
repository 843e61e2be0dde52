---------------------------- MODULE MCLinkedQueue ----------------------------
(* A small instance of LinkedQueue: every client, three threads.            *)
EXTENDS LinkedQueue, TLC

\* which node malloc returns, and which thread is which, does not matter
Symmetry == Permutations(Node) \cup Permutations(Thread)
==============================================================================
