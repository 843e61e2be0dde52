------------------------------- MODULE MCWzip --------------------------------
(* Small instances of Wzip: every command line of up to two files.          *)
EXTENDS Wzip, FiniteSets

\* all files of at most n bytes of the set b
Files(b, n) == UNION {[1..k -> b] : k \in 0..n}

UpToTwoFiles ==
  {<< >>} \cup {<<f>> : f \in Files(Byte, 5)}
          \cup {<<f, g>> : f, g \in Files(Byte, 2)}
==============================================================================
