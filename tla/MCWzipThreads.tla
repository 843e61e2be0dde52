---------------------------- MODULE MCWzipThreads ----------------------------
(* Small instances of WzipThreads: a file of more than three bytes is large. *)
EXTENDS WzipThreads, FiniteSets

\* all files of lo to hi bytes of the set b
Files(b, lo, hi) == UNION {[1..n -> b] : n \in lo..hi}

\* one file of any kind
OneFile ==
  {<< >>} \cup {<<f>> : f \in Files(Letter, 0, 9) \cup Files(Letter \cup {1, Nul}, 0, 5)}

\* a large file, and small ones before and after it
Mixed ==
  {<<f, g>> : f, g \in Files(Letter, 0, 3)}
  \cup {<<f, g>> : f \in Files(Letter, 0, 2), g \in Files(Letter, 5, 5)}
  \cup {<<g, f>> : f \in Files(Letter, 0, 2), g \in Files(Letter, 5, 5)}

OneOrTwoFiles == OneFile \cup Mixed

NextPage == {<< >>, <<1>>, CHOOSE f \in Files(Letter, 2, 2) : TRUE}
==============================================================================
