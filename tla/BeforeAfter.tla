----------------------------- MODULE BeforeAfter -----------------------------
(***************************************************************************)
(* What questions 2 and 3 of chapter 31 ask for: "each child should print  *)
(* their before message before either prints their after message".         *)
(***************************************************************************)
CONSTANT Child

VARIABLES
  before,  \* the children that have printed "before"
  after    \* the children that have printed "after"

vars == <<before, after>>

Init == before = {} /\ after = {}

Before(c) ==
  /\ c \notin before
  /\ before' = before \cup {c}
  /\ UNCHANGED after

After(c) ==
  /\ before = Child
  /\ c \notin after
  /\ after' = after \cup {c}
  /\ UNCHANGED before

Next == \E c \in Child : Before(c) \/ After(c)

Spec == Init /\ [][Next]_vars
==============================================================================
