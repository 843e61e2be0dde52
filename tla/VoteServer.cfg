SPECIFICATION Spec
CONSTANTS
  Client = {c1, c2, c3}
  Zero = zero
  NoOne = nobody
  d = d
  e = e
  Char <- MCChar
  Message <- Messages
  Dead <- MCDead
  BufSize = 2
  Wrap = 4
  Mortal = {c1}
INVARIANTS EchoWhole VoteFromMessage VotesAddUp
PROPERTIES EveryoneServed
CHECK_DEADLOCK FALSE
