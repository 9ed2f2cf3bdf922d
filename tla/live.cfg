SPECIFICATION LiveSpec
CONSTANTS
  Commands = {ls, rm}
  AllowListed = {ls}
  Sensitive = {rm}
  Skills = {}
  NoCommand = NoCommand
  MaxChats = 1
  MaxCalls = 2
  MaxCmds = 1
  MaxEsc = 1
  Leaves = {}
  Users = {u1}
  MaxDials = 2
  MaxRuns = 2
INVARIANTS
  ClosedStaysClosed
  NobodyGivesUp
PROPERTIES
  EscUnlocks
  CancelledTurnEnds
  
\* every chat answered, the bounds of the connection reached
CHECK_DEADLOCK FALSE
