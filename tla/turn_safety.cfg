SPECIFICATION Spec
CONSTANTS
  ls = ls
  rm = rm
  deploy = deploy
  Commands <- TwoCommands
  AllowListed <- ReadOnly
  Sensitive <- Secret
  Skills = {}
  NoCommand = NoCommand
  MaxChats = 2
  MaxCalls = 1
  MaxCmds = 2
  MaxEsc = 1
  Leaves = {"quit"}
INVARIANTS
  TypeOK
  NoUnconsentedRun
  AuditBeforeRun
  OneTurn
  NoLostRequest
  InductiveInv
\* the process exits
CHECK_DEADLOCK FALSE
