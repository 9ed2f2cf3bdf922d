SPECIFICATION Spec
CONSTANTS
  ls = ls
  rm = rm
  deploy = deploy
  Commands <- TwoCommands
  AllowListed <- ReadOnly
  Sensitive = {}
  Skills = {}
  NoCommand = NoCommand
  MaxChats = 1
  MaxCalls = 1
  MaxCmds = 2
  MaxEsc = 1
  Leaves = {}
PROPERTY EscKeepsTurn
CHECK_DEADLOCK FALSE
