SPECIFICATION Spec
CONSTANTS
  ls = ls
  rm = rm
  deploy = deploy
  Commands <- OneCommand
  AllowListed = {}
  Sensitive = {}
  Skills = {}
  NoCommand = NoCommand
  MaxChats = 1
  MaxCalls = 1
  MaxCmds = 2
  MaxEsc = 1
  Leaves = {"bash"}
PROPERTY BashReturnsToUI
CHECK_DEADLOCK FALSE
