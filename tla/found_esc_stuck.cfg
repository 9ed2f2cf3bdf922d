SPECIFICATION FairSpec
CONSTANTS
  CmdCap = 1
  BusCap = 2
  AgentCap = 1
  UiCap = 1
  MaxLines = 4
  MaxIssues = 1
  MaxCommands = 1
PROPERTY EscIsHandled
CHECK_DEADLOCK FALSE
