SPECIFICATION FairSpec
CONSTANTS
  CmdCap = 1
  BusCap = 2
  AgentCap = 1
  UiCap = 1
  MaxLines = 3
  MaxIssues = 1
  MaxCommands = 2
INVARIANT TypeOK
PROPERTIES
  AgentToUI
  CommandsToHost
  StuckIsForever
  LinesShownUnlessStuck
  CommandsHandledUnlessStuck
\* everything was shown and handled, or one of the three waits has begun
CHECK_DEADLOCK FALSE
