SPECIFICATION Spec
CONSTANTS
  ls = ls
  rm = rm
  deploy = deploy
  Commands <- ThreeCommands
  AllowListed <- ReadOnly
  Sensitive <- Secret
  Skills <- Scripts
  NoCommand = NoCommand
  MaxChats = 1
  MaxCalls = 2
  MaxCmds = 2
  MaxEsc = 1
  Leaves = {"bash", "quit"}
INVARIANTS
  CardIsLive
  LocksAreReleased
PROPERTIES
  ImplementsConsent
\* the process exits
CHECK_DEADLOCK FALSE
