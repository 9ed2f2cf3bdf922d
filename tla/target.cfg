SPECIFICATION Spec
CONSTANTS
  web = web
  db = db
  Hosts <- Both
  Local = Local
  Offline = Offline
  None = None
  Known <- OnlyWeb
  Configured <- OnlyWeb
  MaxInputs = 3
  MaxCalls = 1
  MaxTroubles = 1
INVARIANTS
  TypeOK
  TargetsAgree
  
  OfflineTurnsExecuteNothing
  
  CredsAreForgotten
  BusyIsAnswered
  RunnerFitsMode
  MemoryFits
  AuditNamesTarget
\* the user may have nothing more to ask
CHECK_DEADLOCK FALSE
