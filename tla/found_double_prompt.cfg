SPECIFICATION Spec
CONSTANTS
  Files = {f1}
  MemoryHosts = {h1}
  NoHost = NoHost
  NoRequest = NoRequest
  QueueCap = 1
  MaxSessions = 1
  MaxChats = 1
  MaxRecords = 1
INVARIANT PromptOnce
\* the bound on chats is reached
CHECK_DEADLOCK FALSE
