SPECIFICATION Spec
CONSTANTS
  Files = {f1, f2}
  MemoryHosts = {h1}
  NoHost = NoHost
  NoRequest = NoRequest
  QueueCap = 1
  MaxSessions = 3
  MaxChats = 2
  MaxRecords = 1
  Probes = {p1}
  Patchers = {tool, updater}
  Commands = {rg, own}
  Important = {rg}
  Notes = {n1, n2}
  MaxNotes = 1
  MaxJobs = 3
  SkillNames = {"a", "b"}
  MaxCommits = 2
  MaxUses = 3
  Texts <- AnyText
  Hosted <- Servers
  RecordedSources <- Sources
  TypedFields <- FieldTexts
  Pieces <- AnyPiece
  TypedLines <- SomeLines
  Setups <- SomeFiles
  MaxHistory = 2
  MaxAsks = 2
  MaxVariants = 2
INVARIANTS
  AvailableOrMissing
  
  SeenIsEntered
  WhatIsShownFits
  MatchesAsDocumented
  
  TurnInOneFile
  NewestIsKept
  NotesStay
  SourceMatchesFiles
\* bounds and inputs may run out
CHECK_DEADLOCK FALSE
