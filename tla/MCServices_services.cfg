SPECIFICATION ServicesSpec
CONSTANTS
  QueueSize = 4
  IndexRange = 4
  BlkNumbers = {1, 2}
  Written = {1}
  BlkScenes <- CrashScenes
  Clients <- TwoClients
  Names = {"n1"}
  Pids = {"p1"}
  StatusLen = 2
  Questions <- AllAsked
  MaxChildren = 4
CHECK_DEADLOCK FALSE
INVARIANTS
  DescriptorsConserved ReadsWhatWasWritten AnswersTheQuestion OneShell
PROPERTIES
  ServicesGoOn
