SPECIFICATION UserSpec
CONSTANTS
  Procs <- P3
  InitProc = 1
  Nobody = 0
  Programs <- AllPrograms
  Parents <- Tree
  Actions <- TwoActions
  Masks <- TermMask
  Sigs <- TwoSigs
  Ids <- IdsDef
  FileIds <- Files
  Eof = 4
  MaxSleeps = 2
  SockPlans <- ThreePlans
  CtrlLen = 1
  NetPages <- FivePages
  RxBufCount = 2
  NetSenders = {1, 2}
  NetQueueSize = 2
  NetIndexRange = 4
  TraceHarts = {1, 2}
  TracePrograms <- Filters
  MaxProgs = 2
  RingSize = 4
  RecordLen = 2
  PosRange = 8
  MaxFires = 3
  ByteValues = {0, 1}
  PageLen = 8
  RunCap = 3
  CountRange = 4
  CommandLines <- ShellLines
  MaxCommands = 2
  NameChars = {"a", "b", "v"}
  Env <- Environment
  ShellWords <- LineWords
  MaxWords = 3
  Chars = {"a", "b", "_"}
  Words <- Texts
  Past <- History
  MaxLine = 2
  Letters = {"a", "b"}
  ContentRows = 2
  MaxText = 4
  Packages <- ThreePackages
  FilesOf <- PackageFiles
  Depends <- Cycle
  Index <- ThreePackages
  MaxJobs = 2
  Symbols <- FourSymbols
  MaxLen = 3
  WindowSize = 4
  OutBufSize = 3
  MaxOut = 9
CHECK_DEADLOCK FALSE
INVARIANTS
  LocksSound HandlersResume SocketsSound TablesSound PipelinesSound 
PROPERTIES
  StepsAreExact
