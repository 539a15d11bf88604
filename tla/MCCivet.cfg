SPECIFICATION WholeSpec
CONSTANTS
  PartsRun = {"handlers", "connection", "forms", "websocket", "cgi", "client", "spawn"}
  HandlerUris <- MCHandlerUris
  RequestUris <- MCRequestUris
  Calls <- MCCalls
  Requests = {1, 2}
  Setters = {1, 2}
  Cells = {1, 2}
  MaxStray = 1
  MaxLost = 1
  MaxSets = 3
  UIntMax = 3
  Matches <- MCMatches
  Streams <- MCStreams
  BufSize = 4
  ReadSizes = {1, 3}
  DiscardSize = 2
  Workers = {1, 2}
  Programs <- MCPrograms
  Bodies <- MCBodies
  PipeSize = 1
  BufLen = 2
  MaxTimers = 1
  Connects <- MCConnects
  MaxTries = 2
  MaxGets = 2
  MaxMessages = 2
  Starters = {1, 2}
  Kinds = {"reads", "ends", "hangs"}
  Sends <- MCSends
  Inline = 2
  Base = 2
  Room = 14
  Mem = 3
  PullSizes = {3, 20}
  PingPong = TRUE
  MaxPing = 0
  MaxSlow <- MCMaxSlow
  Cuts <- MCCuts
CHECK_DEADLOCK FALSE
INVARIANTS
  TypeOK
  HandlersStay
  FieldsAreTheClients
  MessagesAreWhole
  
PROPERTIES
  InStep
  CallsEnd
