CONSTANTS
  Servers <- MC_Servers
  Cmds <- MC_Cmds
  Reaper = Reaper
  NoThread = NoThread
  Main = Main
  CloseCmd = CloseCmd
  TokenCmd = TokenCmd
  SweepIds = 1
  RetryCount = 2
  MaxTxns = 1
  MaxSpurious = 1
SPECIFICATION Spec
INVARIANT TypeOK
INVARIANT SlotOwnership
INVARIANT ResponseIsOwn
PROPERTY WaitTerminates
PROPERTY ServersStart
CHECK_DEADLOCK FALSE
