CONSTANTS
  h1 = h1
  h2 = h2
  IrqThread = IrqThread
  Firmware = Firmware
  NoThread = NoThread
  HostThreads <- Hosts
  Unlocked <- Session
  Size = 7
  CmdSizes <- Short
  MsgSizes <- UpTo4
  MaxPacket = 3
  Ids = 3
  MayFill = FALSE
SPECIFICATION Spec
INVARIANTS
  WholePackets
