SPECIFICATION DriversSpec
CONSTANTS
  a1 = a1  a2 = a2  s = s  r = r
  alice = alice  sue = sue  Root = Root
  tty1 = tty1  tty2 = tty2  NoTty = NoTty
  Files = {a1, a2, s, r}
  Capable = {r}
  NonBlock = {a2}
  Uid <- MCUid
  Euid <- MCEuid
  Tty <- MCTty
  UsbFiles = {"f1", "f2"}
  MaxPlugs = 2
  MaxReads = 2
  TtyFiles = {"f1", "f2"}
  MaxTtys = 2
  MaxCount = 2
  Users = {"u1", "u2"}
  Size = 4
  Requests <- MCRequests
  Slots = 4
  MaxBytes = 4
  MaxOpens = 2
  BdFiles = {1, 2, 3}
  Minor <- MCMinor
  Window = 8
  MAX_SIZE = 3
  BdCounts = {1, 2, 4}
  MaxCalls = 3
INVARIANTS AccessOK PacketsAndFrames PrintsInOrder LinesInOrder
  UsersCounted TimerOfPort LoadsAndUnloads
PROPERTIES OpenReturns Delivered
CHECK_DEADLOCK FALSE
