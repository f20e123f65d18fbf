SPECIFICATION ProgramsSpec
CONSTANTS
  Threads = {t1, t2, t3}
  Tickets = 3
  Loops = 3
\* Three words of three bits, and blocks that fill a word, cross one or two word
\* boundaries, or cover a whole word and parts of both neighbours
  Word = 3
  Words = 3
  Wanted = {1, 2, 4, 7}
  Elements = 3
  Bytes <- MCBytes
  Capacity = 4
  Callers = {"t1", "t2"}
  Users = {"u1", "u2"}
  Messages = {"msg1", "msg2"}
  MaxEntries = 2
  Procs = {"p1", "p2"}
  Clients = {1, 2}
  Traders = {1, 2}
  Instruments = {1, 2}
  MaxEach = 2
  MaxSent = 3
  Getters = {"c1", "c2", "c3"}
  Calls = 2
INVARIANTS MutualExclusion Deliveries MadeOnce OrderFiles LogExact
PROPERTIES IsFifoLock LocksCountAll ArePools ComesToAnEnd
CHECK_DEADLOCK FALSE
