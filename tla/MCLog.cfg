\* Two processes, operations of up to two blocks, crashes at any time; two
\* reservations fill the log.
CONSTANTS
  Proc = {p1, p2}
  Block = {b1, b2}
  Val = {0, 1}
  Zero = 0
  None = None
  LOGSIZE = 6
  MAXOPBLOCKS = 3
  nlog = 6
  OpBlocks = 2
SPECIFICATION FairSpec
INVARIANTS
  DurableWhenQuiet
  Reservation
  CacheCoherent
PROPERTIES
  Atomicity
  SleeperWoken
