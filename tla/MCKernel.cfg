SPECIFICATION KernelSpec
CONSTANTS
  \* Proc: two CPUs, three slots, two forks (MaxPid).
  NPROC = 3
  CPU = {c0, c1}
  BootCpu = c0
  KillPid <- ChildPids
  MaxPid = 3
  MaxSleep = 1
  \* Buf: more blocks than buffers, so that buffers are recycled and run out.
  Procs = {p1, p2, p3}
  Blocks = {1, 2, 3}
  LogBlocks = {1}
  LastBlocks = {3}
  NBUF = 2
  MAXVAL = 1
  FAIL = {2}
SYMMETRY Alike
INVARIANTS
  OneCpuPerProc
  KStackSafe
  NoMissedExit
  ParentAlive
  PidUnique
  NoMissedTick
  OneCopy
  Fresh
  PinnedStays
  NoLostWakeup
  Counted
PROPERTIES
  RecycledOnlyByOwner
