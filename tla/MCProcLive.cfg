\* The machine with two CPUs; MCProcLive has the bounds of the other one.
CONSTANTS
  NPROC = 3
  CPU = {c0, c1}
  BootCpu = c0
  KillPid = {2}
  MaxPid = 2
  MaxSleep = 1
SPECIFICATION LiveSpec
PROPERTIES
  KilledDies
  RunnableRuns
  SleepReturns
  WaitReturns
