\* set_sched(1) and transfers, or fork_winner(); three processes on the one CPU. At
\* MaxPass the machine stops.
CONSTANTS
  NPROC = 3
  CPU = {c0}
  Policies = {1}
  Winners = {}
  Amounts = {60}
  MaxTickets = 100
  MaxPass = 30
SPECIFICATION MCSpec
CHECK_DEADLOCK FALSE
INVARIANT NoZeroDivide
PROPERTIES
  MinPassFirst
  ChildFirst
