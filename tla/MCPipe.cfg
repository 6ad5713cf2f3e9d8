\* Two writers, one reader, a ring of two bytes, counters modulo four.
CONSTANTS
  Reader = {r1}
  Writer = {w1, w2}
  FirstReader = r1
  FirstWriter = w1
  PIPESIZE = 2
  Wrap = 4
  Requests <- OneWrite
  Amounts = {1}
  Fill = 0
SPECIFICATION FairSpec
CHECK_DEADLOCK FALSE
INVARIANTS
  NoLostWakeup
  NoUseAfterFree
PROPERTIES
  IsByteStream
  CallReturns
