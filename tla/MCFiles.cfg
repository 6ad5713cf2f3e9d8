CONSTANTS
  Block = {1,2,3,4,5,6,7,8,9,10,11,12,13,14,15,16,17,18}
  Inum = {1,2,3,4,5,6,7,8,9,10,11,12,13,14}
  BSIZE = 4
  NDIRECT = 2
  Proc = {1,2,3,4}
  NINODE = 6
  NFILE = 4
  NOFILE = 3
  NPIPE = 1
  PIPESIZE = 2
  MAXCHUNK = 4
  NSLOT = 4
  NCACHE = 6
  BLOCK = 4
  BLOCKS = 6
  Programs <- Text
  Tests <- AllTests
  Image <- Image0
SPECIFICATION Spec
INVARIANTS TestsPass NothingHeld
PROPERTY Recoverable
