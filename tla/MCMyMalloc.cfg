SPECIFICATION MySpec
CONSTANTS
  HEAP = 12
  Asked = {1, 2, 3}
INVARIANT FreeIsUsable
CHECK_DEADLOCK FALSE
