SPECIFICATION PartsSpec
CONSTANTS
  \* Vm: seven pages are free at first, and fork and exec run out of them half
  \* way.
  NPAGE = 12
  NPROC = 2
  NPT = 2
  KTABS = 1
  KERNBASE = 12
  Amounts = {1, 3}
  Shrink = {1, 2}
  Images = {1, 4, 9}
  \* Console: indexes that wrap around after two turns of the ring.
  INPUT_BUF = 2
  UINT = 4
  Letters = {"a"}
  Users = {1, 2}
  MAXREAD = 2
  Keys = {"lshift", "lctl", "rctl", "caps", "d", "up"}
  WIRE = 2
  \* Screen: two rows more are put out than fit.
  COLS = 2
  ROWS = 4
  Glyphs = {"x", "y"}
  MAXOUT = 8
  \* Names shorter and longer than a directory entry has room for.
  DIRSIZ = 2
  NameChars = {"a", "b"}
  MAXPATH = 6
  \* Args: half of the addresses may be the process's, and ints have two bytes.
  WORD = 16
  MAXSZ = 8
  INT = 2
  \* Umalloc and MyMalloc.
  CHUNK = 4
  LIMIT = 9
  Requests = {2, 3, 5}
  HEAP = 12
  Asked = {1, 2, 3}
INVARIANTS
  PagesRight
  Terminal
  NamesAndArguments
  UmHeap
  ComesBack
  Filters
  CommandLine
  Shells
PROPERTY ConsoleLineByLine
