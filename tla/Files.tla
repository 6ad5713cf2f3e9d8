------------------------------- MODULE Files -------------------------------
(***************************************************************************)
(* Files as processes see them: the inode cache and path names of fs.c,    *)
(* the file table of file.c, the system calls of sysfile.c, and what       *)
(* fork(), exit() and wait() do to descriptors.                            *)
(*                                                                         *)
(* A process runs a program: a sequence of system calls, each with the set *)
(* of results its caller accepts (module UserTests).  A step is what a     *)
(* process does between taking an inode's sleep-lock and giving it back,   *)
(* or between two such sections.  Pipes are byte streams here; module Pipe *)
(* shows that they are.  Transactions are those of AtomicDisk: the disk    *)
(* becomes durable when the last operation ends.                           *)
(***************************************************************************)
EXTENDS Fs

CONSTANTS
  Proc,         \* process slots, 1..NPROC; 1 runs the program
  NINODE,       \* entries of the inode cache
  NFILE,        \* entries of the file table
  NOFILE,       \* descriptors of a process
  NPIPE,        \* pipes
  PIPESIZE,     \* bytes in a pipe
  MAXCHUNK,     \* cells filewrite() writes in one transaction
  Programs,     \* program text: a sequence of calls for each program name
  Tests,        \* names of the programs that process 1 may run
  Image         \* the disk mkfs made

ASSUME FilesAssumption ==
  /\ Proc \subseteq Nat \ {0} /\ IsFiniteSet(Proc) /\ 1 \in Proc
  /\ Inum \subseteq Nat \ {0}
  /\ NFILE \in Nat /\ NOFILE \in Nat

VARIABLES
  disk,         \* as seen through the buffer cache
  durable,      \* as a crash would leave it
  op,           \* processes inside a transaction
  ic,           \* inode cache: ref, valid and the holder of the lock, or 0
  ft,           \* file table
  pipes,        \* the bytes in each pipe and the ends that are open
  proc          \* processes: state, program, position, locals, descriptors

vars == <<disk, durable, op, ic, ft, pipes, proc>>

File == 1..NFILE
Fd == 0..(NOFILE - 1)
Dead == [st |-> "unused", parent |-> 0, killed |-> FALSE, prog |-> "",
         at |-> 1, ok |-> TRUE, pc |-> "user", then |-> "", next |-> "",
         fail |-> "", path |-> <<>>, par |-> FALSE, name |-> "", ip |-> 0,
         dp |-> 0, put |-> 0, todo |-> <<>>, cwd |-> 0,
         ofile |-> [d \in Fd |-> 0]]
NoFile == [ref |-> 0, type |-> "none", ip |-> 0, pipe |-> 0, off |-> 0,
           readable |-> FALSE, writable |-> FALSE]
NoPipe == [q |-> <<>>, ro |-> FALSE, wo |-> FALSE]

TypeOK ==
  /\ op \subseteq Proc
  /\ ic \in [Inum -> [ref : Nat, valid : BOOLEAN, lock : Proc \cup {0}]]
  /\ \A f \in File : ft[f].ref \in Nat /\ ft[f].ip \in Inum \cup {0}
                     /\ ft[f].pipe \in 0..NPIPE /\ ft[f].off \in Nat
  /\ \A k \in 1..NPIPE : Len(pipes[k].q) <= PIPESIZE
  /\ \A p \in Proc : /\ proc[p].st \in {"unused", "run", "zombie"}
                     /\ proc[p].ofile \in [Fd -> 0..NFILE]
                     /\ proc[p].cwd \in Inum \cup {0}
  /\ \A i \in Inum : disk.di[i].nlink \in Nat /\ disk.di[i].size \in 0..(MAXFILE * BSIZE)

\* The kernel has booted, and process 1 has closed its standard descriptors
\* and is about to run one of the programs in the root directory.
Init ==
  /\ disk = Image /\ durable = Image
  /\ op = {}
  /\ ic = [i \in Inum |-> [ref |-> IF i = ROOTINO THEN 1 ELSE 0,
                           valid |-> FALSE, lock |-> 0]]
  /\ ft = [f \in File |-> NoFile]
  /\ pipes = [k \in 1..NPIPE |-> NoPipe]
  /\ \E prog \in Tests :
       proc = [p \in Proc |-> IF p = 1
         THEN [Dead EXCEPT !.st = "run", !.prog = prog, !.cwd = ROOTINO]
         ELSE Dead]

-----------------------------------------------------------------------------
(* Bookkeeping.                                                            *)

Call(p) == Programs[proc[p].prog][proc[p].at]

\* p is in user mode and about to make a call of this kind.
Calls(p, o) ==
  /\ proc[p].st = "run" /\ proc[p].pc = "user" /\ ~proc[p].killed
  /\ Call(p).op = o

\* p stands at a label inside a call.
At_(p, label) == proc[p].st = "run" /\ proc[p].pc = label

Become(p, r) == proc' = [proc EXCEPT ![p] = r]

\* The call of r returns v: the caller checks the result and goes on.
Return(r, v) ==
  [r EXCEPT !.pc = "user", !.at = @ + 1,
            !.ok = @ /\ v \in Programs[r.prog][r.at].want,
            !.then = "", !.next = "", !.fail = "", !.path = <<>>,
            !.par = FALSE, !.name = "", !.ip = 0, !.dp = 0, !.put = 0,
            !.todo = <<>>]

\* r goes on with iput(i), and then at a label.
PutThen(r, i, label) == [r EXCEPT !.pc = "put", !.put = i, !.then = label]

\* begin_op() and end_op(): the last one out commits.
BeginOp(p) == op' = op \cup {p} /\ UNCHANGED durable
EndOp(p, d) ==
  /\ op' = op \ {p}
  /\ durable' = IF op \subseteq {p} THEN d ELSE durable

-----------------------------------------------------------------------------
(* The inode cache.                                                        *)

\* iget() and idup(): one more reference; a recycled entry is not valid.
Iget(c, i) == [c EXCEPT ![i].ref = @ + 1, ![i].valid = @ /\ c[i].ref > 0]

Unlocked(i) == ic[i].lock = 0

\* ilock(): read the inode if the entry is new.
Ilock(c, i, p) == [c EXCEPT ![i].lock = p, ![i].valid = TRUE]
Iunlock(c, i) == [c EXCEPT ![i].lock = 0]
Visit(c, i) == [c EXCEPT ![i].valid = TRUE]

\* ilock() panics on an inode that is not there.
Checked(d, i) == [d EXCEPT !.panic = @ \/ disk.di[i].type = "free"]

\* The inode has no name and no other reference.
LastPut(i) == ic[i].valid /\ disk.di[i].nlink = 0 /\ ic[i].ref = 1

\* iput(), under the sleep-lock: free an inode that nobody can reach.
Put(p) ==
  LET i == proc[p].put IN
  /\ At_(p, "put") /\ Unlocked(i)
  /\ disk' = IF LastPut(i) THEN [Itrunc(disk, i) EXCEPT !.di[i].type = "free"]
             ELSE disk
  /\ ic' = IF LastPut(i) THEN [ic EXCEPT ![i].valid = FALSE] ELSE ic
  /\ Become(p, [proc[p] EXCEPT !.pc = "drop"])
  /\ UNCHANGED <<durable, op, ft, pipes>>

\* iput(), after the sleep-lock: drop the reference.
Drop(p) ==
  /\ At_(p, "drop")
  /\ ic' = [ic EXCEPT ![proc[p].put].ref = @ - 1]
  /\ Become(p, [proc[p] EXCEPT !.pc = proc[p].then, !.put = 0, !.then = ""])
  /\ UNCHANGED <<disk, durable, op, ft, pipes>>

-----------------------------------------------------------------------------
(* Path names.                                                             *)

\* skipelem() cuts a name to DIRSIZ bytes.
Elem(name) == IF name = "fifteen" THEN "fourteen" ELSE name

IsAbsolute(path) == path # <<>> /\ Head(path) = "/"

\* namex() starts at the root or in the current directory.
Origin(p, path) == IF IsAbsolute(path) THEN ROOTINO ELSE proc[p].cwd
Lookup(r, p, path, par, next, fail) ==
  [r EXCEPT !.pc = "walk", !.ip = Origin(p, path), !.par = par,
            !.path = IF IsAbsolute(path) THEN Tail(path) ELSE path,
            !.next = next, !.fail = fail]

\* Mutant of WalkEnd: nameiparent("") keeps its reference.
WalkEndKeeps(p) ==
  LET r == proc[p] IN
  /\ At_(p, "walk") /\ r.path = <<>>
  /\ Become(p, [r EXCEPT !.pc = IF r.par THEN r.fail ELSE r.next])
  /\ UNCHANGED <<disk, durable, op, ic, ft, pipes>>

\* namex() with nothing left to look up.
WalkEnd(p) ==
  LET r == proc[p] IN
  /\ At_(p, "walk") /\ r.path = <<>>
  /\ Become(p, IF r.par THEN PutThen(r, r.ip, r.fail) ELSE [r EXCEPT !.pc = r.next])
  /\ UNCHANGED <<disk, durable, op, ic, ft, pipes>>

\* namex(), one element: lock the directory, look the name up, and let go.
Walk(p) ==
  LET r == proc[p]
      i == r.ip
      name == Elem(Head(r.path))
      isdir == disk.di[i].type = "dir"
      last == r.par /\ Len(r.path) = 1
      next == Dirlookup(disk, i, name)
  IN
  /\ At_(p, "walk") /\ r.path # <<>> /\ Unlocked(i)
  /\ disk' = Checked(disk, i)
  /\ \/ /\ isdir /\ last
        /\ ic' = Visit(ic, i)
        /\ Become(p, [r EXCEPT !.pc = r.next, !.path = <<>>, !.name = name])
     \/ /\ ~isdir \/ (~last /\ next = 0)
        /\ ic' = Visit(ic, i)
        /\ Become(p, PutThen(r, i, r.fail))
     \/ /\ isdir /\ ~last /\ next # 0
        /\ ic' = Iget(Visit(ic, i), next)
        /\ Become(p, [PutThen(r, i, "walk") EXCEPT !.ip = next,
                                                   !.path = Tail(@)])
  /\ UNCHANGED <<durable, op, ft, pipes>>

Creates(c) == c.op \in {"mkdir", "mknod"} \/ (c.op = "open" /\ "CREATE" \in c.mode)

\* A call that starts with a path: begin_op(), then namei() or nameiparent().
Enter(p) ==
  LET c == Call(p) IN
  /\ \E o \in {"open", "mkdir", "mknod", "unlink", "link", "chdir", "exec"} :
       Calls(p, o)
  /\ BeginOp(p)
  /\ ic' = Iget(ic, Origin(p, c.path))
  /\ Become(p, Lookup(proc[p], p, c.path, Creates(c) \/ c.op = "unlink",
                      IF Creates(c) THEN "create" ELSE c.op, "fail"))
  /\ UNCHANGED <<disk, ft, pipes>>

\* The end of a call that failed, or that returns 0.
Finish(p) ==
  /\ At_(p, "fail") \/ At_(p, "done")
  /\ EndOp(p, disk)
  /\ Become(p, Return(proc[p], IF proc[p].pc = "fail" THEN -1 ELSE 0))
  /\ UNCHANGED <<disk, ic, ft, pipes>>

-----------------------------------------------------------------------------
(* open, mkdir, mknod.                                                     *)

NewType(c) == CASE c.op = "open"  -> "file"
                [] c.op = "mkdir" -> "dir"
                [] c.op = "mknod" -> "dev"

\* create() of a name that is not in directory dp: inode i, its dots, and
\* the entry.
Made(d, dp, name, type) ==
  LET i == NextInum(d)
      n == [Ialloc(d, type) EXCEPT !.di[i].nlink = 1]
      dots == Dirlink(Dirlink([n EXCEPT !.di[dp].nlink = @ + 1], i, ".", i),
                      i, "..", dp)
  IN IF i = 0 THEN Ialloc(d, type)
     ELSE Dirlink(IF type = "dir" THEN dots ELSE n, dp, name, i)

\* create(), with the directory locked; a new inode stays locked.
Create(p) ==
  LET r == proc[p]
      dp == r.ip
      e == Dirlookup(disk, dp, r.name)
      i == NextInum(disk)
  IN
  /\ At_(p, "create") /\ Unlocked(dp)
  /\ \/ /\ e # 0
        /\ disk' = Checked(disk, dp)
        /\ ic' = Iget(Visit(ic, dp), e)
        /\ Become(p, [PutThen(r, dp, "exists") EXCEPT !.ip = e])
     \/ /\ e = 0
        /\ disk' = Checked(Made(disk, dp, r.name, NewType(Call(p))), dp)
        /\ ic' = IF i = 0 THEN ic ELSE Ilock(Iget(Visit(ic, dp), i), i, p)
        /\ Become(p, [PutThen(r, dp, "made") EXCEPT !.ip = i])
  /\ UNCHANGED <<durable, op, ft, pipes>>

\* The inode that p holds at the end of open(), create() included.
Opening(p) ==
  \/ At_(p, "open") /\ Unlocked(proc[p].ip)
  \/ At_(p, "exists") /\ Unlocked(proc[p].ip)
  \/ At_(p, "made")

\* create() found another type, or open() may not write a directory.
Refused(p) ==
  LET type == disk.di[proc[p].ip].type IN
  IF proc[p].pc = "open" THEN type = "dir" /\ Call(p).mode # {}
  ELSE proc[p].pc = "exists" /\ (Call(p).op # "open" \/ type # "file")

\* filealloc() and fdalloc(): the lowest free ones.
FreeFiles == {f \in File : ft[f].ref = 0}
FreeFds(p) == {d \in Fd : proc[p].ofile[d] = 0}

\* The rest of sys_open(): a file and a descriptor, or put the inode back.
OpenFile(p) ==
  LET r == proc[p]
      i == r.ip
      mode == Call(p).mode
      f == Lowest(FreeFiles)
      fd == Lowest(FreeFds(p))
  IN
  /\ Opening(p)
  /\ disk' = Checked(disk, i)
  /\ ic' = Iunlock(Visit(ic, i), i)
  /\ \/ /\ Refused(p) \/ (Call(p).op = "open" /\ (FreeFiles = {} \/ FreeFds(p) = {}))
        /\ Become(p, PutThen(r, i, "fail"))
        /\ UNCHANGED <<durable, op, ft>>
     \/ /\ ~Refused(p) /\ Call(p).op = "open" /\ FreeFiles # {} /\ FreeFds(p) # {}
        /\ ft' = [ft EXCEPT ![f] =
                    [ref |-> 1, type |-> "inode", ip |-> i, pipe |-> 0, off |-> 0,
                     readable |-> "WRONLY" \notin mode,
                     writable |-> "WRONLY" \in mode \/ "RDWR" \in mode]]
        /\ EndOp(p, disk)
        /\ Become(p, [Return(r, fd) EXCEPT !.ofile[fd] = f])
     \/ /\ ~Refused(p) /\ Call(p).op # "open"
        /\ Become(p, PutThen(r, i, "done"))
        /\ UNCHANGED <<durable, op, ft>>
  /\ UNCHANGED pipes

-----------------------------------------------------------------------------
(* link, unlink, chdir, exec.                                              *)

\* sys_link(), first part: count the link before there is one.
Link(p) ==
  LET r == proc[p]
      i == r.ip
      new == Call(p).new
  IN
  /\ At_(p, "link") /\ Unlocked(i)
  /\ \/ /\ disk.di[i].type = "dir"
        /\ disk' = Checked(disk, i)
        /\ ic' = Visit(ic, i)
        /\ Become(p, PutThen(r, i, "fail"))
     \/ /\ disk.di[i].type # "dir"
        /\ disk' = [Checked(disk, i) EXCEPT !.di[i].nlink = @ + 1]
        /\ ic' = Iget(Visit(ic, i), Origin(p, new))
        /\ Become(p, Lookup([r EXCEPT !.dp = i], p, new, TRUE, "link2", "linkbad"))
  /\ UNCHANGED <<durable, op, ft, pipes>>

\* Second part: the entry.  dirlink() puts a name it finds back while the
\* directory is locked.
Link2(p) ==
  LET r == proc[p]
      dp == r.ip
      e == Dirlookup(disk, dp, r.name)
  IN
  /\ At_(p, "link2") /\ Unlocked(dp)
  /\ \/ /\ e # 0
        /\ disk' = Checked(disk, dp)
        /\ ic' = Iget(Ilock(ic, dp, p), e)
        /\ Become(p, PutThen(r, e, "linkexists"))
     \/ /\ e = 0
        /\ disk' = Checked(Dirlink(disk, dp, r.name, r.dp), dp)
        /\ ic' = Visit(ic, dp)
        /\ Become(p, PutThen(r, dp, "linked"))
  /\ UNCHANGED <<durable, op, ft, pipes>>

\* The rest of sys_link(): let go of the directory, and of the inode.
LinkExists(p) ==
  /\ At_(p, "linkexists")
  /\ ic' = Iunlock(ic, proc[p].ip)
  /\ Become(p, PutThen(proc[p], proc[p].ip, "linkbad"))
  /\ UNCHANGED <<disk, durable, op, ft, pipes>>

Linked(p) ==
  /\ At_(p, "linked")
  /\ Become(p, PutThen(proc[p], proc[p].dp, "done"))
  /\ UNCHANGED <<disk, durable, op, ic, ft, pipes>>

LinkBad(p) ==
  LET i == proc[p].dp IN
  /\ At_(p, "linkbad") /\ Unlocked(i)
  /\ disk' = [disk EXCEPT !.di[i].nlink = @ - 1]
  /\ ic' = Visit(ic, i)
  /\ Become(p, PutThen(proc[p], i, "fail"))
  /\ UNCHANGED <<durable, op, ft, pipes>>

\* sys_unlink(): look the name up and keep the directory locked.
Unlink(p) ==
  LET r == proc[p]
      dp == r.ip
      e == IF r.name \in Dots THEN 0 ELSE Dirlookup(disk, dp, r.name)
  IN
  /\ At_(p, "unlink") /\ Unlocked(dp)
  /\ disk' = Checked(disk, dp)
  /\ \/ /\ e = 0
        /\ ic' = Visit(ic, dp)
        /\ Become(p, PutThen(r, dp, "fail"))
     \/ /\ e # 0
        /\ ic' = Iget(Ilock(ic, dp, p), e)
        /\ Become(p, [r EXCEPT !.pc = "unlink2", !.dp = dp, !.ip = e])
  /\ UNCHANGED <<durable, op, ft, pipes>>

\* With both locked: clear the entry, unless a directory is not empty.
Unlink2(p) ==
  LET r == proc[p]
      i == r.ip
      isdir == disk.di[i].type = "dir"
      d == Dirunlink(disk, r.dp, r.name)
  IN
  /\ At_(p, "unlink2") /\ Unlocked(i)
  /\ \/ /\ isdir /\ ~Isdirempty(disk, i)
        /\ disk' = disk
        /\ ic' = Visit(ic, i)
        /\ Become(p, PutThen(r, i, "unlinkbad"))
     \/ /\ ~(isdir /\ ~Isdirempty(disk, i))
        /\ disk' = [Checked(IF isdir THEN [d EXCEPT !.di[r.dp].nlink = @ - 1] ELSE d, i)
                     EXCEPT !.panic = @ \/ disk.di[i].nlink < 1]
        /\ ic' = Iunlock(Ilock(ic, i, p), r.dp)
        /\ Become(p, PutThen(r, r.dp, "unlink3"))
  /\ UNCHANGED <<durable, op, ft, pipes>>

UnlinkBad(p) ==
  /\ At_(p, "unlinkbad")
  /\ ic' = Iunlock(ic, proc[p].dp)
  /\ Become(p, PutThen(proc[p], proc[p].dp, "fail"))
  /\ UNCHANGED <<disk, durable, op, ft, pipes>>

\* The name is gone: so is the link.
Unlink3(p) ==
  LET i == proc[p].ip IN
  /\ At_(p, "unlink3")
  /\ disk' = [disk EXCEPT !.di[i].nlink = @ - 1]
  /\ ic' = Iunlock(ic, i)
  /\ Become(p, PutThen(proc[p], i, "done"))
  /\ UNCHANGED <<durable, op, ft, pipes>>

\* sys_chdir()
Chdir(p) ==
  LET r == proc[p]
      i == r.ip
      isdir == disk.di[i].type = "dir"
  IN
  /\ At_(p, "chdir") /\ Unlocked(i)
  /\ disk' = Checked(disk, i)
  /\ ic' = Visit(ic, i)
  /\ Become(p, IF isdir THEN PutThen(r, r.cwd, "chdired") ELSE PutThen(r, i, "fail"))
  /\ UNCHANGED <<durable, op, ft, pipes>>

Chdired(p) ==
  /\ At_(p, "chdired")
  /\ EndOp(p, disk)
  /\ Become(p, [Return(proc[p], 0) EXCEPT !.cwd = proc[p].ip])
  /\ UNCHANGED <<disk, ic, ft, pipes>>

\* exec(): read the file while it is locked; what is not a program fails.
Exec(p) ==
  LET i == proc[p].ip IN
  /\ At_(p, "exec") /\ Unlocked(i)
  /\ disk' = Checked(disk, i)
  /\ ic' = Visit(ic, i)
  /\ Become(p, PutThen(proc[p], i,
               IF Readi(disk, i, 0, 1) = <<<<"elf", 0>>>> THEN "exec2" ELSE "fail"))
  /\ UNCHANGED <<durable, op, ft, pipes>>

\* After end_op(): arguments that do not fit fail, others run the program.
Exec2(p) ==
  LET r == proc[p] IN
  /\ At_(p, "exec2")
  /\ EndOp(p, disk)
  /\ Become(p, IF Call(p).big THEN Return(r, -1)
               ELSE [Return(r, 0) EXCEPT !.prog = Call(p).image, !.at = 1])
  /\ UNCHANGED <<disk, ic, ft, pipes>>

-----------------------------------------------------------------------------
(* Descriptors: read, write, close, dup, fstat, pipe.                      *)

Valid(p, fd) == fd \in Fd /\ proc[p].ofile[fd] # 0
FileOf(p) == proc[p].ofile[Call(p).fd]

\* argfd() fails, or the file has no such access.
BadFd(p) ==
  /\ \E o \in {"read", "write", "close", "dup", "fstat"} : Calls(p, o)
  /\ \/ ~Valid(p, Call(p).fd)
     \/ Call(p).op = "read" /\ ~ft[FileOf(p)].readable
     \/ Call(p).op = "write" /\ ~ft[FileOf(p)].writable
     \/ Call(p).op = "fstat" /\ ft[FileOf(p)].type = "pipe"
     \/ Call(p).op = "dup" /\ FreeFds(p) = {}
  /\ Become(p, Return(proc[p], -1))
  /\ UNCHANGED <<disk, durable, op, ic, ft, pipes>>

Uses(p, o, type) ==
  /\ Calls(p, o) /\ Valid(p, Call(p).fd)
  /\ ft[FileOf(p)].type = type

\* What the caller checks of the bytes or entries it has read.
Accepts(c, cells) ==
  /\ c.see # {} => [k \in 1..Len(cells) |-> cells[k][1]] \in c.see
  /\ \A name \in c.once :
       Cardinality({k \in 1..Len(cells) : cells[k][1] = name /\ cells[k][2] # 0}) = 1

\* The caller of read() gets these cells; it may go on reading to the end.
ReturnCells(p, cells) ==
  LET got == proc[p].todo \o cells
      r == Return(proc[p], Len(got))
  IN IF Call(p).all /\ cells # <<>> THEN [proc[p] EXCEPT !.todo = got]
     ELSE [r EXCEPT !.ok = @ /\ Accepts(Call(p), got)]

\* fileread() of an inode: read at the shared offset, and move it.
Read(p) ==
  LET f == FileOf(p)
      i == ft[f].ip
      cells == Readi(disk, i, ft[f].off, Call(p).n)
  IN
  /\ Uses(p, "read", "inode") /\ ft[f].readable /\ Unlocked(i)
  /\ disk.di[i].type # "dev"
  /\ ft' = [ft EXCEPT ![f].off = @ + Len(cells)]
  /\ ic' = Visit(ic, i)
  /\ Become(p, ReturnCells(p, cells))
  /\ UNCHANGED <<disk, durable, op, pipes>>

\* filestat()
Fstat(p) ==
  LET i == ft[FileOf(p)].ip
      n == disk.di[i]
      r == Return(proc[p], 0)
  IN
  /\ Uses(p, "fstat", "inode") /\ Unlocked(i)
  /\ ic' = Visit(ic, i)
  /\ Become(p, [r EXCEPT !.ok = @ /\ <<n.type, n.nlink>> \in Call(p).see])
  /\ UNCHANGED <<disk, durable, op, ft, pipes>>

\* The cells that the next turn of a write loop takes.
Rest(p) == IF proc[p].pc = "user" THEN Call(p).cells ELSE proc[p].todo
Chunk(p, n) == Take(Rest(p), 0, n)
After(p, n) == SubSeq(Rest(p), n + 1, Len(Rest(p)))

Writes(p, type) ==
  /\ Uses(p, "write", type) \/ (At_(p, "write") /\ ft[FileOf(p)].type = type)
  /\ ft[FileOf(p)].writable

\* Mutant of Write: the offset is read when the loop begins, and put back
\* when it ends.
WriteStale(p) ==
  LET f == FileOf(p)
      i == ft[f].ip
      cells == Call(p).cells
      d == Writei(disk, i, ft[f].off, cells)
  IN
  /\ Writes(p, "inode") /\ Unlocked(i)
  /\ disk' = d
  /\ ic' = Visit(ic, i)
  /\ EndOp(p, d)
  /\ Become(p, Return(proc[p], Len(cells)))
  /\ UNCHANGED <<ft, pipes>>

\* filewrite(): one transaction for each chunk.  The console takes everything.
Write(p) ==
  LET f == FileOf(p)
      i == ft[f].ip
      dev == disk.di[i].type = "dev"
      n == IF Len(Rest(p)) > MAXCHUNK THEN MAXCHUNK ELSE Len(Rest(p))
      fits == dev \/ Writable(disk, i, ft[f].off, n)
      d == IF fits /\ ~dev THEN Writei(disk, i, ft[f].off, Chunk(p, n)) ELSE disk
  IN
  /\ Writes(p, "inode") /\ Unlocked(i)
  /\ disk' = d
  /\ ic' = Visit(ic, i)
  /\ EndOp(p, d)
  /\ ft' = IF fits THEN [ft EXCEPT ![f].off = @ + n] ELSE ft
  /\ Become(p, IF ~fits THEN Return(proc[p], -1)
               ELSE IF After(p, n) = <<>> THEN Return(proc[p], Len(Call(p).cells))
               ELSE [proc[p] EXCEPT !.pc = "write", !.todo = After(p, n)])
  /\ UNCHANGED pipes

\* pipewrite(): as much as there is room for; nobody to read it is an error.
PipeWrite(p) ==
  LET k == ft[FileOf(p)].pipe
      room == PIPESIZE - Len(pipes[k].q)
      n == IF Len(Rest(p)) > room THEN room ELSE Len(Rest(p))
  IN
  /\ Writes(p, "pipe")
  /\ \/ /\ room > 0
        /\ pipes' = [pipes EXCEPT ![k].q = @ \o Chunk(p, n)]
        /\ Become(p, IF After(p, n) = <<>> THEN Return(proc[p], Len(Call(p).cells))
                     ELSE [proc[p] EXCEPT !.pc = "write", !.todo = After(p, n)])
     \/ /\ room = 0 /\ (~pipes[k].ro \/ proc[p].killed)
        /\ pipes' = pipes
        /\ Become(p, Return(proc[p], -1))
  /\ UNCHANGED <<disk, durable, op, ic, ft>>

\* piperead(): what is there, 0 at the end of the stream.
PipeRead(p) ==
  LET k == ft[FileOf(p)].pipe
      cells == Take(pipes[k].q, 0, Call(p).n)
  IN
  /\ Uses(p, "read", "pipe") /\ ft[FileOf(p)].readable
  /\ pipes[k].q # <<>> \/ ~pipes[k].wo
  /\ pipes' = [pipes EXCEPT ![k].q = SubSeq(@, Len(cells) + 1, Len(@))]
  /\ Become(p, ReturnCells(p, cells))
  /\ UNCHANGED <<disk, durable, op, ic, ft>>

\* sys_dup()
Dup(p) ==
  LET fd == Lowest(FreeFds(p)) IN
  /\ Calls(p, "dup") /\ Valid(p, Call(p).fd) /\ FreeFds(p) # {}
  /\ ft' = [ft EXCEPT ![FileOf(p)].ref = @ + 1]
  /\ Become(p, [Return(proc[p], fd) EXCEPT !.ofile[fd] = FileOf(p)])
  /\ UNCHANGED <<disk, durable, op, ic, pipes>>

\* sys_pipe(): two files and two descriptors, or nothing.
PipeCall(p) ==
  LET k == Lowest({x \in 1..NPIPE : ~pipes[x].ro /\ ~pipes[x].wo})
      f == Lowest(FreeFiles)
      g == Lowest(FreeFiles \ {f})
      fd0 == Lowest(FreeFds(p))
      fd1 == Lowest(FreeFds(p) \ {fd0})
      enough == /\ \E x \in 1..NPIPE : ~pipes[x].ro /\ ~pipes[x].wo
                /\ Cardinality(FreeFiles) >= 2 /\ Cardinality(FreeFds(p)) >= 2
      end == [NoFile EXCEPT !.ref = 1, !.type = "pipe"]
  IN
  /\ Calls(p, "pipe")
  /\ \/ /\ enough
        /\ pipes' = [pipes EXCEPT ![k] = [q |-> <<>>, ro |-> TRUE, wo |-> TRUE]]
        /\ ft' = [ft EXCEPT ![f] = [end EXCEPT !.pipe = k, !.readable = TRUE],
                            ![g] = [end EXCEPT !.pipe = k, !.writable = TRUE]]
        /\ Become(p, [Return(proc[p], 0) EXCEPT !.ofile[fd0] = f, !.ofile[fd1] = g])
     \/ /\ ~enough
        /\ Become(p, Return(proc[p], -1))
        /\ UNCHANGED <<ft, pipes>>
  /\ UNCHANGED <<disk, durable, op, ic>>

\* fileclose() of descriptor fd: r goes on at once, or, when this was the
\* last reference to an inode's file, after iput() in a transaction.
CloseFile(p, fd, r, after) ==
  LET f == proc[p].ofile[fd]
      k == ft[f].pipe
      last == ft[f].ref = 1
      closed == [r EXCEPT !.ofile[fd] = 0]
  IN
  /\ ft' = [ft EXCEPT ![f] = IF last THEN NoFile ELSE [ft[f] EXCEPT !.ref = @ - 1]]
  /\ pipes' = IF last /\ ft[f].type = "pipe"
                THEN [pipes EXCEPT ![k].wo = @ /\ ~ft[f].writable,
                                   ![k].ro = @ /\ ft[f].writable]
                ELSE pipes
  /\ IF last /\ ft[f].type = "inode"
       THEN /\ BeginOp(p)
            /\ Become(p, PutThen([proc[p] EXCEPT !.ofile[fd] = 0], ft[f].ip, after))
       ELSE /\ Become(p, closed)
            /\ UNCHANGED <<durable, op>>
  /\ UNCHANGED <<disk, ic>>

Close(p) ==
  /\ Calls(p, "close") /\ Valid(p, Call(p).fd)
  /\ CloseFile(p, Call(p).fd, Return(proc[p], 0), "done")

-----------------------------------------------------------------------------
(* Processes.                                                              *)

Free == {q \in Proc : proc[q].st = "unused"}
Kids(p) == {q \in Proc : proc[q].st # "unused" /\ proc[q].parent = p}

\* fork(): the child shares the files and the current directory.
Fork(p) ==
  LET q == Lowest(Free)
      r == proc[p]
      shared(f) == Cardinality({d \in Fd : r.ofile[d] = f})
  IN
  /\ Calls(p, "fork")
  /\ \/ /\ Free # {}
        /\ ft' = [f \in File |-> [ft[f] EXCEPT !.ref = @ + shared(f)]]
        /\ ic' = Iget(ic, r.cwd)
        /\ proc' = [proc EXCEPT
             ![q] = [Dead EXCEPT !.st = "run", !.parent = p, !.prog = Call(p).child,
                                 !.cwd = r.cwd, !.ofile = r.ofile],
             ![p] = Return(r, q)]
     \/ /\ Free = {}
        /\ Become(p, Return(r, -1))
        /\ UNCHANGED <<ft, ic>>
  /\ UNCHANGED <<disk, durable, op, pipes>>

\* exit() is called, or a killed process leaves the kernel.
Exit(p) ==
  /\ Calls(p, "exit") \/ (At_(p, "user") /\ proc[p].killed)
  /\ Become(p, [proc[p] EXCEPT !.pc = "exit"])
  /\ UNCHANGED <<disk, durable, op, ic, ft, pipes>>

\* exit() closes the files one by one, then puts the current directory.
ExitFiles(p) ==
  LET open == {d \in Fd : proc[p].ofile[d] # 0} IN
  /\ At_(p, "exit") /\ open # {}
  /\ CloseFile(p, Lowest(open), proc[p], "exitclosed")

ExitClosed(p) ==
  /\ At_(p, "exitclosed")
  /\ EndOp(p, disk)
  /\ Become(p, [proc[p] EXCEPT !.pc = "exit"])
  /\ UNCHANGED <<disk, ic, ft, pipes>>

ExitCwd(p) ==
  /\ At_(p, "exit") /\ \A d \in Fd : proc[p].ofile[d] = 0
  /\ BeginOp(p)
  /\ Become(p, PutThen(proc[p], proc[p].cwd, "exitcwd"))
  /\ UNCHANGED <<disk, ic, ft, pipes>>

\* The rest of exit(): init inherits the children; a zombie.
Zombie(p) ==
  /\ At_(p, "exitcwd")
  /\ EndOp(p, disk)
  /\ proc' = [q \in Proc |->
       IF q = p THEN [Dead EXCEPT !.st = "zombie", !.parent = proc[p].parent,
                                  !.ok = proc[p].ok]
       ELSE IF q \in Kids(p) THEN [proc[q] EXCEPT !.parent = 0] ELSE proc[q]]
  /\ UNCHANGED <<disk, ic, ft, pipes>>

\* wait()
Wait(p) ==
  /\ Calls(p, "wait")
  /\ \/ /\ Kids(p) = {}
        /\ Become(p, Return(proc[p], -1))
     \/ \E q \in Kids(p) :
          /\ proc[q].st = "zombie"
          /\ proc' = [proc EXCEPT ![q] = Dead, ![p] = Return(proc[p], q)]
  /\ UNCHANGED <<disk, durable, op, ic, ft, pipes>>

\* init waits for the processes it has inherited, and for the program.
Reap ==
  /\ \E q \in Kids(0) :
       /\ proc[q].st = "zombie"
       /\ proc' = [proc EXCEPT ![q] = Dead]
  /\ UNCHANGED <<disk, durable, op, ic, ft, pipes>>

\* kill()
Kill(p) ==
  LET q == Call(p).pid IN
  /\ Calls(p, "kill")
  /\ proc' = [proc EXCEPT ![p] = Return(proc[p], IF q \in Free THEN -1 ELSE 0),
                          ![q].killed = q \notin Free]
  /\ UNCHANGED <<disk, durable, op, ic, ft, pipes>>

\* A program goes on somewhere else; sleep() goes on some time later.
Goto(p) ==
  /\ Calls(p, "goto")
  /\ \E at \in Call(p).to : Become(p, [proc[p] EXCEPT !.at = at])
  /\ UNCHANGED <<disk, durable, op, ic, ft, pipes>>

\* All programs have ended.
AllDone == \A p \in Proc : proc[p].st = "unused"
Finished == AllDone /\ UNCHANGED vars

-----------------------------------------------------------------------------
FsStep(p) ==
  \/ Put(p) \/ Drop(p) \/ WalkEnd(p) \/ Walk(p) \/ Enter(p) \/ Finish(p)
  \/ Create(p) \/ OpenFile(p)
  \/ Link(p) \/ Link2(p) \/ LinkExists(p) \/ Linked(p) \/ LinkBad(p)
  \/ Unlink(p) \/ Unlink2(p) \/ UnlinkBad(p) \/ Unlink3(p)
  \/ Chdir(p) \/ Chdired(p) \/ Exec(p) \/ Exec2(p)
FileStep(p) ==
  \/ BadFd(p) \/ Read(p) \/ Fstat(p) \/ Write(p) \/ PipeWrite(p) \/ PipeRead(p)
  \/ Dup(p) \/ PipeCall(p) \/ Close(p)
ProcStep(p) ==
  \/ Fork(p) \/ Exit(p) \/ ExitFiles(p) \/ ExitClosed(p) \/ ExitCwd(p)
  \/ Zombie(p) \/ Wait(p) \/ Kill(p) \/ Goto(p)

Step(p) == FsStep(p) \/ FileStep(p) \/ ProcStep(p)
Next == (\E p \in Proc : Step(p)) \/ Reap \/ Finished

Spec == Init /\ [][Next]_vars

-----------------------------------------------------------------------------
(* Properties.                                                             *)

\* No test program sees a result that it does not accept: usertests.c passes
\* on every interleaving of its processes.  And no call reaches a panic() of
\* fs.c: no free block or inode is missing, no free inode is locked, and the
\* inode cache is large enough (iget()).
TestsPass ==
  /\ \A p \in Proc : proc[p].ok
  /\ ~disk.panic
  /\ Cardinality({i \in Inum : ic[i].ref > 0}) <= NINODE

\* Whenever the machine stops, the disk that recovery finds is consistent, as
\* every commit (end_op()) leaves it so: link counts are the number of names,
\* every entry names an inode, and every block in use belongs to one inode.
Recoverable == [][Consistent(durable')]_durable

\* Between calls nothing is held: the references to an inode are the open
\* files and current directories, no inode is locked, and a file has as many
\* references as descriptors.
NothingHeld ==
  (\A p \in Proc : proc[p].st = "run" => proc[p].pc = "user") =>
    /\ op = {}
    /\ \A i \in Inum :
         /\ ic[i].lock = 0
         /\ ic[i].ref = Cardinality({f \in File : ft[f].type = "inode" /\ ft[f].ip = i})
                        + Cardinality({p \in Proc : proc[p].cwd = i})
    /\ \A f \in File :
         ft[f].ref = Cardinality({pd \in Proc \X Fd : proc[pd[1]].ofile[pd[2]] = f})

\* The inode whose lock p needs for its next step, 0 if none.
Wants(p) ==
  CASE proc[p].st # "run" -> 0
    [] proc[p].pc = "put" -> proc[p].put
    [] proc[p].pc = "linkbad" -> proc[p].dp
    [] proc[p].pc \in {"walk", "create", "open", "exists", "link", "link2",
                      "unlink", "unlink2", "chdir", "exec"} -> proc[p].ip
    [] OTHER -> 0

\* linkunlink() of usertests.c looks for deadlocks: no two processes wait for
\* each other's inode.
NoLockCycle ==
  \A p, q \in Proc : ~ /\ Wants(p) # 0 /\ ic[Wants(p)].lock = q
                       /\ Wants(q) # 0 /\ ic[Wants(q)].lock = p

\* iput() as its comment has it: an inode without links and references is
\* free.
Freed == \A i \in Inum : ic[i].ref = 0 /\ disk.di[i].nlink = 0 => disk.di[i].type = "free"
=============================================================================
