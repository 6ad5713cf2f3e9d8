# A TLA+ verification of the CS350 operating-systems projects

The repository holds four course projects.  Projects 1 and 2 are copies of the
xv6 kernel: project 1 adds a halt in the idle loop and shutdown calls, project 2
adds a stride scheduler with tickets.  Apart from `proc.c`, `proc.h`,
`sysproc.c` and the system call tables their kernels are byte-identical.
Project 3 is a Unix shell, project 4 a first-fit memory allocator.  This
directory models the kernel's subsystems, the user programs that exercise them,
both shells and both allocators, checks them with TLC on small instances, and
proves with TLAPS, for every value of the constants, the safety properties of the
process table, the stride scheduler, the log, the pipes, virtual memory, the buffer
cache with the disk driver, the counts and locks of inodes and open files, the console
with its keyboard and screen, file names in directories, the fetching of system call
arguments, and the C library's allocator.

## 1. Inventory

Paths are relative to the project directory (`src/cs350-21f-projN-psammon-main`).

| Component | State | Operations | Interacts with | What is hard | What makes it correct |
|---|---|---|---|---|---|
| Process table, round robin (P1 `proc.c`, `sysproc.c`) | `ptable.proc[]` (state, pid, parent, chan, killed, kstack), `nextpid`, `ptable.lock`, `cpus[].proc` | fork, exit, wait, kill, sleep, wakeup, yield, sched, scheduler, sys_sleep | traps (timer, killed checks), every driver through sleep/wakeup | several CPUs, a lock carried across `swtch`, lost wakeups, freeing the stack one runs on | one CPU per process, no stack freed in use, no missed exit or tick, nobody orphaned, nobody starved |
| Traps (`trap.c`, `syscall.c`) | `ticks`, `tickslock`, interrupt flag | timer interrupt, system call entry and exit, faults | process table | interrupts while spinning, the order of killed checks | a killed process dies at the user boundary |
| Stride scheduler (P2 `proc.c`, `sysproc.c`) | `tickets`, `pass`, `str`, `winner` | updateTickets, getminproc, set_sched, fork_winner, tickets_owned, transfer_tickets | process table | system calls that touch tickets without a lock | never divides by zero, least pass first, child first |
| Log (`log.c`) | `log.lh`, `outstanding`, `committing`; header and log blocks on disk | begin_op, log_write, end_op, commit, recovery | buffer cache, all file system calls | crash at any block write, group commit, log space | updates of a group are atomic across crashes, no overflow, sleepers woken |
| Buffer cache (`bio.c`) | LRU list of buffers, reference counts, `B_VALID`/`B_DIRTY` | bget, bread, bwrite, brelse | log, IDE driver | eviction against the log's pinning, one buffer held while another is asked for, no free buffer | one buffer per block, dirty buffers stay, no two processes wait for each other |
| IDE driver (`ide.c`) | `idequeue` | iderw, idestart, ideintr | buffer cache, sleep/wakeup | the interrupt races the sleeper | every request is served once, in order |
| Locks (`spinlock.c`, `sleeplock.c`) | locked, cpu, ncli; locked, pid | acquire, release, pushcli, popcli; acquiresleep, releasesleep | everything | interrupts while spinning | mutual exclusion |
| Inodes, directories (`fs.c`) | `icache` (ref, valid, nlink), on-disk inodes, bitmap | iget, ilock, iput, itrunc, dirlink, namex | log | the last iput against a concurrent iget, deadlock in path walks | no inode or block leaked or freed twice |
| Files (`file.c`, `sysfile.c`) | `ftable`, descriptors | filedup, fileclose, open, link, unlink, ... | inodes, pipes | reference counts across fork and close | freed at the last close |
| Pipes (`pipe.c`) | ring, `nread`, `nwrite`, open flags | pipewrite, piperead, pipeclose | sleep/wakeup | wrap-around counters, close against a sleeper | FIFO, nothing lost or invented |
| Console (`console.c`, `kbd.c`, `uart.c`) | input ring (r, w, e), screen, cursor | consoleintr, consoleread, consputc | sleep/wakeup | line editing at the ring's limits | no uncommitted character read |
| Memory (`vm.c`, `kalloc.c`, `exec.c`) | page tables, free list, `sz` | allocuvm, deallocuvm, copyuvm, exec, growproc | fork, exit | failure half way | every page has one owner |
| User library (`umalloc.c`, `ulib.c`, `printf.c`) | K&R free list | malloc, free | sbrk | list surgery | no overlap |
| Boot, interrupt controllers | hardware | fixed sequence | - | - | - |
| xv6 shell (`sh.c`) | a process per command, descriptors 0 and 1 | main, runcmd, parsecmd | fork, exec, wait, pipe | which child a wait() takes, who holds which end of a pipe | commands in turn, no wait for oneself |
| User programs (`usertests.c`, `init.c`, `stressfs.c`, ...), `mkfs.c` | a position in a sequence of calls; the image | system calls | files, pipes, processes | tests of concurrent processes that pass on the schedules that happen | every result is one the program accepts, on every schedule |
| Shell (P3 `main.c`, `parser.c`) | descriptors, children | execcmd per node type, the parser | fork, exec, wait, pipe | waits that reap the wrong child, saved descriptors | a prompt returns when its command is done |
| Allocator (P4 `my_malloc.c`, `my_free.c`, `my_realloc.c`) | `fl_head`, headers in the heap | my_malloc, my_free, my_realloc, coalesce | client | adjacency in coalescing | blocks never overlap, bytes are conserved |

`PROJECT.json` lists every hazard found, at its line, with the property that
watches it.

## 2. Plan

All parts of the inventory but the last are modelled.  How the modules depend on
each other:

```
AtomicDisk <-- Log <-- LogProofs       MCLog
ByteStream <-- Pipe <-- PipeProofs     MCPipe
Fs <-- Files <-- FilesProofs           MCFiles: Files, UserTests
Proc <-- ProcProofs                    MCProcLive LineInput <-- Console
Stride <-- StrideProofs                MCStride   ShellParser <-- CmdLine
Buf, Vm <-- MemoryProofs                          ShellProcs, ShellParser <-- Sh, MyShell
Console, Kbd, Screen, Names, Args, Umalloc, MyMalloc <-- Parts <-- PartsProofs
Numbers <-- StrideProofs, LogProofs, MemoryProofs, FilesProofs, PartsProofs
MCKernel: Proc, Buf
MCParts: Vm, Parts, Filter, CmdLine, Sh, MyShell
```

The modules with recursive operators (`Filter`, `ShellParser`, and through it the
shells) stay with TLC; what else does is at the end of section 5.

## 3. The modules

### Proc (with MCKernel, MCProcLive, ProcProofs)

One slot per `struct proc`, 0 for the null pointer; `lock` is the CPU that holds
`ptable.lock`, `cur[c]` is `cpus[c].proc`, `scan[c]` the scheduler's loop
position, `irq[c]` tells whether the CPU can be interrupted, and `pc[p]` is where
the kernel thread of slot p stands.

* A section that takes and releases `ptable.lock` is one action.  The lock that
  is carried across `swtch` is not: `Dispatch`, `Resume`, `Yield`, `Sched` and
  `ScanEnd` are the pieces of scheduler -> process -> scheduler, and other CPUs
  run between them.
* Writes without the lock (fork's failure paths, `np->parent = curproc`) are
  actions that ignore the lock.
* `Acquire` separates "interrupts are off, spinning" from "has the lock", so that
  a preemption before a critical section is possible and one while spinning is
  not.
* fork is `ForkAlloc` (allocproc under the lock), `ForkKstack` and `ForkCopy`
  (which may fail: kalloc and copyuvm answer nondeterministically) and
  `ForkRun`.  exit, wait (three outcomes), kill and sys_sleep follow the code.
* `Timer` is the whole timer trap: the tick on the boot CPU with its wakeup, the
  killed checks, yield.  `Fault` is a trap of user code.
* sleep(n) counts down `left` instead of comparing `ticks`; page tables, files,
  the current directory and names have no bearing on the properties and are left
  out.

### Stride (with MCStride)

The same table seen from project 2's scheduler: life-cycle calls are single
actions that only change the state (`Block`, `Unblock`, `Fork`), and the
scheduler is followed closely: the branch on `str`, updateTickets slot by slot,
getminproc, the division, the round-robin loop.  The ticket system calls take no
lock, so `TransferLookup`, `TransferCheck` and the two halves of `TransferMove`
are separate actions with preemption between them.  `kid` is a history
variable for `ChildFirst`.  The configured machine has one CPU
(`CPUS := 1` in the Makefile), and the runs use one; a `+=` on a ticket field is
one instruction there.

### Log over AtomicDisk (with MCLog)

`disk`, `logd` and `head` are the home blocks, the log blocks and the header on
disk; `lh`, `outstanding` and `committing` are `struct log`; `buf` and `dirty`
the buffer cache as far as the log depends on it.  A step is one critical
section of `log.lock` or one block written; `Crash` may come between any two,
during recovery too, and keeps only the disk.  log_write is split at its unlocked
tests: `Write` (bread, change, test, maybe panic) and `LogWrite` (append or
absorb, pin).  `nlog` is `log.size`, which mkfs sets to LOGSIZE with the header
included; the model therefore assumes what the callers keep to, that an
operation writes fewer than MAXOPBLOCKS distinct blocks (the largest,
filewrite's chunks, come to seven).

`AtomicDisk` has three variables: what readers see, what a reboot would find, and
who is inside an operation.  Its `Commit` makes everything durable at once and
only when nobody is inside an operation.  The refinement mapping takes the second
from the disk with the header's log blocks laid over it, so that a commit is
the write of the header and nothing else.

### Pipe over ByteStream (with MCPipe)

`data`, `nread`, `nwrite`, `readopen` and `writeopen` are `struct pipe`; the
counters live modulo `Wrap`, which is 2^32 in the code and any multiple of the
ring size here.  A holder is a process with one end open, and `open` stands for
the reference count in the file table: `Dup` is filedup() by fork, `FileClose`
drops a reference and, if it was the last, is followed by `PipeClose`.  Between
acquire and the next sleep or release, pipewrite() and piperead() are one action,
which copies as many bytes as the loop would.  The decision to sleep and the
sleep are two actions, with `plock` held in between: kill() takes `ptable.lock`
only and may fall there, in which case its wakeup is lost.  pipealloc() is the
initial state.

`ByteStream` is a bounded queue: a write enters in order and piece by piece, a
read takes the oldest bytes, and returns none only when the queue is empty and
no write end is open.  The refinement mapping reads the queue off the ring.

### Fs, Files and UserTests (with MCFiles, FilesProofs)

`Fs` is the disk as a value: inodes with direct and indirect blocks, directories,
the bitmap, and the operators of `fs.c` on them (`Balloc`, `Bmap`, `Itrunc`,
`Writei`, `Dirlookup`, `Dirlink`, `Ialloc`), together with the image that
`mkfs.c` writes.  A block has BSIZE cells; a cell is a byte of a file, an entry
of a directory or an address in an indirect block.

`Files` adds what processes share: the inode cache `ic` (reference count, sleep
lock), the file table `ft`, the descriptors and current directories in `proc`,
pipes, and the operations that have begun (`op`).  A step is what a process does
from taking an inode's sleep-lock to giving it back, or between two such
sections, so that other processes come in wherever the code lets go: between
the elements of a path (`Walk`), between dirlookup() and the lock of what it
found, between the two locks of link() and unlink(), between iput()'s look at the
reference count (`Put`) and its drop of the reference (`Drop`).  Begun operations
are those of `AtomicDisk`: `durable` takes the disk when the last one ends, which
is what `Log` shows of end_op().  Pipes are byte streams, which is what `Pipe`
shows.  The log's own waiting for space is in `Log`.

`UserTests` is the text of the programs: sequences of system calls, each with the
results that the program accepts.  A program of usertests.c that prints an error
and exits is one that gets a result it does not accept (`ok` becomes false).
Loops are shortened to a few turns, large files to the largest size the instance
has, and names are single strings.  Tests of memory (mem, sbrktest,
validatetest, bsstest) make calls that are actions of `Vm`.  The programs are
loop-free, so a run without a deadlock means that every one of them ends, with
all of its children, on every schedule.  `brokenpipe` and `tools` are not
programs of the repository: they put calls of the kernel, and mkdir.c, ln.c and
rm.c, into the one order the others miss.

### Vm (with MemoryProofs)

Pages are free (`kmem`), in the address space of a process, or in the address
space that fork(), exec() or sbrk() is building; each kalloc() is a step, so memory
can run out at any of them while another process takes or frees pages.  An address
space is a directory with page tables and pages, built by mappages(), copied by
copyuvm(), shrunk by deallocuvm() and freed by freevm().  `lost` collects the pages
that the code loses: copyuvm() frees the directory it has built when mappages()
fails, but not the page in its hand (`vm.c:335`).  `Accounted` says that every
page is in exactly one place, `lost` included, and `Present` that a process has
the pages below its size; `PagesRight` is both.

### Buf (with MCKernel, MemoryProofs)

The list of bget() and brelse(), the reference counts and sleep locks, the queue of
iderw() with its sleepers, and a disk that works on the first request and
interrupts.  bget() lets go of `bcache.lock` before it has the sleep lock, and
iderw() holds `idelock` up to its sleep; both are steps of their own.  `held` has the
buffers that bread() has returned to a process.  A process may hold one and ask for
another (`MayAsk`), in the order in which the callers do (`Level`): write_log() and
install_trans() hold a block of the log and ask for any other; bmap() and itrunc()
hold an indirect block while balloc(), bzero() and bfree() ask for a block of the
bitmap or for one that was free, and these hold nothing else.  log_write() leaves a
changed buffer dirty: it stays in the cache after brelse(), with no reference, until
it is written.  So bget() may find no buffer, and its panic() is an action; 64
processes and 30 buffers do not rule it out.  A read may
fail: ideintr() then marks the buffer valid although nothing was read, which the
model keeps (`bad`), and `Fresh` excepts such buffers.

### Console over LineInput, and Kbd

`Console` is the input ring with its three unsigned indexes, the interrupt that
edits a line, the readers and kill().  `LineInput` promises that a line can be
edited until it is ended and is then read in order; the mapping reads it off the
ring.  `EofOnce` adds that a ^D behind characters ends two reads and no third.
`Kbd` is kbdgetc() with its static `shift`, fed by keys that go down and up in any
order, with the E0 bytes of the second set between them.

### Screen, Names, Args

`Screen` is cgaputc(): the memory of the screen, the cursor and the scrolling, with
memmove() in the order in which string.c copies.  A strip of paper that never
scrolls is kept as history, and the screen must show its end.

`Names` has the bytes of file names: skipelem() fills a buffer that is not ended
when it is full and keeps old bytes when it is not, strncpy() puts it into
directory entries, strncmp() compares.  `OneEntryPerName` justifies that `Files`
takes a name as one value.  `Args` is the fetching of system call arguments with
its unsigned sums.

### Umalloc and MyMalloc

`Umalloc` has the headers of the heap themselves (`ptr`, `size`, `freep`), so that
the circular list of K&R's allocator is followed pointer by pointer; `Partition`
relates it to the blocks the program owns.  `MyMalloc` keeps project 4's sorted
free list as a sequence; split(), fl_insert(), coalesce() and my_realloc() are
translated as they stand, and the program frees and resizes its blocks in any order.
coalesce() then lets a free block cover one that is in use (finding below).  When
my_malloc() gives such memory out (`clobbered`), the program's data and the headers
destroy each other, and the model stops.  Up to there the space of freed blocks
comes back in every order, which is what the project's tests look at (`ComesBack`):
because the end of coalesce() joins the first two free blocks always, the free list
is one block whose size is right, though its place may not be.  Both modules count in
units of a header.

### Filter

grep.c and wc.c on files, of which read() gives as much as they ask for, and on a
pipe, of which it gives as little as the writer likes: grep's buffer with the part of a
line it carries over, the recursive matcher, wc's counters.  A buffer without a line
end is thrown away, the beginning of the line included (`grep.c:29`).  `GrepPrints`
says what this comes to: for each ended line one is printed, once and in order, if the
expression describes it.  It is the whole line if it comes from a file and fits into the
buffer, and otherwise an end of it; so a line which a pipe delivers in pieces can lose
its beginning.  "Describes" is a definition that divides the text among the characters
of the expression instead of searching.  `WcCounts`: the counts do not depend on the
pieces.

### ShellParser, CmdLine, ShellProcs, Sh, MyShell

`ShellParser` is `parser.c` of project 3 and, with `Parens`, the parser of `sh.c`,
from which it was taken: recursive descent over positions of the line, with the
zero bytes that nulterminate() writes in the end.  `CmdLine` types every line up to
LINE keys, one of which is the word exit, and longer ones of arguments only, and
compares the parser with a grammar on tokens (`Grammar`) and with the words and
operators of the line (`ReadsBack`).  A command called exit is in the grammar of sh.c
and not in that of project 3, whose parser ends the shell when it comes to it: of
`a;exit` nothing is run.  `ShellProcs` holds the
processes: a process has a sequence of steps still to do, its descriptors 0 and 1
and those it holds besides, a parent; fork copies all of it, wait takes any
zombie.  `Sh` and `MyShell` are runcmd() and execcmd().  In project 3's shell the
descriptors that PIPE restores at its end were set in the children only: `dup2`
chooses among everything that can be there.

### MCParts

These parts share no state, and `MCParts` is their sum: it extends `Vm` and
`Parts` (which extends the seven modules from `Console` to `MyMalloc` and states what
they promise together) and has instances of `Filter`, `CmdLine`, `Sh` and `MyShell`;
`part` says which one a behaviour belongs to, and the others stay as they are.  One run
checks them all, and every assumption the proofs make of their constants.  `MCKernel`
is the sum of `Proc` and `Buf` in the same way.

## 4. The runs

| Run | Instance | Checks |
|---|---|---|
| `kernel` | 2 CPUs, 3 slots, pids up to 3, sleep(0..1); or users of the cache that are alike, 3 blocks (of the log, indirect, of the bitmap), 2 buffers, one block that the disk may fail to read: 2 users and 2 contents, or 3 users and 1 content | one CPU per process, stacks, missed exits and ticks, live parents, unique pids, who recycles slots; one buffer per block, fresh contents, changed buffers stay, no lost wakeup and no circle of waiting, exact counts |
| `proc_live` | 2 CPUs, init and one child, sleep(0..1); or 1 CPU and 3 processes; fair | a killed process dies, wherever in sys_sleep() it is killed; a RUNNABLE process runs; sleep(n) returns; wait() with an exited child returns |
| `stride` | 1 CPU, 3 slots; either stride scheduling with transfers and pass up to 30, or round robin with fork_winner() | no division by zero, least pass first; the child runs before fork() returns |
| `stride_negative` | as `stride` | finding: tickets become negative |
| `stride_transfer` | as `stride` | finding: a completed transfer is undone before it counts |
| `log` | 2 processes, 2 blocks, 2 contents, operations of up to 2 blocks, LOGSIZE 6, reservations of 3, fair | implements AtomicDisk, durable when quiet, reservation and no panic, cache coherent, sleepers in begin_op() are woken |
| `pipe` | 2 writers, 1 reader, ring of 2, counters modulo 4, writes of 3 bytes, reads of 1, fair | implements ByteStream, no lost wakeup, no use after free, a call asleep in a pipe returns |
| `fs` | 35 programs of one to four processes; 14 inodes, 18 blocks of 4 cells, files of up to 6 blocks, 6 cached inodes, 4 files, 3 descriptors each | every program gets results it accepts and no call panics, nothing is held between calls, every commit leaves a consistent disk, and (deadlock check) everybody ends |
| `fs_deadlock` | linkunlink and concreate | finding: two processes wait for each other's inode |
| `fs_leak` | openiputtest | finding: an unlinked inode is never freed |
| `heap_overlap` | heap of 12 units, blocks of 1 to 3 | finding: a free block covers memory in use |
| `parts` | see below | memory, console, keyboard and screen, file names, call arguments, both allocators, grep and wc, both parsers, both shells |

The instances of `parts`: `Vm` has 2 processes, 12 pages of which 7 are free at
first, 2 user pages to a page table; `Console` a ring of 2 characters with indexes modulo 4 and 2 readers of up to 2
characters; `Kbd` six keys and two bytes in the controller; `Screen` three rows of two
characters; `Names` entries of 2 bytes and paths of up to 6; `Args` addresses modulo
16 and a memory of up to 8 bytes; `Filter` every expression and every text of up to 3
characters, as a file and as a pipe, two longer texts and two files, and buffers of 3 bytes; `Umalloc` 9 units from
sbrk() in chunks of 4, requests of 2, 3 and 5; `MyMalloc` as `heap_overlap`;
the parsers all lines of up to 4 of 10 keys, and of up to 5 of the four that make
arguments, which is one too many for MAXARGS; the shells nine
sessions of one to three lines with 5 processes.

Why the bounds are enough.  Three slots and two CPUs give a parent, a child that
exits and one that is being forked, each on either CPU.  `MaxPid` bounds the
number of forks: slots are still recycled, since a failed or reaped child leaves
its slot to the next.  In `proc_live` two CPUs are what a kill() between the test and
the sleep of sys_sleep() needs, and three processes on one CPU what a scan needs to
starve one.  In `stride`, 30 is what a process pays when three are ready,
so every number of ready processes is charged at least once and ties between
passes occur; at the bound the machine stops, which is why deadlock is not checked
there.  In `log` two full reservations fill the log, so a process that comes back
while another one is active has to wait for space, both may write the same block,
and a crash can fall between any two of the block writes of a commit.  In `pipe` a
write is longer than the ring, so writers sleep half way and their bytes
interleave, and the counters pass zero after every second filling; two holders on a
side are what a reference count needs to go wrong.  In `fs` files reach into the
indirect block, a chunk of filewrite() is one block, the tests that need to fill
the inode cache or the file table do so with the small ones, and the tests with
two children have both in the same directory at once.  For the cache in `kernel` there are
more blocks than buffers, a process can hold one buffer and wait for another on every
level, pinned buffers use up the cache, and bget() does panic; two users suffice for
contents to go wrong, and three are needed for one to sleep on the lock of another that
sleeps on a lock itself, which does not depend on what the blocks contain.  In `parts` fork and exec run
out of pages at every one of their kalloc() calls, sizes end inside pages, half of the sums of addresses wrap around, the console's ring fills and its indexes wrap, and the heaps are filled
and emptied in every order; four keys hold every operator with an argument
on either side, empty commands, ">>" and blocks, and the sessions combine them.

Fairness.  In `Proc` every CPU keeps scheduling and keeps getting timer
interrupts, and a thread that is dispatched again and again finishes its next
kernel step: a time slice is far longer than a critical section.  Strong fairness
is needed because another CPU can hold the lock, or a preemption intervene, at
any single moment.  User code is not assumed to do anything.  In `Log` threads
inside the kernel go on, the disk answers, and an operation ends after finitely
many writes; nobody is assumed to start an operation, and crashes may happen for
ever.  In `Pipe` threads inside the kernel go on, and a process that keeps coming
back to user space closes its descriptor some day, by close() or exit(): a reader
of a pipe whose writer neither writes nor ends sleeps for ever, as it should.

### Findings

* `transfer_tickets()` checks and subtracts without a lock; when a time slice
  ends in between, updateTickets lowers the balance and the subtraction makes it
  negative (`stride_negative`).
* updateTickets() gives every ready process the same share before each dispatch, so
  a transfer is gone before the tickets are used, although schdtest.c has test cases
  to show its effect (`stride_transfer`; `SharesAreEqual` proves why).
* `iput()` takes the inode's lock even when it frees nothing.  create() puts the
  directory while it holds the new inode; if another process has locked the
  directory meanwhile, found the new name and waits for its inode, both wait for
  ever (`fs_deadlock`; linkunlink of usertests.c was written to look for this).
* `iput()` reads the reference count and drops its reference later: two processes
  that put an unlinked inode at the same time both read 2, and neither frees it
  (`fs_leak`).
* The end of project 4's `coalesce()` joins the first two free blocks without
  looking whether they touch (`heap_overlap`).

Not violations of a run, but met while modelling:

* `kill()` looks at pids only: kill(0), or the pid a failed fork left in its slot,
  marks an UNUSED slot, allocproc does not clear the mark, and the next process
  there exits at its first trap.  `tickets_owned()` of the caller itself reads
  through a null pointer, as getProc() finds RUNNABLE processes only.
* `fork_winner` holds for a parent dispatched by round robin; one that stride
  dispatched before the policy changed may return from fork() first.
* A writer killed on a full ring leaves pipewrite() without a wakeup, so a
  reader may sleep over bytes it could have until the next write or close
  (`NoLostWakeup` states this exception).
* link(f, "d/.") waits for a lock its caller holds, and link(f, "d/..") takes two
  directories against the order of path walks (`fs.c:561`).  Creating a file in a
  directory that was removed orphans it; a crash leaks inodes that are unlinked
  but open.  The programs of `fs` do none of these.
* grep loses what a read without a line end has brought, and a last line without
  an end.  bget() panics when all buffers are held or pinned.  The
  pass of a process is a signed int that grows for ever: after some hundred
  thousand dispatches it overflows (`MaxPass` bounds it in the model).
* A failed disk read marks its buffer valid; sbrk() to exactly 0 frees all pages
  and returns -1; a killed reader of the console loses the characters it has taken.
* createdelete of usertests.c uses `i` where its cleanup means `pi`.  Project 3's
  shell leaks two descriptors per redirection and uses the result of open()
  unchecked; a command it cannot execute leaves a second shell in the child,
  for which the first one waits (`OnePrompt` says that only one of them reads);
  after a background job a list may go on too early, because wait() took the job
  (`Alone` excepts background jobs).

## 5. The proofs

| Module | Theorems, for every value of the constants | Assumptions |
|---|---|---|
| `ProcProofs` | all safety properties of `Proc`: `TypeCorrect`, `OneCpuTheorem`, `KStackTheorem`, `WaitTheorem`, `ParentTheorem`, `PidTheorem`, `TickTheorem`, `RecycleTheorem` | `ProcAssumption` |
| `StrideProofs` | `DivisionSafe`, `SharesAreEqual`, `LeastPassRuns`, `WinnerRunsFirst`, `TypeCorrect` | at most 100 slots (the table has 64), one CPU |
| `LogProofs` | `Refinement` (of `AtomicDisk`), `ReservationSafe`, `CacheSafe`, `Durability`, `TypeCorrect` | `LogAssumption` |
| `PipeProofs` | `Refinement` (of `ByteStream`), `PageSafety`, `WakeupSafety`, `TypeCorrect` | the ring size divides the range of the counters, and is smaller |
| `MemoryProofs` | of `Buf`: `OneCopySafe`, `FreshSafe`, `PinnedSafe`, `WakeupSafe`, `CountsExact`; of `Vm`: `MemoryRight`, from `PagesAccounted` and `PagesPresent` (with `VmInductive`) | `Sizes`: there is a buffer, block numbers are positive, processes are finitely many; `VmSizesAssumption`: memory for the first process, a user part of whole pages, programs that fit into it |
| `FilesProofs` | `NothingLeaks`, from `FilesRight` | `FilesAssumption`: finitely many processes, numbered from 1 as inodes are (0 is the null pointer and the empty directory entry) |
| `PartsProofs` | the properties of `Parts`: `ConsoleDisciplined` (the console implements `LineInput`), `TerminalRight`, `NamesAndArgumentsRight`, `UmHeapRight`; of the single modules `ConsoleInvariant`, `ReadersAwake`, `KeysRight`, `ScreenRight`, `NamesRight`, `ArgumentsInside` | `RingAssumption`: the size of the ring divides the range of its indexes, and is smaller; `KeysAssumption`; `ScreenAssumption`: two rows at least; `NamesAssumption`; `LayoutAssumption`: the user part is at most half of the address space; `UnitsAssumption` |

`Numbers` has the two facts about sets of numbers that the other modules use in
place of induction (see below), and those about remainders that counters in a ring
need.  The assumptions on constants are in the modules that declare them, and
TLC evaluates them in the runs.  None of the properties is inductive by itself.  Every proof module defines
inductive invariants as conjunctions of named parts, proves for each action that it
keeps each part, and derives the properties.

### Process table

That the stack of a running thread is not freed needs that wait() frees only ZOMBIE
slots whose CPU has let go of the lock, and that a failing fork frees a slot no
other fork is filling.  Two invariants collect what is needed:

* `Core`: the types; `OneCpuPerProc`; `OnCpu` (a CPU stands on started processes
  only); `Interrupts` (a CPU with interrupts off does not hold the lock);
  `Points` (where sleeping, dead and unborn threads stand); `Embryos` (each fork
  under way owns one EMBRYO slot, and no two the same); `Stacks` (who has a
  stack).
* `Family`, relative to `Core`: `Tree` (init is the living root; who has a
  parent), `ParentAlive`, `Channels` (sleepers are on the channel their call
  names), `NoMissedExit`, `Pids`, `PidUnique`, `TickLocks` (between sys_sleep's
  test and sleep() the process holds tickslock), `NoMissedTick`.

### Stride scheduler

`Places` says where the scheduler and the running thread stand; `Dealt`, that
updateTickets() has counted the ready processes and has given each one it has
passed its share; `Yielded`, that a parent waiting in fork() is alive, and `Kids`,
that its child comes before it in the round-robin scan.  The division is safe
because nothing runs between the dealing and the choice, so that what
transfer_tickets() did to the balances is gone, and because a share of 100 among
at most 100 is not zero.  That the loop of getminproc() finds the first process
of least pass is proved by induction on its turns: the set of positions up to which
it is true is closed under successor (`UpTo`).  `OneCpu` is
what the Makefile configures; on two CPUs a transfer could come between.

### Log

`Threads` says who holds a buffer and who commits, `Operations` that `outstanding`
counts the operations and that what each has written is in the header or about to
be, `Space` that the reservations fit, `Headers` how the header on disk follows the
one in memory, and `Copies` which copies of a block agree (`Pinned`, `Clean`,
`Written`): in the cache, at home, in the log.

* `Reservation` takes from the reservations of the running operations what they have
  used: `Logged` are the pairs of a running operation and a block it has logged, and
  absorption lets two operations count the same block.  That log_write() always
  finds room needs that an operation has used less than its reservation; the lemma
  `Pairs` bounds the number of pairs by induction over the number of operations.
* `Refinement` maps a reboot's view to the disk with the header's log blocks laid
  over it.  `CommitPoint` shows that writing the header changes this view from the
  last commit to the cache's contents at once, and `AtomicStep` that no other step
  changes it: neither the copying to the log before, nor install_trans() after, nor
  a crash and a second recovery.

### Pipes

`Ends` relates the flags and the page to the descriptors and to the one process that
closes the last; `Sleepers` says who carries the pipe's lock into sleep() and that
what a thread has seen before it sleeps is still so; `Transfer`, that the counters
differ by at most the ring modulo `Wrap`.  The refinement reads the queue off the
ring; that a slot of the ring is not reused before it is read, although the counters
wrap, is where `Wrap % PIPESIZE = 0` is needed.

### Buffer cache

`References`: a count is the number of processes that hold the buffer or are at it, who
holds a buffer has it for the buffer's block, and no two buffers have the same block.
`LockOwners`: a locked buffer has exactly one owner, which holds it or is at the disk with
it.  `Ordered`: who waits for a lock holds blocks of lower levels only, so that an
owner which waits itself waits higher up.  `Flags`: what bread() has returned is
valid, and what the disk has done is clean.  `Queue`: the requests are those of the
processes that sleep, each once, and the disk works while there are any.  `Data`: a
valid buffer has what was last written, so has the disk where no buffer is dirty, and
what is dirty is valid, which makes the contents of pinned buffers the last ones.
bget() may let go of `bcache.lock` before it has the sleep lock because its reference
keeps the buffer out of `Unused`: that is `NoUsers`, which ties recycling to the absence
of processes.

### Files

`FilesRight` holds for all texts of programs, every disk to begin with and every
schedule: nothing is assumed of `Programs`, `Tests` and `Image`, so `NothingLeaks` says of the
kernel what the run says of the programs in `UserTests`.  `NothingHeld` looks at states
between calls only; `FilesInv` says what is held inside them, at each of the labels where
other processes come in.

* `Refers` lists the places in a process that are references: the current directory
  (not while chdir() or exit() has put it already), `ip`, `dp` (also while link() walks
  its second path), and the inode that iput() is about to drop.  `RefsOK`: the count of an
  inode is the number of files that are its, and of these places.  namex() that
  hands over from one directory to the next, create() with three inodes in its hands
  and all error paths come out even: each gives up in the same step what it stops
  mentioning, or leaves it to iput().
* `Locks` says at which labels which inode is locked: create()'s new inode until open() is
  done with it, link()'s directory while it puts the entry it has found, unlink()'s two.
* `OpsOK`: a process in a transaction is inside a call.  write() begins and ends one
  for each chunk, so it is outside between two of them.
* `FilesOK`: the count of a file is the number of descriptors, over all processes.  fork()
  adds a whole set of them.

Counting is done once (`MineCount`, `PlaceCount`, `FdsAdd`, `FilesAdd`); after that each action
has a lemma that compares what its process holds before and after (`QuietKeeps` where no
file is opened or closed, `StepKeeps` for open(), dup(), pipe() and close(), `HoldsSame` for
kill(), wait() and the end of exit(), which touch other processes).

### Virtual memory

The invariant `Good` takes the memory, the processes and the lost pages as
parameters, so that a step with several parts is proved one part at a time, each a
step between good states: a mappages() that fails first lets go of the page in hand
and then takes the error path, which frees the half-built space and, in fork(), the
child's slot; the end of fork() is proved as if the parent freed the space and the
child took the same pages.  `LocalOK` is what a process has by itself: the pages of
an address space are different (freevm() frees the user's pages first and the tables
afterwards, and would free a page twice that is both), an UNUSED or EMBRYO slot has no
address space, and a space under construction has exactly the pages below the
loop's position, so that mappages() overwrites none and deallocuvm() in the error path
takes the new pages only.  `Forks`: a fork under way owns the EMBRYO slot of its
child, and no two own the same.  `ContentsOK`: user pages, and the page in hand, have
been cleared or copied.  `InOnePlace`: a page is free once, lost, or in one of four
places (stack, address space, space under construction, hand) of one process.
`UpdateOne` reduces a step of one process to what it does with each page: keep, free,
take, move or lose it.  `Accounted` follows by counting, and `Present` from the pages
below the loop's position and the rounding of sizes.  That mappages() never panics
("remap", `vm.c:72`) is part of the argument: the entry it writes is empty.

### Console

`ConInv`: `RingOK` says that the distances from `r` to `w` and from `w` to `e`, each
modulo the range of the indexes, are together at most INPUT_BUF, and that the part of the
line which can still be edited holds no line end and no ^D, so that the interrupt's
backspace loop and ^U never run past `w`; `Reading`, that a read has at most as much
to go as was asked for; `ReaderAwake`, that nobody sleeps while there is something to
read.  With `UINT % INPUT_BUF = 0` a place of the ring is the place of the unwrapped
index (`Place`), so that the character consoleintr() writes at `e` lands on no place
that is still to be read.  Every action is shown to be a step of `LineInput` on the
two sequences that the mapping reads off the ring: a key appends to the edited line,
erases its end or hands it over, and a reader takes from the front of what was handed
over.

### Keyboard

What a key that was hit with no modifier held gives depends on bytes that were sent
before it and are still in the controller.  `Framed` says that an E0 byte
is followed by the key it belongs to and that the flag E0ESC is set exactly between
the two; `Tracked`, for control and for shift, that the last byte of such a key
tells whether one is held, and that the flag does when there is none left on the wire;
`PlainLater`, that before a key hit without a modifier control has been released;
`OwnChar`, what was delivered.

### Screen

`ScrInv`: the first cell shown is at the start of a row of the paper, the cursor is in
the rows shown, the paper goes no further than they do, and every cell shown is the
paper's, blank where there is none.  `MovedDown` gives memmove() on overlapping memory
in closed form: copying upwards in address order reads every cell before it is
overwritten, which is where the direction of the copy matters.

### Names

`NamesInv` is the types and `OneEntryPerName`.  The work is in the bytes: a name is
what comes before the first zero byte or before the end of the buffer, strncpy()
keeps it, and strncmp() compares two of them equal exactly if they are the same,
although the buffer may hold old bytes behind the zero and may have no zero at all.

### Arguments

The tests of fetchint() and argptr() add a length to an address modulo the word.
The sum cannot wrap, because the address is tested against the size first and the
length is an int: both are below half the word.  For a string, the length is the
least of a set that is not empty.

### The allocator of the C library

`UmInv`: there is a set of free headers for which the heap is `Good`: the pointers lead
from every free header to the next one in address order and from the last to the
first (`Linked`), free and used blocks lie between the start and the break without gap or
overlap (`Tiled`), and no free block ends where another begins (`Apart`).  Before
the first malloc() the list is the one it is about to make (`Started`).  The set is not
a function of the state that the provers could compute; `Covers` shows, by the
sets of `Numbers`, that a walk from any free header meets all of it and nothing else.
So malloc() searches the whole free list (`RingIs`), and free()'s loop stops at the
place where the block belongs (`FreedPlace`).  `UpperJoin` and `LowerJoin` are free()'s
two joins, with `Joining` for the heap between them; `FreeKeeps`, `MorecoreKeeps` and
`FirstFitKeeps` are the three operations.

### What is left to TLC

* Liveness (`SleeperWoken`, `CallReturns`, and the properties of `proc_live`): fairness and ENABLED are outside the prover's reach.
* What recursive operators compute (`Filters`, `CommandLine`, and `Shells`, which runs
  what the parser returns), since induction over data is too.
* `TestsPass` and `Recoverable` of `Files` are about the texts of the programs in
  `UserTests`, and are decided by running them.  Neither is true of all programs: a link to
  "d/." or a file created in a directory that was removed (section 4) breaks them.
* `ComesBack`, which adds up the sizes of the blocks in a sequence.
* The findings.

The library's induction theorems take a predicate as a parameter, which the provers
cannot instantiate; `Numbers` restates what is needed for a set: every nonempty set
of numbers has a least element, and a set with 0 that is closed under successor up to
N contains 0..N.  This carries the loop of getminproc(), the counting in `Log`, the
copying of memmove() and the walks of umalloc.c.  The type invariants of
`Stride`, `Log` and `Pipe` are proved and are not among the properties of the runs.

## 6. Not modelled

Hardware set-up (`bootmain.c`, `main.c`, `mp.c`, the interrupt controllers) is a
fixed sequence without alternatives.  Left out as data: the page-table and ELF
formats, the registers of the disk and the serial port, the layout of the disk's
sectors, formatting (`printf.c`, cprintf) and the rest of the string functions.  Of the user programs, uio needs
the CPU's I/O privilege, fsfull is never called, and kill adds no call; project 2's own test programs print timings and have nothing to check.
Projects 1 and 2 share all files but the scheduler's: they are modelled once.  `map` in
`PROJECT.json` names project 1's copy, except for the actions of `Files` that stand for
pipewrite(), piperead(), begin_op(), end_op(), exit() and wait(), which name project 2's:
`pipe.c` and `log.c` are byte-identical in the two, and exit() and wait() of `proc.c` read
the same.  fork() is project 1's; project 2's also yields for `fork_winner`, which is in
`Stride`.
