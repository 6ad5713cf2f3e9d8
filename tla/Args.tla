-------------------------------- MODULE Args --------------------------------
(***************************************************************************)
(* Arguments of system calls (syscall.c): addresses are unsigned and wrap  *)
(* around, ints are signed.  Module Files takes its arguments as fetched.  *)
(***************************************************************************)
EXTENDS Integers, FiniteSets

CONSTANTS
  WORD,         \* values of a uint
  MAXSZ,        \* end of a process's memory, at most: KERNBASE
  INT           \* bytes of an int

\* The user part is at most the lower half of the addresses (KERNBASE is
\* 0x80000000, in memlayout.h), and an int is short.
Layout ==
  /\ WORD \in Nat \ {0} /\ MAXSZ \in Nat /\ INT \in Nat
  /\ MAXSZ <= WORD \div 2 /\ INT <= WORD \div 2
ASSUME LayoutAssumption == Layout

VARIABLE call   \* the memory's size, and the last argument fetched

uint(x) == x % WORD
UInts == 0..(WORD - 1)
Ints == -(WORD \div 2)..(WORD \div 2 - 1)

\* A process before a call: its size and its stack pointer.
ArgsInit ==
  \E sz \in 0..MAXSZ, esp \in UInts :
    call = [sz |-> sz, esp |-> esp, op |-> "none", at |-> 0, n |-> 0, ok |-> FALSE]

-----------------------------------------------------------------------------
\* fetchint() reads an int at addr.
fetchint(addr) == addr < call.sz /\ uint(addr + INT) <= call.sz

\* The place of argument n, above the return address.
argaddr(n) == uint(call.esp + INT + INT * n)

Answer(op, at, n, ok) ==
  call' = [call EXCEPT !.op = op, !.at = at, !.n = n, !.ok = ok]

argint(n) == Answer("argint", argaddr(n), INT, fetchint(argaddr(n)))

\* argptr(): the argument is i.
argptr(n, i, size) ==
  Answer("argptr", i, size,
         fetchint(argaddr(n)) /\ ~(size < 0 \/ i >= call.sz \/ uint(i + size) > call.sz))

\* fetchstr(): the first zero byte from addr on below sz ends the string.
fetchstr(addr, zeros) == \E s \in addr..(call.sz - 1) : s \in zeros
Length(addr, zeros) ==
  CHOOSE k \in 0..call.sz : addr + k \in zeros /\ \A j \in 0..(k - 1) : addr + j \notin zeros

argstr(n, i, zeros) ==
  LET ok == fetchint(argaddr(n)) /\ i < call.sz /\ fetchstr(i, zeros) IN
  Answer("argstr", i, IF ok THEN Length(i, zeros) + 1 ELSE 0, ok)

Fetch ==
  /\ call.op = "none"
  /\ \E n \in {0, 1} :
       \/ argint(n)
       \/ \E i \in UInts, size \in Ints : argptr(n, i, size)
       \/ \E i \in UInts, zeros \in SUBSET {0, 1, MAXSZ - 1} : argstr(n, i, zeros)
ArgsDone == call.op # "none" /\ UNCHANGED call
ArgsNext == Fetch \/ ArgsDone

ArgsSpec == ArgsInit /\ [][ArgsNext]_call

-----------------------------------------------------------------------------
\* An argument that is accepted lies in the memory of the process, to its
\* last byte, also where the sum of address and length wraps around (argptr,
\* fetchint, fetchstr).
Inside == call.ok => \A k \in 0..(call.n - 1) : call.at + k < call.sz
=============================================================================
