--------------------------------- MODULE Vm ---------------------------------
(***************************************************************************)
(* Physical pages and address spaces: kalloc.c, vm.c, exec.c and what      *)
(* fork(), sbrk() and wait() do with them.  Every call of kalloc() is a    *)
(* step, so that memory may run out at any of them while processes take    *)
(* turns.  Addresses and sizes count half pages.                           *)
(***************************************************************************)
EXTENDS Integers, FiniteSets, Functions

CONSTANTS
  NPAGE,        \* pages behind the kernel
  NPROC,        \* processes
  NPT,          \* user pages that one page table maps
  KTABS,        \* page tables for the kernel's part of an address space
  KERNBASE,     \* end of the user part
  Amounts,      \* what sbrk() is called with
  Shrink,       \* by how much sbrk() may shrink
  Images        \* sizes of programs

VARIABLES
  kmem,         \* how often a page is in the free list, and what is in it
  proc,         \* processes
  lost          \* pages that nothing refers to any more

vmvars == <<kmem, proc, lost>>

PGSIZE == 2
Pages == 1..NPAGE
NoPage == 0
PGROUNDUP(a) == ((a + PGSIZE - 1) \div PGSIZE) * PGSIZE
Vas == 0..(KERNBASE \div PGSIZE - 1)        \* user pages
PDX(va) == va \div NPT
Slots == 1..NPROC

\* Memory for the first process; the user part is a whole number of pages; and
\* programs fit into it (allocuvm() refuses the others).
VmSizes ==
  /\ NPAGE \in Nat /\ NPROC \in Nat \ {0} /\ NPT \in Nat \ {0} /\ KTABS \in Nat
  /\ 4 + KTABS <= NPAGE
  /\ KERNBASE \in Nat /\ KERNBASE > PGSIZE /\ KERNBASE % PGSIZE = 0
  /\ Amounts \subseteq Nat /\ Shrink \subseteq Nat
  /\ Images \subseteq 0..(KERNBASE - 1)
ASSUME VmSizesAssumption == VmSizes

\* A page directory: its own page, the page tables of the kernel's part, and
\* the page tables and entries of the user part.
NoDir == [dir |-> NoPage, ktab |-> {}, tab |-> [d \in {PDX(va) : va \in Vas} |-> NoPage],
          pte |-> [va \in Vas |-> NoPage], user |-> [va \in Vas |-> TRUE]]
PageSet(pg) == ({pg.dir} \cup pg.ktab \cup Range(pg.tab) \cup Range(pg.pte)) \ {NoPage}

\* What a process is doing in the kernel: building pages a..end of an address
\* space, with a page in hand.
NoOp == [kind |-> "user", pg |-> NoDir, a |-> 0, end |-> 0, mem |-> NoPage, sz |-> 0, child |-> 0]
UnusedSlot == [st |-> "UNUSED", sz |-> 0, pgdir |-> NoDir, kstack |-> NoPage, parent |-> 0, op |-> NoOp]

-----------------------------------------------------------------------------
\* kfree() fills the page with junk.
kfree(k, pgs) == [p \in Pages |-> IF p \in pgs THEN [free |-> k[p].free + 1, data |-> "junk"]
                                  ELSE k[p]]
CanAlloc(k) == \E p \in Pages : k[p].free > 0
FreePage(k) == CHOOSE p \in Pages : k[p].free > 0 /\ \A q \in Pages : k[q].free > 0 => p <= q
\* kalloc(), with what the caller writes to the page.
kalloc(k, data) == [k EXCEPT ![FreePage(k)] = [free |-> @.free - 1, data |-> data]]

\* deallocuvm(), from oldsz down to newsz: page tables stay.
deallocuvm(k, pg, oldsz, newsz) ==
  LET gone == {va \in Vas : va * PGSIZE >= PGROUNDUP(newsz) /\ va * PGSIZE < oldsz
                            /\ pg.pte[va] # NoPage}
  IN [kmem |-> kfree(k, {pg.pte[va] : va \in gone}),
      pg |-> [pg EXCEPT !.pte = [va \in Vas |-> IF va \in gone THEN NoPage ELSE @[va]]]]

\* Mutant of freevm: page tables of the kernel's part are taken for shared.
freevmUser(k, pg) ==
  LET d == deallocuvm(k, pg, KERNBASE, 0)
  IN kfree(d.kmem, PageSet(d.pg) \ pg.ktab)

freevm(k, pg) ==
  LET d == deallocuvm(k, pg, KERNBASE, 0)
  IN kfree(d.kmem, PageSet(d.pg))

\* walkpgdir() has a page table for the page, or needs a page for one.
NeedsTable(pg, va) == pg.tab[PDX(va)] = NoPage
\* mappages() of one page; flags are those of the entry.
WithEntry(pg, va, mem, user) == [pg EXCEPT !.pte[va] = mem, !.user[va] = user]
mappages(k, pg, va, mem, user) ==
  IF NeedsTable(pg, va)
    THEN [kmem |-> kalloc(k, "table"),
          pg |-> WithEntry([pg EXCEPT !.tab[PDX(va)] = FreePage(k)], va, mem, user)]
    ELSE [kmem |-> k, pg |-> WithEntry(pg, va, mem, user)]

clearpteu(pg, va) == [pg EXCEPT !.user[va] = FALSE]
\* uva2ka(): a page that the process may use.
uva2ka(pg, va) == IF pg.pte[va] # NoPage /\ pg.user[va] THEN pg.pte[va] ELSE NoPage

\* copyout() to a page.
copyout(pg, va) == uva2ka(pg, va) # NoPage

-----------------------------------------------------------------------------
\* userinit(), with inituvm(): pages 1 to 4 and the kernel's tables.
InitDir == [NoDir EXCEPT !.dir = 2, !.ktab = 5..(4 + KTABS), !.tab[0] = 3, !.pte[0] = 4]
VmInit ==
  /\ kmem = [p \in Pages |-> IF p <= 4 + KTABS THEN [free |-> 0, data |-> "data"]
                             ELSE [free |-> 1, data |-> "junk"]]
  /\ proc = [p \in Slots |->
               IF p = 1 THEN [UnusedSlot EXCEPT !.st = "run", !.sz = PGSIZE, !.pgdir = InitDir,
                                            !.kstack = 1]
               ELSE UnusedSlot]
  /\ lost = {}

Op(p) == proc[p].op
User(p) == proc[p].st = "run" /\ Op(p).kind = "user"
\* The address space that an operation works on.
Target(p) == IF Op(p).kind = "grow" THEN proc[p].pgdir ELSE Op(p).pg
WithTarget(p, pg) == IF Op(p).kind = "grow" THEN [proc[p] EXCEPT !.pgdir = pg]
                     ELSE [proc[p] EXCEPT !.op.pg = pg]

\* sys_sbrk() and growproc(): a smaller break.  Down to zero it frees all and
\* says it has failed: the size stays, and the next instruction faults.  The
\* first process, which must not exit, does not go so far.
sbrkLess(p, n) ==
  LET new == proc[p].sz - n
      d == deallocuvm(kmem, proc[p].pgdir, proc[p].sz, new)
  IN
  /\ User(p) /\ new >= 0 /\ (p = 1 => new > 0)
  /\ kmem' = d.kmem
  /\ proc' = [proc EXCEPT ![p].pgdir = d.pg,
                          ![p].sz = IF new = 0 THEN @ ELSE new,
                          ![p].st = IF new = 0 THEN "fault" ELSE @]
  /\ UNCHANGED lost

\* A larger one: allocuvm() of the process's own space.
sbrkMore(p, n) ==
  /\ User(p) /\ proc[p].sz + n < KERNBASE
  /\ proc' = [proc EXCEPT ![p].op = [NoOp EXCEPT
       !.kind = "grow", !.a = PGROUNDUP(proc[p].sz) \div PGSIZE,
       !.end = PGROUNDUP(proc[p].sz + n) \div PGSIZE, !.sz = proc[p].sz + n]]
  /\ UNCHANGED <<kmem, lost>>

\* fork(): a slot and a kernel stack.
fork(p) ==
  /\ User(p)
  /\ \E c \in Slots :
       /\ proc[c].st = "UNUSED" /\ \A d \in Slots : proc[d].st = "UNUSED" => c <= d
       /\ CanAlloc(kmem)
       /\ kmem' = kalloc(kmem, "stack")
       /\ proc' = [proc EXCEPT
            ![c] = [UnusedSlot EXCEPT !.st = "EMBRYO", !.kstack = FreePage(kmem), !.parent = p],
            ![p].op = [NoOp EXCEPT !.kind = "fork", !.end = PGROUNDUP(proc[p].sz) \div PGSIZE,
                                   !.sz = proc[p].sz, !.child = c]]
  /\ UNCHANGED lost

\* exec(): the file has been found and its header read.
exec(p, image) ==
  /\ User(p)
  /\ proc' = [proc EXCEPT ![p].op = [NoOp EXCEPT
       !.kind = "exec", !.end = PGROUNDUP(image) \div PGSIZE, !.sz = image]]
  /\ UNCHANGED <<kmem, lost>>

\* The end of an operation that has failed: the error path of its kind, when
\* k is the memory as the failure left it.
Abandoned(p, k) ==
  LET op == Op(p)
      d == deallocuvm(k, proc[p].pgdir, op.sz, proc[p].sz)
      freed == IF op.pg.dir = NoPage THEN k ELSE freevm(k, op.pg)
  IN CASE op.kind = "grow" -> [kmem |-> d.kmem,
                               proc |-> [proc EXCEPT ![p].pgdir = d.pg, ![p].op = NoOp]]
       [] op.kind = "fork" -> [kmem |-> kfree(freed, {proc[op.child].kstack}),
                               proc |-> [proc EXCEPT ![op.child] = UnusedSlot, ![p].op = NoOp]]
       [] OTHER -> [kmem |-> freed, proc |-> [proc EXCEPT ![p].op = NoOp]]
Bad(p, k) == kmem' = Abandoned(p, k).kmem /\ proc' = Abandoned(p, k).proc

\* setupkvm(): the directory, then the kernel's page tables.
Building(p) == proc[p].st = "run" /\ Op(p).kind \in {"fork", "exec", "stack"}
NeedsKernel(p) == Building(p) /\ (Op(p).pg.dir = NoPage \/ Cardinality(Op(p).pg.ktab) < KTABS)
AddKernel(pg, page) == IF pg.dir = NoPage THEN [pg EXCEPT !.dir = page]
                       ELSE [pg EXCEPT !.ktab = @ \cup {page}]
setupkvm(p) ==
  /\ NeedsKernel(p)
  /\ \/ ~CanAlloc(kmem) /\ Bad(p, kmem)
     \/ /\ CanAlloc(kmem)
        /\ kmem' = kalloc(kmem, "table")
        /\ proc' = [proc EXCEPT ![p].op.pg = AddKernel(@, FreePage(kmem))]
  /\ UNCHANGED lost

InLoop(p) == /\ proc[p].st = "run" /\ Op(p).kind # "user" /\ ~NeedsKernel(p)
             /\ Op(p).a < Op(p).end

\* What a new page holds: a copy in copyuvm(), zeros in allocuvm().
NewPage(p) == IF Op(p).kind = "fork" THEN kmem[proc[p].pgdir.pte[Op(p).a]].data
              ELSE "zero"

\* The loops of allocuvm() and copyuvm(): a page,
AllocPage(p) ==
  /\ InLoop(p) /\ Op(p).mem = NoPage
  /\ \/ ~CanAlloc(kmem) /\ Bad(p, kmem)
     \/ /\ CanAlloc(kmem)
        /\ kmem' = kalloc(kmem, NewPage(p))
        /\ proc' = [proc EXCEPT ![p].op.mem = FreePage(kmem)]
  /\ UNCHANGED lost

\* mappages() fails: allocuvm() gives the page in hand back, copyuvm() does not.
MapFails(p) ==
  IF Op(p).kind = "fork"
    THEN Bad(p, kmem) /\ lost' = lost \cup {Op(p).mem}
    ELSE Bad(p, kfree(kmem, {Op(p).mem})) /\ UNCHANGED lost

\* and its mapping, with the flags of the parent's page in copyuvm().
MapPage(p) ==
  LET user == IF Op(p).kind = "fork" THEN proc[p].pgdir.user[Op(p).a] ELSE TRUE
      m == mappages(kmem, Target(p), Op(p).a, Op(p).mem, user)
  IN
  /\ InLoop(p) /\ Op(p).mem # NoPage
  /\ \/ NeedsTable(Target(p), Op(p).a) /\ ~CanAlloc(kmem) /\ MapFails(p)
     \/ /\ NeedsTable(Target(p), Op(p).a) => CanAlloc(kmem)
        /\ kmem' = m.kmem
        /\ proc' = [proc EXCEPT ![p] = [WithTarget(p, m.pg) EXCEPT
                                          !.op.a = Op(p).a + 1, !.op.mem = NoPage]]
        /\ UNCHANGED lost

Built(p, kind) == /\ proc[p].st = "run" /\ Op(p).kind = kind /\ ~NeedsKernel(p)
                  /\ Op(p).a >= Op(p).end

\* The end of growproc().
Grown(p) ==
  /\ Built(p, "grow")
  /\ proc' = [proc EXCEPT ![p].sz = Op(p).sz, ![p].op = NoOp]
  /\ UNCHANGED <<kmem, lost>>

\* The end of fork(): the child runs.
Forked(p) ==
  /\ Built(p, "fork")
  /\ proc' = [proc EXCEPT ![Op(p).child].st = "run", ![Op(p).child].sz = proc[p].sz,
                          ![Op(p).child].pgdir = Op(p).pg, ![p].op = NoOp]
  /\ UNCHANGED <<kmem, lost>>

\* loaduvm() reads the image and two more pages are asked for; or one of both
\* fails.
loaduvm(p) ==
  LET stack == Op(p).end + 2 IN
  /\ Built(p, "exec")
  /\ \/ Bad(p, kmem)
     \/ /\ stack * PGSIZE < KERNBASE
        /\ kmem' = [m \in Pages |-> IF m \in Range(Op(p).pg.pte)
                                      THEN [kmem[m] EXCEPT !.data = "data"] ELSE kmem[m]]
        /\ proc' = [proc EXCEPT ![p].op.kind = "stack", ![p].op.end = stack,
                                ![p].op.sz = stack * PGSIZE]
  /\ UNCHANGED lost

\* The end of exec(): arguments that do not fit into the last page run into
\* the one below it, which copyout() refuses; else the image is the process's.
commit(p) ==
  LET guard == Op(p).end - 2
      pg == clearpteu(Op(p).pg, guard)
  IN
  /\ Built(p, "stack")
  /\ \/ ~copyout(pg, guard) /\ Bad(p, kmem)
     \/ /\ proc' = [proc EXCEPT ![p].pgdir = pg, ![p].sz = Op(p).sz, ![p].op = NoOp]
        /\ kmem' = freevm(kmem, proc[p].pgdir)
  /\ UNCHANGED lost

\* exit(), also after a fault; orphans go to the first process.
exit(p) ==
  /\ p # 1 /\ (User(p) \/ proc[p].st = "fault")
  /\ proc' = [q \in Slots |->
       IF q = p THEN [proc[p] EXCEPT !.st = "ZOMBIE"]
       ELSE IF proc[q].parent = p THEN [proc[q] EXCEPT !.parent = 1] ELSE proc[q]]
  /\ UNCHANGED <<kmem, lost>>

\* wait(): the child's stack and address space are freed.
wait(p) ==
  /\ User(p)
  /\ \E c \in Slots :
       /\ proc[c].st = "ZOMBIE" /\ proc[c].parent = p
       /\ kmem' = freevm(kfree(kmem, {proc[c].kstack}), proc[c].pgdir)
       /\ proc' = [proc EXCEPT ![c] = UnusedSlot]
  /\ UNCHANGED lost

VmNext == \E p \in Slots :
  \/ \E n \in Shrink : sbrkLess(p, n)
  \/ \E n \in Amounts : sbrkMore(p, n)
  \/ fork(p)
  \/ \E image \in Images : exec(p, image)
  \/ setupkvm(p) \/ AllocPage(p) \/ MapPage(p) \/ Grown(p) \/ Forked(p)
  \/ loaduvm(p) \/ commit(p) \/ exit(p) \/ wait(p)

VmSpec == VmInit /\ [][VmNext]_vmvars

-----------------------------------------------------------------------------
\* How many processes and operations a page belongs to.
Owners(m) ==
    Cardinality({p \in Slots : proc[p].kstack = m})
  + Cardinality({p \in Slots : m \in PageSet(proc[p].pgdir)})
  + Cardinality({p \in Slots : m \in PageSet(Op(p).pg)})
  + Cardinality({p \in Slots : Op(p).mem = m})

\* Every page is free once or has one owner, wherever an operation may have
\* run out of memory: none is freed twice, shared, or lost except by
\* copyuvm(), which forgets the page that it cannot map.
Accounted == \A m \in Pages :
  kmem[m].free + Owners(m) = IF m \in lost THEN 0 ELSE 1

\* A process in user mode has all pages below its size, none above, and
\* nothing that was freed before in them.
Present == \A p \in Slots : User(p) =>
  \A va \in Vas :
    LET m == proc[p].pgdir.pte[va] IN
    /\ (m # NoPage) <=> (va * PGSIZE < proc[p].sz)
    /\ m # NoPage => kmem[m].data \notin {"junk", "table", "stack"}

\* Virtual memory (kalloc.c, vm.c, exec.c): every page is free once or has one
\* owner, but for the page that copyuvm() has allocated when mappages() fails
\* (vm.c:335), which it forgets; and a process has the pages below its size,
\* cleared or filled, wherever an operation runs out of memory.
PagesRight == Accounted /\ Present
=============================================================================
