---------------------------- MODULE FilesProofs ----------------------------
(***************************************************************************)
(* What the kernel counts for files is right, whatever the programs do and *)
(* whatever is on the disk.  FilesInv is the inductive invariant:          *)
(*   LocalOK   where a process may go on, and that only a running process  *)
(*             has a directory and files;                                  *)
(*   FilesOK   a file has as many references as descriptors, and a free    *)
(*             one is no inode's;                                          *)
(*   LocksOK   a locked inode is locked by a process inside a call that    *)
(*             locks it, and by nobody else;                               *)
(*   OpsOK     the open transactions are those of calls under way;         *)
(*   RefsOK    an inode has as many references as files and places in      *)
(*             processes refer to it: the current directory, the inode and *)
(*             the directory a call works on, and what iput() is to drop.  *)
(* A step of one process is compared by what that process holds before and *)
(* after it (Count), so that each action has one short lemma.              *)
(***************************************************************************)
EXTENDS Files, Numbers, FiniteSetTheorems

-----------------------------------------------------------------------------
(* What a process holds.                                                   *)

\* A record with the fields of a process, and of a file.
Fields == {"st", "parent", "killed", "prog", "at", "ok", "pc", "then", "next",
           "fail", "path", "par", "name", "ip", "dp", "put", "todo", "cwd", "ofile"}
Rec(r) == r = [x \in Fields |-> r[x]]
FileFields == {"ref", "type", "ip", "pipe", "off", "readable", "writable"}
FileRec(t) == t = [x \in FileFields |-> t[x]]

\* Where a process is, or will be after an iput().
Label(r) == IF r.pc \in {"put", "drop"} THEN r.then ELSE r.pc

\* The places where a process keeps references to inodes, and when they are
\* one.
Kinds == {"cwd", "ip", "dp", "put"}
WithIp == {"walk", "create", "open", "exists", "made", "link", "link2", "linkexists",
           "unlink", "unlink2", "unlink3", "chdir", "chdired", "exec"}
WithDp == {"link2", "linkexists", "linked", "linkbad", "unlink2", "unlinkbad"}
Refers(r, k, i) ==
  /\ r.st = "run"
  /\ \/ k = "cwd" /\ r.cwd = i /\ Label(r) \notin {"chdired", "exitcwd"}
     \/ k = "ip" /\ r.ip = i /\ Label(r) \in WithIp
     \/ k = "dp" /\ r.dp = i /\ (Label(r) \in WithDp \/ (Label(r) = "walk" /\ r.next = "link2"))
     \/ k = "put" /\ r.put = i /\ r.pc \in {"put", "drop"}

\* The inode that a process has locked.
Locks(r, i) ==
  /\ r.st = "run"
  /\ \/ r.ip = i /\ Label(r) \in {"made", "linkexists", "unlink3"}
     \/ r.dp = i /\ Label(r) \in {"unlink2", "unlinkbad"}

InOp(r) == r.st = "run" /\ r.pc \notin {"user", "exit", "write"}

NoFiles(r) == \A d \in Fd : r.ofile[d] = 0

\* Where it may go on, and that exit() closes the files first.
Shape(r) ==
  /\ r.pc \in {"put", "drop"} => r.then \notin {"put", "drop", "user", "exit", "write"}
  /\ Label(r) = "walk" =>
       \/ r.next \in {"create", "open", "unlink", "link", "chdir", "exec"} /\ r.fail = "fail"
       \/ r.next = "link2" /\ r.fail = "linkbad"
  /\ Label(r) = "exitcwd" => NoFiles(r)

Local(r) ==
  /\ Rec(r)
  /\ r.ofile \in [Fd -> 0..NFILE]
  /\ r.st # "run" => r.cwd = 0 /\ NoFiles(r)
  /\ r.st = "run" => Shape(r)

-----------------------------------------------------------------------------
(* The invariant, of processes pr, files t, inodes c and operations o.     *)

IcSet == [Inum -> [ref : Int, valid : BOOLEAN, lock : Proc \cup {0}]]

Places(pr, i) == {x \in Proc \X Kinds : Refers(pr[x[1]], x[2], i)}
FilesOf(t, i) == {f \in File : t[f].type = "inode" /\ t[f].ip = i}
FdsOf(pr, f) == {pd \in Proc \X Fd : pr[pd[1]].ofile[pd[2]] = f}

LocalOK(pr) == pr = [p \in Proc |-> pr[p]] /\ \A p \in Proc : Local(pr[p])
FilesOK(t, pr) ==
  /\ t = [f \in File |-> t[f]]
  /\ \A f \in File : /\ FileRec(t[f])
                     /\ t[f].ref = Cardinality(FdsOf(pr, f))
                     /\ t[f].ref = 0 => t[f].type # "inode"
LocksOK(c, pr) ==
  \A i \in Inum : c[i].lock # 0 => Locks(pr[c[i].lock], i)
OpsOK(o, pr) == o \subseteq Proc /\ \A p \in o : InOp(pr[p])
RefsOK(c, t, pr) ==
  /\ c \in IcSet
  /\ \A i \in Inum : c[i].ref = Cardinality(FilesOf(t, i)) + Cardinality(Places(pr, i))

FilesInv == LocalOK(proc) /\ FilesOK(ft, proc) /\ LocksOK(ic, proc) /\ OpsOK(op, proc)
            /\ RefsOK(ic, ft, proc)

-----------------------------------------------------------------------------
(* Counting.                                                               *)

One(b) == IF b THEN 1 ELSE 0

\* The references that a process has to i.
Count(r, i) == One(Refers(r, "cwd", i)) + One(Refers(r, "ip", i))
               + One(Refers(r, "dp", i)) + One(Refers(r, "put", i))

\* The constants as the leaves need them.
LEMMA FilesFacts ==
  /\ Proc \subseteq Nat \ {0} /\ IsFiniteSet(Proc) /\ 1 \in Proc /\ 0 \notin Proc
  /\ Inum \subseteq Nat \ {0} /\ 0 \notin Inum
  /\ IsFiniteSet(File) /\ IsFiniteSet(Fd) /\ 0 \notin File
  /\ File = 1..NFILE /\ NFILE \in Nat /\ NOFILE \in Nat /\ Fd = 0..(NOFILE - 1)
  <1>1. NFILE \in Nat /\ NOFILE \in Nat /\ 1 \in Int /\ NFILE \in Int /\ 0 \in Int /\ NOFILE - 1 \in Int
    BY FilesAssumption
  <1>2. IsFiniteSet(1..NFILE) /\ IsFiniteSet(0..(NOFILE - 1))
    BY <1>1, FS_Interval
  <1> QED
    BY <1>1, <1>2, FilesAssumption DEF File, Fd

\* One element more, or not.
LEMMA AddIf ==
  ASSUME NEW S, IsFiniteSet(S), NEW x, x \notin S, NEW b, NEW T,
         T = S \cup (IF b THEN {x} ELSE {})
  PROVE  IsFiniteSet(T) /\ Cardinality(T) = Cardinality(S) + One(b)
  <1>1. CASE b
    <2>1. T = S \cup {x}
      BY <1>1
    <2> QED
      BY <1>1, <2>1, FS_AddElement, FS_CardinalityType DEF One
  <1>2. CASE ~b
    <2>1. T = S
      BY <1>2
    <2> QED
      BY <1>2, <2>1, FS_CardinalityType DEF One
  <1> QED
    BY <1>1, <1>2

\* The places of one process.
Mine(p, r, i) == {x \in {p} \X Kinds : Refers(r, x[2], i)}

\* They are as many as Count() says.
LEMMA MineCount ==
  ASSUME NEW p, NEW r, NEW i
  PROVE  IsFiniteSet(Mine(p, r, i)) /\ Cardinality(Mine(p, r, i)) = Count(r, i)
  <1> DEFINE If(k) == IF Refers(r, k, i) THEN {<<p, k>>} ELSE {}
             S1 == {} \cup If("cwd")
             S2 == S1 \cup If("ip")
             S3 == S2 \cup If("dp")
             S4 == S3 \cup If("put")
  <1>0. IsFiniteSet({}) /\ Cardinality({}) = 0
    BY FS_EmptySet
  <1>1. IsFiniteSet(S1) /\ Cardinality(S1) = Cardinality({}) + One(Refers(r, "cwd", i))
    BY <1>0, AddIf
  <1>2. <<p, "ip">> \notin S1 /\ S2 = S1 \cup (IF Refers(r, "ip", i) THEN {<<p, "ip">>} ELSE {})
    OBVIOUS
  <1>7. <<p, "dp">> \notin S2 /\ S3 = S2 \cup (IF Refers(r, "dp", i) THEN {<<p, "dp">>} ELSE {})
    OBVIOUS
  <1>8. <<p, "put">> \notin S3 /\ S4 = S3 \cup (IF Refers(r, "put", i) THEN {<<p, "put">>} ELSE {})
    OBVIOUS
  <1>6. Mine(p, r, i) = S4
    BY DEF Kinds, Mine
  <1> HIDE DEF S1, S2, S3, S4
  <1>3. IsFiniteSet(S2) /\ Cardinality(S2) = Cardinality(S1) + One(Refers(r, "ip", i))
    BY <1>1, <1>2, AddIf
  <1>4. IsFiniteSet(S3) /\ Cardinality(S3) = Cardinality(S2) + One(Refers(r, "dp", i))
    BY <1>3, <1>7, AddIf
  <1>5. IsFiniteSet(S4) /\ Cardinality(S4) = Cardinality(S3) + One(Refers(r, "put", i))
    BY <1>4, <1>8, AddIf
  <1> QED
    BY <1>0, <1>1, <1>3, <1>4, <1>5, <1>6 DEF Count, One

\* A step of one process changes the count of an inode by its own.
LEMMA PlaceCount ==
  ASSUME NEW F, NEW G, NEW p \in Proc, NEW i,
         \A x \in Proc \ {p}, k \in Kinds : Refers(G[x], k, i) <=> Refers(F[x], k, i)
  PROVE  /\ IsFiniteSet(Places(F, i)) /\ IsFiniteSet(Places(G, i))
         /\ Cardinality(Places(F, i)) \in Nat /\ Cardinality(Places(G, i)) \in Nat
         /\ Cardinality(Places(G, i)) = Cardinality(Places(F, i)) - Count(F[p], i) + Count(G[p], i)
  <1> DEFINE Others == {x \in (Proc \ {p}) \X Kinds : Refers(F[x[1]], x[2], i)}
             MineF == Mine(p, F[p], i)
             MineG == Mine(p, G[p], i)
  <1>1. IsFiniteSet(Proc \X Kinds)
    <2>1. IsFiniteSet(Kinds)
      <3>1. Kinds = ((({} \cup {"cwd"}) \cup {"ip"}) \cup {"dp"}) \cup {"put"}
        BY DEF Kinds
      <3> QED
        BY <3>1, FS_EmptySet, FS_AddElement
    <2> QED
      BY <2>1, FilesFacts, FS_Product
  <1>2. Others \subseteq Proc \X Kinds
    OBVIOUS
  <1>3. IsFiniteSet(Others)
    BY <1>1, <1>2, FS_Subset
  <1>4. /\ IsFiniteSet(MineF) /\ Cardinality(MineF) = Count(F[p], i)
        /\ IsFiniteSet(MineG) /\ Cardinality(MineG) = Count(G[p], i)
    BY MineCount
  <1>5. Places(F, i) = Others \cup MineF /\ Places(G, i) = Others \cup MineG
    BY DEF Places, Mine
  <1>6. Others \cap MineF = {} /\ Others \cap MineG = {}
    BY DEF Mine
  <1> HIDE DEF Others, MineF, MineG
  <1>7. /\ IsFiniteSet(Others \cup MineF) /\ IsFiniteSet(Others \cup MineG)
        /\ Cardinality(Others \cup MineF) = Cardinality(Others) + Cardinality(MineF) - Cardinality(Others \cap MineF)
        /\ Cardinality(Others \cup MineG) = Cardinality(Others) + Cardinality(MineG) - Cardinality(Others \cap MineG)
    BY <1>3, <1>4, FS_Union
  <1>8. Cardinality({}) = 0 /\ Cardinality(Others) \in Nat /\ Cardinality(MineF) \in Nat /\ Cardinality(MineG) \in Nat
    BY <1>3, <1>4, FS_EmptySet, FS_CardinalityType
  <1>9. /\ Cardinality(Places(F, i)) = Cardinality(Others) + Count(F[p], i)
        /\ Cardinality(Places(G, i)) = Cardinality(Others) + Count(G[p], i)
        /\ Count(F[p], i) \in Nat /\ Count(G[p], i) \in Nat
    <2>1. /\ Cardinality(Places(F, i)) = Cardinality(Others) + Cardinality(MineF) - 0
          /\ Cardinality(Places(G, i)) = Cardinality(Others) + Cardinality(MineG) - 0
      BY <1>5, <1>6, <1>7, <1>8, Zenon
    <2> QED
      BY <1>8, <1>4, <2>1
  <1> QED
    BY <1>5, <1>7, <1>8, <1>9

-----------------------------------------------------------------------------
(* Steps of one process.                                                   *)

\* What holds of the process, of the inodes and of the operations when p
\* becomes r: the parts of a step that have nothing to do with open files.
ProcStepOK(p, r) ==
  /\ Local(r) /\ proc' = [proc EXCEPT ![p] = r]
  /\ op' \subseteq op \cup {p} /\ (p \in op' => InOp(r))
  /\ ic' \in IcSet
  /\ \A i \in Inum : /\ ic'[i].lock \in {ic[i].lock, 0, p}
                     /\ ic'[i].lock = p => Locks(r, i)

\* Such a step keeps the invariant if it counts right.
LEMMA StepKeeps ==
  ASSUME FilesInv, NEW p \in Proc, NEW r, ProcStepOK(p, r), FilesOK(ft', proc'),
         \A i \in Inum : ic'[i].ref - Cardinality(FilesOf(ft', i)) - Count(r, i)
                         = ic[i].ref - Cardinality(FilesOf(ft, i)) - Count(proc[p], i),
         \A i \in Inum : Cardinality(FilesOf(ft', i)) \in Nat /\ Cardinality(FilesOf(ft, i)) \in Nat
  PROVE  FilesInv'
  <1>1. /\ proc = [q \in Proc |-> proc[q]] /\ proc' = [proc EXCEPT ![p] = r]
        /\ \A q \in Proc : Local(proc[q])
    BY DEF FilesInv, LocalOK, ProcStepOK
  <1>2. proc'[p] = r /\ \A q \in Proc \ {p} : proc'[q] = proc[q]
    BY <1>1
  <1>3. LocalOK(proc')
    <2>1. Local(r) /\ proc' = [q \in Proc |-> proc'[q]]
      BY <1>1 DEF ProcStepOK
    <2> QED
      BY <1>1, <1>2, <2>1 DEF LocalOK
  <1>4. LocksOK(ic', proc')
    <2> SUFFICES ASSUME NEW i \in Inum, ic'[i].lock # 0 PROVE Locks(proc'[ic'[i].lock], i)
      BY DEF LocksOK
    <2>1. ic'[i].lock \in {ic[i].lock, 0, p} /\ (ic'[i].lock = p => Locks(r, i))
      BY DEF ProcStepOK
    <2>2. CASE ic'[i].lock = p
      BY <1>2, <2>1, <2>2
    <2>3. CASE ic'[i].lock # p
      <3>1. ic'[i].lock = ic[i].lock /\ ic[i].lock # 0
        BY <2>1, <2>3
      <3>2. Locks(proc[ic[i].lock], i) /\ ic[i].lock \in Proc \ {p}
        BY <2>3, <3>1 DEF FilesInv, LocksOK, RefsOK, IcSet
      <3> QED
        BY <1>2, <3>1, <3>2
    <2> QED
      BY <2>2, <2>3
  <1>5. OpsOK(op', proc')
    BY <1>2 DEF FilesInv, OpsOK, ProcStepOK
  <1>6. RefsOK(ic', ft', proc')
    <2> SUFFICES ASSUME NEW i \in Inum
                 PROVE  ic'[i].ref = Cardinality(FilesOf(ft', i)) + Cardinality(Places(proc', i))
      BY DEF RefsOK, ProcStepOK
    <2>1. /\ Cardinality(Places(proc, i)) \in Nat /\ Cardinality(Places(proc', i)) \in Nat
          /\ Cardinality(Places(proc', i))
             = Cardinality(Places(proc, i)) - Count(proc[p], i) + Count(proc'[p], i)
      <3>1. \A x \in Proc \ {p}, k \in Kinds : Refers(proc'[x], k, i) <=> Refers(proc[x], k, i)
        BY <1>2
      <3> QED
        BY <3>1, PlaceCount, ZenonT(30)
    <2>2. ic[i].ref = Cardinality(FilesOf(ft, i)) + Cardinality(Places(proc, i))
      BY DEF FilesInv, RefsOK
    <2>3. Count(r, i) \in Nat /\ Count(proc[p], i) \in Nat
      BY DEF Count, One
    <2>4. ic'[i].ref \in Int
      BY DEF ProcStepOK, IcSet
    <2>5. ic'[i].ref - Cardinality(FilesOf(ft', i)) - Count(r, i)
          = ic[i].ref - Cardinality(FilesOf(ft, i)) - Count(proc[p], i)
      OBVIOUS
    <2>6. Cardinality(FilesOf(ft', i)) \in Nat /\ Cardinality(FilesOf(ft, i)) \in Nat
      OBVIOUS
    <2>7. Cardinality(Places(proc', i)) = Cardinality(Places(proc, i)) - Count(proc[p], i) + Count(r, i)
      BY <1>2, <2>1
    <2> QED
      BY <2>1, <2>2, <2>3, <2>4, <2>5, <2>6, <2>7
  <1> QED
    BY <1>3, <1>4, <1>5, <1>6 DEF FilesInv

\* The files of an inode are finitely many.
LEMMA FilesFinite ==
  ASSUME NEW t, NEW i
  PROVE  IsFiniteSet(FilesOf(t, i)) /\ Cardinality(FilesOf(t, i)) \in Nat
  <1>1. FilesOf(t, i) \subseteq File
    BY DEF FilesOf
  <1> QED
    BY <1>1, FilesFacts, FS_Subset, FS_CardinalityType

\* A step that opens and closes nothing.
SameFiles ==
  /\ ft' = [f \in File |-> ft'[f]]
  /\ \A f \in File : /\ FileRec(ft'[f]) /\ ft'[f].ref = ft[f].ref
                     /\ ft'[f].type = ft[f].type /\ ft'[f].ip = ft[f].ip

\* It keeps the invariant if the inodes it refers to are counted.
LEMMA QuietStep ==
  ASSUME FilesInv, NEW p \in Proc, NEW r, ProcStepOK(p, r), r.ofile = proc[p].ofile, SameFiles,
         \A i \in Inum : ic'[i].ref - Count(r, i) = ic[i].ref - Count(proc[p], i)
  PROVE  FilesInv'
  <1>1. \A i \in Inum : FilesOf(ft', i) = FilesOf(ft, i)
    BY DEF FilesOf, SameFiles
  <1>2. \A q \in Proc : proc'[q].ofile = proc[q].ofile
    BY DEF ProcStepOK, FilesInv, LocalOK
  <1>3. \A f \in File : FdsOf(proc', f) = FdsOf(proc, f)
    BY <1>2 DEF FdsOf
  <1>4. FilesOK(ft', proc')
    BY <1>3 DEF FilesOK, FilesInv, SameFiles
  <1>5. ASSUME NEW i \in Inum
        PROVE  ic'[i].ref - Cardinality(FilesOf(ft', i)) - Count(r, i)
               = ic[i].ref - Cardinality(FilesOf(ft, i)) - Count(proc[p], i)
    <2>1. ic'[i].ref \in Int /\ ic[i].ref \in Int
      BY DEF ProcStepOK, IcSet, FilesInv, RefsOK
    <2>2. Cardinality(FilesOf(ft', i)) = Cardinality(FilesOf(ft, i)) /\ Cardinality(FilesOf(ft, i)) \in Nat
      BY <1>1, FilesFinite
    <2>3. Count(r, i) \in Nat /\ Count(proc[p], i) \in Nat
      BY DEF Count, One
    <2>4. ic'[i].ref - Count(r, i) = ic[i].ref - Count(proc[p], i)
      OBVIOUS
    <2> QED
      BY <2>1, <2>2, <2>3, <2>4
  <1> QED
    BY <1>4, <1>5, FilesFinite, StepKeeps

-----------------------------------------------------------------------------
(* The operators of Files.                                                 *)

\* The cache of inodes: who is referred to and who is locked.
LEMMA IgetIs ==
  ASSUME NEW c \in IcSet, NEW v
  PROVE  /\ Iget(c, v) \in IcSet
         /\ \A i \in Inum : Iget(c, v)[i].ref = c[i].ref + One(v = i) /\ Iget(c, v)[i].lock = c[i].lock
  <1>1. CASE v \in Inum
    <2> DEFINE val == c[v].valid /\ c[v].ref > 0
               m == [c[v] EXCEPT !.ref = c[v].ref + 1]
               n == [m EXCEPT !.valid = val]
               d == [c EXCEPT ![v] = m]
    <2>1. val \in BOOLEAN /\ Iget(c, v) = [d EXCEPT ![v] = [d[v] EXCEPT !.valid = val]]
      BY DEF Iget
    <2> HIDE DEF val
    <2>2. c[v] \in [ref : Int, valid : BOOLEAN, lock : Proc \cup {0}] /\ c = [i \in Inum |-> c[i]]
      BY <1>1 DEF IcSet
    <2>3. /\ m \in [ref : Int, valid : BOOLEAN, lock : Proc \cup {0}]
          /\ m.ref = c[v].ref + 1 /\ m.lock = c[v].lock
      BY <2>2
    <2>4. d[v] = m /\ d = [i \in Inum |-> IF i = v THEN m ELSE c[i]]
      BY <1>1, <2>2
    <2> HIDE DEF m
    <2>5. /\ n \in [ref : Int, valid : BOOLEAN, lock : Proc \cup {0}]
          /\ n.ref = m.ref /\ n.lock = m.lock
      BY <2>1, <2>3
    <2> HIDE DEF d, n
    <2>6. [d[v] EXCEPT !.valid = val] = n
      BY <2>4 DEF n
    <2>7. Iget(c, v) = [i \in Inum |-> IF i = v THEN n ELSE c[i]]
      BY <2>1, <2>4, <2>6
    <2> QED
      BY <1>1, <2>2, <2>3, <2>5, <2>7 DEF IcSet, One
  <1>2. CASE v \notin Inum
    <2>1. Iget(c, v) = c
      BY <1>2 DEF Iget, IcSet
    <2> QED
      BY <1>2, <2>1 DEF IcSet, One
  <1> QED
    BY <1>1, <1>2

\* An ilock() and iunlock() in one step refers to nothing and locks nothing.
LEMMA VisitIs ==
  ASSUME NEW c \in IcSet, NEW v
  PROVE  /\ Visit(c, v) \in IcSet
         /\ \A i \in Inum : Visit(c, v)[i].ref = c[i].ref /\ Visit(c, v)[i].lock = c[i].lock
  BY DEF IcSet, Visit

\* iunlock() takes one lock away.
LEMMA IunlockIs ==
  ASSUME NEW c \in IcSet, NEW v
  PROVE  /\ Iunlock(c, v) \in IcSet
         /\ \A i \in Inum : /\ Iunlock(c, v)[i].ref = c[i].ref
                            /\ Iunlock(c, v)[i].lock = IF v = i THEN 0 ELSE c[i].lock
  BY DEF IcSet, Iunlock

\* ilock() sets one lock.
LEMMA IlockIs ==
  ASSUME NEW c \in IcSet, NEW v, NEW p \in Proc
  PROVE  /\ Ilock(c, v, p) \in IcSet
         /\ \A i \in Inum : /\ Ilock(c, v, p)[i].ref = c[i].ref
                            /\ Ilock(c, v, p)[i].lock = IF v = i THEN p ELSE c[i].lock
  BY DEF IcSet, Ilock

\* iput() changes an entry, if there is one.
Invalid(c, v) == [c EXCEPT ![v].valid = FALSE]
Dropped(c, v) == [c EXCEPT ![v].ref = @ - 1]

\* An entry that is not valid any more counts and locks as before.
LEMMA InvalidIs ==
  ASSUME NEW c \in IcSet, NEW v
  PROVE  /\ Invalid(c, v) \in IcSet
         /\ \A i \in Inum : Invalid(c, v)[i].ref = c[i].ref /\ Invalid(c, v)[i].lock = c[i].lock
  BY DEF IcSet, Invalid

\* One reference less.
LEMMA DroppedIs ==
  ASSUME NEW c \in IcSet, NEW v
  PROVE  /\ Dropped(c, v) \in IcSet
         /\ \A i \in Inum : Dropped(c, v)[i].ref = c[i].ref - One(v = i) /\ Dropped(c, v)[i].lock = c[i].lock
  <1> DEFINE m == [c[v] EXCEPT !.ref = @ - 1]
  <1>1. c = [i \in Inum |-> c[i]] /\ \A i \in Inum : c[i] \in [ref : Int, valid : BOOLEAN, lock : Proc \cup {0}]
    BY DEF IcSet
  <1>2. Dropped(c, v) = [i \in Inum |-> IF i = v THEN m ELSE c[i]]
    BY <1>1 DEF Dropped
  <1>3. ASSUME v \in Inum
        PROVE  /\ m \in [ref : Int, valid : BOOLEAN, lock : Proc \cup {0}]
               /\ m.ref = c[v].ref - 1 /\ m.lock = c[v].lock
    <2>1. c[v] \in [ref : Int, valid : BOOLEAN, lock : Proc \cup {0}]
      BY <1>1, <1>3
    <2> QED
      BY <2>1
  <1> HIDE DEF m
  <1>4. \A i \in Inum : Dropped(c, v)[i].ref = c[i].ref - One(v = i) /\ Dropped(c, v)[i].lock = c[i].lock
    BY <1>1, <1>2, <1>3 DEF One
  <1> QED
    BY <1>1, <1>2, <1>3, <1>4 DEF IcSet

\* Two records that differ only where nothing is held.
Alike(x, r) ==
  /\ x.st = r.st /\ x.ofile = r.ofile

\* The files stay.
LEMMA FilesStay == ASSUME FilesInv, ft' = ft PROVE SameFiles
  BY DEF SameFiles, FilesInv, FilesOK

\* What the invariant says of a process and of the inodes.
Known(p) ==
  /\ Local(proc[p]) /\ Rec(proc[p]) /\ ic \in IcSet /\ p # 0
  /\ \A i \in Inum : ic[i].lock = p => Locks(proc[p], i)
  /\ \A i \in Inum : ic[i].ref \in Int
  /\ p \in op => InOp(proc[p])

\* The invariant says so.
LEMMA InvFacts == ASSUME FilesInv, NEW p \in Proc PROVE Known(p)
  <1>1. p # 0
    BY FilesFacts
  <1>2. Local(proc[p]) /\ Rec(proc[p]) /\ ic \in IcSet
    BY DEF FilesInv, LocalOK, Local, RefsOK
  <1>3. \A i \in Inum : ic[i].ref \in Int
    BY <1>2 DEF IcSet
  <1> QED
    BY <1>1, <1>2, <1>3 DEF Known, FilesInv, LocksOK, OpsOK

\* A process that returns to its program.
LEMMA ReturnIs ==
  ASSUME NEW r, Rec(r), NEW v
  PROVE  /\ Rec(Return(r, v)) /\ Alike(Return(r, v), r) /\ Return(r, v).cwd = r.cwd
         /\ Return(r, v).pc = "user"
  <1> DEFINE b == r.ok /\ v \in Programs[r.prog][r.at].want
             x == [r EXCEPT !.pc = "user", !.at = @ + 1, !.ok = b, !.then = "", !.next = "",
                            !.fail = "", !.path = <<>>]
             y == [x EXCEPT !.par = FALSE, !.name = "", !.ip = 0, !.dp = 0, !.put = 0,
                            !.todo = <<>>]
  <1>1. Return(r, v) = y
    BY DEF Return
  <1> HIDE DEF b
  <1>2. Rec(x) /\ Alike(x, r) /\ x.cwd = r.cwd /\ x.pc = "user"
    BY DEF Rec, Fields, Alike
  <1> HIDE DEF x
  <1>3. Rec(y) /\ Alike(y, x) /\ y.cwd = x.cwd /\ y.pc = x.pc
    BY <1>2 DEF Rec, Fields, Alike
  <1> HIDE DEF y
  <1> QED
    BY <1>1, <1>2, <1>3 DEF Alike

\* What a step of p inside the kernel has to show of what it makes of p, and
\* of the locks.
Becomes(p, r) ==
  /\ proc[p].st = "run" /\ proc' = [proc EXCEPT ![p] = r]
  /\ Rec(r) /\ Alike(r, proc[p]) /\ Shape(r)
  /\ op' \subseteq op \cup {p} /\ (p \in op' => r.pc \notin {"user", "exit", "write"})

LockStep(p, r) ==
  \A i \in Inum : ic'[i].lock \in {ic[i].lock, 0, p} /\ (ic'[i].lock = p => Locks(r, i))

\* It is enough to show that.
LEMMA QuietKeeps ==
  ASSUME FilesInv, NEW p \in Proc, NEW r, Becomes(p, r), SameFiles,
         ic' \in IcSet, LockStep(p, r),
         \A i \in Inum : ic'[i].ref - Count(r, i) = ic[i].ref - Count(proc[p], i)
  PROVE  FilesInv'
  <1>1. Local(proc[p])
    BY InvFacts DEF Known
  <1>2. Local(r)
    BY <1>1 DEF Local, Alike, Becomes
  <1>3. ProcStepOK(p, r)
    BY <1>2 DEF ProcStepOK, InOp, Alike, Becomes, LockStep
  <1>4. r.ofile = proc[p].ofile
    BY DEF Alike, Becomes
  <1> QED
    BY <1>3, <1>4, QuietStep

-----------------------------------------------------------------------------
(* The calls of fs.c and sysfile.c.                                        *)

\* iput(): under the sleep-lock.
LEMMA PutCounts ==
  ASSUME FilesInv, NEW p \in Proc, Put(p)
  PROVE  FilesInv'
  <1>1. Known(p)
    BY InvFacts
  <1>2. CASE ~LastPut(proc[p].put)
    <2> DEFINE r == [proc[p] EXCEPT !.pc = "drop"]
    <2>1. /\ proc' = [proc EXCEPT ![p] = r] /\ ft' = ft /\ op' = op
          /\ ic' = ic
          /\ proc[p].st = "run"
          /\ proc[p].pc = "put"
      BY <1>2, <1>1 DEF Put, At_, Become
    <2>2. /\ Rec(r) /\ Alike(r, proc[p])
          /\ r.cwd = proc[p].cwd
          /\ r.pc = "drop"
          /\ r.put = proc[p].put
          /\ r.then = proc[p].then
          /\ r.ip = proc[p].ip
          /\ r.dp = proc[p].dp
          /\ r.next = proc[p].next
          /\ r.fail = proc[p].fail
      BY <1>1, <2>1 DEF Known, Rec, Fields, Alike
    <2> HIDE DEF r
    <2>3. Shape(r)
      BY <1>1, <2>1, <2>2 DEF Known, Local, Shape, Label, Alike, NoFiles
    <2>4. Becomes(p, r)
      BY <1>1, <2>1, <2>2, <2>3 DEF Becomes, Known, InOp, Local, Shape, Label
    <2>5. /\ ic' \in IcSet
          /\ \A i \in Inum : /\ ic'[i].ref = ic[i].ref
                             /\ ic'[i].lock = ic[i].lock
      BY <1>1, <2>1 DEF Known
    <2>6. LockStep(p, r)
      BY <1>1, <2>1, <2>2, <2>5 DEF LockStep, Known, Locks, Label, Alike
    <2>7. ASSUME NEW i \in Inum PROVE ic'[i].ref - Count(r, i) = ic[i].ref - Count(proc[p], i)
      BY <1>1, <2>1, <2>2, <2>5 DEF Known, Count, One, Refers, Label, WithIp, WithDp, Alike, Shape, Local
    <2>8. SameFiles /\ ic' \in IcSet
      BY <2>1, <2>5, FilesStay
    <2> QED
      BY <2>4, <2>6, <2>7, <2>8, QuietKeeps
  <1>3. CASE LastPut(proc[p].put)
    <2> DEFINE r == [proc[p] EXCEPT !.pc = "drop"]
    <2>1. /\ proc' = [proc EXCEPT ![p] = r] /\ ft' = ft /\ op' = op
          /\ ic' = Invalid(ic, proc[p].put)
          /\ proc[p].st = "run"
          /\ proc[p].pc = "put"
      BY <1>3, <1>1 DEF Put, At_, Become, Invalid
    <2>2. /\ Rec(r) /\ Alike(r, proc[p])
          /\ r.cwd = proc[p].cwd
          /\ r.pc = "drop"
          /\ r.put = proc[p].put
          /\ r.then = proc[p].then
          /\ r.ip = proc[p].ip
          /\ r.dp = proc[p].dp
          /\ r.next = proc[p].next
          /\ r.fail = proc[p].fail
      BY <1>1, <2>1 DEF Known, Rec, Fields, Alike
    <2> HIDE DEF r
    <2>3. Shape(r)
      BY <1>1, <2>1, <2>2 DEF Known, Local, Shape, Label, Alike, NoFiles
    <2>4. Becomes(p, r)
      BY <1>1, <2>1, <2>2, <2>3 DEF Becomes, Known, InOp, Local, Shape, Label
    <2>5. /\ ic' \in IcSet
          /\ \A i \in Inum : /\ ic'[i].ref = ic[i].ref
                             /\ ic'[i].lock = ic[i].lock
      BY <1>1, <2>1, InvalidIs DEF Known
    <2>6. LockStep(p, r)
      BY <1>1, <2>1, <2>2, <2>5 DEF LockStep, Known, Locks, Label, Alike
    <2>7. ASSUME NEW i \in Inum PROVE ic'[i].ref - Count(r, i) = ic[i].ref - Count(proc[p], i)
      BY <1>1, <2>1, <2>2, <2>5 DEF Known, Count, One, Refers, Label, WithIp, WithDp, Alike, Shape, Local
    <2>8. SameFiles /\ ic' \in IcSet
      BY <2>1, <2>5, FilesStay
    <2> QED
      BY <2>4, <2>6, <2>7, <2>8, QuietKeeps
  <1> QED
    BY <1>2, <1>3

\* iput(): the reference is dropped.
LEMMA DropCounts ==
  ASSUME FilesInv, NEW p \in Proc, Drop(p)
  PROVE  FilesInv'
  <1>1. Known(p)
    BY InvFacts
  <1> DEFINE r == [proc[p] EXCEPT !.pc = proc[p].then, !.put = 0, !.then = ""]
  <1>2. /\ proc' = [proc EXCEPT ![p] = r] /\ ft' = ft /\ op' = op
        /\ ic' = Dropped(ic, proc[p].put)
        /\ proc[p].st = "run"
        /\ proc[p].pc = "drop"
    BY DEF Drop, At_, Become, Dropped
  <1>3. /\ Rec(r) /\ Alike(r, proc[p])
        /\ r.cwd = proc[p].cwd
        /\ r.pc = proc[p].then
        /\ r.ip = proc[p].ip
        /\ r.dp = proc[p].dp
        /\ r.next = proc[p].next
        /\ r.fail = proc[p].fail
    BY <1>1, <1>2 DEF Known, Rec, Fields, Alike
  <1> HIDE DEF r
  <1>4. Shape(r)
    BY <1>1, <1>2, <1>3 DEF Known, Local, Shape, Label, Alike, NoFiles
  <1>5. Becomes(p, r)
    BY <1>1, <1>2, <1>3, <1>4 DEF Becomes, Known, InOp, Local, Shape, Label
  <1>6. /\ ic' \in IcSet
        /\ \A i \in Inum : /\ ic'[i].ref = ic[i].ref - One(proc[p].put = i)
                           /\ ic'[i].lock = ic[i].lock
    BY <1>1, <1>2, DroppedIs DEF Known
  <1>7. LockStep(p, r)
    BY <1>1, <1>2, <1>3, <1>6 DEF LockStep, Known, Locks, Label, Alike
  <1>8. ASSUME NEW i \in Inum PROVE ic'[i].ref - Count(r, i) = ic[i].ref - Count(proc[p], i)
    BY <1>1, <1>2, <1>3, <1>6 DEF Known, Count, One, Refers, Label, WithIp, WithDp, Alike, Shape, Local
  <1>9. SameFiles /\ ic' \in IcSet
    BY <1>2, <1>6, FilesStay
  <1> QED
    BY <1>5, <1>7, <1>8, <1>9, QuietKeeps

\* namex() is at the end of the path.
LEMMA WalkEndCounts ==
  ASSUME FilesInv, NEW p \in Proc, WalkEnd(p)
  PROVE  FilesInv'
  <1>1. Known(p)
    BY InvFacts
  <1>2. CASE proc[p].par
    <2> DEFINE r == PutThen(proc[p], proc[p].ip, proc[p].fail)
    <2>1. /\ proc' = [proc EXCEPT ![p] = r] /\ ft' = ft /\ op' = op
          /\ ic' = ic
          /\ proc[p].st = "run"
          /\ proc[p].pc = "walk"
      BY <1>2, <1>1 DEF WalkEnd, At_, Become
    <2>2. /\ Rec(r) /\ Alike(r, proc[p])
          /\ r.cwd = proc[p].cwd
          /\ r.pc = "put"
          /\ r.put = proc[p].ip
          /\ r.then = proc[p].fail
          /\ r.ip = proc[p].ip
          /\ r.dp = proc[p].dp
          /\ r.next = proc[p].next
          /\ r.fail = proc[p].fail
      BY <1>1, <2>1 DEF Known, Rec, Fields, Alike, PutThen
    <2> HIDE DEF r
    <2>3. Shape(r)
      BY <1>1, <2>1, <2>2 DEF Known, Local, Shape, Label, Alike, NoFiles
    <2>4. Becomes(p, r)
      BY <1>1, <2>1, <2>2, <2>3 DEF Becomes, Known, InOp, Local, Shape, Label
    <2>5. /\ ic' \in IcSet
          /\ \A i \in Inum : /\ ic'[i].ref = ic[i].ref
                             /\ ic'[i].lock = ic[i].lock
      BY <1>1, <2>1 DEF Known
    <2>6. LockStep(p, r)
      BY <1>1, <2>1, <2>2, <2>5 DEF LockStep, Known, Locks, Label, Alike
    <2>7. ASSUME NEW i \in Inum PROVE ic'[i].ref - Count(r, i) = ic[i].ref - Count(proc[p], i)
      BY <1>1, <2>1, <2>2, <2>5 DEF Known, Count, One, Refers, Label, WithIp, WithDp, Alike, Shape, Local
    <2>8. SameFiles /\ ic' \in IcSet
      BY <2>1, <2>5, FilesStay
    <2> QED
      BY <2>4, <2>6, <2>7, <2>8, QuietKeeps
  <1>3. CASE ~proc[p].par
    <2> DEFINE r == [proc[p] EXCEPT !.pc = proc[p].next]
    <2>1. /\ proc' = [proc EXCEPT ![p] = r] /\ ft' = ft /\ op' = op
          /\ ic' = ic
          /\ proc[p].st = "run"
          /\ proc[p].pc = "walk"
      BY <1>3, <1>1 DEF WalkEnd, At_, Become
    <2>2. /\ Rec(r) /\ Alike(r, proc[p])
          /\ r.cwd = proc[p].cwd
          /\ r.pc = proc[p].next
          /\ r.ip = proc[p].ip
          /\ r.dp = proc[p].dp
          /\ r.next = proc[p].next
          /\ r.fail = proc[p].fail
      BY <1>1, <2>1 DEF Known, Rec, Fields, Alike
    <2> HIDE DEF r
    <2>3. Shape(r)
      BY <1>1, <2>1, <2>2 DEF Known, Local, Shape, Label, Alike, NoFiles
    <2>4. Becomes(p, r)
      BY <1>1, <2>1, <2>2, <2>3 DEF Becomes, Known, InOp, Local, Shape, Label
    <2>5. /\ ic' \in IcSet
          /\ \A i \in Inum : /\ ic'[i].ref = ic[i].ref
                             /\ ic'[i].lock = ic[i].lock
      BY <1>1, <2>1 DEF Known
    <2>6. LockStep(p, r)
      BY <1>1, <2>1, <2>2, <2>5 DEF LockStep, Known, Locks, Label, Alike
    <2>7. ASSUME NEW i \in Inum PROVE ic'[i].ref - Count(r, i) = ic[i].ref - Count(proc[p], i)
      BY <1>1, <2>1, <2>2, <2>5 DEF Known, Count, One, Refers, Label, WithIp, WithDp, Alike, Shape, Local
    <2>8. SameFiles /\ ic' \in IcSet
      BY <2>1, <2>5, FilesStay
    <2> QED
      BY <2>4, <2>6, <2>7, <2>8, QuietKeeps
  <1> QED
    BY <1>2, <1>3

\* namex() takes one element of the path.
LEMMA WalkCounts ==
  ASSUME FilesInv, NEW p \in Proc, Walk(p)
  PROVE  FilesInv'
  <1>1. Known(p)
    BY InvFacts
  <1>2. CASE /\ ic' = Visit(ic, proc[p].ip)
             /\ Become(p, [proc[p] EXCEPT !.pc = proc[p].next, !.path = <<>>, !.name = Elem(Head(proc[p].path))])
    <2> DEFINE r == [proc[p] EXCEPT !.pc = proc[p].next, !.path = <<>>, !.name = Elem(Head(proc[p].path))]
    <2>1. /\ proc' = [proc EXCEPT ![p] = r] /\ ft' = ft /\ op' = op
          /\ ic' = Visit(ic, proc[p].ip)
          /\ proc[p].st = "run"
          /\ proc[p].pc = "walk"
      BY <1>2, <1>1 DEF Walk, At_, Become
    <2>2. /\ Rec(r) /\ Alike(r, proc[p])
          /\ r.cwd = proc[p].cwd
          /\ r.pc = proc[p].next
          /\ r.ip = proc[p].ip
          /\ r.dp = proc[p].dp
          /\ r.next = proc[p].next
          /\ r.fail = proc[p].fail
      BY <1>1, <2>1 DEF Known, Rec, Fields, Alike
    <2> HIDE DEF r
    <2>3. Shape(r)
      BY <1>1, <2>1, <2>2 DEF Known, Local, Shape, Label, Alike, NoFiles
    <2>4. Becomes(p, r)
      BY <1>1, <2>1, <2>2, <2>3 DEF Becomes, Known, InOp, Local, Shape, Label
    <2>5. /\ ic' \in IcSet
          /\ \A i \in Inum : /\ ic'[i].ref = ic[i].ref
                             /\ ic'[i].lock = ic[i].lock
      BY <1>1, <2>1, VisitIs DEF Known
    <2>6. LockStep(p, r)
      BY <1>1, <2>1, <2>2, <2>5 DEF LockStep, Known, Locks, Label, Alike
    <2>7. ASSUME NEW i \in Inum PROVE ic'[i].ref - Count(r, i) = ic[i].ref - Count(proc[p], i)
      BY <1>1, <2>1, <2>2, <2>5 DEF Known, Count, One, Refers, Label, WithIp, WithDp, Alike, Shape, Local
    <2>8. SameFiles /\ ic' \in IcSet
      BY <2>1, <2>5, FilesStay
    <2> QED
      BY <2>4, <2>6, <2>7, <2>8, QuietKeeps
  <1>3. CASE /\ ic' = Visit(ic, proc[p].ip)
             /\ Become(p, PutThen(proc[p], proc[p].ip, proc[p].fail))
    <2> DEFINE r == PutThen(proc[p], proc[p].ip, proc[p].fail)
    <2>1. /\ proc' = [proc EXCEPT ![p] = r] /\ ft' = ft /\ op' = op
          /\ ic' = Visit(ic, proc[p].ip)
          /\ proc[p].st = "run"
          /\ proc[p].pc = "walk"
      BY <1>3, <1>1 DEF Walk, At_, Become
    <2>2. /\ Rec(r) /\ Alike(r, proc[p])
          /\ r.cwd = proc[p].cwd
          /\ r.pc = "put"
          /\ r.put = proc[p].ip
          /\ r.then = proc[p].fail
          /\ r.ip = proc[p].ip
          /\ r.dp = proc[p].dp
          /\ r.next = proc[p].next
          /\ r.fail = proc[p].fail
      BY <1>1, <2>1 DEF Known, Rec, Fields, Alike, PutThen
    <2> HIDE DEF r
    <2>3. Shape(r)
      BY <1>1, <2>1, <2>2 DEF Known, Local, Shape, Label, Alike, NoFiles
    <2>4. Becomes(p, r)
      BY <1>1, <2>1, <2>2, <2>3 DEF Becomes, Known, InOp, Local, Shape, Label
    <2>5. /\ ic' \in IcSet
          /\ \A i \in Inum : /\ ic'[i].ref = ic[i].ref
                             /\ ic'[i].lock = ic[i].lock
      BY <1>1, <2>1, VisitIs DEF Known
    <2>6. LockStep(p, r)
      BY <1>1, <2>1, <2>2, <2>5 DEF LockStep, Known, Locks, Label, Alike
    <2>7. ASSUME NEW i \in Inum PROVE ic'[i].ref - Count(r, i) = ic[i].ref - Count(proc[p], i)
      BY <1>1, <2>1, <2>2, <2>5 DEF Known, Count, One, Refers, Label, WithIp, WithDp, Alike, Shape, Local
    <2>8. SameFiles /\ ic' \in IcSet
      BY <2>1, <2>5, FilesStay
    <2> QED
      BY <2>4, <2>6, <2>7, <2>8, QuietKeeps
  <1>4. CASE \E n : /\ ic' = Iget(Visit(ic, proc[p].ip), n)
                  /\ Become(p, [PutThen(proc[p], proc[p].ip, "walk") EXCEPT !.ip = n, !.path = Tail(@)])
    <2>0. PICK n : /\ ic' = Iget(Visit(ic, proc[p].ip), n)
                    /\ Become(p, [PutThen(proc[p], proc[p].ip, "walk") EXCEPT !.ip = n, !.path = Tail(@)])
      BY <1>4
    <2> DEFINE r == [PutThen(proc[p], proc[p].ip, "walk") EXCEPT !.ip = n, !.path = Tail(@)]
    <2>1. /\ proc' = [proc EXCEPT ![p] = r] /\ ft' = ft /\ op' = op
          /\ ic' = Iget(Visit(ic, proc[p].ip), n)
          /\ proc[p].st = "run"
          /\ proc[p].pc = "walk"
      BY <2>0, <1>1 DEF Walk, At_, Become
    <2>2. /\ Rec(r) /\ Alike(r, proc[p])
          /\ r.cwd = proc[p].cwd
          /\ r.pc = "put"
          /\ r.put = proc[p].ip
          /\ r.then = "walk"
          /\ r.ip = n
          /\ r.dp = proc[p].dp
          /\ r.next = proc[p].next
          /\ r.fail = proc[p].fail
      BY <1>1, <2>1 DEF Known, Rec, Fields, Alike, PutThen
    <2> HIDE DEF r
    <2>3. Shape(r)
      BY <1>1, <2>1, <2>2 DEF Known, Local, Shape, Label, Alike, NoFiles
    <2>4. Becomes(p, r)
      BY <1>1, <2>1, <2>2, <2>3 DEF Becomes, Known, InOp, Local, Shape, Label
    <2>9. /\ Visit(ic, proc[p].ip) \in IcSet
          /\ \A i \in Inum : Visit(ic, proc[p].ip)[i].ref = ic[i].ref /\ Visit(ic, proc[p].ip)[i].lock = ic[i].lock
      BY <1>1, VisitIs DEF Known
    <2>5. /\ ic' \in IcSet
          /\ \A i \in Inum : /\ ic'[i].ref = ic[i].ref + One(n = i)
                             /\ ic'[i].lock = ic[i].lock
      BY <1>1, <2>1, <2>9, IgetIs DEF Known
    <2>6. LockStep(p, r)
      BY <1>1, <2>1, <2>2, <2>5 DEF LockStep, Known, Locks, Label, Alike
    <2>7. ASSUME NEW i \in Inum PROVE ic'[i].ref - Count(r, i) = ic[i].ref - Count(proc[p], i)
      BY <1>1, <2>1, <2>2, <2>5 DEF Known, Count, One, Refers, Label, WithIp, WithDp, Alike, Shape, Local
    <2>8. SameFiles /\ ic' \in IcSet
      BY <2>1, <2>5, FilesStay
    <2> QED
      BY <2>4, <2>6, <2>7, <2>8, QuietKeeps
  <1> QED
    BY <1>2, <1>3, <1>4 DEF Walk

\* A call with a path begins.
LEMMA EnterCounts ==
  ASSUME FilesInv, NEW p \in Proc, Enter(p)
  PROVE  FilesInv'
  <1>1. Known(p)
    BY InvFacts
  <1> DEFINE r == Lookup(proc[p], p, Call(p).path, Creates(Call(p)) \/ Call(p).op = "unlink",
                         IF Creates(Call(p)) THEN "create" ELSE Call(p).op, "fail")
  <1>2. /\ proc' = [proc EXCEPT ![p] = r] /\ ft' = ft /\ op' = op \cup {p}
        /\ ic' = Iget(ic, Origin(p, Call(p).path))
        /\ proc[p].st = "run"
        /\ proc[p].pc = "user"
        /\ (IF Creates(Call(p)) THEN "create" ELSE Call(p).op) \in {"create", "open", "unlink", "link", "chdir", "exec"}
    BY DEF Enter, At_, Become, Calls, BeginOp, Creates
  <1>3. /\ Rec(r) /\ Alike(r, proc[p])
        /\ r.cwd = proc[p].cwd
        /\ r.pc = "walk"
        /\ r.ip = Origin(p, Call(p).path)
        /\ r.next \in {"create", "open", "unlink", "link", "chdir", "exec"}
        /\ r.fail = "fail"
    BY <1>1, <1>2 DEF Known, Rec, Fields, Alike, Lookup
  <1> HIDE DEF r
  <1>4. Shape(r)
    BY <1>1, <1>2, <1>3 DEF Known, Local, Shape, Label, Alike, NoFiles
  <1>5. Becomes(p, r)
    BY <1>1, <1>2, <1>3, <1>4 DEF Becomes, Known, InOp, Local, Shape, Label
  <1>6. /\ ic' \in IcSet
        /\ \A i \in Inum : /\ ic'[i].ref = ic[i].ref + One(Origin(p, Call(p).path) = i)
                           /\ ic'[i].lock = ic[i].lock
    BY <1>1, <1>2, IgetIs DEF Known
  <1>7. LockStep(p, r)
    BY <1>1, <1>2, <1>3, <1>6 DEF LockStep, Known, Locks, Label, Alike
  <1>8. ASSUME NEW i \in Inum PROVE ic'[i].ref - Count(r, i) = ic[i].ref - Count(proc[p], i)
    BY <1>1, <1>2, <1>3, <1>6 DEF Known, Count, One, Refers, Label, WithIp, WithDp, Alike, Shape, Local
  <1>9. SameFiles /\ ic' \in IcSet
    BY <1>2, <1>6, FilesStay
  <1> QED
    BY <1>5, <1>7, <1>8, <1>9, QuietKeeps

\* The end of a call.
LEMMA FinishCounts ==
  ASSUME FilesInv, NEW p \in Proc, Finish(p)
  PROVE  FilesInv'
  <1>1. Known(p)
    BY InvFacts
  <1> DEFINE w == Return(proc[p], IF proc[p].pc = "fail" THEN -1 ELSE 0)
             r == w
  <1>2. /\ proc' = [proc EXCEPT ![p] = r] /\ ft' = ft /\ op' = op \ {p}
        /\ ic' = ic
        /\ proc[p].st = "run"
        /\ proc[p].pc \in {"fail", "done"}
    BY DEF Finish, At_, Become, EndOp
  <1>12. /\ Rec(w) /\ Alike(w, proc[p]) /\ w.cwd = proc[p].cwd /\ w.pc = "user"
    BY <1>1, ReturnIs DEF Known
  <1> HIDE DEF w
  <1>3. /\ Rec(r) /\ Alike(r, proc[p])
        /\ r.cwd = proc[p].cwd
        /\ r.pc = "user"
    BY <1>1, <1>2, <1>12 DEF Known, Rec, Fields, Alike
  <1> HIDE DEF r
  <1>4. Shape(r)
    BY <1>1, <1>2, <1>3 DEF Known, Local, Shape, Label, Alike, NoFiles
  <1>5. Becomes(p, r)
    BY <1>1, <1>2, <1>3, <1>4 DEF Becomes, Known, InOp, Local, Shape, Label
  <1>6. /\ ic' \in IcSet
        /\ \A i \in Inum : /\ ic'[i].ref = ic[i].ref
                           /\ ic'[i].lock = ic[i].lock
    BY <1>1, <1>2 DEF Known
  <1>7. LockStep(p, r)
    BY <1>1, <1>2, <1>3, <1>6 DEF LockStep, Known, Locks, Label, Alike
  <1>8. ASSUME NEW i \in Inum PROVE ic'[i].ref - Count(r, i) = ic[i].ref - Count(proc[p], i)
    BY <1>1, <1>2, <1>3, <1>6 DEF Known, Count, One, Refers, Label, WithIp, WithDp, Alike, Shape, Local
  <1>9. SameFiles /\ ic' \in IcSet
    BY <1>2, <1>6, FilesStay
  <1> QED
    BY <1>5, <1>7, <1>8, <1>9, QuietKeeps

\* create() finds the name, has no inode left, or makes a file.
LEMMA CreateCounts ==
  ASSUME FilesInv, NEW p \in Proc, Create(p)
  PROVE  FilesInv'
  <1>1. Known(p)
    BY InvFacts
  <1>2. CASE \E n : /\ ic' = Iget(Visit(ic, proc[p].ip), n)
                  /\ Become(p, [PutThen(proc[p], proc[p].ip, "exists") EXCEPT !.ip = n])
    <2>0. PICK n : /\ ic' = Iget(Visit(ic, proc[p].ip), n)
                    /\ Become(p, [PutThen(proc[p], proc[p].ip, "exists") EXCEPT !.ip = n])
      BY <1>2
    <2> DEFINE r == [PutThen(proc[p], proc[p].ip, "exists") EXCEPT !.ip = n]
    <2>1. /\ proc' = [proc EXCEPT ![p] = r] /\ ft' = ft /\ op' = op
          /\ ic' = Iget(Visit(ic, proc[p].ip), n)
          /\ proc[p].st = "run"
          /\ proc[p].pc = "create"
      BY <2>0, <1>1 DEF Create, At_, Become
    <2>2. /\ Rec(r) /\ Alike(r, proc[p])
          /\ r.cwd = proc[p].cwd
          /\ r.pc = "put"
          /\ r.put = proc[p].ip
          /\ r.then = "exists"
          /\ r.ip = n
          /\ r.dp = proc[p].dp
      BY <1>1, <2>1 DEF Known, Rec, Fields, Alike, PutThen
    <2> HIDE DEF r
    <2>3. Shape(r)
      BY <1>1, <2>1, <2>2 DEF Known, Local, Shape, Label, Alike, NoFiles
    <2>4. Becomes(p, r)
      BY <1>1, <2>1, <2>2, <2>3 DEF Becomes, Known, InOp, Local, Shape, Label
    <2>9. /\ Visit(ic, proc[p].ip) \in IcSet
          /\ \A i \in Inum : Visit(ic, proc[p].ip)[i].ref = ic[i].ref /\ Visit(ic, proc[p].ip)[i].lock = ic[i].lock
      BY <1>1, VisitIs DEF Known
    <2>5. /\ ic' \in IcSet
          /\ \A i \in Inum : /\ ic'[i].ref = ic[i].ref + One(n = i)
                             /\ ic'[i].lock = ic[i].lock
      BY <1>1, <2>1, <2>9, IgetIs DEF Known
    <2>6. LockStep(p, r)
      BY <1>1, <2>1, <2>2, <2>5 DEF LockStep, Known, Locks, Label, Alike
    <2>7. ASSUME NEW i \in Inum PROVE ic'[i].ref - Count(r, i) = ic[i].ref - Count(proc[p], i)
      BY <1>1, <2>1, <2>2, <2>5 DEF Known, Count, One, Refers, Label, WithIp, WithDp, Alike, Shape, Local
    <2>8. SameFiles /\ ic' \in IcSet
      BY <2>1, <2>5, FilesStay
    <2> QED
      BY <2>4, <2>6, <2>7, <2>8, QuietKeeps
  <1>3. CASE ic' = ic /\ Become(p, [PutThen(proc[p], proc[p].ip, "made") EXCEPT !.ip = 0])
    <2> DEFINE r == [PutThen(proc[p], proc[p].ip, "made") EXCEPT !.ip = 0]
    <2>1. /\ proc' = [proc EXCEPT ![p] = r] /\ ft' = ft /\ op' = op
          /\ ic' = ic
          /\ proc[p].st = "run"
          /\ proc[p].pc = "create"
      BY <1>3, <1>1 DEF Create, At_, Become
    <2>2. /\ Rec(r) /\ Alike(r, proc[p])
          /\ r.cwd = proc[p].cwd
          /\ r.pc = "put"
          /\ r.put = proc[p].ip
          /\ r.then = "made"
          /\ r.ip = 0
          /\ r.dp = proc[p].dp
      BY <1>1, <2>1 DEF Known, Rec, Fields, Alike, PutThen
    <2> HIDE DEF r
    <2>3. Shape(r)
      BY <1>1, <2>1, <2>2 DEF Known, Local, Shape, Label, Alike, NoFiles
    <2>4. Becomes(p, r)
      BY <1>1, <2>1, <2>2, <2>3 DEF Becomes, Known, InOp, Local, Shape, Label
    <2>5. /\ ic' \in IcSet
          /\ \A i \in Inum : /\ ic'[i].ref = ic[i].ref
                             /\ ic'[i].lock = ic[i].lock
      BY <1>1, <2>1 DEF Known
    <2>6. LockStep(p, r)
      BY <1>1, <2>1, <2>2, <2>5 DEF LockStep, Known, Locks, Label, Alike
    <2>7. ASSUME NEW i \in Inum PROVE ic'[i].ref - Count(r, i) = ic[i].ref - Count(proc[p], i)
      BY <1>1, FilesFacts, <2>1, <2>2, <2>5 DEF Known, Count, One, Refers, Label, WithIp, WithDp, Alike, Shape, Local
    <2>8. SameFiles /\ ic' \in IcSet
      BY <2>1, <2>5, FilesStay
    <2> QED
      BY <2>4, <2>6, <2>7, <2>8, QuietKeeps
  <1>4. CASE \E n : /\ ic' = Ilock(Iget(Visit(ic, proc[p].ip), n), n, p)
                  /\ Become(p, [PutThen(proc[p], proc[p].ip, "made") EXCEPT !.ip = n])
    <2>0. PICK n : /\ ic' = Ilock(Iget(Visit(ic, proc[p].ip), n), n, p)
                    /\ Become(p, [PutThen(proc[p], proc[p].ip, "made") EXCEPT !.ip = n])
      BY <1>4
    <2> DEFINE r == [PutThen(proc[p], proc[p].ip, "made") EXCEPT !.ip = n]
    <2>1. /\ proc' = [proc EXCEPT ![p] = r] /\ ft' = ft /\ op' = op
          /\ ic' = Ilock(Iget(Visit(ic, proc[p].ip), n), n, p)
          /\ proc[p].st = "run"
          /\ proc[p].pc = "create"
      BY <2>0, <1>1 DEF Create, At_, Become
    <2>2. /\ Rec(r) /\ Alike(r, proc[p])
          /\ r.cwd = proc[p].cwd
          /\ r.pc = "put"
          /\ r.put = proc[p].ip
          /\ r.then = "made"
          /\ r.ip = n
          /\ r.dp = proc[p].dp
      BY <1>1, <2>1 DEF Known, Rec, Fields, Alike, PutThen
    <2> HIDE DEF r
    <2>3. Shape(r)
      BY <1>1, <2>1, <2>2 DEF Known, Local, Shape, Label, Alike, NoFiles
    <2>4. Becomes(p, r)
      BY <1>1, <2>1, <2>2, <2>3 DEF Becomes, Known, InOp, Local, Shape, Label
    <2>10. /\ Visit(ic, proc[p].ip) \in IcSet
           /\ \A i \in Inum : Visit(ic, proc[p].ip)[i].ref = ic[i].ref /\ Visit(ic, proc[p].ip)[i].lock = ic[i].lock
      BY <1>1, VisitIs DEF Known
    <2>9. /\ Iget(Visit(ic, proc[p].ip), n) \in IcSet
          /\ \A i \in Inum : Iget(Visit(ic, proc[p].ip), n)[i].ref = ic[i].ref + One(n = i) /\ Iget(Visit(ic, proc[p].ip), n)[i].lock = ic[i].lock
      BY <1>1, <2>10, IgetIs DEF Known
    <2>5. /\ ic' \in IcSet
          /\ \A i \in Inum : /\ ic'[i].ref = ic[i].ref + One(n = i)
                             /\ ic'[i].lock = IF n = i THEN p ELSE ic[i].lock
      BY <1>1, <2>1, <2>9, IlockIs DEF Known
    <2>6. LockStep(p, r)
      BY <1>1, <2>1, <2>2, <2>5 DEF LockStep, Known, Locks, Label, Alike
    <2>7. ASSUME NEW i \in Inum PROVE ic'[i].ref - Count(r, i) = ic[i].ref - Count(proc[p], i)
      BY <1>1, <2>1, <2>2, <2>5 DEF Known, Count, One, Refers, Label, WithIp, WithDp, Alike, Shape, Local
    <2>8. SameFiles /\ ic' \in IcSet
      BY <2>1, <2>5, FilesStay
    <2> QED
      BY <2>4, <2>6, <2>7, <2>8, QuietKeeps
  <1> QED
    BY <1>2, <1>3, <1>4 DEF Create

\* sys_link() counts the link.
LEMMA LinkCounts ==
  ASSUME FilesInv, NEW p \in Proc, Link(p)
  PROVE  FilesInv'
  <1>1. Known(p)
    BY InvFacts
  <1>2. CASE /\ ic' = Visit(ic, proc[p].ip)
             /\ Become(p, PutThen(proc[p], proc[p].ip, "fail"))
    <2> DEFINE r == PutThen(proc[p], proc[p].ip, "fail")
    <2>1. /\ proc' = [proc EXCEPT ![p] = r] /\ ft' = ft /\ op' = op
          /\ ic' = Visit(ic, proc[p].ip)
          /\ proc[p].st = "run"
          /\ proc[p].pc = "link"
      BY <1>2, <1>1 DEF Link, At_, Become
    <2>2. /\ Rec(r) /\ Alike(r, proc[p])
          /\ r.cwd = proc[p].cwd
          /\ r.pc = "put"
          /\ r.put = proc[p].ip
          /\ r.then = "fail"
          /\ r.ip = proc[p].ip
          /\ r.dp = proc[p].dp
          /\ r.next = proc[p].next
          /\ r.fail = proc[p].fail
      BY <1>1, <2>1 DEF Known, Rec, Fields, Alike, PutThen
    <2> HIDE DEF r
    <2>3. Shape(r)
      BY <1>1, <2>1, <2>2 DEF Known, Local, Shape, Label, Alike, NoFiles
    <2>4. Becomes(p, r)
      BY <1>1, <2>1, <2>2, <2>3 DEF Becomes, Known, InOp, Local, Shape, Label
    <2>5. /\ ic' \in IcSet
          /\ \A i \in Inum : /\ ic'[i].ref = ic[i].ref
                             /\ ic'[i].lock = ic[i].lock
      BY <1>1, <2>1, VisitIs DEF Known
    <2>6. LockStep(p, r)
      BY <1>1, <2>1, <2>2, <2>5 DEF LockStep, Known, Locks, Label, Alike
    <2>7. ASSUME NEW i \in Inum PROVE ic'[i].ref - Count(r, i) = ic[i].ref - Count(proc[p], i)
      BY <1>1, <2>1, <2>2, <2>5 DEF Known, Count, One, Refers, Label, WithIp, WithDp, Alike, Shape, Local
    <2>8. SameFiles /\ ic' \in IcSet
      BY <2>1, <2>5, FilesStay
    <2> QED
      BY <2>4, <2>6, <2>7, <2>8, QuietKeeps
  <1>3. CASE /\ ic' = Iget(Visit(ic, proc[p].ip), Origin(p, Call(p).new))
             /\ Become(p, Lookup([proc[p] EXCEPT !.dp = proc[p].ip], p, Call(p).new, TRUE, "link2", "linkbad"))
    <2> DEFINE r == Lookup([proc[p] EXCEPT !.dp = proc[p].ip], p, Call(p).new, TRUE, "link2", "linkbad")
    <2>1. /\ proc' = [proc EXCEPT ![p] = r] /\ ft' = ft /\ op' = op
          /\ ic' = Iget(Visit(ic, proc[p].ip), Origin(p, Call(p).new))
          /\ proc[p].st = "run"
          /\ proc[p].pc = "link"
      BY <1>3, <1>1 DEF Link, At_, Become
    <2>2. /\ Rec(r) /\ Alike(r, proc[p])
          /\ r.cwd = proc[p].cwd
          /\ r.pc = "walk"
          /\ r.ip = Origin(p, Call(p).new)
          /\ r.dp = proc[p].ip
          /\ r.next = "link2"
          /\ r.fail = "linkbad"
      BY <1>1, <2>1 DEF Known, Rec, Fields, Alike, Lookup
    <2> HIDE DEF r
    <2>3. Shape(r)
      BY <1>1, <2>1, <2>2 DEF Known, Local, Shape, Label, Alike, NoFiles
    <2>4. Becomes(p, r)
      BY <1>1, <2>1, <2>2, <2>3 DEF Becomes, Known, InOp, Local, Shape, Label
    <2>9. /\ Visit(ic, proc[p].ip) \in IcSet
          /\ \A i \in Inum : Visit(ic, proc[p].ip)[i].ref = ic[i].ref /\ Visit(ic, proc[p].ip)[i].lock = ic[i].lock
      BY <1>1, VisitIs DEF Known
    <2>5. /\ ic' \in IcSet
          /\ \A i \in Inum : /\ ic'[i].ref = ic[i].ref + One(Origin(p, Call(p).new) = i)
                             /\ ic'[i].lock = ic[i].lock
      BY <1>1, <2>1, <2>9, IgetIs DEF Known
    <2>6. LockStep(p, r)
      BY <1>1, <2>1, <2>2, <2>5 DEF LockStep, Known, Locks, Label, Alike
    <2>7. ASSUME NEW i \in Inum PROVE ic'[i].ref - Count(r, i) = ic[i].ref - Count(proc[p], i)
      BY <1>1, <2>1, <2>2, <2>5 DEF Known, Count, One, Refers, Label, WithIp, WithDp, Alike, Shape, Local
    <2>8. SameFiles /\ ic' \in IcSet
      BY <2>1, <2>5, FilesStay
    <2> QED
      BY <2>4, <2>6, <2>7, <2>8, QuietKeeps
  <1> QED
    BY <1>2, <1>3 DEF Link

\* sys_link() makes the entry, or finds one.
LEMMA Link2Counts ==
  ASSUME FilesInv, NEW p \in Proc, Link2(p)
  PROVE  FilesInv'
  <1>1. Known(p)
    BY InvFacts
  <1>2. CASE \E n : ic' = Iget(Ilock(ic, proc[p].ip, p), n) /\ Become(p, PutThen(proc[p], n, "linkexists"))
    <2>0. PICK n : ic' = Iget(Ilock(ic, proc[p].ip, p), n) /\ Become(p, PutThen(proc[p], n, "linkexists"))
      BY <1>2
    <2> DEFINE r == PutThen(proc[p], n, "linkexists")
    <2>1. /\ proc' = [proc EXCEPT ![p] = r] /\ ft' = ft /\ op' = op
          /\ ic' = Iget(Ilock(ic, proc[p].ip, p), n)
          /\ proc[p].st = "run"
          /\ proc[p].pc = "link2"
      BY <2>0, <1>1 DEF Link2, At_, Become
    <2>2. /\ Rec(r) /\ Alike(r, proc[p])
          /\ r.cwd = proc[p].cwd
          /\ r.pc = "put"
          /\ r.put = n
          /\ r.then = "linkexists"
          /\ r.ip = proc[p].ip
          /\ r.dp = proc[p].dp
      BY <1>1, <2>1 DEF Known, Rec, Fields, Alike, PutThen
    <2> HIDE DEF r
    <2>3. Shape(r)
      BY <1>1, <2>1, <2>2 DEF Known, Local, Shape, Label, Alike, NoFiles
    <2>4. Becomes(p, r)
      BY <1>1, <2>1, <2>2, <2>3 DEF Becomes, Known, InOp, Local, Shape, Label
    <2>9. /\ Ilock(ic, proc[p].ip, p) \in IcSet
          /\ \A i \in Inum : Ilock(ic, proc[p].ip, p)[i].ref = ic[i].ref /\ Ilock(ic, proc[p].ip, p)[i].lock = IF proc[p].ip = i THEN p ELSE ic[i].lock
      BY <1>1, IlockIs DEF Known
    <2>5. /\ ic' \in IcSet
          /\ \A i \in Inum : /\ ic'[i].ref = ic[i].ref + One(n = i)
                             /\ ic'[i].lock = IF proc[p].ip = i THEN p ELSE ic[i].lock
      BY <1>1, <2>1, <2>9, IgetIs DEF Known
    <2>6. LockStep(p, r)
      BY <1>1, <2>1, <2>2, <2>5 DEF LockStep, Known, Locks, Label, Alike
    <2>7. ASSUME NEW i \in Inum PROVE ic'[i].ref - Count(r, i) = ic[i].ref - Count(proc[p], i)
      BY <1>1, <2>1, <2>2, <2>5 DEF Known, Count, One, Refers, Label, WithIp, WithDp, Alike, Shape, Local
    <2>8. SameFiles /\ ic' \in IcSet
      BY <2>1, <2>5, FilesStay
    <2> QED
      BY <2>4, <2>6, <2>7, <2>8, QuietKeeps
  <1>3. CASE /\ ic' = Visit(ic, proc[p].ip)
             /\ Become(p, PutThen(proc[p], proc[p].ip, "linked"))
    <2> DEFINE r == PutThen(proc[p], proc[p].ip, "linked")
    <2>1. /\ proc' = [proc EXCEPT ![p] = r] /\ ft' = ft /\ op' = op
          /\ ic' = Visit(ic, proc[p].ip)
          /\ proc[p].st = "run"
          /\ proc[p].pc = "link2"
      BY <1>3, <1>1 DEF Link2, At_, Become
    <2>2. /\ Rec(r) /\ Alike(r, proc[p])
          /\ r.cwd = proc[p].cwd
          /\ r.pc = "put"
          /\ r.put = proc[p].ip
          /\ r.then = "linked"
          /\ r.ip = proc[p].ip
          /\ r.dp = proc[p].dp
          /\ r.next = proc[p].next
          /\ r.fail = proc[p].fail
      BY <1>1, <2>1 DEF Known, Rec, Fields, Alike, PutThen
    <2> HIDE DEF r
    <2>3. Shape(r)
      BY <1>1, <2>1, <2>2 DEF Known, Local, Shape, Label, Alike, NoFiles
    <2>4. Becomes(p, r)
      BY <1>1, <2>1, <2>2, <2>3 DEF Becomes, Known, InOp, Local, Shape, Label
    <2>5. /\ ic' \in IcSet
          /\ \A i \in Inum : /\ ic'[i].ref = ic[i].ref
                             /\ ic'[i].lock = ic[i].lock
      BY <1>1, <2>1, VisitIs DEF Known
    <2>6. LockStep(p, r)
      BY <1>1, <2>1, <2>2, <2>5 DEF LockStep, Known, Locks, Label, Alike
    <2>7. ASSUME NEW i \in Inum PROVE ic'[i].ref - Count(r, i) = ic[i].ref - Count(proc[p], i)
      BY <1>1, <2>1, <2>2, <2>5 DEF Known, Count, One, Refers, Label, WithIp, WithDp, Alike, Shape, Local
    <2>8. SameFiles /\ ic' \in IcSet
      BY <2>1, <2>5, FilesStay
    <2> QED
      BY <2>4, <2>6, <2>7, <2>8, QuietKeeps
  <1> QED
    BY <1>2, <1>3 DEF Link2

\* sys_link() lets go of the directory.
LEMMA LinkExistsCounts ==
  ASSUME FilesInv, NEW p \in Proc, LinkExists(p)
  PROVE  FilesInv'
  <1>1. Known(p)
    BY InvFacts
  <1> DEFINE r == PutThen(proc[p], proc[p].ip, "linkbad")
  <1>2. /\ proc' = [proc EXCEPT ![p] = r] /\ ft' = ft /\ op' = op
        /\ ic' = Iunlock(ic, proc[p].ip)
        /\ proc[p].st = "run"
        /\ proc[p].pc = "linkexists"
    BY DEF LinkExists, At_, Become
  <1>3. /\ Rec(r) /\ Alike(r, proc[p])
        /\ r.cwd = proc[p].cwd
        /\ r.pc = "put"
        /\ r.put = proc[p].ip
        /\ r.then = "linkbad"
        /\ r.ip = proc[p].ip
        /\ r.dp = proc[p].dp
        /\ r.next = proc[p].next
        /\ r.fail = proc[p].fail
    BY <1>1, <1>2 DEF Known, Rec, Fields, Alike, PutThen
  <1> HIDE DEF r
  <1>4. Shape(r)
    BY <1>1, <1>2, <1>3 DEF Known, Local, Shape, Label, Alike, NoFiles
  <1>5. Becomes(p, r)
    BY <1>1, <1>2, <1>3, <1>4 DEF Becomes, Known, InOp, Local, Shape, Label
  <1>6. /\ ic' \in IcSet
        /\ \A i \in Inum : /\ ic'[i].ref = ic[i].ref
                           /\ ic'[i].lock = IF proc[p].ip = i THEN 0 ELSE ic[i].lock
    BY <1>1, <1>2, IunlockIs DEF Known
  <1>7. LockStep(p, r)
    BY <1>1, <1>2, <1>3, <1>6 DEF LockStep, Known, Locks, Label, Alike
  <1>8. ASSUME NEW i \in Inum PROVE ic'[i].ref - Count(r, i) = ic[i].ref - Count(proc[p], i)
    BY <1>1, <1>2, <1>3, <1>6 DEF Known, Count, One, Refers, Label, WithIp, WithDp, Alike, Shape, Local
  <1>9. SameFiles /\ ic' \in IcSet
    BY <1>2, <1>6, FilesStay
  <1> QED
    BY <1>5, <1>7, <1>8, <1>9, QuietKeeps

\* sys_link() lets go of the inode.
LEMMA LinkedCounts ==
  ASSUME FilesInv, NEW p \in Proc, Linked(p)
  PROVE  FilesInv'
  <1>1. Known(p)
    BY InvFacts
  <1> DEFINE r == PutThen(proc[p], proc[p].dp, "done")
  <1>2. /\ proc' = [proc EXCEPT ![p] = r] /\ ft' = ft /\ op' = op
        /\ ic' = ic
        /\ proc[p].st = "run"
        /\ proc[p].pc = "linked"
    BY DEF Linked, At_, Become
  <1>3. /\ Rec(r) /\ Alike(r, proc[p])
        /\ r.cwd = proc[p].cwd
        /\ r.pc = "put"
        /\ r.put = proc[p].dp
        /\ r.then = "done"
        /\ r.ip = proc[p].ip
        /\ r.dp = proc[p].dp
        /\ r.next = proc[p].next
        /\ r.fail = proc[p].fail
    BY <1>1, <1>2 DEF Known, Rec, Fields, Alike, PutThen
  <1> HIDE DEF r
  <1>4. Shape(r)
    BY <1>1, <1>2, <1>3 DEF Known, Local, Shape, Label, Alike, NoFiles
  <1>5. Becomes(p, r)
    BY <1>1, <1>2, <1>3, <1>4 DEF Becomes, Known, InOp, Local, Shape, Label
  <1>6. /\ ic' \in IcSet
        /\ \A i \in Inum : /\ ic'[i].ref = ic[i].ref
                           /\ ic'[i].lock = ic[i].lock
    BY <1>1, <1>2 DEF Known
  <1>7. LockStep(p, r)
    BY <1>1, <1>2, <1>3, <1>6 DEF LockStep, Known, Locks, Label, Alike
  <1>8. ASSUME NEW i \in Inum PROVE ic'[i].ref - Count(r, i) = ic[i].ref - Count(proc[p], i)
    BY <1>1, <1>2, <1>3, <1>6 DEF Known, Count, One, Refers, Label, WithIp, WithDp, Alike, Shape, Local
  <1>9. SameFiles /\ ic' \in IcSet
    BY <1>2, <1>6, FilesStay
  <1> QED
    BY <1>5, <1>7, <1>8, <1>9, QuietKeeps

\* sys_link() takes the link back.
LEMMA LinkBadCounts ==
  ASSUME FilesInv, NEW p \in Proc, LinkBad(p)
  PROVE  FilesInv'
  <1>1. Known(p)
    BY InvFacts
  <1> DEFINE r == PutThen(proc[p], proc[p].dp, "fail")
  <1>2. /\ proc' = [proc EXCEPT ![p] = r] /\ ft' = ft /\ op' = op
        /\ ic' = Visit(ic, proc[p].dp)
        /\ proc[p].st = "run"
        /\ proc[p].pc = "linkbad"
    BY DEF LinkBad, At_, Become
  <1>3. /\ Rec(r) /\ Alike(r, proc[p])
        /\ r.cwd = proc[p].cwd
        /\ r.pc = "put"
        /\ r.put = proc[p].dp
        /\ r.then = "fail"
        /\ r.ip = proc[p].ip
        /\ r.dp = proc[p].dp
        /\ r.next = proc[p].next
        /\ r.fail = proc[p].fail
    BY <1>1, <1>2 DEF Known, Rec, Fields, Alike, PutThen
  <1> HIDE DEF r
  <1>4. Shape(r)
    BY <1>1, <1>2, <1>3 DEF Known, Local, Shape, Label, Alike, NoFiles
  <1>5. Becomes(p, r)
    BY <1>1, <1>2, <1>3, <1>4 DEF Becomes, Known, InOp, Local, Shape, Label
  <1>6. /\ ic' \in IcSet
        /\ \A i \in Inum : /\ ic'[i].ref = ic[i].ref
                           /\ ic'[i].lock = ic[i].lock
    BY <1>1, <1>2, VisitIs DEF Known
  <1>7. LockStep(p, r)
    BY <1>1, <1>2, <1>3, <1>6 DEF LockStep, Known, Locks, Label, Alike
  <1>8. ASSUME NEW i \in Inum PROVE ic'[i].ref - Count(r, i) = ic[i].ref - Count(proc[p], i)
    BY <1>1, <1>2, <1>3, <1>6 DEF Known, Count, One, Refers, Label, WithIp, WithDp, Alike, Shape, Local
  <1>9. SameFiles /\ ic' \in IcSet
    BY <1>2, <1>6, FilesStay
  <1> QED
    BY <1>5, <1>7, <1>8, <1>9, QuietKeeps

\* sys_unlink() looks the name up.
LEMMA UnlinkCounts ==
  ASSUME FilesInv, NEW p \in Proc, Unlink(p)
  PROVE  FilesInv'
  <1>1. Known(p)
    BY InvFacts
  <1>2. CASE /\ ic' = Visit(ic, proc[p].ip)
             /\ Become(p, PutThen(proc[p], proc[p].ip, "fail"))
    <2> DEFINE r == PutThen(proc[p], proc[p].ip, "fail")
    <2>1. /\ proc' = [proc EXCEPT ![p] = r] /\ ft' = ft /\ op' = op
          /\ ic' = Visit(ic, proc[p].ip)
          /\ proc[p].st = "run"
          /\ proc[p].pc = "unlink"
      BY <1>2, <1>1 DEF Unlink, At_, Become
    <2>2. /\ Rec(r) /\ Alike(r, proc[p])
          /\ r.cwd = proc[p].cwd
          /\ r.pc = "put"
          /\ r.put = proc[p].ip
          /\ r.then = "fail"
          /\ r.ip = proc[p].ip
          /\ r.dp = proc[p].dp
          /\ r.next = proc[p].next
          /\ r.fail = proc[p].fail
      BY <1>1, <2>1 DEF Known, Rec, Fields, Alike, PutThen
    <2> HIDE DEF r
    <2>3. Shape(r)
      BY <1>1, <2>1, <2>2 DEF Known, Local, Shape, Label, Alike, NoFiles
    <2>4. Becomes(p, r)
      BY <1>1, <2>1, <2>2, <2>3 DEF Becomes, Known, InOp, Local, Shape, Label
    <2>5. /\ ic' \in IcSet
          /\ \A i \in Inum : /\ ic'[i].ref = ic[i].ref
                             /\ ic'[i].lock = ic[i].lock
      BY <1>1, <2>1, VisitIs DEF Known
    <2>6. LockStep(p, r)
      BY <1>1, <2>1, <2>2, <2>5 DEF LockStep, Known, Locks, Label, Alike
    <2>7. ASSUME NEW i \in Inum PROVE ic'[i].ref - Count(r, i) = ic[i].ref - Count(proc[p], i)
      BY <1>1, <2>1, <2>2, <2>5 DEF Known, Count, One, Refers, Label, WithIp, WithDp, Alike, Shape, Local
    <2>8. SameFiles /\ ic' \in IcSet
      BY <2>1, <2>5, FilesStay
    <2> QED
      BY <2>4, <2>6, <2>7, <2>8, QuietKeeps
  <1>3. CASE \E n : /\ ic' = Iget(Ilock(ic, proc[p].ip, p), n)
                  /\ Become(p, [proc[p] EXCEPT !.pc = "unlink2", !.dp = proc[p].ip, !.ip = n])
    <2>0. PICK n : /\ ic' = Iget(Ilock(ic, proc[p].ip, p), n)
                    /\ Become(p, [proc[p] EXCEPT !.pc = "unlink2", !.dp = proc[p].ip, !.ip = n])
      BY <1>3
    <2> DEFINE r == [proc[p] EXCEPT !.pc = "unlink2", !.dp = proc[p].ip, !.ip = n]
    <2>1. /\ proc' = [proc EXCEPT ![p] = r] /\ ft' = ft /\ op' = op
          /\ ic' = Iget(Ilock(ic, proc[p].ip, p), n)
          /\ proc[p].st = "run"
          /\ proc[p].pc = "unlink"
      BY <2>0, <1>1 DEF Unlink, At_, Become
    <2>2. /\ Rec(r) /\ Alike(r, proc[p])
          /\ r.cwd = proc[p].cwd
          /\ r.pc = "unlink2"
          /\ r.dp = proc[p].ip
          /\ r.ip = n
      BY <1>1, <2>1 DEF Known, Rec, Fields, Alike
    <2> HIDE DEF r
    <2>3. Shape(r)
      BY <1>1, <2>1, <2>2 DEF Known, Local, Shape, Label, Alike, NoFiles
    <2>4. Becomes(p, r)
      BY <1>1, <2>1, <2>2, <2>3 DEF Becomes, Known, InOp, Local, Shape, Label
    <2>9. /\ Ilock(ic, proc[p].ip, p) \in IcSet
          /\ \A i \in Inum : Ilock(ic, proc[p].ip, p)[i].ref = ic[i].ref /\ Ilock(ic, proc[p].ip, p)[i].lock = IF proc[p].ip = i THEN p ELSE ic[i].lock
      BY <1>1, IlockIs DEF Known
    <2>5. /\ ic' \in IcSet
          /\ \A i \in Inum : /\ ic'[i].ref = ic[i].ref + One(n = i)
                             /\ ic'[i].lock = IF proc[p].ip = i THEN p ELSE ic[i].lock
      BY <1>1, <2>1, <2>9, IgetIs DEF Known
    <2>6. LockStep(p, r)
      BY <1>1, <2>1, <2>2, <2>5 DEF LockStep, Known, Locks, Label, Alike
    <2>7. ASSUME NEW i \in Inum PROVE ic'[i].ref - Count(r, i) = ic[i].ref - Count(proc[p], i)
      BY <1>1, <2>1, <2>2, <2>5 DEF Known, Count, One, Refers, Label, WithIp, WithDp, Alike, Shape, Local
    <2>8. SameFiles /\ ic' \in IcSet
      BY <2>1, <2>5, FilesStay
    <2> QED
      BY <2>4, <2>6, <2>7, <2>8, QuietKeeps
  <1> QED
    BY <1>2, <1>3 DEF Unlink

\* sys_unlink() clears the entry, if it may.
LEMMA Unlink2Counts ==
  ASSUME FilesInv, NEW p \in Proc, Unlink2(p)
  PROVE  FilesInv'
  <1>1. Known(p)
    BY InvFacts
  <1>2. CASE /\ ic' = Visit(ic, proc[p].ip)
             /\ Become(p, PutThen(proc[p], proc[p].ip, "unlinkbad"))
    <2> DEFINE r == PutThen(proc[p], proc[p].ip, "unlinkbad")
    <2>1. /\ proc' = [proc EXCEPT ![p] = r] /\ ft' = ft /\ op' = op
          /\ ic' = Visit(ic, proc[p].ip)
          /\ proc[p].st = "run"
          /\ proc[p].pc = "unlink2"
      BY <1>2, <1>1 DEF Unlink2, At_, Become
    <2>2. /\ Rec(r) /\ Alike(r, proc[p])
          /\ r.cwd = proc[p].cwd
          /\ r.pc = "put"
          /\ r.put = proc[p].ip
          /\ r.then = "unlinkbad"
          /\ r.ip = proc[p].ip
          /\ r.dp = proc[p].dp
          /\ r.next = proc[p].next
          /\ r.fail = proc[p].fail
      BY <1>1, <2>1 DEF Known, Rec, Fields, Alike, PutThen
    <2> HIDE DEF r
    <2>3. Shape(r)
      BY <1>1, <2>1, <2>2 DEF Known, Local, Shape, Label, Alike, NoFiles
    <2>4. Becomes(p, r)
      BY <1>1, <2>1, <2>2, <2>3 DEF Becomes, Known, InOp, Local, Shape, Label
    <2>5. /\ ic' \in IcSet
          /\ \A i \in Inum : /\ ic'[i].ref = ic[i].ref
                             /\ ic'[i].lock = ic[i].lock
      BY <1>1, <2>1, VisitIs DEF Known
    <2>6. LockStep(p, r)
      BY <1>1, <2>1, <2>2, <2>5 DEF LockStep, Known, Locks, Label, Alike
    <2>7. ASSUME NEW i \in Inum PROVE ic'[i].ref - Count(r, i) = ic[i].ref - Count(proc[p], i)
      BY <1>1, <2>1, <2>2, <2>5 DEF Known, Count, One, Refers, Label, WithIp, WithDp, Alike, Shape, Local
    <2>8. SameFiles /\ ic' \in IcSet
      BY <2>1, <2>5, FilesStay
    <2> QED
      BY <2>4, <2>6, <2>7, <2>8, QuietKeeps
  <1>3. CASE /\ ic' = Iunlock(Ilock(ic, proc[p].ip, p), proc[p].dp)
             /\ Become(p, PutThen(proc[p], proc[p].dp, "unlink3"))
    <2> DEFINE r == PutThen(proc[p], proc[p].dp, "unlink3")
    <2>1. /\ proc' = [proc EXCEPT ![p] = r] /\ ft' = ft /\ op' = op
          /\ ic' = Iunlock(Ilock(ic, proc[p].ip, p), proc[p].dp)
          /\ proc[p].st = "run"
          /\ proc[p].pc = "unlink2"
      BY <1>3, <1>1 DEF Unlink2, At_, Become
    <2>2. /\ Rec(r) /\ Alike(r, proc[p])
          /\ r.cwd = proc[p].cwd
          /\ r.pc = "put"
          /\ r.put = proc[p].dp
          /\ r.then = "unlink3"
          /\ r.ip = proc[p].ip
          /\ r.dp = proc[p].dp
          /\ r.next = proc[p].next
          /\ r.fail = proc[p].fail
      BY <1>1, <2>1 DEF Known, Rec, Fields, Alike, PutThen
    <2> HIDE DEF r
    <2>3. Shape(r)
      BY <1>1, <2>1, <2>2 DEF Known, Local, Shape, Label, Alike, NoFiles
    <2>4. Becomes(p, r)
      BY <1>1, <2>1, <2>2, <2>3 DEF Becomes, Known, InOp, Local, Shape, Label
    <2>9. /\ Ilock(ic, proc[p].ip, p) \in IcSet
          /\ \A i \in Inum : Ilock(ic, proc[p].ip, p)[i].ref = ic[i].ref /\ Ilock(ic, proc[p].ip, p)[i].lock = IF proc[p].ip = i THEN p ELSE ic[i].lock
      BY <1>1, IlockIs DEF Known
    <2>5. /\ ic' \in IcSet
          /\ \A i \in Inum : /\ ic'[i].ref = ic[i].ref
                             /\ ic'[i].lock = IF proc[p].dp = i THEN 0 ELSE IF proc[p].ip = i THEN p ELSE ic[i].lock
      BY <1>1, <2>1, <2>9, IunlockIs DEF Known
    <2>6. LockStep(p, r)
      BY <1>1, <2>1, <2>2, <2>5 DEF LockStep, Known, Locks, Label, Alike
    <2>7. ASSUME NEW i \in Inum PROVE ic'[i].ref - Count(r, i) = ic[i].ref - Count(proc[p], i)
      BY <1>1, <2>1, <2>2, <2>5 DEF Known, Count, One, Refers, Label, WithIp, WithDp, Alike, Shape, Local
    <2>8. SameFiles /\ ic' \in IcSet
      BY <2>1, <2>5, FilesStay
    <2> QED
      BY <2>4, <2>6, <2>7, <2>8, QuietKeeps
  <1> QED
    BY <1>2, <1>3 DEF Unlink2

\* sys_unlink() fails.
LEMMA UnlinkBadCounts ==
  ASSUME FilesInv, NEW p \in Proc, UnlinkBad(p)
  PROVE  FilesInv'
  <1>1. Known(p)
    BY InvFacts
  <1> DEFINE r == PutThen(proc[p], proc[p].dp, "fail")
  <1>2. /\ proc' = [proc EXCEPT ![p] = r] /\ ft' = ft /\ op' = op
        /\ ic' = Iunlock(ic, proc[p].dp)
        /\ proc[p].st = "run"
        /\ proc[p].pc = "unlinkbad"
    BY DEF UnlinkBad, At_, Become
  <1>3. /\ Rec(r) /\ Alike(r, proc[p])
        /\ r.cwd = proc[p].cwd
        /\ r.pc = "put"
        /\ r.put = proc[p].dp
        /\ r.then = "fail"
        /\ r.ip = proc[p].ip
        /\ r.dp = proc[p].dp
        /\ r.next = proc[p].next
        /\ r.fail = proc[p].fail
    BY <1>1, <1>2 DEF Known, Rec, Fields, Alike, PutThen
  <1> HIDE DEF r
  <1>4. Shape(r)
    BY <1>1, <1>2, <1>3 DEF Known, Local, Shape, Label, Alike, NoFiles
  <1>5. Becomes(p, r)
    BY <1>1, <1>2, <1>3, <1>4 DEF Becomes, Known, InOp, Local, Shape, Label
  <1>6. /\ ic' \in IcSet
        /\ \A i \in Inum : /\ ic'[i].ref = ic[i].ref
                           /\ ic'[i].lock = IF proc[p].dp = i THEN 0 ELSE ic[i].lock
    BY <1>1, <1>2, IunlockIs DEF Known
  <1>7. LockStep(p, r)
    BY <1>1, <1>2, <1>3, <1>6 DEF LockStep, Known, Locks, Label, Alike
  <1>8. ASSUME NEW i \in Inum PROVE ic'[i].ref - Count(r, i) = ic[i].ref - Count(proc[p], i)
    BY <1>1, <1>2, <1>3, <1>6 DEF Known, Count, One, Refers, Label, WithIp, WithDp, Alike, Shape, Local
  <1>9. SameFiles /\ ic' \in IcSet
    BY <1>2, <1>6, FilesStay
  <1> QED
    BY <1>5, <1>7, <1>8, <1>9, QuietKeeps

\* sys_unlink() drops the link.
LEMMA Unlink3Counts ==
  ASSUME FilesInv, NEW p \in Proc, Unlink3(p)
  PROVE  FilesInv'
  <1>1. Known(p)
    BY InvFacts
  <1> DEFINE r == PutThen(proc[p], proc[p].ip, "done")
  <1>2. /\ proc' = [proc EXCEPT ![p] = r] /\ ft' = ft /\ op' = op
        /\ ic' = Iunlock(ic, proc[p].ip)
        /\ proc[p].st = "run"
        /\ proc[p].pc = "unlink3"
    BY DEF Unlink3, At_, Become
  <1>3. /\ Rec(r) /\ Alike(r, proc[p])
        /\ r.cwd = proc[p].cwd
        /\ r.pc = "put"
        /\ r.put = proc[p].ip
        /\ r.then = "done"
        /\ r.ip = proc[p].ip
        /\ r.dp = proc[p].dp
        /\ r.next = proc[p].next
        /\ r.fail = proc[p].fail
    BY <1>1, <1>2 DEF Known, Rec, Fields, Alike, PutThen
  <1> HIDE DEF r
  <1>4. Shape(r)
    BY <1>1, <1>2, <1>3 DEF Known, Local, Shape, Label, Alike, NoFiles
  <1>5. Becomes(p, r)
    BY <1>1, <1>2, <1>3, <1>4 DEF Becomes, Known, InOp, Local, Shape, Label
  <1>6. /\ ic' \in IcSet
        /\ \A i \in Inum : /\ ic'[i].ref = ic[i].ref
                           /\ ic'[i].lock = IF proc[p].ip = i THEN 0 ELSE ic[i].lock
    BY <1>1, <1>2, IunlockIs DEF Known
  <1>7. LockStep(p, r)
    BY <1>1, <1>2, <1>3, <1>6 DEF LockStep, Known, Locks, Label, Alike
  <1>8. ASSUME NEW i \in Inum PROVE ic'[i].ref - Count(r, i) = ic[i].ref - Count(proc[p], i)
    BY <1>1, <1>2, <1>3, <1>6 DEF Known, Count, One, Refers, Label, WithIp, WithDp, Alike, Shape, Local
  <1>9. SameFiles /\ ic' \in IcSet
    BY <1>2, <1>6, FilesStay
  <1> QED
    BY <1>5, <1>7, <1>8, <1>9, QuietKeeps

\* sys_chdir() puts the old directory, or what is none.
LEMMA ChdirCounts ==
  ASSUME FilesInv, NEW p \in Proc, Chdir(p)
  PROVE  FilesInv'
  <1>1. Known(p)
    BY InvFacts
  <1>2. CASE disk.di[proc[p].ip].type = "dir"
    <2> DEFINE r == PutThen(proc[p], proc[p].cwd, "chdired")
    <2>1. /\ proc' = [proc EXCEPT ![p] = r] /\ ft' = ft /\ op' = op
          /\ ic' = Visit(ic, proc[p].ip)
          /\ proc[p].st = "run"
          /\ proc[p].pc = "chdir"
      BY <1>2, <1>1 DEF Chdir, At_, Become
    <2>2. /\ Rec(r) /\ Alike(r, proc[p])
          /\ r.cwd = proc[p].cwd
          /\ r.pc = "put"
          /\ r.put = proc[p].cwd
          /\ r.then = "chdired"
          /\ r.ip = proc[p].ip
          /\ r.dp = proc[p].dp
          /\ r.next = proc[p].next
          /\ r.fail = proc[p].fail
      BY <1>1, <2>1 DEF Known, Rec, Fields, Alike, PutThen
    <2> HIDE DEF r
    <2>3. Shape(r)
      BY <1>1, <2>1, <2>2 DEF Known, Local, Shape, Label, Alike, NoFiles
    <2>4. Becomes(p, r)
      BY <1>1, <2>1, <2>2, <2>3 DEF Becomes, Known, InOp, Local, Shape, Label
    <2>5. /\ ic' \in IcSet
          /\ \A i \in Inum : /\ ic'[i].ref = ic[i].ref
                             /\ ic'[i].lock = ic[i].lock
      BY <1>1, <2>1, VisitIs DEF Known
    <2>6. LockStep(p, r)
      BY <1>1, <2>1, <2>2, <2>5 DEF LockStep, Known, Locks, Label, Alike
    <2>7. ASSUME NEW i \in Inum PROVE ic'[i].ref - Count(r, i) = ic[i].ref - Count(proc[p], i)
      BY <1>1, <2>1, <2>2, <2>5 DEF Known, Count, One, Refers, Label, WithIp, WithDp, Alike, Shape, Local
    <2>8. SameFiles /\ ic' \in IcSet
      BY <2>1, <2>5, FilesStay
    <2> QED
      BY <2>4, <2>6, <2>7, <2>8, QuietKeeps
  <1>3. CASE disk.di[proc[p].ip].type # "dir"
    <2> DEFINE r == PutThen(proc[p], proc[p].ip, "fail")
    <2>1. /\ proc' = [proc EXCEPT ![p] = r] /\ ft' = ft /\ op' = op
          /\ ic' = Visit(ic, proc[p].ip)
          /\ proc[p].st = "run"
          /\ proc[p].pc = "chdir"
      BY <1>3, <1>1 DEF Chdir, At_, Become
    <2>2. /\ Rec(r) /\ Alike(r, proc[p])
          /\ r.cwd = proc[p].cwd
          /\ r.pc = "put"
          /\ r.put = proc[p].ip
          /\ r.then = "fail"
          /\ r.ip = proc[p].ip
          /\ r.dp = proc[p].dp
          /\ r.next = proc[p].next
          /\ r.fail = proc[p].fail
      BY <1>1, <2>1 DEF Known, Rec, Fields, Alike, PutThen
    <2> HIDE DEF r
    <2>3. Shape(r)
      BY <1>1, <2>1, <2>2 DEF Known, Local, Shape, Label, Alike, NoFiles
    <2>4. Becomes(p, r)
      BY <1>1, <2>1, <2>2, <2>3 DEF Becomes, Known, InOp, Local, Shape, Label
    <2>5. /\ ic' \in IcSet
          /\ \A i \in Inum : /\ ic'[i].ref = ic[i].ref
                             /\ ic'[i].lock = ic[i].lock
      BY <1>1, <2>1, VisitIs DEF Known
    <2>6. LockStep(p, r)
      BY <1>1, <2>1, <2>2, <2>5 DEF LockStep, Known, Locks, Label, Alike
    <2>7. ASSUME NEW i \in Inum PROVE ic'[i].ref - Count(r, i) = ic[i].ref - Count(proc[p], i)
      BY <1>1, <2>1, <2>2, <2>5 DEF Known, Count, One, Refers, Label, WithIp, WithDp, Alike, Shape, Local
    <2>8. SameFiles /\ ic' \in IcSet
      BY <2>1, <2>5, FilesStay
    <2> QED
      BY <2>4, <2>6, <2>7, <2>8, QuietKeeps
  <1> QED
    BY <1>2, <1>3

\* sys_chdir() has its new directory.
LEMMA ChdiredCounts ==
  ASSUME FilesInv, NEW p \in Proc, Chdired(p)
  PROVE  FilesInv'
  <1>1. Known(p)
    BY InvFacts
  <1> DEFINE w == Return(proc[p], 0)
             r == [w EXCEPT !.cwd = proc[p].ip]
  <1>2. /\ proc' = [proc EXCEPT ![p] = r] /\ ft' = ft /\ op' = op \ {p}
        /\ ic' = ic
        /\ proc[p].st = "run"
        /\ proc[p].pc = "chdired"
    BY DEF Chdired, At_, Become, EndOp
  <1>12. /\ Rec(w) /\ Alike(w, proc[p]) /\ w.cwd = proc[p].cwd /\ w.pc = "user"
    BY <1>1, ReturnIs DEF Known
  <1> HIDE DEF w
  <1>3. /\ Rec(r) /\ Alike(r, proc[p])
        /\ r.pc = "user"
        /\ r.cwd = proc[p].ip
    BY <1>1, <1>2, <1>12 DEF Known, Rec, Fields, Alike
  <1> HIDE DEF r
  <1>4. Shape(r)
    BY <1>1, <1>2, <1>3 DEF Known, Local, Shape, Label, Alike, NoFiles
  <1>5. Becomes(p, r)
    BY <1>1, <1>2, <1>3, <1>4 DEF Becomes, Known, InOp, Local, Shape, Label
  <1>6. /\ ic' \in IcSet
        /\ \A i \in Inum : /\ ic'[i].ref = ic[i].ref
                           /\ ic'[i].lock = ic[i].lock
    BY <1>1, <1>2 DEF Known
  <1>7. LockStep(p, r)
    BY <1>1, <1>2, <1>3, <1>6 DEF LockStep, Known, Locks, Label, Alike
  <1>8. ASSUME NEW i \in Inum PROVE ic'[i].ref - Count(r, i) = ic[i].ref - Count(proc[p], i)
    BY <1>1, <1>2, <1>3, <1>6 DEF Known, Count, One, Refers, Label, WithIp, WithDp, Alike, Shape, Local
  <1>9. SameFiles /\ ic' \in IcSet
    BY <1>2, <1>6, FilesStay
  <1> QED
    BY <1>5, <1>7, <1>8, <1>9, QuietKeeps

\* exec() reads the file.
LEMMA ExecCounts ==
  ASSUME FilesInv, NEW p \in Proc, Exec(p)
  PROVE  FilesInv'
  <1>1. Known(p)
    BY InvFacts
  <1> DEFINE r == PutThen(proc[p], proc[p].ip,
                          IF Readi(disk, proc[p].ip, 0, 1) = <<<<"elf", 0>>>> THEN "exec2" ELSE "fail")
  <1>2. /\ proc' = [proc EXCEPT ![p] = r] /\ ft' = ft /\ op' = op
        /\ ic' = Visit(ic, proc[p].ip)
        /\ proc[p].st = "run"
        /\ proc[p].pc = "exec"
    BY DEF Exec, At_, Become
  <1>3. /\ Rec(r) /\ Alike(r, proc[p])
        /\ r.cwd = proc[p].cwd
        /\ r.pc = "put"
        /\ r.put = proc[p].ip
        /\ r.then \in {"exec2", "fail"}
    BY <1>1, <1>2 DEF Known, Rec, Fields, Alike, PutThen
  <1> HIDE DEF r
  <1>4. Shape(r)
    BY <1>1, <1>2, <1>3 DEF Known, Local, Shape, Label, Alike, NoFiles
  <1>5. Becomes(p, r)
    BY <1>1, <1>2, <1>3, <1>4 DEF Becomes, Known, InOp, Local, Shape, Label
  <1>6. /\ ic' \in IcSet
        /\ \A i \in Inum : /\ ic'[i].ref = ic[i].ref
                           /\ ic'[i].lock = ic[i].lock
    BY <1>1, <1>2, VisitIs DEF Known
  <1>7. LockStep(p, r)
    BY <1>1, <1>2, <1>3, <1>6 DEF LockStep, Known, Locks, Label, Alike
  <1>8. ASSUME NEW i \in Inum PROVE ic'[i].ref - Count(r, i) = ic[i].ref - Count(proc[p], i)
    BY <1>1, <1>2, <1>3, <1>6 DEF Known, Count, One, Refers, Label, WithIp, WithDp, Alike, Shape, Local
  <1>9. SameFiles /\ ic' \in IcSet
    BY <1>2, <1>6, FilesStay
  <1> QED
    BY <1>5, <1>7, <1>8, <1>9, QuietKeeps

\* exec() starts the program, or fails.
LEMMA Exec2Counts ==
  ASSUME FilesInv, NEW p \in Proc, Exec2(p)
  PROVE  FilesInv'
  <1>1. Known(p)
    BY InvFacts
  <1>2. CASE Call(p).big
    <2> DEFINE w == Return(proc[p], -1)
               r == w
    <2>1. /\ proc' = [proc EXCEPT ![p] = r] /\ ft' = ft /\ op' = op \ {p}
          /\ ic' = ic
          /\ proc[p].st = "run"
          /\ proc[p].pc = "exec2"
      BY <1>2, <1>1 DEF Exec2, At_, Become, EndOp
    <2>11. /\ Rec(w) /\ Alike(w, proc[p]) /\ w.cwd = proc[p].cwd /\ w.pc = "user"
      BY <1>1, ReturnIs DEF Known
    <2> HIDE DEF w
    <2>2. /\ Rec(r) /\ Alike(r, proc[p])
          /\ r.cwd = proc[p].cwd
          /\ r.pc = "user"
      BY <1>1, <2>1, <2>11 DEF Known, Rec, Fields, Alike
    <2> HIDE DEF r
    <2>3. Shape(r)
      BY <1>1, <2>1, <2>2 DEF Known, Local, Shape, Label, Alike, NoFiles
    <2>4. Becomes(p, r)
      BY <1>1, <2>1, <2>2, <2>3 DEF Becomes, Known, InOp, Local, Shape, Label
    <2>5. /\ ic' \in IcSet
          /\ \A i \in Inum : /\ ic'[i].ref = ic[i].ref
                             /\ ic'[i].lock = ic[i].lock
      BY <1>1, <2>1 DEF Known
    <2>6. LockStep(p, r)
      BY <1>1, <2>1, <2>2, <2>5 DEF LockStep, Known, Locks, Label, Alike
    <2>7. ASSUME NEW i \in Inum PROVE ic'[i].ref - Count(r, i) = ic[i].ref - Count(proc[p], i)
      BY <1>1, <2>1, <2>2, <2>5 DEF Known, Count, One, Refers, Label, WithIp, WithDp, Alike, Shape, Local
    <2>8. SameFiles /\ ic' \in IcSet
      BY <2>1, <2>5, FilesStay
    <2> QED
      BY <2>4, <2>6, <2>7, <2>8, QuietKeeps
  <1>3. CASE ~Call(p).big
    <2> DEFINE w == Return(proc[p], 0)
               r == [w EXCEPT !.prog = Call(p).image, !.at = 1]
    <2>1. /\ proc' = [proc EXCEPT ![p] = r] /\ ft' = ft /\ op' = op \ {p}
          /\ ic' = ic
          /\ proc[p].st = "run"
          /\ proc[p].pc = "exec2"
      BY <1>3, <1>1 DEF Exec2, At_, Become, EndOp
    <2>11. /\ Rec(w) /\ Alike(w, proc[p]) /\ w.cwd = proc[p].cwd /\ w.pc = "user"
      BY <1>1, ReturnIs DEF Known
    <2> HIDE DEF w
    <2>2. /\ Rec(r) /\ Alike(r, proc[p])
          /\ r.cwd = proc[p].cwd
          /\ r.pc = "user"
      BY <1>1, <2>1, <2>11 DEF Known, Rec, Fields, Alike
    <2> HIDE DEF r
    <2>3. Shape(r)
      BY <1>1, <2>1, <2>2 DEF Known, Local, Shape, Label, Alike, NoFiles
    <2>4. Becomes(p, r)
      BY <1>1, <2>1, <2>2, <2>3 DEF Becomes, Known, InOp, Local, Shape, Label
    <2>5. /\ ic' \in IcSet
          /\ \A i \in Inum : /\ ic'[i].ref = ic[i].ref
                             /\ ic'[i].lock = ic[i].lock
      BY <1>1, <2>1 DEF Known
    <2>6. LockStep(p, r)
      BY <1>1, <2>1, <2>2, <2>5 DEF LockStep, Known, Locks, Label, Alike
    <2>7. ASSUME NEW i \in Inum PROVE ic'[i].ref - Count(r, i) = ic[i].ref - Count(proc[p], i)
      BY <1>1, <2>1, <2>2, <2>5 DEF Known, Count, One, Refers, Label, WithIp, WithDp, Alike, Shape, Local
    <2>8. SameFiles /\ ic' \in IcSet
      BY <2>1, <2>5, FilesStay
    <2> QED
      BY <2>4, <2>6, <2>7, <2>8, QuietKeeps
  <1> QED
    BY <1>2, <1>3

-----------------------------------------------------------------------------
(* The calls of file.c that open and close nothing.                        *)

\* Outside the kernel, between two chunks of a write, or in exit().
Outside == {"user", "write", "exit"}

\* A step that stays there changes nothing that is counted.
LEMMA OutsideKeeps ==
  ASSUME FilesInv, NEW p \in Proc, NEW r, NEW v, proc[p].st = "run", proc[p].pc \in Outside,
         proc' = [proc EXCEPT ![p] = r], Rec(r), Alike(r, proc[p]), r.cwd = proc[p].cwd,
         r.pc \in Outside, op' \subseteq op, ic' = ic \/ ic' = Visit(ic, v), SameFiles
  PROVE  FilesInv'
  <1>1. Known(p)
    BY InvFacts
  <1>2. Shape(r) /\ p \notin op
    BY <1>1 DEF Shape, Label, Outside, Known, InOp
  <1>3. Becomes(p, r)
    BY <1>2 DEF Becomes
  <1>4. ic' \in IcSet /\ \A i \in Inum : ic'[i].ref = ic[i].ref /\ ic'[i].lock = ic[i].lock
    BY <1>1, VisitIs DEF Known
  <1>5. LockStep(p, r)
    BY <1>1, <1>4 DEF LockStep, Known, Locks, Label, Outside
  <1>6. ASSUME NEW i \in Inum PROVE ic'[i].ref - Count(r, i) = ic[i].ref - Count(proc[p], i)
    BY <1>1, <1>4 DEF Count, One, Refers, Label, WithIp, WithDp, Alike, Outside, Known
  <1> QED
    BY <1>3, <1>4, <1>5, <1>6, QuietKeeps

\* The offset of a file is nothing that is counted.
LEMMA OffsetStays == ASSUME FilesInv, NEW f, NEW n, ft' = [ft EXCEPT ![f].off = n] PROVE SameFiles
  BY DEF SameFiles, FilesInv, FilesOK, FileRec, FileFields

\* A call that returns is outside.
LEMMA ReturnOutside ==
  ASSUME NEW r, Rec(r), NEW v
  PROVE  /\ Rec(Return(r, v)) /\ Alike(Return(r, v), r) /\ Return(r, v).cwd = r.cwd
         /\ Return(r, v).pc \in Outside
  BY ReturnIs DEF Outside

\* A result that the caller also looks at.
LEMMA OkIs ==
  ASSUME NEW r, Rec(r), NEW b
  PROVE  LET x == [r EXCEPT !.ok = @ /\ b] IN
         Rec(x) /\ Alike(x, r) /\ x.cwd = r.cwd /\ x.pc = r.pc
  BY DEF Rec, Fields, Alike

\* read() returns to its caller, or goes on.
LEMMA ReturnCellsIs ==
  ASSUME NEW p, Rec(proc[p]), proc[p].pc = "user", NEW cells
  PROVE  LET x == ReturnCells(p, cells) IN
         Rec(x) /\ Alike(x, proc[p]) /\ x.cwd = proc[p].cwd /\ x.pc \in Outside
  <1> DEFINE got == proc[p].todo \o cells
             x == ReturnCells(p, cells)
             y == [proc[p] EXCEPT !.todo = got]
             r == Return(proc[p], Len(got))
             z == [r EXCEPT !.ok = @ /\ Accepts(Call(p), got)]
  <1>1. x = IF Call(p).all /\ cells # <<>> THEN y ELSE z
    BY DEF ReturnCells
  <1>2. Rec(y) /\ Alike(y, proc[p]) /\ y.cwd = proc[p].cwd /\ y.pc \in Outside
    BY DEF Rec, Fields, Alike, Outside
  <1>3. Rec(r) /\ Alike(r, proc[p]) /\ r.cwd = proc[p].cwd /\ r.pc \in Outside
    BY ReturnOutside
  <1> HIDE DEF y, r
  <1>4. Rec(z) /\ Alike(z, r) /\ z.cwd = r.cwd /\ z.pc = r.pc
    BY <1>3, OkIs
  <1> HIDE DEF z, x
  <1>5. x = y \/ x = z
    BY <1>1
  <1> QED
    BY <1>2, <1>3, <1>4, <1>5 DEF Alike, x

\* A call with a bad descriptor fails.
LEMMA BadFdCounts ==
  ASSUME FilesInv, NEW p \in Proc, BadFd(p)
  PROVE  FilesInv'
  <1>1. /\ proc[p].st = "run" /\ proc[p].pc \in Outside /\ op' = op /\ ic' = ic /\ ft' = ft
        /\ proc' = [proc EXCEPT ![p] = Return(proc[p], -1)]
    BY DEF BadFd, Calls, Become, Outside
  <1>2. Rec(proc[p])
    BY InvFacts DEF Known
  <1> QED
    BY <1>1, <1>2, ReturnOutside, FilesStay, OutsideKeeps

\* fileread() of an inode.
LEMMA ReadCounts ==
  ASSUME FilesInv, NEW p \in Proc, Read(p)
  PROVE  FilesInv'
  <1>1. PICK cells, n, v : /\ proc[p].st = "run" /\ proc[p].pc = "user" /\ op' = op /\ ic' = Visit(ic, v)
                           /\ ft' = [ft EXCEPT ![FileOf(p)].off = n]
                           /\ proc' = [proc EXCEPT ![p] = ReturnCells(p, cells)]
    BY DEF Read, Uses, Calls, Become
  <1>2. Rec(proc[p]) /\ SameFiles
    BY <1>1, InvFacts, OffsetStays DEF Known
  <1> QED
    BY <1>1, <1>2, ReturnCellsIs, OutsideKeeps DEF Outside

\* filestat().
LEMMA FstatCounts ==
  ASSUME FilesInv, NEW p \in Proc, Fstat(p)
  PROVE  FilesInv'
  <1> DEFINE r == Return(proc[p], 0)
  <1>1. PICK b, v : /\ proc[p].st = "run" /\ proc[p].pc \in Outside /\ op' = op /\ ic' = Visit(ic, v)
                    /\ ft' = ft /\ proc' = [proc EXCEPT ![p] = [r EXCEPT !.ok = @ /\ b]]
    BY DEF Fstat, Uses, Calls, Become, Outside
  <1>2. Rec(proc[p]) /\ SameFiles
    BY <1>1, InvFacts, FilesStay DEF Known
  <1>3. Rec(r) /\ Alike(r, proc[p]) /\ r.cwd = proc[p].cwd /\ r.pc \in Outside
    BY <1>2, ReturnOutside
  <1> HIDE DEF r
  <1> DEFINE x == [r EXCEPT !.ok = @ /\ b]
  <1>4. Rec(x) /\ Alike(x, r) /\ x.cwd = r.cwd /\ x.pc = r.pc
    BY <1>3, OkIs
  <1>5. proc' = [proc EXCEPT ![p] = x]
    BY <1>1
  <1> HIDE DEF x
  <1>6. Alike(x, proc[p]) /\ x.cwd = proc[p].cwd /\ x.pc \in Outside
    BY <1>3, <1>4 DEF Alike
  <1> QED
    BY <1>1, <1>2, <1>4, <1>5, <1>6, OutsideKeeps

\* A write goes on, or ends.
LEMMA WriteGoesOn ==
  ASSUME NEW p, Rec(proc[p]), NEW r, NEW v, NEW rest,
         r = Return(proc[p], v) \/ r = [proc[p] EXCEPT !.pc = "write", !.todo = rest]
  PROVE  Rec(r) /\ Alike(r, proc[p]) /\ r.cwd = proc[p].cwd /\ r.pc \in Outside
  <1>1. CASE r = Return(proc[p], v)
    BY <1>1, ReturnOutside
  <1>2. CASE r = [proc[p] EXCEPT !.pc = "write", !.todo = rest]
    BY <1>2 DEF Rec, Fields, Alike, Outside
  <1> QED
    BY <1>1, <1>2

\* filewrite() to an inode.
LEMMA WriteCounts ==
  ASSUME FilesInv, NEW p \in Proc, Write(p)
  PROVE  FilesInv'
  <1>1. PICK r, k, rest, n, v :
          /\ proc[p].st = "run" /\ proc[p].pc \in Outside /\ op' \subseteq op /\ ic' = Visit(ic, v)
          /\ ft' = ft \/ ft' = [ft EXCEPT ![FileOf(p)].off = n]
          /\ r = Return(proc[p], k) \/ r = [proc[p] EXCEPT !.pc = "write", !.todo = rest]
          /\ proc' = [proc EXCEPT ![p] = r]
    <2> DEFINE f == FileOf(p)
               i == ft[f].ip
               n == IF Len(Rest(p)) > MAXCHUNK THEN MAXCHUNK ELSE Len(Rest(p))
               fits == disk.di[i].type = "dev" \/ Writable(disk, i, ft[f].off, n)
               r == IF ~fits THEN Return(proc[p], -1)
                    ELSE IF After(p, n) = <<>> THEN Return(proc[p], Len(Call(p).cells))
                    ELSE [proc[p] EXCEPT !.pc = "write", !.todo = After(p, n)]
    <2>1. /\ proc[p].st = "run" /\ proc[p].pc \in Outside /\ op' \subseteq op /\ ic' = Visit(ic, i)
          /\ ft' = IF fits THEN [ft EXCEPT ![f].off = ft[f].off + n] ELSE ft
          /\ proc' = [proc EXCEPT ![p] = r]
      BY DEF Write, Writes, Uses, Calls, At_, Become, EndOp, Outside
    <2>2. \E k, rest : r = Return(proc[p], k) \/ r = [proc[p] EXCEPT !.pc = "write", !.todo = rest]
      OBVIOUS
    <2>3. \E m : ft' = ft \/ ft' = [ft EXCEPT ![FileOf(p)].off = m]
      BY <2>1
    <2> HIDE DEF r, i, f
    <2> QED
      BY <2>1, <2>2, <2>3
  <1>2. Rec(proc[p]) /\ SameFiles
    BY <1>1, InvFacts, OffsetStays, FilesStay DEF Known
  <1> QED
    BY <1>1, <1>2, WriteGoesOn, OutsideKeeps, ZenonT(30)

\* pipewrite().
LEMMA PipeWriteCounts ==
  ASSUME FilesInv, NEW p \in Proc, PipeWrite(p)
  PROVE  FilesInv'
  <1>1. PICK r, k, rest :
          /\ proc[p].st = "run" /\ proc[p].pc \in Outside /\ op' = op /\ ic' = ic /\ ft' = ft
          /\ r = Return(proc[p], k) \/ r = [proc[p] EXCEPT !.pc = "write", !.todo = rest]
          /\ proc' = [proc EXCEPT ![p] = r]
    <2> DEFINE room == PIPESIZE - Len(pipes[ft[FileOf(p)].pipe].q)
               n == IF Len(Rest(p)) > room THEN room ELSE Len(Rest(p))
               r == IF After(p, n) = <<>> THEN Return(proc[p], Len(Call(p).cells))
                    ELSE [proc[p] EXCEPT !.pc = "write", !.todo = After(p, n)]
    <2>1. /\ proc[p].st = "run" /\ proc[p].pc \in Outside /\ op' = op /\ ic' = ic /\ ft' = ft
          /\ proc' = [proc EXCEPT ![p] = r] \/ proc' = [proc EXCEPT ![p] = Return(proc[p], -1)]
      BY DEF PipeWrite, Writes, Uses, Calls, At_, Become, Outside
    <2>2. \E k, rest : r = Return(proc[p], k) \/ r = [proc[p] EXCEPT !.pc = "write", !.todo = rest]
      OBVIOUS
    <2> HIDE DEF r
    <2> QED
      BY <2>1, <2>2
  <1>2. Rec(proc[p]) /\ SameFiles
    BY <1>1, InvFacts, FilesStay DEF Known
  <1> QED
    BY <1>1, <1>2, WriteGoesOn, OutsideKeeps

\* piperead().
LEMMA PipeReadCounts ==
  ASSUME FilesInv, NEW p \in Proc, PipeRead(p)
  PROVE  FilesInv'
  <1>1. PICK cells : /\ proc[p].st = "run" /\ proc[p].pc = "user" /\ op' = op /\ ic' = ic /\ ft' = ft
                     /\ proc' = [proc EXCEPT ![p] = ReturnCells(p, cells)]
    BY DEF PipeRead, Uses, Calls, Become
  <1>2. Rec(proc[p]) /\ SameFiles
    BY <1>1, InvFacts, FilesStay DEF Known
  <1> QED
    BY <1>1, <1>2, ReturnCellsIs, OutsideKeeps DEF Outside

\* exit() begins.
LEMMA ExitCounts ==
  ASSUME FilesInv, NEW p \in Proc, Exit(p)
  PROVE  FilesInv'
  <1> DEFINE r == [proc[p] EXCEPT !.pc = "exit"]
  <1>1. /\ proc[p].st = "run" /\ proc[p].pc \in Outside /\ op' = op /\ ic' = ic /\ ft' = ft
        /\ proc' = [proc EXCEPT ![p] = r]
    BY DEF Exit, Calls, At_, Become, Outside
  <1>2. Rec(r) /\ Alike(r, proc[p]) /\ r.cwd = proc[p].cwd /\ r.pc \in Outside
    BY InvFacts DEF Known, Rec, Fields, Alike, Outside
  <1> QED
    BY <1>1, <1>2, FilesStay, OutsideKeeps

\* The program goes on somewhere else.
LEMMA GotoCounts ==
  ASSUME FilesInv, NEW p \in Proc, Goto(p)
  PROVE  FilesInv'
  <1>1. PICK a : /\ proc[p].st = "run" /\ proc[p].pc \in Outside /\ op' = op /\ ic' = ic /\ ft' = ft
                 /\ proc' = [proc EXCEPT ![p] = [proc[p] EXCEPT !.at = a]]
    BY DEF Goto, Calls, Become, Outside
  <1> DEFINE r == [proc[p] EXCEPT !.at = a]
  <1>2. Rec(r) /\ Alike(r, proc[p]) /\ r.cwd = proc[p].cwd /\ r.pc \in Outside
    BY <1>1, InvFacts DEF Known, Rec, Fields, Alike
  <1> QED
    BY <1>1, <1>2, FilesStay, OutsideKeeps

\* exit() has closed a file.
LEMMA ExitClosedCounts ==
  ASSUME FilesInv, NEW p \in Proc, ExitClosed(p)
  PROVE  FilesInv'
  <1>1. Known(p)
    BY InvFacts
  <1> DEFINE r == [proc[p] EXCEPT !.pc = "exit"]
  <1>2. /\ proc' = [proc EXCEPT ![p] = r] /\ ft' = ft /\ op' = op \ {p}
        /\ ic' = ic
        /\ proc[p].st = "run"
        /\ proc[p].pc = "exitclosed"
    BY DEF ExitClosed, At_, Become, EndOp
  <1>3. /\ Rec(r) /\ Alike(r, proc[p])
        /\ r.cwd = proc[p].cwd
        /\ r.pc = "exit"
    BY <1>1, <1>2 DEF Known, Rec, Fields, Alike
  <1> HIDE DEF r
  <1>4. Shape(r)
    BY <1>1, <1>2, <1>3 DEF Known, Local, Shape, Label, Alike, NoFiles
  <1>5. Becomes(p, r)
    BY <1>1, <1>2, <1>3, <1>4 DEF Becomes, Known, InOp, Local, Shape, Label
  <1>6. /\ ic' \in IcSet
        /\ \A i \in Inum : /\ ic'[i].ref = ic[i].ref
                           /\ ic'[i].lock = ic[i].lock
    BY <1>1, <1>2 DEF Known
  <1>7. LockStep(p, r)
    BY <1>1, <1>2, <1>3, <1>6 DEF LockStep, Known, Locks, Label, Alike
  <1>8. ASSUME NEW i \in Inum PROVE ic'[i].ref - Count(r, i) = ic[i].ref - Count(proc[p], i)
    BY <1>1, <1>2, <1>3, <1>6 DEF Known, Count, One, Refers, Label, WithIp, WithDp, Alike, Shape, Local
  <1>9. SameFiles /\ ic' \in IcSet
    BY <1>2, <1>6, FilesStay
  <1> QED
    BY <1>5, <1>7, <1>8, <1>9, QuietKeeps

\* exit() puts its directory.
LEMMA ExitCwdCounts ==
  ASSUME FilesInv, NEW p \in Proc, ExitCwd(p)
  PROVE  FilesInv'
  <1>1. Known(p)
    BY InvFacts
  <1> DEFINE r == PutThen(proc[p], proc[p].cwd, "exitcwd")
  <1>2. /\ proc' = [proc EXCEPT ![p] = r] /\ ft' = ft /\ op' = op \cup {p}
        /\ ic' = ic
        /\ proc[p].st = "run"
        /\ proc[p].pc = "exit"
        /\ NoFiles(proc[p])
    BY DEF ExitCwd, At_, Become, BeginOp, NoFiles
  <1>3. /\ Rec(r) /\ Alike(r, proc[p])
        /\ r.cwd = proc[p].cwd
        /\ r.pc = "put"
        /\ r.put = proc[p].cwd
        /\ r.then = "exitcwd"
    BY <1>1, <1>2 DEF Known, Rec, Fields, Alike, PutThen
  <1> HIDE DEF r
  <1>4. Shape(r)
    BY <1>1, <1>2, <1>3 DEF Known, Local, Shape, Label, Alike, NoFiles
  <1>5. Becomes(p, r)
    BY <1>1, <1>2, <1>3, <1>4 DEF Becomes, Known, InOp, Local, Shape, Label
  <1>6. /\ ic' \in IcSet
        /\ \A i \in Inum : /\ ic'[i].ref = ic[i].ref
                           /\ ic'[i].lock = ic[i].lock
    BY <1>1, <1>2 DEF Known
  <1>7. LockStep(p, r)
    BY <1>1, <1>2, <1>3, <1>6 DEF LockStep, Known, Locks, Label, Alike
  <1>8. ASSUME NEW i \in Inum PROVE ic'[i].ref - Count(r, i) = ic[i].ref - Count(proc[p], i)
    BY <1>1, <1>2, <1>3, <1>6 DEF Known, Count, One, Refers, Label, WithIp, WithDp, Alike, Shape, Local
  <1>9. SameFiles /\ ic' \in IcSet
    BY <1>2, <1>6, FilesStay
  <1> QED
    BY <1>5, <1>7, <1>8, <1>9, QuietKeeps

-----------------------------------------------------------------------------
(* The calls that open and close files.                                    *)

\* The ends of sys_open() without a file.
OpenPut(p) ==
  /\ Opening(p) /\ ic' = Iunlock(Visit(ic, proc[p].ip), proc[p].ip)
  /\ \/ Become(p, PutThen(proc[p], proc[p].ip, "fail"))
     \/ Become(p, PutThen(proc[p], proc[p].ip, "done"))
  /\ op' = op /\ ft' = ft

\* sys_open() that fails, and sys_mkdir() or sys_mknod() at the end.
LEMMA OpenPutCounts ==
  ASSUME FilesInv, NEW p \in Proc, OpenPut(p)
  PROVE  FilesInv'
  <1>1. Known(p)
    BY InvFacts
  <1>2. CASE /\ ic' = Iunlock(Visit(ic, proc[p].ip), proc[p].ip)
             /\ Become(p, PutThen(proc[p], proc[p].ip, "fail"))
    <2> DEFINE r == PutThen(proc[p], proc[p].ip, "fail")
    <2>1. /\ proc' = [proc EXCEPT ![p] = r] /\ ft' = ft /\ op' = op
          /\ ic' = Iunlock(Visit(ic, proc[p].ip), proc[p].ip)
          /\ proc[p].st = "run"
          /\ proc[p].pc \in {"open", "exists", "made"}
      BY <1>2, <1>1 DEF OpenPut, At_, Become, Opening
    <2>2. /\ Rec(r) /\ Alike(r, proc[p])
          /\ r.cwd = proc[p].cwd
          /\ r.pc = "put"
          /\ r.put = proc[p].ip
          /\ r.then = "fail"
          /\ r.ip = proc[p].ip
          /\ r.dp = proc[p].dp
          /\ r.next = proc[p].next
          /\ r.fail = proc[p].fail
      BY <1>1, <2>1 DEF Known, Rec, Fields, Alike, PutThen
    <2> HIDE DEF r
    <2>3. Shape(r)
      BY <1>1, <2>1, <2>2 DEF Known, Local, Shape, Label, Alike, NoFiles
    <2>4. Becomes(p, r)
      BY <1>1, <2>1, <2>2, <2>3 DEF Becomes, Known, InOp, Local, Shape, Label
    <2>9. /\ Visit(ic, proc[p].ip) \in IcSet
          /\ \A i \in Inum : Visit(ic, proc[p].ip)[i].ref = ic[i].ref /\ Visit(ic, proc[p].ip)[i].lock = ic[i].lock
      BY <1>1, VisitIs DEF Known
    <2>5. /\ ic' \in IcSet
          /\ \A i \in Inum : /\ ic'[i].ref = ic[i].ref
                             /\ ic'[i].lock = IF proc[p].ip = i THEN 0 ELSE ic[i].lock
      BY <1>1, <2>1, <2>9, IunlockIs DEF Known
    <2>6. LockStep(p, r)
      BY <1>1, <2>1, <2>2, <2>5 DEF LockStep, Known, Locks, Label, Alike
    <2>7. ASSUME NEW i \in Inum PROVE ic'[i].ref - Count(r, i) = ic[i].ref - Count(proc[p], i)
      BY <1>1, <2>1, <2>2, <2>5 DEF Known, Count, One, Refers, Label, WithIp, WithDp, Alike, Shape, Local
    <2>8. SameFiles /\ ic' \in IcSet
      BY <2>1, <2>5, FilesStay
    <2> QED
      BY <2>4, <2>6, <2>7, <2>8, QuietKeeps
  <1>3. CASE /\ ic' = Iunlock(Visit(ic, proc[p].ip), proc[p].ip)
             /\ Become(p, PutThen(proc[p], proc[p].ip, "done"))
    <2> DEFINE r == PutThen(proc[p], proc[p].ip, "done")
    <2>1. /\ proc' = [proc EXCEPT ![p] = r] /\ ft' = ft /\ op' = op
          /\ ic' = Iunlock(Visit(ic, proc[p].ip), proc[p].ip)
          /\ proc[p].st = "run"
          /\ proc[p].pc \in {"open", "exists", "made"}
      BY <1>3, <1>1 DEF OpenPut, At_, Become, Opening
    <2>2. /\ Rec(r) /\ Alike(r, proc[p])
          /\ r.cwd = proc[p].cwd
          /\ r.pc = "put"
          /\ r.put = proc[p].ip
          /\ r.then = "done"
          /\ r.ip = proc[p].ip
          /\ r.dp = proc[p].dp
          /\ r.next = proc[p].next
          /\ r.fail = proc[p].fail
      BY <1>1, <2>1 DEF Known, Rec, Fields, Alike, PutThen
    <2> HIDE DEF r
    <2>3. Shape(r)
      BY <1>1, <2>1, <2>2 DEF Known, Local, Shape, Label, Alike, NoFiles
    <2>4. Becomes(p, r)
      BY <1>1, <2>1, <2>2, <2>3 DEF Becomes, Known, InOp, Local, Shape, Label
    <2>9. /\ Visit(ic, proc[p].ip) \in IcSet
          /\ \A i \in Inum : Visit(ic, proc[p].ip)[i].ref = ic[i].ref /\ Visit(ic, proc[p].ip)[i].lock = ic[i].lock
      BY <1>1, VisitIs DEF Known
    <2>5. /\ ic' \in IcSet
          /\ \A i \in Inum : /\ ic'[i].ref = ic[i].ref
                             /\ ic'[i].lock = IF proc[p].ip = i THEN 0 ELSE ic[i].lock
      BY <1>1, <2>1, <2>9, IunlockIs DEF Known
    <2>6. LockStep(p, r)
      BY <1>1, <2>1, <2>2, <2>5 DEF LockStep, Known, Locks, Label, Alike
    <2>7. ASSUME NEW i \in Inum PROVE ic'[i].ref - Count(r, i) = ic[i].ref - Count(proc[p], i)
      BY <1>1, <2>1, <2>2, <2>5 DEF Known, Count, One, Refers, Label, WithIp, WithDp, Alike, Shape, Local
    <2>8. SameFiles /\ ic' \in IcSet
      BY <2>1, <2>5, FilesStay
    <2> QED
      BY <2>4, <2>6, <2>7, <2>8, QuietKeeps
  <1> QED
    BY <1>2, <1>3 DEF OpenPut

\* What filealloc() and fdalloc() find is free.
LEMMA LowestIs == ASSUME NEW S, S \subseteq Nat, S # {} PROVE Lowest(S) \in S
  <1>1. \E x \in S : \A y \in S : x <= y
    BY LeastNumber
  <1> QED
    BY <1>1 DEF Lowest

\* sys_pipe() finds two.
LEMMA LowestTwo ==
  ASSUME NEW T, IsFiniteSet(T), NEW S, S \subseteq T, S \subseteq Nat, Cardinality(S) >= 2
  PROVE  Lowest(S) \in S /\ Lowest(S \ {Lowest(S)}) \in S \ {Lowest(S)}
  <1>1. IsFiniteSet(S)
    BY FS_Subset
  <1>2. S # {}
    BY FS_EmptySet
  <1>3. Lowest(S) \in S
    BY <1>2, LowestIs
  <1> DEFINE x == Lowest(S)
             R == S \ {x}
  <1> HIDE DEF x
  <1>4. Cardinality(R) = Cardinality(S) - 1 /\ Cardinality(S) \in Nat
    BY <1>1, <1>3, FS_RemoveElement, FS_CardinalityType DEF x
  <1>5. R # {} /\ R \subseteq Nat
    <2>1. R \subseteq Nat
      OBVIOUS
    <2> HIDE DEF R
    <2>2. Cardinality({}) = 0 /\ Cardinality(R) # 0
      BY <1>4, FS_EmptySet
    <2> QED
      BY <2>1, <2>2
  <1>6. Lowest(R) \in R
    BY <1>5, LowestIs
  <1> QED
    BY <1>3, <1>6 DEF x

\* One descriptor more.
LEMMA FdsAdd ==
  ASSUME NEW F, NEW G, NEW p \in Proc, NEW fd \in Fd, NEW f \in File, NEW g \in File,
         \A x \in Proc, d \in Fd : x # p \/ d # fd => G[x].ofile[d] = F[x].ofile[d],
         F[p].ofile[fd] = 0, G[p].ofile[fd] = f
  PROVE  /\ Cardinality(FdsOf(F, g)) \in Nat
         /\ Cardinality(FdsOf(G, g)) = Cardinality(FdsOf(F, g)) + One(g = f)
  <1>1. IsFiniteSet(Proc \X Fd) /\ FdsOf(F, g) \subseteq Proc \X Fd
    BY FilesFacts, FS_Product DEF FdsOf
  <1>2. IsFiniteSet(FdsOf(F, g)) /\ Cardinality(FdsOf(F, g)) \in Nat
    BY <1>1, FS_Subset, FS_CardinalityType
  <1>3. <<p, fd>> \notin FdsOf(F, g)
    BY FilesFacts DEF FdsOf
  <1>4. FdsOf(G, g) = FdsOf(F, g) \cup (IF g = f THEN {<<p, fd>>} ELSE {})
    <2>1. <<p, fd>> \in FdsOf(G, g) <=> g = f
      BY DEF FdsOf
    <2>2. ASSUME NEW x \in Proc, NEW d \in Fd, x # p \/ d # fd
          PROVE  <<x, d>> \in FdsOf(G, g) <=> <<x, d>> \in FdsOf(F, g)
      BY <2>2 DEF FdsOf
    <2>3. FdsOf(G, g) \subseteq Proc \X Fd /\ FdsOf(F, g) \subseteq Proc \X Fd
      BY DEF FdsOf
    <2> QED
      BY <1>3, <2>1, <2>2, <2>3
  <1> DEFINE b == g = f
  <1>5. FdsOf(G, g) = FdsOf(F, g) \cup (IF b THEN {<<p, fd>>} ELSE {})
    BY <1>4
  <1> HIDE DEF b
  <1>6. Cardinality(FdsOf(G, g)) = Cardinality(FdsOf(F, g)) + One(b)
    BY <1>2, <1>3, <1>5, AddIf
  <1> QED
    BY <1>2, <1>6 DEF b

\* One file more that is an inode's.
LEMMA FilesAdd ==
  ASSUME NEW s, NEW t, NEW f \in File, NEW i,
         \A x \in File \ {f} : t[x].type = s[x].type /\ t[x].ip = s[x].ip,
         s[f].type # "inode"
  PROVE  /\ Cardinality(FilesOf(s, i)) \in Nat
         /\ Cardinality(FilesOf(t, i)) = Cardinality(FilesOf(s, i)) + One(t[f].type = "inode" /\ t[f].ip = i)
  <1>1. f \notin FilesOf(s, i)
    BY DEF FilesOf
  <1> DEFINE b == t[f].type = "inode" /\ t[f].ip = i
  <1>2. FilesOf(t, i) = FilesOf(s, i) \cup (IF b THEN {f} ELSE {})
    BY DEF FilesOf
  <1> HIDE DEF b
  <1>3. Cardinality(FilesOf(t, i)) = Cardinality(FilesOf(s, i)) + One(b)
    BY <1>1, <1>2, FilesFinite, AddIf
  <1> QED
    BY <1>3, FilesFinite DEF b


\* sys_open() gives its inode to a new file.
LEMMA OpenFileCounts ==
  ASSUME FilesInv, NEW p \in Proc, OpenFile(p)
  PROVE  FilesInv'
  <1>1. Known(p)
    BY InvFacts
  <1>2. CASE op' = op /\ ft' = ft /\ (\/ Become(p, PutThen(proc[p], proc[p].ip, "fail"))
                                      \/ Become(p, PutThen(proc[p], proc[p].ip, "done")))
    <2>1. OpenPut(p)
      BY <1>2 DEF OpenPut, OpenFile
    <2> QED
      BY <2>1, OpenPutCounts
  <1>3. CASE ~(op' = op /\ ft' = ft /\ (\/ Become(p, PutThen(proc[p], proc[p].ip, "fail"))
                                        \/ Become(p, PutThen(proc[p], proc[p].ip, "done"))))
    <2> DEFINE f == Lowest(FreeFiles)
               fd == Lowest(FreeFds(p))
               w == Return(proc[p], fd)
               r == [w EXCEPT !.ofile[fd] = f]
    <2>1. PICK m : /\ proc[p].st = "run" /\ proc[p].pc \in {"open", "exists", "made"}
                   /\ proc' = [proc EXCEPT ![p] = r] /\ op' = op \ {p}
                   /\ ic' = Iunlock(Visit(ic, proc[p].ip), proc[p].ip)
                   /\ FreeFiles # {} /\ FreeFds(p) # {}
                   /\ ft' = [ft EXCEPT ![f] = m]
                   /\ FileRec(m) /\ m.ref = 1 /\ m.type = "inode" /\ m.ip = proc[p].ip
      <3> DEFINE m == [ref |-> 1, type |-> "inode", ip |-> proc[p].ip, pipe |-> 0, off |-> 0,
                       readable |-> "WRONLY" \notin Call(p).mode,
                       writable |-> "WRONLY" \in Call(p).mode \/ "RDWR" \in Call(p).mode]
      <3>1. FileRec(m) /\ m.ref = 1 /\ m.type = "inode" /\ m.ip = proc[p].ip
        BY DEF FileRec, FileFields
      <3>2. /\ proc[p].st = "run" /\ proc[p].pc \in {"open", "exists", "made"}
            /\ ic' = Iunlock(Visit(ic, proc[p].ip), proc[p].ip)
        BY DEF OpenFile, Opening, At_
      <3>3. /\ proc' = [proc EXCEPT ![p] = r] /\ op' = op \ {p} /\ FreeFiles # {} /\ FreeFds(p) # {}
            /\ ft' = [ft EXCEPT ![f] = m]
        BY <1>3 DEF OpenFile, EndOp, Become
      <3> QED
        BY <3>1, <3>2, <3>3
    <2>2. /\ f \in File /\ ft[f].ref = 0 /\ fd \in Fd /\ proc[p].ofile[fd] = 0
      <3>1. FreeFiles \subseteq Nat /\ FreeFds(p) \subseteq Nat
        BY FilesFacts DEF FreeFiles, FreeFds
      <3>2. f \in FreeFiles /\ fd \in FreeFds(p)
        BY <2>1, <3>1, LowestIs
      <3> QED
        BY <3>2 DEF FreeFiles, FreeFds
    <2> HIDE DEF f, fd
    <2>3. Rec(w) /\ Alike(w, proc[p]) /\ w.cwd = proc[p].cwd /\ w.pc = "user"
      BY <1>1, ReturnIs DEF Known
    <2> HIDE DEF w
    <2>4. /\ proc[p].ofile \in [Fd -> 0..NFILE] /\ w.ofile = proc[p].ofile
      BY <1>1, <2>3 DEF Known, Local, Alike
    <2>5. /\ Rec(r) /\ r.cwd = proc[p].cwd /\ r.pc = "user" /\ r.st = "run"
          /\ r.ofile = [proc[p].ofile EXCEPT ![fd] = f]
      BY <2>1, <2>3, <2>4 DEF Rec, Fields, Alike
    <2> HIDE DEF r
    <2>6. Local(r)
      BY <2>2, <2>4, <2>5, FilesFacts DEF Local, Shape, Label
    <2>7. /\ Visit(ic, proc[p].ip) \in IcSet
          /\ \A i \in Inum : Visit(ic, proc[p].ip)[i].ref = ic[i].ref /\ Visit(ic, proc[p].ip)[i].lock = ic[i].lock
      BY <1>1, VisitIs DEF Known
    <2>8. /\ ic' \in IcSet
          /\ \A i \in Inum : ic'[i].ref = ic[i].ref /\ ic'[i].lock = IF proc[p].ip = i THEN 0 ELSE ic[i].lock
      BY <2>1, <2>7, IunlockIs
    <2>9. ProcStepOK(p, r)
      <3>1. \A i \in Inum : ic'[i].lock # p
        BY <1>1, <2>1, <2>8 DEF Known, Locks, Label
      <3> QED
        BY <2>1, <2>6, <2>8, <3>1 DEF ProcStepOK
    <2>10. /\ ft = [g \in File |-> ft[g]] /\ ft' = [g \in File |-> ft'[g]]
           /\ ft'[f] = m /\ \A g \in File \ {f} : ft'[g] = ft[g]
      BY <2>1, <2>2 DEF FilesInv, FilesOK
    <2>11. /\ proc = [q \in Proc |-> proc[q]]
           /\ proc'[p] = r /\ \A q \in Proc \ {p} : proc'[q] = proc[q]
      BY <2>1 DEF FilesInv, LocalOK
    <2>12. FilesOK(ft', proc')
      <3>1. \A x \in Proc, d \in Fd : x # p \/ d # fd => proc'[x].ofile[d] = proc[x].ofile[d]
        BY <2>4, <2>5, <2>11
      <3>2. proc'[p].ofile[fd] = f
        BY <2>2, <2>4, <2>5, <2>11
      <3>3. ASSUME NEW g \in File
            PROVE  /\ Cardinality(FdsOf(proc, g)) \in Nat
                   /\ Cardinality(FdsOf(proc', g)) = Cardinality(FdsOf(proc, g)) + One(g = f)
        BY <2>2, <3>1, <3>2, FdsAdd
      <3>4. \A g \in File : FileRec(ft[g]) /\ ft[g].ref = Cardinality(FdsOf(proc, g)) /\ (ft[g].ref = 0 => ft[g].type # "inode")
        BY DEF FilesInv, FilesOK
      <3>5. ASSUME NEW g \in File
            PROVE  /\ FileRec(ft'[g]) /\ ft'[g].ref = Cardinality(FdsOf(proc', g))
                   /\ ft'[g].ref = 0 => ft'[g].type # "inode"
        <4>1. CASE g = f
          <5>1. ft'[g] = m /\ Cardinality(FdsOf(proc, g)) = 0 /\ One(g = f) = 1
            BY <2>2, <2>10, <3>4, <4>1 DEF One
          <5>2. Cardinality(FdsOf(proc', g)) = 0 + 1
            BY <3>3, <5>1
          <5> QED
            BY <2>1, <5>1, <5>2
        <4>2. CASE g # f
          BY <2>10, <3>3, <3>4, <4>2 DEF One
        <4> QED
          BY <4>1, <4>2
      <3> QED
        BY <2>10, <3>5 DEF FilesOK
    <2>13. ASSUME NEW i \in Inum
           PROVE  /\ Cardinality(FilesOf(ft, i)) \in Nat
                  /\ Cardinality(FilesOf(ft', i)) = Cardinality(FilesOf(ft, i)) + One(proc[p].ip = i)
      <3>1. ft[f].type # "inode"
        BY <2>2 DEF FilesInv, FilesOK
      <3>2. /\ Cardinality(FilesOf(ft, i)) \in Nat
            /\ Cardinality(FilesOf(ft', i)) = Cardinality(FilesOf(ft, i)) + One(ft'[f].type = "inode" /\ ft'[f].ip = i)
        BY <2>2, <2>10, <3>1, FilesAdd
      <3> QED
        BY <2>1, <2>10, <3>2 DEF One
    <2>14. ASSUME NEW i \in Inum
           PROVE  /\ ic'[i].ref - Cardinality(FilesOf(ft', i)) - Count(r, i)
                     = ic[i].ref - Cardinality(FilesOf(ft, i)) - Count(proc[p], i)
                  /\ Cardinality(FilesOf(ft', i)) \in Nat /\ Cardinality(FilesOf(ft, i)) \in Nat
      <3>1. Count(proc[p], i) = Count(r, i) + One(proc[p].ip = i) /\ Count(r, i) \in Nat
        BY <2>1, <2>5 DEF Count, One, Refers, Label, WithIp, WithDp
      <3>2. ic'[i].ref = ic[i].ref /\ ic[i].ref \in Int /\ One(proc[p].ip = i) \in Nat
        BY <1>1, <2>8 DEF Known, One
      <3> QED
        BY <2>13, <3>1, <3>2
    <2> QED
      BY <2>9, <2>12, <2>14, StepKeeps
  <1> QED
    BY <1>2, <1>3

\* sys_dup() adds a descriptor and a reference.
LEMMA DupCounts ==
  ASSUME FilesInv, NEW p \in Proc, Dup(p)
  PROVE  FilesInv'
  <1>1. Known(p)
    BY InvFacts
  <1> DEFINE f == FileOf(p)
             fd == Lowest(FreeFds(p))
             w == Return(proc[p], fd)
             r == [w EXCEPT !.ofile[fd] = f]
  <1>2. /\ proc[p].st = "run" /\ proc[p].pc \in Outside
        /\ proc' = [proc EXCEPT ![p] = r] /\ op' = op /\ ic' = ic
        /\ Call(p).fd \in Fd /\ f # 0 /\ FreeFds(p) # {}
        /\ ft' = [ft EXCEPT ![f].ref = @ + 1]
    BY DEF Dup, Calls, Valid, FileOf, Become, Outside
  <1>3. fd \in Fd /\ proc[p].ofile[fd] = 0
    <2>1. FreeFds(p) \subseteq Nat
      BY FilesFacts DEF FreeFds
    <2>2. fd \in FreeFds(p)
      BY <1>2, <2>1, LowestIs
    <2> QED
      BY <2>2 DEF FreeFds
  <1>4. f \in File /\ proc[p].ofile \in [Fd -> 0..NFILE]
    BY <1>1, <1>2, FilesFacts DEF Known, Local, FileOf
  <1> HIDE DEF f, fd
  <1>5. Rec(w) /\ Alike(w, proc[p]) /\ w.cwd = proc[p].cwd /\ w.pc = "user"
    BY <1>1, ReturnIs DEF Known
  <1> HIDE DEF w
  <1>6. w.ofile = proc[p].ofile
    BY <1>5 DEF Alike
  <1>7. /\ Rec(r) /\ r.cwd = proc[p].cwd /\ r.pc = "user" /\ r.st = "run"
        /\ r.ofile = [proc[p].ofile EXCEPT ![fd] = f]
    BY <1>2, <1>4, <1>5, <1>6 DEF Rec, Fields, Alike
  <1> HIDE DEF r
  <1>8. Local(r)
    BY <1>3, <1>4, <1>7, FilesFacts DEF Local, Shape, Label
  <1>9. ProcStepOK(p, r)
    <2>1. p \notin op /\ \A i \in Inum : ic'[i].lock # p
      BY <1>1, <1>2 DEF Known, Locks, Label, InOp, Outside
    <2> QED
      BY <1>1, <1>2, <1>8, <2>1 DEF ProcStepOK, Known
  <1>10. /\ ft = [g \in File |-> ft[g]] /\ \A g \in File : FileRec(ft[g])
         /\ \A g \in File : ft[g].ref = Cardinality(FdsOf(proc, g)) /\ (ft[g].ref = 0 => ft[g].type # "inode")
    BY DEF FilesInv, FilesOK
  <1>11. /\ ft' = [g \in File |-> ft'[g]] /\ \A g \in File : FileRec(ft'[g])
         /\ \A g \in File : ft'[g].type = ft[g].type /\ ft'[g].ip = ft[g].ip
         /\ ft'[f].ref = ft[f].ref + 1 /\ \A g \in File \ {f} : ft'[g].ref = ft[g].ref
    BY <1>2, <1>4, <1>10 DEF FileRec, FileFields
  <1>12. /\ proc = [q \in Proc |-> proc[q]]
         /\ proc'[p] = r /\ \A q \in Proc \ {p} : proc'[q] = proc[q]
    BY <1>2 DEF FilesInv, LocalOK
  <1>13. FilesOK(ft', proc')
    <2>1. \A x \in Proc, d \in Fd : x # p \/ d # fd => proc'[x].ofile[d] = proc[x].ofile[d]
      BY <1>4, <1>7, <1>12
    <2>2. proc'[p].ofile[fd] = f
      BY <1>3, <1>4, <1>7, <1>12
    <2>3. ASSUME NEW g \in File
          PROVE  /\ Cardinality(FdsOf(proc, g)) \in Nat
                 /\ Cardinality(FdsOf(proc', g)) = Cardinality(FdsOf(proc, g)) + One(g = f)
      BY <1>3, <1>4, <2>1, <2>2, FdsAdd
    <2>4. ASSUME NEW g \in File
          PROVE  ft'[g].ref = Cardinality(FdsOf(proc', g)) /\ (ft'[g].ref = 0 => ft[g].type # "inode")
      <3>1. CASE g = f
        BY <1>10, <1>11, <2>3, <3>1 DEF One
      <3>2. CASE g # f
        BY <1>10, <1>11, <2>3, <3>2 DEF One
      <3> QED
        BY <3>1, <3>2
    <2> QED
      BY <1>11, <2>4 DEF FilesOK
  <1>14. ASSUME NEW i \in Inum
         PROVE  /\ ic'[i].ref - Cardinality(FilesOf(ft', i)) - Count(r, i)
                   = ic[i].ref - Cardinality(FilesOf(ft, i)) - Count(proc[p], i)
                /\ Cardinality(FilesOf(ft', i)) \in Nat /\ Cardinality(FilesOf(ft, i)) \in Nat
    <2>1. Count(proc[p], i) = Count(r, i)
      BY <1>2, <1>7 DEF Count, One, Refers, Label, WithIp, WithDp, Outside
    <2>2. FilesOf(ft', i) = FilesOf(ft, i)
      BY <1>11 DEF FilesOf
    <2> QED
      BY <1>2, <2>1, <2>2, FilesFinite
  <1> QED
    BY <1>9, <1>13, <1>14, StepKeeps

\* fileclose() gives up a descriptor, a reference, and, with the last one,
\* hands the file's inode to iput().
LEMMA CloseFileCounts ==
  ASSUME FilesInv, NEW p \in Proc, NEW fd \in Fd, NEW r, NEW after \in {"done", "exitclosed"},
         proc[p].st = "run", proc[p].pc \in Outside, proc[p].ofile[fd] # 0,
         Rec(r), Alike(r, proc[p]), r.cwd = proc[p].cwd, r.pc \in Outside,
         CloseFile(p, fd, r, after)
  PROVE  FilesInv'
  <1>1. Known(p)
    BY InvFacts
  <1> DEFINE f == proc[p].ofile[fd]
             puts == ft[f].ref = 1 /\ ft[f].type = "inode"
             y == [proc[p] EXCEPT !.ofile[fd] = 0]
             x == IF puts THEN PutThen(y, ft[f].ip, after) ELSE [r EXCEPT !.ofile[fd] = 0]
             m == IF ft[f].ref = 1 THEN NoFile ELSE [ft[f] EXCEPT !.ref = @ - 1]
  <1>2. /\ proc' = [proc EXCEPT ![p] = x] /\ ic' = ic /\ ft' = [ft EXCEPT ![f] = m]
        /\ op' = IF puts THEN op \cup {p} ELSE op
    <2>1. ic' = ic /\ ft' = [ft EXCEPT ![f] = m]
      BY DEF CloseFile
    <2>2. CASE puts
      BY <2>1, <2>2 DEF CloseFile, BeginOp, Become
    <2>3. CASE ~puts
      BY <2>1, <2>3 DEF CloseFile, Become
    <2> QED
      BY <2>1, <2>2, <2>3
  <1>3. f \in File /\ proc[p].ofile \in [Fd -> 0..NFILE]
    BY <1>1, FilesFacts, SMTT(30) DEF Known, Local
  <1>4. r.ofile = proc[p].ofile /\ r.st = "run"
    BY DEF Alike
  <1>5. /\ Rec(y) /\ y.cwd = proc[p].cwd /\ y.st = "run"
        /\ y.ofile = [proc[p].ofile EXCEPT ![fd] = 0]
    BY <1>1 DEF Known, Rec, Fields
  <1> HIDE DEF y
  <1>6. /\ Rec(x) /\ x.cwd = proc[p].cwd /\ x.st = "run"
        /\ x.ofile = [proc[p].ofile EXCEPT ![fd] = 0]
        /\ puts => x.pc = "put" /\ x.then = after /\ x.put = ft[f].ip
        /\ ~puts => x.pc \in Outside
    <2>1. CASE puts
      <3>1. x = PutThen(y, ft[f].ip, after)
        BY <2>1
      <3> HIDE DEF x
      <3> QED
        BY <1>5, <2>1, <3>1 DEF PutThen, Rec, Fields
    <2>2. CASE ~puts
      <3>1. x = [r EXCEPT !.ofile[fd] = 0]
        BY <2>2
      <3> HIDE DEF x, puts
      <3> QED
        BY <1>4, <2>2, <3>1 DEF Rec, Fields
    <2> QED
      BY <2>1, <2>2
  <1>7. /\ ft = [g \in File |-> ft[g]] /\ \A g \in File : FileRec(ft[g])
        /\ \A g \in File : ft[g].ref = Cardinality(FdsOf(proc, g)) /\ (ft[g].ref = 0 => ft[g].type # "inode")
    BY DEF FilesInv, FilesOK
  <1>8. /\ FileRec(m)
        /\ ft[f].ref = 1 => m.ref = 0 /\ m.type = "none"
        /\ ft[f].ref # 1 => m.ref = ft[f].ref - 1 /\ m.type = ft[f].type /\ m.ip = ft[f].ip
    BY <1>3, <1>7 DEF FileRec, FileFields, NoFile
  <1> HIDE DEF x, m, f
  <1>9. /\ ft' = [g \in File |-> ft'[g]] /\ ft'[f] = m /\ \A g \in File \ {f} : ft'[g] = ft[g]
    BY <1>2, <1>3, <1>7
  <1>10. /\ proc = [q \in Proc |-> proc[q]]
         /\ proc'[p] = x /\ \A q \in Proc \ {p} : proc'[q] = proc[q]
    BY <1>2 DEF FilesInv, LocalOK
  <1>11. Local(x)
    <2>1. x.ofile \in [Fd -> 0..NFILE]
      BY <1>3, <1>6, FilesFacts
    <2> HIDE DEF puts
    <2>2. Shape(x)
      BY <1>6 DEF Shape, Label, Outside
    <2> QED
      BY <1>6, <2>1, <2>2 DEF Local
  <1>12. ProcStepOK(p, x)
    <2>1. p \notin op /\ \A i \in Inum : ic'[i].lock # p
      BY <1>1, <1>2 DEF Known, Locks, Label, InOp, Outside
    <2> HIDE DEF puts
    <2>2. op' \subseteq op \cup {p} /\ (p \in op' => InOp(x))
      BY <1>2, <1>6, <2>1 DEF InOp
    <2> QED
      BY <1>1, <1>2, <1>11, <2>1, <2>2 DEF ProcStepOK, Known
  <1>13. ASSUME NEW g \in File
         PROVE  /\ Cardinality(FdsOf(proc', g)) \in Nat
                /\ Cardinality(FdsOf(proc, g)) = Cardinality(FdsOf(proc', g)) + One(g = f)
    <2>1. \A q \in Proc, d \in Fd : q # p \/ d # fd => proc[q].ofile[d] = proc'[q].ofile[d]
      BY <1>3, <1>6, <1>10
    <2>2. proc'[p].ofile[fd] = 0 /\ proc[p].ofile[fd] = f
      BY <1>3, <1>6, <1>10 DEF f
    <2> QED
      BY <1>3, <2>1, <2>2, FdsAdd
  <1>14. FilesOK(ft', proc')
    <2>1. ASSUME NEW g \in File
          PROVE  FileRec(ft'[g]) /\ ft'[g].ref = Cardinality(FdsOf(proc', g)) /\ (ft'[g].ref = 0 => ft'[g].type # "inode")
      <3>1. CASE g = f
        BY <1>7, <1>8, <1>9, <1>13, <3>1 DEF One
      <3>2. CASE g # f
        BY <1>7, <1>9, <1>13, <3>2 DEF One
      <3> QED
        BY <3>1, <3>2
    <2> QED
      BY <1>9, <2>1 DEF FilesOK
  <1>15. ASSUME NEW i \in Inum
         PROVE  /\ Cardinality(FilesOf(ft', i)) \in Nat
                /\ Cardinality(FilesOf(ft, i)) = Cardinality(FilesOf(ft', i)) + One(puts /\ ft[f].ip = i)
    <2>1. CASE ft[f].ref = 1
      <3>1. ft'[f].type # "inode"
        BY <1>8, <1>9, <2>1
      <3>2. /\ Cardinality(FilesOf(ft', i)) \in Nat
            /\ Cardinality(FilesOf(ft, i)) = Cardinality(FilesOf(ft', i)) + One(ft[f].type = "inode" /\ ft[f].ip = i)
        BY <1>3, <1>9, <3>1, FilesAdd
      <3> QED
        BY <2>1, <3>2 DEF One
    <2>2. CASE ft[f].ref # 1
      <3>1. FilesOf(ft', i) = FilesOf(ft, i)
        BY <1>8, <1>9, <2>2 DEF FilesOf
      <3> QED
        BY <2>2, <3>1, FilesFinite DEF One
    <2> QED
      BY <2>1, <2>2
  <1> HIDE DEF puts
  <1>16. ASSUME NEW i \in Inum
         PROVE  /\ ic'[i].ref - Cardinality(FilesOf(ft', i)) - Count(x, i)
                   = ic[i].ref - Cardinality(FilesOf(ft, i)) - Count(proc[p], i)
                /\ Cardinality(FilesOf(ft', i)) \in Nat /\ Cardinality(FilesOf(ft, i)) \in Nat
    <2>1. Count(x, i) = Count(proc[p], i) + One(puts /\ ft[f].ip = i)
      BY <1>6 DEF Count, One, Refers, Label, WithIp, WithDp, Outside
    <2>2. ic'[i].ref = ic[i].ref /\ ic[i].ref \in Int /\ One(puts /\ ft[f].ip = i) \in Nat /\ Count(proc[p], i) \in Nat
      BY <1>1, <1>2 DEF Known, One, Count
    <2>3. Cardinality(FilesOf(ft, i)) \in Nat
      BY FilesFinite
    <2> QED
      BY <1>15, <2>1, <2>2, <2>3
  <1> QED
    BY <1>12, <1>14, <1>16, StepKeeps

\* sys_close().
LEMMA CloseCounts ==
  ASSUME FilesInv, NEW p \in Proc, Close(p)
  PROVE  FilesInv'
  <1>1. /\ proc[p].st = "run" /\ proc[p].pc \in Outside /\ Call(p).fd \in Fd
        /\ proc[p].ofile[Call(p).fd] # 0 /\ CloseFile(p, Call(p).fd, Return(proc[p], 0), "done")
    BY DEF Close, Calls, Valid, Outside
  <1>2. Rec(proc[p])
    BY InvFacts DEF Known
  <1>3. LET r == Return(proc[p], 0)
        IN  Rec(r) /\ Alike(r, proc[p]) /\ r.cwd = proc[p].cwd /\ r.pc \in Outside
    BY <1>2, ReturnOutside
  <1> QED
    BY <1>1, <1>3, CloseFileCounts

\* exit() closes a file.
LEMMA ExitFilesCounts ==
  ASSUME FilesInv, NEW p \in Proc, ExitFiles(p)
  PROVE  FilesInv'
  <1> DEFINE open == {d \in Fd : proc[p].ofile[d] # 0}
  <1>1. /\ proc[p].st = "run" /\ proc[p].pc \in Outside /\ open # {}
        /\ CloseFile(p, Lowest(open), proc[p], "exitclosed")
    BY DEF ExitFiles, At_, Outside
  <1>2. Rec(proc[p])
    BY InvFacts DEF Known
  <1>3. Lowest(open) \in open
    <2>1. open \subseteq Nat
      BY FilesFacts
    <2> QED
      BY <1>1, <2>1, LowestIs
  <1> QED
    BY <1>1, <1>2, <1>3, CloseFileCounts DEF Alike

\* sys_pipe() takes two files and two descriptors, or nothing.
LEMMA PipeCallCounts ==
  ASSUME FilesInv, NEW p \in Proc, PipeCall(p)
  PROVE  FilesInv'
  <1>1. Known(p) /\ Rec(proc[p])
    BY InvFacts DEF Known
  <1>2. proc[p].st = "run" /\ proc[p].pc \in Outside /\ op' = op /\ ic' = ic
    BY DEF PipeCall, Calls, Outside
  <1> DEFINE f == Lowest(FreeFiles)
             g == Lowest(FreeFiles \ {f})
             d0 == Lowest(FreeFds(p))
             d1 == Lowest(FreeFds(p) \ {d0})
             w == Return(proc[p], 0)
             r == [w EXCEPT !.ofile[d0] = f, !.ofile[d1] = g]
             end == [NoFile EXCEPT !.ref = 1, !.type = "pipe"]
  <1>3. CASE ft' = ft /\ proc' = [proc EXCEPT ![p] = Return(proc[p], -1)]
    <2>1. SameFiles
      BY <1>3, FilesStay
    <2> QED
      BY <1>1, <1>2, <1>3, <2>1, ReturnOutside, OutsideKeeps
  <1>4. CASE ~(ft' = ft /\ proc' = [proc EXCEPT ![p] = Return(proc[p], -1)])
    <2>1. PICK m, n : /\ ft' = [[ft EXCEPT ![f] = m] EXCEPT ![g] = n]
                      /\ FileRec(m) /\ m.ref = 1 /\ m.type = "pipe"
                      /\ FileRec(n) /\ n.ref = 1 /\ n.type = "pipe"
      <3>1. \A k : LET m == [end EXCEPT !.pipe = k, !.readable = TRUE]
                       n == [end EXCEPT !.pipe = k, !.writable = TRUE]
                   IN  /\ FileRec(m) /\ m.ref = 1 /\ m.type = "pipe"
                       /\ FileRec(n) /\ n.ref = 1 /\ n.type = "pipe"
        BY DEF NoFile, FileRec, FileFields
      <3> HIDE DEF end
      <3>2. PICK k : ft' = [ft EXCEPT ![f] = [end EXCEPT !.pipe = k, !.readable = TRUE],
                                      ![g] = [end EXCEPT !.pipe = k, !.writable = TRUE]]
        BY <1>4 DEF PipeCall, Become, end
      <3> DEFINE m == [end EXCEPT !.pipe = k, !.readable = TRUE]
                 n == [end EXCEPT !.pipe = k, !.writable = TRUE]
      <3>3. /\ FileRec(m) /\ m.ref = 1 /\ m.type = "pipe"
            /\ FileRec(n) /\ n.ref = 1 /\ n.type = "pipe"
        BY <3>1
      <3>4. ft' = [[ft EXCEPT ![f] = m] EXCEPT ![g] = n]
        BY <3>2
      <3> HIDE DEF m, n, f, g
      <3> QED
        BY <3>3, <3>4
    <2>2. /\ Cardinality(FreeFiles) >= 2 /\ Cardinality(FreeFds(p)) >= 2
          /\ proc' = [proc EXCEPT ![p] = r]
      BY <1>4 DEF PipeCall, Become
    <2>3. /\ f \in File /\ g \in File /\ f # g /\ ft[f].ref = 0 /\ ft[g].ref = 0
      <3>1. FreeFiles \subseteq File /\ FreeFiles \subseteq Nat
        BY FilesFacts DEF FreeFiles
      <3>2. f \in FreeFiles /\ g \in FreeFiles \ {f}
        BY <2>2, <3>1, FilesFacts, LowestTwo
      <3> QED
        BY <3>2 DEF FreeFiles
    <2>4. /\ d0 \in Fd /\ d1 \in Fd /\ d0 # d1 /\ proc[p].ofile[d0] = 0 /\ proc[p].ofile[d1] = 0
      <3>1. FreeFds(p) \subseteq Fd /\ FreeFds(p) \subseteq Nat
        BY FilesFacts DEF FreeFds
      <3>2. d0 \in FreeFds(p) /\ d1 \in FreeFds(p) \ {d0}
        BY <2>2, <3>1, FilesFacts, LowestTwo
      <3> QED
        BY <3>2 DEF FreeFds
    <2> HIDE DEF f, g, d0, d1
    <2>5. Rec(w) /\ Alike(w, proc[p]) /\ w.cwd = proc[p].cwd /\ w.pc = "user"
      BY <1>1, ReturnIs
    <2> HIDE DEF w
    <2>6. w.ofile = proc[p].ofile /\ proc[p].ofile \in [Fd -> 0..NFILE]
      BY <1>1, <2>5 DEF Alike, Known, Local
    <2>7. /\ Rec(r) /\ r.cwd = proc[p].cwd /\ r.pc = "user" /\ r.st = "run"
          /\ r.ofile = [[proc[p].ofile EXCEPT ![d0] = f] EXCEPT ![d1] = g]
      BY <1>2, <2>5, <2>6 DEF Rec, Fields, Alike
    <2> HIDE DEF r
    <2>8. Local(r)
      <3>1. f \in 0..NFILE /\ g \in 0..NFILE
        BY <2>3, FilesFacts
      <3>2. [proc[p].ofile EXCEPT ![d0] = f] \in [Fd -> 0..NFILE]
        BY <2>6, <3>1
      <3>3. r.ofile \in [Fd -> 0..NFILE]
        BY <2>7, <3>1, <3>2
      <3> QED
        BY <2>7, <3>3 DEF Local, Shape, Label
    <2>9. ProcStepOK(p, r)
      <3>1. p \notin op /\ \A i \in Inum : ic'[i].lock # p
        BY <1>1, <1>2 DEF Known, Locks, Label, InOp, Outside
      <3> QED
        BY <1>1, <1>2, <2>2, <2>8, <3>1 DEF ProcStepOK, Known
    <2>10. /\ ft = [x \in File |-> ft[x]] /\ \A x \in File : FileRec(ft[x])
           /\ \A x \in File : ft[x].ref = Cardinality(FdsOf(proc, x)) /\ (ft[x].ref = 0 => ft[x].type # "inode")
      BY DEF FilesInv, FilesOK
    <2>11. /\ ft' = [x \in File |-> ft'[x]] /\ ft'[f] = m /\ ft'[g] = n
           /\ \A x \in File \ {f, g} : ft'[x] = ft[x]
      BY <2>1, <2>3, <2>10
    <2>12. /\ proc = [q \in Proc |-> proc[q]]
           /\ proc'[p] = r /\ \A q \in Proc \ {p} : proc'[q] = proc[q]
      BY <2>2 DEF FilesInv, LocalOK
    <2>13. ASSUME NEW x \in File
           PROVE  /\ Cardinality(FdsOf(proc, x)) \in Nat
                  /\ Cardinality(FdsOf(proc', x)) = Cardinality(FdsOf(proc, x)) + One(x = f) + One(x = g)
      <3> DEFINE F1 == [q \in Proc |-> [ofile |-> IF q = p THEN [proc[p].ofile EXCEPT ![d0] = f]
                                                  ELSE proc[q].ofile]]
      <3>1. /\ F1[p].ofile[d0] = f /\ F1[p].ofile[d1] = 0
            /\ \A q \in Proc, d \in Fd : q # p \/ d # d0 => F1[q].ofile[d] = proc[q].ofile[d]
        BY <2>4, <2>6
      <3>2. /\ proc'[p].ofile[d1] = g
            /\ \A q \in Proc, d \in Fd : q # p \/ d # d1 => proc'[q].ofile[d] = F1[q].ofile[d]
        BY <2>4, <2>6, <2>7, <2>12
      <3> HIDE DEF F1
      <3>3. /\ Cardinality(FdsOf(proc, x)) \in Nat
            /\ Cardinality(FdsOf(F1, x)) = Cardinality(FdsOf(proc, x)) + One(x = f)
        BY <2>3, <2>4, <3>1, FdsAdd
      <3>4. Cardinality(FdsOf(proc', x)) = Cardinality(FdsOf(F1, x)) + One(x = g)
        BY <2>3, <2>4, <3>1, <3>2, FdsAdd, SMTT(30)
      <3> QED
        BY <3>3, <3>4
    <2>14. FilesOK(ft', proc')
      <3>1. ASSUME NEW x \in File
            PROVE  FileRec(ft'[x]) /\ ft'[x].ref = Cardinality(FdsOf(proc', x)) /\ (ft'[x].ref = 0 => ft'[x].type # "inode")
        <4>1. CASE x = f \/ x = g
          <5>1. /\ Cardinality(FdsOf(proc, x)) = 0 /\ One(x = f) + One(x = g) = 1
                /\ One(x = f) \in Int /\ One(x = g) \in Int
            BY <2>3, <2>10, <4>1 DEF One
          <5>2. Cardinality(FdsOf(proc', x)) = 1
            BY <2>13, <5>1
          <5>3. FileRec(ft'[x]) /\ ft'[x].ref = 1 /\ ft'[x].type = "pipe"
            BY <2>1, <2>11, <4>1
          <5> QED
            BY <5>2, <5>3
        <4>2. CASE x # f /\ x # g
          BY <2>10, <2>11, <2>13, <4>2 DEF One
        <4> QED
          BY <4>1, <4>2
      <3> QED
        BY <2>11, <3>1 DEF FilesOK
    <2>15. ASSUME NEW i \in Inum
           PROVE  /\ ic'[i].ref - Cardinality(FilesOf(ft', i)) - Count(r, i)
                     = ic[i].ref - Cardinality(FilesOf(ft, i)) - Count(proc[p], i)
                  /\ Cardinality(FilesOf(ft', i)) \in Nat /\ Cardinality(FilesOf(ft, i)) \in Nat
      <3>1. Count(proc[p], i) = Count(r, i)
        BY <1>2, <2>7 DEF Count, One, Refers, Label, WithIp, WithDp, Outside
      <3>2. FilesOf(ft', i) = FilesOf(ft, i)
        <4>1. ft[f].type # "inode" /\ ft[g].type # "inode" /\ ft'[f].type # "inode" /\ ft'[g].type # "inode"
          BY <2>1, <2>3, <2>10, <2>11
        <4>2. ASSUME NEW x \in File
              PROVE  (ft'[x].type = "inode" /\ ft'[x].ip = i) <=> (ft[x].type = "inode" /\ ft[x].ip = i)
          BY <2>11, <4>1
        <4> QED
          BY <4>2 DEF FilesOf
      <3> QED
        BY <1>2, <3>1, <3>2, FilesFinite
    <2> QED
      BY <2>9, <2>14, <2>15, StepKeeps
  <1> QED
    BY <1>3, <1>4

-----------------------------------------------------------------------------
(* Processes.                                                              *)

\* A step that changes nothing that is held.
LEMMA HoldsSame ==
  ASSUME FilesInv, LocalOK(proc'), ft' = ft, ic' = ic, op' \subseteq op,
         \A q \in Proc, d \in Fd : proc'[q].ofile[d] = proc[q].ofile[d],
         \A q \in Proc, i \in Inum, k \in Kinds : Refers(proc'[q], k, i) <=> Refers(proc[q], k, i),
         \A q \in Proc, i \in Inum : Locks(proc[q], i) => Locks(proc'[q], i),
         \A q \in op' : InOp(proc[q]) => InOp(proc'[q])
  PROVE  FilesInv'
  <1>1. \A f \in File : FdsOf(proc', f) = FdsOf(proc, f)
    BY DEF FdsOf
  <1>2. FilesOK(ft', proc')
    BY <1>1 DEF FilesInv, FilesOK
  <1>3. \A i \in Inum : Places(proc', i) = Places(proc, i)
    BY DEF Places
  <1>4. RefsOK(ic', ft', proc')
    BY <1>3 DEF FilesInv, RefsOK
  <1>5. LocksOK(ic', proc')
    BY DEF FilesInv, LocksOK, RefsOK, IcSet
  <1>6. OpsOK(op', proc')
    BY DEF FilesInv, OpsOK
  <1> QED
    BY <1>2, <1>4, <1>5, <1>6 DEF FilesInv


\* kill() marks a process, perhaps the caller.
LEMMA KillCounts ==
  ASSUME FilesInv, NEW p \in Proc, Kill(p)
  PROVE  FilesInv'
  <1> DEFINE v == Call(p).pid
             w == Return(proc[p], IF v \in Free THEN -1 ELSE 0)
             G == [proc EXCEPT ![p] = w]
  <1>1. /\ proc[p].st = "run" /\ proc[p].pc = "user" /\ op' = op /\ ic' = ic /\ ft' = ft
    BY DEF Kill, Calls
  <1>2. Rec(w) /\ Alike(w, proc[p]) /\ w.cwd = proc[p].cwd /\ w.pc = "user"
    BY InvFacts, ReturnIs DEF Known
  <1>3. PICK b : proc' = [G EXCEPT ![v] = [G[v] EXCEPT !.killed = b]]
    BY DEF Kill
  <1> HIDE DEF w, v
  <1>4. proc = [q \in Proc |-> proc[q]] /\ \A q \in Proc : Local(proc[q])
    BY DEF FilesInv, LocalOK
  <1>5. G = [q \in Proc |-> IF q = p THEN w ELSE proc[q]]
    BY <1>4
  <1> HIDE DEF G
  <1>6. ASSUME NEW q \in Proc
        PROVE  /\ Rec(G[q]) /\ Alike(G[q], proc[q]) /\ G[q].cwd = proc[q].cwd /\ G[q].pc = proc[q].pc
               /\ G[q] = proc[q] \/ (proc[q].st = "run" /\ proc[q].pc = "user")
    BY <1>1, <1>2, <1>4, <1>5 DEF Local, Alike
  <1>7. /\ proc' = [q \in Proc |-> proc'[q]]
        /\ \A q \in Proc : proc'[q] = G[q] \/ proc'[q] = [G[q] EXCEPT !.killed = b]
    BY <1>3, <1>5
  <1>8. ASSUME NEW q \in Proc
        PROVE  /\ Rec(proc'[q]) /\ Alike(proc'[q], proc[q]) /\ proc'[q].cwd = proc[q].cwd
               /\ proc'[q].pc = proc[q].pc
               /\ \/ proc[q].st = "run" /\ proc[q].pc = "user"
                  \/ /\ proc'[q].then = proc[q].then /\ proc'[q].ip = proc[q].ip /\ proc'[q].dp = proc[q].dp
                     /\ proc'[q].put = proc[q].put /\ proc'[q].next = proc[q].next /\ proc'[q].fail = proc[q].fail
    <2>1. CASE proc'[q] = G[q]
      BY <1>6, <2>1
    <2>2. CASE proc'[q] = [G[q] EXCEPT !.killed = b]
      <3> DEFINE g == G[q]
      <3>1. Rec(g) /\ proc'[q] = [g EXCEPT !.killed = b]
        BY <1>6, <2>2
      <3> HIDE DEF g
      <3>2. /\ Rec(proc'[q]) /\ Alike(proc'[q], g) /\ proc'[q].cwd = g.cwd /\ proc'[q].pc = g.pc
            /\ proc'[q].then = g.then /\ proc'[q].ip = g.ip /\ proc'[q].dp = g.dp
            /\ proc'[q].put = g.put /\ proc'[q].next = g.next /\ proc'[q].fail = g.fail
        BY <3>1 DEF Rec, Fields, Alike
      <3>3. Alike(g, proc[q]) /\ g.cwd = proc[q].cwd /\ g.pc = proc[q].pc
        BY <1>6 DEF g
      <3>4. g = proc[q] \/ (proc[q].st = "run" /\ proc[q].pc = "user")
        BY <1>6 DEF g
      <3> QED
        BY <3>2, <3>3, <3>4 DEF Alike
    <2> QED
      BY <1>7, <2>1, <2>2
  <1>9. ASSUME NEW q \in Proc
        PROVE  Local(proc'[q]) /\ proc'[q].ofile = proc[q].ofile /\ (InOp(proc[q]) => InOp(proc'[q]))
    BY <1>4, <1>8 DEF Local, Shape, Label, Alike, NoFiles, InOp
  <1>10. ASSUME NEW q \in Proc, NEW i \in Inum
         PROVE  /\ \A k \in Kinds : Refers(proc'[q], k, i) <=> Refers(proc[q], k, i)
                /\ Locks(proc[q], i) => Locks(proc'[q], i)
    BY <1>8 DEF Refers, Locks, Label, Alike, Kinds, WithIp, WithDp
  <1>11. LocalOK(proc')
    BY <1>7, <1>9 DEF LocalOK
  <1>12. \A q \in op' : InOp(proc[q]) => InOp(proc'[q])
    BY <1>1, <1>9 DEF FilesInv, OpsOK
  <1> QED
    BY <1>1, <1>9, <1>10, <1>11, <1>12, HoldsSame

\* What is not running holds nothing.
LEMMA NotRunning ==
  ASSUME NEW x, NEW r, Local(r), r.st # "run" \/ r.pc = "exitcwd", Local(x), x.st # "run"
  PROVE  /\ \A d \in Fd : x.ofile[d] = r.ofile[d]
         /\ \A i : ~Locks(r, i)
         /\ \A k \in Kinds, i \in Inum : ~Refers(x, k, i) /\ ~Refers(r, k, i)
  BY DEF Local, Shape, NoFiles, Locks, Refers, Label, WithIp, WithDp

\* An unused slot holds nothing.
LEMMA DeadIs == Local(Dead) /\ Dead.st # "run"
  <1>1. Rec(Dead) /\ Dead.st = "unused" /\ Dead.cwd = 0 /\ Dead.ofile = [d \in Fd |-> 0]
    BY DEF Dead, Rec, Fields
  <1>2. [d \in Fd |-> 0] \in [Fd -> 0..NFILE]
    BY FilesFacts
  <1> QED
    BY <1>1, <1>2 DEF Local, NoFiles

\* A caller that returns holds what it held.
LEMMA ReturnHolds ==
  ASSUME NEW r, Local(r), r.st = "run", r.pc = "user", NEW v
  PROVE  LET x == Return(r, v) IN
         /\ Local(x) /\ x.ofile = r.ofile /\ ~InOp(r) /\ \A i : ~Locks(r, i)
         /\ \A k, i : Refers(x, k, i) <=> Refers(r, k, i)
  <1> DEFINE x == Return(r, v)
  <1>1. Rec(x) /\ Alike(x, r) /\ x.cwd = r.cwd /\ x.pc = "user"
    BY ReturnIs DEF Local
  <1> HIDE DEF x
  <1>2. Local(x)
    BY <1>1 DEF Local, Shape, Label, Alike
  <1>3. /\ x.ofile = r.ofile /\ ~InOp(r) /\ \A i : ~Locks(r, i)
        /\ \A k, i : Refers(x, k, i) <=> Refers(r, k, i)
    BY <1>1 DEF Alike, InOp, Locks, Refers, Label, WithIp, WithDp
  <1> QED
    BY <1>2, <1>3 DEF x

\* wait() frees the slot of a zombie.
LEMMA WaitCounts ==
  ASSUME FilesInv, NEW p \in Proc, Wait(p)
  PROVE  FilesInv'
  <1>1. proc[p].st = "run" /\ proc[p].pc = "user" /\ op' = op /\ ic' = ic /\ ft' = ft
    BY DEF Wait, Calls
  <1>2. proc = [x \in Proc |-> proc[x]] /\ \A x \in Proc : Local(proc[x])
    BY DEF FilesInv, LocalOK
  <1>3. CASE proc' = [proc EXCEPT ![p] = Return(proc[p], -1)]
    <2>1. SameFiles /\ Rec(proc[p])
      BY <1>1, InvFacts, FilesStay DEF Known
    <2> QED
      BY <1>1, <1>3, <2>1, ReturnOutside, OutsideKeeps DEF Outside
  <1>4. ASSUME NEW q \in Kids(p), proc[q].st = "zombie",
               proc' = [proc EXCEPT ![q] = Dead, ![p] = Return(proc[p], q)]
        PROVE  FilesInv'
    <2> DEFINE w == Return(proc[p], q)
    <2>1. q \in Proc /\ q # p
      BY <1>1, <1>4 DEF Kids
    <2>2. /\ proc' = [x \in Proc |-> proc'[x]]
          /\ proc'[p] = w /\ proc'[q] = Dead /\ \A x \in Proc \ {p, q} : proc'[x] = proc[x]
      BY <1>2, <1>4, <2>1
    <2>3. /\ Local(w) /\ w.ofile = proc[p].ofile /\ ~InOp(proc[p]) /\ \A i : ~Locks(proc[p], i)
          /\ \A k, i : Refers(w, k, i) <=> Refers(proc[p], k, i)
      BY <1>1, <1>2, ReturnHolds
    <2> HIDE DEF w
    <2>4. /\ \A d \in Fd : Dead.ofile[d] = proc[q].ofile[d]
          /\ \A i : ~Locks(proc[q], i)
          /\ \A k \in Kinds, i \in Inum : ~Refers(Dead, k, i) /\ ~Refers(proc[q], k, i)
      <3>1. Local(proc[q]) /\ proc[q].st # "run" /\ Local(Dead) /\ Dead.st # "run"
        BY <1>2, <1>4, <2>1, DeadIs
      <3> QED
        BY <3>1, NotRunning
    <2>5. ~InOp(proc[q])
      BY <1>4 DEF InOp
    <2>6. LocalOK(proc')
      <3>1. ASSUME NEW x \in Proc PROVE Local(proc'[x])
        BY <1>2, <2>2, <2>3, DeadIs
      <3> QED
        BY <2>2, <3>1 DEF LocalOK
    <2>7. ASSUME NEW x \in Proc
          PROVE  /\ \A d \in Fd : proc'[x].ofile[d] = proc[x].ofile[d]
                 /\ InOp(proc[x]) => InOp(proc'[x])
                 /\ \A i \in Inum : Locks(proc[x], i) => Locks(proc'[x], i)
                 /\ \A i \in Inum, k \in Kinds : Refers(proc'[x], k, i) <=> Refers(proc[x], k, i)
      BY <2>2, <2>3, <2>4, <2>5
    <2>8. \A x \in op' : InOp(proc[x]) => InOp(proc'[x])
      BY <1>1, <2>7 DEF FilesInv, OpsOK
    <2> QED
      BY <1>1, <2>6, <2>7, <2>8, HoldsSame
  <1> QED
    BY <1>3, <1>4 DEF Wait, Become

\* init frees the slot of a zombie.
LEMMA ReapCounts ==
  ASSUME FilesInv, Reap
  PROVE  FilesInv'
  <1>1. PICK q \in Kids(0) : proc[q].st = "zombie" /\ proc' = [proc EXCEPT ![q] = Dead]
    BY DEF Reap
  <1>2. op' = op /\ ic' = ic /\ ft' = ft
    BY DEF Reap
  <1>3. proc = [x \in Proc |-> proc[x]] /\ \A x \in Proc : Local(proc[x])
    BY DEF FilesInv, LocalOK
  <1>4. /\ q \in Proc /\ proc' = [x \in Proc |-> proc'[x]]
        /\ proc'[q] = Dead /\ \A x \in Proc \ {q} : proc'[x] = proc[x]
    BY <1>1, <1>3 DEF Kids
  <1>5. /\ \A d \in Fd : Dead.ofile[d] = proc[q].ofile[d]
        /\ \A i : ~Locks(proc[q], i)
        /\ \A k \in Kinds, i \in Inum : ~Refers(Dead, k, i) /\ ~Refers(proc[q], k, i)
    <2>1. Local(proc[q]) /\ proc[q].st # "run" /\ Local(Dead) /\ Dead.st # "run"
      BY <1>1, <1>3, <1>4, DeadIs
    <2> QED
      BY <2>1, NotRunning
  <1>6. LocalOK(proc')
    BY <1>3, <1>4, DeadIs DEF LocalOK
  <1>7. ASSUME NEW x \in Proc
        PROVE  /\ \A d \in Fd : proc'[x].ofile[d] = proc[x].ofile[d]
               /\ InOp(proc[x]) => InOp(proc'[x])
               /\ \A i \in Inum : Locks(proc[x], i) => Locks(proc'[x], i)
               /\ \A i \in Inum, k \in Kinds : Refers(proc'[x], k, i) <=> Refers(proc[x], k, i)
    <2>1. ~InOp(proc[q])
      BY <1>1 DEF InOp
    <2> QED
      BY <1>4, <1>5, <2>1
  <1>8. \A x \in op' : InOp(proc[x]) => InOp(proc'[x])
    BY <1>2, <1>7 DEF FilesInv, OpsOK
  <1> QED
    BY <1>2, <1>6, <1>7, <1>8, HoldsSame

\* The end of exit(): the process holds nothing any more.
LEMMA ZombieCounts ==
  ASSUME FilesInv, NEW p \in Proc, Zombie(p)
  PROVE  FilesInv'
  <1> DEFINE z == [Dead EXCEPT !.st = "zombie", !.parent = proc[p].parent, !.ok = proc[p].ok]
             o(q) == [proc[q] EXCEPT !.parent = 0]
  <1>1. /\ proc[p].st = "run" /\ proc[p].pc = "exitcwd" /\ op' = op \ {p} /\ ic' = ic /\ ft' = ft
        /\ proc' = [q \in Proc |-> IF q = p THEN z ELSE IF q \in Kids(p) THEN o(q) ELSE proc[q]]
    BY DEF Zombie, At_, EndOp
  <1>2. proc = [x \in Proc |-> proc[x]] /\ \A x \in Proc : Local(proc[x])
    BY DEF FilesInv, LocalOK
  <1>3. Local(z) /\ z.st # "run"
    <2>1. Local(Dead) /\ Dead.st # "run"
      BY DeadIs
    <2>2. Rec(z) /\ z.st = "zombie" /\ z.cwd = Dead.cwd /\ z.ofile = Dead.ofile
      BY <2>1 DEF Local, Rec, Fields
    <2> HIDE DEF z
    <2> QED
      BY <2>1, <2>2 DEF Local, NoFiles
  <1> HIDE DEF z
  <1>4. ASSUME NEW q \in Proc
        PROVE  /\ Local(o(q)) /\ o(q).ofile = proc[q].ofile
               /\ InOp(proc[q]) => InOp(o(q))
               /\ \A i : Locks(proc[q], i) => Locks(o(q), i)
               /\ \A i, k : Refers(o(q), k, i) <=> Refers(proc[q], k, i)
    <2> DEFINE r == proc[q]
               x == [r EXCEPT !.parent = 0]
    <2>1. Local(r)
      BY <1>2
    <2> HIDE DEF r
    <2>2. /\ Rec(x) /\ x.st = r.st /\ x.ofile = r.ofile /\ x.cwd = r.cwd /\ x.pc = r.pc
          /\ x.then = r.then /\ x.ip = r.ip /\ x.dp = r.dp
          /\ x.put = r.put /\ x.next = r.next /\ x.fail = r.fail
      BY <2>1 DEF Local, Rec, Fields
    <2> HIDE DEF x
    <2>3. /\ Local(x) /\ x.ofile = r.ofile /\ (InOp(r) => InOp(x))
      BY <2>1, <2>2 DEF Local, Shape, Label, NoFiles, InOp
    <2>4. \A i : Locks(r, i) => Locks(x, i)
      BY <2>2 DEF Locks, Label
    <2>5. \A i, k : Refers(x, k, i) <=> Refers(r, k, i)
      BY <2>2 DEF Refers, Label
    <2> QED
      BY <2>3, <2>4, <2>5 DEF x, r
  <1>5. /\ \A d \in Fd : z.ofile[d] = proc[p].ofile[d]
        /\ \A i : ~Locks(proc[p], i)
        /\ \A k \in Kinds, i \in Inum : ~Refers(z, k, i) /\ ~Refers(proc[p], k, i)
    <2>1. Local(proc[p]) /\ proc[p].pc = "exitcwd" /\ Local(z) /\ z.st # "run"
      BY <1>1, <1>2, <1>3
    <2> QED
      BY <2>1, NotRunning
  <1> HIDE DEF o
  <1>6. LocalOK(proc')
    <2>1. proc' = [q \in Proc |-> proc'[q]] /\ \A q \in Proc : Local(proc'[q])
      BY <1>1, <1>2, <1>3, <1>4
    <2> QED
      BY <2>1 DEF LocalOK
  <1>7. ASSUME NEW x \in Proc
        PROVE  /\ \A d \in Fd : proc'[x].ofile[d] = proc[x].ofile[d]
               /\ x # p => (InOp(proc[x]) => InOp(proc'[x]))
               /\ \A i \in Inum : Locks(proc[x], i) => Locks(proc'[x], i)
               /\ \A i \in Inum, k \in Kinds : Refers(proc'[x], k, i) <=> Refers(proc[x], k, i)
    <2>1. CASE x = p
      <3>1. proc'[x] = z
        BY <1>1, <2>1
      <3> QED
        BY <1>5, <2>1, <3>1
    <2>2. CASE x # p /\ x \in Kids(p)
      <3>1. proc'[x] = o(x)
        BY <1>1, <2>2
      <3> QED
        BY <1>4, <3>1
    <2>3. CASE x # p /\ x \notin Kids(p)
      <3>1. proc'[x] = proc[x]
        BY <1>1, <2>3
      <3> QED
        BY <3>1
    <2> QED
      BY <2>1, <2>2, <2>3
  <1>8. \A x \in op' : InOp(proc[x]) => InOp(proc'[x])
    BY <1>1, <1>7 DEF FilesInv, OpsOK
  <1>9. op' \subseteq op
    BY <1>1
  <1> QED
    BY <1>1, <1>6, <1>7, <1>8, <1>9, HoldsSame

\* A step that gives q other places counts them.
LEMMA PlaceStep ==
  ASSUME NEW q \in Proc, NEW i,
         \A x \in Proc \ {q}, k \in Kinds : Refers(proc'[x], k, i) <=> Refers(proc[x], k, i)
  PROVE  /\ Cardinality(Places(proc, i)) \in Nat /\ Cardinality(Places(proc', i)) \in Nat
         /\ Cardinality(Places(proc', i))
            = Cardinality(Places(proc, i)) - Count(proc[q], i) + Count(proc'[q], i)
  BY PlaceCount, ZenonT(30)

\* fork(): the child has the files and the directory of its parent.
LEMMA ForkCounts ==
  ASSUME FilesInv, NEW p \in Proc, Fork(p)
  PROVE  FilesInv'
  <1>1. Known(p) /\ Rec(proc[p]) /\ Local(proc[p])
    BY InvFacts DEF Known
  <1>2. proc[p].st = "run" /\ proc[p].pc = "user" /\ op' = op
    BY DEF Fork, Calls
  <1>3. CASE ft' = ft /\ ic' = ic /\ proc' = [proc EXCEPT ![p] = Return(proc[p], -1)]
    <2>1. SameFiles
      BY <1>3, FilesStay
    <2> QED
      BY <1>1, <1>2, <1>3, <2>1, ReturnOutside, OutsideKeeps DEF Outside
  <1>4. CASE ~(ft' = ft /\ ic' = ic /\ proc' = [proc EXCEPT ![p] = Return(proc[p], -1)])
    <2>0. PICK q : q = Lowest(Free)
      OBVIOUS
    <2> DEFINE s == proc[p]
               w == Return(s, q)
               D(f) == {d \in Fd : s.ofile[d] = f}
               c == [Dead EXCEPT !.st = "run", !.parent = p, !.prog = Call(p).child,
                                 !.cwd = s.cwd, !.ofile = s.ofile]
    <2>1. /\ Free # {} /\ ic' = Iget(ic, s.cwd)
          /\ ft' = [f \in File |-> [ft[f] EXCEPT !.ref = @ + Cardinality(D(f))]]
          /\ proc' = [proc EXCEPT ![q] = c, ![p] = w]
      BY <1>4, <2>0 DEF Fork, Become
    <2>2. q \in Proc /\ proc[q].st = "unused" /\ q # p
      <3>1. Free \subseteq Nat
        BY FilesFacts DEF Free
      <3>2. q \in Free
        BY <2>0, <2>1, <3>1, LowestIs
      <3> QED
        BY <1>2, <3>2 DEF Free
    <2>3. /\ Rec(c) /\ c.st = "run" /\ c.cwd = s.cwd /\ c.ofile = s.ofile /\ c.pc = "user"
      BY ZenonT(30) DEF Dead, Rec, Fields
    <2>4. /\ Local(w) /\ w.ofile = s.ofile /\ ~InOp(s) /\ (\A i : ~Locks(s, i))
          /\ \A k, i : Refers(w, k, i) <=> Refers(s, k, i)
      BY <1>1, <1>2, ReturnHolds
    <2> HIDE DEF w, c
    <2>5. proc = [x \in Proc |-> proc[x]] /\ \A x \in Proc : Local(proc[x])
      BY DEF FilesInv, LocalOK
    <2>6. /\ proc' = [x \in Proc |-> proc'[x]]
          /\ proc'[q] = c /\ proc'[p] = w /\ \A x \in Proc \ {p, q} : proc'[x] = proc[x]
      BY <2>1, <2>2, <2>5
    <2>7. Local(c)
      BY <1>1, <2>3 DEF Local, Shape, Label
    <2>8. LocalOK(proc')
      <3>1. \A x \in Proc : Local(proc'[x])
        BY <2>4, <2>5, <2>6, <2>7
      <3> QED
        BY <2>6, <3>1 DEF LocalOK
    <2>9. /\ ic' \in IcSet
          /\ \A i \in Inum : ic'[i].ref = ic[i].ref + One(s.cwd = i) /\ ic'[i].lock = ic[i].lock
      BY <1>1, <2>1, IgetIs DEF Known
    <2>10. /\ NoFiles(proc[q]) /\ ~InOp(proc[q]) /\ (\A i : ~Locks(proc[q], i)) /\ \A k, i : ~Refers(proc[q], k, i)
      BY <2>2, <2>5 DEF Local, InOp, Locks, Refers
    <2>11. LocksOK(ic', proc')
      <3> SUFFICES ASSUME NEW i \in Inum, ic'[i].lock # 0 PROVE Locks(proc'[ic'[i].lock], i)
        BY DEF LocksOK
      <3>1. Locks(proc[ic[i].lock], i) /\ ic[i].lock \in Proc /\ ic'[i].lock = ic[i].lock
        BY <2>9 DEF FilesInv, LocksOK, RefsOK, IcSet
      <3> QED
        BY <2>4, <2>6, <2>10, <3>1
    <2>12. OpsOK(op', proc')
      BY <1>2, <2>4, <2>6, <2>10 DEF FilesInv, OpsOK
    <2>13. RefsOK(ic', ft', proc')
      <3> SUFFICES ASSUME NEW i \in Inum
                   PROVE  ic'[i].ref = Cardinality(FilesOf(ft', i)) + Cardinality(Places(proc', i))
        BY <2>9 DEF RefsOK
      <3>0. q \in Proc
        BY <2>2
      <3>1. \A x \in Proc \ {q}, k \in Kinds : Refers(proc'[x], k, i) <=> Refers(proc[x], k, i)
        BY <2>4, <2>6
      <3>2. /\ Cardinality(Places(proc, i)) \in Nat /\ Cardinality(Places(proc', i)) \in Nat
            /\ Cardinality(Places(proc', i))
               = Cardinality(Places(proc, i)) - Count(proc[q], i) + Count(proc'[q], i)
        BY <3>0, <3>1, PlaceStep
      <3>3. Count(proc[q], i) = 0
        BY <2>10 DEF Count, One
      <3>4. Count(proc'[q], i) = One(s.cwd = i) /\ One(s.cwd = i) \in Nat
        BY <2>3, <2>6 DEF Count, One, Refers, Label, WithIp, WithDp
      <3>5. FilesOf(ft', i) = FilesOf(ft, i) /\ Cardinality(FilesOf(ft, i)) \in Nat
        <4>1. \A f \in File : FileRec(ft[f])
          BY DEF FilesInv, FilesOK
        <4>2. \A f \in File : ft'[f].type = ft[f].type /\ ft'[f].ip = ft[f].ip
          BY <2>1, <4>1 DEF FileRec, FileFields
        <4> QED
          BY <4>2, FilesFinite DEF FilesOf
      <3>6. ic[i].ref = Cardinality(FilesOf(ft, i)) + Cardinality(Places(proc, i))
        BY DEF FilesInv, RefsOK
      <3> QED
        BY <2>9, <3>2, <3>3, <3>4, <3>5, <3>6
    <2>14. FilesOK(ft', proc')
      <3>1. \A f \in File : /\ FileRec(ft[f]) /\ ft[f].ref = Cardinality(FdsOf(proc, f))
                            /\ ft[f].ref = 0 => ft[f].type # "inode"
        BY DEF FilesInv, FilesOK
      <3> SUFFICES ASSUME NEW f \in File
                   PROVE  /\ FileRec(ft'[f]) /\ ft'[f].ref = Cardinality(FdsOf(proc', f))
                          /\ ft'[f].ref = 0 => ft'[f].type # "inode"
        BY <2>1 DEF FilesOK
      <3>2. /\ FileRec(ft'[f]) /\ ft'[f].ref = ft[f].ref + Cardinality(D(f)) /\ ft'[f].type = ft[f].type
        BY <2>1, <3>1 DEF FileRec, FileFields
      <3>3. /\ IsFiniteSet(FdsOf(proc, f)) /\ Cardinality(FdsOf(proc, f)) \in Nat
            /\ IsFiniteSet(D(f)) /\ Cardinality(D(f)) \in Nat
        <4>1. FdsOf(proc, f) \subseteq Proc \X Fd /\ D(f) \subseteq Fd
          BY DEF FdsOf
        <4>2. IsFiniteSet(Proc \X Fd) /\ IsFiniteSet(Fd)
          BY FilesFacts, FS_Product
        <4> QED
          BY <4>1, <4>2, FS_Subset, FS_CardinalityType
      <3>4. /\ IsFiniteSet({q} \X D(f)) /\ Cardinality({q} \X D(f)) = Cardinality(D(f))
        <4>1. IsFiniteSet({q}) /\ Cardinality({q}) = 1
          BY FS_Singleton
        <4>2. IsFiniteSet({q} \X D(f)) /\ Cardinality({q} \X D(f)) = 1 * Cardinality(D(f))
          BY <3>3, <4>1, FS_Product
        <4> QED
          BY <3>3, <4>2
      <3>5. FdsOf(proc', f) = FdsOf(proc, f) \cup ({q} \X D(f)) /\ FdsOf(proc, f) \cap ({q} \X D(f)) = {}
        <4>1. ASSUME NEW d \in Fd
              PROVE  <<q, d>> \notin FdsOf(proc, f) /\ (<<q, d>> \in FdsOf(proc', f) <=> d \in D(f))
          BY <2>2, <2>3, <2>6, <2>10, FilesFacts DEF FdsOf, NoFiles
        <4>2. ASSUME NEW x \in Proc \ {q}, NEW d \in Fd
              PROVE  <<x, d>> \in FdsOf(proc', f) <=> <<x, d>> \in FdsOf(proc, f)
          BY <2>4, <2>6 DEF FdsOf
        <4>3. FdsOf(proc, f) \subseteq Proc \X Fd /\ FdsOf(proc', f) \subseteq Proc \X Fd /\ D(f) \subseteq Fd
          BY DEF FdsOf
        <4> HIDE DEF D
        <4> QED
          BY <2>2, <4>1, <4>2, <4>3
      <3>6. Cardinality(FdsOf(proc', f)) = Cardinality(FdsOf(proc, f)) + Cardinality(D(f))
        <4> DEFINE A == FdsOf(proc, f)
                   B == {q} \X D(f)
        <4>1. IsFiniteSet(A) /\ IsFiniteSet(B) /\ A \cap B = {} /\ FdsOf(proc', f) = A \cup B
          BY <3>3, <3>4, <3>5
        <4>2. Cardinality(A) \in Nat /\ Cardinality(B) \in Nat /\ Cardinality(B) = Cardinality(D(f))
          BY <3>3, <3>4
        <4> HIDE DEF A, B
        <4>3. Cardinality(A \cup B) = Cardinality(A) + Cardinality(B) - Cardinality(A \cap B)
          BY <4>1, FS_Union
        <4>4. Cardinality(A \cup B) = Cardinality(A) + Cardinality(B) - 0
          BY <4>1, <4>3, FS_EmptySet, Zenon
        <4> QED
          BY <4>1, <4>2, <4>4 DEF A
      <3> QED
        BY <3>1, <3>2, <3>3, <3>6
    <2> QED
      BY <2>8, <2>11, <2>12, <2>13, <2>14 DEF FilesInv
  <1> QED
    BY <1>3, <1>4

-----------------------------------------------------------------------------
(* The theorems.                                                           *)

\* In the beginning, process 1 has the root directory.
LEMMA InitCounts == Init => FilesInv
  <1> SUFFICES ASSUME Init PROVE FilesInv
    OBVIOUS
  <1>1. PICK prog : proc = [p \in Proc |-> IF p = 1
                              THEN [Dead EXCEPT !.st = "run", !.prog = prog, !.cwd = ROOTINO] ELSE Dead]
    BY DEF Init
  <1> DEFINE r == [Dead EXCEPT !.st = "run", !.prog = prog, !.cwd = ROOTINO]
  <1>2. Local(Dead) /\ Dead.st # "run"
    BY DeadIs
  <1>3. /\ Rec(r) /\ r.st = "run" /\ r.cwd = ROOTINO /\ r.ofile = Dead.ofile /\ r.pc = "user"
    BY ZenonT(30) DEF Dead, Rec, Fields
  <1> HIDE DEF r
  <1>4. Local(r) /\ NoFiles(Dead)
    BY <1>2, <1>3 DEF Local, Shape, Label
  <1>5. proc = [p \in Proc |-> IF p = 1 THEN r ELSE Dead]
    BY <1>1 DEF r
  <1>6. LocalOK(proc)
    BY <1>2, <1>4, <1>5 DEF LocalOK
  <1>7. FilesOK(ft, proc)
    <2>1. ft = [f \in File |-> NoFile] /\ FileRec(NoFile) /\ NoFile.ref = 0 /\ NoFile.type = "none"
      BY DEF Init, NoFile, FileRec, FileFields
    <2>2. ASSUME NEW f \in File PROVE Cardinality(FdsOf(proc, f)) = 0
      <3>1. \A p \in Proc, d \in Fd : proc[p].ofile[d] = 0
        BY <1>3, <1>4, <1>5 DEF NoFiles
      <3>2. FdsOf(proc, f) = {}
        BY <3>1, FilesFacts DEF FdsOf
      <3> QED
        BY <3>2, FS_EmptySet
    <2> QED
      BY <2>1, <2>2 DEF FilesOK
  <1>8. LocksOK(ic, proc) /\ OpsOK(op, proc)
    BY DEF Init, LocksOK, OpsOK
  <1>9. RefsOK(ic, ft, proc)
    <2>1. /\ ic \in IcSet /\ \A i \in Inum : ic[i].ref = One(ROOTINO = i)
      BY DEF Init, IcSet, One
    <2> SUFFICES ASSUME NEW i \in Inum
                 PROVE  ic[i].ref = Cardinality(FilesOf(ft, i)) + Cardinality(Places(proc, i))
      BY <2>1 DEF RefsOK
    <2>2. FilesOf(ft, i) = {}
      BY DEF Init, FilesOf, NoFile
    <2> DEFINE P0 == [p \in Proc |-> Dead]
    <2>3. Places(P0, i) = {}
      BY <1>2 DEF Places, Refers
    <2>4. \A x \in Proc \ {1}, k \in Kinds : Refers(proc[x], k, i) <=> Refers(P0[x], k, i)
      BY <1>5
    <2>5. Count(P0[1], i) = 0
      BY <1>2, FilesFacts DEF Count, One, Refers
    <2> HIDE DEF P0
    <2>6. /\ Cardinality(Places(proc, i)) = Cardinality(Places(P0, i)) - Count(P0[1], i) + Count(proc[1], i)
      BY <2>4, FilesFacts, PlaceCount
    <2>7. Count(proc[1], i) = One(ROOTINO = i)
      BY <1>3, <1>5, FilesFacts DEF Count, One, Refers, Label, WithIp, WithDp
    <2>8. Cardinality({}) = 0
      BY FS_EmptySet
    <2> QED
      BY <2>1, <2>2, <2>3, <2>5, <2>6, <2>7, <2>8 DEF One
  <1> QED
    BY <1>6, <1>7, <1>8, <1>9 DEF FilesInv

\* Every step keeps the invariant.
LEMMA NextCounts == FilesInv /\ [Next]_vars => FilesInv'
  <1> SUFFICES ASSUME FilesInv, [Next]_vars PROVE FilesInv'
    OBVIOUS
  <1>1. ASSUME NEW p \in Proc, FsStep(p) PROVE FilesInv'
    BY <1>1, PutCounts, DropCounts, WalkEndCounts, WalkCounts, EnterCounts, FinishCounts,
       CreateCounts, OpenFileCounts, LinkCounts, Link2Counts, LinkExistsCounts, LinkedCounts,
       LinkBadCounts, UnlinkCounts, Unlink2Counts, UnlinkBadCounts, Unlink3Counts,
       ChdirCounts, ChdiredCounts, ExecCounts, Exec2Counts DEF FsStep
  <1>2. ASSUME NEW p \in Proc, FileStep(p) PROVE FilesInv'
    BY <1>2, BadFdCounts, ReadCounts, FstatCounts, WriteCounts, PipeWriteCounts,
       PipeReadCounts, DupCounts, PipeCallCounts, CloseCounts DEF FileStep
  <1>3. ASSUME NEW p \in Proc, ProcStep(p) PROVE FilesInv'
    BY <1>3, ForkCounts, ExitCounts, ExitFilesCounts, ExitClosedCounts, ExitCwdCounts,
       ZombieCounts, WaitCounts, KillCounts, GotoCounts DEF ProcStep
  <1>4. CASE UNCHANGED vars
    BY <1>4 DEF vars, FilesInv, LocalOK, FilesOK, LocksOK, OpsOK, RefsOK, FilesOf, FdsOf, Places
  <1> QED
    BY <1>1, <1>2, <1>3, <1>4, ReapCounts DEF Next, Step, Finished

\* What the kernel counts for files is right at every step of every program.
THEOREM FilesRight == Spec => []FilesInv
  BY InitCounts, NextCounts, PTL DEF Spec

\* Between calls, nothing is held.
LEMMA RestHoldsNothing == FilesInv => NothingHeld
  <1> SUFFICES ASSUME FilesInv, \A p \in Proc : proc[p].st = "run" => proc[p].pc = "user"
               PROVE  /\ op = {}
                      /\ \A i \in Inum :
                           /\ ic[i].lock = 0
                           /\ ic[i].ref = Cardinality({f \in File : ft[f].type = "inode" /\ ft[f].ip = i})
                                          + Cardinality({p \in Proc : proc[p].cwd = i})
                      /\ \A f \in File :
                           ft[f].ref = Cardinality({pd \in Proc \X Fd : proc[pd[1]].ofile[pd[2]] = f})
    BY DEF NothingHeld
  <1>1. op = {}
    BY DEF FilesInv, OpsOK, InOp
  <1>2. \A f \in File : ft[f].ref = Cardinality({pd \in Proc \X Fd : proc[pd[1]].ofile[pd[2]] = f})
    BY DEF FilesInv, FilesOK, FdsOf
  <1>3. ASSUME NEW i \in Inum PROVE ic[i].lock = 0
    BY DEF FilesInv, LocksOK, RefsOK, IcSet, Locks, Label
  <1>4. ASSUME NEW i \in Inum
        PROVE  ic[i].ref = Cardinality({f \in File : ft[f].type = "inode" /\ ft[f].ip = i})
                           + Cardinality({p \in Proc : proc[p].cwd = i})
    <2> DEFINE S == {p \in Proc : proc[p].cwd = i}
    <2>1. ASSUME NEW p \in Proc, NEW k \in Kinds
          PROVE  Refers(proc[p], k, i) <=> k = "cwd" /\ proc[p].cwd = i
      <3>1. Local(proc[p])
        BY DEF FilesInv, LocalOK
      <3> QED
        BY <3>1, FilesFacts DEF Local, Refers, Label, Kinds, WithIp, WithDp
    <2>2. Places(proc, i) = S \X {"cwd"}
      <3>1. "cwd" \in Kinds
        BY DEF Kinds
      <3> QED
        BY <2>1, <3>1 DEF Places
    <2>3. S \subseteq Proc
      OBVIOUS
    <2> HIDE DEF S
    <2>4. IsFiniteSet(S) /\ Cardinality(S) \in Nat
      BY <2>3, FilesFacts, FS_Subset, FS_CardinalityType
    <2>5. IsFiniteSet({"cwd"}) /\ Cardinality({"cwd"}) = 1
      BY FS_Singleton
    <2>6. Cardinality(S \X {"cwd"}) = Cardinality(S) * 1
      BY <2>4, <2>5, FS_Product
    <2>7. Cardinality(Places(proc, i)) = Cardinality(S)
      BY <2>2, <2>4, <2>6
    <2> QED
      BY <2>7 DEF FilesInv, RefsOK, FilesOf, S
  <1> QED
    BY <1>1, <1>2, <1>3, <1>4

\* Whatever the programs do and however their calls interleave: whenever no
\* call is under way, there is no open transaction and no locked inode, an
\* inode has a reference for each open file and current directory, and a
\* file one for each descriptor.
THEOREM NothingLeaks == Spec => []NothingHeld
  BY FilesRight, RestHoldsNothing, PTL
=============================================================================
