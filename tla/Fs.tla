--------------------------------- MODULE Fs ---------------------------------
(***************************************************************************)
(* The disk layers of fs.c as operators on a disk d: block allocator,      *)
(* inode contents, directories.  What the processes do with them is in     *)
(* module Files.                                                           *)
(*                                                                         *)
(* A cell stands for a byte of a file, an entry of a directory or an       *)
(* address in an indirect block: a name (or a byte) and a number.  A block *)
(* has BSIZE cells.                                                        *)
(***************************************************************************)
EXTENDS Integers, Sequences, FiniteSets, SequencesExt

CONSTANTS
  Block,        \* data blocks, positive numbers
  Inum,         \* inode numbers, 1..sb.ninodes-1
  BSIZE,        \* cells per block
  NDIRECT       \* direct blocks per inode

ROOTINO == 1
NINDIRECT == BSIZE
MAXFILE == NDIRECT + NINDIRECT

ZeroCell == <<"", 0>>
Zeroes == [c \in 0..(BSIZE - 1) |-> ZeroCell]
NoInode == [type |-> "free", nlink |-> 0, size |-> 0,
            addrs |-> [a \in 0..NDIRECT |-> 0]]

\* An empty disk.  panic says that a routine called panic().
EmptyDisk == [di |-> [i \in Inum |-> NoInode],
              data |-> [b \in Block |-> Zeroes],
              used |-> {},
              panic |-> FALSE]

\* At most n elements of s behind the first k.
Take(s, k, n) == SubSeq(s, k + 1, IF k + n > Len(s) THEN Len(s) ELSE k + n)
Lowest(S) == CHOOSE x \in S : \A y \in S : x <= y

-----------------------------------------------------------------------------
(* Blocks.                                                                 *)

\* The block that balloc() will return, 0 when it panics.
NextBlock(d) == IF Block \subseteq d.used THEN 0 ELSE Lowest(Block \ d.used)

\* balloc(): mark the block and clear it.
Balloc(d) ==
  IF NextBlock(d) = 0 THEN [d EXCEPT !.panic = TRUE]
  ELSE [d EXCEPT !.used = @ \cup {NextBlock(d)},
                 !.data[NextBlock(d)] = Zeroes]

\* bfree() of several blocks.
Bfree(d, B) == [d EXCEPT !.used = @ \ B,
                         !.panic = @ \/ ~(B \subseteq d.used)]

-----------------------------------------------------------------------------
(* Inode contents.                                                         *)

\* The nth block of inode i, 0 if it has none.
Addr(d, i, n) ==
  LET a == d.di[i].addrs IN
  IF n < NDIRECT THEN a[n]
  ELSE IF a[NDIRECT] = 0 THEN 0
  ELSE d.data[a[NDIRECT]][n - NDIRECT][2]

\* The blocks that inode i owns.
Owned(d, i) ==
  LET a == d.di[i].addrs IN
  ({a[n] : n \in 0..NDIRECT} \cup
   {IF a[NDIRECT] = 0 THEN 0 ELSE d.data[a[NDIRECT]][n][2] :
      n \in 0..(NINDIRECT - 1)}) \ {0}

\* bmap(): the disk after the nth block of inode i is there.
Bmap(d, i, n) ==
  IF Addr(d, i, n) # 0 THEN d
  ELSE IF n < NDIRECT
    THEN [Balloc(d) EXCEPT !.di[i].addrs[n] = NextBlock(d)]
    ELSE LET e == IF d.di[i].addrs[NDIRECT] # 0 THEN d
                  ELSE [Balloc(d) EXCEPT !.di[i].addrs[NDIRECT] = NextBlock(d)]
         IN [Balloc(e) EXCEPT
               !.data[e.di[i].addrs[NDIRECT]][n - NDIRECT] =
                 <<"", NextBlock(e)>>]

\* Mutant of Itrunc: the blocks behind the indirect block are forgotten.
ItruncDirect(d, i) ==
  [Bfree(d, {d.di[i].addrs[n] : n \in 0..NDIRECT} \ {0}) EXCEPT
     !.di[i].addrs = [n \in 0..NDIRECT |-> 0], !.di[i].size = 0]

\* itrunc(): free all blocks.
Itrunc(d, i) ==
  [Bfree(d, Owned(d, i)) EXCEPT
     !.di[i].addrs = [n \in 0..NDIRECT |-> 0], !.di[i].size = 0]

\* What readi() finds at an offset, and in the whole file.
At(d, i, off) == d.data[Addr(d, i, off \div BSIZE)][off % BSIZE]
Contents(d, i) == [k \in 1..d.di[i].size |-> At(d, i, k - 1)]

\* readi(): up to n cells from off.
Readi(d, i, off, n) == Take(Contents(d, i), off, n)

\* writei() refuses a hole and a file that is too large.
Writable(d, i, off, n) == off <= d.di[i].size /\ off + n <= MAXFILE * BSIZE

\* writei(): each cell into its block, then the new size.
Writei(d, i, off, cells) ==
  LET Put(e, k) ==
        LET o == off + k - 1
            m == Bmap(e, i, o \div BSIZE)
        IN [m EXCEPT !.data[Addr(m, i, o \div BSIZE)][o % BSIZE] = cells[k]]
      w == FoldLeft(Put, d, [k \in 1..Len(cells) |-> k])
  IN IF off + Len(cells) > d.di[i].size
       THEN [w EXCEPT !.di[i].size = off + Len(cells)] ELSE w

-----------------------------------------------------------------------------
(* Directories.                                                            *)

\* The offsets of the entries of directory i with a name.
Slots(d, i, name) ==
  {o \in 0..(d.di[i].size - 1) :
     At(d, i, o)[2] # 0 /\ At(d, i, o)[1] = name}

\* dirlookup(): the inode of the first such entry, 0 if there is none.
Dirlookup(d, i, name) ==
  IF Slots(d, i, name) = {} THEN 0 ELSE At(d, i, Lowest(Slots(d, i, name)))[2]

\* The offset that dirlink() writes to: the first empty entry, or the end.
FreeSlot(d, i) ==
  Lowest({o \in 0..(d.di[i].size - 1) : At(d, i, o)[2] = 0} \cup {d.di[i].size})

\* dirlink(), once the name is known not to be there.
Dirlink(d, i, name, inum) ==
  IF Writable(d, i, FreeSlot(d, i), 1)
    THEN Writei(d, i, FreeSlot(d, i), <<<<name, inum>>>>)
    ELSE [d EXCEPT !.panic = TRUE]

\* sys_unlink() clears the entry.
Dirunlink(d, i, name) == Writei(d, i, Lowest(Slots(d, i, name)), <<ZeroCell>>)

\* isdirempty(): nothing behind "." and "..".
Isdirempty(d, i) == \A o \in 2..(d.di[i].size - 1) : At(d, i, o)[2] = 0

\* ialloc(): the first free inode, 0 when it panics.
NextInum(d) ==
  LET free == {i \in Inum : d.di[i].type = "free"} IN
  IF free = {} THEN 0 ELSE Lowest(free)
Ialloc(d, type) ==
  IF NextInum(d) = 0 THEN [d EXCEPT !.panic = TRUE]
  ELSE [d EXCEPT !.di[NextInum(d)] = [NoInode EXCEPT !.type = type]]

-----------------------------------------------------------------------------
(* mkfs.c: the image that the kernel boots from.                           *)

MkInode(d, type) ==
  [d EXCEPT !.di[NextInum(d)] = [NoInode EXCEPT !.type = type, !.nlink = 1]]

\* iappend()
Iappend(d, i, cells) == Writei(d, i, d.di[i].size, cells)

\* One file of the command line: inode, entry in the root, contents.
AddFile(d, file) ==
  LET i == NextInum(d) IN
  Iappend(Iappend(MkInode(d, "file"), ROOTINO, <<<<file.name, i>>>>),
          i, file.cells)

\* main(): root with its dots, the files, and a size of whole blocks.
Mkfs(files) ==
  LET root == Iappend(MkInode(EmptyDisk, "dir"), ROOTINO,
                      <<<<".", ROOTINO>>, <<"..", ROOTINO>>>>)
      d == FoldLeft(AddFile, root, files)
  IN [d EXCEPT !.di[ROOTINO].size = ((@ \div BSIZE) + 1) * BSIZE]

-----------------------------------------------------------------------------
(* A consistent disk.                                                      *)

Allocated(d) == {i \in Inum : d.di[i].type # "free"}
Dirs(d) == {i \in Inum : d.di[i].type = "dir"}

\* All entries <<directory, offset>>; those of dots are not names.
Entries(d) == UNION {{<<i, o>> : o \in {o \in 0..(d.di[i].size - 1) :
                                          At(d, i, o)[2] # 0}} : i \in Dirs(d)}
Dots == {".", ".."}

\* How often inode i is named, and how many living directories it is the
\* parent of.
Links(d, i) ==
  Cardinality({e \in Entries(d) : At(d, e[1], e[2])[2] = i
                                  /\ At(d, e[1], e[2])[1] \notin Dots})
  + Cardinality({j \in Dirs(d) \ {ROOTINO} : Dirlookup(d, j, "..") = i
                                             /\ d.di[j].nlink > 0})

Consistent(d) ==
  /\ \A e \in Entries(d) :
       At(d, e[1], e[2])[1] \notin Dots =>
         At(d, e[1], e[2])[2] \in Allocated(d)
  /\ \A i \in Allocated(d) :
       d.di[i].nlink = Links(d, i) + (IF i = ROOTINO THEN 1 ELSE 0)
  /\ \A i, j \in Allocated(d) : i # j => Owned(d, i) \cap Owned(d, j) = {}
  /\ d.used = UNION {Owned(d, i) : i \in Allocated(d)}
=============================================================================
