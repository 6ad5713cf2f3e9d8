------------------------------- MODULE Names -------------------------------
(***************************************************************************)
(* File names as bytes (fs.c, string.c): the elements of a path are copied *)
(* into a buffer of DIRSIZ bytes that is not ended by a zero byte if it is *)
(* full and keeps the rest of the element before if it is not, and from    *)
(* there into directory entries.  Module Files has a name as one value:    *)
(* here is why it may.                                                     *)
(***************************************************************************)
EXTENDS Integers, Sequences, FiniteSets, SequencesExt

CONSTANTS
  DIRSIZ,       \* bytes of a name
  NameChars,      \* characters of names
  MAXPATH       \* characters in a path

VARIABLES
  path,         \* what is left of the path
  name,         \* the buffer
  dir,          \* entries of a directory: in use, and their bytes
  made          \* history: the names that the directory should have

namevars == <<path, name, dir, made>>

NUL == "nul"
ASSUME NamesAssumption == DIRSIZ \in Nat \ {0} /\ MAXPATH \in Nat /\ NUL \notin NameChars

Bytes == 0..(DIRSIZ - 1)
Paths == UNION {[1..k -> NameChars \cup {"/"}] : k \in 1..MAXPATH}

\* The buffer is on the stack: anything is in it.
NamesInit ==
  /\ path \in Paths /\ name \in [Bytes -> NameChars \cup {NUL}]
  /\ dir = <<>> /\ made = {}

-----------------------------------------------------------------------------
(* string.c, on arrays of DIRSIZ bytes.  strncpy() writes all of them.     *)

memmoveName(d, s, n) == [i \in Bytes |-> IF i < n THEN s[i + 1] ELSE d[i]]
Ended(t, i) == \E j \in 0..(i - 1) : t[j] = NUL
strncpy(t) == [i \in Bytes |-> IF Ended(t, i) THEN NUL ELSE t[i]]
\* strncmp() finds no difference.
Same(p, q) == \A i \in Bytes : p[i] = q[i] \/ \E j \in 0..(i - 1) : p[j] = NUL /\ q[j] = NUL

-----------------------------------------------------------------------------
namecmp(s, t) == Same(s, t)

\* A path without its first slashes, and the length of its first element.
Unslashed(p) == LET k == SelectInSeq(p, LAMBDA c : c # "/") IN
                IF k = 0 THEN <<>> ELSE SubSeq(p, k, Len(p))
ElemLen(p) == LET k == SelectInSeq(p, LAMBDA c : c = "/") IN
              IF k = 0 THEN Len(p) ELSE k - 1

\* Mutant: a short name is not ended.
ElemUnended(s, len) == memmoveName(name, s, IF len < DIRSIZ THEN len ELSE DIRSIZ)

\* What skipelem() leaves in the buffer of an element of len bytes at s.
Elem(s, len) ==
  IF len >= DIRSIZ THEN memmoveName(name, s, DIRSIZ)
  ELSE [memmoveName(name, s, len) EXCEPT ![len] = NUL]

\* dirlookup(): the entry that has a name, 0 if there is none.
dirlookup(nm) ==
  SelectInSeq(dir, LAMBDA de : de.inum # 0 /\ namecmp(nm, de.name))

\* dirlink() writes the first free entry, or a new one.
dirlink(nm) ==
  LET k == SelectInSeq(dir, LAMBDA de : de.inum = 0)
      de == [inum |-> 1, name |-> strncpy(nm)]
  IN dir' = IF k # 0 THEN [dir EXCEPT ![k] = de] ELSE Append(dir, de)

\* unlink() clears the entry.
Cleared == [inum |-> 0, name |-> [i \in Bytes |-> NUL]]

\* Create or remove a file by the next element of the path.
skipelem ==
  LET s == Unslashed(path)
      len == ElemLen(s)
      nm == Elem(s, len)
      spelt == SubSeq(s, 1, IF len < DIRSIZ THEN len ELSE DIRSIZ)
      k == dirlookup(nm)
  IN /\ s # <<>>
     /\ path' = Unslashed(SubSeq(s, len + 1, Len(s)))
     /\ name' = nm
     /\ \/ /\ IF k = 0 THEN dirlink(nm) ELSE UNCHANGED dir
           /\ made' = made \cup {spelt}
        \/ /\ dir' = IF k = 0 THEN dir ELSE [dir EXCEPT ![k] = Cleared]
           /\ made' = made \ {spelt}

NamesDone == Unslashed(path) = <<>> /\ UNCHANGED namevars
NamesNext == skipelem \/ NamesDone
NamesSpec == NamesInit /\ [][NamesNext]_namevars

-----------------------------------------------------------------------------
\* What a buffer spells: the bytes up to the first zero byte.
Spelt(nm) ==
  LET n == CHOOSE n \in 0..DIRSIZ : ~Ended(nm, n) /\ (n < DIRSIZ => nm[n] = NUL)
  IN [i \in 1..n |-> nm[i - 1]]
Used == {k \in 1..Len(dir) : dir[k].inum # 0}

\* The directory has the names that were created and not removed, each once:
\* two elements are the same file if they agree in their first DIRSIZ bytes,
\* whatever the buffers held before (skipelem, dirlookup, dirlink).
OneEntryPerName ==
  /\ {Spelt(dir[k].name) : k \in Used} = made
  /\ \A j, k \in Used : Spelt(dir[j].name) = Spelt(dir[k].name) => j = k
=============================================================================
