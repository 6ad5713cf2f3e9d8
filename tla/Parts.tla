-------------------------------- MODULE Parts --------------------------------
(***************************************************************************)
(* Parts of the kernel and of the user library that share no variables:    *)
(* the console's input, the keyboard, the screen, names and arguments as   *)
(* bytes, and the two allocators.  What several of them promise together   *)
(* is stated here.                                                         *)
(***************************************************************************)
EXTENDS Console, Kbd, Screen, Names, Args, Umalloc, MyMalloc

\* Console: the input ring implements a line discipline (consoleintr), and an
\* end of file is seen by one read (consoleread).
ConsoleLineByLine == LineByLine /\ EofOnce

\* Console: nobody sleeps over a line that is there (consoleread).  Keyboard:
\* keys do not get mixed up (kbdgetc).  Screen: it shows the end of what was
\* put out (cgaputc).
Terminal == ReaderAwake /\ KeysMeanWhatTheySay /\ ShowsTheEnd

\* What comes from user programs: directories have one entry for a name
\* (skipelem, dirlookup, dirlink), and arguments of system calls are in the
\* process's memory (argptr, argstr).
NamesAndArguments == OneEntryPerName /\ Inside

\* malloc() and free() of umalloc.c keep every unit in one block, and leave no
\* two free neighbours, in any order of calls.
UmHeap == Partition /\ Coalesced
=============================================================================
