----------------------------- MODULE UserTests -----------------------------
(***************************************************************************)
(* usertests.c and the small user programs, as sequences of system calls   *)
(* with the results they accept.  A test that the kernel fails is a        *)
(* process that gets a result it does not accept.  Loops run fewer times   *)
(* and files are shorter; descriptors are the lowest free ones.  A name is *)
(* one string, a path the sequence of its elements.                        *)
(***************************************************************************)
EXTENDS Integers, Sequences, SequencesExt

CONSTANTS
  NSLOT,        \* process slots
  NCACHE,       \* NINODE
  BLOCK,        \* cells in a block
  BLOCKS        \* blocks in the largest file

OK == 0..9
FAIL == {-1}
ANY == OK \cup FAIL

Rd == {}
RdWr == {"RDWR"}
Wr == {"WRONLY"}
Cr == {"CREATE"}
CrRdWr == {"CREATE", "RDWR"}

Open(path, mode, want) == [op |-> "open", path |-> path, mode |-> mode, want |-> want]
Mkdir(path, want) == [op |-> "mkdir", path |-> path, want |-> want]
Mknod(path, want) == [op |-> "mknod", path |-> path, want |-> want]
Unlink_(path, want) == [op |-> "unlink", path |-> path, want |-> want]
Chdir_(path, want) == [op |-> "chdir", path |-> path, want |-> want]
Link_(old, new, want) == [op |-> "link", path |-> old, new |-> new, want |-> want]
Exec_(path, image, big, want) ==
  [op |-> "exec", path |-> path, image |-> image, big |-> big, want |-> want]
Close_(fd) == [op |-> "close", fd |-> fd, want |-> ANY]
Dup_(fd, want) == [op |-> "dup", fd |-> fd, want |-> want]
Pipe_ == [op |-> "pipe", want |-> {0}]
Fstat_(fd, see) == [op |-> "fstat", fd |-> fd, see |-> see, want |-> {0}]
Fork_(child, want) == [op |-> "fork", child |-> child, want |-> want]
Wait_(want) == [op |-> "wait", want |-> want]
Kill_(pid) == [op |-> "kill", pid |-> pid, want |-> {0}]
Exit_ == [op |-> "exit", want |-> {}]
Spin == [op |-> "spin", want |-> {}]
Goto_(to) == [op |-> "goto", to |-> to, want |-> {}]

Bytes(s) == [k \in 1..Len(s) |-> <<s[k], 0>>]
Times(c, n) == [k \in 1..n |-> c]
WriteOf(fd, s, want) == [op |-> "write", fd |-> fd, cells |-> Bytes(s), want |-> want]
Write_(fd, s) == WriteOf(fd, s, {Len(s)})
ReadOf(fd, n, all, see, once, want) ==
  [op |-> "read", fd |-> fd, n |-> n, all |-> all, see |-> see, once |-> once,
   want |-> want]
Read_(fd, n, s) == ReadOf(fd, n, FALSE, {s}, {}, {Len(s)})
\* while((k = read(fd, buf, n)) > 0), then a look at all that was read; with
\* names, at the entries of a directory.
ReadAll(fd, n, see, total) == ReadOf(fd, n, TRUE, see, {}, {total})
List(fd, names) == ReadOf(fd, 4, TRUE, {}, names, 0..99)

Loop(n, body(_)) == FlattenSeq([k \in 1..n |-> body(k)])

-----------------------------------------------------------------------------
(* One directory, one process after the other.                             *)

iputtest ==
  <<Mkdir(<<"iputdir">>, {0}), Chdir_(<<"iputdir">>, {0}),
    Unlink_(<<"..", "iputdir">>, {0}), Chdir_(<<"/">>, {0}), Exit_>>

exitiputchild ==
  <<Mkdir(<<"iputdir">>, {0}), Chdir_(<<"iputdir">>, {0}),
    Unlink_(<<"..", "iputdir">>, {0}), Exit_>>
exitiputtest == <<Fork_("exitiputchild", OK), Wait_(ANY), Exit_>>

openiputchild == <<Open(<<"oidir">>, RdWr, FAIL), Exit_>>
openiputtest ==
  <<Mkdir(<<"oidir">>, {0}), Fork_("openiputchild", OK),
    Unlink_(<<"oidir">>, {0}), Wait_(ANY), Exit_>>

opentest ==
  <<Open(<<"echo">>, Rd, OK), Close_(0), Open(<<"doesnotexist">>, Rd, FAIL), Exit_>>

\* Blocks of a's and b's that do not end where a block does.
writetest ==
  <<Open(<<"small">>, CrRdWr, OK)>>
  \o Loop(2, LAMBDA k : <<Write_(0, Times("a", 3)), Write_(0, Times("b", 3))>>)
  \o <<Close_(0), Open(<<"small">>, Rd, OK),
       Read_(0, 12, Times("a", 3) \o Times("b", 3) \o Times("a", 3) \o Times("b", 3)),
       Close_(0), Unlink_(<<"small">>, {0}), Exit_>>

Digit(k) == <<"0", "1", "2", "3", "4", "5", "6", "7", "8", "9">>[k]

\* The largest file, written and read a block at a time; one more read finds
\* its end.
writetest1 ==
  <<Open(<<"big">>, CrRdWr, OK)>>
  \o Loop(BLOCKS, LAMBDA k : <<Write_(0, Times(Digit(k), BLOCK))>>)
  \o <<Close_(0), Open(<<"big">>, Rd, OK)>>
  \o Loop(BLOCKS, LAMBDA k : <<Read_(0, BLOCK, Times(Digit(k), BLOCK))>>)
  \o <<Read_(0, BLOCK, <<>>), Close_(0), Unlink_(<<"big">>, {0}), Exit_>>

createtest ==
  Loop(4, LAMBDA k : <<Open(<<Digit(k)>>, CrRdWr, ANY), Close_(0)>>)
  \o Loop(4, LAMBDA k : <<Unlink_(<<Digit(k)>>, ANY)>>) \o <<Exit_>>

dirtest ==
  <<Mkdir(<<"dir0">>, {0}), Chdir_(<<"dir0">>, {0}), Chdir_(<<"..">>, {0}),
    Unlink_(<<"dir0">>, {0}), Exit_>>

exectest == <<Exec_(<<"echo">>, "echo", FALSE, {0}), Exit_>>
echo == <<Exit_>>

-----------------------------------------------------------------------------
(* Processes and pipes.                                                    *)

pipechild ==
  <<Close_(0), Write_(1, <<"0", "1", "2">>), Write_(1, <<"3", "4", "5">>), Exit_>>
\* The bytes come in order, then the end.
pipe1 ==
  <<Pipe_, Fork_("pipechild", OK), Close_(1), Read_(0, 1, <<"0">>),
    ReadAll(0, 2, {<<"1", "2", "3", "4", "5">>}, 5), Close_(0), Wait_(OK), Exit_>>

spinner == <<Spin>>
preemptchild == <<Close_(0), Write_(1, <<"x">>), Close_(1), Spin>>
preempt ==
  <<Fork_("spinner", OK), Fork_("spinner", OK), Pipe_, Fork_("preemptchild", OK),
    Close_(1), Read_(0, 8, <<"x">>), Close_(0), Kill_(2), Kill_(3), Kill_(4),
    Wait_(OK), Wait_(OK), Wait_(OK), Exit_>>

exitwait == Loop(3, LAMBDA k : <<Fork_("echo", {2}), Wait_({2})>>) \o <<Exit_>>

\* A fork for every slot; the next one fails.
forktest ==
  Loop(NSLOT - 1, LAMBDA k : <<Fork_("echo", OK)>>) \o <<Fork_("echo", FAIL)>>
  \o Loop(NSLOT - 1, LAMBDA k : <<Wait_(OK)>>) \o <<Wait_(FAIL), Exit_>>

-----------------------------------------------------------------------------
(* Several processes, one file or directory.                               *)

\* Two processes write through one descriptor: all bytes arrive.
Mixes == {s \in [1..8 -> {"c", "p"}] : Len(SelectSeq(s, LAMBDA x : x = "c")) = 4}
sharedfdchild == <<Write_(0, Times("c", 2)), Write_(0, Times("c", 2)), Exit_>>
sharedfd ==
  <<Unlink_(<<"sharedfd">>, ANY), Open(<<"sharedfd">>, CrRdWr, OK),
    Fork_("sharedfdchild", OK), Write_(0, Times("p", 2)), Write_(0, Times("p", 2)),
    Wait_(OK), Close_(0), Open(<<"sharedfd">>, Rd, OK), ReadAll(0, 3, Mixes, 8),
    Close_(0), Unlink_(<<"sharedfd">>, {0}), Exit_>>

\* Two files that need more than one block each.
FourBytes(k) == Times(Digit(k), 6)
fourchild(name, k) ==
  <<Open(<<name>>, CrRdWr, OK), Write_(0, Times(Digit(k), 3)),
    Write_(0, Times(Digit(k), 3)), Exit_>>
fourcheck(name, k) ==
  <<Open(<<name>>, Rd, OK), ReadAll(0, 8, {FourBytes(k)}, 6), Close_(0),
    Unlink_(<<name>>, ANY)>>
fourfiles ==
  <<Unlink_(<<"f1">>, ANY), Fork_("fourchild1", OK),
    Unlink_(<<"f2">>, ANY), Fork_("fourchild2", OK), Wait_(OK), Wait_(OK)>>
  \o fourcheck("f1", 1) \o fourcheck("f2", 2) \o <<Exit_>>

\* Each child makes two names and takes the first one back.  The last loop
\* takes the letter of the name from the wrong counter, and leaves p2 and q2.
createchild(y, z) ==
  <<Open(<<y>>, CrRdWr, OK), Close_(0), Open(<<z>>, CrRdWr, OK), Close_(0),
    Unlink_(<<y>>, {0}), Exit_>>
createdelete ==
  <<Fork_("createchild1", OK), Fork_("createchild2", OK), Wait_(ANY), Wait_(ANY),
    Open(<<"p1">>, Rd, FAIL), Open(<<"q1">>, Rd, FAIL),
    Open(<<"p2">>, Rd, OK), Close_(0), Open(<<"q2">>, Rd, OK), Close_(0),
    Unlink_(<<"q1">>, ANY), Unlink_(<<"q1">>, ANY),
    Unlink_(<<"r2">>, ANY), Unlink_(<<"r2">>, ANY), Exit_>>

\* A file without a name can still be read and written.
unlinkread ==
  <<Open(<<"unlinkread">>, CrRdWr, OK), Write_(0, <<"h", "e", "l", "l", "o">>),
    Close_(0), Open(<<"unlinkread">>, RdWr, OK), Unlink_(<<"unlinkread">>, {0}),
    Open(<<"unlinkread">>, CrRdWr, OK), Write_(1, <<"y", "y", "y">>), Close_(1),
    Read_(0, 8, <<"h", "e", "l", "l", "o">>), Write_(0, Times("h", 10)),
    Close_(0), Unlink_(<<"unlinkread">>, ANY), Exit_>>

linktest ==
  <<Unlink_(<<"lf1">>, ANY), Unlink_(<<"lf2">>, ANY),
    Open(<<"lf1">>, CrRdWr, OK), Write_(0, <<"h", "e", "l", "l", "o">>), Close_(0),
    Link_(<<"lf1">>, <<"lf2">>, {0}), Unlink_(<<"lf1">>, ANY),
    Open(<<"lf1">>, Rd, FAIL),
    Open(<<"lf2">>, Rd, OK), Read_(0, 8, <<"h", "e", "l", "l", "o">>), Close_(0),
    Link_(<<"lf2">>, <<"lf2">>, FAIL), Unlink_(<<"lf2">>, ANY),
    Link_(<<"lf2">>, <<"lf1">>, FAIL), Link_(<<".">>, <<"lf1">>, FAIL), Exit_>>

\* Parent and child make the same names, by open() or by link(): each name
\* appears once.  Then they open and unlink them.
concreatechild(name, links) ==
  (IF links THEN <<Link_(<<"C0">>, <<name>>, ANY)>>
   ELSE <<Open(<<name>>, CrRdWr, OK), Close_(0)>>) \o <<Exit_>>
concreateround(child, name, links) ==
  <<Unlink_(<<name>>, ANY), Fork_(child, OK)>>
  \o (IF links THEN <<Link_(<<"C0">>, <<name>>, ANY)>>
      ELSE <<Open(<<name>>, CrRdWr, OK), Close_(0)>>) \o <<Wait_(ANY)>>
concreateopen == <<Open(<<"C0">>, Rd, ANY), Close_(0), Open(<<"C0">>, Rd, ANY), Close_(0), Exit_>>
concreate ==
  concreateround("concreatechild0", "C0", FALSE)
  \o concreateround("concreatechild1", "C1", TRUE)
  \o concreateround("concreatechild1", "C1", FALSE)
  \o <<Open(<<".">>, Rd, OK), List(0, {"C0", "C1"}), Close_(0),
       Fork_("concreateopen", OK), Unlink_(<<"C0">>, ANY), Unlink_(<<"C0">>, ANY),
       Wait_(ANY), Exit_>>

\* One turn of the loop at position k: open and close, link, or unlink.
linkunlinkturn(k) ==
  <<Goto_({k + 1, k + 4, k + 6}),
    Open(<<"x">>, CrRdWr, ANY), Close_(0), Goto_({k + 7}),
    Link_(<<"cat">>, <<"x">>, ANY), Goto_({k + 7}), Unlink_(<<"x">>, ANY)>>
linkunlinkchild == linkunlinkturn(1) \o linkunlinkturn(8) \o <<Exit_>>
linkunlink ==
  <<Unlink_(<<"x">>, ANY), Fork_("linkunlinkchild", OK)>>
  \o linkunlinkturn(3) \o linkunlinkturn(10) \o <<Wait_(ANY), Exit_>>

-----------------------------------------------------------------------------
(* Names and paths.                                                        *)

\* Links fill the directory past its direct blocks.
bigdir ==
  <<Unlink_(<<"bd">>, ANY), Open(<<"bd">>, Cr, OK), Close_(0)>>
  \o Loop(5, LAMBDA k : <<Link_(<<"bd">>, <<Digit(k)>>, {0})>>)
  \o <<Unlink_(<<"bd">>, ANY)>>
  \o Loop(5, LAMBDA k : <<Unlink_(<<Digit(k)>>, {0})>>) \o <<Exit_>>

subdirmake ==
  <<Unlink_(<<"ff">>, ANY), Mkdir(<<"dd">>, {0}), Open(<<"dd", "ff">>, CrRdWr, OK),
    Write_(0, <<"f", "f">>), Close_(0), Unlink_(<<"dd">>, FAIL),
    Mkdir(<<"/", "dd", "dd">>, {0}), Open(<<"dd", "dd", "ff">>, CrRdWr, OK),
    Write_(0, <<"F", "F">>), Close_(0), Open(<<"dd", "dd", "..", "ff">>, Rd, OK),
    Read_(0, 8, <<"f", "f">>), Close_(0),
    Link_(<<"dd", "dd", "ff">>, <<"dd", "dd", "ffff">>, {0}),
    Unlink_(<<"dd", "dd", "ff">>, {0}), Open(<<"dd", "dd", "ff">>, Rd, FAIL)>>
subdirmove ==
  <<Chdir_(<<"dd">>, {0}), Chdir_(<<"dd", "..", "..", "dd">>, {0}),
    Chdir_(<<"dd", "..", "..", "..", "dd">>, {0}), Chdir_(<<".", "..">>, {0}),
    Open(<<"dd", "dd", "ffff">>, Rd, OK), Read_(0, 8, <<"F", "F">>), Close_(0)>>
subdirrefuse ==
  <<Open(<<"dd", "dd", "ff">>, Rd, FAIL), Open(<<"dd", "ff", "ff">>, CrRdWr, FAIL),
    Open(<<"dd", "xx", "ff">>, CrRdWr, FAIL), Open(<<"dd">>, Cr, FAIL),
    Open(<<"dd">>, RdWr, FAIL), Open(<<"dd">>, Wr, FAIL),
    Link_(<<"dd", "ff", "ff">>, <<"dd", "dd", "xx">>, FAIL),
    Link_(<<"dd", "xx", "ff">>, <<"dd", "dd", "xx">>, FAIL),
    Link_(<<"dd", "ff">>, <<"dd", "dd", "ffff">>, FAIL),
    Mkdir(<<"dd", "ff", "ff">>, FAIL), Mkdir(<<"dd", "xx", "ff">>, FAIL),
    Mkdir(<<"dd", "dd", "ffff">>, FAIL), Unlink_(<<"dd", "xx", "ff">>, FAIL),
    Unlink_(<<"dd", "ff", "ff">>, FAIL), Chdir_(<<"dd", "ff">>, FAIL),
    Chdir_(<<"dd", "xx">>, FAIL)>>
subdirclean ==
  <<Unlink_(<<"dd", "dd", "ffff">>, {0}), Unlink_(<<"dd", "ff">>, {0}),
    Unlink_(<<"dd">>, FAIL), Unlink_(<<"dd", "dd">>, {0}), Unlink_(<<"dd">>, {0}),
    Exit_>>
subdir == subdirmake \o subdirmove \o subdirrefuse \o subdirclean

\* Writes of more than one transaction.
bigwriteround(n) ==
  <<Open(<<"bigwrite">>, CrRdWr, OK), Write_(0, Times("a", n)),
    Write_(0, Times("a", n)), Close_(0), Unlink_(<<"bigwrite">>, ANY)>>
bigwrite ==
  <<Unlink_(<<"bigwrite">>, ANY)>> \o bigwriteround(BLOCK - 1)
  \o bigwriteround(BLOCK + 1) \o bigwriteround(2 * BLOCK) \o <<Exit_>>

\* Written in pieces of 6, read in halves.
bigfile ==
  <<Unlink_(<<"bigfile">>, ANY), Open(<<"bigfile">>, CrRdWr, OK)>>
  \o Loop(3, LAMBDA k : <<Write_(0, Times(Digit(k), 6))>>)
  \o <<Close_(0), Open(<<"bigfile">>, Rd, OK)>>
  \o Loop(6, LAMBDA k : <<Read_(0, 3, Times(Digit(((k - 1) \div 2) + 1), 3))>>)
  \o <<Read_(0, 3, <<>>), Close_(0), Unlink_(<<"bigfile">>, ANY), Exit_>>

\* "fourteen" has DIRSIZ bytes, "fifteen" one more at its end.
fourteen ==
  <<Mkdir(<<"fourteen">>, {0}), Mkdir(<<"fourteen", "fifteen">>, {0}),
    Open(<<"fifteen", "fifteen", "fifteen">>, Cr, OK), Close_(0),
    Open(<<"fourteen", "fourteen", "fourteen">>, Rd, OK), Close_(0),
    Mkdir(<<"fourteen", "fourteen">>, FAIL), Mkdir(<<"fifteen", "fourteen">>, FAIL),
    Exit_>>

rmdot ==
  <<Mkdir(<<"dots">>, {0}), Chdir_(<<"dots">>, {0}), Unlink_(<<".">>, FAIL),
    Unlink_(<<"..">>, FAIL), Chdir_(<<"/">>, {0}), Unlink_(<<"dots", ".">>, FAIL),
    Unlink_(<<"dots", "..">>, FAIL), Unlink_(<<"dots">>, {0}), Exit_>>

dirfile ==
  <<Open(<<"dirfile">>, Cr, OK), Close_(0), Chdir_(<<"dirfile">>, FAIL),
    Open(<<"dirfile", "xx">>, Rd, FAIL), Open(<<"dirfile", "xx">>, Cr, FAIL),
    Mkdir(<<"dirfile", "xx">>, FAIL), Unlink_(<<"dirfile", "xx">>, FAIL),
    Link_(<<"README">>, <<"dirfile", "xx">>, FAIL), Unlink_(<<"dirfile">>, {0}),
    Open(<<".">>, RdWr, FAIL), Open(<<".">>, Rd, ANY), WriteOf(0, <<"x">>, FAIL),
    Close_(0), Exit_>>

\* More often than the inode cache has entries: lookups that fail late.
iref ==
  Loop(NCACHE + 1, LAMBDA k :
    <<Mkdir(<<"irefd">>, {0}), Chdir_(<<"irefd">>, {0}), Mkdir(<<>>, ANY),
      Link_(<<"README">>, <<>>, ANY), Open(<<>>, Cr, FAIL),
      Open(<<"xx">>, Cr, ANY), Close_(0), Unlink_(<<"xx">>, ANY)>>)
  \o <<Chdir_(<<"/">>, ANY), Exit_>>

bigargchild ==
  <<Exec_(<<"echo">>, "echo", TRUE, FAIL), Open(<<"bigarg-ok">>, Cr, ANY), Close_(0),
    Exit_>>
bigargtest ==
  <<Unlink_(<<"bigarg-ok">>, ANY), Fork_("bigargchild", OK), Wait_(ANY),
    Open(<<"bigarg-ok">>, Rd, OK), Close_(0), Unlink_(<<"bigarg-ok">>, ANY), Exit_>>

\* The first lines of main(): the tests run once on an image.
already ==
  <<Open(<<"usertests.ran">>, Rd, FAIL), Open(<<"usertests.ran">>, Cr, ANY), Close_(0),
    Open(<<"usertests.ran">>, Rd, OK), Exit_>>

-----------------------------------------------------------------------------
(* Other programs.                                                         *)

\* init.c, until the shell has ended once.
initchild == <<Exec_(<<"sh">>, "echo", FALSE, {0}), Exit_>>
init ==
  <<Open(<<"console">>, RdWr, FAIL), Mknod(<<"console">>, {0}),
    Open(<<"console">>, RdWr, {0}), Dup_(0, {1}), Dup_(0, {2}),
    Write_(1, <<"i">>), Fork_("initchild", OK), Wait_(OK), Exit_>>

\* stressfs.c with two processes.
stresswork(name) ==
  <<Open(<<name>>, CrRdWr, ANY), Write_(0, Times("a", BLOCK)), Close_(0),
    Open(<<name>>, Rd, ANY), Read_(0, BLOCK, Times("a", BLOCK)), Close_(0)>>
stressfs == <<Fork_("stresschild", OK)>> \o stresswork("s0") \o <<Wait_(ANY), Exit_>>
stresschild == stresswork("s1") \o <<Wait_(FAIL), Exit_>>

\* zombie.c: the parent ends first, or not.
zombie == <<Fork_("echo", OK), Exit_>>

\* ls.c of a directory or of a file, and cat.c, on what mkfs has made.
ls == <<Goto_({2, 7}), Open(<<".">>, Rd, OK), Fstat_(0, {<<"dir", 1>>}),
        List(0, {".", "..", "README", "cat", "echo", "sh"}), Close_(0), Exit_,
        Open(<<"README">>, Rd, OK), Fstat_(0, {<<"file", 1>>}), Close_(0), Exit_>>
cat == <<Open(<<"README">>, Rd, OK), ReadAll(0, 2, {<<"r", "e", "a">>}, 3), Close_(0),
         Exit_>>

\* How pipe() and a write to a pipe fail: no room for a second one, nobody to
\* read.
brokenpipe ==
  <<Pipe_, [Pipe_ EXCEPT !.want = FAIL], Close_(0), WriteOf(1, Times("a", 3), FAIL), Exit_>>

\* mkdir.c, ln.c and rm.c, the last two at the same time: the new name may
\* come too late.
mkdir == <<Mkdir(<<"d">>, {0}), Exit_>>
ln == <<Link_(<<"README">>, <<"d", "r">>, ANY), Exit_>>
rm == <<Unlink_(<<"README">>, {0}), Exit_>>
tools ==
  <<Fork_("mkdir", OK), Wait_(OK), Fork_("ln", OK), Fork_("rm", OK), Wait_(OK), Wait_(OK),
    Open(<<"README">>, Rd, FAIL), Unlink_(<<"d", "r">>, ANY), Unlink_(<<"d">>, {0}), Exit_>>
=============================================================================
