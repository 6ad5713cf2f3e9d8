------------------------------ MODULE MCFiles ------------------------------
(* The user programs on a disk of 18 blocks and 14 inodes.                 *)
EXTENDS Files, UserTests

Image0 == Mkfs(<<[name |-> "README", cells |-> Bytes(<<"r", "e", "a">>)],
                 [name |-> "cat", cells |-> Bytes(<<"elf">>)],
                 [name |-> "echo", cells |-> Bytes(<<"elf">>)],
                 [name |-> "sh", cells |-> Bytes(<<"elf">>)]>>)

Text ==
  [iputtest |-> iputtest, exitiputtest |-> exitiputtest, exitiputchild |-> exitiputchild,
   openiputtest |-> openiputtest, openiputchild |-> openiputchild,
   opentest |-> opentest, writetest |-> writetest, writetest1 |-> writetest1,
   createtest |-> createtest, dirtest |-> dirtest, exectest |-> exectest,
   echo |-> echo, pipe1 |-> pipe1, pipechild |-> pipechild, spinner |-> spinner,
   preempt |-> preempt, preemptchild |-> preemptchild, exitwait |-> exitwait,
   forktest |-> forktest, sharedfd |-> sharedfd, sharedfdchild |-> sharedfdchild,
   fourfiles |-> fourfiles, fourchild1 |-> fourchild("f1", 1),
   fourchild2 |-> fourchild("f2", 2), createdelete |-> createdelete,
   createchild1 |-> createchild("p1", "p2"),
   createchild2 |-> createchild("q1", "q2"),
   unlinkread |-> unlinkread, linktest |-> linktest, concreate |-> concreate,
   concreatechild0 |-> concreatechild("C0", FALSE),
   concreatechild1 |-> concreatechild("C1", TRUE), concreateopen |-> concreateopen,
   linkunlink |-> linkunlink, linkunlinkchild |-> linkunlinkchild,
   bigdir |-> bigdir, subdir |-> subdir, bigwrite |-> bigwrite, bigfile |-> bigfile,
   fourteen |-> fourteen, rmdot |-> rmdot, dirfile |-> dirfile, iref |-> iref,
   bigargtest |-> bigargtest, bigargchild |-> bigargchild, already |-> already,
   init |-> init, initchild |-> initchild, stressfs |-> stressfs,
   stresschild |-> stresschild, zombie |-> zombie, ls |-> ls, cat |-> cat,
   brokenpipe |-> brokenpipe, tools |-> tools, mkdir |-> mkdir, ln |-> ln, rm |-> rm]

Children ==
  {"exitiputchild", "openiputchild", "echo", "pipechild", "spinner", "preemptchild",
   "sharedfdchild", "fourchild1", "fourchild2", "createchild1", "createchild2",
   "concreatechild0", "concreatechild1", "concreateopen", "linkunlinkchild",
   "bigargchild", "initchild", "stresschild", "mkdir", "ln", "rm"}

\* linkunlink and concreate have a run of their own.
AllTests == DOMAIN Text \ (Children \cup {"linkunlink", "concreate"})
=============================================================================
