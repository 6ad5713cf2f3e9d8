------------------------------ MODULE CmdLine ------------------------------
(***************************************************************************)
(* Every command line that can be typed, and what the parser makes of it.  *)
(***************************************************************************)
EXTENDS ShellParser

CONSTANTS
  Keys,         \* what is typed: characters, and words that mean something
  LINE,         \* of all keys, a line has so many
  ArgKeys,      \* keys that make arguments
  ARGLINE       \* of these alone, so many

VARIABLES line, strokes   \* the line, and the keys that were typed

Init == line = <<>> /\ strokes = <<>>

\* gets(): one more key.
gets(key) ==
  /\ \/ Len(strokes) < LINE
     \/ Len(strokes) < ARGLINE /\ ToSet(strokes) \cup {key} \subseteq ArgKeys
  /\ line' = line \o key
  /\ strokes' = Append(strokes, key)
Next == \E key \in Keys : gets(key)

-----------------------------------------------------------------------------
\* A reference for the tokens of a line, by what stands at each position.
IsWord(i) == At(line, i) \notin whitespace \cup symbols \cup {NUL}
RunOfGT(i) == Cardinality({j \in 1..i : \A k \in j..i : line[k] = ">"})
Starts(i) == \/ line[i] \in symbols \ {">"}
             \/ line[i] = ">" /\ RunOfGT(i) % 2 = 1
             \/ IsWord(i) /\ (i = 1 \/ ~IsWord(i - 1))
Firsts == SelectSeq([i \in 1..Len(line) |-> i], Starts)
Kinds(firsts) == [k \in 1..Len(firsts) |-> IF IsWord(firsts[k]) THEN "a" ELSE line[firsts[k]]]
Redir == {"<", ">"}

\* The end of the word that begins at i.
WordEnd(i) == CHOOSE e \in (i + 1)..(Len(line) + 1) :
                ~IsWord(e) /\ \A j \in i..(e - 1) : IsWord(j)

\* Of the tokens K: one of them, a word that is the file of a redirection,
\* and one that is an argument.
Tok(K, k) == IF k \in 1..Len(K) THEN K[k] ELSE NUL
IsFile(K, k) == Tok(K, k) = "a" /\ Tok(K, k - 1) \in Redir
IsArg(K, k) == Tok(K, k) = "a" /\ Tok(K, k - 1) \notin Redir
Depth(K, k) == Cardinality({j \in 1..k : K[j] = "("}) - Cardinality({j \in 1..k : K[j] = ")"})
\* The token behind k and the redirections that follow it.
Rest(K, k) == CHOOSE j \in (k + 1)..(Len(K) + 1) :
                /\ Tok(K, j) \notin Redir /\ ~IsFile(K, j)
                /\ \A m \in (k + 1)..(j - 1) : K[m] \in Redir \/ IsFile(K, m)

\* Argument k is the first one of its simple command, and spells exit.
IsExit(firsts, K, k) ==
  /\ IsArg(K, k) /\ Spells(line, <<firsts[k], WordEnd(firsts[k])>>, <<"e", "x", "i", "t">>)
  /\ \A j \in 1..(k - 1) :
       IsArg(K, j) => \E m \in (j + 1)..(k - 1) : K[m] \notin Redir \cup {"a"}

\* The language of the shells.  A command of project 3's shell that is called
\* exit is none: parseexec() ends the shell when it comes to it.
WellFormed(firsts, K) ==
  /\ \A k \in 1..Len(K) :
       /\ K[k] \in Redir => Tok(K, k + 1) = "a"
       /\ K[k] = "&" => Tok(K, k + 1) \in {"&", ";", ")", NUL}
       /\ K[k] = "(" => Tok(K, k - 1) \in {"(", "|", ";", NUL}
       /\ K[k] = ")" => Tok(K, Rest(K, k)) \in {"|", "&", ";", ")", NUL}
       /\ Depth(K, k) >= 0
       /\ ~Parens /\ IsArg(K, k) => line[firsts[k]] # ")"
       /\ Parens \/ ~IsExit(firsts, K, k)
  /\ K # <<>> => Depth(K, Len(K)) = 0
  /\ \A i, j \in 1..Len(K) :
       i <= j /\ (\A k \in i..j : K[k] \in Redir \cup {"a"})
       => Cardinality({k \in i..j : IsArg(K, k)}) < MAXARGS

\* A line is accepted exactly if it is in the language, whatever the order
\* of its tokens: parsecmd() neither gives up on a good line nor leaves a
\* part of a bad one out; and the shell ends only over a command that is
\* called exit (parseexec), not over an argument or a file of that name.
Grammar(p, f) ==
  LET K == Kinds(f) IN
  /\ p.st = "ok" <=> WellFormed(f, K)
  /\ p.st = "exit" => ~Parens /\ \E k \in 1..Len(K) : IsExit(f, K, k)

\* A command as it was written, its redirections aside.
RECURSIVE Flat(_)
Flat(cmd) ==
  CASE cmd.type = "EXEC" -> cmd.argv
    [] cmd.type = "REDIR" -> Flat(cmd.cmd)
    [] cmd.type = "PIPE" -> Flat(cmd.left) \o <<<<"|">>>> \o Flat(cmd.right)
    [] cmd.type = "LIST" -> Flat(cmd.left) \o <<<<";">>>> \o Flat(cmd.right)
    [] OTHER -> Flat(cmd.cmd) \o <<<<"&">>>>

\* The command of an accepted line has all its words and operators in their
\* order; and every string of it is the word, however it was delimited, once
\* nulterminate() has written over the line.
ReadsBack(p, f) ==
  LET K == Kinds(f)
      kept == SelectSeq([k \in 1..Len(K) |-> k],
                        LAMBDA k : IsArg(K, k) \/ K[k] \in {"|", ";", "&"})
  IN p.st = "ok" =>
       /\ Flat(p.cmd) = [j \in 1..Len(kept) |->
                          LET i == f[kept[j]] IN
                          IF IsArg(K, kept[j]) THEN <<i, WordEnd(i)>> ELSE <<line[i]>>]
       /\ \A w \in Words(p.cmd) : Spells(line, w, String(p.text, w))

\* Both of them, of what parsecmd() makes of the line.
Understood == \A p \in {parsecmd(line)}, f \in {Firsts} : Grammar(p, f) /\ ReadsBack(p, f)
=============================================================================
