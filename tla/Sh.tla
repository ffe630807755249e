--------------------------------- MODULE Sh ---------------------------------
(***************************************************************************)
(* The shell's parser and the plumbing of runcmd() (user/sh.c).  A command *)
(* line is a sequence of characters; a word of a parsed command is the     *)
(* pair of positions that the code keeps, and becomes a string when        *)
(* nulterminate() has cut the line.                                        *)
(***************************************************************************)
EXTENDS Integers, Sequences

CONSTANTS Letters, NOFILE, MAXARGS

Symbols == {"<", "|", ">", "&", ";", "(", ")"}
Char(s, i) == IF i > Len(s) THEN "nul" ELSE s[i]

Exec(argv) == [type |-> "exec", argv |-> argv]
Redir(cmd, file, mode, fd) ==
    [type |-> "redir", cmd |-> cmd, file |-> file, mode |-> mode, fd |-> fd]
Pipe(left, right) == [type |-> "pipe", left |-> left, right |-> right]
List(left, right) == [type |-> "list", left |-> left, right |-> right]
Back(cmd) == [type |-> "back", cmd |-> cmd]
-----------------------------------------------------------------------------
(* gettoken(), peek() *)

RECURSIVE Skip(_, _)
Skip(s, i) == IF Char(s, i) = " " THEN Skip(s, i + 1) ELSE i
RECURSIVE WordEnd(_, _)
WordEnd(s, i) ==
    IF i <= Len(s) /\ s[i] \notin {" "} \cup Symbols THEN WordEnd(s, i + 1) ELSE i

Peek(s, i, toks) == Char(s, Skip(s, i)) \in toks

Gettoken(s, i) ==
    LET q == Skip(s, i)
        c == Char(s, q)
        append == c = ">" /\ Char(s, q + 1) = ">"
        eq == IF c = "nul" THEN q ELSE IF append THEN q + 2
              ELSE IF c \in Symbols THEN q + 1 ELSE WordEnd(s, q)
    IN [tok |-> IF append THEN "+" ELSE IF c \in Symbols \cup {"nul"} THEN c ELSE "a",
        word |-> <<q, eq>>, i |-> Skip(s, eq)]
-----------------------------------------------------------------------------
(* The parser: the command and the position behind it, or a panic *)

Parsed(cmd, i) == [err |-> "no", cmd |-> cmd, i |-> i]
Panic(why) == [err |-> why, cmd |-> Exec(<<>>), i |-> 0]
Then(r, F(_, _)) == IF r.err # "no" THEN r ELSE F(r.cmd, r.i)

RECURSIVE Parseredirs(_, _, _)
Parseredirs(s, cmd, i) ==
    LET t == Gettoken(s, i)
        f == Gettoken(s, t.i)
    IN IF ~Peek(s, i, {"<", ">"}) THEN Parsed(cmd, i)
       ELSE IF f.tok # "a" THEN Panic("missing file for redirection")
       ELSE Parseredirs(s, CASE t.tok = "<" -> Redir(cmd, f.word, "read", 0)
                             [] t.tok = ">" -> Redir(cmd, f.word, "trunc", 1)
                             [] t.tok = "+" -> Redir(cmd, f.word, "append", 1), f.i)

\* parseexec() adds arguments to the exec command below the redirections.
RECURSIVE AddArg(_, _)
AddArg(cmd, word) ==
    IF cmd.type = "exec" THEN Exec(Append(cmd.argv, word))
    ELSE [cmd EXCEPT !.cmd = AddArg(@, word)]
RECURSIVE Parseargs(_, _, _, _)
Parseargs(s, cmd, argc, i) ==
    LET t == Gettoken(s, i)
        next(c, j) == Parseargs(s, c, argc + 1, j)
    IN IF Peek(s, i, {"|", ")", "&", ";"}) \/ t.tok = "nul" THEN Parsed(cmd, Skip(s, i))
       ELSE IF t.tok # "a" THEN Panic("syntax")
       ELSE IF argc + 1 >= MAXARGS THEN Panic("too many args")
       ELSE Then(Parseredirs(s, AddArg(cmd, t.word), t.i), next)

RECURSIVE Parseline(_, _), Parsepipe(_, _), Parsebacks(_, _, _)
Parseblock(s, i) ==
    LET close(c, j) == IF ~Peek(s, j, {")"}) THEN Panic("syntax - missing )")
                       ELSE Parseredirs(s, c, Gettoken(s, j).i)
    IN Then(Parseline(s, Gettoken(s, i).i), close)
Parseexec(s, i) ==
    LET args(c, j) == Parseargs(s, c, 0, j) IN
    IF Peek(s, i, {"("}) THEN Parseblock(s, i)
    ELSE Then(Parseredirs(s, Exec(<<>>), i), args)

Parsepipe(s, i) ==
    LET right(c, j) ==
            IF ~Peek(s, j, {"|"}) THEN Parsed(c, j)
            ELSE LET pipe(d, k) == Parsed(Pipe(c, d), k)
                 IN Then(Parsepipe(s, Gettoken(s, j).i), pipe)
    IN Then(Parseexec(s, i), right)
Parsebacks(s, cmd, i) ==
    IF Peek(s, i, {"&"}) THEN Parsebacks(s, Back(cmd), Gettoken(s, i).i) ELSE Parsed(cmd, i)
Parseline(s, i) ==
    LET backs(c, j) == Parsebacks(s, c, j)
        right(c, j) ==
            IF ~Peek(s, j, {";"}) THEN Parsed(c, j)
            ELSE LET list(d, k) == Parsed(List(c, d), k)
                 IN Then(Parseline(s, Gettoken(s, j).i), list)
    IN Then(Then(Parsepipe(s, i), backs), right)

\* nulterminate(): the line with a NUL behind each word, and a word as a string.
RECURSIVE Words(_)
Words(cmd) ==
    CASE cmd.type = "exec" -> {cmd.argv[k] : k \in DOMAIN cmd.argv}
      [] cmd.type = "redir" -> {cmd.file} \cup Words(cmd.cmd)
      [] cmd.type = "back" -> Words(cmd.cmd)
      [] OTHER -> Words(cmd.left) \cup Words(cmd.right)
Nulterminate(s, cmd) ==
    [i \in 1..Len(s) |-> IF \E x \in Words(cmd) : x[2] = i THEN "nul" ELSE s[i]]
StringAt(s, q) ==
    LET end == CHOOSE e \in q..(Len(s) + 1) :
                    Char(s, e) = "nul" /\ \A i \in q..(e - 1) : s[i] # "nul"
    IN SubSeq(s, q, end - 1)
RECURSIVE Strings(_, _)
Strings(s, cmd) ==
    CASE cmd.type = "exec" -> Exec([k \in DOMAIN cmd.argv |-> StringAt(s, cmd.argv[k][1])])
      [] cmd.type = "redir" -> [cmd EXCEPT !.cmd = Strings(s, @), !.file = StringAt(s, @[1])]
      [] cmd.type = "back" -> [cmd EXCEPT !.cmd = Strings(s, @)]
      [] OTHER -> [cmd EXCEPT !.left = Strings(s, @), !.right = Strings(s, @)]

Parsecmd(s) ==
    LET all(c, i) == IF Skip(s, i) # Len(s) + 1 THEN Panic("syntax")
                     ELSE Parsed(Strings(Nulterminate(s, c), c), i)
    IN Then(Parseline(s, 1), all)
-----------------------------------------------------------------------------
(* runcmd(): the programs that it executes, each with its descriptors *)

Closed == <<>>
Console == <<"console">>
Lowest(fds) == CHOOSE d \in 0..(NOFILE - 1) : fds[d] = Closed
                    /\ \A e \in 0..(d - 1) : fds[e] # Closed
Close(fds, d) == [fds EXCEPT ![d] = Closed]
Open(fds, what) == [fds EXCEPT ![Lowest(fds)] = what]

\* Mutant: the reader of a pipe keeps its writing end.
RightEndKeeps(fds, rend, wend) == Close(Open(Close(fds, 0), fds[rend]), rend)
RightEnd(fds, rend, wend) == Close(Close(Open(Close(fds, 0), fds[rend]), rend), wend)
LeftEnd(fds, rend, wend) == Close(Close(Open(Close(fds, 1), fds[wend]), rend), wend)

\* `id' tells pipes apart.
RECURSIVE Run(_, _, _)
Run(cmd, fds, id) ==
    CASE cmd.type = "exec" -> IF cmd.argv = <<>> THEN {} ELSE {<<cmd.argv, fds>>}
      [] cmd.type = "redir" -> Run(cmd.cmd, Open(Close(fds, cmd.fd), <<"file", cmd.file>>), id)
      [] cmd.type = "list" -> Run(cmd.left, fds, Append(id, 1)) \cup
                              Run(cmd.right, fds, Append(id, 2))
      [] cmd.type = "back" -> Run(cmd.cmd, fds, id)
      [] cmd.type = "pipe" ->
            LET rend == Lowest(fds)
                f == Open(fds, <<"pipe", id, "read">>)
                wend == Lowest(f)
                g == Open(f, <<"pipe", id, "write">>)
            IN Run(cmd.left, LeftEnd(g, rend, wend), Append(id, 1)) \cup
               Run(cmd.right, RightEnd(g, rend, wend), Append(id, 2))
-----------------------------------------------------------------------------
(* The language, as a printer of commands, and what commands mean *)

\* Text puts commands that bind less tightly into parentheses; g is "" or " ".
Level(cmd) ==
    CASE cmd.type = "list" -> 3 [] cmd.type = "back" -> 2 [] cmd.type = "pipe" -> 1
      [] OTHER -> 0
Cat(a, g, b) == IF g = "" /\ (a = <<>> \/ b = <<>> \/ a[Len(a)] \in Symbols \/ b[1] \in Symbols)
                THEN a \o b ELSE a \o <<" ">> \o b
RECURSIVE Args(_, _)
Args(argv, g) == IF argv = <<>> THEN <<>> ELSE Cat(Head(argv), g, Args(Tail(argv), g))
RECURSIVE Text(_, _, _)
Text(cmd, level, g) ==
    IF Level(cmd) > level
    THEN Cat(Cat(<<"(">>, g, Text(cmd, 3, g)), g, <<")">>)
    ELSE CASE cmd.type = "exec" -> Args(cmd.argv, g)
           [] cmd.type = "redir" ->
                Cat(Text(cmd.cmd, 0, g), g,
                    Cat(CASE cmd.mode = "read" -> <<"<">> [] cmd.mode = "trunc" -> <<">">>
                          [] OTHER -> <<">", ">">>, g, cmd.file))
           [] cmd.type = "pipe" -> Cat(Text(cmd.left, 0, g), g, Cat(<<"|">>, g, Text(cmd.right, 1, g)))
           [] cmd.type = "back" -> Cat(Text(cmd.cmd, 2, g), g, <<"&">>)
           [] cmd.type = "list" -> Cat(Text(cmd.left, 2, g), g, Cat(<<";">>, g, Text(cmd.right, 3, g)))

\* Each program reads and writes what the command says, and has nothing else open.
\* The innermost redirection, the first one written, decides.
RECURSIVE Wiring(_, _, _, _)
Wiring(cmd, in, out, id) ==
    CASE cmd.type = "exec" ->
            IF cmd.argv = <<>> THEN {}
            ELSE {<<cmd.argv, [d \in 0..(NOFILE - 1) |->
                    CASE d = 0 -> in [] d = 1 -> out [] d = 2 -> Console [] OTHER -> Closed]>>}
      [] cmd.type = "redir" -> Wiring(cmd.cmd, IF cmd.fd = 0 THEN <<"file", cmd.file>> ELSE in,
                                      IF cmd.fd = 1 THEN <<"file", cmd.file>> ELSE out, id)
      [] cmd.type = "back" -> Wiring(cmd.cmd, in, out, id)
      [] cmd.type = "list" -> Wiring(cmd.left, in, out, Append(id, 1)) \cup
                              Wiring(cmd.right, in, out, Append(id, 2))
      [] cmd.type = "pipe" ->
            Wiring(cmd.left, in, <<"pipe", id, "write">>, Append(id, 1)) \cup
            Wiring(cmd.right, <<"pipe", id, "read">>, out, Append(id, 2))

\* Commands that are one operator deeper than those of T.
Deeper(T) ==
    T \cup {Pipe(a, b) : a, b \in T} \cup {List(a, b) : a, b \in T} \cup {Back(a) : a \in T}
      \cup {Redir(a, <<"a">>, "read", 0) : a \in T}
      \cup {Redir(a, <<"b">>, m, 1) : a \in T, m \in {"trunc", "append"}}
Commands == Deeper(Deeper({Exec(<<<<"a">>>>), Exec(<<<<"b", "a">>, <<"b">>>>)}))
=============================================================================
