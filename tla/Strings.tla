------------------------------- MODULE Strings ------------------------------
(***************************************************************************)
(* The string and number routines that the kernel and user programs share: *)
(* kernel/string.c, user/ulib.c, printint() of the two printf.c, path      *)
(* elements (skipelem() of kernel/fs.c) and grep's matcher, each beside    *)
(* what it is meant to compute.  Memory is a function from addresses; a    *)
(* string is a sequence of characters, with NUL behind its end.            *)
(***************************************************************************)
EXTENDS Integers, Sequences, FiniteSets

CONSTANTS
    Letters, DIRSIZ,
    WIDTH,      \* bits of the numbers that printint() prints, 64 in the code
    INTWIDTH,   \* bits of an int, 32 in the code
    Addresses,  \* of the memory that memmove() works on
    MaxLen      \* bound: of strings, paths, patterns and texts

NUL == "nul"
Char(s, i) == IF i > Len(s) THEN NUL ELSE s[i]
From(s, i) == SubSeq(s, i, Len(s))
Seqs(S) == UNION {[1..n -> S] : n \in 0..MaxLen}
-----------------------------------------------------------------------------
(* memmove() of kernel and library *)

RECURSIVE Up(_, _, _, _), Down(_, _, _, _)
Up(m, d, s, n) == IF n = 0 THEN m ELSE Up([m EXCEPT ![d] = m[s]], d + 1, s + 1, n - 1)
Down(m, d, s, n) ==     \* d and s are behind the next byte
    IF n = 0 THEN m ELSE Down([m EXCEPT ![d - 1] = m[s - 1]], d - 1, s - 1, n - 1)

Memmove(m, d, s, n) == IF s < d /\ s + n > d THEN Down(m, d + n, s + n, n) ELSE Up(m, d, s, n)
UMemmove(m, d, s, n) == IF s > d THEN Up(m, d, s, n) ELSE Down(m, d + n, s + n, n)

\* Both move n bytes as if through a second buffer, however the two overlap.
MemmoveRight ==
    LET m == [a \in Addresses |-> a] IN
    \A d, s \in Addresses : \A n \in 0..Cardinality(Addresses) :
        (d + n - 1 \in Addresses /\ s + n - 1 \in Addresses) =>
            LET moved == [a \in Addresses |-> IF a \in d..(d + n - 1) THEN m[s + a - d] ELSE m[a]]
            IN Memmove(m, d, s, n) = moved /\ UMemmove(m, d, s, n) = moved
-----------------------------------------------------------------------------
(* Directory names: strncpy() in dirlink(), namecmp() in dirlookup(), skipelem() *)

RECURSIVE Zero(_, _, _)
Zero(d, i, n) == IF n = 0 THEN d ELSE Zero([d EXCEPT ![i] = NUL], i + 1, n - 1)
RECURSIVE StrncpyAt(_, _, _, _)
StrncpyAt(d, t, i, n) ==
    IF n = 0 THEN d
    ELSE LET e == [d EXCEPT ![i] = Char(t, i)] IN
         IF Char(t, i) = NUL THEN Zero(e, i + 1, n - 1) ELSE StrncpyAt(e, t, i + 1, n - 1)
Strncpy(d, t, n) == StrncpyAt(d, t, 1, n)

RECURSIVE SameAt(_, _, _, _)    \* strncmp() is 0
SameAt(p, q, i, n) ==
    \/ n = 0
    \/ Char(p, i) = Char(q, i) /\ (Char(p, i) = NUL \/ SameAt(p, q, i + 1, n - 1))
Namecmp(s, t) == SameAt(s, t, 1, DIRSIZ)

RECURSIVE Run(_, _, _)      \* the first position from i on that is (not) a slash
Run(path, i, slash) ==
    IF i <= Len(path) /\ (path[i] = "/") = slash THEN Run(path, i + 1, slash) ELSE i
\* Mutant: a name of DIRSIZ - 1 characters is not terminated.
CopyNameOver(name, s) ==
    [i \in 1..DIRSIZ |-> IF i <= Len(s) THEN s[i]
                         ELSE IF i = Len(s) + 1 /\ Len(s) < DIRSIZ - 1 THEN NUL ELSE name[i]]
CopyName(name, s) ==
    [i \in 1..DIRSIZ |-> IF i <= Len(s) THEN s[i] ELSE IF i = Len(s) + 1 THEN NUL ELSE name[i]]
Skipelem(path, name) ==
    LET start == Run(path, 1, TRUE)
        end == Run(path, start, FALSE)
    IN [none |-> start > Len(path), name |-> CopyName(name, SubSeq(path, start, end - 1)),
        path |-> From(path, Run(path, end, TRUE))]

\* The names namex() looks up in turn, with one buffer for all of them.
RECURSIVE Elements(_, _)
Elements(path, name) ==
    LET e == Skipelem(path, name) IN
    IF e.none THEN <<>> ELSE <<e.name>> \o Elements(e.path, e.name)

\* A path is looked up by its parts between slashes, and every part finds exactly
\* the entries that dirlink() made for a name with the same first DIRSIZ
\* characters, whatever the buffer held before.
PathNames ==
    \A path \in Seqs(Letters \cup {"/"}) :
        LET starts == {i \in 1..Len(path) : path[i] # "/" /\ (i = 1 \/ path[i - 1] = "/")}
            elements == Elements(path, [i \in 1..DIRSIZ |-> "?"])
            part(k) == LET i == CHOOSE i \in starts : Cardinality({j \in starts : j <= i}) = k
                       IN SubSeq(path, i, Run(path, i, FALSE) - 1)
        IN /\ Len(elements) = Cardinality(starts)
           /\ \A k \in 1..Len(elements) : \A entry \in Seqs(Letters) :
                entry # <<>> =>
                    (Namecmp(elements[k], Strncpy([i \in 1..DIRSIZ |-> "?"], entry, DIRSIZ))
                     <=> SubSeq(part(k) \o <<NUL>>, 1, DIRSIZ) = SubSeq(entry \o <<NUL>>, 1, DIRSIZ))
-----------------------------------------------------------------------------
(* printint() and atoi() *)

\* A digit is its value.
Minus == -1
Unsigned(x) == x % 2 ^ WIDTH
RECURSIVE DigitsOf(_, _)
DigitsOf(x, base) == IF x < base THEN <<x>> ELSE DigitsOf(x \div base, base) \o <<x % base>>
Magnitude(xx) == IF xx < 0 THEN Unsigned(-xx) ELSE Unsigned(xx)
Printint(xx, base, sign) ==
    IF sign /\ xx < 0 THEN <<Minus>> \o DigitsOf(Magnitude(xx), base)
    ELSE DigitsOf(Unsigned(xx), base)

\* atoi() adds up in an int, which wraps around.
ToInt(x) == LET u == x % 2 ^ INTWIDTH IN
    IF u < 2 ^ (INTWIDTH - 1) THEN u ELSE u - 2 ^ INTWIDTH
RECURSIVE Atoi(_, _)
Atoi(s, n) ==
    IF s = <<>> \/ s[1] \notin 0..9 THEN n ELSE Atoi(Tail(s), ToInt(n * 10 + s[1]))

\* The number that digits stand for.
ValueOf(s, base) ==
    LET value[i \in 0..Len(s)] == IF i = 0 THEN 0 ELSE value[i - 1] * base + s[i]
    IN value[Len(s)]

\* What printint() prints is the number, also the least one, whose negation does
\* not fit; atoi() reads back the numbers from 0 on that an int can hold.  It has no
\* sign, and nothing is said of the larger numbers, which overflow.
NumbersRight ==
    \A xx \in -(2 ^ (WIDTH - 1))..(2 ^ (WIDTH - 1) - 1) :
        LET s == Printint(xx, 10, TRUE) IN
        /\ IF xx < 0 THEN s[1] = Minus /\ ValueOf(Tail(s), 10) = -xx
           ELSE ValueOf(s, 10) = xx
        /\ xx \in 0..(2 ^ (INTWIDTH - 1) - 1) => Atoi(s, 0) = xx
        /\ ValueOf(Printint(xx, 16, FALSE), 16) = Unsigned(xx)
-----------------------------------------------------------------------------
(* grep's match() *)

RECURSIVE Matchhere(_, _), Matchstar(_, _, _)
Matchhere(re, text) ==
    IF re = <<>> THEN TRUE
    ELSE IF Char(re, 2) = "*" THEN Matchstar(re[1], From(re, 3), text)
    ELSE IF re = <<"$">> THEN text = <<>>
    ELSE text # <<>> /\ re[1] \in {".", text[1]} /\ Matchhere(Tail(re), Tail(text))
Matchstar(c, re, text) ==
    \/ Matchhere(re, text)
    \/ text # <<>> /\ c \in {text[1], "."} /\ Matchstar(c, re, Tail(text))
Match(re, text) ==
    IF Char(re, 1) = "^" THEN Matchhere(Tail(re), text)
    ELSE \E i \in 1..(Len(text) + 1) : Matchhere(re, From(text, i))

\* A pattern as a set of paths: the positions of the text it can have come to.
One(c, text, P) == {p + 1 : p \in {q \in P : q <= Len(text) /\ c \in {".", text[q]}}}
Star(c, text, P) ==
    {q \in 1..(Len(text) + 1) : \E p \in P : p <= q /\ \A i \in p..(q - 1) : c \in {".", text[i]}}
RECURSIVE Reach(_, _, _)
Reach(re, text, P) ==
    IF re = <<>> THEN P
    ELSE IF Char(re, 2) = "*" THEN Reach(From(re, 3), text, Star(re[1], text, P))
    ELSE IF re = <<"$">> THEN P \cap {Len(text) + 1}
    ELSE Reach(Tail(re), text, One(re[1], text, P))

\* match() finds a match exactly if there is one, for all operators and anchors,
\* though it tries the shortest repetition first and backs up.
MatchRight ==
    \A re \in Seqs(Letters \cup {".", "*", "^", "$"}) : \A text \in Seqs(Letters) :
        Match(re, text) <=>
            IF Char(re, 1) = "^" THEN Reach(Tail(re), text, {1}) # {}
            ELSE Reach(re, text, 1..(Len(text) + 1)) # {}
=============================================================================
