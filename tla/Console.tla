------------------------------- MODULE Console ------------------------------
(***************************************************************************)
(* The console's input of kernel/console.c: consoleintr() puts characters  *)
(* into a circular buffer and edits the last line, processes in            *)
(* consoleread() take them and sleep when there are none.                  *)
(*                                                                         *)
(* cons.lock is held by consoleintr() throughout, and by consoleread()     *)
(* except while it sleeps, so a step is what happens between two sleeps.   *)
(* kill() does not take it, and may come between the test of p->killed     *)
(* and sleep().                                                            *)
(* r, w and e are unsigned and wrap around at WRAP (2^32 in the code).     *)
(***************************************************************************)
EXTENDS Integers, Sequences

CONSTANTS
    Readers,
    Chars,          \* what is stored: letters, "nl" and "eof" (^D)
    Counts,         \* the counts that programs give to read()
    INPUT_BUF_SIZE,
    WRAP

VARIABLES
    buf, r, w, e,   \* cons
    pc,             \* of a reader: "out", "run" (woken, or just called), "sleep"
                    \* (calls sleep(), with cons.lock), "asleep"
    n, target,      \* locals of consoleread()
    got,            \* what the last read() gave to the reader
    killed

vars == <<buf, r, w, e, pc, n, target, got, killed>>

Index(x) == x % INPUT_BUF_SIZE
Minus(x, y) == (x - y + WRAP) % WRAP
Plus(x, y) == (x + y) % WRAP

Unlocked == \A p \in Readers : pc[p] # "sleep"

Init ==
    /\ buf = [i \in 0..(INPUT_BUF_SIZE - 1) |-> "none"]
    /\ r = 0 /\ w = 0 /\ e = 0
    /\ pc = [p \in Readers |-> "out"]
    /\ n = [p \in Readers |-> 0] /\ target = [p \in Readers |-> 0]
    /\ got = [p \in Readers |-> <<>>] /\ killed = {}
-----------------------------------------------------------------------------
(* consoleintr() *)

WakeupReader ==     \* mutant: only a newline wakes, an end of file does not
    IF buf'[Index(e)] = "nl"
    THEN pc' = [p \in Readers |-> IF pc[p] = "asleep" THEN "run" ELSE pc[p]]
    ELSE UNCHANGED pc
Wakeup == pc' = [p \in Readers |-> IF pc[p] = "asleep" THEN "run" ELSE pc[p]]

Commits(c) == c \in {"nl", "eof"} \/ Minus(Plus(e, 1), r) = INPUT_BUF_SIZE
\* Mutant: the test for a full buffer is off by one.
RoomOver == Minus(e, r) <= INPUT_BUF_SIZE
Room == Minus(e, r) < INPUT_BUF_SIZE
Store(c) ==
    /\ Unlocked /\ Room
    /\ buf' = [buf EXCEPT ![Index(e)] = c] /\ e' = Plus(e, 1)
    /\ IF Commits(c) THEN w' = e' /\ Wakeup ELSE UNCHANGED <<w, pc>>
    /\ UNCHANGED <<r, n, target, got, killed>>

Backspace ==
    /\ Unlocked /\ e # w /\ e' = Minus(e, 1)
    /\ UNCHANGED <<buf, r, w, pc, n, target, got, killed>>

\* The line ends where e is w, or behind a newline.
KillLine ==
    LET stop == {k \in 0..Minus(e, w) :
                    k = Minus(e, w) \/ buf[Index(Minus(e, k + 1))] = "nl"}
    IN /\ Unlocked
       /\ e' = Minus(e, CHOOSE k \in stop : \A j \in stop : k <= j)
       /\ UNCHANGED <<buf, r, w, pc, n, target, got, killed>>
-----------------------------------------------------------------------------
(* consoleread() *)

Read(p, k) ==
    /\ pc[p] = "out" /\ p \notin killed
    /\ pc' = [pc EXCEPT ![p] = "run"]
    /\ n' = [n EXCEPT ![p] = k] /\ target' = [target EXCEPT ![p] = k]
    /\ got' = [got EXCEPT ![p] = <<>>]
    /\ UNCHANGED <<buf, r, w, e, killed>>

\* The characters from r on that the loop takes before it sleeps, finds the end of
\* a line or of the file, or has enough.  An end of file that it keeps for the
\* next time is not among them.
Ready == [i \in 1..Minus(w, r) |-> buf[Index(Plus(r, i - 1))]]
Takes(p) ==
    {k \in 0..n[p] :
        /\ k <= Len(Ready)
        /\ \A i \in 1..(k - 1) : Ready[i] \notin {"nl", "eof"}
        /\ k > 0 /\ Ready[k] = "eof" => k = 1 /\ n[p] = target[p]}
Loop(p) ==
    LET most == CHOOSE k \in Takes(p) : \A j \in Takes(p) : j <= k
        chars == SelectSeq(SubSeq(Ready, 1, most), LAMBDA c : c # "eof")
        eof == most < n[p] /\ most < Len(Ready) /\ Ready[most + 1] = "eof"
        ends == most > 0 /\ Ready[most] \in {"nl", "eof"}
    IN /\ pc[p] = "run" /\ Unlocked
       /\ r' = Plus(r, most)
       /\ got' = [got EXCEPT ![p] = @ \o chars]
       /\ n' = [n EXCEPT ![p] = @ - most]
       /\ IF ends \/ eof \/ most = n[p] THEN pc' = [pc EXCEPT ![p] = "out"]
          ELSE pc' = [pc EXCEPT ![p] = IF p \in killed THEN "out" ELSE "sleep"]
       /\ UNCHANGED <<buf, w, e, target, killed>>

Sleep(p) ==
    /\ pc[p] = "sleep" /\ pc' = [pc EXCEPT ![p] = "asleep"]
    /\ UNCHANGED <<buf, r, w, e, n, target, got, killed>>

\* either_copyout() fails for the k-th character, which is lost.
LoopFails(p) ==
    /\ pc[p] = "run" /\ Unlocked
    /\ \E k \in Takes(p) :
        /\ k > 0 /\ Ready[k] # "eof"
        /\ r' = Plus(r, k)
        /\ got' = [got EXCEPT ![p] = @ \o SubSeq(Ready, 1, k - 1)]
        /\ n' = [n EXCEPT ![p] = @ - (k - 1)]
    /\ pc' = [pc EXCEPT ![p] = "out"]
    /\ UNCHANGED <<buf, w, e, target, killed>>

\* kill() of a process marks it and, if it sleeps, wakes it.
Kill(p) ==
    /\ killed' = killed \cup {p}
    /\ pc' = [pc EXCEPT ![p] = IF @ = "asleep" THEN "run" ELSE @]
    /\ UNCHANGED <<buf, r, w, e, n, target, got>>

Next ==
    \/ (\E c \in Chars : Store(c)) \/ Backspace \/ KillLine
    \/ \E p \in Readers :
        \/ \E k \in Counts : Read(p, k)
        \/ Loop(p) \/ Sleep(p) \/ LoopFails(p) \/ Kill(p)

Spec == Init /\ [][Next]_vars
-----------------------------------------------------------------------------
(* Properties *)

\* The circular buffer, its three wrapping indexes and readers that sleep in the
\* middle of a read implement line input: nothing that was committed is lost,
\* reordered, read twice or overwritten, and an end of file behind other
\* characters is kept for a read of its own.
Lines == INSTANCE LineInput WITH
    Capacity <- INPUT_BUF_SIZE, committed <- Ready,
    line <- [i \in 1..Minus(e, w) |-> buf[Index(Plus(w, i - 1))]]
ImplementsLineInput == Lines!Spec

\* No reader sleeps beside input it could take: between consoleread()'s test of
\* r == w and its sleep() there is no room for a wakeup to be missed.  (A kill() can
\* be missed there; the killed reader then sleeps until a line is typed.)
NoReaderLeft == \A p \in Readers : pc[p] = "asleep" => r = w
=============================================================================
