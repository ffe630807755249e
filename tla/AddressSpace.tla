---------------------------- MODULE AddressSpace ----------------------------
(***************************************************************************)
(* What virtual memory promises to user programs: every process has pages  *)
(* of its own, from 0 to its size, that hold what it last put there;       *)
(* memory it grows into is zero; fork() gives the child a copy; exec()     *)
(* gives a process its program, zeroes and a stack; pages that are not     *)
(* writable do not change.  How and when pages are allocated is invisible. *)
(***************************************************************************)
EXTENDS Integers, FiniteSets

CONSTANTS Procs, First, NPG, PGSIZE, Values, Images, Incr

VARIABLES alive, size, mem, ro

vars == <<alive, size, mem, ro>>

Pages == 0..(NPG - 1)
PagesOf(n) == {i \in Pages : i * PGSIZE < n}
Zero == [i \in Pages |-> "zero"]

Init ==
    /\ alive = {First}
    /\ size = [p \in Procs |-> 0] /\ mem = [p \in Procs |-> Zero]
    /\ ro = [p \in Procs |-> {}]

Store(p) ==
    /\ p \in alive
    /\ UNCHANGED <<alive, size, ro>>
    /\ \E S \in SUBSET (PagesOf(size[p]) \ ro[p]) : \E v \in Values :
        mem' = [mem EXCEPT ![p] = [i \in Pages |-> IF i \in S THEN v ELSE @[i]]]

\* sbrk(): what is cut off is gone, what is added is zero.
Sbrk(p) ==
    /\ p \in alive
    /\ \E n \in Incr : size[p] + n >= 0 /\ size' = [size EXCEPT ![p] = @ + n]
    /\ mem' = [mem EXCEPT ![p] = [i \in Pages |->
                    IF i \in PagesOf(size'[p]) THEN @[i] ELSE "zero"]]
    /\ ro' = [ro EXCEPT ![p] = @ \cap PagesOf(size'[p])]
    /\ UNCHANGED alive

Fork(p, q) ==
    /\ p \in alive /\ q \notin alive
    /\ alive' = alive \cup {q}
    /\ size' = [size EXCEPT ![q] = size[p]]
    /\ mem' = [mem EXCEPT ![q] = mem[p]] /\ ro' = [ro EXCEPT ![q] = ro[p]]

\* exec(): the segments of the program, a guard page, and a page of stack.
PGUp(n) == (n + PGSIZE - 1) \div PGSIZE
Top(segs) == PGUp(CHOOSE n \in {s.vaddr + s.memsz : s \in segs} :
                    \A s \in segs : s.vaddr + s.memsz <= n)
Exec(p, segs) ==
    /\ p \in alive
    /\ size' = [size EXCEPT ![p] = (Top(segs) + 2) * PGSIZE]
    /\ mem' = [mem EXCEPT ![p] = [i \in Pages |->
                IF \E s \in segs : i * PGSIZE >= s.vaddr /\ i * PGSIZE < s.vaddr + s.filesz
                THEN "text" ELSE IF i = Top(segs) + 1 THEN "args" ELSE "zero"]]
    /\ ro' = [ro EXCEPT ![p] = {Top(segs)} \cup {i \in Pages : \E s \in segs :
                /\ ~s.write
                /\ i * PGSIZE >= s.vaddr /\ i * PGSIZE < s.vaddr + s.memsz}]
    /\ UNCHANGED alive

Exit(p) ==
    /\ p \in alive
    /\ alive' = alive \ {p}
    /\ size' = [size EXCEPT ![p] = 0]
    /\ mem' = [mem EXCEPT ![p] = Zero] /\ ro' = [ro EXCEPT ![p] = {}]

Next ==
    \E p \in Procs :
        \/ Store(p) \/ Sbrk(p) \/ Exit(p)
        \/ (\E q \in Procs : Fork(p, q)) \/ (\E segs \in Images : Exec(p, segs))

Spec == Init /\ [][Next]_vars
=============================================================================
