------------------------------- MODULE Memory -------------------------------
(***************************************************************************)
(* Physical pages, page tables and address spaces: kernel/kalloc.c,        *)
(* kernel/vm.c, kernel/exec.c and the parts of kernel/proc.c and           *)
(* kernel/sysproc.c that allocate, grow, copy and free memory, with        *)
(* kalloc() failing at every point.                                        *)
(*                                                                         *)
(* Processes compete only for free pages, so a call is one step that may   *)
(* use `left` of them, any number up to what is free.  A virtual address   *)
(* is a page number here, except in sizes, which are bytes.  A page table  *)
(* is its table pages, tab[<<level, prefix>>], and its leaf PTEs.  The     *)
(* content of a page is one value.                                         *)
(***************************************************************************)
EXTENDS Integers, FiniteSets, TLC

CONSTANTS
    Procs, First, None,
    NPAGES,         \* physical pages between end and PHYSTOP
    LEVELS, FANOUT, \* of a page table; MAXVA is FANOUT ^ LEVELS pages
    PGSIZE,
    Values,         \* what programs store
    Images,         \* programs: sets of segments [vaddr, memsz, filesz, write]
    Incr, MaxSize, MaxArgs, MaxCalls
                    \* bounds: arguments of sbrk(), sizes, strings for exec(), calls;
                    \* sizes stay at or below TRAPFRAME, see NoPanic

VARIABLES free, content, st, sz, pt, tf, panicked, twice, calls

vars == <<free, content, st, sz, pt, tf, panicked, twice, calls>>

Phys == 1..NPAGES
MAXVA == FANOUT ^ LEVELS
TRAMPOLINE == MAXVA - 1
TRAPFRAME == MAXVA - 2
PGUp(n) == (n + PGSIZE - 1) \div PGSIZE
Lowest(S) == CHOOSE x \in S : \A y \in S : x <= y
Only(f, S) == [x \in S |-> f[x]]
With(f, x, v) == [y \in DOMAIN f \cup {x} |-> IF y = x THEN v ELSE f[y]]
Nothing == [x \in {} |-> 0]
NoTable == [tab |-> Nothing, leaf |-> Nothing]

\* The machine during a call: the pages, the page table worked on, a result, and
\* what went wrong.  A result of 0 is a failure.
Machine(f, c, k, t) ==
    [free |-> f, content |-> c, left |-> k, pt |-> t, res |-> 1, panic |-> "no",
     twice |-> FALSE]
Fail(m) == [m EXCEPT !.res = 0]
Panic(m, why) == [m EXCEPT !.res = 0, !.panic = why]
\* What follows if m succeeded, and what is undone if it failed.
Then(m, next(_)) == IF m.res = 0 THEN m ELSE next(m)
OrElse(m, undo(_)) == IF m.res # 0 \/ m.panic # "no" THEN m ELSE Fail(undo(m))
-----------------------------------------------------------------------------
(* kalloc(), kfree() *)

Kalloc(m) ==
    IF m.left = 0 \/ m.free = {} THEN Fail(m)
    ELSE LET g == Lowest(m.free) IN
         [m EXCEPT !.free = @ \ {g}, !.content[g] = "junk", !.left = @ - 1, !.res = g]

Kfree(m, S) == [m EXCEPT !.free = @ \cup S, !.twice = @ \/ S \cap m.free # {},
                         !.content = [g \in Phys |-> IF g \in S THEN "junk" ELSE @[g]]]
-----------------------------------------------------------------------------
(* walk(), mappages(), uvmunmap() *)

RECURSIVE WalkFrom(_, _, _)
WalkFrom(m, va, level) ==
    LET child == <<level - 1, va \div FANOUT ^ level>> IN
    IF level = 0 THEN [m EXCEPT !.res = 1]
    ELSE IF child \in DOMAIN m.pt.tab THEN WalkFrom(m, va, level - 1)
    ELSE Then(Kalloc(m), LAMBDA n :
            WalkFrom([n EXCEPT !.content[n.res] = "table",
                               !.pt.tab = With(@, child, n.res)], va, level - 1))
Walk(m, va) ==
    IF va >= MAXVA THEN Panic(m, "walk") ELSE WalkFrom(m, va, LEVELS - 1)

Mappages(m, va, pa, u, w) ==
    Then(Walk(m, va), LAMBDA n :
        IF va \in DOMAIN m.pt.leaf THEN Panic(n, "mappages: remap")
        ELSE [n EXCEPT !.pt.leaf = With(@, va, [pa |-> pa, u |-> u, w |-> w])])

\* Pages that are not mapped are skipped.
Uvmunmap(m, va, n, doFree) ==
    LET gone == DOMAIN m.pt.leaf \cap (va..(va + n - 1))
        k == IF doFree THEN Kfree(m, {m.pt.leaf[a].pa : a \in gone}) ELSE m
    IN IF n > 0 /\ va + n > MAXVA THEN Panic(m, "walk")
       ELSE [k EXCEPT !.pt.leaf = Only(@, DOMAIN @ \ gone)]

Uvmdealloc(m, oldsz, newsz) ==
    IF newsz >= oldsz \/ PGUp(newsz) >= PGUp(oldsz) THEN m
    ELSE Uvmunmap(m, PGUp(newsz), PGUp(oldsz) - PGUp(newsz), TRUE)
-----------------------------------------------------------------------------
(* uvmalloc(), uvmcopy(), uvmfree(), proc_pagetable() *)

ZeroFillNot(m, g) == m  \* mutant: the page keeps its junk
ZeroFill(m, g) == [m EXCEPT !.content[g] = "zero"]

UndoAlloc(m, a, from) == Uvmdealloc(m, a * PGSIZE, from * PGSIZE)
RECURSIVE UvmallocFrom(_, _, _, _, _)
\* Mutant: uvmalloc() forgets the page it could not map.
UvmallocLeak(m, mem, a, from) == UndoAlloc(m, a, from)
UvmallocUndo(m, mem, a, from) == UndoAlloc(Kfree(m, {mem}), a, from)

UvmallocFrom(m, a, from, newsz, w) ==
    IF a * PGSIZE >= newsz THEN [m EXCEPT !.res = 1]
    ELSE Then(OrElse(Kalloc(m), LAMBDA k : UndoAlloc(k, a, from)), LAMBDA k :
            Then(OrElse(Mappages(ZeroFill(k, k.res), a, k.res, TRUE, w),
                        LAMBDA n : UvmallocUndo(n, k.res, a, from)),
                 LAMBDA n : UvmallocFrom(n, a + 1, from, newsz, w)))
Uvmalloc(m, oldsz, newsz, w) ==
    IF newsz < oldsz THEN m ELSE UvmallocFrom(m, PGUp(oldsz), PGUp(oldsz), newsz, w)

RECURSIVE UvmcopyFrom(_, _, _, _)
UvmcopyFrom(m, old, i, size) ==
    IF i * PGSIZE >= size THEN [m EXCEPT !.res = 1]
    ELSE IF i >= MAXVA THEN Panic(m, "walk")
    ELSE IF i \notin DOMAIN old.leaf THEN UvmcopyFrom(m, old, i + 1, size)
    ELSE Then(OrElse(Kalloc(m), LAMBDA k : Uvmunmap(k, 0, i, TRUE)), LAMBDA k :
            Then(OrElse(Mappages([k EXCEPT !.content[k.res] = k.content[old.leaf[i].pa]],
                                 i, k.res, old.leaf[i].u, old.leaf[i].w),
                        LAMBDA n : Uvmunmap(Kfree(n, {k.res}), 0, i, TRUE)),
                 LAMBDA n : UvmcopyFrom(n, old, i + 1, size)))
Uvmcopy(m, old, size) == UvmcopyFrom(m, old, 0, size)

Freewalk(m) ==
    IF DOMAIN m.pt.leaf # {} THEN Panic(m, "freewalk: leaf")
    ELSE [Kfree(m, {m.pt.tab[x] : x \in DOMAIN m.pt.tab}) EXCEPT !.pt = NoTable]
Uvmfree(m, size) == Freewalk(Uvmunmap(m, 0, PGUp(size), TRUE))

ProcPagetable(m, trapframe) ==
    LET root(r) ==
            [r EXCEPT !.content[r.res] = "table",
                      !.pt = [tab |-> (<<LEVELS - 1, 0>> :> r.res), leaf |-> Nothing]]
        trampoline(r) ==
            OrElse(Mappages(root(r), TRAMPOLINE, 0, FALSE, FALSE),
                   LAMBDA a : Uvmfree(a, 0))
    IN Then(Kalloc(m), LAMBDA r : Then(trampoline(r), LAMBDA a :
            OrElse(Mappages(a, TRAPFRAME, trapframe, FALSE, TRUE),
                   LAMBDA b : Uvmfree(Uvmunmap(b, TRAMPOLINE, 1, FALSE), 0))))
ProcFreepagetable(m, size) ==
    Uvmfree(Uvmunmap(Uvmunmap(m, TRAMPOLINE, 1, FALSE), TRAPFRAME, 1, FALSE), size)

Allocproc(m) ==     \* the trapframe's page is m.res
    Then(Kalloc(m), LAMBDA t :
        Then(OrElse(ProcPagetable(t, t.res), LAMBDA n : Kfree(n, {t.res})),
             LAMBDA n : [n EXCEPT !.res = t.res]))
Freeproc(m, trapframe, size) == ProcFreepagetable(Kfree(m, {trapframe}), size)

Init ==
    /\ \E m \in {Allocproc(Machine(Phys, [g \in Phys |-> "junk"], NPAGES, NoTable))} :
        /\ free = m.free /\ content = m.content
        /\ pt = [p \in Procs |-> IF p = First THEN m.pt ELSE NoTable]
        /\ tf = [p \in Procs |-> IF p = First THEN m.res ELSE 0]
    /\ st = [p \in Procs |-> IF p = First THEN "run" ELSE "unused"]
    /\ sz = [p \in Procs |-> 0]
    /\ panicked = "no" /\ twice = FALSE /\ calls = 0

\* The call of a process ends with the machine in state m.
Ends(m) ==
    /\ free' = m.free /\ content' = m.content
    /\ panicked' = m.panic /\ twice' = (twice \/ m.twice)
Running(p) == st[p] = "run" /\ panicked = "no"
Calls(p) == Running(p) /\ calls < MaxCalls /\ calls' = calls + 1
\* How many of the free pages a call that takes up to n of them finds.
Budget(n) == {k \in 0..n : k <= Cardinality(free)}
-----------------------------------------------------------------------------
(* vmfault(), copyout(), copyin(), and loads and stores by the program *)

\* va is a byte address here, size p->sz.
Vmfault(m, va, size) ==
    LET a == va \div PGSIZE IN
    IF va >= size THEN Fail(m)
    ELSE IF a >= MAXVA THEN Panic(m, "walk")
    ELSE IF a \in DOMAIN m.pt.leaf THEN Fail(m)
    ELSE Then(Kalloc(m), LAMBDA k :
            OrElse(Mappages(ZeroFill(k, k.res), a, k.res, TRUE, TRUE),
                   LAMBDA n : Kfree(n, {k.res})))

UserPage(t, a) == a \in DOMAIN t.leaf /\ t.leaf[a].u
Put(m, a, v) == [m EXCEPT !.content[m.pt.leaf[a].pa] = v, !.res = 1]

\* copyout() of v to the pages from a on, or copyin() if v is None.
RECURSIVE Copy(_, _, _, _, _)
Copy(m, a, n, v, size) ==
    IF n = 0 THEN [m EXCEPT !.res = 1]
    ELSE IF v # None /\ a >= MAXVA THEN Fail(m)
    ELSE Then(IF UserPage(m.pt, a) THEN m ELSE Vmfault(m, a * PGSIZE, size), LAMBDA f :
            IF v = None THEN Copy(f, a + 1, n - 1, v, size)
            ELSE IF ~f.pt.leaf[a].w THEN Fail(f)
            ELSE Copy(Put(f, a, v), a + 1, n - 1, v, size))
Copies(p, a, n, v) ==
    /\ Calls(p)
    /\ \E k \in Budget(2 * LEVELS) :
        \E m \in {Copy(Machine(free, content, k, pt[p]), a, n, v, sz[p])} :
            Ends(m) /\ pt' = [pt EXCEPT ![p] = m.pt]
    /\ UNCHANGED <<st, sz, tf>>

\* The program loads (v is None) or stores; usertrap() kills it if that faults and
\* vmfault() does not help.
UserAccess(p, va, v) ==
    /\ Calls(p)
    /\ LET a == va \div PGSIZE
           ok == UserPage(pt[p], a) /\ (v # None => pt[p].leaf[a].w)
       IN \E k \in Budget(IF ok THEN 0 ELSE LEVELS) :
          LET m == Machine(free, content, k, pt[p]) IN
          \E f \in {IF ok THEN m ELSE Vmfault(m, va, sz[p])} :
            /\ f.res = 0 => p # First
            /\ Ends(IF f.res # 0 /\ v # None THEN Put(f, a, v) ELSE f)
            /\ pt' = [pt EXCEPT ![p] = f.pt]
            /\ st' = [st EXCEPT ![p] = IF f.res = 0 THEN "zombie" ELSE @]
    /\ UNCHANGED <<sz, tf>>
-----------------------------------------------------------------------------
(* sbrk(), fork(), exec(), exit() and wait() *)

\* growproc(); a size below 0 wraps around and changes nothing.
SbrkEager(p, n) ==
    /\ Calls(p) /\ sz[p] + n <= MaxSize
    /\ \E k \in Budget(NPAGES) :
        LET m0 == Machine(free, content, k, pt[p]) IN
        \E m \in {IF n > 0 THEN Uvmalloc(m0, sz[p], sz[p] + n, TRUE)
                  ELSE IF sz[p] + n < 0 THEN Fail(m0)
                  ELSE Uvmdealloc(m0, sz[p], sz[p] + n)} :
            /\ Ends(m)
            /\ pt' = [pt EXCEPT ![p] = m.pt]
            /\ sz' = [sz EXCEPT ![p] = IF m.res = 0 THEN @ ELSE @ + n]
    /\ UNCHANGED <<st, tf>>

SbrkLazy(p, n) ==
    /\ Calls(p) /\ n > 0 /\ sz[p] + n <= MaxSize
    /\ sz' = [sz EXCEPT ![p] = @ + n]
    /\ UNCHANGED <<free, content, st, pt, tf, panicked, twice>>

Fork(p, q) ==
    /\ Calls(p) /\ st[q] = "unused"
    /\ \E k \in Budget(NPAGES) :
        \E a \in {Allocproc(Machine(free, content, k, NoTable))} :
        \E m \in {Then(a, LAMBDA n : OrElse(Uvmcopy(n, pt[p], sz[p]),
                                            LAMBDA c : Freeproc(c, a.res, 0)))} :
            /\ Ends(m)
            /\ IF m.res = 0 THEN UNCHANGED <<st, sz, pt, tf>>
               ELSE /\ st' = [st EXCEPT ![q] = "run"]
                    /\ sz' = [sz EXCEPT ![q] = sz[p]]
                    /\ pt' = [pt EXCEPT ![q] = m.pt]
                    /\ tf' = [tf EXCEPT ![q] = a.res]

\* kexec()'s loop over the segments; bad is what goes wrong besides kalloc().
Segment(m, s, size, bad) ==
    LET end == s.vaddr + s.memsz
        file == {a \in 0..MAXVA : a * PGSIZE >= s.vaddr /\ a * PGSIZE < s.vaddr + s.filesz}
        grown == IF end = 0 THEN Fail(m) ELSE Uvmalloc(m, size, end, s.write)
    IN Then(OrElse(grown, LAMBDA n : ProcFreepagetable(n, size)), LAMBDA n :
        IF \E a \in file : ~UserPage(n.pt, a) THEN Panic(n, "loadseg: address should exist")
        ELSE IF bad = "read" THEN Fail(ProcFreepagetable(n, end))
        ELSE [n EXCEPT !.content = [g \in Phys |->
                IF \E a \in file : n.pt.leaf[a].pa = g THEN "text" ELSE @[g]]])
RECURSIVE Segments(_, _, _, _)
Segments(m, segs, size, bad) ==
    IF segs = {} THEN [m EXCEPT !.res = 1]
    ELSE LET s == CHOOSE s \in segs : \A t \in segs : s.vaddr <= t.vaddr IN
         Then(Segment(m, s, size, bad),
              LAMBDA n : Segments(n, segs \ {s}, s.vaddr + s.memsz, bad))

\* The guard page and the stack, with the arguments.
Stack(m, top, bad) ==
    LET guarded(n) == [n EXCEPT !.pt.leaf[top].u = FALSE]
        args(n) == IF bad = "args" THEN Fail(n) ELSE Copy(n, top + 1, 1, "args", 0)
    IN Then(OrElse(Uvmalloc(m, top * PGSIZE, (top + 2) * PGSIZE, TRUE),
                   LAMBDA n : ProcFreepagetable(n, top * PGSIZE)), LAMBDA n :
            OrElse(args(guarded(n)), LAMBDA c : ProcFreepagetable(c, (top + 2) * PGSIZE)))

Top(segs) == PGUp(CHOOSE n \in {s.vaddr + s.memsz : s \in segs} :
                    \A s \in segs : s.vaddr + s.memsz <= n)
NewImage(m, trapframe, segs, bad) ==
    Then(ProcPagetable(m, trapframe), LAMBDA t :
        Then(Segments(t, segs, 0, bad), LAMBDA l : Stack(l, Top(segs), bad)))
\* sys_exec() keeps each argument in a page while kexec() works.
RECURSIVE Strings(_, _, _)
Strings(m, n, S) ==
    IF n = 0 THEN [m EXCEPT !.res = 1]
    ELSE Then(OrElse(Kalloc(m), LAMBDA k : Kfree(k, S)),
              LAMBDA k : Strings(k, n - 1, S \cup {k.res}))
\* A failure other than of kalloc() is tried with all the free pages only: with
\* fewer, kalloc() fails before it, or it happens as it does with all.
Exec(p, segs, args, bad) ==
    /\ Calls(p)
    /\ \E k \in IF bad = "no" THEN Budget(NPAGES) ELSE {NPAGES} :
        \E a \in {Strings(Machine(free, content, k, NoTable), args, {})} :
        \E x \in {Then(a, LAMBDA n : NewImage(n, tf[p], segs, bad))} :
            LET old == ProcFreepagetable([x EXCEPT !.pt = pt[p]], sz[p])
                argv == free \ a.free
            IN IF x.res = 0
               THEN Ends(IF a.res = 0 THEN x ELSE Kfree(x, argv)) /\ UNCHANGED <<sz, pt>>
               ELSE /\ Ends(Kfree(old, argv))
                    /\ pt' = [pt EXCEPT ![p] = x.pt]
                    /\ sz' = [sz EXCEPT ![p] = (Top(segs) + 2) * PGSIZE]
    /\ UNCHANGED <<st, tf>>

Exit(p) ==
    /\ Running(p) /\ p # First
    /\ st' = [st EXCEPT ![p] = "zombie"]
    /\ UNCHANGED <<free, content, sz, pt, tf, panicked, twice, calls>>

Wait(p) ==
    /\ panicked = "no" /\ st[p] = "zombie"
    /\ \E m \in {Freeproc(Machine(free, content, 0, pt[p]), tf[p], sz[p])} : Ends(m)
    /\ UNCHANGED calls
    /\ st' = [st EXCEPT ![p] = "unused"] /\ sz' = [sz EXCEPT ![p] = 0]
    /\ pt' = [pt EXCEPT ![p] = NoTable] /\ tf' = [tf EXCEPT ![p] = 0]

Next ==
    \E p \in Procs :
        \/ \E n \in Incr : SbrkEager(p, n) \/ SbrkLazy(p, n)
        \/ \E va \in 0..(MaxSize - 1), v \in Values \cup {None} : UserAccess(p, va, v)
        \/ \E a \in 0..PGUp(MaxSize), v \in Values \cup {None} : Copies(p, a, 2, v)
        \/ \E q \in Procs : Fork(p, q)
        \/ \E segs \in Images, n \in 0..MaxArgs, bad \in {"no", "read", "args"} :
            Exec(p, segs, n, bad)
        \/ Exit(p) \/ Wait(p)

Spec == Init /\ [][Next]_vars
-----------------------------------------------------------------------------
(* Properties *)

\* Every physical page is free, or a trapframe, or a page-table page, or mapped at
\* one address of one process, and only one of these: whatever call ran out of
\* memory, wherever it did, gave back exactly what it had taken.
PagesOf(p) ==
    {<<p, "tf", 0>>} \cup {<<p, "tab", x>> : x \in DOMAIN pt[p].tab}
    \cup {<<p, "leaf", a>> : a \in DOMAIN pt[p].leaf \ {TRAMPOLINE, TRAPFRAME}}
PageAt(x) == IF x[2] = "tf" THEN tf[x[1]] ELSE IF x[2] = "tab" THEN pt[x[1]].tab[x[3]]
             ELSE pt[x[1]].leaf[x[3]].pa
Roles == UNION {PagesOf(p) : p \in {q \in Procs : st[q] # "unused"}}
PagesOwnedOnce ==
    /\ ~twice
    /\ free \cup {PageAt(x) : x \in Roles} = Phys
    /\ Cardinality(free) + Cardinality(Roles) = NPAGES

\* No panic of mappages(), freewalk() or loadseg() is reached, and none of walk(),
\* by processes whose size has not grown beyond TRAPFRAME.  That is where the claim
\* ends: sys_sbrk() adds to p->sz without a limit when it allocates lazily, and
\* beyond MAXVA the next fork(), exec() or wait() walks to an address that walk()
\* does not accept.
NoPanic == panicked = "no"

\* Page tables, lazy allocation and copying implement private address spaces.
Size(p) == IF st[p] = "run" THEN sz[p] ELSE 0
IsUserPage(p, a) == a \in DOMAIN pt[p].leaf /\ a * PGSIZE < Size(p)
Space == INSTANCE AddressSpace WITH
    NPG <- PGUp(MaxSize),
    alive <- {p \in Procs : st[p] = "run"},
    size <- [p \in Procs |-> Size(p)],
    mem <- [p \in Procs |-> [a \in 0..(PGUp(MaxSize) - 1) |->
                IF IsUserPage(p, a) /\ pt[p].leaf[a].u THEN content[pt[p].leaf[a].pa]
                ELSE "zero"]],
    ro <- [p \in Procs |-> {a \in 0..(PGUp(MaxSize) - 1) :
                IsUserPage(p, a) /\ ~(pt[p].leaf[a].u /\ pt[p].leaf[a].w)}]
ImplementsAddressSpace == Space!Spec
=============================================================================
