-------------------------------- MODULE Proc --------------------------------
(***************************************************************************)
(* The process table of kernel/proc.c on several CPUs: fork, exit, wait,   *)
(* kill, sleep, wakeup, yield and the per-CPU scheduler, with wait_lock,   *)
(* every p->lock, and the hand-over of p->lock across swtch().             *)
(*                                                                         *)
(* A critical section that takes a single spinlock is one step, enabled    *)
(* when the lock is free; where a second lock is taken inside the first,   *)
(* acquiring and releasing are steps of their own.  A spinlock belongs to  *)
(* a CPU.  While a CPU holds one, interrupts are off, so a process can be  *)
(* preempted only where it holds none.  Memory, files and the current      *)
(* directory are not modelled here; allocation in fork may fail.           *)
(***************************************************************************)
EXTENDS Integers, FiniteSets

CONSTANTS
    NPROC,      \* slots in the process table; slot 1 is the first process
    CPUs,       \* harts
    None,       \* a free lock
    KillZero    \* whether programs call kill(0)

ASSUME NPROCAssumption == NPROC \in Nat \ {0}
ASSUME CPUsAssumption == None \notin CPUs
ASSUME KillZeroAssumption == KillZero \in BOOLEAN

Slots == 1..NPROC
initproc == 1

VARIABLES
    state,      \* p->state
    parent,     \* p->parent, 0 if none
    killed,     \* p->killed
    chan,       \* p->chan, a process slot or 0; wait() sleeps on the process
    plock,      \* the CPU that holds p->lock
    wait_lock,  \* the CPU that holds wait_lock
    cproc,      \* c->proc, 0 if none
    on,         \* what a CPU executes: the scheduler's loop, its process, or
                \* the scheduler just after the process switched back to it
    pc,         \* where a process is in the kernel, or "user"
    i,          \* its loop index over the table; in fork the new slot
    j,          \* its loop index in wakeup
    havekids    \* its local of that name in wait

lockVars == <<plock, wait_lock>>
cpuVars == <<cproc, on>>
vars == <<state, parent, killed, chan, plock, wait_lock, cproc, on, pc, i, j,
          havekids>>

States == {"UNUSED", "USED", "SLEEPING", "RUNNABLE", "RUNNING", "ZOMBIE"}
Unlocked == {"user", "fork", "forkparent", "forkrun", "wait", "exit", "ret"}
Places == Unlocked \cup
          {"forkret", "wscan", "wcheck", "wsleep", "wsched", "wslept",
           "reparent", "rwake", "pwake", "elock", "ezombie"}

Goto(p, place) == pc' = [pc EXCEPT ![p] = place]
Index(p, n) == i' = [i EXCEPT ![p] = n]

\* p runs on c.  A process that was just switched to still holds its p->lock
\* and releases it first (Resume).
Resuming(c) == plock[cproc[c]] = c /\ pc[cproc[c]] \notin {"wsched", "ezombie"}
Runs(c, p) == on[c] = "proc" /\ cproc[c] = p /\ ~Resuming(c)
At(c, p, place) == Runs(c, p) /\ pc[p] = place

\* freeproc(q) by p, which returns from the system call.
FreeProc(q) ==
    /\ state' = [state EXCEPT ![q] = "UNUSED"]
    /\ parent' = [parent EXCEPT ![q] = 0]
    /\ killed' = [killed EXCEPT ![q] = FALSE]
    /\ chan' = [chan EXCEPT ![q] = 0]

\* swtch() from p to the scheduler of c, in sched().
ToScheduler(c) == on' = [on EXCEPT ![c] = "switched"]

\* userinit(): the first process is runnable, every CPU is in scheduler().
Init ==
    /\ state = [p \in Slots |-> IF p = initproc THEN "RUNNABLE" ELSE "UNUSED"]
    /\ parent = [p \in Slots |-> 0]
    /\ killed = [p \in Slots |-> FALSE]
    /\ chan = [p \in Slots |-> 0]
    /\ plock = [p \in Slots |-> None]
    /\ wait_lock = None
    /\ cproc = [c \in CPUs |-> 0]
    /\ on = [c \in CPUs |-> "loop"]
    /\ pc = [p \in Slots |-> "forkret"]
    /\ i = [p \in Slots |-> 1]
    /\ j = [p \in Slots |-> 1]
    /\ havekids = [p \in Slots |-> FALSE]
-----------------------------------------------------------------------------
(* scheduler() and the switches *)

\* scheduler()'s loop takes p->lock, finds p RUNNABLE, and switches to it
\* with the lock held.  The order of the loop is left open.
Dispatch(c, p) ==
    /\ on[c] = "loop"
    /\ plock[p] = None
    /\ state[p] = "RUNNABLE"
    /\ plock' = [plock EXCEPT ![p] = c]
    /\ state' = [state EXCEPT ![p] = "RUNNING"]
    /\ cproc' = [cproc EXCEPT ![c] = p]
    /\ on' = [on EXCEPT ![c] = "proc"]
    /\ UNCHANGED <<parent, killed, chan, wait_lock, pc, i, j, havekids>>

\* The process switched back: c->proc = 0 and p->lock is released.
SwitchedBack(c) ==
    /\ on[c] = "switched"
    /\ cproc' = [cproc EXCEPT ![c] = 0]
    /\ plock' = [plock EXCEPT ![cproc[c]] = None]
    /\ on' = [on EXCEPT ![c] = "loop"]
    /\ UNCHANGED <<state, parent, killed, chan, wait_lock, pc, i, j, havekids>>

\* The process continues after swtch(): forkret, yield and sleep release
\* p->lock; sleep clears p->chan and goes on to reacquire wait_lock.
Resume(c) ==
    /\ on[c] = "proc"
    /\ Resuming(c)
    /\ LET p == cproc[c] IN
        /\ plock' = [plock EXCEPT ![p] = None]
        /\ chan' = [chan EXCEPT ![p] = IF pc[p] = "wslept" THEN 0 ELSE @]
        /\ Goto(p, IF pc[p] = "wslept" THEN "wait"
                   ELSE IF pc[p] = "forkret" THEN "user" ELSE pc[p])
    /\ UNCHANGED <<state, parent, killed, wait_lock, cpuVars, i, j, havekids>>

\* Mutant: yield() does not take p->lock.
YieldUnlocked(c, p) ==
    /\ Runs(c, p)
    /\ pc[p] \in Unlocked
    /\ plock[p] = None
    /\ state' = [state EXCEPT ![p] = "RUNNABLE"]
    /\ ToScheduler(c)
    /\ UNCHANGED <<parent, killed, chan, lockVars, cproc, pc, i, j, havekids>>

\* yield(), on a timer interrupt in user mode or in the kernel.
Yield(c, p) ==
    /\ Runs(c, p)
    /\ pc[p] \in Unlocked
    /\ plock[p] = None
    /\ plock' = [plock EXCEPT ![p] = c]
    /\ state' = [state EXCEPT ![p] = "RUNNABLE"]
    /\ ToScheduler(c)
    /\ UNCHANGED <<parent, killed, chan, wait_lock, cproc, pc, i, j, havekids>>
-----------------------------------------------------------------------------
(* System calls, from usertrap() *)

\* A trap into the kernel: a killed process exits, any other makes one of the
\* calls.  The first process never exits.
Trap(c, p) ==
    /\ At(c, p, "user")
    /\ plock[p] = None
    /\ \E call \in {"fork", "wait", "exit"} :
        /\ killed[p] => call = "exit"
        /\ p = initproc => call # "exit"
        /\ Goto(p, call)
    /\ Index(p, 1)
    /\ UNCHANGED <<state, parent, killed, chan, lockVars, cpuVars, j, havekids>>

\* The end of usertrap(): a process that was killed meanwhile exits.
Return(c, p) ==
    /\ At(c, p, "ret")
    /\ plock[p] = None
    /\ Goto(p, IF killed[p] THEN "exit" ELSE "user")
    /\ UNCHANGED <<state, parent, killed, chan, lockVars, cpuVars, i, j, havekids>>

\* kkill(pid), for the process in slot q.  A free slot has pid 0.  The first
\* process is not killed: init.c would make it exit, and the kernel panic.
Kill(c, p, q) ==
    /\ At(c, p, "user")
    /\ plock[p] = None /\ ~killed[p]
    /\ plock[q] = None
    /\ q # initproc
    /\ state[q] # "UNUSED" \/ KillZero
    /\ killed' = [killed EXCEPT ![q] = TRUE]
    /\ state' = [state EXCEPT ![q] = IF @ = "SLEEPING" THEN "RUNNABLE" ELSE @]
    /\ Goto(p, "ret")
    /\ UNCHANGED <<parent, chan, lockVars, cpuVars, i, j, havekids>>
-----------------------------------------------------------------------------
(* kfork() *)

\* allocproc() looks at slot i: in use, go on; past the end, fail.
ForkScan(c, p) ==
    /\ At(c, p, "fork")
    /\ i[p] <= NPROC => plock[i[p]] = None /\ state[i[p]] # "UNUSED"
    /\ IF i[p] > NPROC
       THEN Index(p, 1) /\ Goto(p, "ret")
       ELSE Index(p, i[p] + 1) /\ UNCHANGED pc
    /\ UNCHANGED <<state, parent, killed, chan, lockVars, cpuVars, j, havekids>>

\* It is free: allocate it, copy the parent's memory, files and directory,
\* and let go of its lock ...
ForkAlloc(c, p) ==
    /\ At(c, p, "fork")
    /\ i[p] <= NPROC
    /\ plock[i[p]] = None
    /\ state[i[p]] = "UNUSED"
    /\ state' = [state EXCEPT ![i[p]] = "USED"]
    /\ pc' = [pc EXCEPT ![p] = "forkparent", ![i[p]] = "forkret"]
    /\ UNCHANGED <<parent, killed, chan, lockVars, cpuVars, i, j, havekids>>

\* ... unless memory runs out: freeproc() undoes the allocation.
ForkFail(c, p) ==
    /\ At(c, p, "fork")
    /\ i[p] <= NPROC
    /\ plock[i[p]] = None
    /\ state[i[p]] = "UNUSED"
    /\ FreeProc(i[p])
    /\ Goto(p, "ret")
    /\ Index(p, 1)
    /\ UNCHANGED <<lockVars, cpuVars, j, havekids>>

ForkParent(c, p) ==
    /\ At(c, p, "forkparent")
    /\ wait_lock = None
    /\ parent' = [parent EXCEPT ![i[p]] = p]
    /\ Goto(p, "forkrun")
    /\ UNCHANGED <<state, killed, chan, lockVars, cpuVars, i, j, havekids>>

ForkRun(c, p) ==
    /\ At(c, p, "forkrun")
    /\ plock[i[p]] = None
    /\ state' = [state EXCEPT ![i[p]] = "RUNNABLE"]
    /\ Goto(p, "ret")
    /\ Index(p, 1)
    /\ UNCHANGED <<parent, killed, chan, lockVars, cpuVars, j, havekids>>
-----------------------------------------------------------------------------
(* kexit() *)

Exit(c, p) ==
    /\ At(c, p, "exit")
    /\ wait_lock = None
    /\ wait_lock' = c
    /\ Goto(p, "reparent")
    /\ Index(p, 1)
    /\ UNCHANGED <<state, parent, killed, chan, plock, cpuVars, j, havekids>>

\* Mutant: exit() keeps its children.
ReparentNobody(c, p) ==
    /\ At(c, p, "reparent")
    /\ j' = [j EXCEPT ![p] = 1]
    /\ IF i[p] > NPROC
       THEN Goto(p, "pwake") /\ Index(p, 1) /\ UNCHANGED parent
       ELSE Index(p, i[p] + 1) /\ UNCHANGED <<parent, pc>>
    /\ UNCHANGED <<state, killed, chan, lockVars, cpuVars, havekids>>

\* reparent(): pass a child to the first process and wake that one up.
Reparent(c, p) ==
    /\ At(c, p, "reparent")
    /\ j' = [j EXCEPT ![p] = 1]
    /\ IF i[p] > NPROC
       THEN Goto(p, "pwake") /\ Index(p, 1) /\ UNCHANGED parent
       ELSE IF parent[i[p]] = p
       THEN /\ parent' = [parent EXCEPT ![i[p]] = initproc]
            /\ Goto(p, "rwake")
            /\ UNCHANGED i
       ELSE Index(p, i[p] + 1) /\ UNCHANGED <<parent, pc>>
    /\ UNCHANGED <<state, killed, chan, lockVars, cpuVars, havekids>>

\* wakeup(ch) by p looks at slot j[p].
WakeupOne(p, ch) ==
    /\ j[p] <= NPROC
    /\ j[p] # p => plock[j[p]] = None
    /\ state' = [state EXCEPT ![j[p]] =
                    IF j[p] # p /\ @ = "SLEEPING" /\ chan[j[p]] = ch
                    THEN "RUNNABLE" ELSE @]
    /\ j' = [j EXCEPT ![p] = @ + 1]
    /\ UNCHANGED <<parent, killed, chan, lockVars, cpuVars, pc, i, havekids>>

WakeInit(c, p) ==
    /\ At(c, p, "rwake")
    /\ \/ WakeupOne(p, initproc)
       \/ /\ j[p] > NPROC
          /\ j' = [j EXCEPT ![p] = 1]
          /\ Index(p, i[p] + 1)
          /\ Goto(p, "reparent")
          /\ UNCHANGED <<state, parent, killed, chan, lockVars, cpuVars, havekids>>

\* Mutant: exit() does not wake the parent.
WakeNoParent(c, p) ==
    /\ At(c, p, "pwake")
    /\ Goto(p, "elock")
    /\ UNCHANGED <<state, parent, killed, chan, lockVars, cpuVars, i, j, havekids>>

WakeParent(c, p) ==
    /\ At(c, p, "pwake")
    /\ \/ WakeupOne(p, parent[p])
       \/ /\ j[p] > NPROC
          /\ j' = [j EXCEPT ![p] = 1]
          /\ Goto(p, "elock")
          /\ UNCHANGED <<state, parent, killed, chan, lockVars, cpuVars, i, havekids>>

ExitLock(c, p) ==
    /\ At(c, p, "elock")
    /\ plock[p] = None
    /\ plock' = [plock EXCEPT ![p] = c]
    /\ Goto(p, "ezombie")
    /\ UNCHANGED <<state, parent, killed, chan, wait_lock, cpuVars, i, j, havekids>>

ExitZombie(c, p) ==
    /\ At(c, p, "ezombie")
    /\ state' = [state EXCEPT ![p] = "ZOMBIE"]
    /\ wait_lock' = None
    /\ ToScheduler(c)
    /\ UNCHANGED <<parent, killed, chan, plock, cproc, pc, i, j, havekids>>
-----------------------------------------------------------------------------
(* kwait() *)

Wait(c, p) ==
    /\ At(c, p, "wait")
    /\ wait_lock = None
    /\ wait_lock' = c
    /\ havekids' = [havekids EXCEPT ![p] = FALSE]
    /\ Index(p, 1)
    /\ Goto(p, "wscan")
    /\ UNCHANGED <<state, parent, killed, chan, plock, cpuVars, j>>

\* Slot i is not a child of p, or a child that is not a zombie.
WaitScan(c, p) ==
    /\ At(c, p, "wscan")
    /\ IF i[p] > NPROC
       THEN Goto(p, "wcheck") /\ Index(p, 1) /\ UNCHANGED havekids
       ELSE /\ parent[i[p]] = p => plock[i[p]] = None /\ state[i[p]] # "ZOMBIE"
            /\ havekids' = [havekids EXCEPT ![p] = @ \/ parent[i[p]] = p]
            /\ Index(p, i[p] + 1)
            /\ UNCHANGED pc
    /\ UNCHANGED <<state, parent, killed, chan, lockVars, cpuVars, j>>

\* Mutant: wait() does not take the child's lock.
WaitReapUnlocked(c, p) ==
    /\ At(c, p, "wscan")
    /\ i[p] <= NPROC
    /\ parent[i[p]] = p
    /\ state[i[p]] = "ZOMBIE"
    /\ FreeProc(i[p])
    /\ wait_lock' = None
    /\ Goto(p, "ret")
    /\ Index(p, 1)
    /\ havekids' = [havekids EXCEPT ![p] = FALSE]
    /\ UNCHANGED <<plock, cpuVars, j>>

\* A zombie child, and nobody holds its lock: it is not on any CPU any more.
WaitReap(c, p) ==
    /\ At(c, p, "wscan")
    /\ i[p] <= NPROC
    /\ parent[i[p]] = p
    /\ plock[i[p]] = None
    /\ state[i[p]] = "ZOMBIE"
    /\ FreeProc(i[p])
    /\ wait_lock' = None
    /\ Goto(p, "ret")
    /\ Index(p, 1)
    /\ havekids' = [havekids EXCEPT ![p] = FALSE]
    /\ UNCHANGED <<plock, cpuVars, j>>

\* The exit status cannot be copied out: wait fails, the zombie stays.  The
\* first process asks for no status.
WaitCopyoutFail(c, p) ==
    /\ At(c, p, "wscan")
    /\ p # initproc
    /\ i[p] <= NPROC
    /\ parent[i[p]] = p
    /\ plock[i[p]] = None
    /\ state[i[p]] = "ZOMBIE"
    /\ wait_lock' = None
    /\ Goto(p, "ret")
    /\ Index(p, 1)
    /\ havekids' = [havekids EXCEPT ![p] = FALSE]
    /\ UNCHANGED <<state, parent, killed, chan, plock, cpuVars, j>>

\* No zombie found: give up without children or when killed, else sleep.
WaitCheck(c, p) ==
    /\ At(c, p, "wcheck")
    /\ plock[p] = None
    /\ IF ~havekids[p] \/ killed[p]
       THEN wait_lock' = None /\ Goto(p, "ret")
       ELSE UNCHANGED wait_lock /\ Goto(p, "wsleep")
    /\ havekids' = [havekids EXCEPT ![p] = FALSE]
    /\ UNCHANGED <<state, parent, killed, chan, plock, cpuVars, i, j>>

\* Mutant: sleep() releases the condition lock without taking p->lock.
SleepReleasesFirst(c, p) ==
    /\ At(c, p, "wsleep")
    /\ plock[p] = None
    /\ wait_lock' = None
    /\ Goto(p, "wsched")
    /\ UNCHANGED <<state, parent, killed, chan, plock, cpuVars, i, j, havekids>>

\* sleep(p, &wait_lock): take p->lock, only then release wait_lock ...
SleepLock(c, p) ==
    /\ At(c, p, "wsleep")
    /\ plock[p] = None
    /\ plock' = [plock EXCEPT ![p] = c]
    /\ Goto(p, "wsched")
    /\ UNCHANGED <<state, parent, killed, chan, wait_lock, cpuVars, i, j, havekids>>

SleepSched(c, p) ==
    /\ At(c, p, "wsched")
    /\ wait_lock' = None
    /\ chan' = [chan EXCEPT ![p] = p]
    /\ state' = [state EXCEPT ![p] = "SLEEPING"]
    /\ ToScheduler(c)
    /\ Goto(p, "wslept")
    /\ UNCHANGED <<parent, killed, plock, cproc, i, j, havekids>>
-----------------------------------------------------------------------------
Kernel(c, p) ==
    \/ Return(c, p)
    \/ ForkScan(c, p) \/ ForkAlloc(c, p) \/ ForkFail(c, p)
    \/ ForkParent(c, p) \/ ForkRun(c, p)
    \/ Exit(c, p) \/ Reparent(c, p) \/ WakeInit(c, p) \/ WakeParent(c, p)
    \/ ExitLock(c, p) \/ ExitZombie(c, p)
    \/ Wait(c, p) \/ WaitScan(c, p) \/ WaitReap(c, p)
    \/ WaitCopyoutFail(c, p) \/ WaitCheck(c, p)
    \/ SleepLock(c, p) \/ SleepSched(c, p)

Switch(c) == SwitchedBack(c) \/ Resume(c)

Next ==
    \E c \in CPUs :
        \/ Switch(c)
        \/ \E p \in Slots :
            \/ Dispatch(c, p)
            \/ Kernel(c, p) \/ Yield(c, p) \/ Trap(c, p)
            \/ \E q \in Slots : Kill(c, p, q)

Spec == Init /\ [][Next]_vars
-----------------------------------------------------------------------------
OnCpu(p) == \E c \in CPUs : cproc[c] = p

\* The process table's types.
TypeOK ==
    /\ state \in [Slots -> States]
    /\ parent \in [Slots -> 0..NPROC]
    /\ killed \in [Slots -> BOOLEAN]
    /\ chan \in [Slots -> 0..NPROC]
    /\ plock \in [Slots -> CPUs \cup {None}]
    /\ wait_lock \in CPUs \cup {None}
    /\ cproc \in [CPUs -> 0..NPROC]
    /\ on \in [CPUs -> {"loop", "proc", "switched"}]
    /\ pc \in [Slots -> Places]
    /\ i \in [Slots -> 1..NPROC + 1]
    /\ j \in [Slots -> 1..NPROC + 1]
    /\ havekids \in [Slots -> BOOLEAN]

\* Every variable has its type; a process runs on one CPU at a time, and when its lock is free its state
\* says so: RUNNING exactly if it is some CPU's current process
\* (proc.c:440-453 and sched() hand p->lock across the switch for this).  sched()
\* is called with p->lock held and no other spinlock (noff == 1), so a lock never
\* stays with a CPU whose process has switched away.
OneCpuEach ==
    /\ TypeOK
    /\ \A c, d \in CPUs : cproc[c] = cproc[d] /\ cproc[c] # 0 => c = d
    /\ \A p \in Slots : plock[p] = None => (state[p] = "RUNNING" <=> OnCpu(p))
    /\ \A c \in CPUs : on[c] = "switched" =>
        /\ plock[cproc[c]] = c
        /\ wait_lock # c
        /\ \A p \in Slots \ {cproc[c]} : plock[p] # c

\* A slot is freed, and its kernel stack handed to a new process, only after
\* the old one has left it: wait() makes "sure the child isn't still in exit()
\* or swtch()" (proc.c:381).
FreedOffCpu == \A p \in Slots : state[p] \in {"UNUSED", "USED"} => ~OnCpu(p)

\* The process tree: a parent pointer always leads to a process that can still
\* call wait(), never to a zombie, a free slot or a slot that was reused; a
\* process that has run has a parent; a free slot has none (reparent() and
\* kfork() under wait_lock).
ParentsLive ==
    \A p \in Slots :
        /\ parent[p] # 0 => state[parent[p]] \in {"SLEEPING", "RUNNABLE", "RUNNING"}
        /\ state[p] = "UNUSED" => parent[p] = 0
        /\ state[p] \notin {"UNUSED", "USED"} /\ p # initproc => parent[p] # 0

\* No lost wakeup: nobody sleeps in wait() next to a zombie child, once the
\* locks that protect the hand-over are free (sleep() "won't miss any wakeup",
\* proc.c:544-549).
NoLostWakeup ==
    \A p, q \in Slots :
        /\ wait_lock = None /\ plock[p] = None
        /\ state[p] = "SLEEPING"
        /\ parent[q] = p
        => state[q] # "ZOMBIE"

\* Nobody is born killed: a free slot carries no kill of an earlier process
\* (freeproc() clears p->killed; kkill() names a process by its pid).
FreeNotKilled == \A p \in Slots : state[p] = "UNUSED" => ~killed[p]
=============================================================================
