------------------------------ MODULE Spinlock ------------------------------
(***************************************************************************)
(* Spinlocks, the interrupt flag and kernel threads that move between      *)
(* CPUs: kernel/spinlock.c, the traps of kernel/trap.c, and scheduler(),   *)
(* sched(), yield() and forkret() of kernel/proc.c.  An interrupt may      *)
(* arrive between any two steps of a CPU that has them enabled, the timer  *)
(* may take the thread away, and another CPU may resume it.                *)
(*                                                                         *)
(* A context (a thread, or a CPU's scheduler) is a stack of frames, the    *)
(* innermost first: what it does, the lock it is about, and the local that *)
(* the code keeps on the stack across the steps (old, intena).             *)
(***************************************************************************)
EXTENDS Integers, Sequences, FiniteSets

CONSTANTS
    CPUs,
    NPROC,      \* threads; lock i is p->lock of thread i
    NDATA,      \* other locks, of system calls and interrupt handlers, in lock order
    None

VARIABLES
    intr,       \* the SIE bit of a CPU
    noff, intena,
    on,         \* the thread on a CPU, 0 in the scheduler: c->proc
    stack,      \* of a context
    lk,         \* the CPU that holds a lock
    runnable,   \* p->state is RUNNABLE, else RUNNING
    found,      \* the scheduler's local
    panicked

vars == <<intr, noff, intena, on, stack, lk, runnable, found, panicked>>

Threads == 1..NPROC
Data == (NPROC + 1)..(NPROC + NDATA)
Locks == Threads \cup Data
Self(c) == IF on[c] = 0 THEN c ELSE on[c]
Top(c) == Head(stack[Self(c)])
Frame(at, l) == [at |-> at, l |-> l, old |-> FALSE]
At(c, place) == panicked = "no" /\ Top(c).at = place

Goto(c, place) == stack' = [stack EXCEPT ![Self(c)][1].at = place]
Call(c, place, frame) ==
    stack' = [stack EXCEPT ![Self(c)] = <<frame, [@[1] EXCEPT !.at = place]>> \o Tail(@)]
Return(c) == stack' = [stack EXCEPT ![Self(c)] = Tail(@)]
Panic(why) == panicked' = why /\ UNCHANGED <<intr, noff, intena, on, stack, lk, runnable, found>>

\* A thread that was never run starts in forkret(), with its lock held.
Init ==
    /\ intr = [c \in CPUs |-> FALSE] /\ noff = [c \in CPUs |-> 0]
    /\ intena = [c \in CPUs |-> FALSE] /\ on = [c \in CPUs |-> 0]
    /\ stack = [x \in Threads \cup CPUs |->
                    IF x \in CPUs THEN <<Frame("intr_on", None)>>
                    ELSE <<Frame("resumed", x), Frame("user", None)>>]
    /\ lk = [l \in Locks |-> None] /\ runnable = Threads
    /\ found = [c \in CPUs |-> FALSE] /\ panicked = "no"
-----------------------------------------------------------------------------
(* acquire() and release() *)

\* push_off() first reads the flag, and may be interrupted and moved before it
\* turns interrupts off.
PushOld(c) ==
    /\ At(c, "acquire")
    /\ stack' = [stack EXCEPT ![Self(c)][1] = [@ EXCEPT !.at = "off", !.old = intr[c]]]
    /\ UNCHANGED <<intr, noff, intena, on, lk, runnable, found, panicked>>

PushOff(c) ==
    /\ At(c, "off")
    /\ intr' = [intr EXCEPT ![c] = FALSE]
    /\ intena' = [intena EXCEPT ![c] = IF noff[c] = 0 THEN Top(c).old ELSE @]
    /\ noff' = [noff EXCEPT ![c] = @ + 1]
    /\ Goto(c, "spin")
    /\ UNCHANGED <<on, lk, runnable, found, panicked>>

Holding(c) == lk[Top(c).l] = c
Acquire(c) ==
    /\ At(c, "spin")
    /\ \/ Holding(c) /\ Panic("acquire")
       \/ /\ lk[Top(c).l] = None
          /\ lk' = [lk EXCEPT ![Top(c).l] = c]
          /\ Goto(c, "held")
          /\ UNCHANGED <<intr, noff, intena, on, runnable, found, panicked>>

\* release() of the lock of the frame, with pop_off().
Released(c) ==
    /\ lk' = [lk EXCEPT ![Top(c).l] = None]
    /\ noff' = [noff EXCEPT ![c] = @ - 1]
    /\ intr' = [intr EXCEPT ![c] = noff[c] = 1 /\ intena[c]]
    /\ UNCHANGED <<intena, on, runnable, found, panicked>>
ReleaseThen(c, then) ==
    IF ~Holding(c) THEN Panic("release")
    ELSE IF intr[c] THEN Panic("pop_off - interruptible")
    ELSE IF noff[c] < 1 THEN Panic("pop_off")
    ELSE Released(c) /\ then
-----------------------------------------------------------------------------
(* System calls: critical sections, one inside another, and yield() *)

\* usertrap() for a system call, up to intr_on(); usertrap() for an interrupt.
Syscall(c) ==
    /\ At(c, "user")
    /\ Call(c, "user", Frame("kernel", None)) /\ intr' = [intr EXCEPT ![c] = TRUE]
    /\ UNCHANGED <<noff, intena, on, lk, runnable, found, panicked>>
PrepareReturn(c) ==
    /\ At(c, "kernel")
    /\ intr' = [intr EXCEPT ![c] = FALSE] /\ Return(c)
    /\ UNCHANGED <<noff, intena, on, lk, runnable, found, panicked>>

Lock(c, l) ==
    /\ l \in Data
    /\ \/ At(c, "kernel") /\ Call(c, "kernel", Frame("acquire", l))
       \/ At(c, "held") /\ Top(c).l \in Data /\ Top(c).l < l /\ Call(c, "held", Frame("acquire", l))
    /\ UNCHANGED <<intr, noff, intena, on, lk, runnable, found, panicked>>
Release(c) == At(c, "held") /\ Top(c).l \in Data /\ ReleaseThen(c, Return(c))

YieldIn(c, place) ==
    /\ Call(c, place, Frame("acquire", on[c]))
    /\ UNCHANGED <<intr, noff, intena, on, lk, runnable, found, panicked>>
Yield(c) == At(c, "kernel") /\ YieldIn(c, "kernel")
-----------------------------------------------------------------------------
(* sched(), and its return on whatever CPU resumes the thread *)

Sched(c) ==
    /\ At(c, "held") /\ on[c] # 0 /\ Top(c).l = on[c]
    /\ IF noff[c] # 1 THEN Panic("sched locks")
       ELSE IF intr[c] THEN Panic("sched interruptible")
       ELSE /\ runnable' = runnable \cup {on[c]}
            /\ stack' = [stack EXCEPT ![on[c]][1] =
                            [@ EXCEPT !.at = "resume", !.old = intena[c]]]
            /\ on' = [on EXCEPT ![c] = 0]
            /\ UNCHANGED <<intr, noff, intena, lk, found, panicked>>

\* Mutant: intena stays that of the CPU.
ResumeCpu(c) ==
    /\ At(c, "resume") /\ Goto(c, "resumed")
    /\ UNCHANGED <<intr, noff, intena, on, lk, runnable, found, panicked>>
Resume(c) ==
    /\ At(c, "resume") /\ Goto(c, "resumed")
    /\ intena' = [intena EXCEPT ![c] = Top(c).old]
    /\ UNCHANGED <<intr, noff, on, lk, runnable, found, panicked>>
\* The end of yield(), and of forkret().
Resumed(c) == At(c, "resumed") /\ ReleaseThen(c, Return(c))
-----------------------------------------------------------------------------
(* scheduler() *)

IntrOn(c) ==
    /\ At(c, "intr_on") /\ Goto(c, "intr_off") /\ intr' = [intr EXCEPT ![c] = TRUE]
    /\ UNCHANGED <<noff, intena, on, lk, runnable, found, panicked>>

Scan(c, i) == IF i > NPROC THEN Frame("scanned", None) ELSE Frame("acquire", i)
IntrOff(c) ==
    /\ At(c, "intr_off") /\ stack' = [stack EXCEPT ![c][1] = Scan(c, 1)]
    /\ intr' = [intr EXCEPT ![c] = FALSE] /\ found' = [found EXCEPT ![c] = FALSE]
    /\ UNCHANGED <<noff, intena, on, lk, runnable, panicked>>

Switch(c) ==
    /\ on[c] = 0 /\ At(c, "held") /\ Top(c).l \in runnable
    /\ Goto(c, "back")
    /\ runnable' = runnable \ {Top(c).l}
    /\ on' = [on EXCEPT ![c] = Top(c).l]
    /\ found' = [found EXCEPT ![c] = TRUE]
    /\ UNCHANGED <<intr, noff, intena, lk, panicked>>
Scanned(c) ==
    /\ on[c] = 0 /\ (At(c, "back") \/ (At(c, "held") /\ Top(c).l \in Threads \ runnable))
    /\ ReleaseThen(c, stack' = [stack EXCEPT ![c][1] = Scan(c, Top(c).l + 1)])

\* wfi returns when an interrupt is pending, enabled or not.
Wfi(c) ==
    /\ At(c, "scanned") /\ Goto(c, IF found[c] THEN "intr_on" ELSE "wfi")
    /\ UNCHANGED <<intr, noff, intena, on, lk, runnable, found, panicked>>
Wake(c) ==
    /\ At(c, "wfi") /\ Goto(c, "intr_on")
    /\ UNCHANGED <<intr, noff, intena, on, lk, runnable, found, panicked>>
-----------------------------------------------------------------------------
(* kerneltrap(), and usertrap() for an interrupt *)

Interrupt(c, which) ==
    /\ intr[c] \/ At(c, "user")
    /\ panicked = "no"
    /\ Call(c, Top(c).at, Frame(which, None)) /\ intr' = [intr EXCEPT ![c] = FALSE]
    /\ UNCHANGED <<noff, intena, on, lk, runnable, found, panicked>>

\* devintr(): a device's handler takes that driver's lock, clockintr() takes
\* tickslock on one CPU.
Devintr(c, l) ==
    /\ At(c, "device") \/ At(c, "timer")
    /\ LET then == IF Top(c).at = "timer" /\ on[c] # 0 THEN "yield" ELSE "trapret" IN
       IF l = None THEN Goto(c, then) ELSE Call(c, then, Frame("acquire", l))
    /\ UNCHANGED <<intr, noff, intena, on, lk, runnable, found, panicked>>
TrapYield(c) == At(c, "yield") /\ YieldIn(c, "trapret")

\* w_sstatus() and sret, or prepare_return().
TrapReturn(c) ==
    /\ At(c, "trapret") /\ Return(c)
    /\ intr' = [intr EXCEPT ![c] = stack[Self(c)][2].at # "user"]
    /\ UNCHANGED <<noff, intena, on, lk, runnable, found, panicked>>

Next ==
    \E c \in CPUs :
        \/ PushOld(c) \/ PushOff(c) \/ Acquire(c) \/ Release(c)
        \/ Syscall(c) \/ PrepareReturn(c) \/ Yield(c)
        \/ Sched(c) \/ Resume(c) \/ Resumed(c)
        \/ IntrOn(c) \/ IntrOff(c) \/ Switch(c) \/ Scanned(c) \/ Wfi(c) \/ Wake(c)
        \/ TrapYield(c) \/ TrapReturn(c)
        \/ \E l \in Data : Lock(c, l)
        \/ \E l \in Data \cup {None} : Devintr(c, l)
        \/ \E which \in {"device", "timer"} : Interrupt(c, which)

Spec == Init /\ [][Next]_vars
-----------------------------------------------------------------------------
(* Properties *)

\* No panic of acquire(), release(), pop_off() or sched() is reached, whatever
\* interrupts and migrations happen between the steps of push_off().
NoLockPanic == panicked = "no"

\* noff counts the locks the CPU holds or spins for, also across swtch(), which
\* hands p->lock over, and interrupts are off while it is not 0.
NoffExact ==
    \A c \in CPUs :
        /\ noff[c] = Cardinality({l \in Locks : lk[l] = c})
                     + (IF Top(c).at = "spin" THEN 1 ELSE 0)
        /\ noff[c] > 0 => ~intr[c]

\* Interrupts are a property of the thread: a system call that holds no lock runs
\* with interrupts on and a trap handler with interrupts off, on whichever CPU
\* sched() returns.
IntrOfThread ==
    \A c \in CPUs :
        /\ Top(c).at = "kernel" => intr[c]
        /\ Top(c).at \in {"device", "timer", "yield", "trapret"} => ~intr[c]

\* A CPU waits in wfi only with interrupts off, so that none is taken between
\* the scan that found nothing and wfi: scheduler()'s comment on that race.
WfiIntrOff == \A c \in CPUs : Top(c).at = "wfi" => ~intr[c]
=============================================================================
