------------------------------ MODULE Sleeplock -----------------------------
(***************************************************************************)
(* Sleep locks (kernel/sleeplock.c) on sleep() and wakeup() of             *)
(* kernel/proc.c: acquiresleep() and releasesleep() with every spinlock    *)
(* they take, wakeup()'s walk over the process table, and kill(), which    *)
(* wakes a sleeper for no reason.  Each process locks Rounds times.        *)
(***************************************************************************)
EXTENDS Integers

CONSTANTS NPROC, Rounds, MaxKills

VARIABLES
    lk,         \* the holder of lk->lk, 0 if none
    plock,      \* the holder of p->lock
    locked, pid,
    asleep,     \* the processes that are SLEEPING on the lock
    pc, i,      \* i: wakeup()'s index
    rounds, kills

vars == <<lk, plock, locked, pid, asleep, pc, i, rounds, kills>>

Procs == 1..NPROC
Goto(p, place) == pc' = [pc EXCEPT ![p] = place]

Init ==
    /\ lk = 0 /\ plock = [p \in Procs |-> 0]
    /\ locked = FALSE /\ pid = 0 /\ asleep = {}
    /\ pc = [p \in Procs |-> "acquiresleep"] /\ i = [p \in Procs |-> 1]
    /\ rounds = [p \in Procs |-> 0] /\ kills = 0

Acquire(p) ==
    /\ pc[p] \in {"acquiresleep", "critical"} /\ lk = 0
    /\ lk' = p /\ Goto(p, IF pc[p] = "acquiresleep" THEN "test" ELSE "release")
    /\ UNCHANGED <<plock, locked, pid, asleep, i, rounds, kills>>

\* while(lk->locked) sleep(lk, &lk->lk)
Test(p) ==
    /\ pc[p] = "test"
    /\ IF locked THEN Goto(p, "sleep") /\ UNCHANGED <<lk, locked, pid>>
       ELSE locked' = TRUE /\ pid' = p /\ lk' = 0 /\ Goto(p, "critical")
    /\ UNCHANGED <<plock, asleep, i, rounds, kills>>

\* Mutant: sleep() gives up lk before it has p->lock.
SleepLockLate(p) ==
    /\ pc[p] = "sleep" /\ lk' = 0 /\ Goto(p, "sched")
    /\ UNCHANGED <<plock, locked, pid, asleep, i, rounds, kills>>
SleepLock(p) ==
    /\ pc[p] = "sleep" /\ plock[p] = 0
    /\ plock' = [plock EXCEPT ![p] = p] /\ Goto(p, "unlock")
    /\ UNCHANGED <<lk, locked, pid, asleep, i, rounds, kills>>
SleepUnlock(p) ==
    /\ pc[p] = "unlock" /\ lk' = 0 /\ Goto(p, "sched")
    /\ UNCHANGED <<plock, locked, pid, asleep, i, rounds, kills>>
Sched(p) ==     \* the scheduler releases p->lock
    /\ pc[p] = "sched"
    /\ asleep' = asleep \cup {p} /\ plock' = [plock EXCEPT ![p] = 0] /\ Goto(p, "asleep")
    /\ UNCHANGED <<lk, locked, pid, i, rounds, kills>>
\* Mutant: the sleeper takes the lock without testing it again.
ResumeTakes(p) ==
    /\ pc[p] = "asleep" /\ p \notin asleep /\ plock[p] = 0 /\ lk = 0
    /\ locked' = TRUE /\ pid' = p /\ Goto(p, "critical")
    /\ UNCHANGED <<lk, plock, asleep, i, rounds, kills>>
Resume(p) ==    \* the scheduler takes it again, and sleep() releases it
    /\ pc[p] = "asleep" /\ p \notin asleep /\ plock[p] = 0 /\ Goto(p, "acquiresleep")
    /\ UNCHANGED <<lk, plock, locked, pid, asleep, i, rounds, kills>>

\* releasesleep(), with lk->lk held
Release(p) ==
    /\ pc[p] = "release"
    /\ locked' = FALSE /\ pid' = 0
    /\ i' = [i EXCEPT ![p] = 1] /\ Goto(p, "wakeup")
    /\ UNCHANGED <<lk, plock, asleep, rounds, kills>>
WakeupLock(p) ==
    /\ pc[p] = "wakeup" /\ i[p] \in Procs \ {p} /\ plock[i[p]] = 0
    /\ plock' = [plock EXCEPT ![i[p]] = p] /\ Goto(p, "woke")
    /\ UNCHANGED <<lk, locked, pid, asleep, i, rounds, kills>>
Wakeup(p) ==
    /\ pc[p] = "woke"
    /\ asleep' = asleep \ {i[p]} /\ plock' = [plock EXCEPT ![i[p]] = 0]
    /\ i' = [i EXCEPT ![p] = @ + 1] /\ Goto(p, "wakeup")
    /\ UNCHANGED <<lk, locked, pid, rounds, kills>>
WakeupSelf(p) ==
    /\ pc[p] = "wakeup" /\ i[p] = p
    /\ i' = [i EXCEPT ![p] = @ + 1]
    /\ UNCHANGED <<lk, plock, locked, pid, asleep, pc, rounds, kills>>
Released(p) ==
    /\ pc[p] = "wakeup" /\ i[p] > NPROC
    /\ lk' = 0 /\ rounds' = [rounds EXCEPT ![p] = @ + 1]
    /\ Goto(p, IF rounds[p] + 1 = Rounds THEN "done" ELSE "acquiresleep")
    /\ UNCHANGED <<plock, locked, pid, asleep, i, kills>>

\* kkill() makes a sleeper RUNNABLE; acquiresleep() tests again.
Kill(p) ==
    /\ plock[p] = 0 /\ p \in asleep /\ kills < MaxKills
    /\ asleep' = asleep \ {p} /\ kills' = kills + 1
    /\ UNCHANGED <<lk, plock, locked, pid, pc, i, rounds>>

Step(p) ==
    \/ Acquire(p) \/ Test(p) \/ SleepLock(p) \/ SleepUnlock(p) \/ Sched(p) \/ Resume(p)
    \/ Release(p) \/ WakeupLock(p) \/ Wakeup(p) \/ WakeupSelf(p) \/ Released(p)
Next == \E p \in Procs : Step(p) \/ Kill(p)

Spec == Init /\ [][Next]_vars /\ \A p \in Procs : WF_vars(Step(p))
-----------------------------------------------------------------------------
(* Properties *)

\* Whoever is between acquiresleep() and releasesleep() is the only one, and
\* holdingsleep() is true for it: lk->pid is its pid.
SleepMutex ==
    \A p \in Procs : (pc[p] \in {"critical", "release"}) => locked /\ pid = p

\* While anyone sleeps, the lock is taken or a releasesleep() is still on its way
\* to the sleeper: the order of locks in sleep() leaves no gap.
NoLostWakeup ==
    \A p \in asleep :
        locked \/ \E q \in Procs : pc[q] \in {"wakeup", "woke"} /\ i[q] <= p

\* Every acquiresleep() of p got the lock.
Served(p) == pc[p] = "done"

\* Every acquiresleep() gets the lock.
EveryoneLocks == \A p \in Procs : <>Served(p)
=============================================================================
