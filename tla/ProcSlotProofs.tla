--------------------------- MODULE ProcSlotProofs ---------------------------
(***************************************************************************)
(* The inductive invariant of the process table, and the first part of its *)
(* proof: which CPU a process is on, which locks it holds where, and whose *)
(* the slot is that fork fills.                                            *)
(*                                                                         *)
(* Slots stays unexpanded in the proofs of the steps: what they need of it *)
(* is the lemma SlotsFacts.                                                *)
(***************************************************************************)
EXTENDS Proc, TLAPS

USE SMTT(20), ZenonT(30)
USE NPROCAssumption, CPUsAssumption

-----------------------------------------------------------------------------
(* The inductive invariant. *)

\* The places at which a process holds wait_lock.
WaitLocked == {"wscan", "wcheck", "wsleep", "wsched",
               "reparent", "rwake", "pwake", "elock", "ezombie"}

\* c->proc, p->lock and p->state across the switches.
SwitchInv ==
    /\ \A c \in CPUs : on[c] = "loop" <=> cproc[c] = 0
    /\ \A c, d \in CPUs : cproc[c] = cproc[d] /\ cproc[c] # 0 => c = d
    /\ \A p \in Slots : plock[p] # None => cproc[plock[p]] = p
    /\ \A c \in CPUs : on[c] = "switched" =>
        /\ plock[cproc[c]] = c
        /\ state[cproc[c]] \in {"RUNNABLE", "SLEEPING", "ZOMBIE"}
    /\ \A c \in CPUs : on[c] = "proc" => state[cproc[c]] = "RUNNING"
    /\ \A p \in Slots : state[p] = "RUNNING" => OnCpu(p)

\* Where a process can be in each of its states.
PlaceAt(p) ==
    /\ state[p] = "UNUSED" => pc[p] \in {"forkret", "ezombie"}
    /\ state[p] = "USED" => pc[p] = "forkret"
    /\ state[p] = "RUNNABLE" => pc[p] \in Unlocked \cup {"forkret", "wslept"}
    /\ state[p] = "SLEEPING" => pc[p] = "wslept" /\ chan[p] = p
    /\ state[p] = "ZOMBIE" => pc[p] = "ezombie"
    /\ state[p] = "RUNNING" /\ plock[p] = None =>
        pc[p] \notin {"forkret", "wslept", "wsched", "ezombie"}
    /\ state[p] = "RUNNING" /\ plock[p] # None =>
        pc[p] \in Unlocked \cup {"forkret", "wslept", "wsched", "ezombie"}

PlaceInv == \A p \in Slots : PlaceAt(p)

\* Who holds wait_lock.
HasWaitLock(p) == state[p] = "RUNNING" /\ pc[p] \in WaitLocked

WaitLockInv ==
    /\ \A p \in Slots : HasWaitLock(p) => wait_lock # None /\ cproc[wait_lock] = p
    /\ wait_lock # None =>
        /\ on[wait_lock] = "proc"
        /\ pc[cproc[wait_lock]] \in WaitLocked

\* A slot that fork has allocated belongs to one forking process.
Forking(p) == pc[p] \in {"forkparent", "forkrun"}

ForkInv ==
    /\ \A p \in Slots :
        /\ Forking(p) => i[p] \in Slots /\ state[i[p]] = "USED"
        /\ pc[p] = "forkrun" => parent[i[p]] = p
    /\ \A p, q \in Slots : Forking(p) /\ Forking(q) /\ i[p] = i[q] => p = q

\* The first process never exits.
FirstInv ==
    /\ ~killed[initproc]
    /\ state[initproc] \in {"SLEEPING", "RUNNABLE", "RUNNING"}
    /\ pc[initproc] \notin {"exit", "reparent", "rwake", "pwake", "elock", "ezombie"}

\* The children of a process that exits have been passed on, up to its loop index.
ReparentInv ==
    /\ \A p \in Slots : pc[p] = "rwake" => i[p] \in Slots
    /\ \A p, k \in Slots :
        \/ pc[p] = "reparent" /\ k < i[p]
        \/ pc[p] = "rwake" /\ k <= i[p]
        \/ pc[p] \in {"pwake", "elock", "ezombie"}
        => parent[k] # p

\* The parent of an exiting process is awake once wakeup() has come past it.
AwakeParentInv ==
    \A p \in Slots :
        \/ pc[p] = "pwake" /\ j[p] > parent[p]
        \/ pc[p] = "elock"
        \/ pc[p] = "ezombie" /\ state[p] = "RUNNING"
        => state[parent[p]] # "SLEEPING"

\* A process that goes to sleep in wait has no zombie child.
ScanInv ==
    \A p, k \in Slots :
        \/ pc[p] = "wscan" /\ k < i[p]
        \/ pc[p] \in {"wcheck", "wsleep", "wsched"}
        => ~(parent[k] = p /\ state[k] = "ZOMBIE")

\* A sleeping process has a zombie child only if it is the first process, and
\* then the wakeup() of the process that passed it the zombie is about to come.
ZombieInv ==
    \A p, k \in Slots :
        parent[k] = p /\ state[k] = "ZOMBIE" /\ state[p] = "SLEEPING" =>
            p = initproc /\ \E r \in Slots : pc[r] = "rwake" /\ j[r] = initproc

ProcInv ==
    /\ TypeOK /\ SwitchInv /\ PlaceInv /\ WaitLockInv /\ ForkInv /\ FirstInv
    /\ ParentsLive /\ ReparentInv /\ AwakeParentInv /\ ScanInv /\ ZombieInv
-----------------------------------------------------------------------------
(* Lemmas on who executes. *)

\* The table's slots are numbered from 1, the first process's, to NPROC.
LEMMA SlotsFacts ==
  /\ 1 \in Slots /\ 0 \notin Slots /\ Slots \subseteq 0..NPROC /\ Slots \subseteq 1..NPROC + 1
  /\ 1 \in 1..NPROC + 1 /\ 0 \in 0..NPROC
  /\ \A n \in 1..NPROC + 1 : (n <= NPROC <=> n \in Slots)
  /\ \A n \in Slots : n + 1 \in 1..NPROC + 1
BY DEF Slots

\* The order of a slot and a loop index.
LEMMA SlotOrder ==
  ASSUME NEW k \in Slots, NEW n \in 1..NPROC + 1
  PROVE  /\ n > NPROC => k < n
         /\ ~(k < n) => n <= NPROC
         /\ k <= n <=> k < n \/ k = n
         /\ k < n + 1 <=> k < n \/ k = n
BY DEF Slots

\* A process that executes on a CPU is RUNNING, and its lock is free, except
\* where it is about to switch away.
LEMMA Actor ==
  ASSUME TypeOK, SwitchInv, PlaceInv, NEW c \in CPUs, NEW p \in Slots, Runs(c, p)
  PROVE  /\ on[c] = "proc" /\ cproc[c] = p /\ state[p] = "RUNNING"
         /\ pc[p] \notin {"forkret", "wslept"}
         /\ IF pc[p] \in {"wsched", "ezombie"} THEN plock[p] = c ELSE plock[p] = None
         /\ \A d \in CPUs : cproc[d] = p => d = c
<1>1. /\ on[c] = "proc" /\ cproc[c] = p /\ state[p] = "RUNNING"
      /\ \A d \in CPUs : cproc[d] = p => d = c
  BY DEF Runs, TypeOK, SwitchInv
<1>2. plock[p] \in {c, None}
  BY <1>1 DEF TypeOK, SwitchInv
<1>3. pc[p] \in {"wsched", "ezombie"} => plock[p] = c
  BY <1>1, <1>2 DEF PlaceInv, PlaceAt
<1>4. pc[p] \notin {"wsched", "ezombie"} => plock[p] = None
  BY <1>1, <1>2 DEF Runs, Resuming
<1>5. pc[p] \notin {"forkret", "wslept"}
  BY <1>1, <1>4 DEF PlaceInv, PlaceAt
<1> QED
  BY <1>1, <1>3, <1>4, <1>5

\* A process that is not RUNNING, and whose lock is free, is on no CPU.
LEMMA OffCpu ==
  ASSUME TypeOK, SwitchInv, NEW p \in Slots, plock[p] = None \/ state[p] = "USED",
         state[p] # "RUNNING"
  PROVE  \A c \in CPUs : cproc[c] # p
<1>1. ASSUME NEW c \in CPUs, cproc[c] = p PROVE FALSE
  <2>1. on[c] # "loop" /\ on[c] # "proc"
    BY <1>1, SlotsFacts DEF SwitchInv
  <2>2. on[c] = "switched"
    BY <2>1 DEF TypeOK
  <2> QED
    BY <1>1, <2>2 DEF SwitchInv
<1> QED
  BY <1>1

\* The steps in which a process, or the scheduler for it, changes no entry of the
\* table but its own.
OwnStep(c, p) ==
    \/ Dispatch(c, p) \/ Yield(c, p) \/ Trap(c, p) \/ Return(c, p)
    \/ ForkScan(c, p) \/ Exit(c, p) \/ ExitLock(c, p) \/ ExitZombie(c, p)
    \/ Wait(c, p) \/ WaitScan(c, p) \/ WaitCopyoutFail(c, p) \/ WaitCheck(c, p)
    \/ SleepLock(c, p) \/ SleepSched(c, p)

\* What such a step leaves alone: the family links and every other process.
LEMMA OwnStepFrame ==
  ASSUME TypeOK, NEW c \in CPUs, NEW p \in Slots, OwnStep(c, p)
  PROVE  /\ UNCHANGED <<parent, killed, j>>
         /\ \A q \in Slots \ {p} : /\ state'[q] = state[q] /\ plock'[q] = plock[q]
                                   /\ pc'[q] = pc[q] /\ i'[q] = i[q] /\ chan'[q] = chan[q]
<1> USE SlotsFacts DEF OwnStep, lockVars, cpuVars, ToScheduler, At, Goto, Index, TypeOK
<1>1. UNCHANGED <<parent, killed, j>>
  BY DEF Dispatch, Yield, Trap, Return, ForkScan, Exit, Wait, WaitScan, WaitCopyoutFail,
         WaitCheck, SleepLock, SleepSched, ExitLock, ExitZombie
<1>2. \A q \in Slots \ {p} : state'[q] = state[q] /\ plock'[q] = plock[q] /\ chan'[q] = chan[q]
  BY DEF Dispatch, Yield, Trap, Return, ForkScan, Exit, Wait, WaitScan, WaitCopyoutFail,
         WaitCheck, SleepLock, SleepSched, ExitLock, ExitZombie
<1>3. \A q \in Slots \ {p} : pc'[q] = pc[q] /\ i'[q] = i[q]
  BY DEF Dispatch, Yield, Trap, Return, ForkScan, Exit, Wait, WaitScan, WaitCopyoutFail,
         WaitCheck, SleepLock, SleepSched, ExitLock, ExitZombie
<1> QED
  BY <1>1, <1>2, <1>3

\* Such a step is taken by a process that can run, and only sleep() and exit()
\* stop it from being one.
LEMMA OwnStepState ==
  ASSUME TypeOK, SwitchInv, PlaceInv, NEW c \in CPUs, NEW p \in Slots, OwnStep(c, p)
  PROVE  /\ state[p] \in {"RUNNABLE", "RUNNING"}
         /\ \/ state'[p] \in {"RUNNABLE", "RUNNING"}
            \/ SleepSched(c, p) /\ state'[p] = "SLEEPING"
            \/ ExitZombie(c, p) /\ state'[p] = "ZOMBIE"
<1> USE SlotsFacts DEF OwnStep, lockVars, cpuVars, ToScheduler, At, Goto, Index, TypeOK
<1>1. state[p] \in {"RUNNABLE", "RUNNING"}
  BY Actor DEF Dispatch, Yield, Trap, Return, ForkScan, Exit, Wait, WaitScan, WaitCopyoutFail,
         WaitCheck, SleepLock, SleepSched, ExitLock, ExitZombie
<1>2. \/ state'[p] \in {"RUNNABLE", "RUNNING"}
      \/ SleepSched(c, p) /\ state'[p] = "SLEEPING"
      \/ ExitZombie(c, p) /\ state'[p] = "ZOMBIE"
  BY <1>1 DEF Dispatch, Yield, Trap, Return, ForkScan, Exit, Wait, WaitScan, WaitCopyoutFail,
         WaitCheck, SleepLock, SleepSched, ExitLock, ExitZombie
<1> QED
  BY <1>1, <1>2

\* Where such a step leaves the process.
OwnPlace(c, p) ==
    \/ pc'[p] = pc[p] /\ i'[p] = i[p]
    \/ /\ pc[p] # "rwake"
       /\ \/ pc'[p] \in {"user", "fork", "wait", "ret", "wslept"}
          \/ pc'[p] = "exit" /\ (p # initproc \/ killed[p])
          \/ Exit(c, p) \/ ExitLock(c, p) \/ Wait(c, p) \/ WaitScan(c, p)
          \/ pc[p] \in {"wcheck", "wsleep"} /\ pc'[p] \in {"wsleep", "wsched"}

LEMMA OwnStepPlace ==
  ASSUME TypeOK, NEW c \in CPUs, NEW p \in Slots, OwnStep(c, p)
  PROVE  OwnPlace(c, p)
<1> USE SlotsFacts DEF OwnStep, lockVars, cpuVars, ToScheduler, At, Goto, Index, TypeOK,
        OwnPlace
<1>1. CASE Dispatch(c, p) \/ Yield(c, p) \/ ExitZombie(c, p)
  BY <1>1 DEF Dispatch, Yield, ExitZombie
<1>2. CASE ~(Dispatch(c, p) \/ Yield(c, p) \/ ExitZombie(c, p))
  <2>1. pc[p] # "rwake"
    BY <1>2 DEF Trap, Return, ForkScan, Exit, Wait, WaitScan, WaitCopyoutFail, WaitCheck,
         SleepLock, SleepSched, ExitLock
  <2>2. \/ pc'[p] \in {"user", "fork", "wait", "ret", "wslept"}
        \/ pc'[p] = "exit" /\ (p # initproc \/ killed[p])
        \/ Exit(c, p) \/ ExitLock(c, p) \/ Wait(c, p) \/ WaitScan(c, p)
        \/ pc[p] \in {"wcheck", "wsleep"} /\ pc'[p] \in {"wsleep", "wsched"}
    BY <1>2 DEF Trap, Return, ForkScan, WaitCopyoutFail, WaitCheck, SleepLock, SleepSched
  <2> QED
    BY <2>1, <2>2
<1> QED
  BY <1>1, <1>2

-----------------------------------------------------------------------------
(* Every conjunct of the invariant is preserved by every action. *)

\* Every step keeps the types; that reparent() is inside the table when it wakes
\* the first process is what makes the loop index stay in range.
LEMMA TypeStep ==
  ASSUME TypeOK, ReparentInv, Next PROVE TypeOK'
<1> USE SlotsFacts DEF TypeOK, States, Unlocked, Places, Goto, Index, lockVars, cpuVars,
            ToScheduler, At
<1>1. ASSUME NEW c \in CPUs, SwitchedBack(c) PROVE TypeOK'
  <2>1. plock' \in [Slots -> CPUs \cup {None}]
    BY ZenonT(30), <1>1 DEF SwitchedBack
  <2>2. /\ cproc' \in [CPUs -> 0..NPROC]
        /\ on' \in [CPUs -> {"loop", "proc", "switched"}]
    BY <1>1 DEF SwitchedBack
  <2> QED
    BY <1>1, <2>1, <2>2 DEF SwitchedBack
<1>2. ASSUME NEW c \in CPUs, Resume(c) PROVE TypeOK'
  <2>1. plock' \in [Slots -> CPUs \cup {None}]
    BY ZenonT(30), <1>2 DEF Resume
  <2>2. chan' \in [Slots -> 0..NPROC]
    BY ZenonT(30), <1>2 DEF Resume
  <2>3. pc' \in [Slots -> Places]
    BY ZenonT(30), <1>2 DEF Resume
  <2> QED
    BY <1>2, <2>1, <2>2, <2>3 DEF Resume
<1>3. ASSUME NEW c \in CPUs, NEW p \in Slots, Dispatch(c, p) PROVE TypeOK'
  BY <1>3 DEF Dispatch
<1>4. ASSUME NEW c \in CPUs, NEW p \in Slots, Yield(c, p) PROVE TypeOK'
  BY <1>4 DEF Yield
<1>5. ASSUME NEW c \in CPUs, NEW p \in Slots, Trap(c, p) PROVE TypeOK'
  BY <1>5 DEF Trap
<1>6. ASSUME NEW c \in CPUs, NEW p \in Slots, Return(c, p) PROVE TypeOK'
  BY <1>6 DEF Return
<1>7. ASSUME NEW c \in CPUs, NEW p \in Slots, NEW q \in Slots, Kill(c, p, q) PROVE TypeOK'
  BY <1>7 DEF Kill
<1>8. ASSUME NEW c \in CPUs, NEW p \in Slots, ForkScan(c, p) PROVE TypeOK'
  <2>1. i' \in [Slots -> 1..NPROC + 1] /\ pc' \in [Slots -> Places]
    <3>1. CASE i[p] > NPROC
      BY <1>8, <3>1 DEF ForkScan
    <3>2. CASE ~(i[p] > NPROC)
      BY <1>8, <3>2 DEF ForkScan
    <3> QED
      BY <3>1, <3>2
  <2> QED
    BY <1>8, <2>1 DEF ForkScan
<1>9. ASSUME NEW c \in CPUs, NEW p \in Slots, ForkAlloc(c, p) PROVE TypeOK'
  BY <1>9 DEF ForkAlloc
<1>10. ASSUME NEW c \in CPUs, NEW p \in Slots, ForkFail(c, p) PROVE TypeOK'
  BY <1>10 DEF ForkFail, FreeProc
<1>11. ASSUME NEW c \in CPUs, NEW p \in Slots, ForkParent(c, p) PROVE TypeOK'
  BY ZenonT(30), <1>11 DEF ForkParent
<1>12. ASSUME NEW c \in CPUs, NEW p \in Slots, ForkRun(c, p) PROVE TypeOK'
  <2>1. state' \in [Slots -> States]
    BY ZenonT(30), <1>12 DEF ForkRun
  <2>2. i' \in [Slots -> 1..NPROC + 1] /\ pc' \in [Slots -> Places]
    BY <1>12 DEF ForkRun
  <2> QED
    BY <1>12, <2>1, <2>2 DEF ForkRun
<1>13. ASSUME NEW c \in CPUs, NEW p \in Slots, Exit(c, p) PROVE TypeOK'
  BY <1>13 DEF Exit
<1>14. ASSUME NEW c \in CPUs, NEW p \in Slots, Reparent(c, p) PROVE TypeOK'
  <2>1. j' \in [Slots -> 1..NPROC + 1]
    BY <1>14 DEF Reparent
  <2>2. /\ i' \in [Slots -> 1..NPROC + 1] /\ pc' \in [Slots -> Places]
        /\ parent' \in [Slots -> 0..NPROC]
    <3>1. CASE i[p] > NPROC
      BY <1>14, <3>1 DEF Reparent
    <3>2. CASE i[p] <= NPROC /\ parent[i[p]] = p
      BY <1>14, <3>2 DEF Reparent, initproc
    <3>3. CASE i[p] <= NPROC /\ parent[i[p]] # p
      BY <1>14, <3>3 DEF Reparent
    <3> QED
      BY <3>1, <3>2, <3>3
  <2> QED
    BY <1>14, <2>1, <2>2 DEF Reparent
<1>15. ASSUME NEW c \in CPUs, NEW p \in Slots, WakeInit(c, p) \/ WakeParent(c, p) PROVE TypeOK'
  <2>1. ASSUME NEW ch, WakeupOne(p, ch) PROVE TypeOK'
    <3>1. state' \in [Slots -> States]
      BY <2>1 DEF WakeupOne
    <3>2. j' \in [Slots -> 1..NPROC + 1]
      BY <2>1 DEF WakeupOne
    <3> QED
      BY <2>1, <3>1, <3>2 DEF WakeupOne
  <2>2. CASE WakeInit(c, p) /\ j[p] > NPROC
    BY <2>2 DEF WakeInit, WakeupOne, ReparentInv
  <2>3. CASE WakeParent(c, p) /\ j[p] > NPROC
    BY <2>3 DEF WakeParent, WakeupOne
  <2> QED
    BY <1>15, <2>1, <2>2, <2>3 DEF WakeInit, WakeParent
<1>16. ASSUME NEW c \in CPUs, NEW p \in Slots, ExitLock(c, p) PROVE TypeOK'
  BY <1>16 DEF ExitLock
<1>17. ASSUME NEW c \in CPUs, NEW p \in Slots, ExitZombie(c, p) PROVE TypeOK'
  BY <1>17 DEF ExitZombie
<1>18. ASSUME NEW c \in CPUs, NEW p \in Slots, Wait(c, p) PROVE TypeOK'
  BY <1>18 DEF Wait
<1>19. ASSUME NEW c \in CPUs, NEW p \in Slots, WaitScan(c, p) PROVE TypeOK'
  <2>1. havekids' \in [Slots -> BOOLEAN]
    BY ZenonT(30), <1>19 DEF WaitScan
  <2>2. i' \in [Slots -> 1..NPROC + 1] /\ pc' \in [Slots -> Places]
    <3>1. CASE i[p] > NPROC
      BY <1>19, <3>1 DEF WaitScan
    <3>2. CASE ~(i[p] > NPROC)
      BY <1>19, <3>2 DEF WaitScan
    <3> QED
      BY <3>1, <3>2
  <2> QED
    BY <1>19, <2>1, <2>2 DEF WaitScan
<1>20. ASSUME NEW c \in CPUs, NEW p \in Slots, WaitReap(c, p) PROVE TypeOK'
  BY <1>20 DEF WaitReap, FreeProc
<1>21. ASSUME NEW c \in CPUs, NEW p \in Slots, WaitCopyoutFail(c, p) PROVE TypeOK'
  <2>1. havekids' \in [Slots -> BOOLEAN]
    BY <1>21 DEF WaitCopyoutFail
  <2>2. i' \in [Slots -> 1..NPROC + 1] /\ pc' \in [Slots -> Places]
    BY <1>21 DEF WaitCopyoutFail
  <2> QED
    BY <1>21, <2>1, <2>2 DEF WaitCopyoutFail
<1>22. ASSUME NEW c \in CPUs, NEW p \in Slots, WaitCheck(c, p) PROVE TypeOK'
  BY <1>22 DEF WaitCheck
<1>23. ASSUME NEW c \in CPUs, NEW p \in Slots, SleepLock(c, p) PROVE TypeOK'
  BY <1>23 DEF SleepLock
<1>24. ASSUME NEW c \in CPUs, NEW p \in Slots, SleepSched(c, p) PROVE TypeOK'
  BY <1>24 DEF SleepSched
<1> QED
  BY ZenonT(30), <1>1, <1>2, <1>3, <1>4, <1>5, <1>6, <1>7, <1>8, <1>9, <1>10, <1>11, <1>12,
     <1>13, <1>14, <1>15, <1>16, <1>17, <1>18, <1>19, <1>20, <1>21, <1>22, <1>23,
     <1>24 DEF Next, Kernel, Switch

\* A step that changes no state, no p->lock and nothing of the CPUs.
LEMMA SwitchSame ==
  ASSUME SwitchInv, UNCHANGED <<state, plock, cpuVars>> PROVE SwitchInv'
BY DEF SwitchInv, OnCpu, cpuVars

\* A change of the state of a process that is on no CPU, and a wakeup.
LEMMA SwitchState ==
  ASSUME TypeOK, SwitchInv, UNCHANGED <<plock, cpuVars>>, NEW q \in Slots, NEW s,
         state' = [state EXCEPT ![q] = s],
         \/ s = state[q]
         \/ state[q] = "SLEEPING" /\ s = "RUNNABLE"
         \/ s # "RUNNING" /\ \A c \in CPUs : cproc[c] # q
  PROVE  SwitchInv'
<1>1. \A c \in CPUs : on[c] = "switched" =>
        state'[cproc[c]] \in {"RUNNABLE", "SLEEPING", "ZOMBIE"}
  BY DEF TypeOK, SwitchInv
<1>2. \A c \in CPUs : on[c] = "proc" => state'[cproc[c]] = "RUNNING"
  BY DEF TypeOK, SwitchInv
<1>3. \A p \in Slots : state'[p] = "RUNNING" => state[p] = "RUNNING"
  BY DEF TypeOK
<1> QED
  BY <1>1, <1>2, <1>3 DEF SwitchInv, OnCpu, cpuVars

\* c->proc is a process while the CPU is not in the scheduler's loop.
LEMMA CpuSlot ==
  ASSUME TypeOK, SwitchInv PROVE \A c \in CPUs : on[c] # "loop" => cproc[c] \in Slots
BY DEF SwitchInv, TypeOK, Slots

\* swtch() happens with p->lock held, which passes from the scheduler to the
\* process and back: c->proc and p->state agree.
LEMMA SwitchStep ==
  ASSUME TypeOK, SwitchInv, PlaceInv, ForkInv, Next PROVE SwitchInv'
<1> USE SlotsFacts DEF lockVars, cpuVars, ToScheduler, At
<1>1. ASSUME NEW c \in CPUs, SwitchedBack(c) PROVE SwitchInv'
  <2> DEFINE p == cproc[c]
  <2>1. p \in Slots /\ plock[p] = c /\ state[p] # "RUNNING"
    BY <1>1, CpuSlot DEF SwitchedBack, SwitchInv
  <2>2. \A d \in CPUs : cproc[d] = p => d = c
    BY <2>1 DEF SwitchInv
  <2>3. \A q \in Slots : plock'[q] = IF q = p THEN None ELSE plock[q]
    BY <1>1 DEF SwitchedBack, TypeOK
  <2>4. \A d \in CPUs : /\ cproc'[d] = IF d = c THEN 0 ELSE cproc[d]
                        /\ on'[d] = IF d = c THEN "loop" ELSE on[d]
    BY <1>1 DEF SwitchedBack, TypeOK
  <2>5. \A q \in Slots : plock'[q] # None => cproc'[plock'[q]] = q
    BY <2>1, <2>3, <2>4 DEF SwitchInv, TypeOK
  <2>6. \A q \in Slots : state'[q] = "RUNNING" => OnCpu(q)'
    BY <1>1, <2>1, <2>4 DEF SwitchedBack, SwitchInv, OnCpu
  <2>7. \A d \in CPUs : on'[d] = "switched" =>
          /\ plock'[cproc'[d]] = d
          /\ state'[cproc'[d]] \in {"RUNNABLE", "SLEEPING", "ZOMBIE"}
    BY <1>1, <2>2, <2>3, <2>4 DEF SwitchedBack, SwitchInv, TypeOK, Slots
  <2> QED
    BY <1>1, <2>4, <2>5, <2>6, <2>7 DEF SwitchedBack, SwitchInv
<1>2. ASSUME NEW c \in CPUs, Resume(c) PROVE SwitchInv'
  <2> DEFINE p == cproc[c]
  <2>1. p \in Slots /\ plock[p] = c
    BY <1>2 DEF Resume, Resuming, SwitchInv, TypeOK, Slots
  <2>2. \A q \in Slots : plock'[q] = IF q = p THEN None ELSE plock[q]
    BY <1>2, <2>1 DEF Resume, TypeOK
  <2>3. \A d \in CPUs : on[d] = "switched" => cproc[d] # p
    BY <1>2, <2>1 DEF Resume, SwitchInv
  <2>4. \A d \in CPUs : on[d] = "switched" => cproc[d] \in Slots
    BY CpuSlot
  <2> QED
    BY <1>2, <2>2, <2>3, <2>4 DEF Resume, SwitchInv, OnCpu
<1>3. ASSUME NEW c \in CPUs, NEW p \in Slots, Dispatch(c, p) PROVE SwitchInv'
  <2>1. \A d \in CPUs : cproc[d] # p
    BY <1>3, OffCpu DEF Dispatch
  <2>2. \A q \in Slots : /\ plock'[q] = IF q = p THEN c ELSE plock[q]
                         /\ state'[q] = IF q = p THEN "RUNNING" ELSE state[q]
    BY <1>3 DEF Dispatch, TypeOK
  <2>3. \A d \in CPUs : /\ cproc'[d] = IF d = c THEN p ELSE cproc[d]
                        /\ on'[d] = IF d = c THEN "proc" ELSE on[d]
    BY <1>3 DEF Dispatch, TypeOK
  <2>4. on[c] = "loop" /\ cproc[c] = 0
    BY <1>3 DEF Dispatch, SwitchInv
  <2>5. \A d \in CPUs : on[d] # "loop" => cproc[d] \in Slots
    BY CpuSlot
  <2>6. \A d, e \in CPUs : cproc'[d] = cproc'[e] /\ cproc'[d] # 0 => d = e
    BY <2>1, <2>3 DEF SwitchInv
  <2>7. \A q \in Slots : plock'[q] # None => cproc'[plock'[q]] = q
    BY <2>2, <2>3, <2>4 DEF SwitchInv, TypeOK
  <2>8. \A q \in Slots : state'[q] = "RUNNING" => OnCpu(q)'
    BY <2>2, <2>3, <2>4 DEF SwitchInv, OnCpu
  <2>9. \A d \in CPUs : on'[d] = "loop" <=> cproc'[d] = 0
    BY <2>3, <2>4 DEF SwitchInv
  <2>10. \A d \in CPUs : on'[d] = "switched" =>
          /\ plock'[cproc'[d]] = d
          /\ state'[cproc'[d]] \in {"RUNNABLE", "SLEEPING", "ZOMBIE"}
    BY <2>1, <2>2, <2>3, <2>5 DEF SwitchInv
  <2>11. \A d \in CPUs : on'[d] = "proc" => state'[cproc'[d]] = "RUNNING"
    <3>1. state'[cproc'[c]] = "RUNNING"
      BY <2>2, <2>3
    <3>2. ASSUME NEW d \in CPUs \ {c}, on'[d] = "proc" PROVE state'[cproc'[d]] = "RUNNING"
      <4>1. on[d] = "proc" /\ cproc'[d] = cproc[d] /\ cproc[d] \in Slots \ {p}
        BY <2>1, <2>3, <2>5, <3>2
      <4>2. state'[cproc[d]] = state[cproc[d]]
        BY ZenonT(30), <2>2, <4>1
      <4> QED
        BY <4>1, <4>2 DEF SwitchInv
    <3> QED
      BY <3>1, <3>2
  <2> QED
    BY <2>6, <2>7, <2>8, <2>9, <2>10, <2>11 DEF SwitchInv
<1>4. ASSUME NEW c \in CPUs, NEW p \in Slots,
             Yield(c, p) \/ SleepSched(c, p) \/ ExitZombie(c, p)
      PROVE SwitchInv'
  <2>1. Runs(c, p)
    BY <1>4 DEF Yield, SleepSched, ExitZombie
  <2>2. on[c] = "proc" /\ cproc[c] = p /\ \A d \in CPUs : cproc[d] = p => d = c
    BY <2>1, Actor
  <2>3. \A q \in Slots : plock'[q] = IF q = p THEN c ELSE plock[q]
    BY <1>4, <2>1, Actor DEF Yield, SleepSched, ExitZombie, TypeOK, Unlocked
  <2>4. /\ state'[p] \in {"RUNNABLE", "SLEEPING", "ZOMBIE"}
        /\ \A q \in Slots \ {p} : state'[q] = state[q]
    BY <1>4 DEF Yield, SleepSched, ExitZombie, TypeOK
  <2>5. cproc' = cproc /\ \A d \in CPUs : on'[d] = IF d = c THEN "switched" ELSE on[d]
    BY <1>4 DEF Yield, SleepSched, ExitZombie, TypeOK
  <2>6. \A d \in CPUs : on[d] # "loop" => cproc[d] \in Slots
    BY CpuSlot
  <2>7. \A q \in Slots : plock'[q] # None => cproc'[plock'[q]] = q
    <3>1. ASSUME NEW q \in Slots \ {p}, plock'[q] # None PROVE cproc'[plock'[q]] = q
      <4>1. plock'[q] = plock[q]
        BY ZenonT(30), <2>3, <3>1
      <4>2. plock[q] # None => cproc[plock[q]] = q
        BY ZenonT(30), <3>1 DEF SwitchInv
      <4> QED
        BY ZenonT(30), <2>5, <3>1, <4>1, <4>2
    <3>2. cproc'[plock'[p]] = p
      BY <2>2, <2>3, <2>5
    <3> QED
      BY ZenonT(30), <3>1, <3>2
  <2>8. \A q \in Slots : state'[q] = "RUNNING" => OnCpu(q)'
    <3>1. ASSUME NEW q \in Slots, state'[q] = "RUNNING" PROVE OnCpu(q)
      <4>1. state[q] = "RUNNING"
        BY <2>4, <3>1
      <4> QED
        BY ZenonT(30), <4>1 DEF SwitchInv
    <3> QED
      BY ZenonT(30), <2>5, <3>1 DEF OnCpu
  <2>9. \A d \in CPUs : on'[d] = "loop" <=> cproc'[d] = 0
    BY <2>2, <2>5 DEF SwitchInv
  <2>10. \A d \in CPUs : on'[d] = "switched" =>
          /\ plock'[cproc'[d]] = d
          /\ state'[cproc'[d]] \in {"RUNNABLE", "SLEEPING", "ZOMBIE"}
    <3>1. ASSUME NEW d \in CPUs \ {c}, on'[d] = "switched"
          PROVE  /\ plock'[cproc'[d]] = d
                 /\ state'[cproc'[d]] \in {"RUNNABLE", "SLEEPING", "ZOMBIE"}
      <4>1. on[d] = "switched" /\ cproc[d] \in Slots \ {p}
        BY <2>2, <2>5, <2>6, <3>1
      <4> QED
        <5>1. /\ plock[cproc[d]] = d
              /\ state[cproc[d]] \in {"RUNNABLE", "SLEEPING", "ZOMBIE"}
          BY ZenonT(30), <3>1, <4>1 DEF SwitchInv
        <5> QED
          BY ZenonT(30), <2>3, <2>4, <2>5, <3>1, <4>1, <5>1
    <3> QED
      BY <2>2, <2>3, <2>4, <2>5, <3>1
  <2>11. ASSUME NEW d \in CPUs, on'[d] = "proc" PROVE state'[cproc'[d]] = "RUNNING"
    <3>1. on[d] = "proc" /\ cproc[d] \in Slots \ {p}
      BY <2>2, <2>5, <2>6, <2>11
    <3>2. state[cproc[d]] = "RUNNING"
      BY ZenonT(30), <2>11, <3>1 DEF SwitchInv
    <3> QED
      BY ZenonT(30), <2>4, <2>5, <2>11, <3>1, <3>2
  <2> QED
    BY <2>5, <2>7, <2>8, <2>9, <2>10, <2>11 DEF SwitchInv
<1>5. ASSUME NEW c \in CPUs, NEW p \in Slots, ExitLock(c, p) \/ SleepLock(c, p)
      PROVE SwitchInv'
  <2>1. on[c] = "proc" /\ cproc[c] = p /\ \A d \in CPUs : cproc[d] = p => d = c
    BY <1>5, Actor DEF ExitLock, SleepLock
  <2>2. \A q \in Slots : plock'[q] = IF q = p THEN c ELSE plock[q]
    BY <1>5 DEF ExitLock, SleepLock, TypeOK
  <2>3. \A d \in CPUs : on[d] # "loop" => cproc[d] \in Slots
    BY CpuSlot
  <2>4. UNCHANGED <<state, cproc, on>>
    BY <1>5 DEF ExitLock, SleepLock
  <2>5. \A q \in Slots : plock'[q] # None => cproc'[plock'[q]] = q
    <3>1. ASSUME NEW q \in Slots \ {p}, plock'[q] # None PROVE cproc'[plock'[q]] = q
      BY <2>2, <2>4, <3>1 DEF SwitchInv
    <3>2. cproc'[plock'[p]] = p
      BY ZenonT(30), <2>1, <2>2, <2>4
    <3> QED
      BY ZenonT(30), <3>1, <3>2
  <2>6. ASSUME NEW d \in CPUs, on[d] = "switched" PROVE plock'[cproc[d]] = d
    <3>1. cproc[d] \in Slots \ {p}
      BY <2>1, <2>3, <2>6
    <3>2. plock[cproc[d]] = d
      BY ZenonT(30), <2>6 DEF SwitchInv
    <3> QED
      BY ZenonT(30), <2>2, <3>1, <3>2
  <2> QED
    BY <2>4, <2>5, <2>6 DEF SwitchInv, OnCpu
<1>6. ASSUME NEW c \in CPUs, NEW p \in Slots,
             \/ Trap(c, p) \/ Return(c, p) \/ ForkScan(c, p) \/ ForkParent(c, p)
             \/ Exit(c, p) \/ Reparent(c, p) \/ Wait(c, p) \/ WaitScan(c, p)
             \/ WaitCopyoutFail(c, p) \/ WaitCheck(c, p)
      PROVE SwitchInv'
  <2>1. UNCHANGED <<state, plock, cpuVars>>
    BY <1>6 DEF Trap, Return, ForkScan, ForkParent, Exit, Reparent, Wait, WaitScan,
                WaitCopyoutFail, WaitCheck
  <2> QED
    BY <2>1, SwitchSame
<1>7. ASSUME NEW c \in CPUs, NEW p \in Slots, NEW q \in Slots, Kill(c, p, q)
      PROVE SwitchInv'
  BY ZenonT(30), <1>7, SwitchState DEF Kill
<1>8. ASSUME NEW c \in CPUs, NEW p \in Slots,
             ForkAlloc(c, p) \/ ForkFail(c, p) \/ ForkRun(c, p) \/ WaitReap(c, p)
      PROVE SwitchInv'
  <2>1. i[p] \in Slots /\ state[i[p]] \in {"UNUSED", "USED", "ZOMBIE"} /\ plock[i[p]] = None
    BY <1>8 DEF ForkAlloc, ForkFail, ForkRun, WaitReap, ForkInv, Forking, TypeOK
  <2>2. \A d \in CPUs : cproc[d] # i[p]
    BY <2>1, OffCpu
  <2>3. /\ UNCHANGED <<plock, cpuVars>>
        /\ \E s \in {"UNUSED", "USED", "RUNNABLE"} : state' = [state EXCEPT ![i[p]] = s]
    BY <1>8 DEF ForkAlloc, ForkFail, ForkRun, WaitReap, FreeProc
  <2> QED
    BY ZenonT(30), <2>1, <2>2, <2>3, SwitchState
<1>9. ASSUME NEW c \in CPUs, NEW p \in Slots, WakeInit(c, p) \/ WakeParent(c, p)
      PROVE SwitchInv'
  <2>1. ASSUME NEW ch, WakeupOne(p, ch) PROVE SwitchInv'
    <3>1. j[p] \in Slots
      BY <2>1 DEF WakeupOne, TypeOK
    <3> QED
      BY ZenonT(30), <2>1, <3>1, SwitchState DEF WakeupOne
  <2>2. CASE UNCHANGED <<state, plock, cpuVars>>
    BY <2>2, SwitchSame
  <2> QED
    BY <1>9, <2>1, <2>2 DEF WakeInit, WakeParent
<1> QED
  BY <1>1, <1>2, <1>3, <1>4, <1>5, <1>6, <1>7, <1>8, <1>9 DEF Next, Kernel, Switch

\* The step of a process at a place where it holds no lock leaves it at one
\* where it may be, and all other processes where they are.
LEMMA PlaceStep ==
  ASSUME TypeOK, SwitchInv, PlaceInv, ForkInv, Next PROVE PlaceInv'
<1> USE SlotsFacts DEF lockVars, cpuVars, ToScheduler, At, Goto, Index, TypeOK
<1>0. \A q \in Slots : PlaceAt(q)
  BY DEF PlaceInv
<1>1. ASSUME NEW c \in CPUs, SwitchedBack(c) PROVE PlaceInv'
  <2>1. cproc[c] \in Slots /\ state[cproc[c]] # "RUNNING"
    BY <1>1, CpuSlot DEF SwitchedBack, SwitchInv
  <2>2. \A q \in Slots : q # cproc[c] => plock'[q] = plock[q]
    BY <1>1 DEF SwitchedBack
  <2> QED
    BY <1>0, <1>1, <2>1, <2>2 DEF SwitchedBack, PlaceAt, PlaceInv
<1>2. ASSUME NEW c \in CPUs, Resume(c) PROVE PlaceInv'
  <2>1. cproc[c] \in Slots /\ state[cproc[c]] = "RUNNING"
    BY <1>2, CpuSlot DEF Resume, SwitchInv
  <2>2. PlaceAt(cproc[c])'
    BY <1>0, <1>2, <2>1 DEF Resume, Resuming, PlaceAt, Unlocked
  <2>3. \A q \in Slots : q # cproc[c] =>
          plock'[q] = plock[q] /\ pc'[q] = pc[q] /\ chan'[q] = chan[q]
    BY <1>2 DEF Resume
  <2> QED
    BY <1>0, <1>2, <2>2, <2>3 DEF Resume, PlaceAt, PlaceInv
<1>3. ASSUME NEW c \in CPUs, NEW p \in Slots, Dispatch(c, p) PROVE PlaceInv'
  <2>1. PlaceAt(p)'
    BY <1>0, <1>3 DEF Dispatch, PlaceAt
  <2>2. \A q \in Slots : q # p => plock'[q] = plock[q] /\ state'[q] = state[q]
    BY <1>3 DEF Dispatch
  <2> QED
    BY <1>0, <1>3, <2>1, <2>2 DEF Dispatch, PlaceAt, PlaceInv
<1>4. ASSUME NEW c \in CPUs, NEW p \in Slots,
             \/ Yield(c, p) \/ SleepSched(c, p) \/ ExitZombie(c, p)
             \/ ExitLock(c, p) \/ SleepLock(c, p)
             \/ Trap(c, p) \/ Return(c, p) \/ ForkScan(c, p) \/ ForkParent(c, p)
             \/ Exit(c, p) \/ Reparent(c, p) \/ Wait(c, p) \/ WaitScan(c, p)
             \/ WaitCopyoutFail(c, p) \/ WaitCheck(c, p)
      PROVE PlaceInv'
  <2>1. \A q \in Slots : q # p => /\ state'[q] = state[q] /\ plock'[q] = plock[q]
                                  /\ pc'[q] = pc[q] /\ chan'[q] = chan[q]
    <3>1. CASE OwnStep(c, p)
      <4> HIDE DEF TypeOK
      <4> QED
        BY ZenonT(30), <3>1, OwnStepFrame
    <3>2. CASE ForkParent(c, p) \/ Reparent(c, p)
      BY <3>2 DEF ForkParent, Reparent
    <3> QED
      BY ZenonT(30), <1>4, <3>1, <3>2 DEF OwnStep
  <2>2. Runs(c, p)
    BY ZenonT(30), <1>4 DEF Yield, SleepSched, ExitZombie, ExitLock, SleepLock, Trap, Return,
                ForkScan, ForkParent, Exit, Reparent, Wait, WaitScan,
                WaitCopyoutFail, WaitCheck
  <2>3. /\ state[p] = "RUNNING"
        /\ IF pc[p] \in {"wsched", "ezombie"} THEN plock[p] = c ELSE plock[p] = None
    BY <2>2, Actor
  <2>4. PlaceAt(p)'
    <3>1. CASE Yield(c, p) \/ SleepSched(c, p) \/ ExitZombie(c, p)
      BY <1>0, <2>3, <3>1 DEF Yield, SleepSched, ExitZombie, PlaceAt, Unlocked
    <3>2. CASE ExitLock(c, p) \/ SleepLock(c, p)
      BY <1>0, <2>3, <3>2 DEF ExitLock, SleepLock, PlaceAt
    <3>3. CASE ~(\/ Yield(c, p) \/ SleepSched(c, p) \/ ExitZombie(c, p)
                 \/ ExitLock(c, p) \/ SleepLock(c, p))
      <4>1. state'[p] = "RUNNING" /\ plock'[p] = None
        BY <1>4, <2>3, <3>3 DEF Trap, Return, ForkScan, ForkParent, Exit, Reparent,
                  Wait, WaitScan, WaitCopyoutFail, WaitCheck
      <4>2. pc[p] \notin {"forkret", "wslept", "wsched", "ezombie"}
        BY <1>0, <1>4, <3>3 DEF Trap, Return, ForkScan, ForkParent, Exit, Reparent,
                  Wait, WaitScan, WaitCopyoutFail, WaitCheck
      <4>3. pc'[p] \notin {"forkret", "wslept", "wsched", "ezombie"}
        <5>1. CASE Trap(c, p) \/ Return(c, p) \/ ForkScan(c, p) \/ ForkParent(c, p)
          BY <4>2, <5>1 DEF Trap, Return, ForkScan, ForkParent
        <5>2. CASE Exit(c, p) \/ Reparent(c, p) \/ Wait(c, p)
          BY <4>2, <5>2 DEF Exit, Reparent, Wait
        <5>3. CASE WaitScan(c, p) \/ WaitCopyoutFail(c, p) \/ WaitCheck(c, p)
          BY <4>2, <5>3 DEF WaitScan, WaitCopyoutFail, WaitCheck
        <5> HIDE DEF TypeOK
        <5> QED
          BY ZenonT(30), <1>4, <3>3, <5>1, <5>2, <5>3
      <4> QED
        BY <4>1, <4>3 DEF PlaceAt
    <3> QED
      BY <3>1, <3>2, <3>3
  <2> QED
    BY <1>0, <2>1, <2>4 DEF PlaceAt, PlaceInv
<1>5. ASSUME NEW c \in CPUs, NEW p \in Slots, NEW q \in Slots, Kill(c, p, q)
      PROVE PlaceInv'
  <2>1. state[p] = "RUNNING" /\ plock[p] = None /\ pc[p] = "user"
    BY <1>5, Actor DEF Kill
  <2>2. \A r \in Slots : /\ state'[r] = IF r = q /\ state[q] = "SLEEPING" THEN "RUNNABLE"
                                        ELSE state[r]
                         /\ pc'[r] = IF r = p THEN "ret" ELSE pc[r]
    BY <1>5 DEF Kill
  <2> QED
    BY <1>0, <1>5, <2>1, <2>2 DEF Kill, PlaceAt, PlaceInv, Unlocked
<1>6. ASSUME NEW c \in CPUs, NEW p \in Slots,
             ForkAlloc(c, p) \/ ForkFail(c, p) \/ ForkRun(c, p) \/ WaitReap(c, p)
      PROVE PlaceInv'
  <2>1. i[p] \in Slots /\ state[i[p]] \in {"UNUSED", "USED", "ZOMBIE"}
    BY <1>6 DEF ForkAlloc, ForkFail, ForkRun, WaitReap, ForkInv, Forking
  <2>2. p # i[p] /\ state[p] = "RUNNING" /\ plock[p] = None
    BY <1>6, <2>1, Actor DEF ForkAlloc, ForkFail, ForkRun, WaitReap
  <2>3. PlaceAt(p)'
    BY <1>6, <2>2 DEF ForkAlloc, ForkFail, ForkRun, WaitReap, FreeProc, PlaceAt
  <2>4. \A q \in Slots : q = i[p] => PlaceAt(q)'
    BY <1>0, <1>6, <2>1, <2>2 DEF ForkAlloc, ForkFail, ForkRun, WaitReap, FreeProc,
                                  PlaceAt, ForkInv, Forking
  <2>5. \A q \in Slots \ {p, i[p]} : /\ state'[q] = state[q] /\ plock'[q] = plock[q]
                                     /\ pc'[q] = pc[q] /\ chan'[q] = chan[q]
    BY <1>6 DEF ForkAlloc, ForkFail, ForkRun, WaitReap, FreeProc
  <2>6. \A q \in Slots \ {p, i[p]} : PlaceAt(q)'
    BY <1>0, <2>5 DEF PlaceAt
  <2> QED
    BY <2>3, <2>4, <2>6 DEF PlaceInv
<1>7. ASSUME NEW c \in CPUs, NEW p \in Slots, WakeInit(c, p) \/ WakeParent(c, p)
      PROVE PlaceInv'
  <2>1. state[p] = "RUNNING" /\ plock[p] = None /\ pc[p] \in {"rwake", "pwake"}
    BY <1>7, Actor DEF WakeInit, WakeParent
  <2>2. ASSUME NEW ch, WakeupOne(p, ch) PROVE PlaceInv'
    <3>1. \A q \in Slots : \/ state'[q] = state[q]
                           \/ state[q] = "SLEEPING" /\ state'[q] = "RUNNABLE"
      BY <2>2 DEF WakeupOne
    <3> QED
      BY <1>0, <2>2, <3>1 DEF WakeupOne, PlaceAt, PlaceInv
  <2>3. CASE /\ UNCHANGED <<state, plock, chan>>
             /\ pc' = [pc EXCEPT ![p] = "reparent"] \/ pc' = [pc EXCEPT ![p] = "elock"]
    BY <1>0, <2>1, <2>3 DEF PlaceAt, PlaceInv
  <2> QED
    BY <1>7, <2>2, <2>3 DEF WakeInit, WakeParent
<1> QED
  BY <1>1, <1>2, <1>3, <1>4, <1>5, <1>6, <1>7 DEF Next, Kernel, Switch

\* wait_lock has one holder, which is RUNNING, and nobody is where it is held
\* while it is free.
LEMMA Holder ==
  ASSUME TypeOK, SwitchInv, PlaceInv, WaitLockInv
  PROVE  /\ \A p, q \in Slots : HasWaitLock(p) /\ HasWaitLock(q) => p = q
         /\ \A p \in Slots : pc[p] \in WaitLocked \ {"ezombie"} => HasWaitLock(p)
         /\ wait_lock = None => \A p \in Slots : ~HasWaitLock(p)
         /\ \A c \in CPUs, p \in Slots :
                Runs(c, p) => (pc[p] \in WaitLocked <=> wait_lock = c)
<1>1. ASSUME NEW p \in Slots, pc[p] \in WaitLocked \ {"ezombie"} PROVE HasWaitLock(p)
  BY <1>1 DEF HasWaitLock, WaitLocked, PlaceInv, PlaceAt, Unlocked, TypeOK, States
<1>2. ASSUME NEW c \in CPUs, NEW p \in Slots, Runs(c, p)
      PROVE  pc[p] \in WaitLocked <=> wait_lock = c
  <2>1. state[p] = "RUNNING" /\ cproc[c] = p
    BY <1>2, Actor
  <2>2. ASSUME pc[p] \in WaitLocked PROVE wait_lock = c
    BY <1>2, <2>1, <2>2, Actor DEF HasWaitLock, WaitLockInv, TypeOK
  <2>3. ASSUME wait_lock = c PROVE pc[p] \in WaitLocked
    BY <2>1, <2>3 DEF WaitLockInv
  <2> QED
    BY <2>2, <2>3
<1> QED
  BY <1>1, <1>2 DEF WaitLockInv

\* A step that neither takes nor releases wait_lock.
LEMMA WaitLockSame ==
  ASSUME WaitLockInv, TypeOK, UNCHANGED <<wait_lock, cpuVars>>,
         \A q \in Slots : HasWaitLock(q)' => HasWaitLock(q),
         \A q \in Slots : HasWaitLock(q) => pc'[q] \in WaitLocked,
         SwitchInv
  PROVE  WaitLockInv'
<1>1. ASSUME wait_lock # None
      PROVE on[wait_lock] = "proc" /\ pc'[cproc[wait_lock]] \in WaitLocked
  <2>1. wait_lock \in CPUs /\ on[wait_lock] = "proc"
    BY <1>1 DEF WaitLockInv, TypeOK
  <2>2. cproc[wait_lock] \in Slots /\ HasWaitLock(cproc[wait_lock])
    BY <1>1, <2>1, CpuSlot DEF HasWaitLock, WaitLockInv, SwitchInv
  <2> QED
    BY <2>1, <2>2
<1> QED
  BY <1>1 DEF WaitLockInv, cpuVars

\* wait_lock is held by the process that is at the places between its acquire
\* and its release, and by nobody else.
LEMMA WaitLockStep ==
  ASSUME TypeOK, SwitchInv, PlaceInv, WaitLockInv, ForkInv, Next PROVE WaitLockInv'
<1> USE SlotsFacts DEF lockVars, cpuVars, ToScheduler, At, Goto, Index, TypeOK
<1>1. ASSUME NEW c \in CPUs, SwitchedBack(c) PROVE WaitLockInv'
  <2>1. wait_lock # c
    BY <1>1 DEF SwitchedBack, WaitLockInv
  <2>2. \A d \in CPUs : d # c => cproc'[d] = cproc[d] /\ on'[d] = on[d]
    BY <1>1 DEF SwitchedBack
  <2> QED
    BY <1>1, <2>1, <2>2 DEF SwitchedBack, WaitLockInv, HasWaitLock
<1>2. ASSUME NEW c \in CPUs, Resume(c) PROVE WaitLockInv'
  <2> DEFINE p == cproc[c]
  <2>1. p \in Slots /\ state[p] = "RUNNING" /\ plock[p] = c
    BY <1>2, CpuSlot DEF Resume, Resuming, SwitchInv
  <2>2. pc[p] \in Unlocked \cup {"forkret", "wslept"}
    BY <1>2, <2>1 DEF Resume, Resuming, PlaceInv, PlaceAt
  <2>3. pc[p] \notin WaitLocked /\ pc'[p] \notin WaitLocked
    BY <1>2, <2>1, <2>2 DEF Resume, WaitLocked, Unlocked
  <2>4. \A q \in Slots \ {p} : pc'[q] = pc[q]
    BY <1>2 DEF Resume
  <2>5. \A q \in Slots : HasWaitLock(q)' <=> HasWaitLock(q)
    BY <1>2, <2>3, <2>4 DEF Resume, HasWaitLock
  <2>6. \A q \in Slots : HasWaitLock(q) => pc'[q] \in WaitLocked
    BY <2>5 DEF HasWaitLock
  <2> QED
    BY <1>2, <2>5, <2>6, WaitLockSame DEF Resume
<1>3. ASSUME NEW c \in CPUs, NEW p \in Slots, Dispatch(c, p) PROVE WaitLockInv'
  <2>1. wait_lock # c
    BY <1>3 DEF Dispatch, WaitLockInv
  <2>2. \A d \in CPUs : d # c => cproc'[d] = cproc[d] /\ on'[d] = on[d]
    BY <1>3 DEF Dispatch
  <2>3. pc[p] \notin WaitLocked
    BY <1>3 DEF Dispatch, PlaceInv, PlaceAt, WaitLocked, Unlocked
  <2>4. \A q \in Slots : HasWaitLock(q)' => HasWaitLock(q)
    BY <1>3, <2>3 DEF Dispatch, HasWaitLock
  <2> QED
    BY <1>3, <2>1, <2>2, <2>4 DEF Dispatch, WaitLockInv
<1>4. ASSUME NEW c \in CPUs, NEW p \in Slots, Yield(c, p) PROVE WaitLockInv'
  <2>1. wait_lock # c
    BY <1>4, Holder DEF Yield, WaitLocked, Unlocked
  <2>2. \A q \in Slots : HasWaitLock(q)' => HasWaitLock(q)
    BY <1>4 DEF Yield, HasWaitLock
  <2>3. \A d \in CPUs : d # c => on'[d] = on[d]
    BY <1>4 DEF Yield
  <2> QED
    BY <1>4, <2>1, <2>2, <2>3 DEF Yield, WaitLockInv
<1>5. ASSUME NEW c \in CPUs, NEW p \in Slots, SleepSched(c, p) \/ ExitZombie(c, p)
      PROVE WaitLockInv'
  <2>1. HasWaitLock(p)
    BY <1>5, Actor DEF SleepSched, ExitZombie, HasWaitLock, WaitLocked
  <2>2. wait_lock' = None /\ ~HasWaitLock(p)'
    BY <1>5 DEF SleepSched, ExitZombie, HasWaitLock
  <2>3. \A q \in Slots \ {p} : HasWaitLock(q)' => HasWaitLock(q)
    BY <1>5 DEF SleepSched, ExitZombie, HasWaitLock
  <2>4. \A q \in Slots : ~HasWaitLock(q)'
    BY <2>1, <2>2, <2>3, Holder
  <2> QED
    BY ZenonT(30), <2>2, <2>4 DEF WaitLockInv
<1>6. ASSUME NEW c \in CPUs, NEW p \in Slots, Exit(c, p) \/ Wait(c, p)
      PROVE WaitLockInv'
  <2>1. /\ wait_lock = None /\ wait_lock' = c /\ c # None
        /\ on[c] = "proc" /\ cproc[c] = p /\ UNCHANGED <<state, cpuVars>>
    BY <1>6, Actor DEF Exit, Wait
  <2>2. pc'[p] \in WaitLocked /\ \A q \in Slots \ {p} : pc'[q] = pc[q]
    BY <1>6 DEF Exit, Wait, WaitLocked
  <2>3. \A q \in Slots \ {p} : ~HasWaitLock(q)'
    BY <2>1, <2>2, Holder DEF HasWaitLock
  <2> QED
    BY <2>1, <2>2, <2>3 DEF WaitLockInv
<1>7. ASSUME NEW c \in CPUs, NEW p \in Slots, NEW q \in Slots, Kill(c, p, q)
      PROVE WaitLockInv'
  <2>1. pc[p] = "user" /\ pc'[p] = "ret" /\ \A r \in Slots \ {p} : pc'[r] = pc[r]
    BY <1>7 DEF Kill
  <2>2. \A r \in Slots : state'[r] = "RUNNING" => state[r] = "RUNNING"
    BY <1>7 DEF Kill
  <2>3. \A r \in Slots : HasWaitLock(r)' => HasWaitLock(r)
    BY <2>1, <2>2 DEF HasWaitLock, WaitLocked
  <2>4. \A r \in Slots : HasWaitLock(r) => pc'[r] \in WaitLocked
    BY <2>1 DEF HasWaitLock, WaitLocked
  <2> QED
    BY <1>7, <2>3, <2>4, WaitLockSame DEF Kill
<1>8. ASSUME NEW c \in CPUs, NEW p \in Slots,
             \/ Trap(c, p) \/ Return(c, p) \/ ForkScan(c, p) \/ ForkAlloc(c, p)
             \/ ForkFail(c, p) \/ ForkParent(c, p) \/ ForkRun(c, p)
      PROVE WaitLockInv'
  <2>1. pc[p] \notin WaitLocked /\ pc'[p] \notin WaitLocked
    <3>1. pc[p] \in {"user", "ret", "fork", "forkparent", "forkrun"}
      BY ZenonT(30), <1>8 DEF Trap, Return, ForkScan, ForkAlloc, ForkFail, ForkParent, ForkRun
    <3>2. ASSUME Trap(c, p) \/ Return(c, p) PROVE pc'[p] \notin WaitLocked
      BY <3>2 DEF Trap, Return, WaitLocked
    <3>3. ASSUME ForkScan(c, p) \/ ForkAlloc(c, p) PROVE pc'[p] \notin WaitLocked
      BY <3>3 DEF ForkScan, ForkAlloc, WaitLocked
    <3>4. ASSUME ForkFail(c, p) \/ ForkParent(c, p) \/ ForkRun(c, p) PROVE pc'[p] \notin WaitLocked
      BY <3>4 DEF ForkFail, ForkParent, ForkRun, WaitLocked
    <3> QED
      BY ZenonT(30), <1>8, <3>1, <3>2, <3>3, <3>4 DEF WaitLocked
  <2>2. \A q \in Slots \ {p} : pc'[q] = pc[q] \/ (state[q] = "UNUSED" /\ pc'[q] = "forkret")
    BY <1>8 DEF Trap, Return, ForkScan, ForkAlloc, ForkFail, ForkParent, ForkRun
  <2>3. \A q \in Slots : state'[q] = "RUNNING" => state[q] = "RUNNING"
    BY <1>8 DEF Trap, Return, ForkScan, ForkAlloc, ForkFail, FreeProc, ForkParent, ForkRun
  <2>4. \A q \in Slots : HasWaitLock(q)' => HasWaitLock(q)
    BY <2>1, <2>2, <2>3 DEF HasWaitLock, WaitLocked
  <2>5. \A q \in Slots : HasWaitLock(q) => pc'[q] \in WaitLocked
    BY <2>1, <2>2 DEF HasWaitLock
  <2>6. UNCHANGED <<wait_lock, cpuVars>>
    BY <1>8 DEF Trap, Return, ForkScan, ForkAlloc, ForkFail, ForkParent, ForkRun
  <2> QED
    BY <2>4, <2>5, <2>6, WaitLockSame
<1>9. ASSUME NEW c \in CPUs, NEW p \in Slots,
             \/ Reparent(c, p) \/ WakeInit(c, p) \/ WakeParent(c, p) \/ ExitLock(c, p)
             \/ WaitScan(c, p) \/ (WaitCheck(c, p) /\ wait_lock' # None) \/ SleepLock(c, p)
      PROVE WaitLockInv'
  <2>1. pc[p] \in WaitLocked /\ pc'[p] \in WaitLocked
    BY ZenonT(30), <1>9 DEF Reparent, WakeInit, WakeParent, WakeupOne, ExitLock, WaitScan, WaitCheck,
                SleepLock, WaitLocked
  <2>2. \A q \in Slots \ {p} : pc'[q] = pc[q]
    BY <1>9 DEF Reparent, WakeInit, WakeParent, WakeupOne, ExitLock, WaitScan, WaitCheck,
                SleepLock
  <2>3. \A q \in Slots : state'[q] = "RUNNING" => state[q] = "RUNNING"
    <3>1. CASE WakeInit(c, p) \/ WakeParent(c, p)
      BY <3>1 DEF WakeInit, WakeParent, WakeupOne
    <3>2. CASE ~(WakeInit(c, p) \/ WakeParent(c, p))
      BY ZenonT(30), <1>9, <3>2 DEF Reparent, ExitLock, WaitScan, WaitCheck, SleepLock
    <3> QED
      BY <3>1, <3>2
  <2>4. UNCHANGED <<wait_lock, cpuVars>>
    BY <1>9 DEF Reparent, WakeInit, WakeParent, WakeupOne, ExitLock, WaitScan, WaitCheck,
                SleepLock
  <2>5. \A q \in Slots : HasWaitLock(q)' => HasWaitLock(q)
    BY <2>1, <2>2, <2>3 DEF HasWaitLock
  <2>6. \A q \in Slots : HasWaitLock(q) => pc'[q] \in WaitLocked
    BY <2>1, <2>2 DEF HasWaitLock
  <2> QED
    BY <2>4, <2>5, <2>6, WaitLockSame
<1>10. ASSUME NEW c \in CPUs, NEW p \in Slots,
              WaitReap(c, p) \/ WaitCopyoutFail(c, p) \/ (WaitCheck(c, p) /\ wait_lock' = None)
       PROVE WaitLockInv'
  <2>1. HasWaitLock(p)
    BY <1>10, Actor DEF WaitReap, WaitCopyoutFail, WaitCheck, HasWaitLock, WaitLocked
  <2>2. wait_lock' = None
    BY <1>10 DEF WaitReap, WaitCopyoutFail, WaitCheck
  <2>3. \A q \in Slots \ {p} : pc'[q] = pc[q]
    BY <1>10 DEF WaitReap, WaitCopyoutFail, WaitCheck
  <2>4. \A q \in Slots \ {p} : state'[q] = "RUNNING" => state[q] = "RUNNING"
    BY <1>10 DEF WaitReap, WaitCopyoutFail, WaitCheck, FreeProc
  <2>5. pc'[p] = "ret"
    <3>1. wait_lock # None
      BY <2>1 DEF WaitLockInv
    <3> QED
      BY <1>10, <3>1 DEF WaitReap, WaitCopyoutFail, WaitCheck
  <2>6. \A q \in Slots : ~HasWaitLock(q)'
    BY <2>1, <2>3, <2>4, <2>5, Holder DEF HasWaitLock, WaitLocked
  <2> QED
    BY <2>2, <2>6 DEF WaitLockInv
<1> QED
  BY <1>1, <1>2, <1>3, <1>4, <1>5, <1>6, <1>7, <1>8, <1>9, <1>10 DEF Next, Kernel, Switch

\* A step that starts no fork and leaves the slots that are being filled alone.
LEMMA ForkSame ==
  ASSUME ForkInv,
         \A q \in Slots : Forking(q)' => Forking(q) /\ pc'[q] = pc[q] /\ i'[q] = i[q],
         \A k \in Slots : state[k] = "USED" => state'[k] = "USED",
         \A q \in Slots : pc[q] = "forkrun" /\ pc'[q] = "forkrun" => parent'[i[q]] = parent[i[q]]
  PROVE  ForkInv'
<1>1. ASSUME NEW q \in Slots, Forking(q)' PROVE i'[q] \in Slots /\ state'[i'[q]] = "USED"
  BY ZenonT(30), <1>1 DEF ForkInv
<1>2. ASSUME NEW q \in Slots, pc'[q] = "forkrun" PROVE parent'[i'[q]] = q
  <2>1. Forking(q)'
    BY <1>2 DEF Forking
  <2> QED
    BY <1>2, <2>1 DEF ForkInv
<1>3. ASSUME NEW p \in Slots, NEW q \in Slots, Forking(p)', Forking(q)', i'[p] = i'[q]
      PROVE  p = q
  BY <1>3 DEF ForkInv
<1> QED
  BY ZenonT(30), <1>1, <1>2, <1>3 DEF ForkInv

\* A slot that allocproc() has marked USED stays with the process that forks
\* until it makes it RUNNABLE, though fork gives up the slot's lock in between.
LEMMA ForkStep ==
  ASSUME TypeOK, SwitchInv, PlaceInv, ForkInv, Next PROVE ForkInv'
<1> USE SlotsFacts DEF lockVars, cpuVars, ToScheduler, At, Goto, Index, TypeOK
<1>1. ASSUME NEW c \in CPUs, SwitchedBack(c) PROVE ForkInv'
  BY <1>1 DEF SwitchedBack, ForkInv, Forking
<1>2. ASSUME NEW c \in CPUs, Resume(c) PROVE ForkInv'
  <2>1. cproc[c] \in Slots
    BY <1>2, CpuSlot DEF Resume
  <2>2. \A q \in Slots : pc'[q] \in {pc[q], "wait", "user"}
    BY <1>2, <2>1 DEF Resume
  <2>3. \A q \in Slots : Forking(q)' => Forking(q) /\ pc'[q] = pc[q] /\ i'[q] = i[q]
    BY <1>2, <2>2 DEF Resume, Forking
  <2> QED
    BY <1>2, <2>3, ForkSame DEF Resume
<1>3. ASSUME NEW c \in CPUs, NEW p \in Slots, OwnStep(c, p) PROVE ForkInv'
  <2>1. \A q \in Slots \ {p} : pc'[q] = pc[q] /\ i'[q] = i[q] /\ state'[q] = state[q]
    <3> HIDE DEF TypeOK
    <3> QED
      BY ZenonT(30), <1>3, OwnStepFrame
  <2>2. \/ pc'[p] = pc[p] /\ i'[p] = i[p]
        \/ pc'[p] \notin {"forkparent", "forkrun"}
    <3>1. OwnPlace(c, p)
      <4> HIDE DEF TypeOK
      <4> QED
        BY ZenonT(30), <1>3, OwnStepPlace
    <3> QED
      BY <1>3, <3>1 DEF OwnPlace, Exit, ExitLock, Wait, WaitScan
  <2>3. state[p] # "USED" /\ parent' = parent
    <3> HIDE DEF TypeOK
    <3> QED
      BY ZenonT(30), <1>3, OwnStepFrame, OwnStepState
  <2>4. \A q \in Slots : Forking(q)' => Forking(q) /\ pc'[q] = pc[q] /\ i'[q] = i[q]
    BY <2>1, <2>2 DEF Forking
  <2> QED
    BY <2>1, <2>3, <2>4, ForkSame
<1>4. ASSUME NEW c \in CPUs, NEW p \in Slots, NEW q \in Slots, Kill(c, p, q)
      PROVE ForkInv'
  <2>1. \A r \in Slots : Forking(r)' => Forking(r) /\ pc'[r] = pc[r] /\ i'[r] = i[r]
    BY <1>4 DEF Kill, Forking
  <2>2. \A k \in Slots : state[k] = "USED" => state'[k] = "USED"
    BY <1>4 DEF Kill
  <2> QED
    BY <1>4, <2>1, <2>2, ForkSame DEF Kill
<1>5. ASSUME NEW c \in CPUs, NEW p \in Slots, ForkAlloc(c, p) PROVE ForkInv'
  <2>1. i[p] \in Slots /\ state[i[p]] = "UNUSED" /\ p # i[p]
    BY <1>5, Actor DEF ForkAlloc
  <2>2. ~Forking(p) /\ \A q \in Slots : Forking(q) => i[q] # i[p]
    BY <1>5, <2>1 DEF ForkAlloc, ForkInv, Forking
  <2>3. \A q \in Slots : /\ pc'[q] = IF q = p THEN "forkparent"
                                     ELSE IF q = i[p] THEN "forkret" ELSE pc[q]
                         /\ state'[q] = IF q = i[p] THEN "USED" ELSE state[q]
    BY <1>5, <2>1 DEF ForkAlloc
  <2>4. UNCHANGED <<i, parent>>
    BY <1>5 DEF ForkAlloc
  <2>5. \A q \in Slots \ {p} : Forking(q)' => Forking(q) /\ pc'[q] = pc[q]
    BY <2>3 DEF Forking
  <2>6. ASSUME NEW q \in Slots, Forking(q)' PROVE i'[q] \in Slots /\ state'[i'[q]] = "USED"
    BY <2>1, <2>3, <2>4, <2>5, <2>6 DEF ForkInv
  <2>7. ASSUME NEW q \in Slots, pc'[q] = "forkrun" PROVE parent'[i'[q]] = q
    BY <2>3, <2>4, <2>7 DEF ForkInv
  <2>8. ASSUME NEW q \in Slots, NEW r \in Slots, Forking(q)', Forking(r)', i'[q] = i'[r]
        PROVE  q = r
    BY <2>2, <2>4, <2>5, <2>8 DEF ForkInv
  <2> QED
    BY <2>6, <2>7, <2>8 DEF ForkInv
<1>6. ASSUME NEW c \in CPUs, NEW p \in Slots, ForkFail(c, p) \/ WaitReap(c, p)
      PROVE ForkInv'
  <2>1. i[p] \in Slots /\ state[i[p]] # "USED"
    BY <1>6 DEF ForkFail, WaitReap
  <2>2. \A q \in Slots : Forking(q)' => Forking(q) /\ pc'[q] = pc[q] /\ i'[q] = i[q]
    BY <1>6 DEF ForkFail, WaitReap, Forking
  <2>3. \A k \in Slots \ {i[p]} : state'[k] = state[k] /\ parent'[k] = parent[k]
    BY <1>6 DEF ForkFail, WaitReap, FreeProc
  <2>4. \A q \in Slots : pc[q] = "forkrun" => i[q] \in Slots \ {i[p]}
    BY <2>1 DEF ForkInv, Forking
  <2> QED
    BY <2>1, <2>2, <2>3, <2>4, ForkSame
<1>7. ASSUME NEW c \in CPUs, NEW p \in Slots, ForkParent(c, p) PROVE ForkInv'
  <2>1. i[p] \in Slots /\ Forking(p)
    BY <1>7 DEF ForkParent, ForkInv, Forking
  <2>2. \A q \in Slots : pc'[q] = IF q = p THEN "forkrun" ELSE pc[q]
    BY <1>7 DEF ForkParent
  <2>3. \A k \in Slots : parent'[k] = IF k = i[p] THEN p ELSE parent[k]
    BY <1>7 DEF ForkParent
  <2>4. \A q \in Slots : Forking(q)' => Forking(q)
    BY <2>1, <2>2 DEF Forking
  <2>5. UNCHANGED <<i, state>>
    BY <1>7 DEF ForkParent
  <2>6. ASSUME NEW q \in Slots, pc'[q] = "forkrun" PROVE parent'[i'[q]] = q
    <3>1. CASE q = p
      BY <2>1, <2>3, <2>5, <3>1
    <3>2. CASE q # p
      <4>1. pc[q] = "forkrun" /\ Forking(q)
        BY <2>2, <2>6, <3>2 DEF Forking
      <4>2. i[q] \in Slots \ {i[p]}
        BY <2>1, <3>2, <4>1 DEF ForkInv
      <4> QED
        BY <2>3, <2>5, <4>1, <4>2 DEF ForkInv
    <3> QED
      BY <3>1, <3>2
  <2> QED
    BY <2>4, <2>5, <2>6 DEF ForkInv
<1>8. ASSUME NEW c \in CPUs, NEW p \in Slots, ForkRun(c, p) PROVE ForkInv'
  <2>1. i[p] \in Slots /\ Forking(p)
    BY <1>8 DEF ForkRun, ForkInv, Forking
  <2>2. ~Forking(p)' /\ \A q \in Slots \ {p} : pc'[q] = pc[q] /\ i'[q] = i[q]
    BY <1>8 DEF ForkRun, Forking
  <2>3. parent' = parent /\ \A k \in Slots \ {i[p]} : state'[k] = state[k]
    BY <1>8 DEF ForkRun
  <2>4. \A q \in Slots : Forking(q)' => Forking(q) /\ q # p
    BY <2>2 DEF Forking
  <2>5. \A q \in Slots : Forking(q)' => i'[q] \in Slots \ {i[p]} /\ i'[q] = i[q]
    BY <2>1, <2>2, <2>4 DEF ForkInv
  <2>6. \A q \in Slots : pc'[q] = "forkrun" => pc[q] = "forkrun" /\ Forking(q)'
    BY <1>8, <2>2 DEF ForkRun, Forking
  <2> QED
    BY <2>3, <2>4, <2>5, <2>6 DEF ForkInv
<1>9. ASSUME NEW c \in CPUs, NEW p \in Slots, Reparent(c, p) PROVE ForkInv'
  <2>1. pc[p] = "reparent" /\ ~Forking(p)'
    BY <1>9 DEF Reparent, Forking
  <2>2. \A q \in Slots \ {p} : pc'[q] = pc[q] /\ i'[q] = i[q]
    BY <1>9 DEF Reparent
  <2>3. state' = state /\ \A k \in Slots : parent[k] # p => parent'[k] = parent[k]
    BY <1>9 DEF Reparent
  <2>4. \A q \in Slots : Forking(q)' => Forking(q) /\ pc'[q] = pc[q] /\ i'[q] = i[q]
    BY <2>1, <2>2 DEF Forking
  <2>5. \A q \in Slots : pc[q] = "forkrun" => i[q] \in Slots /\ parent[i[q]] # p
    BY <2>1 DEF ForkInv, Forking
  <2> QED
    BY <2>3, <2>4, <2>5, ForkSame
<1>10. ASSUME NEW c \in CPUs, NEW p \in Slots, WakeInit(c, p) \/ WakeParent(c, p)
       PROVE ForkInv'
  <2>1. \A q \in Slots : Forking(q)' => Forking(q) /\ pc'[q] = pc[q] /\ i'[q] = i[q]
    BY <1>10 DEF WakeInit, WakeParent, WakeupOne, Forking
  <2>2. parent' = parent /\ \A k \in Slots : state[k] = "USED" => state'[k] = "USED"
    BY <1>10 DEF WakeInit, WakeParent, WakeupOne
  <2> QED
    BY <2>1, <2>2, ForkSame
<1> QED
  BY <1>1, <1>2, <1>3, <1>4, <1>5, <1>6, <1>7, <1>8, <1>9, <1>10 DEF Next, Kernel, Switch, OwnStep

\* The first process is never killed, so it does not exit.
LEMMA FirstStep ==
  ASSUME TypeOK, SwitchInv, PlaceInv, ForkInv, FirstInv, Next PROVE FirstInv'
<1> USE SlotsFacts DEF lockVars, cpuVars, ToScheduler, At, Goto, Index, TypeOK, initproc, FirstInv
<1>1. ASSUME NEW c \in CPUs, SwitchedBack(c) PROVE FirstInv'
  BY <1>1 DEF SwitchedBack
<1>2. ASSUME NEW c \in CPUs, Resume(c) PROVE FirstInv'
  BY <1>2 DEF Resume
<1>3. ASSUME NEW c \in CPUs, NEW p \in Slots, OwnStep(c, p) PROVE FirstInv'
  <2>1. killed' = killed /\ ~killed[1]
    <3> HIDE DEF TypeOK
    <3> QED
      BY ZenonT(30), <1>3, OwnStepFrame
  <2>2. ~Exit(c, 1) /\ ~ExitLock(c, 1) /\ ~ExitZombie(c, 1)
    BY DEF Exit, ExitLock, ExitZombie
  <2>3. state'[1] \in {"SLEEPING", "RUNNABLE", "RUNNING"}
    <3> HIDE DEF TypeOK
    <3>1. \A q \in Slots \ {p} : state'[q] = state[q]
      BY ZenonT(30), <1>3, OwnStepFrame
    <3>2. \/ state'[p] \in {"RUNNABLE", "RUNNING"}
          \/ SleepSched(c, p) /\ state'[p] = "SLEEPING"
          \/ ExitZombie(c, p) /\ state'[p] = "ZOMBIE"
      BY ZenonT(30), <1>3, OwnStepState
    <3> QED
      BY <2>2, <3>1, <3>2
  <2>4. pc'[1] \notin {"exit", "reparent", "rwake", "pwake", "elock", "ezombie"}
    <3>1. CASE p = 1
      <4>1. Wait(c, 1) \/ WaitScan(c, 1) => pc'[1] \in {"wscan", "wcheck"}
        BY <3>1 DEF Wait, WaitScan
      <4>2. \/ pc'[1] = pc[1]
            \/ pc'[1] \in {"user", "fork", "wait", "ret", "wslept", "wsleep", "wsched"}
            \/ Wait(c, 1) \/ WaitScan(c, 1)
        <5> HIDE DEF TypeOK
        <5> QED
          BY ZenonT(30), <1>3, <2>1, <2>2, <3>1, OwnStepPlace DEF OwnPlace
      <4> QED
        BY <4>1, <4>2
    <3>2. CASE p # 1
      <4>1. \A q \in Slots \ {p} : pc'[q] = pc[q]
        <5> HIDE DEF TypeOK
        <5> QED
          BY ZenonT(30), <1>3, OwnStepFrame
      <4> QED
        BY <3>2, <4>1
    <3> QED
      BY <3>1, <3>2
  <2> QED
    BY <2>1, <2>3, <2>4
<1>4. ASSUME NEW c \in CPUs, NEW p \in Slots, NEW q \in Slots, Kill(c, p, q)
      PROVE FirstInv'
  BY <1>4 DEF Kill
<1>5. ASSUME NEW c \in CPUs, NEW p \in Slots, ForkParent(c, p) \/ Reparent(c, p)
      PROVE FirstInv'
  BY <1>5 DEF ForkParent, Reparent
<1>6. ASSUME NEW c \in CPUs, NEW p \in Slots,
             ForkAlloc(c, p) \/ ForkFail(c, p) \/ ForkRun(c, p) \/ WaitReap(c, p)
      PROVE FirstInv'
  <2>1. i[p] \in Slots /\ i[p] # 1
    BY <1>6 DEF ForkAlloc, ForkFail, ForkRun, WaitReap, ForkInv, Forking
  <2> QED
    BY <1>6, <2>1 DEF ForkAlloc, ForkFail, ForkRun, WaitReap, FreeProc
<1>7. ASSUME NEW c \in CPUs, NEW p \in Slots, WakeInit(c, p) \/ WakeParent(c, p)
      PROVE FirstInv'
  BY <1>7 DEF WakeInit, WakeParent, WakeupOne
<1> QED
  BY <1>1, <1>2, <1>3, <1>4, <1>5, <1>6, <1>7 DEF Next, Kernel, Switch, OwnStep
=============================================================================
