----------------------------- MODULE ProcProofs -----------------------------
(***************************************************************************)
(* The process table, for any number of slots and CPUs: one CPU for a      *)
(* process, a live parent for every child, no zombie that its sleeping     *)
(* parent is not told of.                                                  *)
(***************************************************************************)
EXTENDS ProcSlotProofs

USE SMTT(20), ZenonT(30)
USE NPROCAssumption, CPUsAssumption
-----------------------------------------------------------------------------
(* Parents and children. *)

\* A step that changes no parent, and moves processes only among the live states.
LEMMA ParentsSame ==
  ASSUME TypeOK, ParentsLive, parent' = parent,
         \A k \in Slots : \/ state'[k] = state[k]
                          \/ /\ state[k] \in {"SLEEPING", "RUNNABLE", "RUNNING"}
                             /\ state'[k] \in {"SLEEPING", "RUNNABLE", "RUNNING"}
  PROVE  ParentsLive'
<1>1. \A k \in Slots : parent[k] # 0 => parent[k] \in Slots
  BY DEF TypeOK, Slots
<1> QED
  BY <1>1 DEF ParentsLive

\* The parent of a child is in the table as long as the child is: an exiting
\* process passes its children on before it becomes a zombie.
LEMMA ParentsStep ==
  ASSUME TypeOK, SwitchInv, PlaceInv, ForkInv, FirstInv, ParentsLive, ReparentInv, Next
  PROVE  ParentsLive'
<1> USE SlotsFacts DEF lockVars, cpuVars, ToScheduler, At, Goto, Index, TypeOK
<1>0. \A k \in Slots : parent[k] # 0 => parent[k] \in Slots
  BY DEF Slots
<1>1. ASSUME NEW c \in CPUs, SwitchedBack(c) \/ Resume(c) PROVE ParentsLive'
  BY <1>1, ParentsSame DEF SwitchedBack, Resume
<1>2. ASSUME NEW c \in CPUs, NEW p \in Slots, OwnStep(c, p), ~ExitZombie(c, p)
      PROVE ParentsLive'
  <2>1. /\ parent' = parent /\ \A q \in Slots \ {p} : state'[q] = state[q]
        /\ state[p] \in {"RUNNABLE", "RUNNING"}
        /\ state'[p] \in {"SLEEPING", "RUNNABLE", "RUNNING"}
    <3> HIDE DEF TypeOK
    <3> QED
      BY ZenonT(30), <1>2, OwnStepFrame, OwnStepState
  <2> QED
    BY <2>1, ParentsSame
<1>3. ASSUME NEW c \in CPUs, NEW p \in Slots, NEW q \in Slots, Kill(c, p, q)
      PROVE ParentsLive'
  BY <1>3, ParentsSame DEF Kill
<1>4. ASSUME NEW c \in CPUs, NEW p \in Slots, WakeInit(c, p) \/ WakeParent(c, p)
      PROVE ParentsLive'
  BY <1>4, ParentsSame DEF WakeInit, WakeParent, WakeupOne
<1>5. ASSUME NEW c \in CPUs, NEW p \in Slots, ExitZombie(c, p) PROVE ParentsLive'
  <2>1. \A k \in Slots : parent[k] # p
    BY <1>5 DEF ExitZombie, ReparentInv
  <2>2. \A k \in Slots : state'[k] = IF k = p THEN "ZOMBIE" ELSE state[k]
    BY <1>5 DEF ExitZombie
  <2>3. state[p] = "RUNNING" /\ parent' = parent
    BY <1>5, Actor DEF ExitZombie
  <2> QED
    BY <1>0, <2>1, <2>2, <2>3 DEF ParentsLive
<1>6. ASSUME NEW c \in CPUs, NEW p \in Slots, ForkAlloc(c, p) \/ ForkRun(c, p)
      PROVE ParentsLive'
  <2>1. /\ i[p] \in Slots /\ parent' = parent
        /\ state[i[p]] \in {"UNUSED", "USED"} /\ state'[i[p]] \in {"USED", "RUNNABLE"}
        /\ state'[i[p]] = "RUNNABLE" => parent[i[p]] = p
    BY <1>6 DEF ForkAlloc, ForkRun, ForkInv, Forking
  <2>2. \A k \in Slots \ {i[p]} : state'[k] = state[k]
    BY <1>6 DEF ForkAlloc, ForkRun
  <2>3. \A k \in Slots : parent[k] # i[p]
    BY <1>0, <2>1 DEF ParentsLive
  <2> QED
    BY <1>0, <2>1, <2>2, <2>3 DEF ParentsLive
<1>7. ASSUME NEW c \in CPUs, NEW p \in Slots, ForkFail(c, p) \/ WaitReap(c, p)
      PROVE ParentsLive'
  <2>1. i[p] \in Slots /\ state[i[p]] \in {"UNUSED", "ZOMBIE"}
    BY <1>7 DEF ForkFail, WaitReap
  <2>2. /\ state'[i[p]] = "UNUSED" /\ parent'[i[p]] = 0
        /\ \A k \in Slots \ {i[p]} : state'[k] = state[k] /\ parent'[k] = parent[k]
    BY <1>7, <2>1 DEF ForkFail, WaitReap, FreeProc
  <2>3. \A k \in Slots : parent[k] # i[p]
    BY <1>0, <2>1 DEF ParentsLive
  <2> QED
    BY <1>0, <2>1, <2>2, <2>3 DEF ParentsLive
<1>8. ASSUME NEW c \in CPUs, NEW p \in Slots, ForkParent(c, p) PROVE ParentsLive'
  <2>1. state[p] = "RUNNING" /\ state' = state /\ p # 0
    BY <1>8, Actor DEF ForkParent
  <2>2. i[p] \in Slots /\ state[i[p]] = "USED"
    BY <1>8 DEF ForkParent, ForkInv, Forking
  <2>3. \A k \in Slots : parent'[k] = IF k = i[p] THEN p ELSE parent[k]
    BY <1>8 DEF ForkParent
  <2> QED
    BY <2>1, <2>2, <2>3 DEF ParentsLive
<1>9. ASSUME NEW c \in CPUs, NEW p \in Slots, Reparent(c, p) PROVE ParentsLive'
  <2>1. state' = state /\ state[1] \in {"SLEEPING", "RUNNABLE", "RUNNING"}
    BY <1>9 DEF Reparent, FirstInv, initproc
  <2>2. \A k \in Slots : \/ parent'[k] = parent[k]
                         \/ parent[k] = p /\ parent'[k] = 1
    BY <1>9 DEF Reparent, initproc
  <2> QED
    BY <2>1, <2>2 DEF ParentsLive
<1> QED
  BY <1>1, <1>2, <1>3, <1>4, <1>5, <1>6, <1>7, <1>8, <1>9 DEF Next, Kernel, Switch, OwnStep

\* A step in which no exiting process moves and nobody gets a child.
LEMMA ReparentSame ==
  ASSUME ReparentInv,
         \A q \in Slots : \/ pc'[q] = pc[q] /\ i'[q] = i[q]
                          \/ pc'[q] \notin {"reparent", "rwake", "pwake", "elock", "ezombie"},
         \A k \in Slots : parent'[k] \in {parent[k], 0}
  PROVE  ReparentInv'
BY SlotsFacts DEF ReparentInv

\* reparent() leaves no child behind: nobody forks or passes on a child to a
\* process that is exiting.
LEMMA ReparentStep ==
  ASSUME TypeOK, SwitchInv, PlaceInv, ForkInv, FirstInv, ReparentInv, Next
  PROVE  ReparentInv'
<1> USE SlotsFacts DEF lockVars, cpuVars, ToScheduler, At, Goto, Index, TypeOK
<1>1. ASSUME NEW c \in CPUs, SwitchedBack(c) PROVE ReparentInv'
  BY <1>1, ReparentSame DEF SwitchedBack
<1>2. ASSUME NEW c \in CPUs, Resume(c) PROVE ReparentInv'
  <2>1. \A q \in Slots : pc'[q] \in {pc[q], "wait", "user"}
    BY <1>2 DEF Resume
  <2> QED
    BY <1>2, <2>1, ReparentSame DEF Resume
<1>3. ASSUME NEW c \in CPUs, NEW p \in Slots, OwnStep(c, p), ~Exit(c, p), ~ExitLock(c, p)
      PROVE ReparentInv'
  <2>1. parent' = parent /\ \A q \in Slots \ {p} : pc'[q] = pc[q] /\ i'[q] = i[q]
    <3> HIDE DEF TypeOK
    <3> QED
      BY ZenonT(30), <1>3, OwnStepFrame
  <2>2. \/ pc'[p] = pc[p] /\ i'[p] = i[p]
        \/ pc'[p] \notin {"reparent", "rwake", "pwake", "elock", "ezombie"}
    <3>1. OwnPlace(c, p)
      <4> HIDE DEF TypeOK
      <4> QED
        BY ZenonT(30), <1>3, OwnStepPlace
    <3> QED
      BY <1>3, <3>1 DEF OwnPlace, Wait, WaitScan
  <2> QED
    BY <2>1, <2>2, ReparentSame
<1>4. ASSUME NEW c \in CPUs, NEW p \in Slots, NEW q \in Slots, Kill(c, p, q)
      PROVE ReparentInv'
  BY <1>4, ReparentSame DEF Kill
<1>5. ASSUME NEW c \in CPUs, NEW p \in Slots,
             ForkAlloc(c, p) \/ ForkFail(c, p) \/ ForkRun(c, p) \/ WaitReap(c, p)
      PROVE ReparentInv'
  <2>1. \A q \in Slots : \/ pc'[q] = pc[q] /\ i'[q] = i[q]
                         \/ pc'[q] \notin {"reparent", "rwake", "pwake", "elock", "ezombie"}
    BY <1>5 DEF ForkAlloc, ForkFail, ForkRun, WaitReap
  <2>2. \A k \in Slots : parent'[k] \in {parent[k], 0}
    BY <1>5 DEF ForkAlloc, ForkFail, ForkRun, WaitReap, FreeProc
  <2> QED
    BY <2>1, <2>2, ReparentSame
<1>6. ASSUME NEW c \in CPUs, NEW p \in Slots, ForkParent(c, p) PROVE ReparentInv'
  <2>1. pc[p] = "forkparent" /\ pc'[p] = "forkrun" /\ i' = i
    BY <1>6 DEF ForkParent
  <2>2. \A q \in Slots \ {p} : pc'[q] = pc[q]
    BY <1>6 DEF ForkParent
  <2>3. \A k \in Slots : parent'[k] \in {parent[k], p}
    BY <1>6 DEF ForkParent
  <2> QED
    BY <2>1, <2>2, <2>3 DEF ReparentInv
<1>7. ASSUME NEW c \in CPUs, NEW p \in Slots, Exit(c, p) PROVE ReparentInv'
  <2>1. pc'[p] = "reparent" /\ i'[p] = 1 /\ parent' = parent
    BY <1>7 DEF Exit
  <2>2. \A q \in Slots \ {p} : pc'[q] = pc[q] /\ i'[q] = i[q]
    BY <1>7 DEF Exit
  <2>3. \A k \in Slots : ~(k < 1)
    BY DEF Slots
  <2> QED
    BY <2>1, <2>2, <2>3 DEF ReparentInv
<1>8. ASSUME NEW c \in CPUs, NEW p \in Slots, Reparent(c, p) PROVE ReparentInv'
  <2>1. \A q \in Slots \ {p} : pc'[q] = pc[q] /\ i'[q] = i[q]
    BY <1>8 DEF Reparent
  <2>2. \A k \in Slots : parent'[k] \in {parent[k], 1}
    BY <1>8 DEF Reparent, initproc
  <2>3. p # 1 /\ pc[1] \notin {"reparent", "rwake", "pwake", "elock", "ezombie"}
    BY <1>8 DEF Reparent, FirstInv, initproc
  <2>4. pc'[p] = "rwake" => i'[p] \in Slots
    BY <1>8 DEF Reparent
  <2>5. ASSUME NEW k \in Slots,
               \/ pc'[p] = "reparent" /\ k < i'[p]
               \/ pc'[p] = "rwake" /\ k <= i'[p]
               \/ pc'[p] \in {"pwake", "elock", "ezombie"}
        PROVE  parent'[k] # p
    <3>1. CASE i[p] > NPROC
      <4>1. k < i[p] /\ parent' = parent
        BY <1>8, <3>1, SlotOrder DEF Reparent
      <4> QED
        BY <1>8, <4>1 DEF Reparent, ReparentInv
    <3>2. CASE i[p] <= NPROC /\ parent[i[p]] = p
      <4>1. parent'[i[p]] = 1 /\ pc'[p] = "rwake" /\ i'[p] = i[p] /\ i[p] \in Slots
        BY <1>8, <3>2 DEF Reparent, initproc
      <4>2. k <= i[p]
        BY <2>5, <4>1
      <4>3. CASE k = i[p]
        BY <2>3, <4>1, <4>3
      <4>4. CASE k < i[p]
        BY <1>8, <2>2, <2>3, <4>4 DEF Reparent, ReparentInv
      <4> QED
        BY <4>2, <4>3, <4>4, SlotOrder
    <3>3. CASE i[p] <= NPROC /\ parent[i[p]] # p
      <4>1. parent' = parent /\ pc'[p] = "reparent" /\ i'[p] = i[p] + 1
        BY <1>8, <3>3 DEF Reparent
      <4>2. k < i[p] \/ k = i[p]
        <5>1. k < i[p] + 1
          BY <2>5, <4>1
        <5> QED
          BY <5>1, SlotOrder
      <4> QED
        BY <1>8, <3>3, <4>1, <4>2 DEF Reparent, ReparentInv
    <3> QED
      BY <3>1, <3>2, <3>3
  <2> QED
    BY <2>1, <2>2, <2>3, <2>4, <2>5 DEF ReparentInv
<1>9. ASSUME NEW c \in CPUs, NEW p \in Slots, WakeInit(c, p) \/ WakeParent(c, p)
      PROVE ReparentInv'
  <2>1. parent' = parent /\ \A q \in Slots \ {p} : pc'[q] = pc[q] /\ i'[q] = i[q]
    BY <1>9 DEF WakeInit, WakeParent, WakeupOne
  <2>2. \/ pc'[p] = pc[p] /\ i'[p] = i[p]
        \/ pc[p] = "rwake" /\ pc'[p] = "reparent" /\ i'[p] = i[p] + 1
        \/ pc[p] = "pwake" /\ pc'[p] = "elock"
    BY <1>9 DEF WakeInit, WakeParent, WakeupOne
  <2>3. ASSUME NEW k \in Slots, pc[p] = "rwake", k < i[p] + 1 PROVE k <= i[p]
    BY <2>3, SlotOrder
  <2> QED
    BY <2>1, <2>2, <2>3 DEF ReparentInv
<1>10. ASSUME NEW c \in CPUs, NEW p \in Slots, ExitLock(c, p) PROVE ReparentInv'
  BY <1>10 DEF ExitLock, ReparentInv
<1> QED
  BY <1>1, <1>2, <1>3, <1>4, <1>5, <1>6, <1>7, <1>8, <1>9, <1>10 DEF Next, Kernel, Switch, OwnStep
-----------------------------------------------------------------------------
(* The last part of the invariant: no wakeup is lost. *)

\* The parent of a process that has passed it in wakeup() stays awake: only the
\* holder of wait_lock goes to sleep in wait.
LEMMA AwakeParentStep ==
  ASSUME TypeOK, SwitchInv, PlaceInv, WaitLockInv, ForkInv, FirstInv, ParentsLive,
         ReparentInv, AwakeParentInv, Next
  PROVE  AwakeParentInv'
<1> USE SlotsFacts DEF lockVars, cpuVars, ToScheduler, At, Goto, Index, TypeOK
<1> DEFINE Past(q) == \/ pc[q] = "pwake" /\ j[q] > parent[q]
                      \/ pc[q] = "elock"
                      \/ pc[q] = "ezombie" /\ state[q] = "RUNNING"
<1>0. /\ \A q \in Slots : Past(q) => HasWaitLock(q) /\ state[parent[q]] # "SLEEPING"
      /\ \A q \in Slots : pc[q] \in WaitLocked \ {"ezombie"} => HasWaitLock(q)
      /\ \A q, r \in Slots : HasWaitLock(q) /\ HasWaitLock(r) => q = r
      /\ wait_lock = None => \A q \in Slots : ~HasWaitLock(q)
  BY Holder DEF AwakeParentInv, HasWaitLock, WaitLocked
<1>P. \A q \in Slots : HasWaitLock(q) /\ q # initproc => parent[q] \in Slots
  <2>1. \A q \in Slots : HasWaitLock(q) /\ q # initproc => parent[q] # 0
    BY DEF HasWaitLock, ParentsLive
  <2> QED
    BY <2>1 DEF Slots
\* Steps in which no other process goes to sleep and no parent changes.
<1>S. ASSUME \A k \in Slots : state'[k] = "SLEEPING" => state[k] = "SLEEPING",
             \A q \in Slots : Past(q)' => Past(q) /\ parent'[q] = parent[q]
      PROVE  AwakeParentInv'
  <2>1. \A q \in Slots : Past(q) => parent[q] \in Slots
    BY <1>0, <1>P DEF FirstInv
  <2> QED
    BY <1>0, <1>S, <2>1 DEF AwakeParentInv
<1>1. ASSUME NEW c \in CPUs, SwitchedBack(c) PROVE AwakeParentInv'
  BY <1>1, <1>S DEF SwitchedBack
<1>2. ASSUME NEW c \in CPUs, Resume(c) PROVE AwakeParentInv'
  <2>1. \A q \in Slots : pc'[q] \in {pc[q], "wait", "user"}
    BY <1>2 DEF Resume
  <2> QED
    BY <1>2, <1>S, <2>1 DEF Resume
<1>3. ASSUME NEW c \in CPUs, NEW p \in Slots, OwnStep(c, p), ~SleepSched(c, p), ~ExitLock(c, p)
      PROVE AwakeParentInv'
  <2>1. /\ UNCHANGED <<parent, j>> /\ state'[p] # "SLEEPING"
        /\ \A q \in Slots \ {p} : pc'[q] = pc[q] /\ state'[q] = state[q]
    <3> HIDE DEF TypeOK
    <3> QED
      BY ZenonT(30), <1>3, OwnStepFrame, OwnStepState
  <2>2. pc'[p] = pc[p] \/ pc'[p] \notin {"pwake", "elock", "ezombie"}
    <3>1. OwnPlace(c, p)
      <4> HIDE DEF TypeOK
      <4> QED
        BY ZenonT(30), <1>3, OwnStepPlace
    <3> QED
      BY <1>3, <3>1 DEF OwnPlace, Exit, Wait, WaitScan
  <2>3. pc[p] = "ezombie" => state[p] = "RUNNING"
    <3> HIDE DEF TypeOK
    <3> QED
      BY ZenonT(30), <1>3, OwnStepState DEF PlaceInv, PlaceAt, Unlocked
  <2> QED
    BY <1>S, <2>1, <2>2, <2>3
<1>5. ASSUME NEW c \in CPUs, NEW p \in Slots, NEW q \in Slots, Kill(c, p, q)
      PROVE AwakeParentInv'
  <2>1. \A r \in Slots : /\ state'[r] = "SLEEPING" => state[r] = "SLEEPING"
                         /\ state'[r] = "RUNNING" => state[r] = "RUNNING"
                         /\ pc'[r] \in {pc[r], "ret"}
    BY <1>5 DEF Kill
  <2> QED
    BY <1>5, <1>S, <2>1 DEF Kill
<1>6. ASSUME NEW c \in CPUs, NEW p \in Slots,
             ForkAlloc(c, p) \/ ForkFail(c, p) \/ ForkRun(c, p) \/ WaitReap(c, p)
      PROVE AwakeParentInv'
  <2>1. \A q \in Slots : /\ state'[q] = "SLEEPING" => state[q] = "SLEEPING"
                         /\ state'[q] = "RUNNING" => state[q] = "RUNNING"
                         /\ pc'[q] \in {pc[q], "forkparent", "forkret", "ret"}
    BY <1>6 DEF ForkAlloc, ForkFail, ForkRun, WaitReap, FreeProc
  <2>2. \A q \in Slots : parent'[q] = parent[q] \/ state[q] \in {"UNUSED", "ZOMBIE"}
    BY <1>6 DEF ForkAlloc, ForkFail, ForkRun, WaitReap, FreeProc
  <2>3. j' = j
    BY <1>6 DEF ForkAlloc, ForkFail, ForkRun, WaitReap
  <2>4. \A q \in Slots : pc[q] \in {"pwake", "elock"} => state[q] = "RUNNING"
    BY <1>0 DEF HasWaitLock, WaitLocked
  <2> QED
    BY <1>S, <2>1, <2>2, <2>3, <2>4
<1>7. ASSUME NEW c \in CPUs, NEW p \in Slots, ForkParent(c, p) PROVE AwakeParentInv'
  <2>1. i[p] \in Slots /\ state[i[p]] = "USED" /\ state' = state /\ j' = j
    BY <1>7 DEF ForkParent, ForkInv, Forking
  <2>2. \A q \in Slots : /\ pc'[q] \in {pc[q], "forkrun"}
                         /\ q # i[p] => parent'[q] = parent[q]
    BY <1>7 DEF ForkParent
  <2>3. pc[i[p]] \notin {"pwake", "elock"}
    BY <1>0, <2>1 DEF HasWaitLock, WaitLocked
  <2> QED
    BY <1>S, <2>1, <2>2, <2>3
<1>8. ASSUME NEW c \in CPUs, NEW p \in Slots, SleepSched(c, p) PROVE AwakeParentInv'
  <2>1. HasWaitLock(p) /\ ~Past(p)
    BY <1>0, <1>8 DEF SleepSched, WaitLocked
  <2>2. \A q \in Slots : ~Past(q)
    BY <1>0, <2>1
  <2>3. \A q \in Slots \ {p} : pc'[q] = pc[q] /\ state'[q] = state[q]
    BY <1>8 DEF SleepSched
  <2>4. \A q \in Slots : ~Past(q)'
    BY <1>8, <2>2, <2>3 DEF SleepSched
  <2> QED
    BY <2>4 DEF AwakeParentInv
<1>9. ASSUME NEW c \in CPUs, NEW p \in Slots, Reparent(c, p) PROVE AwakeParentInv'
  <2>1. HasWaitLock(p) /\ ~Past(p) /\ p # initproc
    BY <1>0, <1>9 DEF Reparent, WaitLocked, FirstInv
  <2>2. \A q \in Slots : ~Past(q)
    BY <1>0, <2>1
  <2>3. state' = state /\ \A q \in Slots \ {p} : pc'[q] = pc[q] /\ j'[q] = j[q]
    BY <1>9 DEF Reparent
  <2>4. \A q \in Slots \ {p} : ~Past(q)'
    <3>1. \A q \in Slots : pc[q] = "pwake" => q = p
      BY <1>0, <2>1 DEF WaitLocked
    <3> QED
      BY <2>2, <2>3, <3>1
  <2>5. ~Past(p)'
    <3>1. CASE pc'[p] = "pwake"
      <4>1. j'[p] = 1 /\ parent' = parent
        BY <1>9, <3>1 DEF Reparent
      <4>2. parent[p] \in Slots
        BY <1>P, <2>1
      <4>3. ~(1 > parent[p])
        BY <4>2 DEF Slots
      <4> QED
        BY <3>1, <4>1, <4>3
    <3>2. CASE pc'[p] # "pwake"
      BY <1>9, <3>2 DEF Reparent
    <3> QED
      BY <3>1, <3>2
  <2> QED
    BY <2>4, <2>5 DEF AwakeParentInv
<1>10. ASSUME NEW c \in CPUs, NEW p \in Slots, WakeInit(c, p) PROVE AwakeParentInv'
  <2>1. \A k \in Slots : /\ state'[k] = "SLEEPING" => state[k] = "SLEEPING"
                         /\ state'[k] = "RUNNING" => state[k] = "RUNNING"
    BY <1>10 DEF WakeInit, WakeupOne
  <2>2. parent' = parent /\ \A q \in Slots \ {p} : pc'[q] = pc[q] /\ j'[q] = j[q]
    BY <1>10 DEF WakeInit, WakeupOne
  <2>3. pc'[p] \in {"rwake", "reparent"}
    BY <1>10 DEF WakeInit, WakeupOne
  <2> QED
    BY <1>S, <2>1, <2>2, <2>3
<1>11. ASSUME NEW c \in CPUs, NEW p \in Slots, WakeParent(c, p) PROVE AwakeParentInv'
  <2>1. HasWaitLock(p) /\ pc[p] = "pwake" /\ p # initproc
    BY <1>0, <1>11 DEF WakeParent, WaitLocked, FirstInv
  <2>2. parent[p] \in Slots /\ parent[p] # p
    BY <1>P, <2>1 DEF ReparentInv
  <2>3. parent' = parent /\ \A q \in Slots \ {p} : pc'[q] = pc[q]
    BY <1>11 DEF WakeParent, WakeupOne
  <2>4. \A k \in Slots : /\ state'[k] = "SLEEPING" => state[k] = "SLEEPING"
                         /\ state'[k] = "RUNNING" => state[k] = "RUNNING"
    BY <1>11 DEF WakeParent, WakeupOne
  <2>5. \A q \in Slots \ {p} : ~Past(q)'
    <3>1. \A q \in Slots \ {p} : pc[q] \notin {"pwake", "elock"} /\ ~Past(q)
      BY <1>0, <2>1 DEF WaitLocked
    <3> QED
      BY <2>3, <2>4, <3>1
  <2>6. Past(p)' => state'[parent[p]] # "SLEEPING"
    <3>1. CASE j[p] > parent[p]
      BY <1>0, <2>1, <2>2, <2>4, <3>1
    <3>2. CASE j[p] = parent[p]
      <4>1. WakeupOne(p, parent[p])
        BY <1>11, <2>2, <3>2 DEF WakeParent, Slots
      <4>2. state[parent[p]] = "SLEEPING" => chan[parent[p]] = parent[p]
        BY <2>2 DEF PlaceInv, PlaceAt
      <4> QED
        BY <2>2, <3>2, <4>1, <4>2 DEF WakeupOne
    <3>3. CASE j[p] < parent[p]
      <4>1. WakeupOne(p, parent[p])
        <5>1. parent[p] \in 1..NPROC /\ NPROC \in Int /\ j[p] \in Int
          BY <2>2 DEF Slots
        <5> HIDE DEF TypeOK
        <5>2. ~(j[p] > NPROC)
          BY <3>3, <5>1
        <5> QED
          BY ZenonT(30), <1>11, <5>2 DEF WakeParent
      <4>2. j'[p] = j[p] + 1 /\ pc'[p] = "pwake"
        BY <2>1, <4>1 DEF WakeupOne
      <4>3. ~(j'[p] > parent'[p])
        <5>1. parent[p] \in Int /\ j[p] \in Int /\ parent'[p] = parent[p]
          BY <2>2, <2>3 DEF Slots
        <5> HIDE DEF TypeOK
        <5> QED
          BY <3>3, <4>2, <5>1
      <4> QED
        BY ZenonT(30), <4>2, <4>3
    <3>4. parent[p] \in Int /\ j[p] \in Int
      BY <2>2 DEF Slots
    <3>5. j[p] > parent[p] \/ j[p] = parent[p] \/ j[p] < parent[p]
      <4> HIDE DEF TypeOK
      <4> QED
        BY <3>4
    <3> QED
      BY ZenonT(30), <3>1, <3>2, <3>3, <3>5
  <2> QED
    BY <2>3, <2>5, <2>6 DEF AwakeParentInv
<1>12. ASSUME NEW c \in CPUs, NEW p \in Slots, ExitLock(c, p) PROVE AwakeParentInv'
  <2>1. Past(p) /\ UNCHANGED <<state, parent>>
    BY <1>12 DEF ExitLock
  <2>2. \A q \in Slots \ {p} : pc'[q] = pc[q] /\ j'[q] = j[q]
    BY <1>12 DEF ExitLock
  <2> QED
    BY <1>S, <2>1, <2>2
<1> QED
  BY <1>1, <1>2, <1>3, <1>5, <1>6, <1>7, <1>8, <1>9, <1>10, <1>11, <1>12
     DEF Next, Kernel, Switch, OwnStep

\* While a process scans the table for zombies nobody becomes one, and nobody
\* becomes its child: both need wait_lock.
LEMMA ScanStep ==
  ASSUME TypeOK, SwitchInv, PlaceInv, WaitLockInv, ForkInv, FirstInv, ScanInv, Next
  PROVE  ScanInv'
<1> USE SlotsFacts DEF lockVars, cpuVars, ToScheduler, At, Goto, Index, TypeOK
<1> DEFINE Scanned(q, k) == \/ pc[q] = "wscan" /\ k < i[q]
                            \/ pc[q] \in {"wcheck", "wsleep", "wsched"}
           Zombie(q, k) == parent[k] = q /\ state[k] = "ZOMBIE"
<1>0. /\ \A q, k \in Slots : Scanned(q, k) => HasWaitLock(q) /\ ~Zombie(q, k)
      /\ \A q \in Slots : pc[q] \in WaitLocked \ {"ezombie"} => HasWaitLock(q)
      /\ \A q, r \in Slots : HasWaitLock(q) /\ HasWaitLock(r) => q = r
      /\ wait_lock = None => \A q \in Slots : ~HasWaitLock(q)
  BY Holder DEF ScanInv, HasWaitLock, WaitLocked
<1>S. ASSUME \A q, k \in Slots : Scanned(q, k)' => Scanned(q, k) /\ (Zombie(q, k)' => Zombie(q, k))
      PROVE  ScanInv'
  BY <1>0, <1>S DEF ScanInv
<1>1. ASSUME NEW c \in CPUs, SwitchedBack(c) PROVE ScanInv'
  BY <1>1, <1>S DEF SwitchedBack
<1>2. ASSUME NEW c \in CPUs, Resume(c) PROVE ScanInv'
  <2>1. \A q \in Slots : pc'[q] \in {pc[q], "wait", "user"}
    BY <1>2 DEF Resume
  <2> QED
    BY <1>2, <1>S, <2>1 DEF Resume
<1>3. ASSUME NEW c \in CPUs, NEW p \in Slots, OwnStep(c, p),
             ~Wait(c, p), ~WaitScan(c, p), ~ExitZombie(c, p)
      PROVE ScanInv'
  <2>1. /\ parent' = parent /\ state'[p] # "ZOMBIE"
        /\ \A q \in Slots \ {p} : pc'[q] = pc[q] /\ i'[q] = i[q] /\ state'[q] = state[q]
    <3> HIDE DEF TypeOK
    <3> QED
      BY ZenonT(30), <1>3, OwnStepFrame, OwnStepState
  <2>2. \/ pc'[p] = pc[p] /\ i'[p] = i[p]
        \/ pc'[p] \notin {"wscan", "wcheck", "wsleep", "wsched"}
        \/ pc'[p] \in {"wsleep", "wsched"} /\ pc[p] \in {"wcheck", "wsleep"}
    <3>1. OwnPlace(c, p)
      <4> HIDE DEF TypeOK
      <4> QED
        BY ZenonT(30), <1>3, OwnStepPlace
    <3> QED
      BY <1>3, <3>1 DEF OwnPlace, Exit, ExitLock
  <2> QED
    BY <1>S, <2>1, <2>2
<1>4. ASSUME NEW c \in CPUs, NEW p \in Slots, NEW q \in Slots, Kill(c, p, q)
      PROVE ScanInv'
  <2>1. \A r \in Slots : /\ state'[r] = "ZOMBIE" => state[r] = "ZOMBIE"
                         /\ pc'[r] \in {pc[r], "ret"}
    BY <1>4 DEF Kill
  <2> QED
    BY <1>4, <1>S, <2>1 DEF Kill
<1>5. ASSUME NEW c \in CPUs, NEW p \in Slots,
             ForkAlloc(c, p) \/ ForkFail(c, p) \/ ForkRun(c, p) \/ WaitReap(c, p)
      PROVE ScanInv'
  <2>1. \A q \in Slots : /\ state'[q] = "ZOMBIE" => state[q] = "ZOMBIE"
                         /\ parent'[q] \in {parent[q], 0}
    BY <1>5 DEF ForkAlloc, ForkFail, ForkRun, WaitReap, FreeProc
  <2>2. \A q \in Slots : \/ pc'[q] = pc[q] /\ i'[q] = i[q]
                         \/ pc'[q] \in {"forkparent", "forkret", "ret"}
    BY <1>5 DEF ForkAlloc, ForkFail, ForkRun, WaitReap
  <2> QED
    BY <1>S, <2>1, <2>2
<1>6. ASSUME NEW c \in CPUs, NEW p \in Slots, ForkParent(c, p) PROVE ScanInv'
  <2>1. i[p] \in Slots /\ state[i[p]] = "USED" /\ state' = state /\ i' = i
    BY <1>6 DEF ForkParent, ForkInv, Forking
  <2>2. \A q \in Slots : /\ pc'[q] \in {pc[q], "forkrun"}
                         /\ q # i[p] => parent'[q] = parent[q]
    BY <1>6 DEF ForkParent
  <2> QED
    BY <1>S, <2>1, <2>2
<1>7. ASSUME NEW c \in CPUs, NEW p \in Slots, Reparent(c, p) \/ ExitZombie(c, p)
      PROVE ScanInv'
  <2>1. HasWaitLock(p) /\ pc[p] \in {"reparent", "ezombie"}
    BY <1>7, Actor DEF Reparent, ExitZombie, HasWaitLock, WaitLocked
  <2>2. \A q \in Slots \ {p} : pc'[q] = pc[q] /\ i'[q] = i[q]
    BY <1>7 DEF Reparent, ExitZombie
  <2>3. pc'[p] \notin {"wscan", "wcheck", "wsleep", "wsched"}
    BY <1>7 DEF Reparent, ExitZombie
  <2>4. \A q \in Slots : pc[q] \notin {"wscan", "wcheck", "wsleep", "wsched"}
    BY <1>0, <2>1 DEF WaitLocked
  <2>5. \A q \in Slots : pc'[q] \notin {"wscan", "wcheck", "wsleep", "wsched"}
    BY <2>2, <2>3, <2>4
  <2> QED
    BY <2>5 DEF ScanInv
<1>8. ASSUME NEW c \in CPUs, NEW p \in Slots, WakeInit(c, p) \/ WakeParent(c, p)
      PROVE ScanInv'
  <2>1. \A k \in Slots : state'[k] = "ZOMBIE" => state[k] = "ZOMBIE"
    BY <1>8 DEF WakeInit, WakeParent, WakeupOne
  <2>2. parent' = parent /\ \A q \in Slots \ {p} : pc'[q] = pc[q] /\ i'[q] = i[q]
    BY <1>8 DEF WakeInit, WakeParent, WakeupOne
  <2>3. pc'[p] \notin {"wscan", "wcheck", "wsleep", "wsched"}
    BY <1>8 DEF WakeInit, WakeParent, WakeupOne
  <2> QED
    BY <1>S, <2>1, <2>2, <2>3
<1>9. ASSUME NEW c \in CPUs, NEW p \in Slots, Wait(c, p) PROVE ScanInv'
  <2>1. /\ UNCHANGED <<parent, state>> /\ pc'[p] = "wscan" /\ i'[p] = 1
        /\ \A q \in Slots \ {p} : pc'[q] = pc[q] /\ i'[q] = i[q]
    BY <1>9 DEF Wait
  <2>2. \A k \in Slots : ~(k < 1)
    BY DEF Slots
  <2> QED
    BY <1>S, <2>1, <2>2
<1>10. ASSUME NEW c \in CPUs, NEW p \in Slots, WaitScan(c, p) PROVE ScanInv'
  <2>1. UNCHANGED <<parent, state>> /\ \A q \in Slots \ {p} : pc'[q] = pc[q] /\ i'[q] = i[q]
    BY <1>10 DEF WaitScan
  <2>2. ASSUME NEW k \in Slots, Scanned(p, k)' PROVE ~Zombie(p, k)
    <3>1. CASE k < i[p]
      BY <1>0, <1>10, <3>1 DEF WaitScan
    <3>2. CASE ~(k < i[p])
      <4>1. i[p] <= NPROC
        BY <3>2, SlotOrder
      <4>2. pc'[p] = "wscan" /\ i'[p] = i[p] + 1
        BY <1>10, <4>1 DEF WaitScan
      <4>3. k < i[p] + 1
        BY <2>2, <4>2
      <4>4. k = i[p]
        BY <3>2, <4>3, SlotOrder
      <4> QED
        BY <1>10, <4>1, <4>4 DEF WaitScan
    <3> QED
      BY <3>1, <3>2
  <2> QED
    BY <1>0, <2>1, <2>2 DEF ScanInv
<1> QED
  BY <1>1, <1>2, <1>3, <1>4, <1>5, <1>6, <1>7, <1>8, <1>9, <1>10 DEF Next, Kernel, Switch, OwnStep

\* A zombie and a sleeping parent come together only in reparent(), and wakeup()
\* parts them before wait_lock is released.
LEMMA ZombieStep ==
  ASSUME TypeOK, SwitchInv, PlaceInv, WaitLockInv, ForkInv, FirstInv, ParentsLive,
         AwakeParentInv, ScanInv, ZombieInv, Next
  PROVE  ZombieInv'
<1> USE SlotsFacts DEF lockVars, cpuVars, ToScheduler, At, Goto, Index, TypeOK
<1> DEFINE Missed(q, k) == parent[k] = q /\ state[k] = "ZOMBIE" /\ state[q] = "SLEEPING"
           Wakes(r) == pc[r] = "rwake" /\ j[r] = initproc
<1>0. /\ \A q, k \in Slots : Missed(q, k) => q = initproc /\ \E r \in Slots : Wakes(r)
      /\ \A q \in Slots : pc[q] \in WaitLocked \ {"ezombie"} => HasWaitLock(q)
      /\ \A q, r \in Slots : HasWaitLock(q) /\ HasWaitLock(r) => q = r
  BY Holder DEF ZombieInv
<1>S. ASSUME \A q, k \in Slots : Missed(q, k)' => Missed(q, k),
             \A r \in Slots : Wakes(r) => Wakes(r)'
      PROVE  ZombieInv'
  BY <1>0, <1>S DEF ZombieInv
<1>1. ASSUME NEW c \in CPUs, SwitchedBack(c) PROVE ZombieInv'
  BY <1>1, <1>S DEF SwitchedBack
<1>2. ASSUME NEW c \in CPUs, Resume(c) PROVE ZombieInv'
  <2>1. cproc[c] \in Slots /\ state[cproc[c]] = "RUNNING" /\ plock[cproc[c]] = c
    BY <1>2, CpuSlot DEF Resume, Resuming, SwitchInv
  <2>2. pc[cproc[c]] # "rwake"
    BY <2>1 DEF PlaceInv, PlaceAt, Unlocked
  <2>3. \A r \in Slots : r # cproc[c] => pc'[r] = pc[r]
    BY <1>2 DEF Resume
  <2> QED
    BY <1>2, <1>S, <2>2, <2>3 DEF Resume
<1>3. ASSUME NEW c \in CPUs, NEW p \in Slots, OwnStep(c, p), ~SleepSched(c, p), ~ExitZombie(c, p)
      PROVE ZombieInv'
  <2>1. /\ UNCHANGED <<parent, j>> /\ state'[p] \in {"RUNNABLE", "RUNNING"}
        /\ \A q \in Slots \ {p} : pc'[q] = pc[q] /\ state'[q] = state[q]
    <3> HIDE DEF TypeOK
    <3> QED
      BY ZenonT(30), <1>3, OwnStepFrame, OwnStepState
  <2>2. pc'[p] = pc[p] \/ pc[p] # "rwake"
    <3> HIDE DEF TypeOK
    <3> QED
      BY ZenonT(30), <1>3, OwnStepPlace DEF OwnPlace
  <2> QED
    BY <1>S, <2>1, <2>2
<1>4. ASSUME NEW c \in CPUs, NEW p \in Slots, NEW q \in Slots, Kill(c, p, q)
      PROVE ZombieInv'
  <2>1. \A r \in Slots : /\ state'[r] = "ZOMBIE" => state[r] = "ZOMBIE"
                         /\ state'[r] = "SLEEPING" => state[r] = "SLEEPING"
                         /\ pc[r] = "rwake" => pc'[r] = "rwake"
    BY <1>4 DEF Kill
  <2> QED
    BY <1>4, <1>S, <2>1 DEF Kill
<1>5. ASSUME NEW c \in CPUs, NEW p \in Slots,
             \/ ForkAlloc(c, p) \/ ForkFail(c, p) \/ ForkRun(c, p) \/ ForkParent(c, p)
             \/ WaitReap(c, p)
      PROVE ZombieInv'
  <2>1. \A q \in Slots : /\ state'[q] = "ZOMBIE" => state[q] = "ZOMBIE"
                         /\ state'[q] = "SLEEPING" => state[q] = "SLEEPING"
    BY <1>5 DEF ForkAlloc, ForkFail, ForkRun, ForkParent, WaitReap, FreeProc
  <2>2. \A k \in Slots : parent'[k] \in {parent[k], 0} \/ state[k] = "USED"
    BY <1>5 DEF ForkAlloc, ForkFail, ForkRun, ForkParent, WaitReap, FreeProc, ForkInv, Forking
  <2>3. \A r \in Slots : pc[r] = "rwake" => pc'[r] = "rwake" /\ j'[r] = j[r]
    <3>1. \A r \in Slots : pc[r] = "rwake" => state[r] = "RUNNING"
      BY <1>0 DEF HasWaitLock, WaitLocked
    <3> QED
      BY <1>5, <3>1 DEF ForkAlloc, ForkFail, ForkRun, ForkParent, WaitReap
  <2> QED
    BY <1>S, <2>1, <2>2, <2>3
<1>6. ASSUME NEW c \in CPUs, NEW p \in Slots, SleepSched(c, p) PROVE ZombieInv'
  <2>1. \A k \in Slots : ~(parent[k] = p /\ state[k] = "ZOMBIE")
    BY <1>6 DEF SleepSched, ScanInv
  <2>2. /\ parent' = parent /\ j' = j /\ state'[p] = "SLEEPING"
        /\ \A q \in Slots \ {p} : pc'[q] = pc[q] /\ state'[q] = state[q]
    BY <1>6 DEF SleepSched
  <2>3. pc[p] # "rwake"
    BY <1>6 DEF SleepSched
  <2> QED
    BY <1>S, <2>1, <2>2, <2>3
<1>7. ASSUME NEW c \in CPUs, NEW p \in Slots, ExitZombie(c, p) PROVE ZombieInv'
  <2>1. state[p] = "RUNNING" /\ pc[p] = "ezombie"
    BY <1>7, Actor DEF ExitZombie
  <2>2. state[parent[p]] # "SLEEPING"
    BY <2>1 DEF AwakeParentInv
  <2>3. /\ UNCHANGED <<parent, pc, j>> /\ state'[p] = "ZOMBIE"
        /\ \A q \in Slots \ {p} : state'[q] = state[q]
    BY <1>7 DEF ExitZombie
  <2> QED
    BY <1>S, <2>2, <2>3
<1>8. ASSUME NEW c \in CPUs, NEW p \in Slots, Reparent(c, p) PROVE ZombieInv'
  <2>1. HasWaitLock(p) /\ pc[p] = "reparent"
    BY <1>0, <1>8 DEF Reparent, WaitLocked
  <2>2. \A q, k \in Slots : ~Missed(q, k)
    BY <1>0, <2>1 DEF WaitLocked
  <2>3. state' = state
    BY <1>8 DEF Reparent
  <2>4. CASE parent' = parent
    BY <2>2, <2>3, <2>4 DEF ZombieInv
  <2>5. CASE parent' # parent
    <3>1. /\ \A k \in Slots : parent'[k] \in {parent[k], initproc}
          /\ pc'[p] = "rwake" /\ j'[p] = initproc
      BY <1>8, <2>5 DEF Reparent, initproc
    <3> QED
      BY <2>2, <2>3, <3>1 DEF ZombieInv
  <2> QED
    BY <2>4, <2>5
<1>9. ASSUME NEW c \in CPUs, NEW p \in Slots, WakeInit(c, p) PROVE ZombieInv'
  <2>1. HasWaitLock(p) /\ pc[p] = "rwake" /\ p # initproc
    BY <1>0, <1>9 DEF WakeInit, WaitLocked, FirstInv
  <2>2. \A r \in Slots : Wakes(r) => r = p
    BY <1>0, <2>1 DEF WaitLocked
  <2>3. parent' = parent /\ \A k \in Slots :
          /\ state'[k] = "ZOMBIE" => state[k] = "ZOMBIE"
          /\ state'[k] = "SLEEPING" => state[k] = "SLEEPING"
    BY <1>9 DEF WakeInit, WakeupOne
  <2>4. CASE j[p] = initproc
    <3>1. state[initproc] = "SLEEPING" => chan[initproc] = initproc
      BY DEF PlaceInv, PlaceAt, initproc
    <3>2. WakeupOne(p, initproc)
      BY <1>9, <2>4 DEF WakeInit, initproc, Slots
    <3>3. state'[initproc] # "SLEEPING"
      BY <2>1, <2>4, <3>1, <3>2 DEF WakeupOne, initproc
    <3> QED
      BY <1>0, <2>3, <3>3 DEF ZombieInv
  <2>5. CASE j[p] # initproc
    <3>1. \A q, k \in Slots : ~Missed(q, k)
      BY <1>0, <2>2, <2>5
    <3> QED
      BY <2>3, <3>1 DEF ZombieInv
  <2> QED
    BY <2>4, <2>5
<1>10. ASSUME NEW c \in CPUs, NEW p \in Slots, WakeParent(c, p) PROVE ZombieInv'
  <2>1. pc[p] = "pwake" /\ \A r \in Slots \ {p} : pc'[r] = pc[r] /\ j'[r] = j[r]
    BY <1>10 DEF WakeParent, WakeupOne
  <2>2. parent' = parent /\ \A k \in Slots :
          /\ state'[k] = "ZOMBIE" => state[k] = "ZOMBIE"
          /\ state'[k] = "SLEEPING" => state[k] = "SLEEPING"
    BY <1>10 DEF WakeParent, WakeupOne
  <2> QED
    BY <1>S, <2>1, <2>2
<1> QED
  BY <1>1, <1>2, <1>3, <1>4, <1>5, <1>6, <1>7, <1>8, <1>9, <1>10 DEF Next, Kernel, Switch, OwnStep

-----------------------------------------------------------------------------
(* The theorems. *)

\* userinit() establishes the invariant.
LEMMA InitProcInv ==
  Init => ProcInv
<1> SUFFICES ASSUME Init PROVE ProcInv
  OBVIOUS
<1>1. TypeOK
  BY SlotsFacts DEF Init, TypeOK, States, Places, Unlocked, initproc
<1>2. SwitchInv /\ PlaceInv /\ WaitLockInv
  BY DEF Init, SwitchInv, OnCpu, PlaceInv, PlaceAt, Unlocked, WaitLockInv, HasWaitLock, WaitLocked
<1>3. ForkInv /\ FirstInv /\ ReparentInv
  BY SlotsFacts DEF Init, ForkInv, Forking, FirstInv, ReparentInv, initproc
<1>4. ParentsLive
  BY DEF Init, ParentsLive
<1>5. AwakeParentInv /\ ScanInv /\ ZombieInv
  BY DEF Init, AwakeParentInv, ScanInv, ZombieInv
<1> QED
  BY <1>1, <1>2, <1>3, <1>4, <1>5 DEF ProcInv

\* The invariant is inductive.
LEMMA NextProcInv ==
  ProcInv /\ [Next]_vars => ProcInv'
<1>1. ASSUME ProcInv, Next PROVE ProcInv'
  BY <1>1, TypeStep, SwitchStep, PlaceStep, WaitLockStep, ForkStep, FirstStep, ParentsStep,
     ReparentStep, AwakeParentStep, ScanStep, ZombieStep DEF ProcInv
<1>2. ASSUME ProcInv, UNCHANGED vars PROVE ProcInv'
  <2>1. (TypeOK /\ SwitchInv)'
    BY <1>2 DEF vars, ProcInv, TypeOK, SwitchInv, OnCpu
  <2>2. (PlaceInv /\ WaitLockInv)'
    BY ZenonT(30), <1>2 DEF vars, ProcInv, PlaceInv, PlaceAt, WaitLockInv, HasWaitLock
  <2>3. (ForkInv /\ FirstInv /\ ParentsLive)'
    BY <1>2 DEF vars, ProcInv, ForkInv, Forking, FirstInv, ParentsLive
  <2>4. (ReparentInv /\ AwakeParentInv)'
    BY <1>2 DEF vars, ProcInv, ReparentInv, AwakeParentInv
  <2>5. (ScanInv /\ ZombieInv)'
    BY <1>2 DEF vars, ProcInv, ScanInv, ZombieInv
  <2> QED
    BY <2>1, <2>2, <2>3, <2>4, <2>5 DEF ProcInv
<1> QED
  BY <1>1, <1>2

\* The inductive invariant of kernel/proc.c holds in every reachable state, for
\* every size of the process table and every number of CPUs.
THEOREM ProcInvHolds == Spec => []ProcInv
BY InitProcInv, NextProcInv, PTL DEF Spec

\* No process runs on two CPUs, RUNNING means being on one (while p->lock is
\* free), and a CPU that has switched to its scheduler holds the lock of the
\* process it left and no other.
THEOREM OneCpuEachHolds == Spec => []OneCpuEach
<1>1. ProcInv => OneCpuEach
  <2> SUFFICES ASSUME ProcInv PROVE OneCpuEach
    OBVIOUS
  <2> USE SlotsFacts DEF ProcInv
  <2>1. ASSUME NEW p \in Slots, plock[p] = None PROVE state[p] = "RUNNING" <=> OnCpu(p)
    BY <2>1, OffCpu DEF SwitchInv, OnCpu
  <2>2. ASSUME NEW c \in CPUs, on[c] = "switched"
        PROVE  /\ plock[cproc[c]] = c /\ wait_lock # c
               /\ \A p \in Slots \ {cproc[c]} : plock[p] # c
    BY <2>2 DEF SwitchInv, WaitLockInv
  <2>3. \A c, d \in CPUs : cproc[c] = cproc[d] /\ cproc[c] # 0 => c = d
    BY DEF SwitchInv
  <2> QED
    BY ZenonT(30), <2>1, <2>2, <2>3 DEF OneCpuEach
<1> QED
  BY <1>1, ProcInvHolds, PTL

\* A slot that wait() has freed or allocproc() has taken is on no CPU: exit()
\* keeps p->lock until the scheduler is off the zombie's stack.
THEOREM FreedOffCpuHolds == Spec => []FreedOffCpu
<1>1. ProcInv => FreedOffCpu
  <2> SUFFICES ASSUME ProcInv, NEW p \in Slots, state[p] \in {"UNUSED", "USED"},
                      NEW c \in CPUs, cproc[c] = p
               PROVE  FALSE
    BY DEF FreedOffCpu, OnCpu
  <2>1. on[c] # "loop"
    BY SlotsFacts DEF ProcInv, SwitchInv
  <2>2. on[c] # "proc" /\ on[c] # "switched"
    BY DEF ProcInv, SwitchInv
  <2> QED
    BY <2>1, <2>2 DEF ProcInv, TypeOK
<1> QED
  BY <1>1, ProcInvHolds, PTL

\* Every child has a live parent: kexit() hands the children to the first
\* process before the slot can be freed by wait().
THEOREM ParentsLiveHolds == Spec => []ParentsLive
<1>1. ProcInv => ParentsLive
  BY DEF ProcInv
<1> QED
  BY <1>1, ProcInvHolds, PTL

\* While wait_lock is free no process sleeps in wait() with a zombie child: the
\* scan, the sleep and the wakeup() of exit() and reparent() cannot miss each
\* other.
THEOREM NoLostWakeupHolds == Spec => []NoLostWakeup
<1>1. ProcInv => NoLostWakeup
  <2> SUFFICES ASSUME ProcInv, NEW p \in Slots, NEW q \in Slots, wait_lock = None,
                      state[p] = "SLEEPING", parent[q] = p, state[q] = "ZOMBIE"
               PROVE  FALSE
    BY DEF NoLostWakeup
  <2>1. PICK r \in Slots : pc[r] = "rwake"
    BY DEF ProcInv, ZombieInv
  <2> QED
    BY <2>1, Holder DEF ProcInv, WaitLocked
<1> QED
  BY <1>1, ProcInvHolds, PTL

\* A process that steps does not free its slot, nor mark anybody killed.
LEMMA OwnStepUsed ==
  ASSUME ProcInv, NEW c \in CPUs, NEW p \in Slots, OwnStep(c, p)
  PROVE  killed' = killed /\ \A q \in Slots : state'[q] = "UNUSED" => state[q] = "UNUSED"
<1>1. TypeOK /\ SwitchInv /\ PlaceInv
  BY DEF ProcInv
<1>2. killed' = killed /\ \A q \in Slots \ {p} : state'[q] = state[q]
  BY ZenonT(30), <1>1, OwnStepFrame
<1>3. state'[p] # "UNUSED"
  BY ZenonT(30), <1>1, OwnStepState
<1> QED
  BY <1>2, <1>3

\* Unless a program calls kill(0), which matches the free slots' pid, a free slot
\* is not marked killed, and no new process starts out killed.
THEOREM FreeNotKilledHolds == ASSUME ~KillZero PROVE Spec => []FreeNotKilled
<1>1. Init => FreeNotKilled
  BY DEF Init, FreeNotKilled
<1>2. ASSUME ProcInv, FreeNotKilled, Next PROVE FreeNotKilled'
  <2> USE DEF FreeNotKilled, TypeOK, At, lockVars, cpuVars
  <2>0. TypeOK
    BY <1>2 DEF ProcInv
  <2>1. ASSUME NEW c \in CPUs, SwitchedBack(c) \/ Resume(c) PROVE FreeNotKilled'
    BY <1>2, <2>1 DEF SwitchedBack, Resume
  <2>2. ASSUME NEW c \in CPUs, NEW p \in Slots,
               OwnStep(c, p) \/ ForkParent(c, p) \/ Reparent(c, p)
        PROVE FreeNotKilled'
    <3>1. CASE OwnStep(c, p)
      <4>1. killed' = killed /\ \A q \in Slots : state'[q] = "UNUSED" => state[q] = "UNUSED"
        BY ZenonT(30), <1>2, <3>1, OwnStepUsed
      <4> QED
        BY <1>2, <4>1
    <3>2. CASE ForkParent(c, p) \/ Reparent(c, p)
      BY <1>2, <3>2 DEF ForkParent, Reparent
    <3> QED
      BY <2>2, <3>1, <3>2
  <2>3. ASSUME NEW c \in CPUs, NEW p \in Slots, NEW q \in Slots, Kill(c, p, q)
        PROVE FreeNotKilled'
    <3>1. state[q] # "UNUSED"
      BY <2>3 DEF Kill
    <3>2. \A r \in Slots : state'[r] = "UNUSED" => state[r] = "UNUSED" /\ killed'[r] = killed[r]
      BY ZenonT(30), <2>0, <2>3, <3>1 DEF Kill
    <3> QED
      BY <1>2, <3>2
  <2>4. ASSUME NEW c \in CPUs, NEW p \in Slots,
               ForkAlloc(c, p) \/ ForkFail(c, p) \/ ForkRun(c, p) \/ WaitReap(c, p)
        PROVE FreeNotKilled'
    <3>1. CASE ForkAlloc(c, p) \/ ForkRun(c, p)
      <4>1. killed' = killed /\ \A q \in Slots : state'[q] = "UNUSED" => state[q] = "UNUSED"
        BY <2>0, <3>1 DEF ForkAlloc, ForkRun
      <4> QED
        BY <1>2, <4>1
    <3>2. CASE ForkFail(c, p) \/ WaitReap(c, p)
      <4>1. PICK q : FreeProc(q)
        BY <3>2 DEF ForkFail, WaitReap
      <4>2. \A r \in Slots : r # q => state'[r] = state[r] /\ killed'[r] = killed[r]
        BY <2>0, <4>1 DEF FreeProc
      <4>3. q \in Slots => ~killed'[q]
        BY <2>0, <4>1 DEF FreeProc
      <4> QED
        BY <1>2, <4>2, <4>3
    <3> QED
      BY <2>4, <3>1, <3>2
  <2>5. ASSUME NEW c \in CPUs, NEW p \in Slots, WakeInit(c, p) \/ WakeParent(c, p)
        PROVE FreeNotKilled'
    <3>1. killed' = killed /\ \A q \in Slots : state'[q] = "UNUSED" => state[q] = "UNUSED"
      BY <2>0, <2>5 DEF WakeInit, WakeParent, WakeupOne
    <3> QED
      BY <1>2, <3>1
  <2> QED
    BY ZenonT(30), <1>2, <2>1, <2>2, <2>3, <2>4, <2>5 DEF Next, Kernel, Switch, OwnStep
<1>3. ASSUME FreeNotKilled, UNCHANGED vars PROVE FreeNotKilled'
  BY <1>3 DEF FreeNotKilled, vars
<1>4. ProcInv /\ FreeNotKilled /\ [Next]_vars => FreeNotKilled'
  BY <1>2, <1>3
<1> QED
  BY <1>1, <1>4, ProcInvHolds, PTL DEF Spec

=============================================================================
