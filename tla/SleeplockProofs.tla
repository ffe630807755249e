--------------------------- MODULE SleeplockProofs --------------------------
(***************************************************************************)
(* Sleep locks, for any number of processes: mutual exclusion, and no      *)
(* wakeup that falls between a look at the lock and the sleep.             *)
(***************************************************************************)
EXTENDS Sleeplock, TLAPS

USE SMTT(20), ZenonT(20)
USE DEF Procs, Goto
-----------------------------------------------------------------------------
(* The inductive invariant. *)

Places == {"acquiresleep", "test", "sleep", "unlock", "sched", "asleep", "critical",
           "release", "wakeup", "woke", "done"}

TypeOK ==
    /\ lk \in 0..NPROC /\ plock \in [Procs -> 0..NPROC]
    /\ locked \in BOOLEAN /\ pid \in 0..NPROC
    /\ asleep \subseteq Procs
    /\ pc \in [Procs -> Places] /\ i \in [Procs -> 1..NPROC + 1]

\* Who holds lk->lk and whose p->lock.
LocksHeld ==
    \A p \in Procs :
        /\ pc[p] \in {"test", "sleep", "unlock", "release", "wakeup", "woke"} => lk = p
        /\ pc[p] \in {"unlock", "sched"} => plock[p] = p
        /\ pc[p] = "woke" => i[p] \in Procs \ {p} /\ plock[i[p]] = p

\* A release of the lock is on its way to p.
Coming(p) == \E q \in Procs : pc[q] \in {"wakeup", "woke"} /\ i[q] <= p

\* From the look at the lock on, it is taken, or the wakeup is yet to come to p.
Awaited ==
    \A p \in Procs :
        /\ pc[p] \in {"sleep", "unlock"} => locked
        /\ pc[p] = "sched" \/ p \in asleep => locked \/ Coming(p)
        /\ p \in asleep => pc[p] = "asleep"

SInv == TypeOK /\ LocksHeld /\ SleepMutex /\ Awaited
-----------------------------------------------------------------------------
\* Nobody has a lock and nobody sleeps when the processes start.
LEMMA InitSInv ==
  ASSUME NPROC \in Nat, Init PROVE SInv
<1>1. TypeOK
  <2>1. locked \in BOOLEAN /\ asleep \subseteq Procs
    BY ZenonT(30) DEF Init
  <2>2. /\ lk \in 0..NPROC /\ plock \in [Procs -> 0..NPROC] /\ pid \in 0..NPROC
        /\ pc \in [Procs -> Places] /\ i \in [Procs -> 1..NPROC + 1]
    BY DEF Init, Places
  <2> QED
    BY <2>1, <2>2 DEF TypeOK
<1>2. LocksHeld /\ SleepMutex /\ Awaited
  BY DEF Init, LocksHeld, SleepMutex, Awaited
<1> QED
  BY <1>1, <1>2 DEF SInv

\* acquiresleep(), up to the test of lk->locked, and sleep() with its locks.
LEMMA AcquireSInv ==
  ASSUME NPROC \in Nat, SInv, NEW p \in Procs,
         Acquire(p) \/ Test(p) \/ SleepLock(p) \/ SleepUnlock(p) \/ Sched(p) \/ Resume(p)
  PROVE  SInv'
<1> USE DEF SInv
<1>1. CASE Acquire(p)
  <2>1. TypeOK'
    BY <1>1 DEF Acquire, TypeOK, Places
  <2>2. LocksHeld'
    BY <1>1 DEF Acquire, TypeOK, LocksHeld
  <2>3. SleepMutex'
    BY <1>1 DEF Acquire, TypeOK, LocksHeld, SleepMutex
  <2>4. \A q \in Procs : Coming(q) => Coming(q)'
    BY <1>1 DEF Acquire, TypeOK, Coming
  <2>5. Awaited'
    BY <1>1, <2>4 DEF Acquire, TypeOK, LocksHeld, Awaited
  <2> QED
    BY <2>1, <2>2, <2>3, <2>5
<1>2. CASE Test(p)
  <2>1. TypeOK'
    <3>1. locked' \in BOOLEAN
      BY ZenonT(30), <1>2 DEF Test, TypeOK
    <3>2. asleep' \subseteq Procs
      BY <1>2 DEF Test, TypeOK
    <3>3. /\ lk' \in 0..NPROC /\ plock' \in [Procs -> 0..NPROC] /\ pid' \in 0..NPROC
          /\ pc' \in [Procs -> Places] /\ i' \in [Procs -> 1..NPROC + 1]
      <4>1. /\ plock' = plock /\ i' = i
            /\ \/ lk' = lk /\ pid' = pid /\ pc' = [pc EXCEPT ![p] = "sleep"]
               \/ lk' = 0 /\ pid' = p /\ pc' = [pc EXCEPT ![p] = "critical"]
        BY ZenonT(30), <1>2 DEF Test
      <4>2. /\ lk \in 0..NPROC /\ plock \in [Procs -> 0..NPROC] /\ pid \in 0..NPROC
            /\ pc \in [Procs -> Places] /\ i \in [Procs -> 1..NPROC + 1]
        BY ZenonT(30) DEF TypeOK
      <4>3. "sleep" \in Places /\ "critical" \in Places
        BY DEF Places
      <4>4. pc' \in [Procs -> Places]
        <5> HIDE DEF Procs
        <5> QED
          BY <4>1, <4>2, <4>3
      <4>5. lk' \in 0..NPROC /\ pid' \in 0..NPROC
        BY <4>1, <4>2
      <4> QED
        BY ZenonT(30), <4>1, <4>2, <4>4, <4>5
    <3> QED
      BY ZenonT(30), <3>1, <3>2, <3>3 DEF TypeOK
  <2>2. LocksHeld'
    BY <1>2 DEF Test, TypeOK, LocksHeld
  <2>3. SleepMutex'
    BY <1>2 DEF Test, TypeOK, LocksHeld, SleepMutex
  <2>4. \A q \in Procs : Coming(q) => Coming(q)'
    BY ZenonT(30), <1>2 DEF Test, TypeOK, Coming
  <2>5. Awaited'
    BY <1>2, <2>4 DEF Test, TypeOK, LocksHeld, Awaited
  <2> QED
    BY <2>1, <2>2, <2>3, <2>5
<1>3. CASE SleepLock(p)
  <2>1. TypeOK'
    BY <1>3 DEF SleepLock, TypeOK, Places
  <2>2. LocksHeld'
    BY <1>3 DEF SleepLock, TypeOK, LocksHeld
  <2>3. SleepMutex'
    BY <1>3 DEF SleepLock, TypeOK, LocksHeld, SleepMutex
  <2>4. \A q \in Procs : Coming(q) => Coming(q)'
    BY <1>3 DEF SleepLock, TypeOK, Coming
  <2>5. Awaited'
    BY <1>3, <2>4 DEF SleepLock, TypeOK, LocksHeld, Awaited
  <2> QED
    BY <2>1, <2>2, <2>3, <2>5
<1>4. CASE SleepUnlock(p)
  <2>1. TypeOK'
    BY <1>4 DEF SleepUnlock, TypeOK, Places
  <2>2. LocksHeld'
    BY <1>4 DEF SleepUnlock, TypeOK, LocksHeld
  <2>3. SleepMutex'
    BY <1>4 DEF SleepUnlock, TypeOK, LocksHeld, SleepMutex
  <2>4. \A q \in Procs : Coming(q) => Coming(q)'
    BY <1>4 DEF SleepUnlock, TypeOK, Coming
  <2>5. Awaited'
    BY <1>4, <2>4 DEF SleepUnlock, TypeOK, LocksHeld, Awaited
  <2> QED
    BY <2>1, <2>2, <2>3, <2>5
<1>5. CASE Sched(p)
  <2>1. TypeOK'
    BY <1>5 DEF Sched, TypeOK, Places
  <2>2. LocksHeld'
    BY <1>5 DEF Sched, TypeOK, LocksHeld
  <2>3. SleepMutex'
    BY <1>5 DEF Sched, TypeOK, LocksHeld, SleepMutex
  <2>4. \A q \in Procs : Coming(q) => Coming(q)'
    BY <1>5 DEF Sched, TypeOK, Coming
  <2>5. Awaited'
    BY <1>5, <2>4 DEF Sched, TypeOK, LocksHeld, Awaited
  <2> QED
    BY <2>1, <2>2, <2>3, <2>5
<1>6. CASE Resume(p)
  <2>1. TypeOK'
    BY <1>6 DEF Resume, TypeOK, Places
  <2>2. LocksHeld'
    BY <1>6 DEF Resume, TypeOK, LocksHeld
  <2>3. SleepMutex'
    BY <1>6 DEF Resume, TypeOK, LocksHeld, SleepMutex
  <2>4. \A q \in Procs : Coming(q) => Coming(q)'
    BY <1>6 DEF Resume, TypeOK, Coming
  <2>5. Awaited'
    BY <1>6, <2>4 DEF Resume, TypeOK, LocksHeld, Awaited
  <2> QED
    BY <2>1, <2>2, <2>3, <2>5
<1> QED
  BY <1>1, <1>2, <1>3, <1>4, <1>5, <1>6

\* releasesleep() clears the lock: whoever is asleep or about to be is still ahead of
\* wakeup()'s index.
LEMMA ReleaseSInv ==
  ASSUME NPROC \in Nat, SInv, NEW p \in Procs, Release(p) PROVE SInv'
<1> USE DEF SInv
<1>1. TypeOK'
  <2>1. locked' \in BOOLEAN
    BY ZenonT(30) DEF Release, TypeOK
  <2>2. asleep' \subseteq Procs
    BY DEF Release, TypeOK
  <2>3. /\ lk' \in 0..NPROC /\ plock' \in [Procs -> 0..NPROC] /\ pid' \in 0..NPROC
        /\ pc' \in [Procs -> Places] /\ i' \in [Procs -> 1..NPROC + 1]
    BY DEF Release, TypeOK, Places
  <2> QED
    BY ZenonT(30), <2>1, <2>2, <2>3 DEF TypeOK
<1>2. LocksHeld'
  BY DEF Release, TypeOK, LocksHeld
<1>3. \A q \in Procs : pc[q] \in {"critical", "release"} => q = p
  BY DEF Release, TypeOK, SleepMutex
<1>4. SleepMutex'
  BY <1>3 DEF Release, TypeOK, SleepMutex
<1>5. \A q \in Procs : pc'[q] \notin {"sleep", "unlock"}
  BY DEF Release, TypeOK, LocksHeld
<1>6. \A q \in Procs : Coming(q)'
  BY DEF Release, TypeOK, Coming
<1>7. Awaited'
  BY <1>5, <1>6 DEF Release, TypeOK, Awaited
<1> QED
  BY <1>1, <1>2, <1>4, <1>7

\* wakeup() goes on to the next process: it passes nobody who sleeps, because it has
\* the process's lock when it looks, and a process that is about to sleep has it too.
LEMMA WakeupSInv ==
  ASSUME NPROC \in Nat, SInv, NEW p \in Procs,
         WakeupLock(p) \/ Wakeup(p) \/ WakeupSelf(p) \/ Released(p)
  PROVE  SInv'
<1> USE DEF SInv
<1>1. CASE WakeupLock(p)
  <2>1. TypeOK'
    BY <1>1 DEF WakeupLock, TypeOK, Places
  <2>2. LocksHeld'
    BY <1>1 DEF WakeupLock, TypeOK, LocksHeld
  <2>3. SleepMutex'
    BY <1>1 DEF WakeupLock, TypeOK, LocksHeld, SleepMutex
  <2>4. \A q \in Procs : Coming(q) => Coming(q)'
    BY <1>1 DEF WakeupLock, TypeOK, Coming
  <2>5. Awaited'
    BY <1>1, <2>4 DEF WakeupLock, TypeOK, LocksHeld, Awaited
  <2> QED
    BY <2>1, <2>2, <2>3, <2>5
<1>2. CASE Wakeup(p)
  <2>0. i[p] \in Procs /\ i[p] + 1 \in 1..NPROC + 1
    BY <1>2 DEF Wakeup, TypeOK, LocksHeld
  <2>1. TypeOK'
    <3>1. locked' \in BOOLEAN
      BY <1>2, <2>0 DEF Wakeup, TypeOK
    <3>2. asleep' \subseteq Procs
      BY ZenonT(30), <1>2, <2>0 DEF Wakeup, TypeOK
    <3>3. /\ lk' \in 0..NPROC /\ plock' \in [Procs -> 0..NPROC] /\ pid' \in 0..NPROC
          /\ pc' \in [Procs -> Places] /\ i' \in [Procs -> 1..NPROC + 1]
      BY <1>2, <2>0 DEF Wakeup, TypeOK, Places
    <3> QED
      BY ZenonT(30), <3>1, <3>2, <3>3 DEF TypeOK
  <2>2. pc[i[p]] \notin {"unlock", "sched"}
    BY <1>2, <2>0 DEF Wakeup, TypeOK, LocksHeld
  <2>3. LocksHeld'
    BY <1>2, <2>0, <2>2 DEF Wakeup, TypeOK, LocksHeld
  <2>4. SleepMutex'
    BY <1>2 DEF Wakeup, TypeOK, SleepMutex
  <2>5. ASSUME NEW q \in Procs, Coming(q), q # i[p] PROVE Coming(q)'
    <3>1. PICK r \in Procs : pc[r] \in {"wakeup", "woke"} /\ i[r] <= q
      BY ZenonT(30), <2>5 DEF Coming
    <3>2. pc'[r] \in {"wakeup", "woke"} /\ i'[r] <= q
      BY <1>2, <2>0, <2>5, <3>1 DEF Wakeup, TypeOK, LocksHeld
    <3> QED
      BY ZenonT(30), <3>2 DEF Coming
  <2>6. Awaited'
    BY <1>2, <2>0, <2>2, <2>5 DEF Wakeup, TypeOK, Awaited, LocksHeld
  <2> QED
    BY <2>1, <2>3, <2>4, <2>6
<1>3. CASE WakeupSelf(p)
  <2>0. i[p] + 1 \in 1..NPROC + 1
    BY <1>3 DEF WakeupSelf
  <2>1. TypeOK'
    BY <1>3, <2>0 DEF WakeupSelf, TypeOK
  <2>2. LocksHeld'
    BY <1>3 DEF WakeupSelf, TypeOK, LocksHeld
  <2>3. SleepMutex'
    BY <1>3 DEF WakeupSelf, TypeOK, SleepMutex
  <2>4. ASSUME NEW q \in Procs, Coming(q), q # p PROVE Coming(q)'
    BY <1>3, <2>4 DEF WakeupSelf, TypeOK, LocksHeld, Coming
  <2>5. Awaited'
    BY <1>3, <2>4 DEF WakeupSelf, TypeOK, Awaited
  <2> QED
    BY <2>1, <2>2, <2>3, <2>5
<1>4. CASE Released(p)
  <2>1. TypeOK'
    BY <1>4 DEF Released, TypeOK, Places
  <2>2. LocksHeld'
    BY <1>4 DEF Released, TypeOK, LocksHeld
  <2>3. SleepMutex'
    BY <1>4 DEF Released, TypeOK, LocksHeld, SleepMutex
  <2>4. \A q \in Procs : Coming(q) => Coming(q)'
    <3>1. \A q \in Procs : ~(i[p] <= q)
      BY <1>4 DEF Released, TypeOK, Procs
    <3>2. i' = i /\ \A r \in Procs : r # p => pc'[r] = pc[r]
      BY <1>4 DEF Released, TypeOK
    <3> QED
      BY ZenonT(30), <3>1, <3>2 DEF Coming
  <2>5. Awaited'
    BY <1>4, <2>4 DEF Released, TypeOK, LocksHeld, Awaited
  <2> QED
    BY <2>1, <2>2, <2>3, <2>5
<1> QED
  BY <1>1, <1>2, <1>3, <1>4

\* kill() makes a sleeper run again, which is no longer asleep.
LEMMA KillSInv ==
  ASSUME NPROC \in Nat, SInv, NEW p \in Procs, Kill(p) PROVE SInv'
<1>1. TypeOK'
  BY DEF SInv, Kill, TypeOK
<1>2. LocksHeld' /\ SleepMutex'
  BY ZenonT(30) DEF SInv, Kill, LocksHeld, SleepMutex
<1>3. \A q \in Procs : Coming(q) => Coming(q)'
  BY ZenonT(30) DEF Kill, Coming
<1>4. Awaited'
  BY ZenonT(30), <1>3 DEF SInv, Kill, Awaited
<1> QED
  BY ZenonT(30), <1>1, <1>2, <1>4 DEF SInv

\* The inductive invariant holds in every reachable state.
LEMMA SleeplockInvariant ==
  ASSUME NPROC \in Nat PROVE Spec => []SInv
<1>0. Init => SInv
  BY InitSInv
<1>1. SInv /\ [Next]_vars => SInv'
  <2> SUFFICES ASSUME SInv, [Next]_vars PROVE SInv'
    OBVIOUS
  <2>1. CASE UNCHANGED vars
    BY <2>1 DEF vars, SInv, TypeOK, LocksHeld, SleepMutex, Awaited, Coming
  <2>2. ASSUME NEW p \in Procs, Step(p) \/ Kill(p) PROVE SInv'
    BY <2>2, AcquireSInv, ReleaseSInv, WakeupSInv, KillSInv DEF Step
  <2> QED
    BY <2>1, <2>2 DEF Next
<1> QED
  BY <1>0, <1>1, PTL DEF Spec

\* Between acquiresleep() and releasesleep() a process is alone, for any number of
\* processes, and holdingsleep() is true for it.
THEOREM SleepMutexHolds ==
  ASSUME NPROC \in Nat PROVE Spec => []SleepMutex
<1>1. SInv => SleepMutex
  BY DEF SInv
<1> QED
  BY <1>1, SleeplockInvariant, PTL

\* sleep() and wakeup() lose no wakeup: while anyone sleeps, the lock is taken or the
\* releasing process has not yet come to it.
THEOREM NoLostWakeupHolds ==
  ASSUME NPROC \in Nat PROVE Spec => []NoLostWakeup
<1>1. SInv => NoLostWakeup
  BY DEF SInv, TypeOK, Awaited, Coming, NoLostWakeup
<1> QED
  BY <1>1, SleeplockInvariant, PTL
=============================================================================
