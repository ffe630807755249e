------------------------------- MODULE MCLive -------------------------------
(***************************************************************************)
(* Liveness of finite workloads: the log, processes, the disk driver, a    *)
(* shell pipeline, the UART and sleep locks, one of them in each           *)
(* behaviour.  The parts do not interact here and share the variables v1   *)
(* to v20.                                                                 *)
(***************************************************************************)
EXTENDS Integers

CONSTANTS p1, p2, p3, b1, b2, c1, c2, d1, x, y, Torn, None, Intr

VARIABLES part, v1, v2, v3, v4, v5, v6, v7, v8, v9, v10, v11, v12,
    v13, v14, v15, v16, v17, v18, v19, v20

Three == {p1, p2, p3}

LogLive == INSTANCE MCLogLive WITH
    disk <- v1, dlog <- v2, dhead <- v3, cache <- v4, refcnt <- v5, holder <- v6,
    lh <- v7, outstanding <- v8, committing <- v9, pc <- v10, tail <- v11,
    touched <- v12, uses <- v13, Procs <- Three, Blocks <- {b1, b2}, MaxUses <- 7,
    InitProc <- p1, Data <- {d1}, MAXOPBLOCKS <- 2, OPBLOCKS <- 1, LOGBLOCKS <- 4
Table == INSTANCE MCProcLive WITH
    state <- v1, parent <- v2, killed <- v3, chan <- v4, plock <- v5, wait_lock <- v6,
    cproc <- v7, on <- v8, pc <- v9, i <- v10, j <- v11, havekids <- v12, calls <- v13,
    yields <- v14, NPROC <- 3, CPUs <- {c1, c2}, KillZero <- FALSE, MaxCalls <- 3,
    MaxYields <- 1
Disk == INSTANCE MCVirtioLive WITH
    free <- v1, desc <- v2, ops <- v3, info_b <- v4, info_status <- v5, avail <- v6,
    avail_idx <- v7, used <- v8, used_idx <- v9, seen_idx <- v10, vdisk_lock <- v11,
    b_disk <- v12, data <- v13, pc <- v14, head <- v15, blocks <- v16, dev_idx <- v17,
    taken <- v18, pending <- v19, calls <- v20, Procs <- Three, Data <- {d1}, NUM <- 4,
    IDXS <- 8, MaxCalls <- 8
Pipeline == INSTANCE MCPipeline WITH
    data <- v1, nread <- v2, nwrite <- v3, open <- v4, freed <- v5, lock <- v6,
    ref <- v7, holds <- v8, killed <- v9, pc <- v10, left <- v11, todo <- v12,
    received <- v13, eof <- v14, Procs <- Three, Creator <- p1, Left <- p2, Right <- p3,
    Byte <- {x, y}, PIPESIZE <- 2, UINTS <- 4, MaxN <- 3, Total <- 6, Kills <- FALSE
Console == INSTANCE Uart WITH
    thr <- v1, thri <- v2, rx <- v3, tx_busy <- v4, tx_lock <- v5, pc <- v6, i <- v7,
    h <- v8, k <- v9, typed <- v10, prints <- v11, Writers <- {p1, p2}, Length <- 2,
    MaxTyped <- 2, MaxPrints <- 2
Lock == INSTANCE Sleeplock WITH
    lk <- v1, plock <- v2, locked <- v3, pid <- v4, asleep <- v5, pc <- v6, i <- v7,
    rounds <- v8, kills <- v9, NPROC <- 3, Rounds <- 2, MaxKills <- 1

\* The variables from vN on, which a part does not use.
Z20 == v20 = 0
Z19 == v19 = 0 /\ Z20
Z18 == v18 = 0 /\ Z19
Z17 == v17 = 0 /\ Z18
Z16 == v16 = 0 /\ Z17
Z15 == v15 = 0 /\ Z16
Z14 == v14 = 0 /\ Z15
Z13 == v13 = 0 /\ Z14
Z12 == v12 = 0 /\ Z13
Z11 == v11 = 0 /\ Z12
Z10 == v10 = 0 /\ Z11
U20 == <<v20>>
U19 == <<v19, U20>>
U18 == <<v18, U19>>
U17 == <<v17, U18>>
U16 == <<v16, U17>>
U15 == <<v15, U16>>
U14 == <<v14, U15>>
U13 == <<v13, U14>>
U12 == <<v12, U13>>
U11 == <<v11, U12>>
U10 == <<v10, U11>>
all == <<part, v1, v2, v3, v4, v5, v6, v7, v8, v9, U10>>

Init ==
    \/ part = "log" /\ LogLive!LiveInit /\ Z14
    \/ part = "proc" /\ Table!LiveInit /\ Z15
    \/ part = "disk" /\ Disk!LiveInit
    \/ part = "pipeline" /\ Pipeline!LiveInit /\ Z15
    \/ part = "console" /\ Console!Init /\ Z12
    \/ part = "lock" /\ Lock!Init /\ Z10

LogNext == part = "log" /\ LogLive!LiveNext /\ UNCHANGED <<part, U14>>
ProcNext == part = "proc" /\ Table!LiveNext /\ UNCHANGED <<part, U15>>
DiskNext == part = "disk" /\ Disk!LiveNext /\ UNCHANGED part
PipelineNext == part = "pipeline" /\ Pipeline!LiveNext /\ UNCHANGED <<part, U15>>
ConsoleNext == part = "console" /\ Console!Next /\ UNCHANGED <<part, U12>>
LockNext == part = "lock" /\ Lock!Next /\ UNCHANGED <<part, U10>>
Next == LogNext \/ ProcNext \/ DiskNext \/ PipelineNext \/ ConsoleNext \/ LockNext

\* Work that was started goes on; nobody need start a call, type or print.
LogWork ==
    part = "log" /\ (\E p \in Three : LogLive!Step(p)) /\ UNCHANGED <<part, v13, U14>>
ConsoleWork ==
    /\ part = "console" /\ UNCHANGED <<part, U12>>
    /\ \/ Console!Send \/ Console!Handler \/ Console!Printing
       \/ \E p \in {p1, p2} : Console!Writer(p)
LockWork == part = "lock" /\ (\E p \in 1..3 : Lock!Step(p)) /\ UNCHANGED <<part, U10>>

\* The disk's waiters can wake each other up for ever, so there each actor
\* goes on by itself.
OnDisk(A) == part = "disk" /\ A /\ UNCHANGED <<part, v20>>

Spec ==
    /\ Init /\ [][Next]_all
    /\ WF_all(LogWork) /\ WF_all(ProcNext)
    /\ WF_all(OnDisk(Disk!Interrupt)) /\ WF_all(OnDisk(Disk!DevTake))
    /\ \A h \in 0..3 : WF_all(OnDisk(Disk!DevComplete(h)))
    /\ \A p \in Three : WF_all(OnDisk(Disk!Driver(p)))
    /\ WF_all(PipelineNext)
    /\ WF_all(ConsoleWork)
    /\ WF_all(LockWork)
-----------------------------------------------------------------------------
(* Properties, each of its part *)

\* begin_op(), end_op(), commit(): whoever sleeps for a commit or for log space is
\* woken, every call ends and every update gets home to disk.
Quiesces == <>[](part = "log" => LogLive!Quiet)
\* Every process ends as a free slot: no sleeper in wait() misses the exit of its
\* child, no exiting process is stuck on a lock, and orphans find their way to the
\* first process, which reaps them (kexit(), reparent(), kwait()).
AllReaped == <>[](part = "proc" => Table!Reaped)
\* virtio_disk_rw(): every request returns, and every descriptor is free again; no
\* process waits for ever for descriptors or for a completion, though the waiters
\* keep waking each other up (alloc3_desc() gives back what it got).
RequestsReturn == <>[](part = "disk" => Disk!Returned)
\* A pipeline of the shell ends: every byte written is read, the reader sees end of
\* file exactly after the last one, everybody leaves, and the pipe is freed.
PipelineEnds == <>[](part = "pipeline" => Pipeline!Ended)
\* uartwrite(): every write to the console ends.
WritesEnd == <>[](part = "console" => \A p \in {p1, p2} : Console!Written(p))
\* acquiresleep(): everyone gets the lock.
EveryoneLocks == <>[](part = "lock" => \A p \in 1..3 : Lock!Served(p))
\* Between acquiresleep() and releasesleep() a process is alone.
SleepMutex == part = "lock" => Lock!SleepMutex
\* sleep() and wakeup(): nobody sleeps beside what it waits for.  acquiresleep()
\* sleeps only while the lock is taken or its release is on the way to the sleeper,
\* piperead() only while the pipe is empty, and uartwrite() only while an interrupt
\* that wakes it is still to come or being handled.
NoLostWakeup ==
    /\ part = "lock" => Lock!NoLostWakeup
    /\ part = "pipeline" => Pipeline!ReaderSleepsOnlyWhenEmpty
    /\ part = "console" => Console!NoLostTransmit
=============================================================================
