-------------------------------- MODULE Log --------------------------------
(***************************************************************************)
(* The redo log of kernel/log.c, over the buffer cache of kernel/bio.c.    *)
(*                                                                         *)
(* Processes make file-system calls: begin_op, any number of               *)
(* bread/log_write/brelse, end_op.  The call that brings `outstanding` to  *)
(* zero commits: it copies every logged block to the log (write_log),      *)
(* writes the header (the commit point), installs the blocks at their home *)
(* locations, and clears the header.  Every disk write is one step, so the *)
(* power may fail between any two of them, or in the middle of one: a      *)
(* block is two disk sectors, and a write that is cut off leaves it Torn.  *)
(* After a power failure the first process runs recover_from_log, which    *)
(* can itself be cut off.                                                  *)
(*                                                                         *)
(* Log blocks are numbered from 1 here (tail + 1 in the code); the buffers *)
(* of the log blocks and of the header are written through, so reading     *)
(* them yields what is on disk.  A buffer's content is one value.          *)
(***************************************************************************)
EXTENDS Integers, Sequences, FiniteSets

CONSTANTS
    Procs,          \* processes that make file-system calls
    InitProc,       \* the first process: runs recovery from forkret()
    Blocks,         \* home locations: every block outside the log
    Data,           \* what a block can hold
    Torn,           \* a block whose write was cut off by a power failure
    None,           \* no process, or no valid buffer
    MAXOPBLOCKS,    \* log space begin_op reserves for a call
    OPBLOCKS,       \* the most distinct blocks one call really writes
    LOGBLOCKS       \* data blocks in the on-disk log

ASSUME ProcsAssumption == IsFiniteSet(Procs) /\ InitProc \in Procs
ASSUME DataAssumption == Torn \notin Data /\ None \notin Data /\ None # Torn
ASSUME NoneAssumption == None \notin Procs
ASSUME BoundsAssumption ==
    /\ MAXOPBLOCKS \in Nat \ {0}
    /\ OPBLOCKS \in Nat
    /\ OPBLOCKS <= MAXOPBLOCKS
    /\ LOGBLOCKS \in Nat
    /\ MAXOPBLOCKS <= LOGBLOCKS

VARIABLES
    disk,           \* home locations on disk
    dlog,           \* the log's data blocks on disk
    dhead,          \* the header on disk: the first n entries of block[]
    cache,          \* the valid buffer of a block, None if it has none
    refcnt,         \* b->refcnt
    holder,         \* the process that holds b->lock
    lh,             \* log.lh: the first n entries of block[]
    outstanding,    \* log.outstanding
    committing,     \* log.committing
    pc,             \* where a process is
    tail,           \* its loop index in write_log and install_trans
    touched         \* the blocks its call has logged

diskVars == <<disk, dlog, dhead>>
bufVars == <<cache, refcnt, holder>>
logVars == <<lh, outstanding, committing>>
procVars == <<pc, tail, touched>>
vars == <<disk, dlog, dhead, cache, refcnt, holder, lh, outstanding,
          committing, pc, tail, touched>>

Recovering == {"rhead", "rinstall", "rclear"}
Commits == {"commit", "wlog", "whead", "install", "clear", "done"}
Places == Recovering \cup Commits
          \cup {"off", "idle", "begin", "asleep", "inop", "panic"}

LogIndex == 1..LOGBLOCKS

\* What bread returns: a valid buffer as it is, or the block read from disk.
Contents(b) == IF cache[b] # None THEN cache[b] ELSE disk[b]

Entries(head) == {head[i] : i \in 1..Len(head)}

Goto(p, place) == pc' = [pc EXCEPT ![p] = place]

\* wakeup(&log), by p, which goes on at `place`: every sleeper in begin_op
\* is to look again.
WakeupGoto(p, place) ==
    pc' = [q \in Procs |-> IF q = p THEN place
                           ELSE IF pc[q] = "asleep" THEN "begin" ELSE pc[q]]

HoldsNone(p) == \A b \in Blocks : holder[b] # p
-----------------------------------------------------------------------------
\* A freshly booted machine: memory is zero, only the first process runs.
BootPc == [p \in Procs |-> IF p = InitProc THEN "rhead" ELSE "off"]

\* mkfs leaves a log with an empty header.
Init ==
    /\ disk \in [Blocks -> Data]
    /\ \E d \in Data : dlog = [i \in LogIndex |-> d]
    /\ dhead = <<>>
    /\ cache = [b \in Blocks |-> None]
    /\ refcnt = [b \in Blocks |-> 0]
    /\ holder = [b \in Blocks |-> None]
    /\ lh = <<>>
    /\ outstanding = 0
    /\ committing = FALSE
    /\ pc = BootPc
    /\ tail = [p \in Procs |-> 1]
    /\ touched = [p \in Procs |-> {}]
-----------------------------------------------------------------------------
\* Mutant: recovery starts with an empty header, as if nothing was committed.
ReadHeadIgnored(p) ==
    /\ pc[p] = "rhead"
    /\ lh' = <<>>
    /\ tail' = [tail EXCEPT ![p] = 1]
    /\ Goto(p, "rinstall")
    /\ UNCHANGED <<diskVars, bufVars, outstanding, committing, touched>>

\* recover_from_log, run by the first process: read_head ...
ReadHead(p) ==
    /\ pc[p] = "rhead"
    /\ lh' = dhead
    /\ tail' = [tail EXCEPT ![p] = 1]
    /\ Goto(p, "rinstall")
    /\ UNCHANGED <<diskVars, bufVars, outstanding, committing, touched>>

\* ... install_trans(1), one block a step ...
InstallRecovered(p) ==
    /\ pc[p] = "rinstall"
    /\ tail[p] <= Len(lh)
    /\ disk' = [disk EXCEPT ![lh[tail[p]]] = dlog[tail[p]]]
    /\ cache' = [cache EXCEPT ![lh[tail[p]]] = dlog[tail[p]]]
    /\ tail' = [tail EXCEPT ![p] = @ + 1]
    /\ UNCHANGED <<dlog, dhead, refcnt, holder, logVars, pc, touched>>

RecoveredAll(p) ==
    /\ pc[p] = "rinstall"
    /\ tail[p] > Len(lh)
    /\ Goto(p, "rclear")
    /\ UNCHANGED <<diskVars, bufVars, logVars, tail, touched>>

\* ... log.lh.n = 0 and write_head.  The system is up: the first process goes
\* on, and can start others.
ClearRecovered(p) ==
    /\ pc[p] = "rclear"
    /\ lh' = <<>>
    /\ dhead' = <<>>
    /\ pc' = [q \in Procs |-> "idle"]
    /\ UNCHANGED <<disk, dlog, bufVars, outstanding, committing, tail, touched>>
-----------------------------------------------------------------------------
\* A process enters a file-system call; it holds no buffer when it does.
Syscall(p) ==
    /\ pc[p] = "idle"
    /\ HoldsNone(p)
    /\ Goto(p, "begin")
    /\ touched' = [touched EXCEPT ![p] = {}]
    /\ UNCHANGED <<diskVars, bufVars, logVars, tail>>

\* Mutant: begin_op reserves no space for the call that enters.
MustWaitOffByOne ==
    \/ committing
    \/ Len(lh) + outstanding * MAXOPBLOCKS > LOGBLOCKS

\* begin_op's two reasons to wait.
MustWait ==
    \/ committing
    \/ Len(lh) + (outstanding + 1) * MAXOPBLOCKS > LOGBLOCKS

BeginOpSleep(p) ==
    /\ pc[p] = "begin"
    /\ MustWait
    /\ Goto(p, "asleep")
    /\ UNCHANGED <<diskVars, bufVars, logVars, tail, touched>>

BeginOp(p) ==
    /\ pc[p] = "begin"
    /\ ~MustWait
    /\ outstanding' = outstanding + 1
    /\ Goto(p, "inop")
    /\ UNCHANGED <<diskVars, bufVars, lh, committing, tail, touched>>

\* bread, in a call or (fileread, filestat) outside one: wait for the
\* buffer's sleep-lock, count a reference, read the block if not cached.
Bread(p, b) ==
    /\ pc[p] \in {"idle", "inop"}
    /\ HoldsNone(p)
    /\ holder[b] = None
    /\ holder' = [holder EXCEPT ![b] = p]
    /\ refcnt' = [refcnt EXCEPT ![b] = @ + 1]
    /\ cache' = [cache EXCEPT ![b] = Contents(b)]
    /\ UNCHANGED <<diskVars, logVars, procVars>>

\* The holder modifies the buffer and calls log_write: panic if the log is
\* full (even if the block is in it), otherwise absorb, or append and pin.
LogWrite(p, b, v) ==
    /\ pc[p] = "inop"
    /\ holder[b] = p
    /\ Cardinality(touched[p] \cup {b}) <= OPBLOCKS
    /\ cache' = [cache EXCEPT ![b] = v]
    /\ touched' = [touched EXCEPT ![p] = @ \cup {b}]
    /\ IF Len(lh) >= LOGBLOCKS \/ outstanding < 1
       THEN Goto(p, "panic") /\ UNCHANGED <<lh, refcnt>>
       ELSE /\ UNCHANGED pc
            /\ IF b \in Entries(lh)
               THEN UNCHANGED <<lh, refcnt>>
               ELSE /\ lh' = Append(lh, b)
                    /\ refcnt' = [refcnt EXCEPT ![b] = @ + 1]
    /\ UNCHANGED <<diskVars, holder, outstanding, committing, tail>>

Brelse(p, b) ==
    /\ pc[p] \in {"idle", "inop"}
    /\ holder[b] = p
    /\ holder' = [holder EXCEPT ![b] = None]
    /\ refcnt' = [refcnt EXCEPT ![b] = @ - 1]
    /\ UNCHANGED <<diskVars, cache, logVars, procVars>>

\* bget recycles an unused buffer for some other block.
Recycle(b) ==
    /\ cache[b] # None
    /\ refcnt[b] = 0
    /\ cache' = [cache EXCEPT ![b] = None]
    /\ UNCHANGED <<diskVars, refcnt, holder, logVars, procVars>>

\* end_op: the last call out commits, any other tells the sleepers in
\* begin_op that reserved space was given back.
EndOp(p) ==
    /\ pc[p] = "inop"
    /\ HoldsNone(p)
    /\ outstanding' = outstanding - 1
    /\ IF committing
       THEN Goto(p, "panic") /\ UNCHANGED committing
       ELSE IF outstanding = 1
       THEN Goto(p, "commit") /\ committing' = TRUE
       ELSE WakeupGoto(p, "idle") /\ UNCHANGED committing
    /\ UNCHANGED <<diskVars, bufVars, lh, tail, touched>>
-----------------------------------------------------------------------------

\* commit: nothing to do for an empty transaction.
Commit(p) ==
    /\ pc[p] = "commit"
    /\ tail' = [tail EXCEPT ![p] = 1]
    /\ Goto(p, IF Len(lh) > 0 THEN "wlog" ELSE "done")
    /\ UNCHANGED <<diskVars, bufVars, logVars, touched>>

\* write_log, one block a step; it waits for a reader to release the buffer.
WriteLog(p) ==
    /\ pc[p] = "wlog"
    /\ tail[p] <= Len(lh)
    /\ holder[lh[tail[p]]] = None
    /\ dlog' = [dlog EXCEPT ![tail[p]] = Contents(lh[tail[p]])]
    /\ cache' = [cache EXCEPT ![lh[tail[p]]] = Contents(lh[tail[p]])]
    /\ tail' = [tail EXCEPT ![p] = @ + 1]
    /\ UNCHANGED <<disk, dhead, refcnt, holder, logVars, pc, touched>>

\* Mutant: the blocks are installed without writing the header.
WroteLogSkipsHead(p) ==
    /\ pc[p] = "wlog"
    /\ tail[p] > Len(lh)
    /\ Goto(p, "install")
    /\ tail' = [tail EXCEPT ![p] = 1]
    /\ UNCHANGED <<diskVars, bufVars, logVars, touched>>

WroteLog(p) ==
    /\ pc[p] = "wlog"
    /\ tail[p] > Len(lh)
    /\ Goto(p, "whead")
    /\ UNCHANGED <<diskVars, bufVars, logVars, tail, touched>>

\* write_head: the commit point.
WriteHead(p) ==
    /\ pc[p] = "whead"
    /\ dhead' = lh
    /\ tail' = [tail EXCEPT ![p] = 1]
    /\ Goto(p, "install")
    /\ UNCHANGED <<disk, dlog, bufVars, logVars, touched>>

\* Mutant: install_trans forgets bunpin.
InstallTransKeepsPin(p) ==
    /\ pc[p] = "install"
    /\ tail[p] <= Len(lh)
    /\ holder[lh[tail[p]]] = None
    /\ cache' = [cache EXCEPT ![lh[tail[p]]] = dlog[tail[p]]]
    /\ disk' = [disk EXCEPT ![lh[tail[p]]] = dlog[tail[p]]]
    /\ tail' = [tail EXCEPT ![p] = @ + 1]
    /\ UNCHANGED <<dlog, dhead, refcnt, holder, logVars, pc, touched>>

\* install_trans(0), one block a step.
InstallTrans(p) ==
    /\ pc[p] = "install"
    /\ tail[p] <= Len(lh)
    /\ holder[lh[tail[p]]] = None
    /\ cache' = [cache EXCEPT ![lh[tail[p]]] = dlog[tail[p]]]
    /\ disk' = [disk EXCEPT ![lh[tail[p]]] = dlog[tail[p]]]
    /\ refcnt' = [refcnt EXCEPT ![lh[tail[p]]] = @ - 1]
    /\ tail' = [tail EXCEPT ![p] = @ + 1]
    /\ UNCHANGED <<dlog, dhead, holder, logVars, pc, touched>>

InstalledAll(p) ==
    /\ pc[p] = "install"
    /\ tail[p] > Len(lh)
    /\ Goto(p, "clear")
    /\ UNCHANGED <<diskVars, bufVars, logVars, tail, touched>>

\* log.lh.n = 0 and write_head: erase the transaction.
ClearLog(p) ==
    /\ pc[p] = "clear"
    /\ lh' = <<>>
    /\ dhead' = <<>>
    /\ Goto(p, "done")
    /\ UNCHANGED <<disk, dlog, bufVars, outstanding, committing, tail, touched>>

\* Mutant: the end of a commit wakes nobody up.
EndCommitSilent(p) ==
    /\ pc[p] = "done"
    /\ committing' = FALSE
    /\ Goto(p, "idle")
    /\ UNCHANGED <<diskVars, bufVars, lh, outstanding, tail, touched>>

\* The end of end_op, after commit().
EndCommit(p) ==
    /\ pc[p] = "done"
    /\ committing' = FALSE
    /\ WakeupGoto(p, "idle")
    /\ UNCHANGED <<diskVars, bufVars, lh, outstanding, tail, touched>>
-----------------------------------------------------------------------------
\* The power fails: memory is gone.  A data block that is being written may
\* be left torn; the header fits in one sector and cannot be.
PowerFailure ==
    /\ \/ UNCHANGED <<disk, dlog>>
       \/ \E p \in Procs :
            /\ pc[p] = "wlog"
            /\ tail[p] <= Len(lh)
            /\ dlog' = [dlog EXCEPT ![tail[p]] = Torn]
            /\ UNCHANGED disk
       \/ \E p \in Procs :
            /\ pc[p] \in {"install", "rinstall"}
            /\ tail[p] <= Len(lh)
            /\ disk' = [disk EXCEPT ![lh[tail[p]]] = Torn]
            /\ UNCHANGED dlog
    /\ UNCHANGED dhead
    /\ cache' = [b \in Blocks |-> None]
    /\ refcnt' = [b \in Blocks |-> 0]
    /\ holder' = [b \in Blocks |-> None]
    /\ lh' = <<>>
    /\ outstanding' = 0
    /\ committing' = FALSE
    /\ pc' = BootPc
    /\ tail' = [p \in Procs |-> 1]
    /\ touched' = [p \in Procs |-> {}]

Step(p) ==
    \/ ReadHead(p) \/ InstallRecovered(p) \/ RecoveredAll(p)
    \/ ClearRecovered(p)
    \/ BeginOpSleep(p) \/ BeginOp(p) \/ EndOp(p)
    \/ Commit(p) \/ WriteLog(p) \/ WroteLog(p) \/ WriteHead(p)
    \/ InstallTrans(p) \/ InstalledAll(p) \/ ClearLog(p) \/ EndCommit(p)
    \/ \E b \in Blocks : Brelse(p, b)

Use(p) ==
    \/ Syscall(p)
    \/ \E b \in Blocks : Bread(p, b)
    \/ \E b \in Blocks, v \in Data : LogWrite(p, b, v)

Next ==
    \/ \E p \in Procs : Step(p) \/ Use(p)
    \/ \E b \in Blocks : Recycle(b)
    \/ PowerFailure

Spec == Init /\ [][Next]_vars
-----------------------------------------------------------------------------
Booting == pc[InitProc] \in Recovering

\* The block recovery leaves at home location b, given a header, the log's
\* blocks and the home locations: the log's copy if the header names b.
Recovered(head, copies, home, b) ==
    IF b \in Entries(head)
    THEN copies[CHOOSE i \in 1..Len(head) : head[i] = b]
    ELSE home[b]

\* What the disk would hold after a power failure now and the recovery.
StableDisk == [b \in Blocks |-> Recovered(dhead, dlog, disk, b)]

\* What a read of each block returns; during recovery nobody reads yet.
LogicalDisk == IF Booting THEN StableDisk ELSE [b \in Blocks |-> Contents(b)]
ActiveCalls == {p \in Procs : pc[p] \in {"inop", "panic"}}

T == INSTANCE Transactions
     WITH mem <- LogicalDisk, stable <- StableDisk, active <- ActiveCalls

\* The log's types: block values, reference counts, log size, places.
TypeOK ==
    /\ disk \in [Blocks -> Data \cup {Torn}]
    /\ dlog \in [LogIndex -> Data \cup {Torn}]
    /\ dhead \in Seq(Blocks) /\ Len(dhead) <= LOGBLOCKS
    /\ cache \in [Blocks -> Data \cup {None}]
    /\ refcnt \in [Blocks -> Nat]
    /\ holder \in [Blocks -> Procs \cup {None}]
    /\ lh \in Seq(Blocks) /\ Len(lh) <= LOGBLOCKS
    /\ outstanding \in Nat
    /\ committing \in BOOLEAN
    /\ pc \in [Procs -> Places]
    /\ tail \in [Procs -> 1..LOGBLOCKS + 1]
    /\ touched \in [Procs -> SUBSET Blocks]

\* The log behaves as atomic transactions (log.c:10-16): what survives a power
\* failure at any step, a torn write or a second failure during recovery
\* included, is the logical disk at some moment when no call was in progress,
\* and every read returns the last value logged.
ImplementsTransactions == T!TSpec

\* None of the panics of log_write and end_op is reached by calls that write
\* at most OPBLOCKS blocks each: the space begin_op reserves is enough.
NoPanic == \A p \in Procs : pc[p] # "panic"

\* Commits exclude calls and each other: while a process commits, no call is
\* between begin_op and end_op and no second process commits.
CommitsAlone ==
    \A p \in Procs : pc[p] \in Commits =>
        \A q \in Procs \ {p} : pc[q] \notin Commits \cup {"inop"}

\* A commit that returned is durable: when no call and no commit is in
\* progress, the home locations hold the logical disk and the header is empty.
DurableWhenQuiet ==
    (~Booting /\ outstanding = 0 /\ ~committing) =>
        /\ dhead = <<>>
        /\ \A b \in Blocks : disk[b] = Contents(b)

\* install_trans has already unpinned the i-th logged block.
Unpinned(i) ==
    \E p \in Procs : pc[p] = "clear" \/ (pc[p] = "install" /\ i < tail[p])

\* The blocks log_write has pinned and install_trans has not yet unpinned.
Pinned ==
    {b \in Blocks : ~Booting /\ \E i \in 1..Len(lh) : lh[i] = b /\ ~Unpinned(i)}

\* Reference counts balance: a buffer's count is one for its holder and one
\* for its pin, however often the call logged it; nothing leaks a pin or
\* drops one early.
RefcntExact ==
    \A b \in Blocks :
        refcnt[b] = (IF holder[b] # None THEN 1 ELSE 0)
                    + (IF b \in Pinned THEN 1 ELSE 0)

\* Write-ahead: a home location on disk changes only while the header on disk
\* already names its block.
WriteAhead ==
    [][\A b \in Blocks : disk'[b] # disk[b] => b \in Entries(dhead)]_vars
-----------------------------------------------------------------------------
(* The inductive invariant. *)

\* Absorption keeps a block from being logged twice.
Distinct ==
    /\ \A i, j \in 1..Len(lh) : lh[i] = lh[j] => i = j
    /\ \A i, j \in 1..Len(dhead) : dhead[i] = dhead[j] => i = j

\* Only the first process runs during recovery, and only then.
Modes ==
    /\ Booting => \A p \in Procs \ {InitProc} : pc[p] = "off"
    /\ ~Booting => \A p \in Procs : pc[p] \notin Recovering \cup {"off"}

\* What struct log counts: the calls in progress, and one commit at most,
\* which no call overlaps.
Counts ==
    /\ outstanding = Cardinality(ActiveCalls)
    /\ committing <=> \E p \in Procs : pc[p] \in Commits
    /\ \A p, q \in Procs : pc[p] \in Commits /\ pc[q] \in Commits => p = q
    /\ committing \/ Booting => outstanding = 0

\* A logged block stays in the cache until it is installed; every other
\* cached block is what the disk holds; a home location can be torn only
\* while the header names it.
Coherent ==
    \A b \in Blocks :
        /\ b \in Pinned => cache[b] # None
        /\ \/ cache[b] \in {None, disk[b]}
           \/ b \in Pinned
           \/ holder[b] \in Procs /\ pc[holder[b]] = "panic"
        /\ b \notin Entries(dhead) => disk[b] \in Data

\* Where the header stands in each phase.
Header ==
    /\ \A i \in 1..Len(dhead) : dlog[i] \in Data
    /\ \A p \in Procs :
        /\ pc[p] \in {"install", "clear", "rinstall", "rclear"} => dhead = lh
        /\ pc[p] \in {"rhead", "done"} => lh = <<>>
    /\ ~Booting /\ (\A p \in Procs : pc[p] \notin {"install", "clear"})
        => dhead = <<>>
    /\ ~Booting /\ ~committing /\ outstanding = 0 => lh = <<>>

\* How far the copying has got: cache to log, then log to home.
Progress ==
    \A p \in Procs, i \in 1..Len(lh) :
        /\ \/ pc[p] = "wlog" /\ i < tail[p]
           \/ pc[p] = "whead"
           \/ pc[p] = "install" /\ i >= tail[p]
           => cache[lh[i]] = dlog[i]
        /\ \/ pc[p] \in {"install", "rinstall"} /\ i < tail[p]
           \/ pc[p] \in {"clear", "rclear"}
           => disk[lh[i]] = dlog[i]

\* The state the whole argument rests on: together these are preserved by
\* every step, and the properties above follow from them.
IInv ==
    /\ TypeOK
    /\ Distinct
    /\ Modes
    /\ Counts
    /\ RefcntExact
    /\ Coherent
    /\ Header
    /\ Progress
=============================================================================
