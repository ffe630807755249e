------------------------------- MODULE Bcache -------------------------------
(***************************************************************************)
(* The buffer cache of kernel/bio.c, buffer by buffer: bget() with its LRU *)
(* list, bread(), bwrite(), brelse(), bpin(), bunpin().  Module Log has    *)
(* one buffer per block and never runs out of them; this one has NBUF      *)
(* buffers, and bget() gives up bcache.lock before it waits for the        *)
(* buffer's own lock.                                                      *)
(*                                                                         *)
(* A process works on one block at a time.  It changes a block only        *)
(* together with log_write(), which pins the buffer; installing the block  *)
(* writes it to its place and unpins it.  At most MaxPins blocks are       *)
(* pinned, the size of the log.  Contents are abstracted to whether they   *)
(* are the block's latest.                                                 *)
(***************************************************************************)
EXTENDS Integers, Sequences, FiniteSets

CONSTANTS Procs, None, Blocks, NBUF, MaxPins

VARIABLES
    list,       \* the LRU list, most recently used first
    blockno, refcnt, valid, holder,     \* fields of a buffer
    data, disk, \* do a buffer, a block on disk hold what was last written?
    pinned,     \* the blocks of the log
    pc, buf, want,  \* a process's place, buffer and block
    panicked

bufVars == <<list, blockno, refcnt, valid, holder, data>>
vars == <<bufVars, disk, pinned, pc, buf, want, panicked>>

Bufs == 1..NBUF

Init ==
    /\ list = [k \in 1..NBUF |-> NBUF - k + 1]
    /\ blockno = [k \in Bufs |-> None] /\ refcnt = [k \in Bufs |-> 0]
    /\ valid = [k \in Bufs |-> FALSE] /\ data = [k \in Bufs |-> FALSE]
    /\ holder = [k \in Bufs |-> None]
    /\ disk = [b \in Blocks |-> TRUE] /\ pinned = {}
    /\ pc = [p \in Procs |-> "idle"] /\ buf = [p \in Procs |-> 0]
    /\ want = [p \in Procs |-> None]
    /\ panicked = FALSE

Goto(p, place) == pc' = [pc EXCEPT ![p] = place]

Cached(b) == {k \in Bufs : blockno[k] = b}

\* bget(), under bcache.lock: the block's buffer ...
BgetCached(p, b) ==
    /\ pc[p] = "idle"
    /\ \E k \in Cached(b) :
        /\ refcnt' = [refcnt EXCEPT ![k] = @ + 1]
        /\ buf' = [buf EXCEPT ![p] = k]
    /\ want' = [want EXCEPT ![p] = b]
    /\ Goto(p, "acquire")
    /\ UNCHANGED <<list, blockno, valid, data, holder, disk, pinned, panicked>>

\* ... or the least recently used one that is free, or a panic if there is none.
\* Nothing keeps that from happening in the code: NBUF is the size of the log
\* (param.h), and every process may hold a buffer, or two in bmap() and write_log().
FreeAt == {i \in 1..NBUF : refcnt[list[i]] = 0}
BgetMiss(p, b) ==
    /\ pc[p] = "idle"
    /\ Cached(b) = {}
    /\ IF FreeAt = {}
       THEN panicked' = TRUE /\ UNCHANGED <<blockno, valid, refcnt, buf, want, pc>>
       ELSE LET k == list[CHOOSE i \in FreeAt : \A j \in FreeAt : j <= i] IN
            /\ blockno' = [blockno EXCEPT ![k] = b]
            /\ valid' = [valid EXCEPT ![k] = FALSE]
            /\ refcnt' = [refcnt EXCEPT ![k] = 1]
            /\ buf' = [buf EXCEPT ![p] = k]
            /\ want' = [want EXCEPT ![p] = b]
            /\ Goto(p, "acquire")
            /\ UNCHANGED panicked
    /\ UNCHANGED <<list, data, holder, disk, pinned>>

\* acquiresleep(), then the read from the disk if the buffer is not valid.
Acquire(p) ==
    /\ pc[p] = "acquire" /\ holder[buf[p]] = None
    /\ holder' = [holder EXCEPT ![buf[p]] = p]
    /\ Goto(p, IF valid[buf[p]] THEN "held" ELSE "read")
    /\ UNCHANGED <<list, blockno, refcnt, valid, data, disk, pinned, buf, want, panicked>>

Bread(p) ==
    /\ pc[p] = "read"
    /\ data' = [data EXCEPT ![buf[p]] = disk[blockno[buf[p]]]]
    /\ valid' = [valid EXCEPT ![buf[p]] = TRUE]
    /\ Goto(p, "held")
    /\ UNCHANGED <<list, blockno, refcnt, holder, disk, pinned, buf, want, panicked>>

\* The block is changed and logged; the first log_write() pins the buffer.
LogWriteNoPin(p) ==  \* mutant: the buffer is not pinned
    /\ pc[p] = "held"
    /\ want[p] \in pinned \/ Cardinality(pinned) < MaxPins
    /\ data' = [data EXCEPT ![buf[p]] = TRUE]
    /\ disk' = [disk EXCEPT ![want[p]] = FALSE]
    /\ pinned' = pinned \cup {want[p]}
    /\ UNCHANGED <<list, blockno, refcnt, valid, holder, pc, buf, want, panicked>>

LogWrite(p) ==
    /\ pc[p] = "held"
    /\ want[p] \in pinned \/ Cardinality(pinned) < MaxPins
    /\ data' = [data EXCEPT ![buf[p]] = TRUE]
    /\ disk' = [disk EXCEPT ![want[p]] = FALSE]
    /\ pinned' = pinned \cup {want[p]}
    /\ refcnt' = [refcnt EXCEPT ![buf[p]] = IF want[p] \in pinned THEN @ ELSE @ + 1]
    /\ UNCHANGED <<list, blockno, valid, holder, pc, buf, want, panicked>>

\* install_trans(): bwrite() and bunpin().
Install(p) ==
    /\ pc[p] = "held" /\ want[p] \in pinned
    /\ disk' = [disk EXCEPT ![want[p]] = data[buf[p]]]
    /\ refcnt' = [refcnt EXCEPT ![buf[p]] = @ - 1]
    /\ pinned' = pinned \ {want[p]}
    /\ UNCHANGED <<list, blockno, valid, data, holder, pc, buf, want, panicked>>

\* brelse(): the buffer's lock first ...
Brelse(p) ==
    /\ pc[p] = "held"
    /\ holder' = [holder EXCEPT ![buf[p]] = None]
    /\ Goto(p, "release")
    /\ UNCHANGED <<list, blockno, refcnt, valid, data, disk, pinned, buf, want, panicked>>

\* ... then, under bcache.lock, the reference.
MoveToFront(k) == <<k>> \o SelectSeq(list, LAMBDA j : j # k)

BrelseDrop(p) ==
    /\ pc[p] = "release"
    /\ LET k == buf[p] IN
        /\ refcnt' = [refcnt EXCEPT ![k] = @ - 1]
        /\ list' = IF refcnt[k] = 1 THEN MoveToFront(k) ELSE list
    /\ buf' = [buf EXCEPT ![p] = 0] /\ want' = [want EXCEPT ![p] = None]
    /\ Goto(p, "idle")
    /\ UNCHANGED <<blockno, valid, data, holder, disk, pinned, panicked>>

Next ==
    /\ ~panicked
    /\ \E p \in Procs :
        \/ \E b \in Blocks : BgetCached(p, b) \/ BgetMiss(p, b)
        \/ Acquire(p) \/ Bread(p) \/ LogWrite(p) \/ Install(p)
        \/ Brelse(p) \/ BrelseDrop(p)

Spec == Init /\ [][Next]_vars
-----------------------------------------------------------------------------
(* Properties *)

\* A block has at most one buffer: bget() looks and recycles under one hold of
\* bcache.lock, so two processes that miss the same block do not both take one.
OneBuffer == \A j, k \in Bufs : j # k /\ blockno[j] # None => blockno[j] # blockno[k]

\* Whoever holds a buffer has the block it asked for, as last written, although
\* the buffer may have been recycled and reread while it waited for the lock.
HolderSeesLatest ==
    \A p \in Procs : pc[p] = "held" =>
        /\ holder[buf[p]] = p /\ blockno[buf[p]] = want[p]
        /\ data[buf[p]]

\* refcnt counts the processes that use a buffer or wait for it, and the log's
\* pin; so a pinned block stays in memory until it is installed.
RefcntExact ==
    \A k \in Bufs : refcnt[k] =
        Cardinality({p \in Procs : buf[p] = k})
        + (IF blockno[k] \in pinned THEN 1 ELSE 0)
=============================================================================
