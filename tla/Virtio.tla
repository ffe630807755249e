------------------------------- MODULE Virtio -------------------------------
(***************************************************************************)
(* The disk driver, kernel/virtio_disk.c, with the device it drives: the   *)
(* descriptor table, the avail and used rings with their free-running      *)
(* 16-bit indices, and the completion interrupt.                           *)
(*                                                                         *)
(* Each process has a locked buffer of the buffer cache and asks for its   *)
(* block to be read or written (virtio_disk_rw); a block is in one buffer  *)
(* only, so block and buffer are named by the process.  The device runs    *)
(* beside the driver, does not take vdisk_lock, and may complete requests  *)
(* in any order.  sleep() and wakeup() are atomic with respect to          *)
(* vdisk_lock, which is what Proc shows of them.                           *)
(***************************************************************************)
EXTENDS Integers, FiniteSets

CONSTANTS
    Procs, Intr, None,  \* processes; the interrupt handler; nobody
    Data,               \* contents of a block
    NUM,                \* descriptors, and entries of each ring
    IDXS                \* number of values of a ring index (uint16)

ASSUME NamesAssumption == Intr \notin Procs /\ None \notin Procs /\ None \notin Data
ASSUME NUMAssumption ==
    NUM \in Nat /\ NUM >= 3 /\ IDXS \in Nat /\ IDXS > NUM /\ IDXS % NUM = 0

VARIABLES
    free,           \* disk.free: the free descriptors
    desc,           \* the descriptor table
    ops,            \* the request headers
    info_b,         \* disk.info[].b
    info_status,    \* disk.info[].status
    avail, avail_idx,       \* the avail ring, written by the driver
    used, used_idx,         \* the used ring, written by the device
    seen_idx,       \* disk.used_idx: how far the driver has looked in used
    vdisk_lock,     \* its holder
    b_disk,         \* b->disk: the device owns the buffer
    data,           \* b->data
    pc, head,       \* where a process is, and idx[0] of its request
    blocks,         \* device: what is on the disk
    dev_idx,        \* device: how far it has looked in avail
    taken,          \* device: requests it is working on
    pending         \* device: the interrupt line

driverVars == <<free, desc, ops, info_b, info_status, avail, avail_idx, seen_idx>>
deviceVars == <<used, used_idx, blocks, dev_idx, taken>>
vars == <<free, desc, ops, info_b, info_status, avail, avail_idx, used, used_idx,
          seen_idx, vdisk_lock, b_disk, data, pc, head, blocks, dev_idx, taken,
          pending>>

Descs == 0..NUM - 1
Indices == 0..IDXS - 1

Succ(n) == (n + 1) % IDXS
NoDesc == [addr |-> None, next |-> 0, more |-> FALSE]

Goto(p, place) == pc' = [pc EXCEPT ![p] = place]

\* wakeup(&disk.free[0]) by p, which goes on at "place".
WakeFreeGoto(p, place) ==
    pc' = [q \in Procs |-> IF q = p THEN place
                           ELSE IF pc[q] = "nofree" THEN "start" ELSE pc[q]]

\* The chain of descriptors that free_chain(h) follows.
Chain(h) ==
    LET d == desc[h]
        e == desc[d.next]
    IN {h} \cup (IF d.more THEN {d.next} ELSE {})
           \cup (IF d.more /\ e.more THEN {e.next} ELSE {})

\* What alloc_desc() returns in turn: the lowest free descriptors.
Lowest(s) == CHOOSE n \in s : \A m \in s : n <= m

\* virtio_disk_init().
Init ==
    /\ free = Descs
    /\ desc = [n \in Descs |-> NoDesc]
    /\ ops = [n \in Descs |-> [type |-> "in", sector |-> None]]
    /\ info_b = [n \in Descs |-> None]
    /\ info_status = [n \in Descs |-> 0]
    /\ avail = [n \in Descs |-> 0] /\ avail_idx = 0
    /\ used = [n \in Descs |-> 0] /\ used_idx = 0
    /\ seen_idx = 0
    /\ vdisk_lock = None
    /\ b_disk = [p \in Procs |-> FALSE]
    /\ data = [p \in Procs |-> None]
    /\ pc = [p \in Procs |-> "idle"]
    /\ head = [p \in Procs |-> 0]
    /\ blocks \in [Procs -> Data]
    /\ dev_idx = 0 /\ taken = {} /\ pending = FALSE
-----------------------------------------------------------------------------
(* bread() and bwrite(): the callers *)

\* The holder of a buffer changes it and calls bwrite(), or has a buffer
\* without valid data and calls bread().
Call(p) ==
    /\ pc[p] \in {"idle", "done"}
    /\ data' \in {[data EXCEPT ![p] = d] : d \in Data \cup {None}}
    /\ Goto(p, "start")
    /\ UNCHANGED <<driverVars, deviceVars, vdisk_lock, b_disk, head, pending>>
-----------------------------------------------------------------------------
(* virtio_disk_rw() *)

\* alloc3_desc() fails: what it got is given back, which wakes the others who
\* wait for descriptors, and the process goes to sleep.
NoFree(p) ==
    /\ pc[p] = "start" /\ vdisk_lock = None
    /\ Cardinality(free) < 3
    /\ IF free = {} THEN Goto(p, "nofree") ELSE WakeFreeGoto(p, "nofree")
    /\ UNCHANGED <<driverVars, deviceVars, vdisk_lock, b_disk, data, head, pending>>

\* Three descriptors are formatted and the head is put into the avail ring.
Format(p) ==
    /\ pc[p] = "start" /\ vdisk_lock = None
    /\ Cardinality(free) >= 3
    /\ LET i0 == Lowest(free)
           i1 == Lowest(free \ {i0})
           i2 == Lowest(free \ {i0, i1})
       IN /\ free' = free \ {i0, i1, i2}
          /\ desc' = [desc EXCEPT
                        ![i0] = [addr |-> None, next |-> i1, more |-> TRUE],
                        ![i1] = [addr |-> p, next |-> i2, more |-> TRUE],
                        ![i2] = [addr |-> None, next |-> 0, more |-> FALSE]]
          /\ ops' = [ops EXCEPT ![i0] =
                        [type |-> IF data[p] = None THEN "in" ELSE "out",
                         sector |-> p]]
          /\ info_status' = [info_status EXCEPT ![i0] = 255]
          /\ info_b' = [info_b EXCEPT ![i0] = p]
          /\ avail' = [avail EXCEPT ![avail_idx % NUM] = i0]
          /\ head' = [head EXCEPT ![p] = i0]
    /\ b_disk' = [b_disk EXCEPT ![p] = TRUE]
    /\ vdisk_lock' = p
    /\ Goto(p, "publish")
    /\ UNCHANGED <<avail_idx, seen_idx, deviceVars, data, pending>>

\* Only then is the ring's index advanced; b->disk is 1, so sleep.
Publish(p) ==
    /\ pc[p] = "publish"
    /\ avail_idx' = Succ(avail_idx)
    /\ vdisk_lock' = None
    /\ Goto(p, "await")
    /\ UNCHANGED <<free, desc, ops, info_b, info_status, avail, seen_idx,
                   deviceVars, b_disk, data, head, pending>>

\* Mutant: virtio_disk_rw() does not wait for b->disk.
FinishEarly(p) ==
    /\ pc[p] \in {"await", "woken"} /\ vdisk_lock = None
    /\ info_b' = [info_b EXCEPT ![head[p]] = None]
    /\ free' = free \cup Chain(head[p])
    /\ desc' = [n \in Descs |-> IF n \in Chain(head[p]) THEN NoDesc ELSE desc[n]]
    /\ WakeFreeGoto(p, "done")
    /\ UNCHANGED <<ops, info_status, avail, avail_idx, seen_idx, deviceVars,
                   vdisk_lock, b_disk, data, head, pending>>

\* Mutant: only the head of the chain is freed.
FinishFreesHead(p) ==
    /\ pc[p] = "woken" /\ vdisk_lock = None
    /\ ~b_disk[p]
    /\ info_b' = [info_b EXCEPT ![head[p]] = None]
    /\ free' = free \cup {head[p]}
    /\ desc' = [n \in Descs |-> IF n \in {head[p]} THEN NoDesc ELSE desc[n]]
    /\ WakeFreeGoto(p, "done")
    /\ UNCHANGED <<ops, info_status, avail, avail_idx, seen_idx, deviceVars,
                   vdisk_lock, b_disk, data, head, pending>>

\* Mutant: freeing descriptors wakes nobody.
FinishSilent(p) ==
    /\ pc[p] = "woken" /\ vdisk_lock = None
    /\ ~b_disk[p]
    /\ info_b' = [info_b EXCEPT ![head[p]] = None]
    /\ free' = free \cup Chain(head[p])
    /\ desc' = [n \in Descs |-> IF n \in Chain(head[p]) THEN NoDesc ELSE desc[n]]
    /\ Goto(p, "done")
    /\ UNCHANGED <<ops, info_status, avail, avail_idx, seen_idx, deviceVars,
                   vdisk_lock, b_disk, data, head, pending>>

\* Woken up with b->disk == 0: free the descriptors and return.  A wakeup by kill()
\* is left out: the loop tests b->disk again and sleeps.
Finish(p) ==
    /\ pc[p] = "woken" /\ vdisk_lock = None
    /\ ~b_disk[p]
    /\ info_b' = [info_b EXCEPT ![head[p]] = None]
    /\ free' = free \cup Chain(head[p])
    /\ desc' = [n \in Descs |-> IF n \in Chain(head[p]) THEN NoDesc ELSE desc[n]]
    /\ WakeFreeGoto(p, "done")
    /\ UNCHANGED <<ops, info_status, avail, avail_idx, seen_idx, deviceVars,
                   vdisk_lock, b_disk, data, head, pending>>
-----------------------------------------------------------------------------
(* virtio_disk_intr() *)

\* Acknowledge the interrupt first, ...
IntrAck ==
    /\ pending /\ vdisk_lock = None
    /\ pending' = FALSE
    /\ vdisk_lock' = Intr
    /\ UNCHANGED <<driverVars, deviceVars, b_disk, data, pc, head>>

\* Mutant: the handler takes one entry of the used ring and returns.
IntrUsedOnce ==
    /\ vdisk_lock = Intr
    /\ seen_idx # used_idx
    /\ LET b == info_b[used[seen_idx % NUM]] IN
        /\ info_status[used[seen_idx % NUM]] = 0 /\ b # None
        /\ b_disk' = [b_disk EXCEPT ![b] = FALSE]
        /\ pc' = [pc EXCEPT ![b] = IF @ = "await" THEN "woken" ELSE @]
    /\ seen_idx' = Succ(seen_idx)
    /\ vdisk_lock' = None
    /\ UNCHANGED <<free, desc, ops, info_b, info_status, avail, avail_idx,
                   deviceVars, data, head, pending>>

\* ... then take what is in the used ring, ...
IntrUsed ==
    /\ vdisk_lock = Intr
    /\ seen_idx # used_idx
    /\ LET b == info_b[used[seen_idx % NUM]] IN
        /\ info_status[used[seen_idx % NUM]] = 0 /\ b # None
        /\ b_disk' = [b_disk EXCEPT ![b] = FALSE]
        /\ pc' = [pc EXCEPT ![b] = IF @ = "await" THEN "woken" ELSE @]
    /\ seen_idx' = Succ(seen_idx)
    /\ UNCHANGED <<free, desc, ops, info_b, info_status, avail, avail_idx,
                   deviceVars, vdisk_lock, data, head, pending>>

\* ... until there is nothing more.
IntrEnd ==
    /\ vdisk_lock = Intr
    /\ seen_idx = used_idx
    /\ vdisk_lock' = None
    /\ UNCHANGED <<driverVars, deviceVars, b_disk, data, pc, head, pending>>
-----------------------------------------------------------------------------
(* The device *)

\* It looks at the avail ring.
DevTake ==
    /\ dev_idx # avail_idx
    /\ taken' = taken \cup {avail[dev_idx % NUM]}
    /\ dev_idx' = Succ(dev_idx)
    /\ UNCHANGED <<driverVars, used, used_idx, vdisk_lock, b_disk, data, pc, head,
                   blocks, pending>>

\* It transfers the data of a request, reports success, puts the request in
\* the used ring and raises the interrupt.
DevComplete(h) ==
    /\ h \in taken
    /\ LET b == desc[desc[h].next].addr IN
        IF ops[h].type = "out"
        THEN /\ blocks' = [blocks EXCEPT ![ops[h].sector] = data[b]]
             /\ UNCHANGED data
        ELSE /\ data' = [data EXCEPT ![b] = blocks[ops[h].sector]]
             /\ UNCHANGED blocks
    /\ info_status' = [info_status EXCEPT ![h] = 0]
    /\ used' = [used EXCEPT ![used_idx % NUM] = h]
    /\ used_idx' = Succ(used_idx)
    /\ taken' = taken \ {h}
    /\ pending' = TRUE
    /\ UNCHANGED <<free, desc, ops, info_b, avail, avail_idx, seen_idx, vdisk_lock,
                   b_disk, pc, head, dev_idx>>
-----------------------------------------------------------------------------
Driver(p) == NoFree(p) \/ Format(p) \/ Publish(p) \/ Finish(p)
Interrupt == IntrAck \/ IntrUsed \/ IntrEnd
Device == DevTake \/ \E h \in Descs : DevComplete(h)

Next == Interrupt \/ Device \/ \E p \in Procs : Call(p) \/ Driver(p)

Spec == Init /\ [][Next]_vars
-----------------------------------------------------------------------------
\* Types.
TypeOK ==
    /\ free \subseteq Descs /\ taken \subseteq Descs
    /\ desc \in [Descs -> [addr : Procs \cup {None}, next : Descs, more : BOOLEAN]]
    /\ ops \in [Descs -> [type : {"in", "out"}, sector : Procs \cup {None}]]
    /\ info_b \in [Descs -> Procs \cup {None}]
    /\ info_status \in [Descs -> {0, 255}]
    /\ avail \in [Descs -> Descs] /\ used \in [Descs -> Descs]
    /\ {avail_idx, used_idx, seen_idx, dev_idx} \subseteq Indices
    /\ vdisk_lock \in Procs \cup {Intr, None}
    /\ b_disk \in [Procs -> BOOLEAN]
    /\ data \in [Procs -> Data \cup {None}]
    /\ pc \in [Procs -> {"idle", "start", "nofree", "publish", "await", "woken",
                         "done"}]
    /\ head \in [Procs -> Descs]
    /\ blocks \in [Procs -> Data]
    /\ pending \in BOOLEAN

InFlight == {p \in Procs : pc[p] \in {"publish", "await", "woken"}}

\* virtio_disk_rw() returns when its own request has been carried out, not
\* somebody else's and not an earlier one: the buffer and the disk agree.
TransferDone == \A p \in Procs : pc[p] = "done" => data[p] = blocks[p]

\* Descriptors are partitioned: the requests in flight own three each, all
\* others are free, so no request is formatted over one that the device may
\* still read (the panics of free_desc() are never reached).
DescriptorsOwned ==
    /\ TypeOK
    /\ \A p \in InFlight :
        /\ Cardinality(Chain(head[p])) = 3
        /\ Chain(head[p]) \cap free = {}
        /\ \A q \in InFlight \ {p} : Chain(head[p]) \cap Chain(head[q]) = {}
    /\ Cardinality(free) + 3 * Cardinality(InFlight) = NUM

\* The device only has requests whose process still waits for them, and an entry
\* of the used ring that the driver has not seen names such a request, with
\* status 0 (virtio_disk_intr() panics otherwise).  No completion is forgotten: with
\* the handler out of the way, an unseen entry has its interrupt pending (the handler
\* acknowledges before it looks at the ring).
CompletionsAwaited ==
    /\ \A h \in taken : \E p \in InFlight : head[p] = h /\ b_disk[p]
    /\ \A k \in 1..(used_idx - seen_idx) % IDXS :
        LET h == used[(seen_idx + k - 1) % NUM] IN
        /\ info_status[h] = 0
        /\ \E p \in InFlight : head[p] = h /\ b_disk[p] /\ info_b[h] = p
    /\ vdisk_lock # Intr /\ seen_idx # used_idx => pending
=============================================================================
