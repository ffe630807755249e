# TLA+ models of xv6

These modules model the parts of xv6 (RISC-V) that are hard to test: code whose
correctness depends on the order in which CPUs, processes, devices and the power
supply act, code that must undo what it did when a resource runs out, and a few
algorithms with many cases. TLC checks them on small instances; TLAPS proves the
main results about the redo log and the sleep lock for every instance.

## 1. The system

| Part | State | What is hard about it | Module |
|---|---|---|---|
| Redo log, `log.c` | `log.lh`, `outstanding`, `committing`; header and blocks on disk | power failure between any two disk writes, group commit, log space, sleepers | `Log`, `Transactions` |
| Buffer cache, `bio.c` | buffers, `refcnt`, LRU list, locks | a buffer that is found, waited for and recycled; running out of buffers | `Bcache` |
| Sleep locks, `sleeplock.c` | `locked`, `pid`, sleepers | the wakeup between a look and a sleep | `Sleeplock` |
| Spin locks and interrupts, `spinlock.c`, `trap.c`, `scheduler()` | `locked`, `noff`, `intena`, the CPU's flag | interrupts between any two instructions, threads that change CPUs | `Spinlock` |
| Process table, `proc.c` | state, parent, killed, channel, locks; per-CPU `proc` | lost wakeups, reuse of a stack still in use, lock hand-over across `swtch` | `Proc` |
| Pipes, `pipe.c` | ring buffer, `nread`, `nwrite`, open flags | blocking, wrap of the counters, close and kill during a call | `Pipe`, `ByteQueue` |
| Open files, `file.c` | `ftable`, `ref`, descriptors, offsets | failures between the steps of open and pipe; last close against use | `Ftable`, `Blocks` |
| Inodes, directories, paths, `fs.c`, `sysfile.c` | `itable`, inodes, entries, `nlink` | freeing an unlinked inode, names that change during a walk, power failure | `Fs` |
| Blocks of files, `fs.c`, `file.c` | bitmap, `addrs`, indirect blocks, `size` | a full disk half-way through a write; blocks per transaction | `Blocks`, `FileBytes` |
| Disk driver, `virtio_disk.c` | descriptors, rings, `info` | the device runs beside the driver; indices wrap; descriptors run out | `Virtio` |
| Console input, `console.c` | `buf`, `r`, `w`, `e` | index wrap, editing, readers in the middle of a line | `Console`, `LineInput` |
| Console output, `uart.c` | `tx_busy`, the UART | acknowledged interrupts, echoes and prints beside a writer | `Uart` |
| Memory, `vm.c`, `kalloc.c`, `exec.c` | page tables, free pages | undo when memory runs out anywhere; lazily allocated pages | `Memory`, `AddressSpace` |
| Disk image, `mkfs.c` | inodes, blocks, bitmap | sizes at the borders of blocks | `Mkfs` |
| Heap, `umalloc.c` | circular free list | joining and splitting blocks | `Umalloc` |
| Shell, `sh.c` | line, command tree, descriptors | precedence, blanks, pipe ends | `Sh` |
| Strings: `string.c`, `skipelem`, `printint`, `atoi`, grep's matcher | | borders | `Strings` |

How they interact: file-system calls run inside `begin_op`/`end_op` and touch
blocks only through the buffer cache; the log pins buffers there until they are
installed; the cache reads and writes through the disk driver; all of them
sleep and wake through `proc.c`, under spin locks. The models are composed by
promise: `Log` implements `Transactions`, and `Fs` runs on `Transactions` (the
disk takes over all inodes when the last call in progress ends); `Blocks` shows
that a call stays within what `Log` reserves; `Sleeplock` and `Proc` show that
`sleep` loses no wakeup, and `Log`, `Pipe`, `Virtio`, `Console` and `Uart` take
`sleep` as one step.

## 2. Modules

Each module keeps the code's names for its state. Operators whose comment
begins with "Mutant" are wrong variants of the operator below them; no
specification uses them. They show that the checked properties can fail.
`MC` modules are instances for TLC, `MC...Live` modules add a finite workload and
fairness, `...Proofs` modules hold theorems.

### Log

The variables are `struct log` (`lh`, `outstanding`, `committing`), the buffers
(`cache`, `refcnt`, `holder`), the disk (`disk`, `dlog`, `dhead`) and each
process's place. `begin_op` is `BeginOp`/`BeginOpSleep`, `log_write` is
`LogWrite`, `end_op` is `EndOp`, and a commit is `Commit`, `WriteLog` (a step
per block), `WroteLog`, `WriteHead`, `InstallTrans` (a step per block),
`InstalledAll`, `ClearLog`, `EndCommit`. Recovery is `ReadHead`,
`InstallRecovered`, `RecoveredAll`, `ClearRecovered`. `PowerFailure` empties
memory at any step. A block is two 512-byte sectors, so a write that is cut off
may leave it `Torn`; the header's 124 bytes are in one sector, which the disk
writes whole. `OPBLOCKS` is what a call really writes, `MAXOPBLOCKS` what
`begin_op` reserves for it.

`Log` implements `Transactions`: `mem` is what reads return, `stable` is the
disk after recovery from a power failure now, `active` are the calls between
`begin_op` and `end_op`. Each buffer's content is one value; a call holds one
buffer at a time; the log's own buffers are written through.

### Fs

Calls are `open`, `creat`, `mkdir`, `mknod`, `chdir`, `link`, `unlink` and
`close`, with absolute and relative paths. An action runs up to the next
`ilock()` or `iput()`; those that remain are in the process's list `todo` and are
steps of their own: `Ilock`; `IputLock`, `IputFree` and `Iput` (`iput()` gives up
`itable.lock` while it frees the inode). `namex` is `WalkNext`, `WalkParent`,
`WalkEnd`, `WalkFail`; `create` is `CreateOld`, `CreateExists`, `CreateAlloc`,
`CreateLink`, `CreateFail`; unlink and link are split in the same way. A
directory is a map from names to inode numbers, and growing one may fail because
the disk is full. `PowerFailure` leaves the inodes of the last commit;
`ireclaim()` runs at boot, an inode a step (`Reclaim`). `iget: no inodes`,
`ilock: no type` and `unlink: nlink < 1` are panics of the model; the first needs
more inodes on disk than `NINODE`, which the instance does not have. The history
field `up` of a call says that its path went from a removed directory to `..`.

### Blocks

Files as bitmap, direct addresses, one indirect block and size. `filewrite` is
`Write`, then for each chunk `WriteChunk`, `WriteCopy` (a block a step), `WriteEnd`;
a truncation is `Trunc`, `TruncBlock`, `TruncEnd`; `Read` is one step, since it
holds the inode's lock. Offsets belong to open files, which processes share.
`logged` collects the blocks of a transaction. A read may fail and a write be cut
off because of a bad address or a full disk. `Blocks` implements `FileBytes`, where
a file is a sequence of bytes: a chunk is put at the offset piece by piece, a failing
copy may spoil bytes beyond it that were there before, and when the chunk ends the
offset moves by exactly what was put.

### Bcache

`bget` is two steps (`BgetCached` or `BgetMiss` under `bcache.lock`, then `Acquire`
of the buffer's lock), `brelse` two (`Brelse`, `BrelseDrop`). `list` is the LRU
list. `LogWrite` and `Install` are what the log does with a held buffer: pin it,
write it home and unpin it. Contents are abstracted to "up to date or not".
`bget: no buffers` stops the model, and is reached in the instance.

### Ftable

`sys_open`, `sys_pipe`, `dup`, `close`, fork and exit over a table of `NFILE`
files, with every failure (no file, no descriptor, no page, a bad address) and
every release. `fileclose` is two steps, the table's entry first and the object
second. Inodes and pipes are only counted.

### Memory

All calls are steps; the page-table code is operators over a record of the
machine (`free`, `content`, the page table at hand, `res` for the result), so
that `walk`, `mappages`, `uvmalloc`, `uvmcopy`, `proc_pagetable` and `kexec` can
fail at every `kalloc()`: a call finds any number of the free pages left for it.
Page tables have `LEVELS` levels of `FANOUT` entries, addresses are counted in
bytes of pages of `PGSIZE`. The implementation of `AddressSpace` hides pages that
are allocated lazily.

### Spinlock

Every thread and every CPU's scheduler has a stack of frames; an interrupt may
push a handler wherever the CPU's flag allows. `push_off` is two steps, reading
the flag and turning it off, because an interrupt between them may move the
thread to another CPU. `sched` and its return, the scheduler's loop and `wfi` are
steps. Data locks are taken in order, the way the kernel nests them.

### Sleeplock

`acquiresleep`, `releasesleep`, `sleep` and `wakeup` with all their locks: `lk->lk`
and each `p->lock`. `wakeup` visits the processes one by one. A kill makes a
sleeper runnable.

### Proc

Slots 1..`NPROC`, slot 1 is `initproc`. A critical section on one spinlock is a
step; nested locks (`wait_lock` around `p->lock`, `p->lock` across `swtch`) are
separate steps. `on[c]` tells whether a CPU is in the scheduler's loop, runs its
process, or has just switched back. The order of the scheduler's loop is left
open, which allows more behaviours than the code has. Fork, exit and wait follow
the code statement by statement where locks are involved, including the window
in fork between releasing the child's lock and setting its parent. The first
process neither exits nor is killed (the kernel panics if it does, and `init.c`
is written not to).

### Pipe

`pi->lock` is a variable, because kill does not take it and can come between any
two iterations. The file references of the two ends are counted in `ref`; fork
copies descriptors, exit and close give them back in two steps (reference first,
`pipeclose` second) as in `fileclose`. `nread` and `nwrite` count modulo
`UINTS`. A read is one step once it holds the lock, since nothing in its copy
loop can be interrupted by another user of the pipe; it may stop early because
`copyout` fails, and then the byte at hand is lost, as in the code. `Pipe`
implements `ByteQueue` with the bytes between `nread` and `nwrite` as the queue.

### Virtio

The driver's actions are `NoFree`, `Format`, `Publish`, `Finish` (for
`virtio_disk_rw`) and `IntrAck`, `IntrUsed`, `IntrEnd` (for `virtio_disk_intr`);
`DevTake` and `DevComplete` are the device, modelled from how the driver uses
it: it takes heads from the avail ring in order and completes them in any order.
Ring indices count modulo `IDXS`, a multiple of `NUM` as 65536 is. That `kill` wakes
a process in `virtio_disk_rw` is left out: its loop tests `b->disk` and sleeps again.

### Console and Uart

`Console` is the input side: `Store`, `Backspace`, `KillLine` for `consoleintr`,
and a read in steps of one byte (`Loop`, `LoopFails`, `Sleep`), because the lock
is given up whenever the reader sleeps. Indices count modulo `WRAP`, a multiple
of the buffer size as 2^32 is. It implements `LineInput`, where a line is edited
until it is committed. `Uart` is the output side with the device: `uartwrite`
(`WAcquire`, `WLoop`, `WBusy`), `uartintr` (`IntrStart` to `IntrDone`), echoes and
kernel prints, which spin.

### Mkfs, Umalloc, Sh, Strings

Sequential code. `Mkfs` and `Umalloc` are state machines over all sequences of
files and of calls. `Sh` and `Strings` are operators: the parser is compared with
a printer of command trees, `runcmd`'s descriptors with what the tree means,
`memmove` with a simultaneous copy, `skipelem` and `dirlink` with the elements of
a path, `printint` with the number its digits denote, `atoi` with the number that
was printed as far as an `int` holds it, the matcher with the language of the
expression.

## 3. Runs

| Run | Instance | Shows |
|---|---|---|
| `log` | 2 processes, 2 blocks, 2 values, log of 4 | `ImplementsTransactions`, `WriteAhead`, and the inductive invariant `IInv` |
| `log_full` | 3 processes, log of 3, calls that use all they reserve | violates `NoPanic` |
| `proc` | 3 slots, 2 CPUs | `OneCpuEach`, `FreedOffCpu`, `ParentsLive`, `NoLostWakeup` |
| `kill_zero` | as `proc`, with kill(0) | violates `FreeNotKilled` |
| `pipe` | 3 processes, 2-byte buffer, counters modulo 4 | `ImplementsByteQueue`, `NoUseAfterFree`, `WriterSleepsOnlyWhenFull` |
| `pipe_killed_writer` | with kills | violates `ReaderSleepsOnlyWhenEmpty` |
| `virtio` | 3 processes, 8 descriptors, indices modulo 16 | `TransferDone`, `DescriptorsOwned`, `CompletionsAwaited` |
| `fs` | 2 processes, 4 inodes, 2 names, 3 calls or power failures, 2 disks | `NoOtherPanic`, `OtherDiskLinks`, `NoOtherOrphans`, `ItableSound` |
| `fs_orphan`, `fs_links` | as `fs`, other calls | violate `NoOrphans` and `DiskLinks` |
| `parts` | see below | safety of eleven parts |
| `live` | see below | liveness of six parts |

`parts` and `live` put parts that do not interact into one state machine: a
behaviour picks its part at the start. Each property names its part.

| Part of `parts` | Instance | Properties |
|---|---|---|
| files | 2 processes, 3 open files on 2 inodes, blocks of 2 bytes, 1 direct and 2 indirect addresses, 4 blocks on disk, writes of 1 and 3 bytes, 3 calls | `DiskConsistent`, `FilewriteRight`, `ImplementsBytes` |
| cache | 2 processes, 4 blocks, 3 buffers, 2 pins | `CacheCoherent` |
| table | 2 processes, 3 files, 2 descriptors each, 1 pipe | `FilesCounted`, `NoPanic` |
| logspace | `Log` with 2 processes, 4 blocks that stay cached, log of 4, calls of 1 block with 2 reserved, power on | `NoPanic` |
| mem | 2 processes, 17 pages of 2 bytes, tables of 2 levels with 3 entries, 2 programs, sizes up to `TRAPFRAME`, 4 calls | `PagesOwnedOnce`, `ImplementsAddressSpace`, `NoPanic` |
| cpu | 2 CPUs, 1 process, 2 data locks | `InterruptsNest`, `NoPanic` |
| input | 2 readers, buffer of 2, indices modulo 4 | `ImplementsLineInput`, `NoReaderLeft` |
| image | 4 files of any size up to the largest, 16 blocks | `ImageSound` |
| heap | 11 units, requests of 1, 2 and 4 | `HeapSound` |
| shell | all lines of up to 4 characters; all commands with two operators, written with and without blanks | `ShellRight` |
| strings | all texts up to 4 characters, names of 2, `long long` of 8 bits and `int` of 6 | `StringsRight` |

| Part of `live` | Instance | Property |
|---|---|---|
| log | 3 processes, 2 blocks, 7 uses | `Quiesces` |
| proc | 3 slots, 2 CPUs, 3 calls, 1 preemption | `AllReaped` |
| disk | 3 processes, 4 descriptors, 8 requests | `RequestsReturn` |
| pipeline | shell, writer of 6 bytes, reader, no kills | `PipelineEnds`, `NoLostWakeup` |
| console | 2 writers of 2 bytes, 2 characters typed, 2 kernel prints | `WritesEnd`, `NoLostWakeup` |
| lock | 3 processes that lock twice, 1 kill | `EveryoneLocks`, `SleepMutex`, `NoLostWakeup` |

Why the bounds are enough to be interesting. Two processes and a log of 4 let
two calls overlap, absorb each other's blocks and commit as a group, and let a
third phase, recovery, be cut off again. `logspace` has as many blocks as the
log, so the log could fill up; a power failure would only start it over with an
empty log, and `SpaceSuffices` is proved with power failures. Three slots give a
parent, a child and a grandchild that is orphaned, and two CPUs make every pair
of critical sections run against each other. A 2-byte pipe with writes of 3 bytes fills and empties,
and counters modulo 4 wrap in every longer run. Eight descriptors are the
code's own number: two requests in flight, a third that gets two descriptors and
gives them back. In `fs` the two processes meet in the same directories: one
removes what the other is walking through, creating in, or has open, and one of
the disks starts with an orphan. In `files` a write of 3 bytes spans two blocks
from any offset, reaches the indirect block and finds the disk full. 17 pages
let one process run, and exhaust memory at every allocation of a fork or an exec.

Larger instances that were checked once: `Spinlock` with 2 processes (4.4
million states), `Memory` with 5 calls and sizes up to 9, the log of `live` with 8 uses, its
process table with 4 calls.

Runs that disable the deadlock check have a reason to stop: a finite load, or a
process that reads from a pipe it alone could write to. `fs` and `parts` check
for deadlock and let a machine idle only when its calls are used up or it panicked.

Symmetry is used over processes (except the distinguished ones), blocks, CPUs
and data values, in runs that check no liveness. `MCVirtio` leaves dead entries
(consumed ring slots, headers of free descriptors) out of the view.

Fairness, all of it in `live`. A process that can take a step of a call takes it
(the scheduler is round-robin and calls are finite), the device carries out what
it was given, and a pending interrupt is delivered. For the disk this is assumed
of each process and of each request; for the other parts, whose behaviours are
finite, only that the machine does not stop while a started call can go on. New
calls, kills and preemptions are never assumed to happen.

### Disagreements with comments

* `log_full`. `param.h` allows a call `MAXOPBLOCKS` blocks and sizes the log for
  three such calls. `log_write` panics when the log is full even if the block is
  already in it (log.c:221), so three calls that use their allowance and log a
  block again panic. One block less per call is safe, which is proved.
* `kill_zero`. `kkill` finds pid 0 in a free slot and marks it killed; the next
  process in that slot starts out killed.
* `pipe_killed_writer`. `pipewrite` returns without `wakeup(&pi->nread)` when the
  writer is killed between two bytes; a sleeping reader is left beside data.
* `fs_orphan`. `iput` frees an inode before it drops its reference. If the inode
  is allocated again in between and the creation fails, nobody frees it until
  the next boot. `NoOtherOrphans` is what holds.
* `fs_links`. A name can be entered in a directory that was removed between
  `nameiparent` and `ilock`; the inode keeps its link count without a name.
  `OtherDiskLinks` is what holds.

Smaller observations, which no comment of the code contradicts:

* `kwait` takes the zombie in the lowest slot first, so under an endless load a
  zombie in a higher slot can wait for ever; `AllReaped` is stated for finite
  loads for this reason.
* `..` of a removed directory may name a parent that was freed since; `ilock`
  then panics (fs.c:315). The run `fs` reaches this; `NoOtherPanic` says that no
  other path, and no other operation, meets a free inode.
* A lazy `sbrk` is not bounded (sysproc.c:58), whereas `growproc` stops at
  `TRAPFRAME`. `NoPanic` of the memory is stated for sizes up to `TRAPFRAME`, where
  `walk` never sees an address beyond `MAXVA` and no page meets the trapframe.
* `NBUF` equals the size of the log: a log filled with pinned buffers leaves none
  for a reader (bio.c:88). No property excludes this panic.
* A reader of the console that is killed in its sleep is woken by `kill`, but one
  that is killed before it sleeps waits for the next line.
* mkfs rounds the root's size up to one block more than its entries need when they
  end on a block (mkfs.c:168); `ImageSound` states the size it really has.

## 4. Proofs

TLAPS checks the following for every finite set of processes, any blocks, values
and log size (`Log`), any number of processes (`Sleeplock`), any number of slots
and any set of CPUs (`Proc`), and any set of processes, any bytes, buffer size and
counter width (`Pipe`).

| Theorem | Module | States |
|---|---|---|
| `LogInvariant` | `LogCommitProofs` | `Spec => []IInv` |
| `CommitsAloneHolds`, `DurableWhenQuietHolds` | `LogCommitProofs` | commits exclude calls and each other; with no call and no commit in progress the disk is up to date |
| `WriteAheadHolds` | `LogCommitProofs` | `Spec => WriteAhead` |
| `LogRefinesTransactions` | `LogRefinementProofs` | `Spec => ImplementsTransactions` |
| `SpaceSuffices` | `LogSpaceProofs` | `Spec => []NoPanic` if `OPBLOCKS < MAXOPBLOCKS` |
| `SleepMutexHolds`, `NoLostWakeupHolds` | `SleeplockProofs` | `Spec => []SleepMutex`, `Spec => []NoLostWakeup` |
| `ProcInvHolds` | `ProcProofs` | `Spec => []ProcInv`, the inductive invariant |
| `OneCpuEachHolds`, `FreedOffCpuHolds`, `ParentsLiveHolds`, `NoLostWakeupHolds` | `ProcProofs` | `Spec => []P` for every invariant of the run `proc` |
| `FreeNotKilledHolds` | `ProcProofs` | `Spec => []FreeNotKilled` if `~KillZero` |
| `PipeInvHolds` | `PipeProofs` | `Spec => []PipeInv`, the inductive invariant |
| `NoUseAfterFreeHolds`, `WriterSleepsOnlyWhenFullHolds` | `PipeProofs` | `Spec => []P` for both invariants of the run `pipe` |
| `PipeReclaimedHolds` | `PipeProofs` | with no descriptor left and nobody closing, the pipe is freed |
| `ReaderSleepsOnlyWhenEmptyHolds` | `PipeProofs` | `Spec => []ReaderSleepsOnlyWhenEmpty` if `~Kills` |
| `ImplementsByteQueueHolds` | `PipeProofs` | `Spec => ImplementsByteQueue` |

The log. The safety properties are not inductive. Atomicity at the moment of a
crash depends on how far the commit has copied (`Progress`), on the header
agreeing with `lh` in the installing phases and being empty elsewhere (`Header`),
on cached blocks differing from the disk only while they are pinned
(`Coherent`), on pins being exactly counted so that a pinned buffer is not
recycled (`RefcntExact`), on `outstanding` counting the calls and one process
committing at a time (`Counts`), on log entries being distinct (`Distinct`), and
on recovery running alone (`Modes`). `IInv` is their conjunction; there is one
lemma per action, in `LogCallProofs` (recovery, calls, buffers) and
`LogCommitProofs` (commits, power failures). The refinement has one lemma per
group of actions: only `WriteHead` (or a commit of nothing) moves `stable`, only
`LogWrite` changes `mem`, `PowerFailure` resets `mem` to `stable`, and every
other step stutters.

The log's space. `begin_op` reserves `MAXOPBLOCKS` entries for a call, and the
call gives back what it did not need only when it ends. `Reserved` is the set of
pairs of a call in progress and a number from what it has logged up to
`MAXOPBLOCKS`; the invariant is that the entries in use and the reserved ones fit
into the log, and that what a call has logged is in the log (so that logging it
again takes no entry). `log_write` of a new block takes one pair away, `begin_op`
adds at most `MAXOPBLOCKS`, and a call that logs fewer blocks than that always
has a pair left, so the log is not full.

The sleep lock. `NoLostWakeup` is not inductive: a process that is about to sleep
is not asleep yet. The invariant says of each process from its look at `lk->locked`
on that the lock is taken or that a `wakeup` is on its way and has not passed it.
It needs to know who holds which lock: `lk->lk` covers the look, and `p->lock` is
taken before `lk->lk` is released and held until the process sleeps, so `wakeup`,
which takes `p->lock` too, cannot pass in between.

The process table. That no sleeping parent has a zombie child depends on every
part of `proc.c`, and `ProcInv` has a conjunct for each. Which process a CPU
runs, and that `p->lock` is handed over at `swtch`, is `SwitchInv`; where a process
can be in each state, and so which locks it holds, is `PlaceInv`; that `wait_lock`
has one holder, who runs, is `WaitLockInv`. `ForkInv` says that a slot being filled
belongs to one `fork`, and its parent field to it from the step that sets it;
`FirstInv`, that the first process does not exit, so children can be passed to it.
`ReparentInv` is the loop invariant of `reparent`: no slot below its index has the
exiting process as parent; without it a zombie could be a parent. `AwakeParentInv`
and `ScanInv` are the two sides of the wakeup: from the point where `wakeup` has
passed the parent until the child is a zombie, the parent does not sleep, because
it would need `wait_lock`; and a parent that decides to sleep has seen no zombie
child below its index. `ZombieInv` joins them, with the one exception that
`reparent` makes: between passing a zombie to the first process and waking it, the
first process may sleep. `ProcSlotProofs` has the definitions and the first half,
`ProcProofs` the rest; `OwnStepFrame` states once what the steps have in common in
which a process changes its own entry only. `FreeNotKilled` is inductive beside
`ProcInv` when nobody calls `kill(0)`; the run `kill_zero` shows that the
assumption is needed.

The pipe. `PipeInv` says who is inside `pi->lock` (`LockInv`), that `f->ref` counts
the descriptors (`RefInv`), that whoever reads or writes has a descriptor
(`HoldInv`), and that an end without descriptors is closed or about to be closed by
exactly one process (`OpenInv`): `fileclose` drops the last reference first and
calls `pipeclose` later, and the page must neither be freed in between nor be
freed twice. `FullInv` extends `WriterSleepsOnlyWhenFull` to the writer that has
seen the pipe full and not yet slept. The reader's side, `EmptyInv`, needs that
nobody is killed, since a killed writer returns without waking the readers (run
`pipe_killed_writer`): then data beside a sleeping reader means that a writer still
holds the lock and will wake it. For the refinement, the queue is the window of
`data` from `nread % PIPESIZE` on, of length `(nwrite - nread) % UINTS`. The lemmas
on `%` say that the window's indices are distinct while it is not longer than
`PIPESIZE`, that a put adds one index outside it and a take drops the first, also
when `nread` or `nwrite` wraps. This is where `UINTS % PIPESIZE = 0` is needed: when
the counter wraps, the index must go on where it was.

Assumptions: for `Log` the sets of names are disjoint, `Procs` is finite, and the
bounds are natural numbers with `OPBLOCKS <= MAXOPBLOCKS <= LOGBLOCKS`; for
`Sleeplock`, `NPROC` is a natural number; for `Proc`, `NPROC` is positive and `None`
is not a CPU; for `Pipe`, the creator is a process, `None` is not, and `UINTS` is a
multiple of `PIPESIZE` and greater (2^32 and 512 in the code). TLC evaluates all of
them in the runs. Each inductive invariant was model-checked before it was proved,
on the instances of the runs `log`, `proc` and `pipe`.

Only model-checked: liveness (fairness and ENABLED are beyond the prover), what
recursive definitions compute (`Memory`, `Mkfs`, `Umalloc`, `Sh`, `Strings`), and
the safety properties of `Virtio`, `Fs`, `Blocks`, `Bcache`, `Ftable`, `Spinlock`,
`Console` and `Uart`, for which there are no proofs.

### What the models rest on

* A critical section on one spinlock is one step, and `sleep` gives up the
  condition lock atomically with going to sleep. `Proc` and `Sleeplock` keep the
  two apart and show that no wakeup falls between them; `Log`, `Pipe`, `Virtio`,
  `Console` and `Uart` use the result. `Spinlock` shows that a critical section
  is not interrupted on its own CPU.
* The disk keeps what it acknowledged, in order, and writes a 512-byte sector
  whole.
* Calls in `Log` write at most `OPBLOCKS` blocks. `FilewriteRight` is where this
  is checked, for the calls that can write most.
* `Fs` takes `Transactions` for granted: its disk changes when the last call in
  progress ends.
* A kill that comes after `killed()` was read and before `sleep()` is a step of
  `Proc` and of `Pipe`. The process then sleeps until its condition changes; the
  code does not promise otherwise, so no property excludes it.

## 5. Not modelled

* Instruction-level effects: memory ordering is taken from the barriers in the
  code; saving registers in `trampoline.S`, `kernelvec.S` and `swtch.S`; `stvec`
  and the PLIC's registers; set-up of devices and of the kernel's page table.
  They are straight-line code over hardware state that no other part reads.
* `syscall.c` and the fetching of arguments: a table and register numbers. What a
  bad address does is a failure of each call that copies.
* `copyinstr`, which unlike `copyin` does not fault in lazily allocated pages;
  `stati`, `filestat`, `procdump` and `uptime`, which only read; `pause`, a sleep
  under `tickslock` like that of `Sleeplock`.
* Formatting in `printf.c` except numbers, and `panic()`, which stops the machine;
  the panics of `kerneltrap`, which answer exceptions in the kernel.
* The contents of ELF headers: `exec` may fail at any of its checks.
* A failed copy in `writei` leaves its bytes in a buffer that is not logged.
  `Blocks` keeps them; that they are gone once the buffer is recycled is not
  modelled, since `Blocks` has one copy of each block.
* The shell's prompt loop and `cd`; grep's reading of lines; the remaining user
  programs and tests, which are clients of what is modelled.
* Overflow of sizes in `malloc` (`nunits`) and of mkfs's `freeblock`: the models
  stay within the heap and the image.
