------------------------------ MODULE MCParts ------------------------------
(***************************************************************************)
(* Safety of parts that are small on their own: files and blocks, the      *)
(* buffer cache, the file table, the log when its space runs out, memory,  *)
(* interrupts and spin locks, console input, mkfs, malloc, and the shell's *)
(* and the string functions, one of them in each behaviour.  The parts do  *)
(* not interact here and share the variables v1 to v16.                    *)
(***************************************************************************)
EXTENDS Integers, Sequences, TLC

CONSTANTS p1, p2, q1, q2, b1, b2, b3, b4, c1, c2, d1, f1, f2, o1, o2, o3, x1, Torn, None

VARIABLES part, v1, v2, v3, v4, v5, v6, v7, v8, v9, v10, v11, v12, v13, v14, v15, v16

InodeOf == [o \in {o1, o2, o3} |-> IF o = o1 THEN f1 ELSE f2]
Text == [vaddr |-> 0, memsz |-> 1, filesz |-> 1, write |-> FALSE]
Data == [vaddr |-> 2, memsz |-> 2, filesz |-> 1, write |-> TRUE]

Files == INSTANCE Blocks WITH
    used <- v1, data <- v2, table <- v3, addrs <- v4, size <- v5, daddrs <- v6,
    dsize <- v7, ilock <- v8, off <- v9, pc <- v10, r <- v11, logged <- v12, got <- v13,
    wrote <- v14, calls <- v15, panicked <- v16, Procs <- {p1, p2}, Files <- {f1, f2},
    Opens <- {o1, o2, o3}, Truncated <- {f2}, BSIZE <- 2, NDIRECT <- 1, NINDIRECT <- 2,
    MAXOPBLOCKS <- 6, BPB <- 1, NBLOCKS <- 4, Lens <- {1, 3}, MaxCalls <- 3
Cache == INSTANCE Bcache WITH
    list <- v1, blockno <- v2, refcnt <- v3, valid <- v4, holder <- v5, data <- v6,
    disk <- v7, pinned <- v8, pc <- v9, buf <- v10, want <- v11, panicked <- v12,
    Procs <- {p1, p2}, Blocks <- 1..4, NBUF <- 3, MaxPins <- 2
Table == INSTANCE Ftable WITH
    ref <- v1, type <- v2, pipe <- v3, ofile <- v4, iref <- v5, ends <- v6, pc <- v7,
    todo <- v8, rf <- v9, wf <- v10, panicked <- v11, Procs <- {q1, q2}, First <- q1,
    NFILE <- 3, NOFILE <- 2, Pipes <- {x1}
LogSpace == INSTANCE Log WITH
    disk <- v1, dlog <- v2, dhead <- v3, cache <- v4, refcnt <- v5, holder <- v6,
    lh <- v7, outstanding <- v8, committing <- v9, pc <- v10, tail <- v11,
    touched <- v12, Procs <- {q1, q2}, InitProc <- q1, Blocks <- {b1, b2, b3, b4},
    Data <- {d1}, MAXOPBLOCKS <- 2, OPBLOCKS <- 1, LOGBLOCKS <- 4
Mem == INSTANCE Memory WITH
    free <- v1, content <- v2, st <- v3, sz <- v4, pt <- v5, tf <- v6, panicked <- v7,
    twice <- v8, calls <- v9, Procs <- {q1, q2}, First <- q1, NPAGES <- 17, LEVELS <- 2,
    FANOUT <- 3, PGSIZE <- 2, Values <- {"v"}, Images <- {{Text}, {Text, Data}},
    Incr <- {3, -3}, MaxSize <- 14, MaxArgs <- 1, MaxCalls <- 4
Cpu == INSTANCE Spinlock WITH
    intr <- v1, noff <- v2, intena <- v3, on <- v4, stack <- v5, lk <- v6,
    runnable <- v7, found <- v8, panicked <- v9, CPUs <- {c1, c2}, NPROC <- 1,
    NDATA <- 2
Input == INSTANCE Console WITH
    buf <- v1, r <- v2, w <- v3, e <- v4, pc <- v5, n <- v6, target <- v7, got <- v8,
    killed <- v9, Readers <- {p1, p2}, Chars <- {"a", "nl", "eof"}, Counts <- {1, 3},
    INPUT_BUF_SIZE <- 2, WRAP <- 4
Image == INSTANCE Mkfs WITH
    din <- v1, table <- v2, freeinode <- v3, freeblock <- v4, bitmap <- v5, step <- v6,
    BSIZE <- 4, NDIRECT <- 1, NINDIRECT <- 2, NMETA <- 2, DIRENT <- 2, NFILES <- 4,
    FSSIZE <- 16
Heap == INSTANCE Umalloc WITH
    ptr <- v1, size <- v2, freep <- v3, brk <- v4, live <- v5, NALLOC <- 3, Top <- 11,
    Requests <- {1, 2, 4}
Shell == INSTANCE Sh WITH Letters <- {"a"}, NOFILE <- 8, MAXARGS <- 10
Str == INSTANCE Strings WITH
    Letters <- {"a", "b"}, DIRSIZ <- 2, WIDTH <- 8, INTWIDTH <- 6, Addresses <- 1..5, MaxLen <- 4

\* A command of the shell (v1) and a line that says it (v2), or just a line (v3 is
\* TRUE).
Line == UNION {[1..n -> {"a", " "} \cup Shell!Symbols] : n \in 0..4}
ShellInit ==
    \/ /\ v1 \in Shell!Commands /\ v3 = FALSE
       /\ v2 \in {Shell!Text(v1, 3, ""), Shell!Text(v1, 3, " ")}
    \/ v1 = Shell!Exec(<<>>) /\ v2 \in Line /\ v3 = TRUE

\* The variables from vN on, which a part does not use.
Z16 == v16 = 0
Z15 == v15 = 0 /\ Z16
Z14 == v14 = 0 /\ Z15
Z13 == v13 = 0 /\ Z14
Z12 == v12 = 0 /\ Z13
Z11 == v11 = 0 /\ Z12
Z10 == v10 = 0 /\ Z11
Z9 == v9 = 0 /\ Z10
Z8 == v8 = 0 /\ Z9
Z7 == v7 = 0 /\ Z8
Z6 == v6 = 0 /\ Z7
Z5 == v5 = 0 /\ Z6
Z4 == v4 = 0 /\ Z5
Z3 == v3 = 0 /\ Z4
Z2 == v2 = 0 /\ Z3
Z1 == v1 = 0 /\ Z2
U16 == <<v16>>
U15 == <<v15, U16>>
U14 == <<v14, U15>>
U13 == <<v13, U14>>
U12 == <<v12, U13>>
U11 == <<v11, U12>>
U10 == <<v10, U11>>
U9 == <<v9, U10>>
U8 == <<v8, U9>>
U7 == <<v7, U8>>
U6 == <<v6, U7>>
U5 == <<v5, U6>>
U4 == <<v4, U5>>
U3 == <<v3, U4>>
U2 == <<v2, U3>>
U1 == <<v1, U2>>
all == <<part, U1>>

Init ==
    \/ part = "files" /\ Files!Init
    \/ part = "cache" /\ Cache!Init /\ Z13
    \/ part = "table" /\ Table!Init /\ Z12
    \/ part = "logspace" /\ LogSpace!Init /\ Z13
    \/ part = "mem" /\ Mem!Init /\ Z10
    \/ part = "cpu" /\ Cpu!Init /\ Z10
    \/ part = "input" /\ Input!Init /\ Z10
    \/ part = "image" /\ Image!Init /\ Z7
    \/ part = "heap" /\ Heap!Init /\ Z6
    \/ part = "shell" /\ ShellInit /\ Z4
    \/ part = "strings" /\ Z1

\* The log while the power stays on, blocks stay in the buffer cache and only calls
\* in progress use them.
LogSteps ==
    \E p \in {q1, q2} :
        \/ LogSpace!Step(p) \/ LogSpace!Syscall(p)
        \/ v10[p] = "inop" /\ LogSpace!Use(p)

FilesNext == part = "files" /\ Files!Next /\ UNCHANGED part
CacheNext == part = "cache" /\ Cache!Next /\ UNCHANGED <<part, U13>>
TableNext == part = "table" /\ Table!Next /\ UNCHANGED <<part, U12>>
LogSpaceNext == part = "logspace" /\ LogSteps /\ UNCHANGED <<part, U13>>
MemNext == part = "mem" /\ Mem!Next /\ UNCHANGED <<part, U10>>
CpuNext == part = "cpu" /\ Cpu!Next /\ UNCHANGED <<part, U10>>
InputNext == part = "input" /\ Input!Next /\ UNCHANGED <<part, U10>>
ImageNext == part = "image" /\ Image!Next /\ UNCHANGED <<part, U7>>
HeapNext == part = "heap" /\ Heap!Next /\ UNCHANGED <<part, U6>>

\* Behaviours end when the calls are used up, when a panic stops the machine, when
\* mkfs is done, and for the functions of the shell and of strings.
Ended ==
    \/ part = "files" /\ v15 = 3 /\ \A p \in {p1, p2} : v10[p] = "user"
    \/ part = "cache" /\ v12
    \/ part = "mem" /\ v9 = 4
    \/ part \in {"image", "shell", "strings"}

Next ==
    \/ FilesNext \/ CacheNext \/ TableNext \/ LogSpaceNext \/ MemNext \/ CpuNext
    \/ InputNext \/ ImageNext \/ HeapNext
    \/ Ended /\ UNCHANGED all

Spec == Init /\ [][Next]_all

Symmetry == Permutations({p1, p2})
-----------------------------------------------------------------------------
(* Properties, each of its part *)

\* These panics are not reached: filedup() and fileclose() of a file without
\* references; log_write() in a log that is full, by calls that log a block less than
\* begin_op() reserves; mappages(), freewalk(), loadseg(), and walk() while no process
\* has grown beyond TRAPFRAME; acquire(), release(), pop_off() and sched(), whatever
\* interrupts come and wherever a thread goes on.
NoPanic ==
    /\ part = "table" => Table!NoFilePanic
    /\ part = "logspace" => LogSpace!NoPanic
    /\ part = "mem" => Mem!NoPanic
    /\ part = "cpu" => Cpu!NoLockPanic
\* balloc(), bfree(), bmap(), itrunc(): the bitmap says exactly which blocks belong to
\* files, and no block has two places; writei(), itrunc(): an inode that nobody has
\* locked is on disk as it is in memory.
DiskConsistent == part = "files" => Files!BlocksOwnedOnce /\ Files!InodeOnDisk
\* filewrite(): a chunk logs no more blocks than begin_op() reserved for it, and
\* writers that share an open file do not overwrite each other.
FilewriteRight == part = "files" => Files!ChunkFits /\ Files!SharedOffset
\* bget(): a block has at most one buffer; bread(), bpin(), brelse(): who holds the
\* buffer has what was last written to the block; b->refcnt counts the processes on
\* their way to or with the buffer, and the log's pin.
CacheCoherent ==
    part = "cache" => Cache!OneBuffer /\ Cache!HolderSeesLatest /\ Cache!RefcntExact
\* filealloc(), filedup(), fileclose(), pipealloc(), on every error path: f->ref counts
\* the descriptors and the calls, the references to an inode are those of open files,
\* and an end of a pipe is open exactly while a file names it.
FilesCounted ==
    part = "table" =>
        Table!FileRefsExact /\ Table!InodeRefsExact /\ Table!PipeEndsExact
\* kalloc(), kfree() and their callers in vm.c, exec.c and proc.c: every page is free or
\* in one place of one process, whichever allocation fails.
PagesOwnedOnce == part = "mem" => Mem!PagesOwnedOnce
\* push_off(), pop_off(): noff counts the locks, and interrupts are off while it is not
\* 0; sched(): a thread gets its own interrupt state back, on whatever CPU it goes on;
\* scheduler(): a CPU waits in wfi only with interrupts off.
InterruptsNest == part = "cpu" => Cpu!NoffExact /\ Cpu!IntrOfThread /\ Cpu!WfiIntrOff
\* consoleread(): no reader sleeps beside a line it could take.
NoReaderLeft == part = "input" => Input!NoReaderLeft
\* mkfs: the image has sound inodes, a bitmap of what they use, and nothing shared.
ImageSound == part = "image" => Image!ImageSound
\* malloc(), free(): what is handed out and what is free partition the heap, and the
\* free list is in order, circular and without neighbours to join.
HeapSound == part = "heap" => Heap!HeapPartitioned /\ Heap!FreeListSound
\* readi(), writei(), itrunc() implement files as sequences of bytes (FileBytes).
ImplementsBytes ==
    /\ part = "files" => Files!Bytes!Init
    /\ [][part = "files" => UNCHANGED Files!Bytes!vars \/ Files!Bytes!Next]_all
\* Page tables, lazy allocation, fork and exec implement private address spaces
\* (AddressSpace).
ImplementsAddressSpace ==
    /\ part = "mem" => Mem!Space!Init
    /\ [][part = "mem" => \/ UNCHANGED <<v2, v3, v4, v5>>  \* all that Space reads
                           \/ UNCHANGED Mem!Space!vars \/ Mem!Space!Next]_all
\* consoleintr(), consoleread() implement line input (LineInput).
ImplementsLineInput ==
    /\ part = "input" => Input!Lines!Init
    /\ [][part = "input" => UNCHANGED Input!Lines!vars \/ Input!Lines!Next]_all
\* parsecmd(), nulterminate(): a command that is written out is parsed as that command,
\* and a line that is parsed means the same command when it is written out again,
\* however it was spaced; runcmd(): each program has the descriptors that the command
\* says, and no other.
ShellRight ==
    part = "shell" =>
        LET p == Shell!Parsecmd(v2)
            std == [d \in 0..7 |-> IF d < 3 THEN Shell!Console ELSE Shell!Closed]
        IN
        /\ ~v3 => p.err = "no" /\ p.cmd = v1
        /\ p.err = "no" => Shell!Parsecmd(Shell!Text(p.cmd, 3, " ")).cmd = p.cmd
        /\ Shell!Run(v1, std, <<>>) =
               Shell!Wiring(v1, Shell!Console, Shell!Console, <<>>)
\* memmove() is right also when source and destination overlap; skipelem(), dirlink(),
\* namecmp(): a name is found under what it was entered as; printint(), atoi(): a number
\* is printed as it is, the least one too, and read back if an int can hold it; match():
\* grep finds exactly the lines that its expression describes.
StringsRight ==
    part = "strings" =>
        Str!MemmoveRight /\ Str!PathNames /\ Str!NumbersRight /\ Str!MatchRight
=============================================================================
