------------------------------- MODULE Blocks -------------------------------
(***************************************************************************)
(* The contents of files: balloc(), bfree(), bmap(), itrunc(), readi() and *)
(* writei() of kernel/fs.c under fileread() and filewrite() of             *)
(* kernel/file.c, for processes that write, read and truncate files        *)
(* through open files they may share.                                      *)
(*                                                                         *)
(* The lock of an inode is held through a chunk of a write and through a   *)
(* truncation, and each is one step per block: calls on different files    *)
(* compete for blocks.  A block is seen both as data and, when it is an    *)
(* indirect block, as a table of block numbers.                            *)
(***************************************************************************)
EXTENDS Integers, Sequences, FiniteSets

CONSTANTS
    Procs, None,
    Files, Opens, InodeOf,  \* inodes; struct files, and the inode of each
    Truncated,              \* the files that are opened with O_TRUNC
    BSIZE, NDIRECT, NINDIRECT, MAXOPBLOCKS,
    BPB,                    \* blocks that a bitmap block describes
    NBLOCKS,                \* data blocks, numbered from 1
    Lens, MaxCalls          \* bounds: bytes per call, calls

VARIABLES
    used,           \* the bitmap
    data, table,    \* a block as bytes and as block numbers
    addrs, size,    \* ip->addrs (NDIRECT is the indirect block), ip->size
    daddrs, dsize,  \* the same on disk
    ilock,          \* who holds ip->lock
    off,            \* f->off
    pc, r,          \* a process's place and locals
    logged,         \* the blocks it log_write()s in this transaction
    got, wrote,     \* history: what it last read; how many bytes of each file it wrote
    calls, panicked

diskVars == <<used, data, table>>
inodeVars == <<addrs, size, daddrs, dsize>>
vars == <<diskVars, inodeVars, ilock, off, pc, r, logged, got, wrote, calls, panicked>>

Blocks == 1..NBLOCKS
MAXFILE == NDIRECT + NINDIRECT
Min(x, y) == IF x < y THEN x ELSE y
Idle == [o |-> None, f |-> None, n |-> 0, i |-> 0, n1 |-> 0, off |-> 0, tot |-> 0]

Init ==
    /\ used = {}
    /\ data = [b \in Blocks |-> [k \in 0..(BSIZE - 1) |-> None]]
    /\ table = [b \in Blocks |-> [k \in 0..(NINDIRECT - 1) |-> 0]]
    /\ addrs = [f \in Files |-> [k \in 0..NDIRECT |-> 0]] /\ daddrs = addrs
    /\ size = [f \in Files |-> 0] /\ dsize = size
    /\ ilock = [f \in Files |-> None]
    /\ off = [o \in Opens |-> 0]
    /\ pc = [p \in Procs |-> "user"] /\ r = [p \in Procs |-> Idle]
    /\ logged = [p \in Procs |-> {}]
    /\ got = [p \in Procs |-> <<>>] /\ wrote = [p \in Procs |-> [f \in Files |-> 0]]
    /\ calls = 0 /\ panicked = FALSE
-----------------------------------------------------------------------------
(* balloc(), bfree(), bmap() *)

BitmapBlock(b) == <<"bitmap", (b - 1) \div BPB>>
Zeroed == [data |-> [k \in 0..(BSIZE - 1) |-> None],
           table |-> [k \in 0..(NINDIRECT - 1) |-> 0]]

\* The disk as bmap(f, bn) makes its way through it: d holds the bitmap, the
\* tables, the addrs of the inode and the log.  balloc() takes the first free
\* block and zeroes it; the result is 0 if there is none.
Balloc(d) ==
    IF d.used = Blocks THEN [d EXCEPT !.res = 0]
    ELSE LET free == Blocks \ d.used
             b == CHOOSE b \in free : \A c \in free : b <= c
         IN [d EXCEPT !.res = b, !.used = @ \cup {b},
                      !.data[b] = Zeroed.data, !.table[b] = Zeroed.table,
                      !.log = @ \cup {BitmapBlock(b), <<"block", b>>}]

Bmap(d, bn) ==
    IF bn < NDIRECT
    THEN LET e == IF d.addrs[bn] # 0 THEN [d EXCEPT !.res = d.addrs[bn]] ELSE Balloc(d)
         IN [e EXCEPT !.addrs[bn] = e.res]
    ELSE LET e == IF d.addrs[NDIRECT] # 0 THEN [d EXCEPT !.res = d.addrs[NDIRECT]]
                  ELSE Balloc(d)
             t == e.res
             k == bn - NDIRECT
             g == IF e.table[t][k] # 0 THEN [e EXCEPT !.res = e.table[t][k]] ELSE Balloc(e)
         IN IF t = 0 THEN e
            ELSE IF g.res = 0 THEN [g EXCEPT !.addrs[NDIRECT] = t]
            ELSE [g EXCEPT !.addrs[NDIRECT] = t, !.table[t][k] = g.res,
                           !.log = IF e.table[t][k] = 0 THEN @ \cup {<<"block", t>>} ELSE @]

Lookup(f, bn) ==    \* the block that bmap() finds without allocating
    IF bn < NDIRECT THEN addrs[f][bn]
    ELSE IF addrs[f][NDIRECT] = 0 THEN 0 ELSE table[addrs[f][NDIRECT]][bn - NDIRECT]
-----------------------------------------------------------------------------
(* filewrite(), writei() *)

Max == ((MAXOPBLOCKS - 1 - 1 - 2) \div 2) * BSIZE
MaxNoSlop == ((MAXOPBLOCKS - 1 - 1) \div 2) * BSIZE  \* mutant, see Chunk

Write(p, o, n) ==
    /\ pc[p] = "user" /\ calls < MaxCalls
    /\ calls' = calls + 1
    /\ pc' = [pc EXCEPT ![p] = "chunk"]
    /\ r' = [r EXCEPT ![p] = [Idle EXCEPT !.o = o, !.f = InodeOf[o], !.n = n]]
    /\ UNCHANGED <<diskVars, inodeVars, ilock, off, logged, got, wrote, panicked>>

Start(p) == off[r[p].o]
ChunkNoSlop(n) == Min(n, MaxNoSlop)     \* mutant: no room for unaligned writes
Chunk(n) == Min(n, Max)

\* begin_op(), ilock(), and the checks at the start of writei().
WriteChunk(p) ==
    /\ pc[p] = "chunk" /\ ilock[r[p].f] = None
    /\ LET f == r[p].f
           o == Start(p)
           n1 == Chunk(r[p].n - r[p].i)
       IN IF o > size[f] \/ o + n1 > MAXFILE * BSIZE
          THEN /\ pc' = [pc EXCEPT ![p] = "user"]
               /\ r' = [r EXCEPT ![p] = Idle]
               /\ UNCHANGED <<ilock, logged>>
          ELSE /\ pc' = [pc EXCEPT ![p] = "copy"]
               /\ r' = [r EXCEPT ![p].n1 = n1, ![p].off = o, ![p].tot = 0]
               /\ ilock' = [ilock EXCEPT ![f] = p]
               /\ logged' = [logged EXCEPT ![p] = {}]
    /\ UNCHANGED <<diskVars, inodeVars, off, got, wrote, calls, panicked>>

Fill(bytes, at, k, v) == [x \in DOMAIN bytes |-> IF x \in at..(at + k - 1) THEN v ELSE bytes[x]]

\* One turn of writei()'s loop: find the block, copy the bytes in.  copyin() may
\* fail after some bytes: they stay in the buffer.
WriteCopy(p) ==
    /\ pc[p] = "copy" /\ r[p].tot < r[p].n1
    /\ LET f == r[p].f
           d == Bmap([used |-> used, data |-> data, table |-> table, addrs |-> addrs[f],
                      log |-> logged[p], res |-> 0], r[p].off \div BSIZE)
           at == r[p].off % BSIZE
           m == Min(r[p].n1 - r[p].tot, BSIZE - at)
       IN /\ used' = d.used /\ table' = d.table
          /\ addrs' = [addrs EXCEPT ![f] = d.addrs]
          /\ \/ /\ d.res # 0
                /\ data' = [d.data EXCEPT ![d.res] = Fill(@, at, m, p)]
                /\ logged' = [logged EXCEPT ![p] = d.log \cup {<<"block", d.res>>}]
                /\ r' = [r EXCEPT ![p].tot = @ + m, ![p].off = @ + m]
                /\ UNCHANGED pc
             \/ /\ d.res # 0
                /\ \E k \in 0..(m - 1) : data' = [d.data EXCEPT ![d.res] = Fill(@, at, k, p)]
                /\ logged' = [logged EXCEPT ![p] = d.log]
                /\ pc' = [pc EXCEPT ![p] = "update"]
                /\ UNCHANGED r
             \/ /\ d.res = 0
                /\ data' = d.data
                /\ logged' = [logged EXCEPT ![p] = d.log]
                /\ pc' = [pc EXCEPT ![p] = "update"]
                /\ UNCHANGED r
    /\ UNCHANGED <<size, daddrs, dsize, ilock, off, got, wrote, calls, panicked>>

Iupdate(f) ==
    /\ daddrs' = [daddrs EXCEPT ![f] = addrs'[f]]
    /\ dsize' = [dsize EXCEPT ![f] = size'[f]]

IupdateIfGrown(f) ==    \* mutant: written back only when the size changes
    /\ dsize' = [dsize EXCEPT ![f] = size'[f]]
    /\ daddrs' = IF size' = size THEN daddrs ELSE [daddrs EXCEPT ![f] = addrs'[f]]
WriteIupdate(f) == Iupdate(f)

\* What filewrite() moves f->off by: the result of writei().
MovedAll(p) == r[p].n1  \* mutant: by what it asked writei() to write
Moved(p) == r[p].tot

\* The end of writei(), iunlock(), end_op(); filewrite() goes on with the next
\* chunk unless this one was cut short.
WriteEnd(p) ==
    /\ pc[p] = "update" \/ (pc[p] = "copy" /\ r[p].tot = r[p].n1)
    /\ LET f == r[p].f
           o == r[p].o
           i == r[p].i + r[p].tot
           more == r[p].tot = r[p].n1 /\ i < r[p].n
       IN /\ size' = [size EXCEPT ![f] = IF r[p].off > @ THEN r[p].off ELSE @]
          /\ UNCHANGED addrs /\ WriteIupdate(f)
          /\ logged' = [logged EXCEPT ![p] = @ \cup {<<"inode", 0>>}]
          /\ off' = [off EXCEPT ![o] = @ + Moved(p)]
          /\ wrote' = [wrote EXCEPT ![p][f] = @ + r[p].tot]
          /\ ilock' = [ilock EXCEPT ![f] = None]
          /\ pc' = [pc EXCEPT ![p] = IF more THEN "chunk" ELSE "user"]
          /\ r' = [r EXCEPT ![p] = IF more
                                   THEN [@ EXCEPT !.i = i, !.n1 = 0, !.off = 0, !.tot = 0]
                                   ELSE Idle]
    /\ UNCHANGED <<diskVars, got, calls, panicked>>
-----------------------------------------------------------------------------
(* fileread(), open(O_TRUNC) *)

\* readi()'s loop, block by block.
Readi(f, o, n) ==
    LET end == Min(o + n, size[f])
        from[x \in 0..(MAXFILE * BSIZE + BSIZE)] ==
            IF x >= end THEN <<>>
            ELSE LET m == Min(end - x, BSIZE - (x % BSIZE))
                     b == Lookup(f, x \div BSIZE)
                 IN IF b = 0 THEN <<>>
                    ELSE [k \in 1..m |-> data[b][(x % BSIZE) + k - 1]] \o from[x + m]
    IN IF o > size[f] THEN <<>> ELSE from[o]

\* fileread() moves the offset by what readi() read; a copyout() that fails makes
\* readi() return -1.
Read(p, o, n) ==
    /\ pc[p] = "user" /\ calls < MaxCalls
    /\ calls' = calls + 1
    /\ ilock[InodeOf[o]] = None
    /\ LET bytes == Readi(InodeOf[o], off[o], n) IN
        \/ /\ got' = [got EXCEPT ![p] = bytes]
           /\ off' = [off EXCEPT ![o] = @ + Len(bytes)]
        \/ bytes # <<>> /\ UNCHANGED <<got, off>>
    /\ UNCHANGED <<diskVars, inodeVars, ilock, pc, r, logged, wrote, panicked>>

Trunc(p, f) ==
    /\ pc[p] = "user" /\ calls < MaxCalls
    /\ calls' = calls + 1
    /\ ilock[f] = None
    /\ ilock' = [ilock EXCEPT ![f] = p]
    /\ pc' = [pc EXCEPT ![p] = "trunc"]
    /\ r' = [r EXCEPT ![p] = [Idle EXCEPT !.f = f]]
    /\ UNCHANGED <<diskVars, inodeVars, off, logged, got, wrote, panicked>>

\* itrunc() frees block r.i of the file: the direct ones, those of the indirect
\* block, and the indirect block itself.
LastBlock == MAXFILE
Freed(f, i) ==
    IF i < MAXFILE THEN Lookup(f, i) ELSE addrs[f][NDIRECT]
Bfree(b) ==
    IF b # 0 /\ b \notin used THEN panicked' = TRUE /\ UNCHANGED used
    ELSE used' = used \ {b} /\ UNCHANGED panicked
TruncBlock(p) ==
    /\ pc[p] = "trunc" /\ r[p].i <= LastBlock
    /\ LET f == r[p].f IN
        /\ Bfree(Freed(f, r[p].i))
        /\ addrs' = [addrs EXCEPT ![f] =
                        [k \in DOMAIN @ |-> IF \/ k = r[p].i /\ k < NDIRECT
                                               \/ k = NDIRECT /\ r[p].i = MAXFILE
                                            THEN 0 ELSE @[k]]]
    /\ r' = [r EXCEPT ![p].i = @ + 1]
    /\ UNCHANGED <<data, table, size, daddrs, dsize, ilock, off, pc, logged, got, wrote, calls>>

TruncEnd(p) ==
    /\ pc[p] = "trunc" /\ r[p].i > LastBlock
    /\ size' = [size EXCEPT ![r[p].f] = 0]
    /\ UNCHANGED addrs /\ Iupdate(r[p].f)
    /\ ilock' = [ilock EXCEPT ![r[p].f] = None]
    /\ pc' = [pc EXCEPT ![p] = "user"] /\ r' = [r EXCEPT ![p] = Idle]
    /\ UNCHANGED <<diskVars, off, logged, got, wrote, calls, panicked>>

Next ==
    \E p \in Procs :
        \/ \E o \in Opens, n \in Lens : Write(p, o, n) \/ Read(p, o, n)
        \/ \E f \in Truncated : Trunc(p, f)
        \/ WriteChunk(p) \/ WriteCopy(p) \/ WriteEnd(p) \/ TruncBlock(p) \/ TruncEnd(p)

Spec == Init /\ [][Next]_vars
-----------------------------------------------------------------------------
(* Properties *)

\* The bitmap says exactly which blocks belong to files, and every block belongs
\* to one file, in one place: no block is lost when the disk fills up in the
\* middle of a write, none is freed twice or handed to two files.  While itrunc()
\* works through the table of an indirect block, the entries behind it are
\* already void (fs.c, balloc(), bfree(), bmap(), itrunc()).
Truncating(f, k) == \E p \in Procs : pc[p] = "trunc" /\ r[p].f = f /\ k < r[p].i
Refs ==
    {<<f, k>> \in Files \X (0..MAXFILE) :
        ~Truncating(f, k) /\ (IF k = MAXFILE THEN addrs[f][NDIRECT] ELSE Lookup(f, k)) # 0}
BlockAt(f, k) == IF k = MAXFILE THEN addrs[f][NDIRECT] ELSE Lookup(f, k)
BlocksOwnedOnce ==
    /\ used = {BlockAt(x[1], x[2]) : x \in Refs}
    /\ Cardinality(used) = Cardinality(Refs)
    /\ ~panicked

\* A chunk of filewrite() logs no more blocks than begin_op() reserved for it,
\* wherever it starts and whatever it must allocate; the bound is reached.  Says
\* file.c: "write a few blocks at a time to avoid exceeding the maximum log
\* transaction size, including i-node, indirect block, allocation blocks, and 2
\* blocks of slop for non-aligned writes".
ChunkFits == \A p \in Procs : Cardinality(logged[p]) <= MAXOPBLOCKS

\* An inode that is not locked is on the disk as it is in memory, also when a
\* write failed after bmap() had given it a block.
InodeOnDisk ==
    \A f \in Files : ilock[f] = None => daddrs[f] = addrs[f] /\ dsize[f] = size[f]

\* Processes that write through one open file share its offset; since it is read
\* and moved under the inode's lock, no byte that filewrite() counted is
\* overwritten by the other process.
SharedOffset ==
    \A f \in Files \ Truncated : ilock[f] = None /\ Cardinality({o \in Opens : InodeOf[o] = f}) = 1 =>
        \A p \in Procs :
            Cardinality({k \in 0..(size[f] - 1) :
                data[Lookup(f, k \div BSIZE)][k % BSIZE] = p}) = wrote[p][f]

\* The blocks implement FileBytes: the bytes of a file are those of its blocks,
\* up to its size or to where the process that writes it has got; the bytes put
\* through an open file are those that writei() has counted so far.
SizeNow(f) ==
    LET w == {p \in Procs : r[p].f = f /\ pc[p] \in {"copy", "update"}} IN
    IF w = {} THEN size[f]
    ELSE LET p == CHOOSE p \in w : TRUE IN IF r[p].off > size[f] THEN r[p].off ELSE size[f]
BytesOf(f) ==
    IF \E p \in Procs : pc[p] = "trunc" /\ r[p].f = f /\ r[p].i > 0 THEN <<>>
    ELSE [k \in 1..SizeNow(f) |-> data[Lookup(f, (k - 1) \div BSIZE)][(k - 1) % BSIZE]]
PutThrough(o) ==
    LET w == {p \in Procs : r[p].o = o /\ pc[p] \in {"copy", "update"}} IN
    IF w = {} THEN 0 ELSE r[CHOOSE p \in w : TRUE].tot
Bytes == INSTANCE FileBytes WITH
    contents <- [f \in Files |-> BytesOf(f)], put <- [o \in Opens |-> PutThrough(o)],
    Values <- Procs, MaxBytes <- MAXFILE * BSIZE
ImplementsBytes == Bytes!Spec
=============================================================================
