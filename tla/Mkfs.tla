-------------------------------- MODULE Mkfs --------------------------------
(***************************************************************************)
(* The disk image that mkfs/mkfs.c builds: inodes and blocks handed out in *)
(* order, direct and indirect addresses filled in by iappend(), the size   *)
(* of the root directory rounded up, and the bitmap written last.  File    *)
(* contents and names are left out.                                        *)
(***************************************************************************)
EXTENDS Integers, FiniteSets

CONSTANTS
    BSIZE, NDIRECT, NINDIRECT, NMETA,
    DIRENT,         \* sizeof(struct dirent)
    NFILES, FSSIZE  \* bounds: files on the command line; mkfs does not check that
                    \* they fit

VARIABLES
    din,        \* struct dinode of the inodes made so far; 1 is the root
    table,      \* the contents of the indirect blocks
    freeinode, freeblock,
    bitmap,     \* the blocks marked as used
    step        \* "root", "file" (data of the last file), "done"

vars == <<din, table, freeinode, freeblock, bitmap, step>>

MAXFILE == NDIRECT + NINDIRECT

\* An image, as a record, while a function works on it.
Image == [din |-> din, table |-> table, freeinode |-> freeinode, freeblock |-> freeblock]

Ialloc(m) ==
    [m EXCEPT !.freeinode = @ + 1,
        !.din = [i \in DOMAIN @ \cup {m.freeinode} |->
                    IF i = m.freeinode THEN [size |-> 0, addrs |-> [k \in 0..NDIRECT |-> 0]]
                    ELSE @[i]]]

\* The address for file block fbn, allocated if there is none.
Direct(m, inum, k) ==
    IF m.din[inum].addrs[k] # 0 THEN m
    ELSE [m EXCEPT !.din[inum].addrs[k] = m.freeblock, !.freeblock = @ + 1]
Indirect(m, inum, k) ==
    LET n == Direct(m, inum, NDIRECT)
        b == n.din[inum].addrs[NDIRECT]
    IN IF n.table[b][k] # 0 THEN n
       ELSE [n EXCEPT !.table[b][k] = n.freeblock, !.freeblock = @ + 1]
RECURSIVE Iappend(_, _, _)
Iappend(m, inum, n) ==
    LET off == m.din[inum].size
        fbn == off \div BSIZE
        room == (fbn + 1) * BSIZE - off
        n1 == IF n < room THEN n ELSE room
        a == IF fbn < NDIRECT THEN Direct(m, inum, fbn) ELSE Indirect(m, inum, fbn - NDIRECT)
    IN IF n = 0 THEN m ELSE Iappend([a EXCEPT !.din[inum].size = @ + n1], inum, n - n1)

Becomes(m) == din' = m.din /\ table' = m.table /\ freeinode' = m.freeinode
              /\ freeblock' = m.freeblock

Init ==
    /\ din = [i \in {} |-> 0]
    /\ table = [b \in 0..FSSIZE |-> [k \in 0..(NINDIRECT - 1) |-> 0]]
    /\ freeinode = 1 /\ freeblock = NMETA /\ bitmap = {} /\ step = "start"

Root ==     \* the root, with "." and ".."
    /\ step = "start" /\ step' = "file"
    /\ Becomes(Iappend(Iappend(Ialloc(Image), 1, DIRENT), 1, DIRENT))
    /\ UNCHANGED bitmap

File ==     \* a file of the command line, with its entry in the root
    /\ step = "file" /\ freeinode <= NFILES + 1 /\ freeblock + 2 < FSSIZE
    /\ din[1].size + DIRENT <= MAXFILE * BSIZE
    /\ Becomes(Iappend(Ialloc(Image), 1, DIRENT))
    /\ UNCHANGED <<bitmap, step>>

Data(cc) == \* what one read() of it gave
    /\ step = "file" /\ freeinode > 2 /\ freeblock + 3 < FSSIZE
    /\ din[freeinode - 1].size + cc <= MAXFILE * BSIZE
    /\ Becomes(Iappend(Image, freeinode - 1, cc))
    /\ UNCHANGED <<bitmap, step>>

BallocOver == 0..freeblock  \* mutant: one block too many is marked
Balloc == 0..(freeblock - 1)
Rounded(off) == ((off \div BSIZE) + 1) * BSIZE
Finish ==
    /\ step = "file" /\ step' = "done"
    /\ din' = [din EXCEPT ![1].size = Rounded(@)]
    /\ bitmap' = Balloc
    /\ UNCHANGED <<table, freeinode, freeblock>>

Next == Root \/ File \/ (\E cc \in 1..BSIZE : Data(cc)) \/ Finish

Spec == Init /\ [][Next]_vars
-----------------------------------------------------------------------------
(* Properties *)

FileBlock(i, k) == IF k < NDIRECT THEN din[i].addrs[k]
                   ELSE IF din[i].addrs[NDIRECT] = 0 THEN 0
                   ELSE table[din[i].addrs[NDIRECT]][k - NDIRECT]
Uses == {<<i, k>> \in (DOMAIN din) \X (0..(MAXFILE - 1)) : FileBlock(i, k) # 0}
Tables == {i \in DOMAIN din : din[i].addrs[NDIRECT] # 0}
NBlocks(n) == (n + BSIZE - 1) \div BSIZE

\* The finished image is what the kernel's block allocator relies on: every block
\* has one use, the bitmap marks exactly those in use, and files have a block for
\* each of their bytes.  Only the last block of the root can be missing, when its
\* entries fill blocks exactly: the rounding then adds a block that is not there.
ImageSound ==
    step = "done" =>
        LET blocks == {FileBlock(u[1], u[2]) : u \in Uses}
            tables == {din[i].addrs[NDIRECT] : i \in Tables}
        IN /\ bitmap = (0..(NMETA - 1)) \cup blocks \cup tables
           /\ Cardinality(bitmap) = NMETA + Cardinality(Uses) + Cardinality(Tables)
           /\ \A i \in DOMAIN din : {k \in 0..(MAXFILE - 1) : <<i, k>> \in Uses} =
                IF i # 1 THEN 0..(NBlocks(din[i].size) - 1)
                ELSE 0..(NBlocks(freeinode * DIRENT) - 1)
           /\ din[1].size = BSIZE * NBlocks(freeinode * DIRENT + 1)
=============================================================================
