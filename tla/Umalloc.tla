------------------------------- MODULE Umalloc ------------------------------
(***************************************************************************)
(* malloc() and free() of user/umalloc.c: a circular list of free blocks   *)
(* in address order, first fit from where the last search ended, blocks    *)
(* joined with their neighbours when they are freed.  Addresses and sizes  *)
(* are units of sizeof(Header); address 0 is `base'.                       *)
(***************************************************************************)
EXTENDS Integers, FiniteSets

CONSTANTS
    NALLOC,     \* the least that morecore() asks for, 4096 in the code
    Top,        \* sbrk() fails beyond it
    Requests    \* bound: nunits of the calls of malloc()

VARIABLES
    ptr, size,  \* s.ptr and s.size of the header at an address
    freep,      \* -1 before the first call
    brk,
    live        \* the blocks handed out

vars == <<ptr, size, freep, brk, live>>

Heap == 2..Top  \* the heap lies above base and does not touch it

Init ==
    /\ ptr = [a \in {0} \cup Heap |-> 0] /\ size = [a \in {0} \cup Heap |-> 0]
    /\ freep = -1 /\ brk = 2 /\ live = {}

\* A heap, as a record, while a call works on it.
H == [ptr |-> ptr, size |-> size, freep |-> freep, brk |-> brk]

\* The block that bp goes behind.
RECURSIVE Behind(_, _, _)
Behind(h, p, bp) ==
    IF (bp > p /\ bp < h.ptr[p]) \/ (p >= h.ptr[p] /\ (bp > p \/ bp < h.ptr[p])) THEN p
    ELSE Behind(h, h.ptr[p], bp)

JoinUp(h, p, bp) ==
    LET q == h.ptr[p] IN
    IF bp + h.size[bp] = q
    THEN [h EXCEPT !.size[bp] = @ + h.size[q], !.ptr[bp] = h.ptr[q]]
    ELSE [h EXCEPT !.ptr[bp] = q]
\* Mutant: a block that joins the one below it is linked as well.
JoinDownLinks(h, p, bp) ==
    IF p + h.size[p] = bp THEN [h EXCEPT !.size[p] = @ + h.size[bp], !.ptr[p] = bp]
    ELSE [h EXCEPT !.ptr[p] = bp]
JoinDown(h, p, bp) ==
    IF p + h.size[p] = bp
    THEN [h EXCEPT !.size[p] = @ + h.size[bp], !.ptr[p] = h.ptr[bp]]
    ELSE [h EXCEPT !.ptr[p] = bp]
FreeIn(h, bp) ==
    LET p == Behind(h, h.freep, bp)
    IN [JoinDown(JoinUp(h, p, bp), p, bp) EXCEPT !.freep = p]

\* The result of sbrk() becomes a block, which is freed.
Morecore(h, nu) ==
    LET n == IF nu < NALLOC THEN NALLOC ELSE nu IN
    FreeIn([h EXCEPT !.size[h.brk] = n, !.brk = @ + n], h.brk)
CanGrow(h, nu) == h.brk + (IF nu < NALLOC THEN NALLOC ELSE nu) <= Top

\* The search; the result is the heap and the block, or block 0.
Carve(h, prevp, p, nunits) ==
    IF h.size[p] = nunits
    THEN [h |-> [h EXCEPT !.ptr[prevp] = h.ptr[p], !.freep = prevp], p |-> p]
    ELSE LET q == p + h.size[p] - nunits IN
         [h |-> [h EXCEPT !.size[p] = @ - nunits, !.size[q] = nunits, !.freep = prevp],
          p |-> q]
RECURSIVE Search(_, _, _, _)
Search(h, prevp, p, nunits) ==
    LET m == Morecore(h, nunits) IN
    IF h.size[p] >= nunits THEN Carve(h, prevp, p, nunits)
    ELSE IF p # h.freep THEN Search(h, p, h.ptr[p], nunits)
    ELSE IF ~CanGrow(h, nunits) THEN [h |-> h, p |-> 0]
    ELSE Search(m, m.freep, m.ptr[m.freep], nunits)

\* The blocks on the list.  The other headers are not read before they are written,
\* except for the sizes of the blocks handed out, and are not kept.
RECURSIVE ListFrom(_, _, _)
ListFrom(h, a, seen) == IF a \in seen THEN seen ELSE ListFrom(h, h.ptr[a], seen \cup {a})
Becomes(h, used) ==
    LET list == ListFrom(h, 0, {}) IN
    /\ ptr' = [a \in DOMAIN h.ptr |-> IF a \in list THEN h.ptr[a] ELSE 0]
    /\ size' = [a \in DOMAIN h.size |->
                    IF a \in list \cup {b.at : b \in used} THEN h.size[a] ELSE 0]
    /\ freep' = h.freep /\ brk' = h.brk /\ live' = used

Malloc(nunits) ==
    LET h == IF freep = -1 THEN [H EXCEPT !.freep = 0] ELSE H
        found == Search(h, h.freep, h.ptr[h.freep], nunits)
    IN Becomes(found.h, IF found.p = 0 THEN live
                        ELSE live \cup {[at |-> found.p, n |-> nunits]})

Free(b) == b \in live /\ Becomes(FreeIn(H, b.at), live \ {b})

Next == (\E n \in Requests : Malloc(n)) \/ (\E b \in live : Free(b))

Spec == Init /\ [][Next]_vars
-----------------------------------------------------------------------------
(* Properties *)

FreeList == ListFrom(H, 0, {}) \ {0}
Units(a, n) == a..(a + n - 1)

\* Every unit of the heap is in exactly one block that is free or handed out: no
\* two blocks overlap and none is lost, whatever was split, joined and grown.
HeapPartitioned ==
    LET blocks == live \cup {[at |-> a, n |-> size[a]] : a \in FreeList} IN
    /\ UNION {Units(b.at, b.n) : b \in blocks} = 2..(brk - 1)
    /\ \A b, c \in blocks : b # c => Units(b.at, b.n) \cap Units(c.at, c.n) = {}
    /\ \A b \in live : size[b.at] = b.n

\* The free list stays circular, in address order, and without neighbours that
\* could be one block: free() relies on the order to find its place and to end.
FreeListSound ==
    \A a \in FreeList :
        /\ ptr[a] > a \/ ptr[a] = 0
        /\ ptr[a] # a + size[a]
=============================================================================
