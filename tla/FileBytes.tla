------------------------------ MODULE FileBytes ------------------------------
(***************************************************************************)
(* What the file layer promises of the contents of files: every file is a  *)
(* sequence of bytes of its own.  A write goes in chunks; a chunk puts its *)
(* bytes one after the other from the offset of the open file on, without  *)
(* a hole, and then moves the offset behind exactly the bytes it put.      *)
(* Nobody reads, truncates or writes the file in the middle of a chunk.    *)
(* Truncation empties one file; a read returns the bytes at the offset,    *)
(* fewer only at the end of the file, and moves the offset behind them.    *)
(***************************************************************************)
EXTENDS Integers, Sequences

CONSTANTS Procs, Files, Opens, InodeOf, MaxBytes, Values

VARIABLES
    contents, off, got,
    put     \* bytes that the chunk in progress has put through an open file

vars == <<contents, off, got, put>>

Init ==
    /\ contents = [f \in Files |-> <<>>]
    /\ off = [o \in Opens |-> 0] /\ put = [o \in Opens |-> 0]
    /\ got = [p \in Procs |-> <<>>]

\* No chunk is in progress on f, but for one through o.
QuietBut(f, o) == \A x \in Opens \ {o} : InodeOf[x] = f => put[x] = 0
Quiet(f) == \A x \in Opens : InodeOf[x] = f => put[x] = 0

\* The bytes of s from position i on, counted from 0, replaced by n times v.
Overwrite(s, i, n, v) ==
    [k \in 1..(IF i + n > Len(s) THEN i + n ELSE Len(s)) |->
        IF k \in (i + 1)..(i + n) THEN v ELSE s[k]]

\* Some bytes go behind those the chunk has put, at most to the end of the file.
Put(o) ==
    LET f == InodeOf[o]
        at == off[o] + put[o]
    IN /\ at <= Len(contents[f]) /\ QuietBut(f, o)
       /\ UNCHANGED <<off, got>>
       /\ \E n \in 1..(MaxBytes - at), v \in Values :
            /\ put' = [put EXCEPT ![o] = @ + n]
            /\ contents' = [contents EXCEPT ![f] = Overwrite(@, at, n, v)]

\* A write that cannot fetch its bytes may have spoilt some at that place which the
\* file had already; they do not count as put.
Spoil(o) ==
    LET f == InodeOf[o]
        at == off[o] + put[o]
    IN /\ QuietBut(f, o)
       /\ UNCHANGED <<off, got, put>>
       /\ \E n \in 1..(Len(contents[f]) - at), v \in Values :
            contents' = [contents EXCEPT ![f] = Overwrite(@, at, n, v)]

\* The chunk ends.
Advance(o) ==
    /\ put[o] > 0
    /\ off' = [off EXCEPT ![o] = @ + put[o]]
    /\ put' = [put EXCEPT ![o] = 0]
    /\ UNCHANGED <<contents, got>>

Truncate(f) ==
    /\ Quiet(f)
    /\ UNCHANGED <<off, got, put>>
    /\ contents' = [contents EXCEPT ![f] = <<>>]

Read(p, o) ==
    /\ Quiet(InodeOf[o])
    /\ \E n \in 1..MaxBytes :
        got' = [got EXCEPT ![p] = SubSeq(contents[InodeOf[o]], off[o] + 1,
                    IF off[o] + n > Len(contents[InodeOf[o]])
                    THEN Len(contents[InodeOf[o]]) ELSE off[o] + n)]
    /\ off' = [off EXCEPT ![o] = @ + Len(got'[p])]
    /\ UNCHANGED <<contents, put>>

Next ==
    \/ \E f \in Files : Truncate(f)
    \/ \E o \in Opens : Put(o) \/ Spoil(o) \/ Advance(o) \/ \E p \in Procs : Read(p, o)

Spec == Init /\ [][Next]_vars
=============================================================================
