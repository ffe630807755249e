------------------------------ MODULE ByteQueue ------------------------------
(***************************************************************************)
(* What a pipe promises: a bounded queue of bytes.  Bytes leave it in the  *)
(* order they entered, each once; what is left in it when both ends are    *)
(* closed is lost.                                                         *)
(***************************************************************************)
EXTENDS Integers, Sequences

CONSTANTS Byte, Capacity

VARIABLES
    queue,      \* the bytes in the pipe
    gone        \* both ends are closed

qvars == <<queue, gone>>

QInit == queue = <<>> /\ gone = FALSE

Put ==
    /\ ~gone /\ Len(queue) < Capacity
    /\ \E d \in Byte : queue' = Append(queue, d)
    /\ UNCHANGED gone

\* A read takes one or more bytes at once.
Take ==
    /\ ~gone
    /\ \E n \in 1..Len(queue) : queue' = SubSeq(queue, n + 1, Len(queue))
    /\ UNCHANGED gone

Discard == queue' = <<>> /\ gone' = TRUE

QNext == Put \/ Take \/ Discard

QSpec == QInit /\ [][QNext]_qvars
=============================================================================
