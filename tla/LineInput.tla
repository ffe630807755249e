----------------------------- MODULE LineInput -----------------------------
(***************************************************************************)
(* What the console's input promises: typed characters collect in a line   *)
(* that may be edited until it is committed; reads take committed          *)
(* characters in order, each once, up to a line, and an end of file is a   *)
(* read of nothing.  Lines and line together hold at most Capacity.        *)
(***************************************************************************)
EXTENDS Integers, Sequences

CONSTANTS Readers, Chars, Capacity

VARIABLES committed, line, got

vars == <<committed, line, got>>

Ends == {"nl", "eof"}

Init ==
    /\ committed = <<>> /\ line = <<>>
    /\ got = [p \in Readers |-> <<>>]

Type(c) ==
    /\ Len(committed) + Len(line) < Capacity
    /\ IF c \in Ends \/ Len(committed) + Len(line) + 1 = Capacity
       THEN committed' = committed \o Append(line, c) /\ line' = <<>>
       ELSE line' = Append(line, c) /\ UNCHANGED committed
    /\ UNCHANGED got

Erase(n) ==
    /\ n \in 1..Len(line)
    /\ line' = SubSeq(line, 1, Len(line) - n)
    /\ UNCHANGED <<committed, got>>

Call(p) == got' = [got EXCEPT ![p] = <<>>] /\ UNCHANGED <<committed, line>>

\* A read takes the first k characters: it stops after a newline and before an end
\* of file, which only a read that has nothing takes.  A character whose copy to
\* the reader failed is gone.
Take(p, k) ==
    /\ k \in 1..Len(committed)
    /\ \A i \in 1..k : committed[i] # "eof" /\ (committed[i] = "nl" => i = k)
    /\ \E lost \in {0, 1} : got' = [got EXCEPT ![p] = @ \o SubSeq(committed, 1, k - lost)]
    /\ committed' = SubSeq(committed, k + 1, Len(committed))
    /\ UNCHANGED line
TakeEof(p) ==
    /\ committed # <<>> /\ Head(committed) = "eof" /\ got[p] = <<>>
    /\ committed' = Tail(committed)
    /\ UNCHANGED <<line, got>>

Next ==
    \/ \E c \in Chars : Type(c)
    \/ \E n \in 1..Capacity : Erase(n)
    \/ \E p \in Readers : Call(p) \/ TakeEof(p) \/ \E k \in 1..Capacity : Take(p, k)

Spec == Init /\ [][Next]_vars
=============================================================================
