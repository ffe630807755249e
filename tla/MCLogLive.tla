----------------------------- MODULE MCLogLive -----------------------------
(***************************************************************************)
(* Log for TLC: liveness of a finite workload.  The power stays on, the    *)
(* first boot is over when the workload starts, and at most MaxUses system *)
(* calls, reads and writes are issued in all.  Everything that was started *)
(* must then run to its end.                                               *)
(***************************************************************************)
EXTENDS Log

CONSTANT MaxUses    \* bound on the number of Use steps

VARIABLE uses

LiveInit == Init /\ uses = 0

LiveNext ==
    \/ \E p \in Procs :
        \/ Step(p) /\ UNCHANGED uses
        \/ uses < MaxUses /\ Use(p) /\ uses' = uses + 1
    \/ \E b \in Blocks : Recycle(b) /\ UNCHANGED uses

LiveSpec ==
    /\ LiveInit /\ [][LiveNext]_<<vars, uses>>
    /\ \A p \in Procs : WF_<<vars, uses>>(Step(p) /\ UNCHANGED uses)

\* Every process is out of its call, no commit is running, and every update is
\* at home on disk.
Quiet ==
    /\ \A p \in Procs : pc[p] = "idle"
    /\ DurableWhenQuiet /\ outstanding = 0 /\ ~committing
=============================================================================
