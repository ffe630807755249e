---------------------------- MODULE MCVirtioLive ----------------------------
(***************************************************************************)
(* The disk driver under MaxCalls requests in all.  The device works, its  *)
(* interrupt is delivered, and a process that can run does.                *)
(***************************************************************************)
EXTENDS Virtio

CONSTANT MaxCalls

VARIABLE calls

liveVars == <<vars, calls>>

LiveNext ==
    \/ (Interrupt \/ Device) /\ UNCHANGED calls
    \/ \E p \in Procs :
        \/ Driver(p) /\ UNCHANGED calls
        \/ calls < MaxCalls /\ Call(p) /\ calls' = calls + 1

LiveInit == Init /\ calls = 0

LiveSpec ==
    /\ LiveInit /\ [][LiveNext]_liveVars
    /\ WF_liveVars(Interrupt /\ UNCHANGED calls)
    /\ WF_liveVars(DevTake /\ UNCHANGED calls)
    /\ \A h \in Descs : WF_liveVars(DevComplete(h) /\ UNCHANGED calls)
    /\ \A p \in Procs : WF_liveVars(Driver(p) /\ UNCHANGED calls)

\* Every request is back and every descriptor is free.
Returned == (\A p \in Procs : pc[p] \in {"idle", "done"}) /\ free = Descs
=============================================================================
