---------------------------- MODULE Transactions ----------------------------
(***************************************************************************)
(* What the logging layer promises the file system.  File-system calls run *)
(* concurrently between begin and end; each one updates blocks of a        *)
(* logical disk.  The durable disk only ever takes over the whole logical  *)
(* disk, and only at a moment when no call is in progress; a power failure *)
(* falls back to the durable disk.  A call is therefore on the durable     *)
(* disk with all of its updates or with none of them.                      *)
(***************************************************************************)
CONSTANTS
    Procs,      \* processes that make file-system calls
    Blocks,     \* home locations: every block outside the log
    Data        \* what a block can hold

VARIABLES
    mem,        \* what a read of a block returns
    stable,     \* what a read of a block returns after a power failure
    active      \* the processes inside a file-system call

tvars == <<mem, stable, active>>

TInit ==
    /\ stable \in [Blocks -> Data]
    /\ mem = stable
    /\ active = {}

Begin(p) ==
    /\ p \notin active
    /\ active' = active \cup {p}
    /\ UNCHANGED <<mem, stable>>

Update(p, b, v) ==
    /\ p \in active
    /\ mem' = [mem EXCEPT ![b] = v]
    /\ UNCHANGED <<stable, active>>

End(p) ==
    /\ p \in active
    /\ active' = active \ {p}
    /\ UNCHANGED <<mem, stable>>

Commit ==
    /\ active = {}
    /\ stable' = mem
    /\ UNCHANGED <<mem, active>>

PowerFailure ==
    /\ mem' = stable
    /\ active' = {}
    /\ UNCHANGED stable

TNext ==
    \/ \E p \in Procs : Begin(p) \/ End(p)
    \/ \E p \in Procs, b \in Blocks, v \in Data : Update(p, b, v)
    \/ Commit
    \/ PowerFailure

TSpec == TInit /\ [][TNext]_tvars
=============================================================================
