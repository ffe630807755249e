----------------------------- MODULE MCProcLive -----------------------------
(***************************************************************************)
(* The process table under a finite load: programs make MaxCalls calls of  *)
(* fork, wait and kill between them and then exit, processes are preempted *)
(* MaxYields times, and the first process waits as long as it has children *)
(* (init.c).  Every behaviour ends, so the only fairness needed is that    *)
(* the machine does not stop while some CPU can take a step.               *)
(***************************************************************************)
EXTENDS Proc

CONSTANTS MaxCalls, MaxYields

VARIABLES calls, yields

liveVars == <<vars, calls, yields>>

Spend(left, max) == left < max /\ left' = left + 1
HasChild(p) == \E q \in Slots : parent[q] = p

Work(c, p) ==
    \/ Dispatch(c, p) /\ UNCHANGED <<calls, yields>>
    \/ Kernel(c, p) /\ UNCHANGED <<calls, yields>>
    \/ Yield(c, p) /\ Spend(yields, MaxYields) /\ UNCHANGED calls
    \/ /\ Trap(c, p)
       /\ \/ pc'[p] = "exit" /\ UNCHANGED calls
          \/ p = initproc /\ pc'[p] = "wait" /\ HasChild(p) /\ UNCHANGED calls
          \/ pc'[p] # "exit" /\ p # initproc /\ Spend(calls, MaxCalls)
          \/ pc'[p] = "fork" /\ p = initproc /\ Spend(calls, MaxCalls)
       /\ UNCHANGED yields
    \/ /\ \E q \in Slots : Kill(c, p, q)
       /\ Spend(calls, MaxCalls)
       /\ UNCHANGED yields

LiveNext ==
    \E c \in CPUs :
        \/ Switch(c) /\ UNCHANGED <<calls, yields>>
        \/ \E p \in Slots : Work(c, p)

LiveInit == Init /\ calls = 0 /\ yields = 0

LiveSpec ==
    /\ LiveInit
    /\ [][LiveNext]_liveVars
    /\ WF_liveVars(LiveNext)

\* Every process but the first is gone.
Reaped == \A p \in Slots \ {initproc} : state[p] = "UNUSED"
=============================================================================
