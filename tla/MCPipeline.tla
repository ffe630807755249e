----------------------------- MODULE MCPipeline -----------------------------
(***************************************************************************)
(* A shell pipeline over the pipe (user/sh.c, case PIPE): the shell has    *)
(* forked both sides and closes its descriptors; the left side writes      *)
(* Total bytes and closes; the right side reads to end of file.  Every     *)
(* behaviour ends, so all the fairness needed is that steps that can be    *)
(* taken are taken.                                                        *)
(***************************************************************************)
EXTENDS Pipe

CONSTANTS Left, Right, Total

VARIABLES todo, received, eof

liveVars == <<vars, todo, received, eof>>

LiveInit ==
    /\ data \in [0..PIPESIZE - 1 -> Byte]
    /\ nread = 0 /\ nwrite = 0
    /\ open = [e \in Ends |-> TRUE]
    /\ freed = FALSE
    /\ lock = None
    /\ ref = [e \in Ends |-> 3]
    /\ holds = [e \in Ends |-> Procs]
    /\ killed = [p \in Procs |-> FALSE]
    /\ pc = [p \in Procs |-> "user"]
    /\ left = [p \in Procs |-> 0]
    /\ todo = Total /\ received = 0 /\ eof = FALSE

\* Each process closes the ends it does not use, then its own when done.
Done(p, e) ==
    /\ p = Left /\ e = "write" => todo = 0
    /\ p = Right /\ e = "read" => eof

LiveStep(p) ==
    \/ \E e \in Ends : Done(p, e) /\ FileClose(p, e) /\ UNCHANGED <<todo, received, eof>>
    \/ \E e \in Ends : PipeClose(p, e) /\ UNCHANGED <<todo, received, eof>>
    \/ Exit(p) /\ UNCHANGED <<todo, received, eof>>
    \/ /\ p = Left /\ p \notin holds["read"]
       /\ \/ /\ WriteLock(p)
             /\ todo' = IF pc[p] = "user" THEN todo - left'[p] ELSE todo
             /\ todo' >= 0 /\ left'[p] > 0
          \/ (WriteFull(p) \/ WriteSleep(p) \/ WriteByte(p)) /\ UNCHANGED todo
          \/ left[p] = 0 /\ WriteDone(p) /\ UNCHANGED todo
       /\ UNCHANGED <<received, eof>>
    \/ /\ p = Right /\ p \notin holds["write"] /\ ~eof
       /\ \/ ReadLock(p) /\ left'[p] > 0 /\ UNCHANGED <<received, eof>>
          \/ (ReadEmpty(p) \/ ReadSleep(p)) /\ UNCHANGED <<received, eof>>
          \/ /\ ReadCopy(p)
             /\ eof' = Empty
             /\ received' = received + ((nread' - nread) % UINTS)
       /\ UNCHANGED todo

LiveNext == \E p \in Procs : LiveStep(p)

LiveSpec == LiveInit /\ [][LiveNext]_liveVars /\ WF_liveVars(LiveNext)

\* Every byte written was read, everybody has left, and the pipe is freed.
Ended == received = Total /\ freed /\ \A p \in Procs : pc[p] = "none"
=============================================================================
