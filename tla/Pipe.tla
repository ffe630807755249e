-------------------------------- MODULE Pipe --------------------------------
(***************************************************************************)
(* One pipe (kernel/pipe.c) and the references to its two ends             *)
(* (kernel/file.c), used by several processes that fork, read, write,      *)
(* close and get killed.                                                   *)
(*                                                                         *)
(* pi->lock is explicit, because kill() does not take it: a process can be *)
(* killed in any iteration of the loops.  sleep() and wakeup() are atomic  *)
(* with respect to pi->lock, which is what Proc shows of them.  nread and  *)
(* nwrite are unsigned ints: they count modulo UINTS.                      *)
(***************************************************************************)
EXTENDS Integers, Sequences, FiniteSets

CONSTANTS
    Procs, Creator,     \* processes; the one that called pipe()
    Byte,               \* what can be written
    PIPESIZE, UINTS,    \* buffer size; number of values of a uint
    MaxN,               \* bound on the n of a read() or write()
    Kills,              \* whether processes get killed
    None                \* a free lock

ASSUME CreatorAssumption == Creator \in Procs /\ None \notin Procs
ASSUME ByteAssumption == Byte # {}
ASSUME SizeAssumption ==
    /\ PIPESIZE \in Nat \ {0} /\ UINTS \in Nat /\ MaxN \in Nat
    /\ UINTS > PIPESIZE /\ UINTS % PIPESIZE = 0
ASSUME KillsAssumption == Kills \in BOOLEAN

VARIABLES
    data, nread, nwrite,    \* struct pipe
    open,       \* pi->readopen and pi->writeopen, by the end of the pipe
    freed,      \* the page of struct pipe was given to kfree()
    lock,       \* holder of pi->lock
    ref,        \* f->ref of the two files
    holds,      \* the processes with a descriptor for the file
    killed,     \* p->killed
    pc,         \* where a process is
    left        \* bytes its write() has yet to write, or its read() wants

pipeVars == <<data, nread, nwrite, open, freed>>
fileVars == <<ref, holds>>
vars == <<data, nread, nwrite, open, freed, lock, ref, holds, killed, pc, left>>

Ends == {"read", "write"}
Writing == {"wloop", "wfull", "wsleep", "wwoken"}
Reading == {"rloop", "rempty", "rsleep", "rwoken"}
Closing(e) == IF e = "read" THEN "rclose" ELSE "wclose"
Places == {"none", "user", "rclose", "wclose"} \cup Writing \cup Reading

Empty == nread = nwrite
Full == nwrite = (nread + PIPESIZE) % UINTS
Used == (nwrite - nread) % UINTS

Goto(p, place) == pc' = [pc EXCEPT ![p] = place]
Release(p) == lock' = None /\ left' = [left EXCEPT ![p] = 0]

\* pc when wakeup() makes everybody who sleeps at "from" runnable and p goes to
\* "place".
WakeupGoto(p, from, woken, place) ==
    pc' = [q \in Procs |-> IF q = p THEN place
                           ELSE IF pc[q] = from THEN woken ELSE pc[q]]
WakeReaders(p, place) == WakeupGoto(p, "rsleep", "rwoken", place)
WakeWriters(p, place) == WakeupGoto(p, "wsleep", "wwoken", place)

\* pipealloc() and sys_pipe() have succeeded.
Init ==
    /\ data \in [0..PIPESIZE - 1 -> Byte]
    /\ nread = 0 /\ nwrite = 0
    /\ open = [e \in Ends |-> TRUE]
    /\ freed = FALSE
    /\ lock = None
    /\ ref = [e \in Ends |-> 1]
    /\ holds = [e \in Ends |-> {Creator}]
    /\ killed = [p \in Procs |-> FALSE]
    /\ pc = [p \in Procs |-> IF p = Creator THEN "user" ELSE "none"]
    /\ left = [p \in Procs |-> 0]
-----------------------------------------------------------------------------
(* Processes and descriptors *)

\* Mutant: fork copies descriptors without counting them.
ForkWithoutFiledup(p, q) ==
    /\ pc[p] = "user" /\ ~killed[p]
    /\ pc[q] = "none"
    /\ holds' = [e \in Ends |->
                    IF p \in holds[e] THEN holds[e] \cup {q} ELSE holds[e]]
    /\ UNCHANGED ref
    /\ Goto(q, "user")
    /\ UNCHANGED <<pipeVars, lock, killed, left>>

\* kfork(): the child gets the parent's descriptors, with filedup().
Fork(p, q) ==
    /\ pc[p] = "user" /\ ~killed[p]
    /\ pc[q] = "none"
    /\ holds' = [e \in Ends |->
                    IF p \in holds[e] THEN holds[e] \cup {q} ELSE holds[e]]
    /\ ref' = [e \in Ends |-> IF p \in holds[e] THEN ref[e] + 1 ELSE ref[e]]
    /\ Goto(q, "user")
    /\ UNCHANGED <<pipeVars, lock, killed, left>>

\* fileclose(), from close() or exit(): the last reference closes the end.
FileClose(p, e) ==
    /\ pc[p] = "user"
    /\ p \in holds[e]
    /\ holds' = [holds EXCEPT ![e] = @ \ {p}]
    /\ ref' = [ref EXCEPT ![e] = @ - 1]
    /\ Goto(p, IF ref[e] > 1 THEN "user" ELSE Closing(e))
    /\ UNCHANGED <<pipeVars, lock, killed, left>>

\* A process without descriptors is done with the pipe; its slot in the process
\* table is reused with p->killed cleared.
Exit(p) ==
    /\ pc[p] = "user"
    /\ \A e \in Ends : p \notin holds[e]
    /\ killed' = [killed EXCEPT ![p] = FALSE]
    /\ Goto(p, "none")
    /\ UNCHANGED <<pipeVars, lock, fileVars, left>>

\* kkill() wakes a sleeper; it does not take pi->lock.
Kill(p) ==
    /\ Kills /\ pc[p] # "none"
    /\ killed' = [killed EXCEPT ![p] = TRUE]
    /\ Goto(p, IF pc[p] = "rsleep" THEN "rwoken"
               ELSE IF pc[p] = "wsleep" THEN "wwoken" ELSE pc[p])
    /\ UNCHANGED <<pipeVars, lock, fileVars, left>>

\* Mutant: closing either end wakes the writers.
PipeCloseWakesWriters(p, e) ==
    /\ pc[p] = Closing(e)
    /\ lock = None
    /\ open' = [open EXCEPT ![e] = FALSE]
    /\ WakeWriters(p, "user")
    /\ freed' = (freed \/ \A f \in Ends : ~open'[f])
    /\ UNCHANGED <<data, nread, nwrite, lock, fileVars, killed, left>>

PipeClose(p, e) ==
    /\ pc[p] = Closing(e)
    /\ lock = None
    /\ open' = [open EXCEPT ![e] = FALSE]
    /\ IF e = "write" THEN WakeReaders(p, "user") ELSE WakeWriters(p, "user")
    /\ freed' = (freed \/ \A f \in Ends : ~open'[f])
    /\ UNCHANGED <<data, nread, nwrite, lock, fileVars, killed, left>>
-----------------------------------------------------------------------------
(* pipewrite() *)

\* Enter pipewrite(), or return from the sleep in it.
WriteLock(p) ==
    /\ lock = None
    /\ \/ /\ pc[p] = "user" /\ ~killed[p] /\ p \in holds["write"]
          /\ \E n \in 0..MaxN : left' = [left EXCEPT ![p] = n]
       \/ pc[p] = "wwoken" /\ UNCHANGED left
    /\ lock' = p
    /\ Goto(p, "wloop")
    /\ UNCHANGED <<pipeVars, fileVars, killed>>

\* No reader, or killed: -1, whatever was written before.
WriteFail(p) ==
    /\ pc[p] = "wloop" /\ left[p] > 0
    /\ ~open["read"] \/ killed[p]
    /\ Release(p)
    /\ Goto(p, "user")
    /\ UNCHANGED <<pipeVars, fileVars, killed>>

WriteFull(p) ==
    /\ pc[p] = "wloop" /\ left[p] > 0
    /\ open["read"] /\ ~killed[p]
    /\ Full
    /\ Goto(p, "wfull")
    /\ UNCHANGED <<pipeVars, lock, fileVars, killed, left>>

\* Mutant: a writer that finds the pipe full wakes no reader.
WriteSleepSilent(p) ==
    /\ pc[p] = "wfull"
    /\ Goto(p, "wsleep")
    /\ lock' = None
    /\ UNCHANGED <<pipeVars, fileVars, killed, left>>

\* killed() was read before: a kill in between leaves the process asleep.
WriteSleep(p) ==
    /\ pc[p] = "wfull"
    /\ WakeReaders(p, "wsleep")
    /\ lock' = None
    /\ UNCHANGED <<pipeVars, fileVars, killed, left>>

\* Mutant: the byte is stored one place too far.
WriteBytePreincrement(p) ==
    /\ pc[p] = "wloop" /\ left[p] > 0
    /\ open["read"] /\ ~killed[p]
    /\ ~Full
    /\ \E ch \in Byte : data' = [data EXCEPT ![(nwrite + 1) % PIPESIZE] = ch]
    /\ nwrite' = (nwrite + 1) % UINTS
    /\ left' = [left EXCEPT ![p] = @ - 1]
    /\ UNCHANGED <<nread, open, freed, lock, fileVars, killed, pc>>

WriteByte(p) ==
    /\ pc[p] = "wloop" /\ left[p] > 0
    /\ open["read"] /\ ~killed[p]
    /\ ~Full
    /\ \E ch \in Byte : data' = [data EXCEPT ![nwrite % PIPESIZE] = ch]
    /\ nwrite' = (nwrite + 1) % UINTS
    /\ left' = [left EXCEPT ![p] = @ - 1]
    /\ UNCHANGED <<nread, open, freed, lock, fileVars, killed, pc>>

\* All written, or copyin() fails.
WriteDone(p) ==
    /\ pc[p] = "wloop"
    /\ left[p] > 0 => open["read"] /\ ~killed[p] /\ ~Full
    /\ WakeReaders(p, "user")
    /\ Release(p)
    /\ UNCHANGED <<pipeVars, fileVars, killed>>
-----------------------------------------------------------------------------
(* piperead() *)

ReadLock(p) ==
    /\ lock = None
    /\ \/ /\ pc[p] = "user" /\ ~killed[p] /\ p \in holds["read"]
          /\ \E n \in 0..MaxN : left' = [left EXCEPT ![p] = n]
       \/ pc[p] = "rwoken" /\ UNCHANGED left
    /\ lock' = p
    /\ Goto(p, "rloop")
    /\ UNCHANGED <<pipeVars, fileVars, killed>>

ReadKilled(p) ==
    /\ pc[p] = "rloop"
    /\ Empty /\ open["write"] /\ killed[p]
    /\ Release(p)
    /\ Goto(p, "user")
    /\ UNCHANGED <<pipeVars, fileVars, killed>>

ReadEmpty(p) ==
    /\ pc[p] = "rloop"
    /\ Empty /\ open["write"] /\ ~killed[p]
    /\ Goto(p, "rempty")
    /\ UNCHANGED <<pipeVars, lock, fileVars, killed, left>>

\* Here too a kill may come between killed() and the sleep.
ReadSleep(p) ==
    /\ pc[p] = "rempty"
    /\ Goto(p, "rsleep")
    /\ lock' = None
    /\ UNCHANGED <<pipeVars, fileVars, killed, left>>

\* Mutant: piperead() does not wake the writers.
ReadCopySilent(p) ==
    /\ pc[p] = "rloop"
    /\ ~Empty \/ ~open["write"]
    /\ \E taken \in 0..left[p] :
        /\ taken <= Used
        /\ left[p] > 0 /\ Used > 0 => taken > 0
        /\ nread' = (nread + taken) % UINTS
    /\ Goto(p, "user")
    /\ Release(p)
    /\ UNCHANGED <<data, nwrite, open, freed, fileVars, killed>>

\* Copy what there is, n bytes at most.  A byte whose copyout() fails has left
\* the buffer already and is lost; then the rest stays.
ReadCopy(p) ==
    /\ pc[p] = "rloop"
    /\ ~Empty \/ ~open["write"]
    /\ \E taken \in 0..left[p] :
        /\ taken <= Used
        /\ left[p] > 0 /\ Used > 0 => taken > 0
        /\ nread' = (nread + taken) % UINTS
    /\ WakeWriters(p, "user")
    /\ Release(p)
    /\ UNCHANGED <<data, nwrite, open, freed, fileVars, killed>>
-----------------------------------------------------------------------------
Next ==
    \E p \in Procs :
        \/ \E q \in Procs : Fork(p, q)
        \/ \E e \in Ends : FileClose(p, e) \/ PipeClose(p, e)
        \/ Exit(p) \/ Kill(p)
        \/ WriteLock(p) \/ WriteFail(p) \/ WriteFull(p) \/ WriteSleep(p)
        \/ WriteByte(p) \/ WriteDone(p)
        \/ ReadLock(p) \/ ReadKilled(p) \/ ReadEmpty(p) \/ ReadSleep(p)
        \/ ReadCopy(p)

Spec == Init /\ [][Next]_vars
-----------------------------------------------------------------------------
\* Types, and the buffer never holds more than PIPESIZE bytes.
TypeOK ==
    /\ data \in [0..PIPESIZE - 1 -> Byte]
    /\ nread \in 0..UINTS - 1 /\ nwrite \in 0..UINTS - 1
    /\ Used <= PIPESIZE
    /\ open \in [Ends -> BOOLEAN] /\ freed \in BOOLEAN
    /\ lock \in Procs \cup {None}
    /\ ref \in [Ends -> Nat] /\ holds \in [Ends -> SUBSET Procs]
    /\ killed \in [Procs -> BOOLEAN]
    /\ pc \in [Procs -> Places]
    /\ left \in [Procs -> 0..MaxN]

\* The ring buffer with its wrapping counters is a queue: no byte is lost,
\* duplicated, reordered or overwritten between pipewrite() and piperead().
Q == INSTANCE ByteQueue WITH
        Capacity <- PIPESIZE,
        queue <- IF freed THEN <<>>
                 ELSE [k \in 1..Used |-> data[(nread + k - 1) % PIPESIZE]],
        gone <- freed
ImplementsByteQueue == Q!QSpec

\* The pipe's page is freed when the last descriptor of the last end is gone,
\* and nobody is in pipe code then: not even asleep in it or about to close the
\* other end (fileclose() drops the reference before pipeclose() takes the lock).
\* End of file is final and "no reader" is final: once an end is marked closed
\* nobody holds it or is still reading or writing through it.
NoUseAfterFree ==
    /\ TypeOK
    /\ freed => /\ \A e \in Ends : holds[e] = {}
                /\ \A p \in Procs : pc[p] \in {"none", "user"}
    /\ \A e \in Ends :
        ~open[e] => /\ holds[e] = {} /\ ref[e] = 0
                    /\ \A p \in Procs :
                        pc[p] \notin (IF e = "read" THEN Reading ELSE Writing)

\* A writer sleeps only while the pipe is full and has a reader, once the lock
\* is free (piperead() and pipeclose() wake it).
WriterSleepsOnlyWhenFull ==
    lock = None =>
        \A p \in Procs : pc[p] = "wsleep" => Full /\ open["read"]

\* A reader sleeps only while the pipe is empty and has a writer, once the lock
\* is free (pipewrite() and pipeclose() wake it).
ReaderSleepsOnlyWhenEmpty ==
    lock = None =>
        \A p \in Procs : pc[p] = "rsleep" => Empty /\ open["write"]
=============================================================================
