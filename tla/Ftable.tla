------------------------------- MODULE Ftable -------------------------------
(***************************************************************************)
(* The table of open files of kernel/file.c and the descriptors of         *)
(* kernel/sysfile.c: open(), pipe(), dup(), close(), and what fork() and   *)
(* exit() do to files, with every failure path.                            *)
(*                                                                         *)
(* A call takes ftable.lock several times: each is a step.  A process      *)
(* carries a list todo of the fileclose()s it still has to make;           *)
(* fileclose() of the last reference gives the file back first and then,   *)
(* as another step, lets go of the inode or pipe end.  There is one inode, *)
(* referred to also by the current directory of each process, and each     *)
(* pipe is its two open flags.                                             *)
(***************************************************************************)
EXTENDS Integers, Sequences, FiniteSets

CONSTANTS Procs, First, NFILE, NOFILE, Pipes, None

VARIABLES
    ref, type, pipe,    \* f->ref, f->type (with the end of a pipe), f->pipe
    ofile,              \* p->ofile[]; 0 for none
    iref,               \* references to the inode
    ends,               \* the open ends of a pipe; {} for a free page
    pc, todo,           \* a process's place and pending fileclose()s
    rf, wf,             \* its locals
    panicked

fileVars == <<ref, type, pipe>>
vars == <<fileVars, ofile, iref, ends, pc, todo, rf, wf, panicked>>

Fs == 1..NFILE
Fds == 0..(NOFILE - 1)
PipeTypes == {"read", "write"}

Init ==
    /\ ref = [f \in Fs |-> 0] /\ type = [f \in Fs |-> "none"]
    /\ pipe = [f \in Fs |-> None]
    /\ ofile = [p \in Procs |-> [d \in Fds |-> 0]]
    /\ iref = 1 /\ ends = [x \in Pipes |-> {}]
    /\ pc = [p \in Procs |-> IF p = First THEN "user" ELSE "none"]
    /\ todo = [p \in Procs |-> <<>>]
    /\ rf = [p \in Procs |-> 0] /\ wf = [p \in Procs |-> 0]
    /\ panicked = FALSE

At(p, place) == pc[p] = place /\ todo[p] = <<>> /\ ~panicked
Goto(p, place) == pc' = [pc EXCEPT ![p] = place]
Lowest(S) == CHOOSE x \in S : \A y \in S : x <= y
FreeFiles == {f \in Fs : ref[f] = 0}
FreeFds(p) == {d \in Fds : ofile[p][d] = 0}
Closes(s) == [k \in 1..Len(s) |-> <<"close", s[k]>>]
-----------------------------------------------------------------------------
(* fileclose() *)

Fileclose(p) ==
    /\ todo[p] # <<>> /\ Head(todo[p])[1] = "close" /\ ~panicked
    /\ LET f == Head(todo[p])[2] IN
        IF ref[f] < 1
        THEN panicked' = TRUE /\ UNCHANGED <<fileVars, todo>>
        ELSE /\ ref' = [ref EXCEPT ![f] = @ - 1]
             /\ IF ref[f] > 1
                THEN todo' = [todo EXCEPT ![p] = Tail(@)] /\ UNCHANGED <<type, pipe>>
                ELSE /\ todo' = [todo EXCEPT ![p] = <<<<type[f], pipe[f]>>>> \o Tail(@)]
                     /\ type' = [type EXCEPT ![f] = "none"]
                     /\ pipe' = [pipe EXCEPT ![f] = None]
             /\ UNCHANGED panicked
    /\ UNCHANGED <<ofile, iref, ends, pc, rf, wf>>

\* Then pipeclose(), which frees the pipe with its second end, or iput().
Release(p) ==
    /\ todo[p] # <<>> /\ Head(todo[p])[1] # "close" /\ ~panicked
    /\ LET t == Head(todo[p])[1]
           x == Head(todo[p])[2]
       IN /\ iref' = IF t = "inode" THEN iref - 1 ELSE iref
          /\ ends' = IF t \in PipeTypes THEN [ends EXCEPT ![x] = @ \ {t}] ELSE ends
    /\ todo' = [todo EXCEPT ![p] = Tail(@)]
    /\ UNCHANGED <<fileVars, ofile, pc, rf, wf, panicked>>
-----------------------------------------------------------------------------
(* open(), dup(), close() *)

\* The inode is found and locked; filealloc().
Open(p) ==
    /\ At(p, "user")
    /\ FreeFiles # {}
    /\ iref' = iref + 1
    /\ ref' = [ref EXCEPT ![Lowest(FreeFiles)] = 1]
    /\ rf' = [rf EXCEPT ![p] = Lowest(FreeFiles)]
    /\ Goto(p, "open")
    /\ UNCHANGED <<type, pipe, ofile, ends, todo, wf, panicked>>

\* Mutant: the file is closed as if the inode were already its own.
OpenFailTyped(p) ==
    /\ At(p, "open") /\ FreeFds(p) = {}
    /\ type' = [type EXCEPT ![rf[p]] = "inode"]
    /\ todo' = [todo EXCEPT ![p] = Closes(<<rf[p]>>)]
    /\ iref' = iref - 1
    /\ rf' = [rf EXCEPT ![p] = 0]
    /\ Goto(p, "user")
    /\ UNCHANGED <<ref, pipe, ofile, ends, wf, panicked>>

\* fdalloc() fails: fileclose(), and iunlockput() of the inode.
OpenFail(p) ==
    /\ At(p, "open") /\ FreeFds(p) = {}
    /\ todo' = [todo EXCEPT ![p] = Closes(<<rf[p]>>)]
    /\ iref' = iref - 1
    /\ rf' = [rf EXCEPT ![p] = 0]
    /\ Goto(p, "user")
    /\ UNCHANGED <<fileVars, ofile, ends, wf, panicked>>

OpenFd(p) ==
    /\ At(p, "open") /\ FreeFds(p) # {}
    /\ ofile' = [ofile EXCEPT ![p][Lowest(FreeFds(p))] = rf[p]]
    /\ type' = [type EXCEPT ![rf[p]] = "inode"]
    /\ rf' = [rf EXCEPT ![p] = 0]
    /\ Goto(p, "user")
    /\ UNCHANGED <<ref, pipe, iref, ends, todo, wf, panicked>>

\* filedup() of a file that the process has open.
Filedup(f) ==
    IF ref[f] < 1 THEN panicked' = TRUE /\ UNCHANGED ref
    ELSE ref' = [ref EXCEPT ![f] = @ + 1] /\ UNCHANGED panicked
Dup(p, d) ==
    /\ At(p, "user") /\ ofile[p][d] # 0 /\ FreeFds(p) # {}
    /\ ofile' = [ofile EXCEPT ![p][Lowest(FreeFds(p))] = ofile[p][d]]
    /\ Filedup(ofile[p][d])
    /\ UNCHANGED <<type, pipe, iref, ends, pc, todo, rf, wf>>

Close(p, d) ==
    /\ At(p, "user") /\ ofile[p][d] # 0
    /\ ofile' = [ofile EXCEPT ![p][d] = 0]
    /\ todo' = [todo EXCEPT ![p] = Closes(<<ofile[p][d]>>)]
    /\ UNCHANGED <<fileVars, iref, ends, pc, rf, wf, panicked>>
-----------------------------------------------------------------------------
(* pipe() *)

Pipe(p) ==
    /\ At(p, "user")
    /\ FreeFiles # {}
    /\ ref' = [ref EXCEPT ![Lowest(FreeFiles)] = 1]
    /\ rf' = [rf EXCEPT ![p] = Lowest(FreeFiles)]
    /\ Goto(p, "pipe")
    /\ UNCHANGED <<type, pipe, ofile, iref, ends, todo, wf, panicked>>

PipeFile(p) ==
    /\ At(p, "pipe")
    /\ IF FreeFiles # {}
       THEN /\ ref' = [ref EXCEPT ![Lowest(FreeFiles)] = 1]
            /\ wf' = [wf EXCEPT ![p] = Lowest(FreeFiles)]
            /\ Goto(p, "kalloc")
            /\ UNCHANGED <<todo, rf>>
       ELSE /\ todo' = [todo EXCEPT ![p] = Closes(<<rf[p]>>)]
            /\ rf' = [rf EXCEPT ![p] = 0]
            /\ Goto(p, "user")
            /\ UNCHANGED <<ref, wf>>
    /\ UNCHANGED <<type, pipe, ofile, iref, ends, panicked>>

CloseBoth(p) ==
    /\ todo' = [todo EXCEPT ![p] = Closes(<<rf[p], wf[p]>>)]
    /\ rf' = [rf EXCEPT ![p] = 0] /\ wf' = [wf EXCEPT ![p] = 0]
    /\ Goto(p, "user")

PipeKalloc(p) ==
    /\ At(p, "kalloc")
    /\ \/ \E x \in Pipes :
            /\ ends[x] = {}
            /\ ends' = [ends EXCEPT ![x] = PipeTypes]
            /\ type' = [type EXCEPT ![rf[p]] = "read", ![wf[p]] = "write"]
            /\ pipe' = [pipe EXCEPT ![rf[p]] = x, ![wf[p]] = x]
            /\ Goto(p, "fds")
            /\ UNCHANGED <<todo, rf, wf>>
       \/ CloseBoth(p) /\ UNCHANGED <<type, pipe, ends>>
    /\ UNCHANGED <<ref, ofile, iref, panicked>>

\* sys_pipe() enters both files, or neither if one of the descriptors or the
\* copyout() of their numbers fails.
PipeFds(p) ==
    /\ At(p, "fds")
    /\ Cardinality(FreeFds(p)) >= 2
    /\ LET d == Lowest(FreeFds(p)) IN
        ofile' = [ofile EXCEPT ![p] = [@ EXCEPT ![d] = rf[p],
                                                ![Lowest(FreeFds(p) \ {d})] = wf[p]]]
    /\ rf' = [rf EXCEPT ![p] = 0] /\ wf' = [wf EXCEPT ![p] = 0]
    /\ Goto(p, "user")
    /\ UNCHANGED <<fileVars, iref, ends, todo, panicked>>

PipeFail(p) ==
    /\ At(p, "fds")
    /\ CloseBoth(p)
    /\ UNCHANGED <<fileVars, ofile, iref, ends, panicked>>
-----------------------------------------------------------------------------
(* fork() and exit() *)

Fork(p, q) ==
    /\ At(p, "user") /\ At(q, "none")
    /\ ofile' = [ofile EXCEPT ![q] = ofile[p]]
    /\ ref' = [f \in Fs |-> ref[f] + Cardinality({d \in Fds : ofile[p][d] = f})]
    /\ iref' = iref + 1
    /\ Goto(q, "user")
    /\ UNCHANGED <<type, pipe, ends, todo, rf, wf, panicked>>

Exit(p) ==
    /\ At(p, "user") /\ p # First
    /\ LET open == SelectSeq([k \in 1..NOFILE |-> ofile[p][k - 1]], LAMBDA f : f # 0) IN
        todo' = [todo EXCEPT ![p] = Closes(open) \o <<<<"inode", None>>>>]
    /\ ofile' = [ofile EXCEPT ![p] = [d \in Fds |-> 0]]
    /\ Goto(p, "none")
    /\ UNCHANGED <<fileVars, iref, ends, rf, wf, panicked>>

Next ==
    \E p \in Procs :
        \/ Fileclose(p) \/ Release(p)
        \/ Open(p) \/ OpenFail(p) \/ OpenFd(p)
        \/ \E d \in Fds : Dup(p, d) \/ Close(p, d)
        \/ Pipe(p) \/ PipeFile(p) \/ PipeKalloc(p) \/ PipeFds(p) \/ PipeFail(p)
        \/ (\E q \in Procs : Fork(p, q)) \/ Exit(p)

Spec == Init /\ [][Next]_vars
-----------------------------------------------------------------------------
(* Properties *)

Pending(what) ==
    {<<p, k>> \in Procs \X (1..(NOFILE + 1)) : k <= Len(todo[p]) /\ todo[p][k] = what}

\* f->ref counts the descriptors of all processes and the references calls in
\* progress have to it, on every failure path; so no file is closed, or given out
\* again, while a process can use it.
FileRefsExact ==
    \A f \in Fs : ref[f] =
        Cardinality({<<p, d>> \in Procs \X Fds : ofile[p][d] = f})
        + Cardinality({p \in Procs : rf[p] = f}) + Cardinality({p \in Procs : wf[p] = f})
        + Cardinality(Pending(<<"close", f>>))

\* The inode's references are those of open files, current directories and calls
\* in progress: it is neither released twice, as by fileclose() of a file that
\* open() has not finished, nor leaked.
InodeRefsExact ==
    iref = Cardinality({f \in Fs : type[f] = "inode"})
         + Cardinality({p \in Procs : pc[p] # "none"})
         + Cardinality({p \in Procs : pc[p] = "open"})
         + Cardinality(Pending(<<"inode", None>>))

\* A pipe's end is open as long as there is a file for it or pipeclose() of it is
\* under way; so a pipe is freed exactly once, when its last end is closed, and no
\* file refers to a freed one.
PipeEndsExact ==
    \A x \in Pipes, t \in PipeTypes :
        LET n == Cardinality({f \in Fs : type[f] = t /\ pipe[f] = x})
               + Cardinality(Pending(<<t, x>>))
        IN n <= 1 /\ (t \in ends[x] <=> n = 1)

\* fileclose() and filedup() never see a file that is not in use.
NoFilePanic == ~panicked
=============================================================================
