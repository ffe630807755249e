--------------------------------- MODULE Fs ---------------------------------
(***************************************************************************)
(* Inodes, directories and path names: kernel/fs.c and the file-system     *)
(* calls of kernel/sysfile.c, run by several processes inside the log's    *)
(* transactions, with power failures and the reclaiming of orphans at      *)
(* boot.                                                                   *)
(*                                                                         *)
(* A process carries a list todo of ilock() and iput() calls that it makes *)
(* one by one before it goes on at pc; an action at pc runs up to the next *)
(* ilock().  iput() gives up itable.lock while it frees an inode and is    *)
(* three steps.  The contents of files are Blocks' business; a directory   *)
(* is a map from names to inode numbers, 0 for none, and growing one may   *)
(* fail because the disk is full.  The log is Transactions: the disk takes *)
(* over all inodes when the last call in progress ends.                    *)
(***************************************************************************)
EXTENDS Integers, Sequences, FiniteSets

CONSTANTS
    Procs, First, None, \* processes; the one that boots; nobody
    NINODES,            \* inodes on the disk, sb.ninodes - 1
    NINODE,             \* entries of the inode table
    Names,              \* names of directory entries, besides "." and ".."
    Syscalls,           \* calls that processes make: <<operation, path>>
    NewPaths,           \* second arguments of link(); a path is [abs, elems]
    Images,             \* disks to start from, functions from Inums
    MaxCalls, MaxCrashes    \* bounds: calls and power failures, power failures

Inums == 1..NINODES
ROOTINO == 1
AllNames == Names \cup {".", ".."}
Types == {"none", "file", "dir", "dev"}

VARIABLES
    dinode,     \* inodes as reads of the disk see them: type, nlink, ents; and
                \* stray, a history: the inode was given a name in a removed
                \* directory, or is that directory
    disk,       \* the same after a power failure
    ref, valid, \* itable: ip->ref, 0 for an entry not in use; ip->valid
    lock,       \* itable: who holds ip->lock
    ic,         \* itable: the copy of type and nlink
    ops,        \* the processes between begin_op() and end_op()
    pc, todo,   \* where a process is, and the calls it makes first
    r,          \* a process's locals; and up, a history: the path went from a
                \* removed directory to its ".."
    cwd, ofile, \* p->cwd, and the inode of its open file or 0
    scan,       \* ireclaim()'s loop index
    calls, crashes,
    reused,     \* history: inodes allocated before the iput() that freed them ended
    panicked    \* why the kernel stopped, or "no"

coreVars == <<ref, valid, lock, ic>>
procVars == <<pc, todo, r>>
envVars == <<scan, calls, crashes, reused, panicked>>
vars == <<dinode, disk, coreVars, ops, procVars, cwd, ofile, envVars>>

NoEnts == [n \in AllNames |-> 0]
FreeInode == [type |-> "none", nlink |-> 0, ents |-> NoEnts, stray |-> FALSE]
NoLocals == [op |-> "", rest |-> <<>>, name |-> ".", ip |-> 0, dp |-> 0, old |-> 0,
             up |-> FALSE]

RefAtBoot == [i \in Inums |-> IF i = ROOTINO THEN Cardinality(Procs) ELSE 0]
NotInCore == [i \in Inums |-> [type |-> "none", nlink |-> 0]]
PcAtBoot == [p \in Procs |-> IF p = First THEN "reclaim" ELSE "user"]

Init ==
    /\ disk \in Images /\ dinode = disk
    /\ ref = RefAtBoot /\ valid = [i \in Inums |-> FALSE]
    /\ lock = [i \in Inums |-> None] /\ ic = NotInCore
    /\ ops = {} /\ pc = PcAtBoot
    /\ todo = [p \in Procs |-> <<>>] /\ r = [p \in Procs |-> NoLocals]
    /\ cwd = [p \in Procs |-> ROOTINO] /\ ofile = [p \in Procs |-> 0]
    /\ scan = 1 /\ calls = 0 /\ crashes = 0
    /\ reused = {} /\ panicked = "no"

\* The power fails: memory is lost, the log recovers the disk, and the first
\* process looks for orphans before any other runs (forkret(), fsinit()).
PowerFailure ==
    /\ panicked = "no"
    /\ crashes < MaxCrashes
    /\ crashes' = crashes + 1
    /\ dinode' = disk
    /\ ref' = RefAtBoot /\ valid' = [i \in Inums |-> FALSE]
    /\ lock' = [i \in Inums |-> None] /\ ic' = NotInCore
    /\ ops' = {} /\ pc' = PcAtBoot
    /\ todo' = [p \in Procs |-> <<>>] /\ r' = [p \in Procs |-> NoLocals]
    /\ cwd' = [p \in Procs |-> ROOTINO] /\ ofile' = [p \in Procs |-> 0]
    /\ scan' = 1 /\ reused' = {}
    /\ UNCHANGED <<disk, calls, panicked>>
-----------------------------------------------------------------------------
(* ilock(), iput(), iget() *)

Does(p, what) == panicked = "no" /\ todo[p] # <<>> /\ Head(todo[p])[1] = what
Target(p) == Head(todo[p])[2]
At(p, place) == panicked = "no" /\ todo[p] = <<>> /\ pc[p] = place
Go(p, place, work) ==
    /\ pc' = [pc EXCEPT ![p] = place]
    /\ todo' = [todo EXCEPT ![p] = work]
Then(p, what) == todo' = [todo EXCEPT ![p] = <<<<what, Target(p)>>>> \o Tail(@)]
Next1(p) == todo' = [todo EXCEPT ![p] = Tail(@)]
Unlock(i) == lock' = [lock EXCEPT ![i] = None]

Panic(why) ==
    /\ panicked' = why
    /\ UNCHANGED <<dinode, disk, coreVars, ops, procVars, cwd, ofile, scan, calls,
                   crashes, reused>>

\* iget(i), or idup: a new entry of the inode table starts out not valid.
TableFull(i) == ref[i] = 0 /\ Cardinality({j \in Inums : ref[j] > 0}) = NINODE
Iget(i) ==
    /\ ref' = [ref EXCEPT ![i] = @ + 1]
    /\ valid' = [valid EXCEPT ![i] = @ /\ ref[i] > 0]

\* ilock(): sleep until the inode is unlocked, read it if need be.
Ilock(p) ==
    /\ Does(p, "lock") /\ lock[Target(p)] = None
    /\ LET i == Target(p) IN
       IF ~valid[i] /\ dinode[i].type = "none"
       THEN Panic("ilock: no type")
       ELSE /\ lock' = [lock EXCEPT ![i] = p]
            /\ ic' = [ic EXCEPT ![i] = IF valid[i] THEN @
                        ELSE [type |-> dinode[i].type, nlink |-> dinode[i].nlink]]
            /\ valid' = [valid EXCEPT ![i] = TRUE]
            /\ Next1(p)
            /\ UNCHANGED <<dinode, disk, ref, ops, pc, r, cwd, ofile, envVars>>

\* iput() of the last reference to an inode without links: lock it ...
UnusedAnyRef(i) == valid[i] /\ ic[i].nlink = 0  \* mutant: other references ignored
Unused(i) == ref[i] = 1 /\ valid[i] /\ ic[i].nlink = 0
IputLock(p) ==
    /\ Does(p, "put") /\ Unused(Target(p))
    /\ lock[Target(p)] = None
    /\ lock' = [lock EXCEPT ![Target(p)] = p]
    /\ Then(p, "free")
    /\ UNCHANGED <<dinode, disk, ref, valid, ic, ops, pc, r, cwd, ofile, envVars>>

\* ... truncate and free it, and unlock it ...
IputFree(p) ==
    /\ Does(p, "free")
    /\ LET i == Target(p) IN
        /\ dinode' = [dinode EXCEPT ![i] = FreeInode]
        /\ ic' = [ic EXCEPT ![i].type = "none"]
        /\ valid' = [valid EXCEPT ![i] = FALSE]
        /\ Unlock(i)
    /\ Then(p, "drop")
    /\ UNCHANGED <<disk, ref, ops, pc, r, cwd, ofile, scan, calls, crashes, reused, panicked>>

\* ... and in any case drop the reference.
Iput(p) ==
    /\ Does(p, "drop") \/ (Does(p, "put") /\ ~Unused(Target(p)))
    /\ ref' = [ref EXCEPT ![Target(p)] = @ - 1]
    /\ Next1(p)
    /\ UNCHANGED <<dinode, disk, valid, lock, ic, ops, pc, r, cwd, ofile, envVars>>
-----------------------------------------------------------------------------
(* begin_op(), namex(), end_op() *)

Booted == scan > NINODES + 1
ParentOf == {"creat", "mkdir", "mknod", "unlink", "link2"}  \* nameiparent()

\* A system call with a path name starts: begin_op(), and namex() takes the
\* root or the current directory.
Walk0(p, op, path, old) ==
    LET i == IF path.abs THEN ROOTINO ELSE cwd[p] IN
    /\ r' = [r EXCEPT ![p] = [NoLocals EXCEPT !.op = op, !.rest = path.elems,
                                              !.ip = i, !.old = old]]
    /\ Iget(i)
    /\ Go(p, "walk", IF path.elems = <<>> THEN <<>> ELSE <<<<"lock", i>>>>)

Begin(p, op, path) ==
    /\ At(p, "user") /\ Booted
    /\ calls + crashes < MaxCalls
    /\ calls' = calls + 1
    /\ ops' = ops \cup {p}
    /\ Walk0(p, op, path, 0)
    /\ UNCHANGED <<dinode, disk, lock, ic, cwd, ofile, scan, crashes, reused, panicked>>

\* Where the caller of namex() goes when it returns 0, after w.
Nowhere(p, w) ==
    IF r[p].op = "link2" THEN Go(p, "linkbad", w \o <<<<"lock", r[p].old>>>>)
    ELSE Go(p, "done", w)

WalkEnd(p) ==
    /\ At(p, "walk") /\ r[p].rest = <<>>
    /\ IF r[p].op \in ParentOf THEN Nowhere(p, <<<<"put", r[p].ip>>>>)
       ELSE Go(p, "found", <<<<"lock", r[p].ip>>>>)
    /\ UNCHANGED <<dinode, disk, coreVars, ops, r, cwd, ofile, envVars>>

\* dirlookup(): the inode that a directory gives a name, or 0; dirlink() enters a
\* name that is not there.
Dirlookup(dp, name) == dinode[dp].ents[name]
Dirlink(ents, name, i) == [ents EXCEPT ![name] = i]

WalkFailKeeps(p) ==     \* mutant: namex() only unlocks, and keeps its reference
    /\ At(p, "walk") /\ r[p].rest # <<>>
    /\ LET i == r[p].ip
           last == r[p].op \in ParentOf /\ Len(r[p].rest) = 1
       IN /\ \/ ic[i].type # "dir"
             \/ ~last /\ Dirlookup(i, Head(r[p].rest)) = 0
          /\ Unlock(i)
          /\ Nowhere(p, <<>>)
    /\ UNCHANGED <<dinode, disk, ref, valid, ic, ops, r, cwd, ofile, envVars>>

WalkFail(p) ==
    /\ At(p, "walk") /\ r[p].rest # <<>>
    /\ LET i == r[p].ip
           last == r[p].op \in ParentOf /\ Len(r[p].rest) = 1
       IN /\ \/ ic[i].type # "dir"
             \/ ~last /\ Dirlookup(i, Head(r[p].rest)) = 0
          /\ Unlock(i)
          /\ Nowhere(p, <<<<"put", i>>>>)
    /\ UNCHANGED <<dinode, disk, ref, valid, ic, ops, r, cwd, ofile, envVars>>

WalkParent(p) ==
    /\ At(p, "walk") /\ r[p].op \in ParentOf /\ Len(r[p].rest) = 1
    /\ ic[r[p].ip].type = "dir"
    /\ Unlock(r[p].ip)
    /\ r' = [r EXCEPT ![p].dp = r[p].ip, ![p].name = Head(r[p].rest), ![p].ip = 0,
                      ![p].rest = <<>>]
    /\ Go(p, "parent", <<<<"lock", r[p].ip>>>>)
    /\ UNCHANGED <<dinode, disk, ref, valid, ic, ops, cwd, ofile, envVars>>

WalkNext(p) ==
    /\ At(p, "walk") /\ r[p].rest # <<>> /\ ~(r[p].op \in ParentOf /\ Len(r[p].rest) = 1)
    /\ LET i == r[p].ip
           next == Dirlookup(i, Head(r[p].rest))
       IN /\ ic[i].type = "dir" /\ next # 0
          /\ IF TableFull(next) THEN Panic("iget: no inodes")
             ELSE /\ Iget(next)
                  /\ Unlock(i)
                  /\ r' = [r EXCEPT ![p].ip = next, ![p].rest = Tail(@),
                                    ![p].up = @ \/ (Head(r[p].rest) = ".." /\ ic[i].nlink = 0)]
                  /\ Go(p, "walk", <<<<"put", i>>>> \o
                        IF Len(r[p].rest) = 1 THEN <<>> ELSE <<<<"lock", next>>>>)
                  /\ UNCHANGED <<dinode, disk, ic, ops, cwd, ofile, envVars>>

\* end_op(): the last call in progress commits.
EndOp(p) ==
    /\ At(p, "done")
    /\ ops' = ops \ {p}
    /\ disk' = IF ops' = {} THEN dinode ELSE disk
    /\ r' = [r EXCEPT ![p] = NoLocals]
    /\ Go(p, IF Booted THEN "user" ELSE "reclaim", <<>>)
    /\ UNCHANGED <<dinode, coreVars, cwd, ofile, envVars>>

\* ireclaim() looks at inode scan, and frees it by locking and putting it.
Orphan(i) == dinode[i].type # "none" /\ dinode[i].nlink = 0
ReclaimNotLast ==   \* mutant: the loop ends one inode early
    /\ At(First, "reclaim")
    /\ scan' = scan + 1
    /\ IF scan > NINODES
       THEN Go(First, "user", <<>>) /\ UNCHANGED <<ref, valid, ops, r>>
       ELSE IF scan < NINODES /\ Orphan(scan)
       THEN /\ Iget(scan)
            /\ ops' = ops \cup {First}
            /\ r' = [r EXCEPT ![First].ip = scan]
            /\ Go(First, "unlockput", <<<<"lock", scan>>>>)
       ELSE UNCHANGED <<ref, valid, ops, pc, todo, r>>
    /\ UNCHANGED <<dinode, disk, lock, ic, cwd, ofile, calls, crashes, reused, panicked>>

Reclaim ==
    /\ At(First, "reclaim")
    /\ scan' = scan + 1
    /\ IF scan > NINODES
       THEN Go(First, "user", <<>>) /\ UNCHANGED <<ref, valid, ops, r>>
       ELSE IF Orphan(scan)
       THEN /\ Iget(scan)
            /\ ops' = ops \cup {First}
            /\ r' = [r EXCEPT ![First].ip = scan]
            /\ Go(First, "unlockput", <<<<"lock", scan>>>>)
       ELSE UNCHANGED <<ref, valid, ops, pc, todo, r>>
    /\ UNCHANGED <<dinode, disk, lock, ic, cwd, ofile, calls, crashes, reused, panicked>>
-----------------------------------------------------------------------------
(* open(), mkdir(), mknod(), chdir(), close() *)

\* iunlockput(ip), with which a call ends.
UnlockPut(p) ==
    /\ At(p, "unlockput")
    /\ Unlock(r[p].ip)
    /\ Go(p, "done", <<<<"put", r[p].ip>>>>)
    /\ UNCHANGED <<dinode, disk, ref, valid, ic, ops, r, cwd, ofile, envVars>>

\* iunlockput(dp), after what held it up.
UnlockPutParent(p) ==
    /\ At(p, "bad")
    /\ Unlock(r[p].dp)
    /\ Go(p, "done", <<<<"put", r[p].dp>>>>)
    /\ UNCHANGED <<dinode, disk, ref, valid, ic, ops, r, cwd, ofile, envVars>>

\* open() has the inode, locked: a directory cannot be opened for writing, and
\* the tables of files and descriptors may be full.  The file keeps the
\* reference.
Open(p) ==
    /\ \/ At(p, "found") /\ r[p].op = "open"
       \/ At(p, "made") /\ r[p].op = "creat"
    /\ \/ /\ ofile[p] = 0
          /\ ofile' = [ofile EXCEPT ![p] = r[p].ip]
          /\ Unlock(r[p].ip)
          /\ Go(p, "done", <<>>)
       \/ Go(p, "unlockput", <<>>) /\ UNCHANGED <<lock, ofile>>
    /\ UNCHANGED <<dinode, disk, ref, valid, ic, ops, r, cwd, envVars>>

Chdir(p) ==
    /\ At(p, "found") /\ r[p].op = "chdir"
    /\ IF ic[r[p].ip].type # "dir"
       THEN Go(p, "unlockput", <<>>) /\ UNCHANGED <<lock, cwd>>
       ELSE /\ Unlock(r[p].ip)
            /\ cwd' = [cwd EXCEPT ![p] = r[p].ip]
            /\ Go(p, "done", <<<<"put", cwd[p]>>>>)
    /\ UNCHANGED <<dinode, disk, ref, valid, ic, ops, r, ofile, envVars>>

\* close(): fileclose() of the last reference, in a transaction of its own.
Close(p) ==
    /\ At(p, "user") /\ Booted
    /\ ofile[p] # 0
    /\ ofile' = [ofile EXCEPT ![p] = 0]
    /\ ops' = ops \cup {p}
    /\ Go(p, "done", <<<<"put", ofile[p]>>>>)
    /\ UNCHANGED <<dinode, disk, coreVars, r, cwd, envVars>>

\* create(): the name is taken ...
TypeOf(op) == IF op = "mkdir" THEN "dir" ELSE IF op = "mknod" THEN "dev" ELSE "file"
Creates(p) == r[p].op \in {"creat", "mkdir", "mknod"}
CreateOld(p) ==
    /\ At(p, "parent") /\ Creates(p)
    /\ LET dp == r[p].dp
           i == Dirlookup(dp, r[p].name)
       IN /\ i # 0
          /\ IF TableFull(i) THEN Panic("iget: no inodes")
             ELSE /\ Iget(i)
                  /\ Unlock(dp)
                  /\ r' = [r EXCEPT ![p].ip = i]
                  /\ Go(p, "exists", <<<<"put", dp>>, <<"lock", i>>>>)
                  /\ UNCHANGED <<dinode, disk, ic, ops, cwd, ofile, envVars>>

CreateExists(p) ==
    /\ At(p, "exists")
    /\ IF r[p].op = "creat" /\ ic[r[p].ip].type \in {"file", "dev"}
       THEN Go(p, "made", <<>>) ELSE Go(p, "unlockput", <<>>)
    /\ UNCHANGED <<dinode, disk, coreVars, ops, r, cwd, ofile, envVars>>

\* ... or it is not: ialloc() takes the first free inode, if there is one.
CreateAlloc(p) ==
    /\ At(p, "parent") /\ Creates(p)
    /\ Dirlookup(r[p].dp, r[p].name) = 0
    /\ LET free == {i \in Inums : dinode[i].type = "none"}
           i == CHOOSE i \in free : \A j \in free : i <= j
       IN IF free = {}
          THEN /\ Go(p, "bad", <<>>)
               /\ UNCHANGED <<dinode, disk, coreVars, ops, r, cwd, ofile, envVars>>
          ELSE IF TableFull(i) THEN Panic("iget: no inodes")
          ELSE /\ dinode' = [dinode EXCEPT ![i] =
                                [FreeInode EXCEPT !.type = TypeOf(r[p].op)]]
               /\ Iget(i)
               /\ reused' = IF ref[i] > 0 THEN reused \cup {i} ELSE reused
               /\ r' = [r EXCEPT ![p].ip = i]
               /\ Go(p, "new", <<<<"lock", i>>>>)
               /\ UNCHANGED <<disk, lock, ic, ops, cwd, ofile, scan, calls, crashes,
                              panicked>>

\* The new inode gets its link, its entries if it is a directory, and its name.
Stray(dp) == ic[dp].nlink = 0 \/ dinode[dp].stray
CreateLink(p) ==
    /\ At(p, "new")
    /\ LET i == r[p].ip
           dp == r[p].dp
           n == IF r[p].op = "mkdir" THEN 1 ELSE 0
       IN /\ ic' = [ic EXCEPT ![i].nlink = 1, ![dp].nlink = @ + n]
          /\ dinode' = [dinode EXCEPT
                ![i].nlink = 1,
                ![i].ents = IF n = 1 THEN Dirlink(Dirlink(@, ".", i), "..", dp) ELSE @,
                ![i].stray = Stray(dp),
                ![dp].ents = Dirlink(@, r[p].name, i),
                ![dp].nlink = ic[dp].nlink + n,
                ![dp].stray = Stray(dp)]
          /\ Unlock(dp)
          /\ Go(p, IF n = 1 \/ r[p].op = "mknod" THEN "unlockput" ELSE "made",
                <<<<"put", dp>>>>)
    /\ UNCHANGED <<disk, ref, valid, ops, r, cwd, ofile, envVars>>

\* Mutant: create() gives up without undoing the link it counted.
CreateFailKeepsLink(p) ==
    /\ At(p, "new")
    /\ LET i == r[p].ip IN
        /\ ic' = [ic EXCEPT ![i].nlink = 1]
        /\ dinode' = [dinode EXCEPT ![i].nlink = 1]
        /\ Unlock(i)
        /\ Go(p, "bad", <<<<"put", i>>>>)
    /\ UNCHANGED <<disk, ref, valid, ops, r, cwd, ofile, envVars>>

\* A dirlink() fails because the disk is full: the inode's link is taken back,
\* so that iput() frees it.
CreateFail(p) ==
    /\ At(p, "new")
    /\ LET i == r[p].ip IN
        /\ ic' = [ic EXCEPT ![i].nlink = 0]
        /\ dinode' = [dinode EXCEPT ![i].nlink = 0]
        /\ Unlock(i)
        /\ Go(p, "bad", <<<<"put", i>>>>)
    /\ UNCHANGED <<disk, ref, valid, ops, r, cwd, ofile, envVars>>
-----------------------------------------------------------------------------
(* unlink(), link() *)

UnlinkMiss(p) ==
    /\ At(p, "parent") /\ r[p].op = "unlink"
    /\ r[p].name \in {".", ".."} \/ Dirlookup(r[p].dp, r[p].name) = 0
    /\ Go(p, "bad", <<>>)
    /\ UNCHANGED <<dinode, disk, coreVars, ops, r, cwd, ofile, envVars>>

UnlinkFound(p) ==
    /\ At(p, "parent") /\ r[p].op = "unlink"
    /\ r[p].name \in Names
    /\ LET i == Dirlookup(r[p].dp, r[p].name) IN
        /\ i # 0
        /\ IF TableFull(i) THEN Panic("iget: no inodes")
           ELSE /\ Iget(i)
                /\ r' = [r EXCEPT ![p].ip = i]
                /\ Go(p, "unlink", <<<<"lock", i>>>>)
                /\ UNCHANGED <<dinode, disk, lock, ic, ops, cwd, ofile, envVars>>

IsDirEmpty(i) == \A n \in Names : dinode[i].ents[n] = 0

Unlink(p) ==
    /\ At(p, "unlink")
    /\ LET i == r[p].ip
           dp == r[p].dp
           n == IF ic[i].type = "dir" THEN 1 ELSE 0
       IN IF ic[i].nlink < 1 THEN Panic("unlink: nlink < 1")
          ELSE IF n = 1 /\ ~IsDirEmpty(i)
          THEN /\ Unlock(i)
               /\ Go(p, "bad", <<<<"put", i>>>>)
               /\ UNCHANGED <<dinode, disk, ref, valid, ic, ops, r, cwd, ofile, envVars>>
          ELSE /\ ic' = [ic EXCEPT ![dp].nlink = @ - n]
               /\ dinode' = [dinode EXCEPT ![dp].ents[r[p].name] = 0,
                                           ![dp].nlink = ic[dp].nlink - n]
               /\ Unlock(dp)
               /\ Go(p, "unlinked", <<<<"put", dp>>>>)
               /\ UNCHANGED <<disk, ref, valid, ops, r, cwd, ofile, envVars>>

Unlinked(p) ==
    /\ At(p, "unlinked")
    /\ LET i == r[p].ip IN
        /\ ic' = [ic EXCEPT ![i].nlink = @ - 1]
        /\ dinode' = [dinode EXCEPT ![i].nlink = ic[i].nlink - 1]
    /\ Go(p, "unlockput", <<>>)
    /\ UNCHANGED <<disk, ref, valid, lock, ops, r, cwd, ofile, envVars>>

\* link(): the old name's inode gets another link, then the new name is looked
\* up.
LinkDir(p) ==
    /\ At(p, "found") /\ r[p].op = "link"
    /\ ic[r[p].ip].type = "dir"
    /\ Go(p, "unlockput", <<>>)
    /\ UNCHANGED <<dinode, disk, coreVars, ops, r, cwd, ofile, envVars>>

LinkOld(p, new) ==
    /\ At(p, "found") /\ r[p].op = "link"
    /\ LET i == r[p].ip IN
        /\ ic[i].type # "dir"
        /\ ic' = [ic EXCEPT ![i].nlink = @ + 1]
        /\ dinode' = [dinode EXCEPT ![i].nlink = ic[i].nlink + 1]
        /\ Unlock(i)
        /\ Walk0(p, "link2", new, i)
    /\ UNCHANGED <<disk, ops, cwd, ofile, envVars>>

\* dirlink() of the new name; it fails if the name is taken (dirlookup()'s
\* reference to it is put back at once) or the disk is full.
LinkNew(p) ==
    /\ At(p, "parent") /\ r[p].op = "link2"
    /\ LET dp == r[p].dp
           i == r[p].old
       IN /\ Unlock(dp)
          /\ \/ /\ Dirlookup(dp, r[p].name) = 0
                /\ dinode' = [dinode EXCEPT ![dp].ents = Dirlink(@, r[p].name, i),
                                            ![dp].stray = Stray(dp),
                                            ![i].stray = @ \/ Stray(dp)]
                /\ Go(p, "done", <<<<"put", dp>>, <<"put", i>>>>)
             \/ /\ Nowhere(p, <<<<"put", dp>>>>)
                /\ UNCHANGED dinode
    /\ UNCHANGED <<disk, ref, valid, ic, ops, r, cwd, ofile, envVars>>

LinkBad(p) ==
    /\ At(p, "linkbad")
    /\ LET i == r[p].old IN
        /\ ic' = [ic EXCEPT ![i].nlink = @ - 1]
        /\ dinode' = [dinode EXCEPT ![i].nlink = ic[i].nlink - 1]
        /\ Unlock(i)
        /\ Go(p, "done", <<<<"put", i>>>>)
    /\ UNCHANGED <<disk, ref, valid, ops, r, cwd, ofile, envVars>>
-----------------------------------------------------------------------------
Step(p) ==
    \/ \E c \in Syscalls : Begin(p, c[1], c[2])
    \/ Ilock(p) \/ IputLock(p) \/ IputFree(p) \/ Iput(p)
    \/ WalkEnd(p) \/ WalkFail(p) \/ WalkParent(p) \/ WalkNext(p)
    \/ UnlockPut(p) \/ UnlockPutParent(p) \/ EndOp(p)
    \/ Open(p) \/ Chdir(p) \/ Close(p)
    \/ CreateOld(p) \/ CreateExists(p) \/ CreateAlloc(p) \/ CreateLink(p) \/ CreateFail(p)
    \/ UnlinkMiss(p) \/ UnlinkFound(p) \/ Unlink(p) \/ Unlinked(p)
    \/ LinkDir(p) \/ (\E new \in NewPaths : LinkOld(p, new)) \/ LinkNew(p) \/ LinkBad(p)

Next == PowerFailure \/ Reclaim \/ \E p \in Procs : Step(p)

Spec == Init /\ [][Next]_vars
-----------------------------------------------------------------------------
(* Properties *)

\* The variables have their types, and the inodes their kinds.
TypeOK ==
    /\ dinode \in [Inums -> [type : Types, nlink : Nat, ents : [AllNames -> 0..NINODES],
                           stray : BOOLEAN]]
    /\ disk \in [Inums -> [type : Types, nlink : Nat, ents : [AllNames -> 0..NINODES],
                           stray : BOOLEAN]]
    /\ ref \in [Inums -> Nat] /\ valid \in [Inums -> BOOLEAN]
    /\ lock \in [Inums -> Procs \cup {None}]
    /\ ic \in [Inums -> [type : Types, nlink : Nat]]
    /\ ops \subseteq Procs /\ reused \subseteq Inums
    /\ cwd \in [Procs -> Inums] /\ ofile \in [Procs -> 0..NINODES]

\* The panics of ilock() and unlink() are not reached, but for one case: no name
\* leads to an inode that is free or has no links, and no inode is freed under
\* somebody who is about to lock it, except the ".." of a removed directory, whose
\* parent may have been removed since.  (iget()'s panic is a matter of the size of
\* the table: NINODE entries for more inodes than that in use.)
LocksFreeInode(p) ==
    /\ todo[p] # <<>> /\ Head(todo[p])[1] = "lock"
    /\ ~valid[Target(p)] /\ dinode[Target(p)].type = "none"
NoOtherPanic ==
    \/ panicked = "no"
    \/ panicked = "iget: no inodes" /\ NINODE < NINODES
    \/ panicked = "ilock: no type" /\ \A p \in Procs : LocksFreeInode(p) => r[p].up

\* Whatever the moment of a power failure, the link count on the disk of every
\* inode is the number of names that lead to it (a directory is also named by
\* the ".." of its subdirectories), and a free inode has none.  Calls are
\* several updates of several inodes: this is what transactions are for.  Says
\* fs.h: "short nlink; // Number of links to inode in file system".
NamesOf(i, S) ==
    {<<d, n>> \in S \X (AllNames \ {"."}) : disk[d].nlink > 0 /\ disk[d].ents[n] = i}
LinksCounted(S) ==
    \A i \in S :
        /\ disk[i].nlink = Cardinality(NamesOf(i, S))
        /\ disk[i].type = "none" => disk[i].nlink = 0
DiskLinks == LinksCounted(Inums)

\* The same, but for inodes that were given names in a removed directory.
OtherDiskLinks == LinksCounted({i \in Inums : ~disk[i].stray})

\* An inode without links is freed when its last reference goes: one that is
\* still allocated is referred to by a process, unless the reclaiming after a
\* power failure is yet to find it.  Says the comment on iput(): "If that was
\* the last reference and the inode has no links to it, free the inode".
NoOrphans == Booted => \A i \in Inums : Orphan(i) => ref[i] > 0

\* The same, but for inodes that were allocated again before the iput() that
\* had freed them dropped its reference.
NoOtherOrphans == Booted => \A i \in Inums \ reused : Orphan(i) => ref[i] > 0

\* An entry of the inode table counts exactly the pointers to it: current
\* directories, open files, locals of the calls in progress and the iput()s they
\* still have to make.  A missing iput() on one of the error paths would pin the
\* entry, one too many would recycle it under somebody's feet.
Holds(p) == [
    ip  |-> pc[p] \in {"walk", "found", "exists", "new", "made", "unlink", "unlinked",
                       "unlockput"},
    dp  |-> pc[p] \in {"parent", "new", "unlink", "bad"},
    old |-> pc[p] = "linkbad" \/ (r[p].op = "link2" /\ pc[p] \in {"walk", "parent"})]
RefsExact ==
    \A i \in Inums :
        ref[i] = Cardinality({p \in Procs : cwd[p] = i})
               + Cardinality({p \in Procs : ofile[p] = i})
               + Cardinality({<<p, f>> \in Procs \X {"ip", "dp", "old"} :
                                Holds(p)[f] /\ r[p][f] = i})
               + Cardinality({<<p, n>> \in Procs \X (1..3) :
                                /\ n <= Len(todo[p])
                                /\ todo[p][n][1] # "lock" /\ todo[p][n][2] = i})

\* iput() takes the inode's lock while it holds the spin lock of the table, and
\* must not sleep there.  Says its comment: "ip->ref == 1 means no other process
\* can have ip locked, so this acquiresleep() won't block (or deadlock)."
IputNeverBlocks ==
    \A p \in Procs : Does(p, "put") /\ Unused(Target(p)) => lock[Target(p)] = None

\* A valid copy that nobody holds the lock of is the inode as it is on disk: no
\* call leaves out an iupdate(), and no copy outlives its inode.
InCoreFresh ==
    \A i \in Inums : ref[i] > 0 /\ valid[i] /\ lock[i] = None =>
        ic[i] = [type |-> dinode[i].type, nlink |-> dinode[i].nlink]

\* The inode table is sound: every reference is counted (iget(), idup(), iput()),
\* the iput() that frees never blocks, and copies agree with the disk (iupdate()).
ItableSound == TypeOK /\ RefsExact /\ IputNeverBlocks /\ InCoreFresh
=============================================================================
