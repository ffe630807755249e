------------------------ MODULE LogRefinementProofs -------------------------
(***************************************************************************)
(* The log implements atomic transactions, for any number of processes,    *)
(* blocks and log sizes.                                                   *)
(***************************************************************************)
EXTENDS LogCommitProofs

USE SMTT(20), ZenonT(30)
USE ProcsAssumption, DataAssumption, NoneAssumption, BoundsAssumption
USE DEF Recovering, Commits, LogIndex, Goto, WakeupGoto, HoldsNone,
        diskVars, bufVars, logVars, procVars
-----------------------------------------------------------------------------
(* Refinement: the log implements atomic transactions. *)

\* With distinct entries, recovery leaves the i-th log copy at the i-th entry's
\* home location and nothing anywhere else.
LEMMA RecoveredIs ==
  ASSUME NEW head, NEW copies, NEW home, NEW b,
         \A i, j \in 1..Len(head) : head[i] = head[j] => i = j
  PROVE  /\ b \notin Entries(head) => Recovered(head, copies, home, b) = home[b]
         /\ \A i \in 1..Len(head) :
              head[i] = b => Recovered(head, copies, home, b) = copies[i]
<1>1. ASSUME NEW i \in 1..Len(head), head[i] = b
      PROVE  Recovered(head, copies, home, b) = copies[i]
  <2> DEFINE j == CHOOSE j \in 1..Len(head) : head[j] = b
  <2>1. j \in 1..Len(head) /\ head[j] = b
    BY <1>1
  <2>2. j = i
    BY <1>1, <2>1
  <2>3. b \in Entries(head)
    BY <1>1 DEF Entries
  <2> QED
    BY ZenonT(30), <2>2, <2>3 DEF Recovered
<1> QED
  BY <1>1 DEF Recovered

\* Steps that keep the header, the blocks it names in the log and the home
\* locations it does not name do not change what recovery would leave.
LEMMA StableUnchanged ==
  ASSUME IInv, dhead' = dhead,
         \A i \in 1..Len(dhead) : dlog'[i] = dlog[i],
         \A b \in Blocks : b \notin Entries(dhead) => disk'[b] = disk[b]
  PROVE  StableDisk' = StableDisk
<1>1. \A i, j \in 1..Len(dhead) : dhead[i] = dhead[j] => i = j
  BY DEF IInv, Distinct
<1>2. ASSUME NEW b \in Blocks
      PROVE  Recovered(dhead, dlog', disk', b) = Recovered(dhead, dlog, disk, b)
  <2>1. CASE b \notin Entries(dhead)
    BY <1>1, <2>1, RecoveredIs
  <2>2. CASE b \in Entries(dhead)
    <3>1. PICK i \in 1..Len(dhead) : dhead[i] = b
      BY <2>2 DEF Entries
    <3> QED
      BY <1>1, <3>1, RecoveredIs
  <2> QED
    BY <2>1, <2>2
<1> QED
  BY <1>2 DEF StableDisk

\* With an empty header recovery changes nothing.
LEMMA RecoveredEmpty ==
  ASSUME NEW copies, NEW home, NEW b
  PROVE  Recovered(<<>>, copies, home, b) = home[b]
BY DEF Recovered, Entries

\* Once every logged block is installed, emptying the header does not change
\* what recovery would leave.
LEMMA StableInstalled ==
  ASSUME IInv, dhead = lh, dhead' = <<>>, disk' = disk,
         \A i \in 1..Len(lh) : disk[lh[i]] = dlog[i]
  PROVE  StableDisk' = StableDisk
<1>1. \A i, j \in 1..Len(dhead) : dhead[i] = dhead[j] => i = j
  BY DEF IInv, Distinct
<1>2. ASSUME NEW b \in Blocks
      PROVE  Recovered(dhead, dlog, disk, b) = disk[b]
  <2>1. CASE b \notin Entries(dhead)
    BY <1>1, <2>1, RecoveredIs
  <2>2. CASE b \in Entries(dhead)
    <3>1. PICK i \in 1..Len(dhead) : dhead[i] = b
      BY <2>2 DEF Entries
    <3> QED
      BY <1>1, <3>1, RecoveredIs
  <2> QED
    BY <2>1, <2>2
<1>3. \A b \in Blocks : Recovered(<<>>, dlog', disk', b) = disk[b]
  BY RecoveredEmpty
<1> QED
  BY <1>2, <1>3 DEF StableDisk

\* At boot with an empty header, the disk is the stable and the logical disk.
LEMMA InitRefines == Init => T!TInit
<1> SUFFICES ASSUME Init PROVE T!TInit
  OBVIOUS
<1>1. Booting /\ ActiveCalls = {}
  BY DEF Init, BootPc, Booting, ActiveCalls
<1>2. StableDisk = [b \in Blocks |-> disk[b]]
  BY RecoveredEmpty DEF Init, StableDisk
<1>3. StableDisk \in [Blocks -> Data]
  BY <1>2 DEF Init
<1> QED
  BY <1>1, <1>3 DEF T!TInit, LogicalDisk

\* Steps that leave the disk, the header and the log alone and neither add
\* nor remove a call, nor change what any read returns, are invisible.
LEMMA QuietStep ==
  ASSUME IInv, UNCHANGED <<disk, dlog, dhead>>, Booting' = Booting,
         ActiveCalls' = ActiveCalls,
         ~Booting => \A b \in Blocks : Contents(b)' = Contents(b)
  PROVE  UNCHANGED T!tvars
<1>1. StableDisk' = StableDisk
  BY StableUnchanged
<1>2. LogicalDisk' = LogicalDisk
  BY <1>1 DEF LogicalDisk
<1> QED
  BY <1>1, <1>2 DEF T!tvars

\* Recovery is invisible: it only makes the disk what recovery would leave.
LEMMA RecoveryRefines ==
  ASSUME IInv, NEW p \in Procs,
         \/ ReadHead(p) \/ InstallRecovered(p) \/ RecoveredAll(p)
         \/ ClearRecovered(p)
  PROVE  UNCHANGED T!tvars
<1>1. Booting
  BY DEF IInv, TypeOK, Modes, Booting, ReadHead, InstallRecovered,
         RecoveredAll, ClearRecovered
<1>2. CASE ReadHead(p) \/ RecoveredAll(p)
  BY <1>1, <1>2, QuietStep DEF IInv, TypeOK, Modes, Booting, ActiveCalls,
     ReadHead, RecoveredAll
<1>3. CASE InstallRecovered(p)
  <2>1. Booting' /\ ActiveCalls' = ActiveCalls
    BY <1>1, <1>3 DEF InstallRecovered, Booting, ActiveCalls
  <2>2. lh[tail[p]] \in Entries(dhead)
    BY <1>3 DEF IInv, TypeOK, Header, InstallRecovered, Entries
  <2>3. StableDisk' = StableDisk
    <3>1. dhead' = dhead /\ dlog' = dlog
      BY <1>3 DEF InstallRecovered
    <3>2. \A b \in Blocks : b \notin Entries(dhead) => disk'[b] = disk[b]
      BY <1>3, <2>2 DEF IInv, TypeOK, InstallRecovered
    <3> QED
      BY ZenonT(30), <3>1, <3>2, StableUnchanged
  <2> QED
    BY <1>1, <2>1, <2>3 DEF T!tvars, LogicalDisk
<1>4. CASE ClearRecovered(p)
  <2>1. dhead = lh /\ \A i \in 1..Len(lh) : disk[lh[i]] = dlog[i]
    BY <1>4 DEF IInv, Header, Progress, ClearRecovered
  <2>2. StableDisk' = StableDisk
    BY <1>4, <2>1, StableInstalled DEF ClearRecovered
  <2>3. StableDisk' = [b \in Blocks |-> disk[b]]
    BY <1>4, RecoveredEmpty DEF ClearRecovered, StableDisk
  <2>4. ~Booting' /\ ActiveCalls' = {} /\ ActiveCalls = {}
    BY <1>1, <1>4 DEF IInv, Modes, ClearRecovered, Booting, ActiveCalls
  <2>5. \A b \in Blocks : cache[b] \in {None, disk[b]}
    BY <1>1, <2>4 DEF IInv, Coherent, Pinned, ActiveCalls
  <2>6. \A b \in Blocks : Contents(b)' = disk[b]
    BY <1>4, <2>5 DEF Contents, ClearRecovered
  <2>7. LogicalDisk' = StableDisk'
    BY <2>3, <2>4, <2>6 DEF LogicalDisk
  <2> QED
    BY <1>1, <2>2, <2>4, <2>7 DEF T!tvars, LogicalDisk
<1> QED
  BY <1>2, <1>3, <1>4

\* The buffer cache is invisible: a buffer that is recycled and read again
\* returns what was in it.
LEMMA CacheRefines ==
  ASSUME IInv, NEW b \in Blocks,
         Recycle(b) \/ \E p \in Procs : Bread(p, b) \/ Brelse(p, b)
  PROVE  UNCHANGED T!tvars
<1>1. /\ UNCHANGED <<disk, dlog, dhead>>
      /\ Booting' = Booting /\ ActiveCalls' = ActiveCalls
  BY DEF Recycle, Bread, Brelse, Booting, ActiveCalls
<1>2. \A c \in Blocks : Contents(c)' = Contents(c)
  <2>1. CASE Recycle(b)
    <3>1. b \notin Pinned /\ holder[b] = None
      BY <2>1 DEF IInv, RefcntExact, Recycle
    <3>2. cache[b] = disk[b]
      BY <2>1, <3>1 DEF IInv, Coherent, Recycle
    <3> QED
      BY <2>1, <3>2 DEF IInv, TypeOK, Recycle, Contents
  <2>2. CASE \E p \in Procs : Bread(p, b) \/ Brelse(p, b)
    BY <2>2 DEF IInv, TypeOK, Bread, Brelse, Contents
  <2> QED
    BY <2>1, <2>2
<1> QED
  BY <1>1, <1>2, QuietStep

\* begin_op, log_write and end_op are the transaction's operations.
LEMMA CallRefines ==
  ASSUME IInv, NEW p \in Procs,
         \/ Syscall(p) \/ BeginOpSleep(p) \/ BeginOp(p) \/ EndOp(p)
         \/ \E b \in Blocks, v \in Data : LogWrite(p, b, v)
  PROVE  [T!TNext]_(T!tvars)
<1>1. CASE Syscall(p) \/ BeginOpSleep(p)
  <2>1. /\ UNCHANGED <<disk, dlog, dhead, cache>>
        /\ Booting' = Booting /\ ActiveCalls' = ActiveCalls
    BY <1>1 DEF IInv, TypeOK, Syscall, BeginOpSleep, Booting, ActiveCalls
  <2> QED
    BY <2>1, QuietStep DEF Contents
<1>2. CASE BeginOp(p)
  <2>1. UNCHANGED <<disk, dlog, dhead, cache>> /\ Booting' = Booting
    BY <1>2 DEF IInv, TypeOK, BeginOp, Booting
  <2>2. StableDisk' = StableDisk
    BY <2>1, StableUnchanged
  <2>3. LogicalDisk' = LogicalDisk
    BY <2>1, <2>2 DEF LogicalDisk, Contents
  <2>4. ActiveCalls' = ActiveCalls \cup {p} /\ p \notin ActiveCalls
    BY <1>2 DEF IInv, TypeOK, BeginOp, ActiveCalls
  <2> QED
    BY <2>2, <2>3, <2>4 DEF T!TNext, T!Begin
<1>3. CASE EndOp(p)
  <2>1. p \in ActiveCalls
    BY <1>3 DEF EndOp, ActiveCalls
  <2>2. outstanding # 0
    BY <2>1, ActiveFinite, FS_EmptySet DEF IInv, Counts
  <2>3. ~committing /\ ~Booting
    BY <2>2 DEF IInv, Counts
  <2>4. \A q \in Procs : pc'[q] \in {pc[q], "commit", "idle", "begin"}
    BY <1>3, <2>3 DEF IInv, TypeOK, EndOp
  <2>5. UNCHANGED <<disk, dlog, dhead, cache>> /\ ~Booting'
    BY <1>3, <2>3, <2>4 DEF EndOp, Booting
  <2>6. StableDisk' = StableDisk
    BY <2>5, StableUnchanged
  <2>7. LogicalDisk' = LogicalDisk
    BY <2>3, <2>5 DEF LogicalDisk, Contents
  <2>8. ActiveCalls' = ActiveCalls \ {p}
    BY <1>3, <2>3 DEF IInv, TypeOK, EndOp, ActiveCalls
  <2> QED
    BY <2>1, <2>6, <2>7, <2>8 DEF T!TNext, T!End
<1>4. ASSUME NEW b \in Blocks, NEW v \in Data, LogWrite(p, b, v)
      PROVE  T!TNext
  <2>0. ~Booting
    BY <1>4 DEF IInv, Modes, LogWrite, Booting
  <2>1. UNCHANGED <<disk, dlog, dhead>> /\ ~Booting'
    BY <1>4, <2>0 DEF IInv, TypeOK, LogWrite, Booting
  <2>2. StableDisk' = StableDisk
    BY <2>1, StableUnchanged
  <2>3. p \in ActiveCalls /\ ActiveCalls' = ActiveCalls
    BY <1>4 DEF IInv, TypeOK, LogWrite, ActiveCalls
  <2>4. \A c \in Blocks : Contents(c)' = IF c = b THEN v ELSE Contents(c)
    BY <1>4 DEF IInv, TypeOK, LogWrite, Contents
  <2>5. LogicalDisk' = [LogicalDisk EXCEPT ![b] = v]
    BY ZenonT(30), <2>0, <2>1, <2>4 DEF LogicalDisk
  <2> QED
    BY ZenonT(30), <2>2, <2>3, <2>5 DEF T!TNext, T!Update
<1> QED
  BY <1>1, <1>2, <1>3, <1>4

\* Writing the header is the commit; every other step of commit() is
\* invisible.
LEMMA CommitRefines ==
  ASSUME IInv, NEW p \in Procs,
         \/ Commit(p) \/ WriteLog(p) \/ WroteLog(p) \/ WriteHead(p)
         \/ InstallTrans(p) \/ InstalledAll(p) \/ ClearLog(p) \/ EndCommit(p)
  PROVE  [T!TNext]_(T!tvars)
<1>1. /\ ~Booting /\ pc[p] \in Commits /\ committing
      /\ \A q \in Procs : pc[q] \in Commits => q = p
  BY DEF IInv, TypeOK, Modes, Booting, Counts, Commit, WriteLog, WroteLog,
     WriteHead, InstallTrans, InstalledAll, ClearLog, EndCommit
<1>2. ActiveCalls = {}
  BY <1>1, ActiveFinite DEF IInv, Counts
<1>3. ~Booting' /\ ActiveCalls' = {}
  <2>1. \A q \in Procs : pc'[q] \in {pc[q], "begin", "idle"} \cup Commits
    BY DEF IInv, TypeOK, Commit, WriteLog, WroteLog, WriteHead, InstallTrans,
       InstalledAll, ClearLog, EndCommit
  <2>2. \A q \in Procs : pc[q] \notin Recovering
    BY <1>1 DEF IInv, Modes
  <2> QED
    BY <1>2, <2>1, <2>2 DEF Booting, ActiveCalls
<1>4. CASE Commit(p) \/ WroteLog(p) \/ InstalledAll(p) \/ EndCommit(p)
  <2>1. UNCHANGED <<disk, dlog, dhead, cache>>
    BY <1>4 DEF Commit, WroteLog, InstalledAll, EndCommit
  <2>2. Booting' = Booting /\ ActiveCalls' = ActiveCalls
    BY <1>1, <1>2, <1>3 DEF Booting
  <2>3. \A b \in Blocks : Contents(b)' = Contents(b)
    BY <2>1 DEF Contents
  <2> QED
    BY ZenonT(30), <2>1, <2>2, <2>3, QuietStep
<1>5. CASE WriteLog(p)
  <2>1. dhead = <<>>
    BY <1>1, <1>5 DEF IInv, Header, WriteLog
  <2>2. StableDisk' = StableDisk
    BY <1>5, <2>1, StableUnchanged DEF WriteLog
  <2>3. \A c \in Blocks : Contents(c)' = Contents(c)
    BY <1>5 DEF IInv, TypeOK, WriteLog, Contents
  <2> QED
    BY <1>1, <1>2, <1>3, <2>2, <2>3 DEF T!tvars, LogicalDisk
<1>6. CASE WriteHead(p)
  <2>1. UNCHANGED <<disk, dlog, cache, lh>> /\ dhead' = lh
    BY <1>6 DEF WriteHead
  <2>2. LogicalDisk' = LogicalDisk
    BY <1>1, <1>3, <2>1 DEF LogicalDisk, Contents
  <2>3. \A i, j \in 1..Len(lh) : lh[i] = lh[j] => i = j
    BY DEF IInv, Distinct
  <2>4. ASSUME NEW b \in Blocks
        PROVE  Recovered(lh, dlog, disk, b) = Contents(b)
    <3>1. CASE b \in Entries(lh)
      <4>1. PICK i \in 1..Len(lh) : lh[i] = b
        BY <3>1 DEF Entries
      <4>2. ~Unpinned(i)
        BY <1>1, <1>6 DEF WriteHead, Unpinned
      <4>3. cache[b] # None
        BY <1>1, <4>1, <4>2 DEF IInv, Coherent, Pinned
      <4>4. cache[b] = dlog[i]
        BY <1>6, <4>1 DEF IInv, Progress, WriteHead
      <4> QED
        BY <2>3, <4>1, <4>3, <4>4, RecoveredIs DEF Contents
    <3>2. CASE b \notin Entries(lh)
      <4>1. b \notin Pinned
        BY <3>2 DEF Pinned, Entries
      <4>2. cache[b] \in {None, disk[b]}
        BY <1>2, <4>1 DEF IInv, Coherent, ActiveCalls
      <4> QED
        BY <2>3, <3>2, <4>2, RecoveredIs DEF Contents
    <3> QED
      BY <3>1, <3>2
  <2>5. StableDisk' = LogicalDisk
    BY <1>1, <2>1, <2>4 DEF StableDisk, LogicalDisk
  <2> QED
    BY <1>2, <1>3, <2>2, <2>5 DEF T!TNext, T!Commit
<1>7. CASE InstallTrans(p)
  <2>1. tail[p] \in 1..Len(lh) /\ dhead = lh
    BY <1>7 DEF IInv, TypeOK, Header, InstallTrans
  <2>2. cache[lh[tail[p]]] = dlog[tail[p]]
    <3>1. pc[p] = "install" /\ tail[p] \in Int
      BY <1>7 DEF IInv, TypeOK, InstallTrans
    <3>2. \A i \in 1..Len(lh) : i >= tail[p] => cache[lh[i]] = dlog[i]
      BY <3>1 DEF IInv, Progress
    <3>3. tail[p] >= tail[p]
      BY <3>1
    <3> QED
      BY ZenonT(30), <2>1, <3>2, <3>3
  <2>3. lh[tail[p]] \in Entries(dhead) /\ lh[tail[p]] \in Blocks
    BY <2>1 DEF IInv, TypeOK, Entries
  <2>4. StableDisk' = StableDisk
    BY <1>7, <2>3, StableUnchanged DEF IInv, TypeOK, InstallTrans
  <2>5. cache' = cache /\ dlog[tail[p]] # None
    BY <1>7, <2>1, <2>2, <2>3 DEF IInv, TypeOK, Header, InstallTrans
  <2>6. \A c \in Blocks : Contents(c)' = Contents(c)
    BY <1>7, <2>2, <2>3, <2>5 DEF IInv, TypeOK, InstallTrans, Contents
  <2> QED
    BY <1>1, <1>2, <1>3, <2>4, <2>6 DEF T!tvars, LogicalDisk
<1>8. CASE ClearLog(p)
  <2>1. dhead = lh /\ \A i \in 1..Len(lh) : disk[lh[i]] = dlog[i]
    BY <1>8 DEF IInv, Header, Progress, ClearLog
  <2>2. StableDisk' = StableDisk
    BY <1>8, <2>1, StableInstalled DEF ClearLog
  <2>3. \A c \in Blocks : Contents(c)' = Contents(c)
    BY <1>8 DEF ClearLog, Contents
  <2> QED
    BY <1>1, <1>2, <1>3, <2>2, <2>3 DEF T!tvars, LogicalDisk
<1> QED
  BY <1>4, <1>5, <1>6, <1>7, <1>8

\* A power failure leaves what recovery would leave, torn block or not.
LEMMA PowerFailureRefines ==
  ASSUME IInv, PowerFailure PROVE T!TNext
<1>1. Booting' /\ ActiveCalls' = {}
  BY DEF PowerFailure, BootPc, Booting, ActiveCalls
<1>2. CASE UNCHANGED <<disk, dlog>>
  <2>1. StableDisk' = StableDisk
    BY <1>2, StableUnchanged DEF PowerFailure
  <2> QED
    BY <1>1, <2>1 DEF T!TNext, T!PowerFailure, LogicalDisk
<1>3. ASSUME NEW p \in Procs, pc[p] = "wlog", UNCHANGED disk PROVE T!TNext
  <2>1. ~Booting /\ \A q \in Procs : pc[q] \notin {"install", "clear"}
    BY <1>3 DEF IInv, Modes, Booting, Counts
  <2>2. dhead = <<>>
    BY <2>1 DEF IInv, Header
  <2>3. StableDisk' = StableDisk
    BY <1>3, <2>2, StableUnchanged DEF PowerFailure
  <2> QED
    BY <1>1, <2>3 DEF T!TNext, T!PowerFailure, LogicalDisk
<1>4. ASSUME NEW p \in Procs, pc[p] \in {"install", "rinstall"},
             tail[p] <= Len(lh), UNCHANGED dlog,
             disk' = [disk EXCEPT ![lh[tail[p]]] = Torn]
      PROVE  T!TNext
  <2>1. dhead = lh
    BY <1>4 DEF IInv, Header
  <2>2. lh[tail[p]] \in Entries(dhead)
    BY <1>4, <2>1 DEF IInv, TypeOK, Entries
  <2>3. \A b \in Blocks : b \notin Entries(dhead) => disk'[b] = disk[b]
    BY <1>4, <2>2 DEF IInv, TypeOK
  <2>4. StableDisk' = StableDisk
    BY <1>4, <2>3, StableUnchanged DEF PowerFailure
  <2> QED
    BY <1>1, <2>4 DEF T!TNext, T!PowerFailure, LogicalDisk
<1> QED
  BY <1>2, <1>3, <1>4 DEF PowerFailure

\* kernel/log.c implements atomic transactions: for every interleaving of
\* calls, every commit and every power failure, what survives is the logical
\* disk of a moment when no call was in progress.
THEOREM LogRefinesTransactions == Spec => ImplementsTransactions
<1>1. Init => T!TInit
  BY InitRefines
<1>2. IInv /\ [Next]_vars => [T!TNext]_(T!tvars)
  <2> SUFFICES ASSUME IInv, [Next]_vars PROVE [T!TNext]_(T!tvars)
    OBVIOUS
  <2>1. ASSUME NEW p \in Procs, Step(p) PROVE [T!TNext]_(T!tvars)
    BY <2>1, RecoveryRefines, CallRefines, CommitRefines, CacheRefines DEF Step
  <2>2. ASSUME NEW p \in Procs, Use(p) PROVE [T!TNext]_(T!tvars)
    BY <2>2, CallRefines, CacheRefines DEF Use
  <2>3. CASE UNCHANGED vars
    <3>1. /\ UNCHANGED <<disk, dlog, dhead, cache>>
          /\ Booting' = Booting /\ ActiveCalls' = ActiveCalls
      BY <2>3 DEF vars, Booting, ActiveCalls
    <3> QED
      BY <3>1, QuietStep DEF Contents
  <2> QED
    BY <2>1, <2>2, <2>3, CacheRefines, PowerFailureRefines DEF Next
<1> QED
  BY <1>1, <1>2, LogInvariant, PTL DEF Spec, ImplementsTransactions, T!TSpec
=============================================================================
