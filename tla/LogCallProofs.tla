--------------------------- MODULE LogCallProofs ----------------------------
(***************************************************************************)
(* The log's inductive invariant: it holds initially, and recovery, the    *)
(* calls and the buffer cache preserve it.                                 *)
(***************************************************************************)
EXTENDS Log, FiniteSetTheorems, TLAPS

USE SMTT(20), ZenonT(30)
USE ProcsAssumption, DataAssumption, NoneAssumption, BoundsAssumption
USE DEF Recovering, Commits, LogIndex, Goto, WakeupGoto, HoldsNone,
        diskVars, bufVars, logVars, procVars
-----------------------------------------------------------------------------
(* Facts the steps share. *)

\* The processes in a call are finitely many, so a count of zero means none.
LEMMA ActiveFinite ==
  /\ IsFiniteSet(ActiveCalls)
  /\ Cardinality(ActiveCalls) \in Nat
  /\ Cardinality(ActiveCalls) = 0 => ActiveCalls = {}
<1>1. ActiveCalls \subseteq Procs
  BY DEF ActiveCalls
<1> QED
  BY <1>1, FS_Subset, FS_CardinalityType, FS_EmptySet

\* Once the header is empty or the block is installed, the disk has real data:
\* outside recovery a block that is not cached can be read from disk.
LEMMA ContentsData ==
  ASSUME IInv, ~Booting, NEW b \in Blocks PROVE Contents(b) \in Data
<1>1. CASE cache[b] # None
  BY <1>1 DEF IInv, TypeOK, Contents
<1>2. CASE cache[b] = None /\ b \notin Entries(dhead)
  BY <1>2 DEF IInv, Coherent, Contents
<1>3. CASE cache[b] = None /\ b \in Entries(dhead)
  <2>1. dhead # <<>>
    BY <1>3 DEF Entries
  <2>2. dhead = lh
    BY <2>1 DEF IInv, Header
  <2>3. PICK i \in 1..Len(lh) : lh[i] = b
    BY <1>3, <2>2 DEF Entries
  <2>4. Unpinned(i)
    BY <1>3, <2>3 DEF IInv, Coherent, Pinned
  <2>5. disk[b] = dlog[i]
    BY <2>3, <2>4 DEF IInv, Progress, Unpinned
  <2> QED
    BY <1>3, <2>2, <2>5 DEF IInv, Header, Contents
<1> QED
  BY <1>1, <1>2, <1>3

\* What appending to a sequence of blocks does.
LEMMA AppendBlock ==
  ASSUME NEW s \in Seq(Blocks), NEW b \in Blocks
  PROVE  /\ Append(s, b) \in Seq(Blocks)
         /\ Len(Append(s, b)) = Len(s) + 1
         /\ \A i \in 1..Len(s) : Append(s, b)[i] = s[i]
         /\ Append(s, b)[Len(s) + 1] = b
OBVIOUS
-----------------------------------------------------------------------------
(* The invariant holds initially and every step preserves it. *)

\* The freshly made file system and memory at boot satisfy the invariant.
LEMMA InitIInv == Init => IInv
<1> SUFFICES ASSUME Init PROVE IInv
  OBVIOUS
<1>1. TypeOK
  <2>1. dlog \in [LogIndex -> Data \cup {Torn}]
    BY DEF Init
  <2>2. <<>> \in Seq(Blocks) /\ Len(<<>>) = 0
    OBVIOUS
  <2>3. dhead \in Seq(Blocks) /\ Len(dhead) <= LOGBLOCKS
    BY <2>2 DEF Init
  <2>4. lh \in Seq(Blocks) /\ Len(lh) <= LOGBLOCKS
    BY <2>2 DEF Init
  <2>5. pc \in [Procs -> Places]
    BY DEF Init, BootPc, Places
  <2>6. /\ disk \in [Blocks -> Data \cup {Torn}]
        /\ cache \in [Blocks -> Data \cup {None}]
        /\ refcnt \in [Blocks -> Nat]
        /\ holder \in [Blocks -> Procs \cup {None}]
    BY DEF Init
  <2>7. tail \in [Procs -> 1..LOGBLOCKS + 1] /\ touched \in [Procs -> SUBSET Blocks]
    BY DEF Init
  <2>8. outstanding \in Nat /\ committing \in BOOLEAN
    BY ZenonT(30) DEF Init
  <2> QED
    BY <2>1, <2>3, <2>4, <2>5, <2>6, <2>7, <2>8 DEF TypeOK
<1>2. Booting
  BY DEF Init, Booting, BootPc
<1>3. ActiveCalls = {}
  BY DEF Init, BootPc, ActiveCalls
<1>4. Counts
  BY <1>3, FS_EmptySet DEF Init, BootPc, Counts
<1>5. Distinct /\ Modes /\ Header /\ Progress
  BY <1>2 DEF Init, BootPc, Distinct, Modes, Header, Progress, Booting
<1>6. Pinned = {}
  BY <1>2 DEF Pinned
<1>7. RefcntExact /\ Coherent
  BY <1>6 DEF Init, RefcntExact, Coherent
<1> QED
  BY <1>1, <1>4, <1>5, <1>7 DEF IInv

\* read_head copies the header from disk: recovery's lh is what was committed.
LEMMA ReadHeadIInv ==
  ASSUME IInv, NEW p \in Procs, ReadHead(p) PROVE IInv'
<1>1. TypeOK'
  BY DEF IInv, TypeOK, ReadHead, Places
<1>2. p = InitProc /\ Booting /\ Booting'
  BY DEF IInv, TypeOK, ReadHead, Modes, Booting
<1>3. ActiveCalls' = ActiveCalls
  BY DEF IInv, TypeOK, ReadHead, ActiveCalls
<1>4. Counts'
  BY <1>2, <1>3 DEF IInv, TypeOK, ReadHead, Counts
<1>5. Distinct' /\ Modes'
  BY <1>2 DEF IInv, TypeOK, ReadHead, Distinct, Modes, Booting
<1>6. Header' /\ Progress'
  BY <1>2 DEF IInv, TypeOK, ReadHead, Header, Progress, Modes, Booting
<1>7. Pinned' = {} /\ Pinned = {}
  BY <1>2 DEF Pinned
<1>8. RefcntExact' /\ Coherent'
  BY <1>2, <1>7 DEF IInv, TypeOK, ReadHead, RefcntExact, Coherent, Modes, Entries
<1> QED
  BY <1>1, <1>4, <1>5, <1>6, <1>8 DEF IInv

\* install_trans(1) copies a logged block to its home location.
LEMMA InstallRecoveredIInv ==
  ASSUME IInv, NEW p \in Procs, InstallRecovered(p) PROVE IInv'
<1>1. p = InitProc /\ Booting /\ Booting' /\ dhead = lh
  BY DEF IInv, TypeOK, InstallRecovered, Modes, Booting, Header
<1>2. tail[p] \in 1..Len(lh) /\ lh[tail[p]] \in Blocks /\ dlog[tail[p]] \in Data
  BY <1>1 DEF IInv, TypeOK, InstallRecovered, Header
<1>3. TypeOK'
  BY <1>2 DEF IInv, TypeOK, InstallRecovered
<1>4. Modes' /\ Distinct' /\ ActiveCalls' = ActiveCalls
  BY DEF IInv, TypeOK, InstallRecovered, Modes, Distinct, Booting, ActiveCalls
<1>5. Counts' /\ Header'
  BY <1>4 DEF IInv, TypeOK, InstallRecovered, Counts, Header, Booting
<1>6. Progress'
  <2>1. /\ pc' = pc /\ lh' = lh /\ dlog' = dlog /\ pc[p] = "rinstall"
        /\ tail'[p] = tail[p] + 1 /\ tail[p] \in Int /\ Len(lh) \in Nat
    BY <1>2 DEF IInv, TypeOK, InstallRecovered
  <2>2. \A q \in Procs : q # p =>
            pc[q] \notin {"wlog", "whead", "install", "clear", "rinstall", "rclear"}
    BY <1>1 DEF IInv, Modes, Booting
  <2>3. \A k \in 1..Len(lh) :
            disk'[lh[k]] = IF k = tail[p] THEN dlog[tail[p]] ELSE disk[lh[k]]
    BY <1>2 DEF IInv, TypeOK, InstallRecovered, Distinct
  <2>4. \A k \in 1..Len(lh) : k < tail[p] => disk[lh[k]] = dlog[k]
    BY <2>1 DEF IInv, Progress
  <2>5. \A k \in 1..Len(lh) : k < tail'[p] => disk'[lh[k]] = dlog[k]
    BY <2>1, <2>3, <2>4
  <2> QED
    BY <2>1, <2>2, <2>5 DEF Progress
<1>7. Pinned' = {} /\ Pinned = {}
  BY <1>1 DEF Pinned
<1>8. RefcntExact' /\ Coherent'
  BY <1>1, <1>2, <1>7 DEF IInv, TypeOK, InstallRecovered, RefcntExact, Coherent, Entries
<1> QED
  BY <1>3, <1>4, <1>5, <1>6, <1>8 DEF IInv

\* Recovery has installed every block the header names.
LEMMA RecoveredAllIInv ==
  ASSUME IInv, NEW p \in Procs, RecoveredAll(p) PROVE IInv'
<1>1. p = InitProc /\ Booting /\ Booting'
  BY DEF IInv, TypeOK, RecoveredAll, Modes, Booting
<1>2. TypeOK'
  BY DEF IInv, TypeOK, RecoveredAll, Places
<1>3. Modes' /\ Distinct' /\ ActiveCalls' = ActiveCalls
  BY DEF IInv, TypeOK, RecoveredAll, Modes, Distinct, Booting, ActiveCalls
<1>4. Counts' /\ Header'
  BY <1>3 DEF IInv, TypeOK, RecoveredAll, Counts, Header, Booting
<1>5. Progress'
  BY <1>1 DEF IInv, TypeOK, RecoveredAll, Progress, Modes
<1>6. Pinned' = {} /\ Pinned = {}
  BY <1>1 DEF Pinned
<1>7. RefcntExact' /\ Coherent'
  BY <1>1, <1>6 DEF IInv, TypeOK, RecoveredAll, RefcntExact, Coherent, Entries
<1> QED
  BY <1>2, <1>3, <1>4, <1>5, <1>7 DEF IInv

\* At the end of recovery every block the header named is installed, so an
\* empty header leaves only real data on disk.
LEMMA ClearRecoveredIInv ==
  ASSUME IInv, NEW p \in Procs, ClearRecovered(p) PROVE IInv'
<1>1. p = InitProc /\ Booting /\ ~Booting' /\ dhead = lh
  BY DEF IInv, TypeOK, ClearRecovered, Modes, Booting, Header
<1>2. TypeOK'
  BY DEF IInv, TypeOK, ClearRecovered, Places
<1>3. Modes' /\ Distinct'
  BY <1>1 DEF IInv, TypeOK, ClearRecovered, Modes, Distinct, Booting
<1>4. ActiveCalls' = {} /\ ActiveCalls = {}
  BY ZenonT(30), <1>1 DEF IInv, TypeOK, ClearRecovered, Modes, Booting, ActiveCalls
<1>5. ~committing /\ outstanding = 0
  BY ZenonT(30), <1>1 DEF IInv, TypeOK, Counts, Modes, ClearRecovered
<1>10. Counts'
  BY <1>1, <1>4, <1>5, FS_EmptySet DEF TypeOK, ClearRecovered, Counts
<1>11. Header'
  BY <1>1 DEF IInv, TypeOK, ClearRecovered, Header
<1>6. Progress'
  BY DEF IInv, TypeOK, ClearRecovered, Progress
<1>7. Pinned' = {} /\ Pinned = {}
  BY <1>1 DEF Pinned, ClearRecovered
<1>8. \A b \in Blocks : disk[b] \in Data
  BY <1>1 DEF IInv, Coherent, Progress, Header, ClearRecovered, Entries
<1>9. RefcntExact' /\ Coherent'
  BY ZenonT(30), <1>1, <1>7, <1>8 DEF IInv, TypeOK, ClearRecovered, RefcntExact, Coherent, Modes
<1> QED
  BY <1>2, <1>3, <1>10, <1>11, <1>6, <1>9 DEF IInv

\* A process enters a call and touches nothing shared.
LEMMA SyscallIInv ==
  ASSUME IInv, NEW p \in Procs, Syscall(p) PROVE IInv'
<1>1. TypeOK'
  BY DEF IInv, TypeOK, Syscall, Places
<1>2. Modes' /\ Distinct' /\ Booting' = Booting /\ ActiveCalls' = ActiveCalls
  BY DEF IInv, TypeOK, Syscall, Modes, Distinct, Booting, ActiveCalls
<1>3. Counts'
  BY <1>2 DEF IInv, TypeOK, Syscall, Counts
<1>4. Header' /\ Progress'
  BY <1>2 DEF IInv, TypeOK, Syscall, Header, Progress, Modes
<1>5. Pinned' = Pinned
  BY ZenonT(30), <1>2 DEF IInv, TypeOK, Syscall, Pinned, Unpinned
<1>6. RefcntExact' /\ Coherent'
  BY <1>5 DEF IInv, TypeOK, Syscall, RefcntExact, Coherent, Entries
<1> QED
  BY <1>1, <1>2, <1>3, <1>4, <1>6 DEF IInv

\* begin_op finds no room, or a commit, and sleeps.
LEMMA BeginOpSleepIInv ==
  ASSUME IInv, NEW p \in Procs, BeginOpSleep(p) PROVE IInv'
<1>1. TypeOK'
  BY DEF IInv, TypeOK, BeginOpSleep, Places
<1>2. Modes' /\ Distinct' /\ Booting' = Booting /\ ActiveCalls' = ActiveCalls
  BY DEF IInv, TypeOK, BeginOpSleep, Modes, Distinct, Booting, ActiveCalls
<1>3. Counts'
  BY <1>2 DEF IInv, TypeOK, BeginOpSleep, Counts
<1>4. Header' /\ Progress'
  BY <1>2 DEF IInv, TypeOK, BeginOpSleep, Header, Progress, Modes
<1>5. Pinned' = Pinned
  BY ZenonT(30), <1>2 DEF IInv, TypeOK, BeginOpSleep, Pinned, Unpinned
<1>6. RefcntExact' /\ Coherent'
  <2>1. RefcntExact'
    BY ZenonT(30), <1>5 DEF IInv, BeginOpSleep, RefcntExact
  <2>2. \A q \in Procs : pc[q] = "panic" => pc'[q] = "panic"
    BY DEF IInv, TypeOK, BeginOpSleep
  <2>3. Coherent'
    BY ZenonT(30), <1>5, <2>2 DEF IInv, BeginOpSleep, Coherent, Entries
  <2> QED
    BY <2>1, <2>3
<1> QED
  BY <1>1, <1>2, <1>3, <1>4, <1>6 DEF IInv

\* A call enters: one more process is active, and no commit is running.
LEMMA BeginOpIInv ==
  ASSUME IInv, NEW p \in Procs, BeginOp(p) PROVE IInv'
<1>1. TypeOK'
  BY DEF IInv, TypeOK, BeginOp, Places
<1>2. Modes' /\ Distinct' /\ Booting' = Booting
  BY DEF IInv, TypeOK, BeginOp, Modes, Distinct, Booting
<1>3. ~committing /\ ~Booting
  BY ZenonT(30) DEF IInv, TypeOK, BeginOp, MustWait, Modes, Booting
<1>4. outstanding' = Cardinality(ActiveCalls')
  <2>1. ActiveCalls' = ActiveCalls \cup {p} /\ p \notin ActiveCalls
    BY DEF IInv, TypeOK, BeginOp, ActiveCalls
  <2> QED
    BY ZenonT(30), <2>1, ActiveFinite, FS_AddElement DEF IInv, Counts, BeginOp
<1>5. Counts'
  BY <1>2, <1>3, <1>4 DEF IInv, TypeOK, BeginOp, Counts
<1>6. Header' /\ Progress'
  BY <1>2 DEF IInv, TypeOK, BeginOp, Header, Progress, Modes
<1>7. Pinned' = Pinned
  BY ZenonT(30), <1>2 DEF IInv, TypeOK, BeginOp, Pinned, Unpinned
<1>8. RefcntExact' /\ Coherent'
  BY <1>7 DEF IInv, TypeOK, BeginOp, RefcntExact, Coherent, Entries
<1> QED
  BY <1>1, <1>2, <1>5, <1>6, <1>8 DEF IInv

\* What only reads the log's own state keeps what is said of it.
LEMMA LogKept ==
  ASSUME Modes, Distinct, Counts, Header, Booting' = Booting, ActiveCalls' = ActiveCalls,
         UNCHANGED <<dlog, dhead, lh, outstanding, committing, pc>>
  PROVE  Modes' /\ Distinct' /\ Counts' /\ Header'
<1>1. Modes' /\ Distinct'
  BY DEF Modes, Distinct
<1>2. Counts'
  BY DEF Counts
<1>3. Header'
  BY DEF Header
<1> QED
  BY ZenonT(30), <1>1, <1>2, <1>3

\* bread caches a block as it is on disk and counts a reference.
LEMMA BreadIInv ==
  ASSUME IInv, NEW p \in Procs, NEW b \in Blocks, Bread(p, b) PROVE IInv'
<1>1. ~Booting /\ Booting' = Booting /\ ActiveCalls' = ActiveCalls
  BY ZenonT(30) DEF IInv, TypeOK, Bread, Modes, Booting, ActiveCalls
<1>2. Contents(b) \in Data
  BY <1>1, ContentsData
<1>3. TypeOK'
  BY <1>2 DEF IInv, TypeOK, Bread
<1>4. Modes' /\ Distinct' /\ Counts' /\ Header'
  <2>1. UNCHANGED <<disk, dlog, dhead, lh, outstanding, committing, pc, tail, touched>>
    BY ZenonT(30) DEF Bread, diskVars, logVars, procVars
  <2> QED
    BY ZenonT(30), <1>1, <2>1, LogKept DEF IInv
<1>5. Pinned' = Pinned
  BY <1>1 DEF IInv, TypeOK, Bread, Pinned, Unpinned
<1>6. \A c \in Blocks : cache'[c] = cache[c] \/ (cache[c] = None /\ cache'[c] = disk[c])
  BY DEF IInv, TypeOK, Bread, Contents
<1>7. Progress'
  <2>1. UNCHANGED <<disk, dlog, dhead, lh, pc, tail>>
    BY ZenonT(30) DEF Bread, diskVars, logVars, procVars
  <2> QED
    <3>1. ASSUME NEW k \in 1..Len(lh) PROVE cache[lh[k]] = dlog[k] => cache'[lh[k]] = dlog[k]
      <4>1. lh[k] \in Blocks
        BY DEF IInv, TypeOK
      <4>2. dlog[k] # None
        BY DEF IInv, TypeOK
      <4> QED
        BY ZenonT(30), <1>6, <4>1, <4>2
    <3> QED
      BY <2>1, <3>1 DEF IInv, Progress
<1>8. RefcntExact'
  BY <1>5 DEF IInv, TypeOK, Bread, RefcntExact
<1>9. Coherent'
  BY <1>3, <1>5, <1>6 DEF IInv, TypeOK, Bread, Coherent, Entries
<1> QED
  BY <1>3, <1>4, <1>7, <1>8, <1>9 DEF IInv

\* brelse gives its reference back.
LEMMA BrelseIInv ==
  ASSUME IInv, NEW p \in Procs, NEW b \in Blocks, Brelse(p, b) PROVE IInv'
<1>1. Booting' = Booting /\ ActiveCalls' = ActiveCalls
  BY DEF IInv, TypeOK, Brelse, Booting, ActiveCalls
<1>2. refcnt[b] >= 1
  <2>1. holder[b] # None
    BY DEF Brelse
  <2>2. refcnt[b] = 1 + (IF b \in Pinned THEN 1 ELSE 0)
    BY <2>1 DEF IInv, RefcntExact
  <2> QED
    BY <2>2
<1>3. TypeOK'
  BY <1>2 DEF IInv, TypeOK, Brelse
<1>4. Modes' /\ Distinct' /\ Counts' /\ Header' /\ Progress'
  <2>1. UNCHANGED <<disk, dlog, dhead, cache, lh, outstanding, committing, pc, tail, touched>>
    BY ZenonT(30) DEF Brelse, diskVars, logVars, procVars
  <2>2. Progress'
    BY <2>1 DEF IInv, Progress
  <2> QED
    BY ZenonT(30), <1>1, <2>1, <2>2, LogKept DEF IInv
<1>5. Pinned' = Pinned
  BY <1>1 DEF IInv, TypeOK, Brelse, Pinned, Unpinned
<1>6. RefcntExact'
  BY <1>5 DEF IInv, TypeOK, Brelse, RefcntExact
<1>7. Coherent'
  BY <1>5 DEF IInv, TypeOK, Brelse, Coherent, Entries
<1> QED
  BY <1>3, <1>4, <1>6, <1>7 DEF IInv

\* A buffer that is recycled is not pinned, so nothing in it is lost.
LEMMA RecycleIInv ==
  ASSUME IInv, NEW b \in Blocks, Recycle(b) PROVE IInv'
<1>1. Booting' = Booting /\ ActiveCalls' = ActiveCalls
  BY DEF Recycle, Booting, ActiveCalls
<1>2. b \notin Pinned /\ Pinned' = Pinned
  <2>1. Pinned' = Pinned
    BY <1>1 DEF Recycle, Pinned, Unpinned
  <2>2. b \notin Pinned
    BY DEF IInv, RefcntExact, Recycle
  <2> QED
    BY <2>1, <2>2
<1>3. TypeOK' /\ Modes' /\ Distinct' /\ Counts' /\ Header'
  BY <1>1 DEF IInv, TypeOK, Recycle, Modes, Distinct, Counts, Header
<1>4. Progress'
  <2> SUFFICES ASSUME NEW p \in Procs, NEW i \in 1..Len(lh),
                      \/ pc[p] = "wlog" /\ i < tail[p]
                      \/ pc[p] = "whead"
                      \/ pc[p] = "install" /\ i >= tail[p]
               PROVE  lh[i] # b
    BY DEF IInv, TypeOK, Recycle, Progress
  <2>1. \A q \in Procs : pc[q] \in Commits => q = p
    BY DEF IInv, Counts
  <2>2. ~Unpinned(i)
    BY <2>1 DEF IInv, TypeOK, Unpinned
  <2>3. ~Booting
    BY DEF IInv, Modes, Booting
  <2> QED
    BY <1>2, <2>2, <2>3 DEF IInv, TypeOK, Pinned
<1>5. RefcntExact' /\ Coherent'
  BY <1>2 DEF IInv, TypeOK, Recycle, RefcntExact, Coherent, Entries
<1> QED
  BY <1>3, <1>4, <1>5 DEF IInv

\* A logged block becomes, or stays, pinned.  No commit runs meanwhile, so no
\* copy of the log refers to the buffer.
LEMMA LogWriteIInv ==
  ASSUME IInv, NEW p \in Procs, NEW b \in Blocks, NEW v \in Data, LogWrite(p, b, v)
  PROVE  IInv'
<1>1. p \in ActiveCalls /\ ActiveCalls' = ActiveCalls
  BY DEF IInv, TypeOK, LogWrite, ActiveCalls
<1>2. outstanding # 0
  BY <1>1, ActiveFinite, FS_EmptySet DEF IInv, Counts
<1>3. ~committing /\ ~Booting /\ \A q \in Procs : pc[q] \notin Commits
  BY <1>2 DEF IInv, Counts
<1>4. dhead = <<>>
  BY <1>3 DEF IInv, Header
<1>5. Booting' = Booting /\ Modes'
  BY DEF IInv, TypeOK, LogWrite, Modes, Booting
<1>6. Counts'
  BY <1>1, <1>3, <1>5 DEF IInv, TypeOK, LogWrite, Counts
<1>7. \A q \in Procs : pc'[q] \notin Commits
  BY <1>3 DEF IInv, TypeOK, LogWrite
<1>8. \A q \in Procs : pc'[q] \notin Recovering
  BY <1>3, <1>5 DEF Modes
<1>9. Progress'
  BY <1>7, <1>8 DEF Progress
<1>10. Pinned = {c \in Blocks : c \in Entries(lh)} /\ Pinned' = {c \in Blocks : c \in Entries(lh')}
  BY <1>3, <1>5, <1>7 DEF Pinned, Unpinned, Entries
<1>11. CASE UNCHANGED <<lh, refcnt>> /\ pc'[p] = "panic"
  <2>1. TypeOK'
    <3>1. pc' \in [Procs -> Places]
      BY ZenonT(30), <1>11 DEF IInv, TypeOK, LogWrite, Places
    <3>2. cache' \in [Blocks -> Data \cup {None}] /\ touched' \in [Procs -> SUBSET Blocks]
      BY DEF IInv, TypeOK, LogWrite
    <3> QED
      BY ZenonT(30), <1>11, <3>1, <3>2 DEF IInv, TypeOK, LogWrite
  <2>2. Distinct' /\ Header'
    BY <1>2, <1>4, <1>7, <1>8, <1>11 DEF IInv, TypeOK, LogWrite, Distinct, Header
  <2>3. RefcntExact'
    BY <1>10, <1>11 DEF IInv, TypeOK, LogWrite, RefcntExact
  <2>4. Coherent'
    BY <1>10, <1>11 DEF IInv, TypeOK, LogWrite, Coherent
  <2> QED
    BY <1>5, <1>6, <1>9, <2>1, <2>2, <2>3, <2>4 DEF IInv
<1>12. CASE UNCHANGED <<lh, refcnt, pc>> /\ b \in Entries(lh)
  <2>1. TypeOK'
    BY <1>12 DEF IInv, TypeOK, LogWrite
  <2>2. Distinct' /\ Header'
    BY <1>2, <1>4, <1>7, <1>8, <1>12 DEF IInv, TypeOK, LogWrite, Distinct, Header
  <2>3. RefcntExact'
    BY <1>10, <1>12 DEF IInv, TypeOK, LogWrite, RefcntExact
  <2>4. Coherent'
    BY <1>10, <1>12 DEF IInv, TypeOK, LogWrite, Coherent
  <2> QED
    BY <1>5, <1>6, <1>9, <2>1, <2>2, <2>3, <2>4 DEF IInv
<1>13. CASE /\ UNCHANGED pc /\ b \notin Entries(lh) /\ lh' = Append(lh, b)
            /\ refcnt' = [refcnt EXCEPT ![b] = @ + 1] /\ Len(lh) < LOGBLOCKS
  <2>1. /\ lh' \in Seq(Blocks)
        /\ Len(lh') = Len(lh) + 1
        /\ \A i \in 1..Len(lh) : lh'[i] = lh[i]
        /\ lh'[Len(lh) + 1] = b
    BY <1>13, AppendBlock DEF IInv, TypeOK
  <2>2. Entries(lh') = Entries(lh) \cup {b}
    <3>1. Len(lh) \in Nat
      BY DEF IInv, TypeOK
    <3>2. \A i \in 1..Len(lh') : i \in 1..Len(lh) \/ i = Len(lh) + 1
      BY <2>1, <3>1
    <3>3. Entries(lh') \subseteq Entries(lh) \cup {b}
      BY <2>1, <3>2 DEF Entries
    <3>4. 1..Len(lh) \subseteq 1..Len(lh') /\ Len(lh) + 1 \in 1..Len(lh')
      BY <2>1, <3>1
    <3>5. Entries(lh) \cup {b} \subseteq Entries(lh')
      BY <2>1, <3>4 DEF Entries
    <3> QED
      BY <3>3, <3>5
  <2>3. TypeOK'
    BY <1>13, <2>1 DEF IInv, TypeOK, LogWrite
  <2>4. Distinct'
    BY <1>13, <2>1 DEF IInv, TypeOK, LogWrite, Distinct, Entries
  <2>5. Header'
    BY <1>2, <1>4, <1>7, <1>8 DEF IInv, LogWrite, Header
  <2>6. RefcntExact'
    BY <1>10, <1>13, <2>2 DEF IInv, TypeOK, LogWrite, RefcntExact
  <2>7. Coherent'
    BY <1>10, <1>13, <2>2 DEF IInv, TypeOK, LogWrite, Coherent
  <2> QED
    BY <1>5, <1>6, <1>9, <2>3, <2>4, <2>5, <2>6, <2>7 DEF IInv
<1>14. CASE Len(lh) >= LOGBLOCKS \/ outstanding < 1
  BY <1>11, <1>14 DEF IInv, TypeOK, LogWrite
<1>15. CASE ~(Len(lh) >= LOGBLOCKS \/ outstanding < 1) /\ b \in Entries(lh)
  BY ZenonT(30), <1>12, <1>15 DEF LogWrite
<1>16. CASE ~(Len(lh) >= LOGBLOCKS \/ outstanding < 1) /\ b \notin Entries(lh)
  <2>1. Len(lh) < LOGBLOCKS
    BY <1>16 DEF IInv, TypeOK
  <2> QED
    BY ZenonT(30), <1>13, <1>16, <2>1 DEF LogWrite
<1> QED
  BY <1>14, <1>15, <1>16

\* A call leaves: it was counted, so no commit was running; the last one out
\* becomes the only process that commits.
LEMMA EndOpIInv ==
  ASSUME IInv, NEW p \in Procs, EndOp(p) PROVE IInv'
<1>1. p \in ActiveCalls /\ outstanding = Cardinality(ActiveCalls)
  BY DEF IInv, TypeOK, EndOp, ActiveCalls, Counts
<1>2. outstanding # 0
  BY <1>1, ActiveFinite, FS_EmptySet
<1>3. ~committing /\ ~Booting /\ \A q \in Procs : pc[q] \notin Commits
  BY <1>2 DEF IInv, Counts
<1>4. dhead = <<>> /\ \A q \in Procs : pc[q] \notin Recovering \cup {"off"}
  BY <1>3 DEF IInv, Header, Modes
<1>5. ActiveCalls' = ActiveCalls \ {p}
  BY <1>3 DEF IInv, TypeOK, EndOp, ActiveCalls
<1>6. outstanding' = Cardinality(ActiveCalls')
  BY ZenonT(30), <1>1, <1>5, ActiveFinite, FS_RemoveElement DEF EndOp
<1>7. TypeOK'
  <2>1. outstanding' \in Nat
    BY <1>2 DEF IInv, TypeOK, EndOp
  <2>2. pc' \in [Procs -> Places]
    BY <1>3 DEF IInv, TypeOK, EndOp, Places
  <2> QED
    BY ZenonT(30), <1>3, <2>1, <2>2 DEF IInv, TypeOK, EndOp
<1>8. Modes' /\ ~Booting' /\ Distinct'
  <2>1. \A q \in Procs : pc'[q] \in {pc[q], "commit", "idle", "begin"}
    BY <1>3 DEF IInv, TypeOK, EndOp
  <2>2. \A q \in Procs : pc'[q] \notin Recovering \cup {"off"}
    BY <1>4, <2>1
  <2> QED
    BY <2>2 DEF IInv, EndOp, Modes, Booting, Distinct
<1>9. \A q \in Procs : pc'[q] \in Commits => q = p /\ pc'[q] = "commit"
  BY <1>3 DEF IInv, TypeOK, EndOp
<1>10. committing' <=> pc'[p] = "commit"
  BY <1>3 DEF IInv, TypeOK, EndOp
<1>11. Counts'
  BY <1>3, <1>6, <1>8, <1>9, <1>10 DEF IInv, TypeOK, EndOp, Counts
<1>12. Header'
  BY <1>2, <1>3, <1>4, <1>8, <1>9 DEF IInv, TypeOK, EndOp, Header, Modes
<1>13. Progress'
  BY <1>8, <1>9 DEF Progress, Modes
<1>14. Pinned' = Pinned
  BY <1>3, <1>8, <1>9 DEF EndOp, Pinned, Unpinned
<1>15. RefcntExact'
  BY <1>14 DEF IInv, TypeOK, EndOp, RefcntExact
<1>16. Coherent'
  BY <1>3, <1>14 DEF IInv, TypeOK, EndOp, Coherent, Entries
<1> QED
  BY <1>7, <1>8, <1>11, <1>12, <1>13, <1>15, <1>16 DEF IInv
=============================================================================
