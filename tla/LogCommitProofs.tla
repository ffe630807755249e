-------------------------- MODULE LogCommitProofs ---------------------------
(***************************************************************************)
(* The log's inductive invariant, continued: commits and power failures    *)
(* preserve it.  What follows from it, for any number of processes, blocks *)
(* and log sizes.                                                          *)
(***************************************************************************)
EXTENDS LogCallProofs

USE SMTT(20), ZenonT(30)
USE ProcsAssumption, DataAssumption, NoneAssumption, BoundsAssumption
USE DEF Recovering, Commits, LogIndex, Goto, WakeupGoto, HoldsNone,
        diskVars, bufVars, logVars, procVars
-----------------------------------------------------------------------------
(* The steps of commit. *)

\* commit starts with the number of blocks that were logged.
LEMMA CommitIInv ==
  ASSUME IInv, NEW p \in Procs, Commit(p) PROVE IInv'
<1>1. TypeOK'
  BY DEF IInv, TypeOK, Commit, Places
<1>2. Modes' /\ Distinct' /\ Booting' = Booting /\ ActiveCalls' = ActiveCalls
  BY DEF IInv, TypeOK, Commit, Modes, Distinct, Booting, ActiveCalls
<1>3. Counts'
  BY <1>2 DEF IInv, TypeOK, Commit, Counts
<1>4. Header' /\ Progress'
  BY <1>2 DEF IInv, TypeOK, Commit, Header, Progress, Modes
<1>5. Pinned' = Pinned
  BY ZenonT(30), <1>2 DEF IInv, TypeOK, Commit, Pinned, Unpinned
<1>6. RefcntExact' /\ Coherent'
  BY <1>5 DEF IInv, TypeOK, Commit, RefcntExact, Coherent, Entries
<1> QED
  BY <1>1, <1>2, <1>3, <1>4, <1>6 DEF IInv

\* The block copied to the log is pinned, hence still in the cache.
LEMMA WriteLogIInv ==
  ASSUME IInv, NEW p \in Procs, WriteLog(p) PROVE IInv'
<1>1. /\ ~Booting /\ committing
      /\ \A q \in Procs : pc[q] \in Commits => q = p
      /\ \A q \in Procs : pc[q] \notin Recovering
  BY ZenonT(30) DEF IInv, TypeOK, WriteLog, Modes, Booting, Counts
<1>2. dhead = <<>>
  BY <1>1 DEF IInv, WriteLog, Header
<1>3. tail[p] \in 1..Len(lh) /\ lh[tail[p]] \in Blocks
  BY DEF IInv, TypeOK, WriteLog
<1>4. lh[tail[p]] \in Pinned
  BY <1>1, <1>3 DEF WriteLog, Pinned, Unpinned
<1>5. Contents(lh[tail[p]]) = cache[lh[tail[p]]] /\ cache' = cache
  BY <1>3, <1>4 DEF IInv, TypeOK, Coherent, Contents, WriteLog
<1>6. Contents(lh[tail[p]]) \in Data
  BY <1>1, <1>3, ContentsData
<1>7. TypeOK'
  BY <1>3, <1>5, <1>6 DEF IInv, TypeOK, WriteLog
<1>8. Modes' /\ Distinct' /\ Booting' = Booting /\ ActiveCalls' = ActiveCalls
  BY DEF IInv, TypeOK, WriteLog, Modes, Distinct, Booting, ActiveCalls
<1>9. Counts'
  BY <1>8 DEF IInv, TypeOK, WriteLog, Counts
<1>10. Header'
  BY <1>2, <1>8 DEF IInv, TypeOK, WriteLog, Header
<1>11. Progress'
  <2>1. pc' = pc /\ lh' = lh /\ pc[p] = "wlog"
    BY DEF WriteLog
  <2>2. \A i \in 1..Len(lh) : i < tail'[p] => dlog'[i] = cache'[lh[i]]
    <3>1. \A i \in 1..Len(lh) : i < tail[p] => dlog[i] = cache[lh[i]]
      BY <2>1 DEF IInv, Progress
    <3>2. tail'[p] = tail[p] + 1 /\ tail[p] \in Nat /\ Len(lh) \in Nat
      BY DEF IInv, TypeOK, WriteLog
    <3>3. \A i \in 1..Len(lh) : i < tail'[p] => i < tail[p] \/ i = tail[p]
      BY <3>2
    <3>4. \A i \in 1..Len(lh) :
            dlog'[i] = IF i = tail[p] THEN cache[lh[tail[p]]] ELSE dlog[i]
      BY <1>5 DEF IInv, TypeOK, WriteLog
    <3> QED
      BY <1>5, <3>1, <3>3, <3>4
  <2> QED
    BY <1>1, <2>1, <2>2 DEF Progress
<1>12. Pinned' = Pinned
  BY <1>1, <1>8 DEF WriteLog, Pinned, Unpinned
<1>13. RefcntExact'
  BY <1>12 DEF IInv, WriteLog, RefcntExact
<1>14. Coherent'
  BY <1>5, <1>12 DEF IInv, WriteLog, Coherent, Entries
<1> QED
  BY <1>7, <1>8, <1>9, <1>10, <1>11, <1>13, <1>14 DEF IInv

\* write_log has copied every block.
LEMMA WroteLogIInv ==
  ASSUME IInv, NEW p \in Procs, WroteLog(p) PROVE IInv'
<1>1. TypeOK'
  BY DEF IInv, TypeOK, WroteLog, Places
<1>2. Modes' /\ Distinct' /\ Booting' = Booting /\ ActiveCalls' = ActiveCalls
  BY DEF IInv, TypeOK, WroteLog, Modes, Distinct, Booting, ActiveCalls
<1>3. Counts'
  BY <1>2 DEF IInv, TypeOK, WroteLog, Counts
<1>4. Header'
  BY <1>2 DEF IInv, TypeOK, WroteLog, Header
<1>5. Progress'
  <2>1. /\ pc[p] = "wlog" /\ tail[p] > Len(lh) /\ pc'[p] = "whead"
        /\ \A q \in Procs \ {p} : pc'[q] = pc[q]
        /\ UNCHANGED <<disk, dlog, cache, lh, tail>>
    BY DEF IInv, TypeOK, WroteLog
  <2>2. tail[p] \in Int /\ Len(lh) \in Nat
    BY DEF IInv, TypeOK
  <2> QED
    BY <2>1, <2>2 DEF IInv, Progress
<1>6. Pinned' = Pinned
  <2>1. /\ UNCHANGED <<lh, tail>>
        /\ \A q \in Procs : /\ pc'[q] = "install" <=> pc[q] = "install"
                            /\ pc'[q] = "clear" <=> pc[q] = "clear"
    BY DEF IInv, TypeOK, WroteLog
  <2>2. \A i \in 1..Len(lh) : Unpinned(i)' <=> Unpinned(i)
    BY ZenonT(30), <2>1 DEF Unpinned
  <2> QED
    BY <1>2, <2>1, <2>2 DEF Pinned
<1>7. RefcntExact'
  <2>1. UNCHANGED <<refcnt, holder>>
    BY DEF WroteLog, bufVars
  <2> QED
    BY ZenonT(30), <1>6, <2>1 DEF IInv, RefcntExact
<1>8. Coherent'
  <2>1. /\ UNCHANGED <<disk, cache, holder, dhead>>
        /\ \A q \in Procs : pc[q] = "panic" => pc'[q] = "panic"
    BY DEF IInv, TypeOK, WroteLog
  <2> QED
    BY ZenonT(30), <1>6, <2>1 DEF IInv, Coherent, Entries
<1> QED
  BY <1>1, <1>2, <1>3, <1>4, <1>5, <1>7, <1>8 DEF IInv

\* When the header is written, every logged block has its copy in the log.
LEMMA WriteHeadIInv ==
  ASSUME IInv, NEW p \in Procs, WriteHead(p) PROVE IInv'
<1>1. /\ ~Booting /\ committing
      /\ \A q \in Procs : pc[q] \in Commits => q = p
      /\ \A q \in Procs : pc[q] \notin Recovering
  BY ZenonT(30) DEF IInv, TypeOK, WriteHead, Modes, Booting, Counts
<1>2. TypeOK'
  BY DEF IInv, TypeOK, WriteHead, Places
<1>3. Modes' /\ Distinct' /\ Booting' = Booting /\ ActiveCalls' = ActiveCalls
  BY DEF IInv, TypeOK, WriteHead, Modes, Distinct, Booting, ActiveCalls
<1>4. Counts'
  BY <1>3 DEF IInv, TypeOK, WriteHead, Counts
<1>5. \A i \in 1..Len(lh) : lh[i] \in Pinned
  <2>1. \A i \in 1..Len(lh) : ~Unpinned(i)
    BY <1>1 DEF WriteHead, Unpinned
  <2>2. \A i \in 1..Len(lh) : lh[i] \in Blocks
    BY DEF IInv, TypeOK
  <2> QED
    BY <1>1, <2>1, <2>2 DEF Pinned
<1>6. \A i \in 1..Len(lh) : dlog[i] = cache[lh[i]] /\ dlog[i] \in Data
  BY <1>5 DEF IInv, TypeOK, WriteHead, Progress, Coherent
<1>7. \A q \in Procs : pc'[q] \in Commits \cup Recovering => q = p
  BY <1>1 DEF IInv, TypeOK, WriteHead
<1>8. Header'
  BY <1>1, <1>6, <1>7 DEF IInv, TypeOK, WriteHead, Header
<1>9. Progress'
  BY <1>6, <1>7 DEF IInv, TypeOK, WriteHead, Progress
<1>10. \A i \in 1..Len(lh) : ~Unpinned(i) /\ ~Unpinned(i)'
  BY <1>1, <1>7 DEF IInv, TypeOK, WriteHead, Unpinned
<1>11. Pinned' = Pinned
  BY <1>3, <1>10 DEF WriteHead, Pinned
<1>12. \A b \in Blocks : disk[b] \in Data
  BY <1>1 DEF IInv, WriteHead, Coherent, Header, Entries
<1>13. RefcntExact' /\ Coherent'
  BY <1>11, <1>12 DEF IInv, TypeOK, WriteHead, RefcntExact, Coherent
<1> QED
  BY <1>2, <1>3, <1>4, <1>8, <1>9, <1>13 DEF IInv

\* Installing a block puts its log copy on disk, after which its pin can go.
LEMMA InstallTransIInv ==
  ASSUME IInv, NEW p \in Procs, InstallTrans(p) PROVE IInv'
<1> DEFINE b == lh[tail[p]]
<1>1. /\ ~Booting /\ committing
      /\ \A q \in Procs : pc[q] \in Commits => q = p
      /\ \A q \in Procs : pc[q] \notin Recovering
  BY ZenonT(30) DEF IInv, TypeOK, InstallTrans, Modes, Booting, Counts
<1>2. dhead = lh /\ Len(lh) \in Nat
  BY DEF IInv, TypeOK, InstallTrans, Header
<1>3. tail[p] \in 1..Len(lh) /\ b \in Blocks /\ dlog[tail[p]] \in Data
  BY <1>2 DEF IInv, TypeOK, InstallTrans, Header
<1>4. cache[b] = dlog[tail[p]] /\ cache' = cache
  <2>1. cache[b] = dlog[tail[p]]
    BY <1>3 DEF IInv, InstallTrans, Progress
  <2> QED
    BY <1>3, <2>1 DEF IInv, TypeOK, InstallTrans
<1>5. \A i \in 1..Len(lh) : Unpinned(i) <=> i < tail[p]
  BY <1>1 DEF InstallTrans, Unpinned
<1>6. \A i \in 1..Len(lh) : Unpinned(i)' <=> i < tail[p] + 1
  BY <1>1 DEF IInv, TypeOK, InstallTrans, Unpinned
<1>7. \A i \in 1..Len(lh) : lh[i] = b <=> i = tail[p]
  BY <1>3 DEF IInv, Distinct
<1>8. Modes' /\ Distinct' /\ Booting' = Booting /\ ActiveCalls' = ActiveCalls
  BY DEF IInv, TypeOK, InstallTrans, Modes, Distinct, Booting, ActiveCalls
<1>9. b \in Pinned
  BY <1>1, <1>3, <1>5 DEF Pinned
<1>10. Pinned' = Pinned \ {b}
  <2>1. Pinned = {c \in Blocks : \E i \in 1..Len(lh) : lh[i] = c /\ ~(i < tail[p])}
    BY <1>1, <1>5 DEF Pinned
  <2>2. Pinned' = {c \in Blocks : \E i \in 1..Len(lh) : lh[i] = c /\ ~(i < tail[p] + 1)}
    BY <1>1, <1>6, <1>8 DEF Pinned, InstallTrans
  <2>3. \A i \in 1..Len(lh) : ~(i < tail[p] + 1) <=> ~(i < tail[p]) /\ i # tail[p]
    BY <1>3
  <2> QED
    BY <1>7, <2>1, <2>2, <2>3
<1>11. holder[b] = None /\ refcnt[b] = 1
  BY <1>3, <1>9 DEF IInv, RefcntExact, InstallTrans
<1>12. TypeOK'
  BY <1>3, <1>4, <1>11 DEF IInv, TypeOK, InstallTrans
<1>13. Counts' /\ Header'
  BY <1>8 DEF IInv, TypeOK, InstallTrans, Counts, Header
<1>14. Progress'
  <2>1. pc' = pc /\ lh' = lh /\ dlog' = dlog /\ pc[p] = "install" /\ tail'[p] = tail[p] + 1
    BY DEF InstallTrans, IInv, TypeOK
  <2>2. \A i \in 1..Len(lh) : i < tail'[p] => disk'[lh[i]] = dlog[i]
    <3>1. \A i \in 1..Len(lh) : i < tail[p] => disk[lh[i]] = dlog[i]
      BY <2>1 DEF IInv, Progress
    <3>2. \A i \in 1..Len(lh) : i < tail'[p] => i < tail[p] \/ i = tail[p]
      BY <1>2, <1>3, <2>1
    <3>3. \A i \in 1..Len(lh) :
            disk'[lh[i]] = IF i = tail[p] THEN dlog[tail[p]] ELSE disk[lh[i]]
      BY <1>3, <1>7 DEF IInv, TypeOK, InstallTrans
    <3> QED
      BY <3>1, <3>2, <3>3
  <2>3. \A i \in 1..Len(lh) : i >= tail'[p] => cache'[lh[i]] = dlog[i]
    <3>1. \A i \in 1..Len(lh) : i >= tail[p] => cache[lh[i]] = dlog[i]
      BY <2>1 DEF IInv, Progress
    <3>2. \A i \in 1..Len(lh) : i >= tail'[p] => i >= tail[p]
      BY <1>2, <1>3, <2>1
    <3> QED
      BY <1>4, <3>1, <3>2
  <2> QED
    BY <1>1, <2>1, <2>2, <2>3 DEF Progress
<1>15. RefcntExact'
  <2>1. refcnt'[b] = 0 /\ holder' = holder
    BY <1>3, <1>11 DEF IInv, TypeOK, InstallTrans
  <2>2. \A c \in Blocks \ {b} : refcnt'[c] = refcnt[c]
    BY DEF IInv, TypeOK, InstallTrans
  <2> QED
    BY <1>10, <1>11, <2>1, <2>2 DEF IInv, RefcntExact
<1>16. Coherent'
  <2>1. UNCHANGED <<cache, holder, pc, dhead>> /\ disk'[b] = cache[b]
    BY <1>3, <1>4 DEF IInv, TypeOK, InstallTrans
  <2>2. \A c \in Blocks \ {b} : disk'[c] = disk[c]
    BY <1>3 DEF IInv, TypeOK, InstallTrans
  <2>3. b \in Entries(dhead)
    BY <1>2, <1>3 DEF Entries
  <2>4. ASSUME NEW c \in Blocks \ {b}
        PROVE  /\ c \in Pinned' => cache'[c] # None
               /\ \/ cache'[c] \in {None, disk'[c]}
                  \/ c \in Pinned'
                  \/ holder'[c] \in Procs /\ pc'[holder'[c]] = "panic"
               /\ c \notin Entries(dhead') => disk'[c] \in Data
    <3>1. /\ c \in Pinned => cache[c] # None
          /\ \/ cache[c] \in {None, disk[c]}
             \/ c \in Pinned
             \/ holder[c] \in Procs /\ pc[holder[c]] = "panic"
          /\ c \notin Entries(dhead) => disk[c] \in Data
      BY ZenonT(30) DEF IInv, Coherent
    <3>2. c \in Pinned' <=> c \in Pinned
      BY ZenonT(30), <1>10
    <3>3. disk'[c] = disk[c]
      BY <2>2
    <3> QED
      BY ZenonT(30), <2>1, <3>1, <3>2, <3>3
  <2>5. b \notin Pinned' /\ cache'[b] = disk'[b] /\ b \in Entries(dhead')
    BY ZenonT(30), <1>10, <2>1, <2>3
  <2> QED
    BY ZenonT(30), <2>4, <2>5 DEF Coherent, Entries
<1> QED
  BY <1>8, <1>12, <1>13, <1>14, <1>15, <1>16 DEF IInv

\* install_trans(0) has installed and unpinned every block.
LEMMA InstalledAllIInv ==
  ASSUME IInv, NEW p \in Procs, InstalledAll(p) PROVE IInv'
<1>1. TypeOK'
  BY DEF IInv, TypeOK, InstalledAll, Places
<1>2. Modes' /\ Distinct' /\ Booting' = Booting /\ ActiveCalls' = ActiveCalls
  BY DEF IInv, TypeOK, InstalledAll, Modes, Distinct, Booting, ActiveCalls
<1>3. Counts'
  BY <1>2 DEF IInv, TypeOK, InstalledAll, Counts
<1>4. Header' /\ Progress'
  BY <1>2 DEF IInv, TypeOK, InstalledAll, Header, Progress, Modes
<1>5. Pinned' = Pinned
  BY <1>2 DEF IInv, TypeOK, InstalledAll, Pinned, Unpinned
<1>6. RefcntExact' /\ Coherent'
  BY <1>5 DEF IInv, TypeOK, InstalledAll, RefcntExact, Coherent, Entries
<1> QED
  BY <1>1, <1>2, <1>3, <1>4, <1>6 DEF IInv

\* Only after every block is installed is the header emptied.
LEMMA ClearLogIInv ==
  ASSUME IInv, NEW p \in Procs, ClearLog(p) PROVE IInv'
<1>1. /\ ~Booting /\ committing
      /\ \A q \in Procs : pc[q] \in Commits => q = p
      /\ \A q \in Procs : pc[q] \notin Recovering
  BY ZenonT(30) DEF IInv, TypeOK, ClearLog, Modes, Booting, Counts
<1>2. TypeOK'
  BY DEF IInv, TypeOK, ClearLog, Places
<1>3. Modes' /\ Distinct' /\ Booting' = Booting /\ ActiveCalls' = ActiveCalls
  BY DEF IInv, TypeOK, ClearLog, Modes, Distinct, Booting, ActiveCalls
<1>4. Counts'
  BY <1>3 DEF IInv, TypeOK, ClearLog, Counts
<1>5. Header' /\ Progress'
  BY <1>1, <1>3 DEF IInv, TypeOK, ClearLog, Header, Progress
<1>6. Pinned = {} /\ Pinned' = {}
  BY DEF ClearLog, Pinned, Unpinned
<1>7. \A b \in Blocks : disk[b] \in Data
  BY DEF IInv, ClearLog, Coherent, Progress, Header, Entries
<1>8. RefcntExact'
  BY <1>6 DEF IInv, TypeOK, ClearLog, RefcntExact
<1>9. Coherent'
  BY <1>6, <1>7 DEF IInv, TypeOK, ClearLog, Coherent
<1> QED
  BY <1>2, <1>3, <1>4, <1>5, <1>8, <1>9 DEF IInv

\* The commit is over: no log entry is left, and the sleepers look again.
LEMMA EndCommitIInv ==
  ASSUME IInv, NEW p \in Procs, EndCommit(p) PROVE IInv'
<1>1. /\ ~Booting /\ committing /\ lh = <<>>
      /\ \A q \in Procs : pc[q] \in Commits => q = p
      /\ \A q \in Procs : pc[q] \notin Recovering
  BY ZenonT(30) DEF IInv, TypeOK, EndCommit, Modes, Booting, Counts, Header
<1>2. TypeOK'
  BY ZenonT(30) DEF IInv, TypeOK, EndCommit, Places
<1>3. Modes' /\ Distinct' /\ ~Booting' /\ ActiveCalls' = ActiveCalls
  BY <1>1 DEF IInv, TypeOK, EndCommit, Modes, Distinct, Booting, ActiveCalls
<1>4. \A q \in Procs : pc'[q] \notin Commits
  BY <1>1 DEF EndCommit
<1>5. Counts'
  BY <1>1, <1>3, <1>4 DEF IInv, TypeOK, EndCommit, Counts
<1>6. Header' /\ Progress'
  BY <1>1, <1>3, <1>4 DEF IInv, TypeOK, EndCommit, Header, Progress
<1>7. Pinned = {} /\ Pinned' = {}
  BY <1>1 DEF EndCommit, Pinned
<1>8. RefcntExact'
  BY <1>7 DEF IInv, TypeOK, EndCommit, RefcntExact
<1>9. Coherent'
  BY <1>7 DEF IInv, TypeOK, EndCommit, Coherent, Entries
<1> QED
  BY <1>2, <1>3, <1>5, <1>6, <1>8, <1>9 DEF IInv

\* A power failure forgets memory; the block it may tear is one recovery does
\* not need: a log block before the header names it, or a home location the
\* header still names.
LEMMA PowerFailureIInv ==
  ASSUME IInv, PowerFailure PROVE IInv'
<1>1. <<>> \in Seq(Blocks) /\ Len(<<>>) = 0
  OBVIOUS
<1>2. disk' \in [Blocks -> Data \cup {Torn}] /\ dlog' \in [LogIndex -> Data \cup {Torn}]
  BY ZenonT(30) DEF IInv, TypeOK, PowerFailure
<1>3. TypeOK'
  <2>1. dhead' \in Seq(Blocks) /\ Len(dhead') <= LOGBLOCKS
    BY DEF IInv, TypeOK, PowerFailure
  <2>2. lh' \in Seq(Blocks) /\ Len(lh') <= LOGBLOCKS
    BY <1>1 DEF PowerFailure
  <2>3. pc' \in [Procs -> Places]
    BY DEF PowerFailure, BootPc, Places
  <2>4. /\ cache' \in [Blocks -> Data \cup {None}]
        /\ refcnt' \in [Blocks -> Nat]
        /\ holder' \in [Blocks -> Procs \cup {None}]
    BY DEF PowerFailure
  <2>5. tail' \in [Procs -> 1..LOGBLOCKS + 1] /\ touched' \in [Procs -> SUBSET Blocks]
    BY DEF PowerFailure
  <2>6. outstanding' \in Nat /\ committing' \in BOOLEAN
    BY ZenonT(30) DEF PowerFailure
  <2> QED
    BY <1>2, <2>1, <2>2, <2>3, <2>4, <2>5, <2>6 DEF TypeOK
<1>4. Booting' /\ Modes' /\ Distinct'
  BY DEF IInv, PowerFailure, BootPc, Booting, Modes, Distinct
<1>5. ActiveCalls' = {}
  BY DEF PowerFailure, BootPc, ActiveCalls
<1>6. Counts'
  BY <1>5, FS_EmptySet DEF PowerFailure, BootPc, Counts
<1>7. \A i \in 1..Len(dhead) : dlog'[i] \in Data
  <2>1. CASE dlog' = dlog
    BY <2>1 DEF IInv, Header
  <2>2. CASE \E p \in Procs : pc[p] = "wlog"
    <3>1. ~Booting /\ \A p \in Procs : pc[p] \notin {"install", "clear"}
      BY <2>2 DEF IInv, Modes, Booting, Counts
    <3>2. dhead = <<>>
      BY <3>1 DEF IInv, Header
    <3> QED
      BY <3>2
  <2> QED
    BY <2>1, <2>2 DEF PowerFailure
<1>8. \A b \in Blocks : b \notin Entries(dhead) => disk'[b] \in Data
  <2>1. CASE disk' = disk
    BY <2>1 DEF IInv, Coherent
  <2>2. CASE \E p \in Procs :
               /\ pc[p] \in {"install", "rinstall"}
               /\ tail[p] <= Len(lh)
               /\ disk' = [disk EXCEPT ![lh[tail[p]]] = Torn]
    <3>1. PICK p \in Procs :
               /\ pc[p] \in {"install", "rinstall"}
               /\ tail[p] <= Len(lh)
               /\ disk' = [disk EXCEPT ![lh[tail[p]]] = Torn]
      BY ZenonT(30), <2>2
    <3>2. dhead = lh
      BY <3>1 DEF IInv, Header
    <3>3. lh[tail[p]] \in Entries(dhead)
      BY <3>1, <3>2 DEF IInv, TypeOK, Entries
    <3> QED
      BY <3>1, <3>3 DEF IInv, TypeOK, Coherent
  <2> QED
    BY <2>1, <2>2 DEF PowerFailure
<1>9. Header'
  BY <1>4, <1>7 DEF PowerFailure, BootPc, Header
<1>10. Progress'
  BY <1>1 DEF PowerFailure, Progress
<1>11. Pinned' = {}
  BY <1>4 DEF Pinned
<1>12. RefcntExact' /\ Coherent'
  BY <1>8, <1>11 DEF PowerFailure, RefcntExact, Coherent
<1> QED
  BY <1>3, <1>4, <1>6, <1>9, <1>10, <1>12 DEF IInv

\* A step that changes nothing preserves the invariant.
LEMMA StutterIInv ==
  ASSUME IInv, UNCHANGED vars PROVE IInv'
<1>1. UNCHANGED <<disk, dlog, dhead, cache, refcnt, holder, lh, outstanding, committing, pc,
                  tail, touched>>
  BY ZenonT(30) DEF vars
<1>2. TypeOK' /\ Distinct'
  BY <1>1 DEF IInv, TypeOK, Distinct
<1>3. Modes' /\ Counts'
  BY <1>1 DEF IInv, Modes, Counts, Booting, ActiveCalls
<1>4. Header' /\ Progress'
  BY <1>1 DEF IInv, Header, Progress, Booting, Entries
<1>5. Pinned' = Pinned
  BY <1>1 DEF Pinned, Unpinned, Booting
<1>6. RefcntExact' /\ Coherent'
  BY <1>1, <1>5 DEF IInv, RefcntExact, Coherent, Entries
<1> QED
  BY <1>2, <1>3, <1>4, <1>6 DEF IInv

\* The inductive invariant holds in every reachable state, for any number of
\* processes and blocks and any log size: log.c's bookkeeping, the pins in
\* bio.c and the contents of disk, log and cache fit together at every step
\* of begin_op, log_write, end_op, commit and recovery.
THEOREM LogInvariant == Spec => []IInv
<1>1. Init => IInv
  BY InitIInv
<1>2. IInv /\ [Next]_vars => IInv'
  <2> SUFFICES ASSUME IInv, [Next]_vars PROVE IInv'
    OBVIOUS
  <2>1. ASSUME NEW p \in Procs, Step(p) PROVE IInv'
    BY <2>1, ReadHeadIInv, InstallRecoveredIInv, RecoveredAllIInv,
       ClearRecoveredIInv, BeginOpSleepIInv, BeginOpIInv, EndOpIInv,
       CommitIInv, WriteLogIInv, WroteLogIInv, WriteHeadIInv,
       InstallTransIInv, InstalledAllIInv, ClearLogIInv, EndCommitIInv,
       BrelseIInv DEF Step
  <2>2. ASSUME NEW p \in Procs, Use(p) PROVE IInv'
    BY <2>2, SyscallIInv, BreadIInv, LogWriteIInv DEF Use
  <2> QED
    BY <2>1, <2>2, RecycleIInv, PowerFailureIInv, StutterIInv DEF Next
<1> QED
  BY <1>1, <1>2, PTL DEF Spec

\* Commits exclude calls and each other (log.c:13-16).
THEOREM CommitsAloneHolds == Spec => []CommitsAlone
<1>1. IInv => CommitsAlone
  <2> SUFFICES ASSUME IInv, NEW p \in Procs, pc[p] \in Commits,
                      NEW q \in Procs \ {p}
               PROVE  pc[q] \notin Commits \cup {"inop"}
    BY DEF CommitsAlone
  <2>1. pc[q] \notin Commits
    BY DEF IInv, Counts
  <2>2. Cardinality(ActiveCalls) = 0
    BY DEF IInv, Counts
  <2>3. q \notin ActiveCalls
    BY <2>2, ActiveFinite
  <2> QED
    BY <2>1, <2>3 DEF ActiveCalls
<1> QED
  BY <1>1, LogInvariant, PTL

\* When no call and no commit is in progress the home locations hold the
\* logical disk: what a finished commit wrote is durable.
THEOREM DurableWhenQuietHolds == Spec => []DurableWhenQuiet
<1>1. IInv => DurableWhenQuiet
  <2> SUFFICES ASSUME IInv, ~Booting, outstanding = 0, ~committing
               PROVE  dhead = <<>> /\ \A b \in Blocks : disk[b] = Contents(b)
    BY DEF DurableWhenQuiet
  <2>1. dhead = <<>> /\ lh = <<>>
    BY DEF IInv, Header, Counts
  <2>2. Pinned = {}
    BY <2>1 DEF Pinned
  <2>3. ActiveCalls = {}
    BY ActiveFinite DEF IInv, Counts
  <2>4. \A b \in Blocks : cache[b] \in {None, disk[b]}
    BY <2>2, <2>3 DEF IInv, Coherent, ActiveCalls
  <2> QED
    BY <2>1, <2>4 DEF Contents
<1> QED
  BY <1>1, LogInvariant, PTL

\* Write-ahead: a home location changes only while the header names it.
THEOREM WriteAheadHolds == Spec => WriteAhead
<1>1. IInv /\ [Next]_vars
      => [\A b \in Blocks : disk'[b] # disk[b] => b \in Entries(dhead)]_vars
  <2> SUFFICES ASSUME IInv, Next, NEW b \in Blocks, disk'[b] # disk[b]
               PROVE  b \in Entries(dhead)
    OBVIOUS
  <2>1. PICK p \in Procs :
           /\ pc[p] \in {"install", "rinstall"}
           /\ tail[p] <= Len(lh)
           /\ b = lh[tail[p]]
    BY ZenonT(30) DEF IInv, TypeOK, Next, Step, Use, ReadHead, InstallRecovered,
       RecoveredAll, ClearRecovered, Syscall, BeginOpSleep, BeginOp, Bread,
       LogWrite, Brelse, Recycle, EndOp, Commit, WriteLog, WroteLog,
       WriteHead, InstallTrans, InstalledAll, ClearLog, EndCommit,
       PowerFailure
  <2> QED
    BY <2>1 DEF IInv, TypeOK, Header, Entries
<1> QED
  BY <1>1, LogInvariant, PTL DEF Spec, WriteAhead
=============================================================================
