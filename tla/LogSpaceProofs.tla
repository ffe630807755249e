--------------------------- MODULE LogSpaceProofs ---------------------------
(***************************************************************************)
(* The space that begin_op reserves is enough: log_write and end_op do not *)
(* panic, for any number of processes and any log size, when a call logs   *)
(* fewer than MAXOPBLOCKS blocks.                                          *)
(***************************************************************************)
EXTENDS LogCommitProofs

USE SMTT(20), ZenonT(30)
USE ProcsAssumption, DataAssumption, NoneAssumption, BoundsAssumption
USE DEF Recovering, Commits, LogIndex, Goto, WakeupGoto, HoldsNone,
        diskVars, bufVars, logVars, procVars
-----------------------------------------------------------------------------
(* The invariant. *)

\* The log entries a call in progress may still need, each as a pair of its process
\* and a number.
Reserved ==
    {pk \in Procs \X (1..MAXOPBLOCKS) :
        pc[pk[1]] = "inop" /\ pk[2] > Cardinality(touched[pk[1]])}

\* What a call has logged is in the log and within its bound; and there is room for
\* all that is reserved.
SpaceInv ==
    /\ NoPanic
    /\ \A p \in Procs :
        /\ pc[p] = "inop" =>
            /\ IsFiniteSet(touched[p]) /\ Cardinality(touched[p]) <= OPBLOCKS
            /\ touched[p] \subseteq Entries(lh)
        /\ pc[p] \in {"begin", "asleep"} => touched[p] = {}
    /\ Len(lh) + Cardinality(Reserved) <= LOGBLOCKS
-----------------------------------------------------------------------------
\* Reservations are finitely many, at most MAXOPBLOCKS for each call in progress.
LEMMA ReservedBound ==
  IInv => /\ IsFiniteSet(Reserved) /\ Cardinality(Reserved) \in Nat
          /\ Cardinality(Reserved) <= outstanding * MAXOPBLOCKS
<1> SUFFICES ASSUME IInv
             PROVE  /\ IsFiniteSet(Reserved) /\ Cardinality(Reserved) \in Nat
                    /\ Cardinality(Reserved) <= outstanding * MAXOPBLOCKS
  OBVIOUS
<1>1. Reserved \in SUBSET (ActiveCalls \X (1..MAXOPBLOCKS))
  BY DEF Reserved, ActiveCalls
<1>2. IsFiniteSet(1..MAXOPBLOCKS) /\ Cardinality(1..MAXOPBLOCKS) = MAXOPBLOCKS
  BY FS_Interval
<1>3. /\ IsFiniteSet(ActiveCalls \X (1..MAXOPBLOCKS))
      /\ Cardinality(ActiveCalls \X (1..MAXOPBLOCKS)) =
            Cardinality(ActiveCalls) * MAXOPBLOCKS
  BY ZenonT(30), <1>2, ActiveFinite, FS_Product
<1>4. IsFiniteSet(Reserved)
      /\ Cardinality(Reserved) <= Cardinality(ActiveCalls \X (1..MAXOPBLOCKS))
  BY <1>1, <1>3, FS_Subset
<1>5. outstanding = Cardinality(ActiveCalls)
  BY DEF IInv, Counts
<1> QED
  BY <1>3, <1>4, <1>5, FS_CardinalityType

\* A process in a call is counted in log.outstanding, and nobody commits meanwhile.
LEMMA InOpCounted ==
  ASSUME IInv, NEW p \in Procs, pc[p] = "inop"
  PROVE  outstanding >= 1 /\ ~committing
<1>1. p \in ActiveCalls
  BY DEF ActiveCalls
<1>2. Cardinality(ActiveCalls) # 0
  BY <1>1, ActiveFinite
<1> QED
  BY <1>2, ActiveFinite DEF IInv, Counts

\* A step that starts no call, logs nothing and drops from the log only when no call
\* is in progress keeps the invariant.
LEMMA LessReserved ==
  ASSUME IInv, IInv', SpaceInv,
         \A p \in Procs :
            /\ pc'[p] = "inop" => pc[p] = "inop" /\ touched'[p] = touched[p]
            /\ pc'[p] \in {"begin", "asleep"} => touched'[p] = {}
            /\ pc'[p] # "panic",
         lh' = lh \/ \A p \in Procs : pc'[p] # "inop"
  PROVE  SpaceInv'
<1>1. NoPanic'
  BY DEF NoPanic
<1>2. CASE lh' = lh
  <2>1. Reserved' \in SUBSET Reserved
    BY DEF Reserved
  <2>2. Cardinality(Reserved') <= Cardinality(Reserved)
    BY <2>1, ReservedBound, FS_Subset
  <2>3. Cardinality(Reserved') \in Nat
    BY <2>1, ReservedBound, FS_Subset, FS_CardinalityType
  <2>4. Len(lh') + Cardinality(Reserved') <= LOGBLOCKS
    BY <1>2, <2>2, <2>3, ReservedBound DEF SpaceInv, IInv, TypeOK
  <2>5. \A p \in Procs :
          /\ pc'[p] = "inop" =>
              /\ IsFiniteSet(touched'[p]) /\ Cardinality(touched'[p]) <= OPBLOCKS
              /\ touched'[p] \subseteq Entries(lh)'
          /\ pc'[p] \in {"begin", "asleep"} => touched'[p] = {}
    BY <1>2 DEF SpaceInv, Entries
  <2> QED
    BY <1>1, <2>4, <2>5 DEF SpaceInv
<1>3. CASE \A p \in Procs : pc'[p] # "inop"
  <2>1. Reserved' = {}
    BY <1>3 DEF Reserved
  <2>2. Len(lh') + Cardinality(Reserved') <= LOGBLOCKS
    BY <2>1, FS_EmptySet DEF IInv, TypeOK
  <2> QED
    BY <1>1, <1>3, <2>2 DEF SpaceInv
<1> QED
  BY <1>2, <1>3

\* begin_op admits a call only if the log has room for it and for all others.
LEMMA BeginOpSpace ==
  ASSUME IInv, IInv', SpaceInv, NEW p \in Procs, BeginOp(p) PROVE SpaceInv'
<1>1. /\ Cardinality(Reserved') \in Nat
      /\ Cardinality(Reserved') <= outstanding' * MAXOPBLOCKS
  <2>1. (IInv => /\ Cardinality(Reserved) \in Nat
                 /\ Cardinality(Reserved) <= outstanding * MAXOPBLOCKS)'
    BY ReservedBound, PTL
  <2> QED
    BY <2>1
<1>2. Len(lh') + Cardinality(Reserved') <= LOGBLOCKS
  BY <1>1 DEF BeginOp, MustWait, IInv, TypeOK
<1>3. touched[p] = {}
  BY DEF BeginOp, SpaceInv
<1>4. IsFiniteSet({}) /\ Cardinality({}) = 0
  BY FS_EmptySet
<1>5. \A q \in Procs :
        /\ pc'[q] = "inop" =>
            /\ IsFiniteSet(touched'[q]) /\ Cardinality(touched'[q]) <= OPBLOCKS
            /\ touched'[q] \subseteq Entries(lh)'
        /\ pc'[q] \in {"begin", "asleep"} => touched'[q] = {}
  <2>1. /\ touched' = touched /\ lh' = lh /\ pc'[p] = "inop"
        /\ \A q \in Procs \ {p} : pc'[q] = pc[q]
    BY DEF BeginOp, IInv, TypeOK
  <2>2. Entries(lh)' = Entries(lh)
    BY <2>1 DEF Entries
  <2> QED
    <3> SUFFICES ASSUME NEW q \in Procs
                 PROVE  /\ pc'[q] = "inop" =>
                            /\ IsFiniteSet(touched[q])
                            /\ Cardinality(touched[q]) <= OPBLOCKS
                            /\ touched[q] \subseteq Entries(lh)
                        /\ pc'[q] \in {"begin", "asleep"} => touched[q] = {}
      BY <2>1, <2>2
    <3>1. CASE q = p
      BY <1>3, <1>4, <2>1, <3>1
    <3>2. CASE q # p
      BY <2>1, <3>2 DEF SpaceInv
    <3> QED
      BY <3>1, <3>2
<1>6. NoPanic'
  BY DEF BeginOp, SpaceInv, NoPanic, IInv, TypeOK
<1> QED
  BY <1>2, <1>5, <1>6 DEF SpaceInv

\* log_write takes one of its call's reservations when it appends a block.
LEMMA LogWriteSpace ==
  ASSUME OPBLOCKS < MAXOPBLOCKS,
         IInv, IInv', SpaceInv,
         NEW p \in Procs, NEW b \in Blocks, NEW v \in Data, LogWrite(p, b, v)
  PROVE  SpaceInv'
<1> DEFINE n == Cardinality(touched[p])
           last == <<p, MAXOPBLOCKS>>
<1>1. IsFiniteSet(touched[p]) /\ n \in Nat /\ n <= OPBLOCKS
  BY FS_CardinalityType DEF LogWrite, SpaceInv
<1>2. /\ IsFiniteSet(touched[p] \cup {b})
      /\ Cardinality(touched[p] \cup {b}) = IF b \in touched[p] THEN n ELSE n + 1
  BY ZenonT(30), <1>1, FS_AddElement
<1>3. last \in Reserved
  BY <1>1 DEF Reserved, LogWrite
<1>4. Cardinality(Reserved) # 0
  BY <1>3, ReservedBound, FS_EmptySet
<1>5. Len(lh) < LOGBLOCKS /\ outstanding >= 1
  BY <1>4, ReservedBound, InOpCounted DEF LogWrite, SpaceInv, IInv, TypeOK
<1>6. /\ pc' = pc
      /\ touched' = [touched EXCEPT ![p] = @ \cup {b}]
      /\ lh' = IF b \in Entries(lh) THEN lh ELSE Append(lh, b)
  BY <1>5 DEF LogWrite, IInv, TypeOK
<1>7. Entries(lh)' = Entries(lh) \cup {b}
  <2>1. CASE b \in Entries(lh)
    BY <1>6, <2>1 DEF Entries
  <2>2. CASE b \notin Entries(lh)
    <3>1. /\ Len(lh') = Len(lh) + 1 /\ lh'[Len(lh) + 1] = b
          /\ \A k \in 1..Len(lh) : lh'[k] = lh[k]
      BY <1>6, <2>2, AppendBlock DEF IInv, TypeOK
    <3>2. 1..Len(lh') = (1..Len(lh)) \cup {Len(lh) + 1}
      BY <3>1 DEF IInv, TypeOK
    <3> QED
      BY <3>1, <3>2 DEF Entries
  <2> QED
    BY <2>1, <2>2
<1>8. Len(lh') + Cardinality(Reserved') <= LOGBLOCKS
  <2>1. CASE b \in touched[p]
    <3>1. touched' = touched /\ lh' = lh
      BY <1>6, <2>1 DEF SpaceInv, LogWrite, IInv, TypeOK
    <3>2. Reserved' = Reserved
      BY ZenonT(30), <1>6, <3>1 DEF Reserved
    <3> QED
      BY <3>1, <3>2 DEF SpaceInv
  <2>2. CASE b \notin touched[p]
    <3>1. Reserved' = Reserved \ {<<p, n + 1>>}
      <4>1. /\ Cardinality(touched'[p]) = n + 1
            /\ \A q \in Procs \ {p} : touched'[q] = touched[q]
        BY <1>2, <1>6, <2>2 DEF IInv, TypeOK
      <4>2. ASSUME NEW pk \in Procs \X (1..MAXOPBLOCKS)
            PROVE  pk \in Reserved' <=> pk \in Reserved /\ pk # <<p, n + 1>>
        <5>1. CASE pk[1] = p
          <6>1. pk = <<p, pk[2]>> /\ pk[2] \in 1..MAXOPBLOCKS
            BY <5>1
          <6>2. pk # <<p, n + 1>> <=> pk[2] # n + 1
            BY <6>1
          <6>3. pk \in Reserved <=> pc[p] = "inop" /\ pk[2] > n
            BY <5>1 DEF Reserved
          <6>4. pk \in Reserved' <=> pc[p] = "inop" /\ pk[2] > n + 1
            BY ZenonT(30), <1>6, <4>1, <5>1 DEF Reserved
          <6> QED
            BY <1>1, <6>1, <6>2, <6>3, <6>4
        <5>2. CASE pk[1] # p
          BY <1>6, <4>1, <5>2 DEF Reserved
        <5> QED
          BY <5>1, <5>2
      <4>3. Reserved \subseteq Procs \X (1..MAXOPBLOCKS)
            /\ Reserved' \subseteq Procs \X (1..MAXOPBLOCKS)
        BY DEF Reserved
      <4> QED
        BY <4>2, <4>3
    <3>2. <<p, n + 1>> \in Reserved
      BY <1>1 DEF Reserved, LogWrite
    <3>3. Cardinality(Reserved') = Cardinality(Reserved) - 1
      <4>1. IsFiniteSet(Reserved)
        BY ReservedBound
      <4>2. ASSUME NEW x \in Reserved PROVE Cardinality(Reserved \ {x}) = Cardinality(Reserved) - 1
        BY ZenonT(30), <4>1, FS_RemoveElement
      <4> QED
        BY ZenonT(30), <3>1, <3>2, <4>2
    <3>4. Len(lh') <= Len(lh) + 1 /\ Len(lh') \in Nat
      BY <1>6, AppendBlock DEF IInv, TypeOK
    <3>5. Cardinality(Reserved) \in Nat /\ Len(lh) \in Nat
      BY ReservedBound DEF IInv, TypeOK
    <3> QED
      BY <3>3, <3>4, <3>5 DEF SpaceInv
  <2> QED
    BY <2>1, <2>2
<1>9. \A q \in Procs :
        /\ pc'[q] = "inop" =>
            /\ IsFiniteSet(touched'[q]) /\ Cardinality(touched'[q]) <= OPBLOCKS
            /\ touched'[q] \subseteq Entries(lh)'
        /\ pc'[q] \in {"begin", "asleep"} => touched'[q] = {}
  BY <1>2, <1>6, <1>7 DEF LogWrite, SpaceInv, IInv, TypeOK
<1>10. NoPanic'
  BY <1>6 DEF SpaceInv, NoPanic
<1> QED
  BY <1>8, <1>9, <1>10 DEF SpaceInv

\* Recovery: nobody is in a call.
LEMMA RecoverySpace ==
  ASSUME IInv, IInv', SpaceInv, NEW p \in Procs,
         ReadHead(p) \/ InstallRecovered(p) \/ RecoveredAll(p) \/ ClearRecovered(p)
  PROVE  SpaceInv'
<1>1. Booting /\ \A q \in Procs : pc[q] \in Recovering \cup {"off"}
  BY DEF ReadHead, InstallRecovered, RecoveredAll, ClearRecovered, IInv, TypeOK, Modes,
         Booting
<1>2. \A q \in Procs : pc'[q] \in Recovering \cup {"off", "idle"}
  BY <1>1 DEF ReadHead, InstallRecovered, RecoveredAll, ClearRecovered, IInv, TypeOK
<1> QED
  BY <1>2, LessReserved

\* Entering a call, waiting in begin_op, reading and releasing buffers reserve nothing;
\* end_op gives back what its call did not need.
LEMMA CallSpace ==
  ASSUME IInv, IInv', SpaceInv, NEW p \in Procs,
         \/ Syscall(p) \/ BeginOpSleep(p) \/ EndOp(p)
         \/ \E b \in Blocks : Bread(p, b) \/ Brelse(p, b)
  PROVE  SpaceInv'
<1>1. CASE Syscall(p) \/ BeginOpSleep(p)
  BY <1>1, LessReserved DEF Syscall, BeginOpSleep, SpaceInv, NoPanic, IInv, TypeOK
<1>2. CASE EndOp(p)
  <2>1. ~committing
    BY <1>2, InOpCounted DEF EndOp
  <2>2. lh' = lh /\ touched' = touched
    BY <1>2 DEF EndOp
  <2>3. \A q \in Procs :
          \/ pc'[q] = pc[q]
          \/ pc'[q] \in {"commit", "idle"}
          \/ /\ pc[q] = "asleep"
             /\ pc'[q] = "begin"
    <3>1. CASE outstanding = 1
      <4>1. pc' = [pc EXCEPT ![p] = "commit"]
        BY <1>2, <2>1, <3>1 DEF EndOp
      <4> QED
        BY <4>1 DEF IInv, TypeOK
    <3>2. CASE outstanding # 1
      <4>1. pc' = [q \in Procs |-> IF q = p THEN "idle"
                                  ELSE IF pc[q] = "asleep" THEN "begin" ELSE pc[q]]
        BY <1>2, <2>1, <3>2 DEF EndOp
      <4> QED
        BY <4>1
    <3> QED
      BY <3>1, <3>2
  <2>4. \A q \in Procs : pc[q] # "panic"
    BY DEF SpaceInv, NoPanic
  <2>5. \A q \in Procs :
          /\ pc'[q] = "inop" => pc[q] = "inop" /\ touched'[q] = touched[q]
          /\ pc'[q] \in {"begin", "asleep"} => touched'[q] = {}
          /\ pc'[q] # "panic"
    BY <2>2, <2>3, <2>4 DEF SpaceInv
  <2> QED
    BY <2>2, <2>5, LessReserved
<1>3. CASE \E b \in Blocks : Bread(p, b) \/ Brelse(p, b)
  BY ZenonT(30), <1>3, LessReserved DEF Bread, Brelse, SpaceInv, NoPanic, IInv, TypeOK
<1> QED
  BY <1>1, <1>2, <1>3

\* A commit: nobody is in a call, so clearing the log takes nothing from anybody.
LEMMA CommitSpace ==
  ASSUME IInv, IInv', SpaceInv, NEW p \in Procs,
         \/ Commit(p) \/ WriteLog(p) \/ WroteLog(p) \/ WriteHead(p)
         \/ InstallTrans(p) \/ InstalledAll(p) \/ ClearLog(p) \/ EndCommit(p)
  PROVE  SpaceInv'
<1>1. pc[p] \in Commits
  BY DEF Commit, WriteLog, WroteLog, WriteHead, InstallTrans, InstalledAll, ClearLog,
         EndCommit
<1>2. \A q \in Procs : pc[q] # "inop"
  BY ZenonT(30), <1>1, InOpCounted DEF IInv, Counts
<1>3. \A q \in Procs : pc'[q] # "inop" /\ pc'[q] # "panic"
  BY ZenonT(30), <1>2 DEF Commit, WriteLog, WroteLog, WriteHead, InstallTrans, InstalledAll, ClearLog,
              EndCommit, SpaceInv, NoPanic, IInv, TypeOK
<1>4. \A q \in Procs : pc'[q] \in {"begin", "asleep"} => touched'[q] = {}
  BY ZenonT(30) DEF Commit, WriteLog, WroteLog, WriteHead, InstallTrans, InstalledAll, ClearLog,
         EndCommit, SpaceInv, IInv, TypeOK
<1> QED
  BY ZenonT(30), <1>3, <1>4, LessReserved

\* Recycling a buffer, a power failure and a step that changes nothing.
LEMMA OtherSpace ==
  ASSUME IInv, IInv', SpaceInv,
         (\E b \in Blocks : Recycle(b)) \/ PowerFailure \/ UNCHANGED vars
  PROVE  SpaceInv'
<1>1. CASE (\E b \in Blocks : Recycle(b)) \/ UNCHANGED vars
  BY <1>1, LessReserved DEF Recycle, vars, SpaceInv, NoPanic
<1>2. CASE PowerFailure
  BY <1>2, LessReserved DEF PowerFailure, BootPc
<1> QED
  BY <1>1, <1>2

\* For any number of processes and any log size, calls that log fewer than MAXOPBLOCKS
\* blocks each never fill the log: log_write and end_op do not panic.
THEOREM SpaceSuffices ==
  ASSUME OPBLOCKS < MAXOPBLOCKS PROVE Spec => []NoPanic
<1>1. Init => SpaceInv
  <2> SUFFICES ASSUME Init PROVE SpaceInv
    OBVIOUS
  <2>1. Reserved = {}
    BY DEF Init, BootPc, Reserved
  <2> QED
    BY <2>1, FS_EmptySet DEF Init, BootPc, SpaceInv, NoPanic
<1>2. IInv /\ IInv' /\ SpaceInv /\ [Next]_vars => SpaceInv'
  <2> SUFFICES ASSUME IInv, IInv', SpaceInv, [Next]_vars PROVE SpaceInv'
    OBVIOUS
  <2>1. ASSUME NEW p \in Procs, Step(p) PROVE SpaceInv'
    BY <2>1, RecoverySpace, CallSpace, BeginOpSpace, CommitSpace DEF Step
  <2>2. ASSUME NEW p \in Procs, Use(p) PROVE SpaceInv'
    BY <2>2, CallSpace, LogWriteSpace DEF Use
  <2> QED
    BY <2>1, <2>2, OtherSpace DEF Next
<1>3. SpaceInv => NoPanic
  BY DEF SpaceInv
<1> QED
  BY <1>1, <1>2, <1>3, LogInvariant, PTL DEF Spec
=============================================================================
