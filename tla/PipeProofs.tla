----------------------------- MODULE PipeProofs -----------------------------
(***************************************************************************)
(* The pipe, for any number of processes, any size of its buffer and any   *)
(* width of its counters that is a multiple of that size: it is a bounded  *)
(* queue of bytes, its page is freed when nobody can use it any more and   *)
(* not before, and a writer sleeps only on a full pipe.                    *)
(***************************************************************************)
EXTENDS Pipe, FiniteSetTheorems, TLAPS

USE SMTT(20), ZenonT(30)
USE CreatorAssumption
-----------------------------------------------------------------------------
(* The inductive invariant. *)

\* The places at which a process holds pi->lock.
Locked == {"wloop", "wfull", "rloop", "rempty"}

\* pi->lock belongs to the process that is between its acquire and its release.
LockInv == \A p \in Procs : pc[p] \in Locked <=> lock = p

\* f->ref is the number of descriptors.
RefInv ==
    \A e \in Ends : IsFiniteSet(holds[e]) /\ ref[e] = Cardinality(holds[e])

\* The places that need a descriptor of an end.
Using(e) == IF e = "read" THEN Reading ELSE Writing

\* Who reads or writes has the descriptor for it.
HoldInv ==
    \A p \in Procs, e \in Ends :
        /\ pc[p] \in Using(e) => p \in holds[e]
        /\ pc[p] = "none" => p \notin holds[e]

\* Nobody has a descriptor for the end, and p is on its way to pipeclose().
Unheld(e) == holds[e] = {}
Closes(p, e) == pc[p] = Closing(e)

\* An end without descriptors is closed, or one process is about to close it.
\* The page is freed exactly when both ends are closed.
OpenInv ==
    /\ \A p \in Procs, e \in Ends : Closes(p, e) => open[e] /\ Unheld(e)
    /\ \A p, q \in Procs, e \in Ends : Closes(p, e) /\ Closes(q, e) => p = q
    /\ \A e \in Ends : Unheld(e) <=> ~open[e] \/ \E p \in Procs : Closes(p, e)
    /\ freed <=> ~open["read"] /\ ~open["write"]

\* A writer that sleeps, or is about to, found the pipe full.
FullInv ==
    \A p \in Procs : pc[p] \in {"wfull", "wsleep"} => Full /\ open["read"]

\* The inductive invariant.
PipeInv == TypeOK /\ LockInv /\ RefInv /\ HoldInv /\ OpenInv /\ FullInv

\* Without kills: a reader that sleeps, or is about to, found the pipe empty, or
\* a writer is filling it and will wake the readers.
EmptyInv ==
    /\ \A p \in Procs : ~killed[p]
    /\ \A p \in Procs : pc[p] \in {"rempty", "rsleep"} =>
        /\ open["write"]
        /\ Empty \/ \E q \in Procs : lock = q /\ pc[q] \in {"wloop", "wfull"}
-----------------------------------------------------------------------------
(* The counters: arithmetic modulo UINTS, indices modulo PIPESIZE. *)

Counters == nread \in 0..UINTS - 1 /\ nwrite \in 0..UINTS - 1

\* The remainder of a division by n.
LEMMA ModRange ==
  ASSUME NEW n \in Nat \ {0}, NEW x \in Int PROVE x % n \in 0..n - 1
OBVIOUS

\* Every number is a multiple of n and a remainder.
LEMMA ModQuotient ==
  ASSUME NEW n \in Nat \ {0}, NEW x \in Int PROVE \E k \in Int : x = k * n + (x % n)
<1>1. x = (x \div n) * n + (x % n) /\ x \div n \in Int
  OBVIOUS
<1> QED
  BY ZenonT(30), <1>1

\* In one way only.
LEMMA ModUnique ==
  ASSUME NEW n \in Nat \ {0}, NEW r \in 0..n - 1, NEW k \in Int PROVE (k * n + r) % n = r
OBVIOUS

\* Multiples of n do not change the remainder.
LEMMA ModShift ==
  ASSUME NEW n \in Nat \ {0}, NEW x \in Int, NEW k \in Int PROVE (k * n + x) % n = x % n
<1>1. PICK j \in Int : x = j * n + (x % n)
  BY ZenonT(30), ModQuotient
<1>2. k * n + x = (k + j) * n + (x % n)
  BY <1>1
<1>3. x % n \in 0..n - 1 /\ k + j \in Int
  BY ModRange
<1>4. ((k + j) * n + (x % n)) % n = x % n
  BY <1>3, ModUnique
<1> QED
  BY <1>2, <1>4

\* The constants, without what is said of their quotient.
LEMMA Sizes ==
  PIPESIZE \in Nat \ {0} /\ UINTS \in Nat \ {0} /\ MaxN \in Nat /\ UINTS > PIPESIZE
BY SizeAssumption

\* The number of values of a uint is a multiple of the buffer's size.
LEMMA Multiple ==
  \E k \in Nat \ {0} : UINTS = k * PIPESIZE
<1> USE Sizes
<1>0. UINTS \in Int /\ PIPESIZE \in Nat \ {0}
  OBVIOUS
<1>1. PICK k \in Int : UINTS = k * PIPESIZE + (UINTS % PIPESIZE)
  <2> HIDE Sizes
  <2> QED
    BY ZenonT(30), <1>0, ModQuotient
<1>2. UINTS = k * PIPESIZE
  BY <1>1, SizeAssumption
<1>3. k > 0
  <2> SUFFICES ASSUME k <= 0 PROVE FALSE
    OBVIOUS
  <2>1. k * PIPESIZE <= 0
    OBVIOUS
  <2> QED
    BY <1>2, <2>1
<1> QED
  BY <1>2, <1>3

\* Counters are reduced once at most.
LEMMA ModOnce ==
  /\ \A x \in 0..UINTS - 1 : x % UINTS = x
  /\ \A x \in UINTS..2 * UINTS - 1 : x % UINTS = x - UINTS
  /\ \A x \in -UINTS..-1 : x % UINTS = x + UINTS
<1> USE Sizes
<1>1. ASSUME NEW x \in 0..UINTS - 1 PROVE x % UINTS = x
  OBVIOUS
<1>2. ASSUME NEW x \in UINTS..2 * UINTS - 1 PROVE x % UINTS = x - UINTS
  OBVIOUS
<1>3. ASSUME NEW x \in -UINTS..-1 PROVE x % UINTS = x + UINTS
  OBVIOUS
<1> QED
  BY <1>1, <1>2, <1>3

\* The index into pi->data of a counter that wraps at UINTS is the one of the
\* counter that does not: PIPESIZE divides UINTS.
LEMMA WrapIndex ==
  ASSUME NEW x \in Int, NEW k \in Int PROVE ((x % UINTS) + k) % PIPESIZE = (x + k) % PIPESIZE
<1> USE Sizes
<1>1. PICK m \in Nat \ {0} : UINTS = m * PIPESIZE
  BY Multiple
<1>2. PICK d \in Int : x = d * UINTS + (x % UINTS)
  BY ZenonT(30), ModQuotient
<1>3. x % UINTS \in Int
  BY ModRange
<1>4. x + k = (d * m) * PIPESIZE + ((x % UINTS) + k)
  <2>1. d * UINTS = (d * m) * PIPESIZE
    BY <1>1
  <2> HIDE <1>1
  <2>2. d * UINTS \in Int
    OBVIOUS
  <2> QED
    BY <1>2, <1>3, <2>1, <2>2
<1>5. d * m \in Int /\ (x % UINTS) + k \in Int
  BY <1>3
<1>6. ASSUME NEW a \in Int, NEW y \in Int PROVE (a * PIPESIZE + y) % PIPESIZE = y % PIPESIZE
  BY ZenonT(30), ModShift
<1>7. ((d * m) * PIPESIZE + ((x % UINTS) + k)) % PIPESIZE = ((x % UINTS) + k) % PIPESIZE
  BY ZenonT(30), <1>5, <1>6
<1> QED
  BY ZenonT(30), <1>4, <1>7

\* Two counters less than PIPESIZE apart have different indices.
LEMMA WindowIndex ==
  ASSUME NEW x \in Int, NEW y \in Int, x < y, y < x + PIPESIZE
  PROVE  x % PIPESIZE # y % PIPESIZE
<1> USE Sizes
<1> SUFFICES ASSUME x % PIPESIZE = y % PIPESIZE PROVE FALSE
  OBVIOUS
<1>1. PICK k \in Int : x = k * PIPESIZE + (x % PIPESIZE)
  BY ZenonT(30), ModQuotient
<1>2. PICK m \in Int : y = m * PIPESIZE + (y % PIPESIZE)
  BY ZenonT(30), ModQuotient
<1>3. x % PIPESIZE \in Int
  BY ModRange
<1>4. y - x = (m - k) * PIPESIZE
  BY <1>1, <1>2, <1>3
<1>5. m - k >= 1
  <2> SUFFICES ASSUME m - k <= 0 PROVE FALSE
    OBVIOUS
  <2>1. (m - k) * PIPESIZE <= 0
    OBVIOUS
  <2> QED
    BY <1>4, <2>1
<1>6. (m - k) * PIPESIZE >= PIPESIZE
  BY <1>5
<1> QED
  BY <1>4, <1>6

\* nwrite - nread in uint arithmetic is the number of bytes in the pipe, and the
\* code's tests for an empty and a full pipe are about that number.
LEMMA UsedFacts ==
  ASSUME Counters
  PROVE  /\ Used \in 0..UINTS - 1
         /\ Used = IF nread <= nwrite THEN nwrite - nread ELSE nwrite - nread + UINTS
         /\ Empty <=> Used = 0
         /\ Full <=> Used = PIPESIZE
<1> USE Sizes DEF Counters
<1>1. Used = IF nread <= nwrite THEN nwrite - nread ELSE nwrite - nread + UINTS
  <2>1. CASE nread <= nwrite
    BY <2>1, ModOnce DEF Used
  <2>2. CASE ~(nread <= nwrite)
    <3>1. nwrite - nread \in -UINTS..-1
      BY <2>2
    <3> QED
      BY <2>2, <3>1, ModOnce DEF Used
  <2> QED
    BY <2>1, <2>2
<1>2. Used \in 0..UINTS - 1
  BY <1>1
<1>3. Empty <=> Used = 0
  BY <1>1 DEF Empty
<1>4. Full <=> Used = PIPESIZE
  <2>1. CASE nread + PIPESIZE < UINTS
    <3>1. (nread + PIPESIZE) % UINTS = nread + PIPESIZE
      BY <2>1, ModOnce
    <3> QED
      BY <1>1, <2>1, <3>1 DEF Full
  <2>2. CASE nread + PIPESIZE >= UINTS
    <3>1. (nread + PIPESIZE) % UINTS = nread + PIPESIZE - UINTS
      <4>1. nread + PIPESIZE \in UINTS..2 * UINTS - 1
        BY <2>2
      <4> QED
        BY <4>1, ModOnce
    <3> QED
      BY <1>1, <2>2, <3>1 DEF Full
  <2> QED
    BY <2>1, <2>2
<1> QED
  BY <1>1, <1>2, <1>3, <1>4

\* What UsedFacts says of the number, after a step.
LEMMA UsedNext ==
  ASSUME Counters'
  PROVE  Used' = IF nread' <= nwrite' THEN nwrite' - nread' ELSE nwrite' - nread' + UINTS
<1>1. (Counters => Used = IF nread <= nwrite THEN nwrite - nread ELSE nwrite - nread + UINTS)'
  BY UsedFacts, PTL
<1> QED
  BY <1>1

\* A byte goes into a pipe that is not full: there is one more, and there was
\* room for it.
LEMMA UsedPut ==
  ASSUME Counters, Used <= PIPESIZE, ~Full,
         nwrite' = (nwrite + 1) % UINTS, nread' = nread
  PROVE  Counters' /\ Used' = Used + 1 /\ Used < PIPESIZE
<1> USE UsedNext, Sizes DEF Counters
<1>1. Used < PIPESIZE
  BY UsedFacts
<1>2. CASE nwrite + 1 < UINTS
  <2>1. nwrite' = nwrite + 1
    BY <1>2, ModOnce
  <2> QED
    BY <1>1, <1>2, <2>1, UsedFacts
<1>3. CASE nwrite + 1 = UINTS
  <2>1. nwrite' = 0
    <3>1. nwrite + 1 \in UINTS..2 * UINTS - 1
      BY <1>3
    <3> QED
      BY <1>3, <3>1, ModOnce
  <2> QED
    BY <1>1, <1>3, <2>1, UsedFacts
<1> QED
  BY <1>2, <1>3

\* n bytes are read: there are n fewer.
LEMMA UsedTake ==
  ASSUME Counters, NEW n \in 0..Used,
         nread' = (nread + n) % UINTS, nwrite' = nwrite
  PROVE  Counters' /\ Used' = Used - n
<1> USE UsedNext, Sizes DEF Counters
<1>1. n \in Nat /\ n <= Used /\ Used < UINTS /\ Used \in Nat
  BY UsedFacts
<1>2. CASE nread + n < UINTS
  <2>1. nread' = nread + n
    BY <1>1, <1>2, ModOnce
  <2> QED
    BY <1>1, <1>2, <2>1, UsedFacts
<1>3. CASE nread + n >= UINTS
  <2>1. nread' = nread + n - UINTS
    <3>1. nread + n \in UINTS..2 * UINTS - 1
      <4> HIDE UsedNext
      <4> QED
        BY <1>1, <1>3
    <3> QED
      BY <3>1, ModOnce
  <2> QED
    BY <1>1, <1>3, <2>1, UsedFacts
<1> QED
  BY <1>1, <1>2, <1>3

-----------------------------------------------------------------------------
(* Every conjunct of the invariant is preserved by every action. *)

\* A step with a wakeup moves its process, and moves the sleepers it wakes.
LEMMA ReadersMove ==
  ASSUME TypeOK, NEW p \in Procs, NEW place, WakeReaders(p, place)
  PROVE  /\ pc'[p] = place
         /\ \A q \in Procs \ {p} : pc'[q] = IF pc[q] = "rsleep" THEN "rwoken" ELSE pc[q]
BY DEF WakeReaders, WakeupGoto, TypeOK

LEMMA WritersMove ==
  ASSUME TypeOK, NEW p \in Procs, NEW place, WakeWriters(p, place)
  PROVE  /\ pc'[p] = place
         /\ \A q \in Procs \ {p} : pc'[q] = IF pc[q] = "wsleep" THEN "wwoken" ELSE pc[q]
BY DEF WakeWriters, WakeupGoto, TypeOK

\* Every step keeps the types, and the buffer holds PIPESIZE bytes at most.
LEMMA TypeStep ==
  ASSUME TypeOK, RefInv, Next PROVE TypeOK'
<1> USE Sizes DEF Goto, Release, pipeVars, fileVars
<1>0. Counters /\ Used <= PIPESIZE
  BY DEF TypeOK, Counters
<1>1. Counters' /\ (Used <= PIPESIZE)' /\ data' \in [0..PIPESIZE - 1 -> Byte]
  <2>1. CASE UNCHANGED <<data, nread, nwrite>>
    BY <2>1 DEF TypeOK, Counters, Used
  <2>2. ASSUME NEW p \in Procs, WriteByte(p)
        PROVE  Counters' /\ (Used <= PIPESIZE)' /\ data' \in [0..PIPESIZE - 1 -> Byte]
    <3>1. Counters' /\ Used' = Used + 1 /\ Used < PIPESIZE
      BY <1>0, <2>2, UsedPut DEF WriteByte
    <3>2. Used \in Nat
      BY <1>0, UsedFacts
    <3>3. data' \in [0..PIPESIZE - 1 -> Byte]
      BY <2>2 DEF WriteByte, TypeOK
    <3> QED
      BY <3>1, <3>2, <3>3
  <2>3. ASSUME NEW p \in Procs, ReadCopy(p)
        PROVE  Counters' /\ (Used <= PIPESIZE)' /\ data' \in [0..PIPESIZE - 1 -> Byte]
    <3>0. Used \in Nat
      BY <1>0, UsedFacts
    <3>1. PICK n \in Nat : n <= Used /\ nread' = (nread + n) % UINTS /\ nwrite' = nwrite
      BY <2>3 DEF ReadCopy, TypeOK
    <3>2. Counters' /\ Used' = Used - n
      BY <1>0, <3>0, <3>1, UsedTake
    <3> QED
      BY <1>0, <2>3, <3>0, <3>1, <3>2 DEF ReadCopy, TypeOK
  <2> QED
    BY <2>1, <2>2, <2>3 DEF Next, Fork, FileClose, PipeClose, Exit, Kill, WriteLock, WriteFail,
       WriteFull, WriteSleep, WriteDone, ReadLock, ReadKilled, ReadEmpty, ReadSleep
<1>2. open' \in [Ends -> BOOLEAN]
  <2>1. open' = open \/ \E p \in Procs, e \in Ends : PipeClose(p, e)
    BY ZenonT(30) DEF Next, Fork, FileClose, Exit, Kill, WriteLock, WriteFail, WriteFull,
       WriteSleep, WriteByte, WriteDone, ReadLock, ReadKilled, ReadEmpty, ReadSleep, ReadCopy
  <2>2. CASE open' = open
    BY ZenonT(30), <2>2 DEF TypeOK
  <2>3. ASSUME NEW p \in Procs, NEW e \in Ends, PipeClose(p, e) PROVE open' \in [Ends -> BOOLEAN]
    BY ZenonT(30), <2>3 DEF TypeOK, PipeClose
  <2> QED
    BY ZenonT(30), <2>1, <2>2, <2>3
<1>3. freed' \in BOOLEAN
  BY Zenon DEF TypeOK, Next, Fork, FileClose, PipeClose, Exit, Kill, WriteLock, WriteFail,
       WriteFull, WriteSleep, WriteByte, WriteDone, ReadLock, ReadKilled, ReadEmpty, ReadSleep,
       ReadCopy
<1>4. killed' \in [Procs -> BOOLEAN]
  <2>1. CASE killed' = killed
    BY <2>1 DEF TypeOK
  <2>2. ASSUME NEW p \in Procs, Exit(p) \/ Kill(p) PROVE killed' \in [Procs -> BOOLEAN]
    BY ZenonT(30), <2>2 DEF Exit, Kill, TypeOK
  <2> QED
    BY <2>1, <2>2 DEF Next, Fork, FileClose, PipeClose, WriteLock, WriteFail,
       WriteFull, WriteSleep, WriteByte, WriteDone, ReadLock, ReadKilled, ReadEmpty, ReadSleep,
       ReadCopy
<1>5. lock' \in Procs \cup {None}
  BY DEF TypeOK, Next, Fork, FileClose, PipeClose, Exit, Kill, WriteLock, WriteFail,
       WriteFull, WriteSleep, WriteByte, WriteDone, ReadLock, ReadKilled, ReadEmpty, ReadSleep,
       ReadCopy
<1>6. ref' \in [Ends -> Nat] /\ holds' \in [Ends -> SUBSET Procs]
  <2>1. CASE UNCHANGED fileVars
    BY <2>1 DEF TypeOK
  <2>2. ASSUME NEW p \in Procs, NEW q \in Procs, Fork(p, q)
        PROVE  ref' \in [Ends -> Nat] /\ holds' \in [Ends -> SUBSET Procs]
    BY <2>2 DEF Fork, TypeOK
  <2>3. ASSUME NEW p \in Procs, NEW e \in Ends, FileClose(p, e)
        PROVE  ref' \in [Ends -> Nat] /\ holds' \in [Ends -> SUBSET Procs]
    <3>1. ref[e] # 0
      BY <2>3, FS_EmptySet DEF FileClose, RefInv
    <3> QED
      BY <2>3, <3>1 DEF FileClose, TypeOK
  <2> QED
    BY <2>1, <2>2, <2>3 DEF Next, PipeClose, Exit, Kill, WriteLock, WriteFail,
       WriteFull, WriteSleep, WriteByte, WriteDone, ReadLock, ReadKilled, ReadEmpty, ReadSleep,
       ReadCopy
<1>7. left' \in [Procs -> 0..MaxN]
  BY DEF TypeOK, Next, Fork, FileClose, PipeClose, Exit, Kill, WriteLock, WriteFail,
       WriteFull, WriteSleep, WriteByte, WriteDone, ReadLock, ReadKilled, ReadEmpty, ReadSleep,
       ReadCopy
<1>8. pc' \in [Procs -> Places]
  <2>1. ASSUME NEW p \in Procs, NEW place \in Places, Goto(p, place)
        PROVE  pc' \in [Procs -> Places]
    BY <2>1 DEF TypeOK
  <2>2. ASSUME NEW p \in Procs, NEW place \in Places, NEW from, NEW woken \in Places,
               WakeupGoto(p, from, woken, place)
        PROVE  pc' \in [Procs -> Places]
    BY <2>2 DEF TypeOK, WakeupGoto
  <2>3. ASSUME NEW p \in Procs, Kill(p) PROVE pc' \in [Procs -> Places]
    BY <2>3 DEF Kill, TypeOK, Places, Reading, Writing
  <2>4. ASSUME NEW p \in Procs, PipeClose(p, "read") \/ PipeClose(p, "write")
        PROVE  pc' \in [Procs -> Places]
    <3>1. WakeReaders(p, "user") \/ WakeWriters(p, "user")
      BY <2>4 DEF PipeClose
    <3> QED
      BY <2>2, <3>1 DEF WakeReaders, WakeWriters, Places, Reading, Writing
  <2>5. ASSUME NEW p \in Procs, WriteSleep(p) \/ WriteDone(p) \/ ReadCopy(p)
        PROVE  pc' \in [Procs -> Places]
    BY <2>2, <2>5 DEF WriteSleep, WriteDone, ReadCopy, WakeReaders, WakeWriters, Places,
       Reading, Writing
  <2>6. ASSUME NEW p \in Procs, NEW e \in Ends, FileClose(p, e)
        PROVE  pc' \in [Procs -> Places]
    BY <2>6 DEF FileClose, Closing, Places, TypeOK
  <2>7. ASSUME NEW p \in Procs, NEW q \in Procs, Fork(p, q) PROVE pc' \in [Procs -> Places]
    BY <2>7 DEF Fork, Places, TypeOK
  <2>8. ASSUME NEW p \in Procs,
               \/ Exit(p) \/ WriteLock(p) \/ WriteFail(p) \/ WriteFull(p) \/ WriteByte(p)
               \/ ReadLock(p) \/ ReadKilled(p) \/ ReadEmpty(p) \/ ReadSleep(p)
        PROVE  pc' \in [Procs -> Places]
    BY ZenonT(30), <2>8 DEF Exit, WriteLock, WriteFail, WriteFull, WriteByte, ReadLock, ReadKilled,
       ReadEmpty, ReadSleep, Places, Reading, Writing, TypeOK
  <2> QED
    BY <2>3, <2>4, <2>5, <2>6, <2>7, <2>8 DEF Next, Ends
<1> QED
  BY <1>1, <1>2, <1>3, <1>4, <1>5, <1>6, <1>7, <1>8 DEF TypeOK, Counters

\* pi->lock is held from the loops' first look at the pipe to the sleep or the
\* return.
LEMMA LockStep ==
  ASSUME TypeOK, LockInv, Next PROVE LockInv'
<1> USE DEF TypeOK, LockInv, Locked, Goto, Release
<1>1. ASSUME NEW p \in Procs, NEW q \in Procs, Fork(p, q) PROVE LockInv'
  BY <1>1 DEF Fork
<1>2. ASSUME NEW p \in Procs, NEW e \in Ends, FileClose(p, e) PROVE LockInv'
  BY <1>2 DEF FileClose, Closing
<1>3. ASSUME NEW p \in Procs, NEW e \in Ends, PipeClose(p, e) PROVE LockInv'
  <2>1. lock = None /\ lock' = None /\ (WakeReaders(p, "user") \/ WakeWriters(p, "user"))
    BY <1>3 DEF PipeClose
  <2>2. \A q \in Procs \ {p} : pc'[q] \in {pc[q], "rwoken", "wwoken"}
    BY <2>1, ReadersMove, WritersMove
  <2>3. pc'[p] = "user"
    BY <2>1, ReadersMove, WritersMove
  <2> QED
    BY ZenonT(30), <2>1, <2>2, <2>3
<1>4. ASSUME NEW p \in Procs, Exit(p) \/ Kill(p) PROVE LockInv'
  BY <1>4 DEF Exit, Kill
<1>5. ASSUME NEW p \in Procs, WriteSleep(p) \/ WriteDone(p) \/ ReadCopy(p) PROVE LockInv'
  <2>1. lock = p /\ lock' = None /\ \A q \in Procs : pc'[q] \notin Locked
    <3>1. lock = p
      BY <1>5 DEF WriteSleep, WriteDone, ReadCopy
    <3>2. lock' = None /\ \E place \in {"user", "wsleep"} : WakeReaders(p, place) \/ WakeWriters(p, place)
      BY <1>5 DEF WriteSleep, WriteDone, ReadCopy
    <3>3. \A q \in Procs \ {p} : pc'[q] \in {pc[q], "rwoken", "wwoken"}
      BY <3>2, ReadersMove, WritersMove
    <3>4. pc'[p] \in {"user", "wsleep"}
      BY <3>2, ReadersMove, WritersMove
    <3> QED
      BY ZenonT(30), <3>1, <3>2, <3>3, <3>4
  <2> QED
    BY <2>1
<1>6. ASSUME NEW p \in Procs,
             \/ WriteLock(p) \/ WriteFail(p) \/ WriteFull(p) \/ WriteByte(p)
             \/ ReadLock(p) \/ ReadKilled(p) \/ ReadEmpty(p) \/ ReadSleep(p)
      PROVE  LockInv'
  BY <1>6 DEF WriteLock, WriteFail, WriteFull, WriteByte, ReadLock, ReadKilled, ReadEmpty,
     ReadSleep
<1> QED
  BY <1>1, <1>2, <1>3, <1>4, <1>5, <1>6 DEF Next

\* f->ref counts the descriptors: filedup() in fork, fileclose() in close and exit.
LEMMA RefStep ==
  ASSUME TypeOK, RefInv, HoldInv, Next PROVE RefInv'
<1>1. CASE UNCHANGED fileVars
  BY <1>1 DEF RefInv, fileVars
<1>2. ASSUME NEW p \in Procs, NEW q \in Procs, Fork(p, q) PROVE RefInv'
  <2>1. \A e \in Ends : q \notin holds[e]
    BY <1>2 DEF Fork, HoldInv
  <2> SUFFICES ASSUME NEW e \in Ends
               PROVE  IsFiniteSet(holds'[e]) /\ ref'[e] = Cardinality(holds'[e])
    BY DEF RefInv
  <2>2. CASE p \in holds[e]
    <3>1. holds'[e] = holds[e] \cup {q} /\ ref'[e] = ref[e] + 1
      BY <1>2, <2>2 DEF Fork, TypeOK
    <3>2. IsFiniteSet(holds[e]) /\ ref[e] = Cardinality(holds[e]) /\ q \notin holds[e]
      BY <2>1 DEF RefInv
    <3>3. /\ IsFiniteSet(holds[e] \cup {q})
          /\ Cardinality(holds[e] \cup {q}) = Cardinality(holds[e]) + 1
      BY ZenonT(30), <3>2, FS_AddElement
    <3> QED
      BY <3>1, <3>2, <3>3
  <2>3. CASE p \notin holds[e]
    <3>1. holds'[e] = holds[e] /\ ref'[e] = ref[e]
      BY <1>2, <2>3 DEF Fork, TypeOK
    <3> QED
      BY <3>1 DEF RefInv
  <2> QED
    BY <2>2, <2>3
<1>3. ASSUME NEW p \in Procs, NEW f \in Ends, FileClose(p, f) PROVE RefInv'
  <2> SUFFICES ASSUME NEW e \in Ends
               PROVE  IsFiniteSet(holds'[e]) /\ ref'[e] = Cardinality(holds'[e])
    BY DEF RefInv
  <2>1. CASE e = f
    <3>1. p \in holds[e] /\ holds'[e] = holds[e] \ {p} /\ ref'[e] = ref[e] - 1
      BY <1>3, <2>1 DEF FileClose, TypeOK
    <3>2. IsFiniteSet(holds[e]) /\ ref[e] = Cardinality(holds[e])
      BY DEF RefInv
    <3>3. IsFiniteSet(holds[e] \ {p}) /\ Cardinality(holds[e] \ {p}) = Cardinality(holds[e]) - 1
      BY ZenonT(30), <3>1, <3>2, FS_RemoveElement
    <3> QED
      BY ZenonT(30), <3>1, <3>2, <3>3
  <2>2. CASE e # f
    <3>1. holds'[e] = holds[e] /\ ref'[e] = ref[e]
      BY <1>3, <2>2 DEF FileClose, TypeOK
    <3> QED
      BY <3>1 DEF RefInv
  <2> QED
    BY <2>1, <2>2
<1> QED
  BY <1>1, <1>2, <1>3 DEF Next, PipeClose, Exit, Kill, WriteLock, WriteFail,
     WriteFull, WriteSleep, WriteByte, WriteDone, ReadLock, ReadKilled, ReadEmpty, ReadSleep,
     ReadCopy

\* Who reads or writes still has its descriptor: a process closes it itself, and
\* not while it is in the kernel.
LEMMA HoldStep ==
  ASSUME TypeOK, HoldInv, Next PROVE HoldInv'
<1> USE DEF TypeOK, HoldInv, Using, Reading, Writing, Ends, Goto
<1>1. ASSUME NEW p \in Procs, NEW q \in Procs, Fork(p, q) PROVE HoldInv'
  <2>1. /\ \A e \in Ends : holds[e] \subseteq holds'[e] /\ holds'[e] \subseteq holds[e] \cup {q}
        /\ pc'[q] = "user" /\ \A r \in Procs \ {q} : pc'[r] = pc[r]
    BY <1>1 DEF Fork
  <2> QED
    BY ZenonT(30), <2>1
<1>2. ASSUME NEW p \in Procs, NEW e \in Ends, FileClose(p, e) PROVE HoldInv'
  <2>1. /\ \A f \in Ends : holds'[f] = holds[f] \/ holds'[f] = holds[f] \ {p}
        /\ pc'[p] \in {"user", "rclose", "wclose"}
        /\ \A r \in Procs \ {p} : pc'[r] = pc[r]
    BY <1>2 DEF FileClose, Closing
  <2> QED
    BY ZenonT(30), <2>1
<1>3. ASSUME holds' = holds,
             \A r \in Procs, e \in Ends :
                /\ pc'[r] \in Using(e) => pc[r] \in Using(e) \/ r \in holds[e]
                /\ pc'[r] = "none" => pc[r] = "none" \/ r \notin holds[e]
      PROVE  HoldInv'
  BY <1>3
<1>4. ASSUME NEW p \in Procs, Exit(p) \/ Kill(p) PROVE HoldInv'
  BY <1>3, <1>4 DEF Exit, Kill, fileVars
<1>5. ASSUME NEW p \in Procs, holds' = holds, pc[p] # "none",
             \E place \in {"user", "wsleep"} :
                /\ place = "user" \/ p \in holds["write"]
                /\ WakeReaders(p, place) \/ WakeWriters(p, place)
      PROVE  HoldInv'
  <2>1. \A q \in Procs \ {p} :
            \/ pc'[q] = pc[q]
            \/ pc[q] \in Reading /\ pc'[q] = "rwoken"
            \/ pc[q] \in Writing /\ pc'[q] = "wwoken"
    BY <1>5, ReadersMove, WritersMove
  <2>2. pc'[p] = "user" \/ (pc'[p] = "wsleep" /\ p \in holds["write"])
    BY <1>5, ReadersMove, WritersMove
  <2> QED
    BY <1>3, <1>5, <2>1, <2>2
<1>6. ASSUME NEW p \in Procs, WriteSleep(p) \/ WriteDone(p) \/ ReadCopy(p) PROVE HoldInv'
  BY <1>5, <1>6 DEF WriteSleep, WriteDone, ReadCopy, fileVars
<1>7. ASSUME NEW p \in Procs, NEW e \in Ends, PipeClose(p, e) PROVE HoldInv'
  BY <1>5, <1>7 DEF PipeClose, Closing, fileVars
<1>8. ASSUME NEW p \in Procs,
             \/ WriteLock(p) \/ WriteFail(p) \/ WriteFull(p) \/ WriteByte(p)
             \/ ReadLock(p) \/ ReadKilled(p) \/ ReadEmpty(p) \/ ReadSleep(p)
      PROVE  HoldInv'
  <2>1. CASE WriteLock(p) \/ ReadLock(p)
    BY <1>3, <2>1 DEF WriteLock, ReadLock, fileVars
  <2>2. CASE WriteFail(p) \/ WriteFull(p) \/ WriteByte(p)
    BY <1>3, <2>2 DEF WriteFail, WriteFull, WriteByte, fileVars
  <2>3. CASE ReadKilled(p) \/ ReadEmpty(p) \/ ReadSleep(p)
    BY <1>3, <2>3 DEF ReadKilled, ReadEmpty, ReadSleep, fileVars
  <2> QED
    BY ZenonT(30), <1>8, <2>1, <2>2, <2>3
<1> HIDE DEF TypeOK, HoldInv, Using, Reading, Writing, Ends, Goto
<1> QED
  BY ZenonT(30), <1>1, <1>2, <1>4, <1>6, <1>7, <1>8 DEF Next

\* A step that opens, closes, gives up and passes on no descriptor.
LEMMA OpenSame ==
  ASSUME OpenInv, UNCHANGED <<open, freed>>,
         \A e \in Ends : Unheld(e)' <=> Unheld(e),
         \A p \in Procs, e \in Ends : Closes(p, e)' <=> Closes(p, e)
  PROVE  OpenInv'
BY DEF OpenInv

\* The last descriptor of an end makes its process the one that closes the end,
\* and nobody else gets one or closes it.
LEMMA OpenStep ==
  ASSUME TypeOK, RefInv, OpenInv, Next PROVE OpenInv'
<1> USE DEF TypeOK, Goto
<1>0. \A e \in Ends : Closing(e) \in {"rclose", "wclose"}
  BY DEF Ends, Closing
<1>E. \A e, f \in Ends : Closing(e) = Closing(f) => e = f
  BY DEF Ends, Closing
<1>1. ASSUME NEW p \in Procs, NEW q \in Procs, Fork(p, q) PROVE OpenInv'
  <2>0. \A e \in Ends : Unheld(e)' <=> Unheld(e)
    BY <1>1 DEF Fork, Unheld
  <2>1. /\ pc[q] = "none" /\ pc'[q] = "user" /\ \A r \in Procs \ {q} : pc'[r] = pc[r]
        /\ UNCHANGED <<open, freed>>
    BY <1>1 DEF Fork, pipeVars
  <2>2. \A r \in Procs, e \in Ends : Closes(r, e)' <=> Closes(r, e)
    <3> HIDE DEF TypeOK
    <3> QED
      BY ZenonT(30), <1>0, <2>1 DEF Closes
  <2> QED
    BY <2>0, <2>1, <2>2, OpenSame
<1>2. ASSUME NEW p \in Procs, NEW f \in Ends, FileClose(p, f) PROVE OpenInv'
  <2>1. /\ p \in holds[f] /\ holds'[f] = holds[f] \ {p}
        /\ \A e \in Ends \ {f} : holds'[e] = holds[e]
        /\ pc[p] = "user" /\ \A r \in Procs \ {p} : pc'[r] = pc[r]
        /\ UNCHANGED <<open, freed>>
    BY <1>2 DEF FileClose, pipeVars
  <2>2. ~Unheld(f) /\ \A e \in Ends \ {f} : Unheld(e)' <=> Unheld(e)
    BY <2>1 DEF Unheld
  <2>3. IsFiniteSet(holds[f]) /\ ref[f] = Cardinality(holds[f]) /\ ref[f] \in Nat
    BY DEF RefInv
  <2>4. /\ IsFiniteSet(holds[f] \ {p})
        /\ Cardinality(holds[f] \ {p}) = Cardinality(holds[f]) - 1
    <3> DEFINE S == holds[f]
    <3>1. IsFiniteSet(S) /\ p \in S
      BY <2>1, <2>3
    <3>2. IsFiniteSet(S \ {p}) /\ Cardinality(S \ {p}) = Cardinality(S) - 1
      <4> HIDE DEF S
      <4> QED
        BY ZenonT(30), <3>1, FS_RemoveElement
    <3> QED
      BY <3>2
  <2>5. ref[f] > 1 <=> ~Unheld(f)'
    <3>1. Unheld(f)' <=> Cardinality(holds'[f]) = 0
      BY ZenonT(30), <2>1, <2>4, FS_EmptySet DEF Unheld
    <3>2. ref[f] # 0
      BY <2>1, <2>3, FS_EmptySet
    <3> QED
      BY <2>1, <2>3, <2>4, <3>1, <3>2
  <2>6. CASE Unheld(f)'
    <3>1. pc'[p] = Closing(f)
      BY <1>2, <2>5, <2>6 DEF FileClose
    <3>2. \A r \in Procs, e \in Ends : Closes(r, e)' <=> Closes(r, e) \/ (r = p /\ e = f)
      BY <1>0, <1>E, <2>1, <3>1 DEF Closes
    <3>3. open[f] /\ \A r \in Procs : ~Closes(r, f)
      BY <2>2 DEF OpenInv
    <3> QED
      BY <2>1, <2>2, <2>6, <3>2, <3>3 DEF OpenInv
  <2>7. CASE ~Unheld(f)'
    <3>1. pc'[p] = "user"
      BY <1>2, <2>5, <2>7 DEF FileClose
    <3>2. \A r \in Procs, e \in Ends : Closes(r, e)' <=> Closes(r, e)
      BY <1>0, <2>1, <3>1 DEF Closes
    <3> QED
      BY <2>1, <2>2, <2>7, <3>2, OpenSame
  <2> QED
    BY <2>6, <2>7
<1>3. ASSUME NEW p \in Procs, NEW f \in Ends, PipeClose(p, f) PROVE OpenInv'
  <2>1. /\ Closes(p, f) /\ holds' = holds
        /\ ~open'[f] /\ \A e \in Ends \ {f} : open'[e] = open[e]
        /\ WakeReaders(p, "user") \/ WakeWriters(p, "user")
    BY <1>3 DEF PipeClose, fileVars, Closes
  <2>2. pc'[p] = "user" /\ \A q \in Procs \ {p} : pc'[q] = pc[q] \/
          (pc[q] \in {"rsleep", "wsleep"} /\ pc'[q] \in {"rwoken", "wwoken"})
    BY <2>1, ReadersMove, WritersMove
  <2>3. \A r \in Procs, e \in Ends : Closes(r, e)' <=> Closes(r, e) /\ r # p
    BY ZenonT(30), <1>0, <2>2 DEF Closes
  <2>E. \A e \in Ends : Closes(p, e) => e = f
    BY ZenonT(30), <1>E, <2>1 DEF Closes
  <2>4. \A r \in Procs, e \in Ends : Closes(r, e)' <=> Closes(r, e) /\ e # f
    BY <2>1, <2>3, <2>E DEF OpenInv
  <2>U. \A e \in Ends : Unheld(e)' <=> Unheld(e)
    BY <2>1 DEF Unheld
  <2>5. freed' <=> ~open'["read"] /\ ~open'["write"]
    <3>1. freed' <=> freed \/ (~open'["read"] /\ ~open'["write"])
      BY ZenonT(30), <1>3 DEF PipeClose, Ends
    <3>2. freed => ~open["read"] /\ ~open["write"]
      BY DEF OpenInv
    <3>3. f \in Ends /\ open[f]
      BY <2>1 DEF OpenInv
    <3> QED
      BY <3>1, <3>2, <3>3 DEF Ends
  <2>6. /\ \A r \in Procs, e \in Ends : Closes(r, e)' => open'[e] /\ Unheld(e)'
        /\ \A r, q \in Procs, e \in Ends : Closes(r, e)' /\ Closes(q, e)' => r = q
    BY <2>1, <2>4, <2>U DEF OpenInv
  <2>7. ASSUME NEW e \in Ends
        PROVE  Unheld(e)' <=> ~open'[e] \/ \E r \in Procs : Closes(r, e)'
    <3>1. CASE e = f
      BY <2>1, <2>U, <3>1 DEF OpenInv
    <3>2. CASE e # f
      BY <2>1, <2>4, <2>U, <3>2 DEF OpenInv
    <3> QED
      BY <3>1, <3>2
  <2> QED
    BY <2>5, <2>6, <2>7 DEF OpenInv
<1>4. ASSUME NEW p \in Procs, Exit(p) \/ Kill(p) PROVE OpenInv'
  <2>1. UNCHANGED <<open, holds, freed>> /\ \A r \in Procs :
            pc'[r] = pc[r] \/ (pc[r] \notin {"rclose", "wclose"} /\ pc'[r] \notin {"rclose", "wclose"})
    BY <1>4 DEF Exit, Kill, pipeVars, fileVars
  <2> QED
    BY <1>0, <2>1, OpenSame DEF Closes, Unheld
<1>5. ASSUME NEW p \in Procs, WriteSleep(p) \/ WriteDone(p) \/ ReadCopy(p) PROVE OpenInv'
  <2>1. /\ UNCHANGED <<open, holds, freed>> /\ pc[p] \notin {"rclose", "wclose"}
        /\ \E place \in {"user", "wsleep"} : WakeReaders(p, place) \/ WakeWriters(p, place)
    BY <1>5 DEF WriteSleep, WriteDone, ReadCopy, pipeVars, fileVars
  <2>2. pc'[p] \in {"user", "wsleep"} /\ \A q \in Procs \ {p} : pc'[q] = pc[q] \/
          (pc[q] \in {"rsleep", "wsleep"} /\ pc'[q] \in {"rwoken", "wwoken"})
    BY <2>1, ReadersMove, WritersMove
  <2> QED
    BY ZenonT(30), <1>0, <2>1, <2>2, OpenSame DEF Closes, Unheld
<1>6. ASSUME NEW p \in Procs,
             \/ WriteLock(p) \/ WriteFail(p) \/ WriteFull(p) \/ WriteByte(p)
             \/ ReadLock(p) \/ ReadKilled(p) \/ ReadEmpty(p) \/ ReadSleep(p)
      PROVE  OpenInv'
  <2>1. UNCHANGED <<open, holds, freed>> /\ \A r \in Procs :
            pc'[r] = pc[r] \/ (pc[r] \notin {"rclose", "wclose"} /\ pc'[r] \notin {"rclose", "wclose"})
    BY <1>6 DEF WriteLock, WriteFail, WriteFull, WriteByte, ReadLock, ReadKilled, ReadEmpty,
       ReadSleep, pipeVars, fileVars
  <2> QED
    BY <1>0, <2>1, OpenSame DEF Closes, Unheld
<1> QED
  BY <1>1, <1>2, <1>3, <1>4, <1>5, <1>6 DEF Next

\* Whoever makes room wakes the writers, and whoever closes the read end does;
\* no byte is written while a writer sleeps on a full pipe.
LEMMA FullStep ==
  ASSUME TypeOK, LockInv, FullInv, Next PROVE FullInv'
<1> USE DEF TypeOK, Goto
<1>S. ASSUME UNCHANGED <<nread, nwrite>>, open'["read"] <=> open["read"],
             \A q \in Procs : pc'[q] \in {"wfull", "wsleep"} =>
                 pc[q] \in {"wfull", "wsleep"} \/ (Full /\ open["read"])
      PROVE  FullInv'
  BY <1>S DEF FullInv, Full
<1>1. ASSUME NEW p \in Procs, NEW q \in Procs, Fork(p, q) PROVE FullInv'
  BY <1>1, <1>S DEF Fork, pipeVars
<1>2. ASSUME NEW p \in Procs, NEW e \in Ends, FileClose(p, e) PROVE FullInv'
  BY <1>2, <1>S DEF FileClose, pipeVars, Closing
<1>3. ASSUME NEW p \in Procs, PipeClose(p, "write") PROVE FullInv'
  <2>1. \A q \in Procs : pc'[q] \in {"wfull", "wsleep"} => pc[q] \in {"wfull", "wsleep"}
    BY <1>3, ReadersMove DEF PipeClose
  <2> QED
    BY <1>3, <1>S, <2>1 DEF PipeClose, Ends
<1>4. ASSUME NEW p \in Procs, PipeClose(p, "read") \/ ReadCopy(p) PROVE FullInv'
  <2>1. WakeWriters(p, "user") /\ \A q \in Procs \ {p} : pc[q] # "wfull"
    BY <1>4 DEF PipeClose, ReadCopy, LockInv, Locked
  <2>2. \A q \in Procs : pc'[q] \notin {"wfull", "wsleep"}
    BY <2>1, WritersMove
  <2> QED
    BY <2>2 DEF FullInv
<1>5. ASSUME NEW p \in Procs, Exit(p) \/ Kill(p) PROVE FullInv'
  BY <1>5, <1>S DEF Exit, Kill, pipeVars
<1>6. ASSUME NEW p \in Procs, WriteSleep(p) \/ WriteDone(p) PROVE FullInv'
  <2>1. /\ UNCHANGED <<nread, nwrite, open>>
        /\ WakeReaders(p, "user") \/ (WakeReaders(p, "wsleep") /\ pc[p] = "wfull")
    BY <1>6 DEF WriteSleep, WriteDone, pipeVars
  <2>2. \A q \in Procs : pc'[q] \in {"wfull", "wsleep"} => pc[q] \in {"wfull", "wsleep"}
    <3>1. CASE WakeReaders(p, "user")
      BY ZenonT(30), <3>1, ReadersMove
    <3>2. CASE WakeReaders(p, "wsleep") /\ pc[p] = "wfull"
      BY ZenonT(30), <3>2, ReadersMove
    <3> QED
      BY <2>1, <3>1, <3>2
  <2> QED
    BY <1>S, <2>1, <2>2
<1>7. ASSUME NEW p \in Procs, WriteByte(p) PROVE FullInv'
  BY <1>7 DEF WriteByte, FullInv
<1>8. ASSUME NEW p \in Procs,
             \/ WriteLock(p) \/ WriteFail(p) \/ WriteFull(p)
             \/ ReadLock(p) \/ ReadKilled(p) \/ ReadEmpty(p) \/ ReadSleep(p)
      PROVE  FullInv'
  BY <1>8, <1>S DEF WriteLock, WriteFail, WriteFull, ReadLock, ReadKilled, ReadEmpty,
       ReadSleep, pipeVars
<1> QED
  BY <1>1, <1>2, <1>3, <1>4, <1>5, <1>6, <1>7, <1>8 DEF Next, Ends

\* pipealloc() establishes the invariant.
LEMMA InitPipeInv ==
  Init => PipeInv
<1> SUFFICES ASSUME Init PROVE PipeInv
  OBVIOUS
<1> USE Sizes DEF Init
<1>0. Counters /\ Used = 0 /\ ~Full
  <2>1. Counters /\ nread = 0 /\ nwrite = 0
    BY DEF Counters
  <2> QED
    BY <2>1, UsedFacts
<1>1. TypeOK
  <2>1. (0 <= PIPESIZE) /\ 0 \in 0..MaxN
    OBVIOUS
  <2>2. /\ lock \in Procs \cup {None} /\ ref \in [Ends -> Nat]
        /\ holds \in [Ends -> SUBSET Procs]
        /\ pc \in [Procs -> Places] /\ left \in [Procs -> 0..MaxN]
    BY <2>1 DEF Places
  <2>3. open \in [Ends -> BOOLEAN] /\ killed \in [Procs -> BOOLEAN] /\ freed \in BOOLEAN
    BY ZenonT(30)
  <2> QED
    BY <1>0, <2>1, <2>2, <2>3 DEF TypeOK, Counters
<1>2. LockInv /\ FullInv
  BY DEF LockInv, FullInv, Locked
<1>3. RefInv
  <2>1. IsFiniteSet({Creator}) /\ Cardinality({Creator}) = 1
    BY ZenonT(30), FS_Singleton
  <2> QED
    BY <2>1 DEF RefInv
<1>4. HoldInv
  BY DEF HoldInv, Using, Reading, Writing
<1>5. OpenInv
  <2>1. \A p \in Procs, e \in Ends : ~Closes(p, e)
    BY DEF Closes, Closing
  <2>2. \A e \in Ends : ~Unheld(e) /\ open[e]
    BY DEF Unheld
  <2>3. open["read"]
    BY <2>2 DEF Ends
  <2> QED
    BY <2>1, <2>2, <2>3 DEF OpenInv
<1> QED
  BY <1>1, <1>2, <1>3, <1>4, <1>5 DEF PipeInv

\* The invariant is inductive.
LEMMA NextPipeInv ==
  PipeInv /\ [Next]_vars => PipeInv'
<1>1. ASSUME PipeInv, Next PROVE PipeInv'
  BY <1>1, TypeStep, LockStep, RefStep, HoldStep, OpenStep, FullStep DEF PipeInv
<1>2. ASSUME PipeInv, UNCHANGED vars PROVE PipeInv'
  BY <1>2 DEF vars, PipeInv, TypeOK, LockInv, RefInv, HoldInv, OpenInv, Closes, Unheld, FullInv,
     Full, Used
<1> QED
  BY <1>1, <1>2

-----------------------------------------------------------------------------
(* Who can use the pipe, and who sleeps. *)

\* The inductive invariant of kernel/pipe.c and the reference counts of
\* kernel/file.c holds in every reachable state.
THEOREM PipeInvHolds == Spec => []PipeInv
BY InitPipeInv, NextPipeInv, PTL DEF Spec

\* pipeclose() frees the page only when no process has a descriptor of either
\* end, is in the code of the pipe or sleeps in it; a closed end stays unused.
THEOREM NoUseAfterFreeHolds == Spec => []NoUseAfterFree
<1>1. PipeInv => NoUseAfterFree
  <2> SUFFICES ASSUME PipeInv PROVE NoUseAfterFree
    OBVIOUS
  <2> USE DEF PipeInv
  <2>1. ASSUME NEW e \in Ends, ~open[e]
        PROVE  /\ holds[e] = {} /\ ref[e] = 0
               /\ \A p \in Procs : pc[p] \notin Using(e)
    <3>1. holds[e] = {}
      BY <2>1 DEF OpenInv, Unheld
    <3>2. ref[e] = 0
      BY <3>1, FS_EmptySet DEF RefInv
    <3> QED
      BY <3>1, <3>2 DEF HoldInv
  <2>2. ASSUME freed
        PROVE  /\ \A e \in Ends : holds[e] = {}
               /\ \A p \in Procs : pc[p] \in {"none", "user"}
    <3>1. \A e \in Ends : ~open[e]
      BY <2>2 DEF OpenInv, Ends
    <3>2. ASSUME NEW p \in Procs PROVE pc[p] \in {"none", "user"}
      <4>1. \A e \in Ends : pc[p] \notin Using(e) /\ pc[p] # Closing(e)
        BY <2>1, <3>1 DEF OpenInv, Closes
      <4>2. pc[p] \notin Reading /\ pc[p] \notin Writing /\ pc[p] # "rclose" /\ pc[p] # "wclose"
        BY <4>1 DEF Ends, Using, Closing
      <4> QED
        BY <4>2 DEF TypeOK, Places
    <3> QED
      BY <2>1, <3>1, <3>2
  <2> QED
    BY <2>1, <2>2 DEF NoUseAfterFree, Using
<1> QED
  BY <1>1, PipeInvHolds, PTL

\* A writer sleeps in pipewrite() only while the pipe is full and has a reader,
\* killed processes included.
THEOREM WriterSleepsOnlyWhenFullHolds == Spec => []WriterSleepsOnlyWhenFull
<1>1. PipeInv => WriterSleepsOnlyWhenFull
  BY DEF PipeInv, FullInv, WriterSleepsOnlyWhenFull
<1> QED
  BY <1>1, PipeInvHolds, PTL

\* Nothing is leaked: with no descriptors left, and nobody closing an end, the page
\* has been freed.
PipeReclaimed ==
    (\A e \in Ends : holds[e] = {}) /\ (\A p \in Procs : pc[p] \in {"none", "user"}) => freed

\* The last pipeclose() does free the page.
THEOREM PipeReclaimedHolds == Spec => []PipeReclaimed
<1>1. PipeInv => PipeReclaimed
  <2> SUFFICES ASSUME PipeInv, \A e \in Ends : holds[e] = {},
                      \A p \in Procs : pc[p] \in {"none", "user"}
               PROVE  freed
    BY DEF PipeReclaimed
  <2>1. \A p \in Procs, e \in Ends : ~Closes(p, e)
    BY DEF Closes, Closing
  <2>2. \A e \in Ends : ~open[e]
    BY <2>1 DEF PipeInv, OpenInv, Unheld
  <2> QED
    BY <2>2 DEF PipeInv, OpenInv, Ends
<1> QED
  BY <1>1, PipeInvHolds, PTL

\* A system in which kill() is not called kills nobody.
LEMMA NobodyKilled ==
  ASSUME ~Kills, TypeOK, \A p \in Procs : ~killed[p], Next
  PROVE  \A p \in Procs : ~killed'[p]
<1>1. CASE killed' = killed
  BY <1>1
<1>2. ASSUME NEW p \in Procs, Exit(p) PROVE \A q \in Procs : ~killed'[q]
  <2>1. ~killed'[p] /\ \A q \in Procs \ {p} : killed'[q] = killed[q]
    BY <1>2 DEF Exit, TypeOK
  <2> QED
    BY <2>1
<1> QED
  BY ZenonT(30), <1>1, <1>2 DEF Next, Fork, FileClose, PipeClose, Kill, WriteLock, WriteFail,
       WriteFull, WriteSleep, WriteByte, WriteDone, ReadLock, ReadKilled, ReadEmpty, ReadSleep,
       ReadCopy

\* Whoever writes wakes the readers before it gives up the lock, unless it fails:
\* and it fails only without a reader if nobody is killed.
LEMMA EmptyStep ==
  ASSUME ~Kills, TypeOK, LockInv, HoldInv, OpenInv, EmptyInv, Next PROVE EmptyInv'
<1> USE DEF TypeOK, Goto
<1> DEFINE Waits(q) == pc[q] \in {"rempty", "rsleep"}
           Fills(q) == lock = q /\ pc[q] \in {"wloop", "wfull"}
           Fine == Empty \/ \E q \in Procs : Fills(q)
<1>K. \A p \in Procs : ~killed'[p]
  BY NobodyKilled DEF EmptyInv
<1>0. \A q \in Procs : Waits(q) => open["write"] /\ Fine
  BY DEF EmptyInv
<1>S. ASSUME \A q \in Procs : Waits(q)' => Waits(q) \/ (open["write"] /\ Fine),
             open'["write"] <=> open["write"],
             Fine => Fine'
      PROVE  EmptyInv'
  BY <1>0, <1>K, <1>S DEF EmptyInv
<1>1. ASSUME UNCHANGED <<nread, nwrite, open, lock>>,
             \A q \in Procs : Waits(q)' => Waits(q) \/ (open["write"] /\ Fine),
             \A q \in Procs : pc[q] \in {"wloop", "wfull"} => pc'[q] \in {"wloop", "wfull"}
      PROVE  EmptyInv'
  <2>1. Fine => Fine'
    BY <1>1 DEF Empty
  <2> QED
    BY <1>1, <1>S, <2>1
<1>2. ASSUME NEW p \in Procs, NEW q \in Procs, Fork(p, q) PROVE EmptyInv'
  BY <1>1, <1>2 DEF Fork, pipeVars
<1>3. ASSUME NEW p \in Procs, NEW e \in Ends, FileClose(p, e) PROVE EmptyInv'
  BY <1>1, <1>3 DEF FileClose, Closing, pipeVars
<1>4. ASSUME NEW p \in Procs, Exit(p) PROVE EmptyInv'
  BY <1>1, <1>4 DEF Exit, pipeVars
<1>5. ASSUME NEW p \in Procs, WriteFull(p) \/ ReadEmpty(p) PROVE EmptyInv'
  BY <1>1, <1>5 DEF WriteFull, ReadEmpty, pipeVars
<1>6. ASSUME \A q \in Procs : ~Waits(q)' PROVE EmptyInv'
  BY <1>6, <1>K DEF EmptyInv
<1>7. ASSUME NEW p \in Procs, PipeClose(p, "write") PROVE EmptyInv'
  <2>1. \A q \in Procs : pc[q] # "rempty"
    BY <1>7 DEF PipeClose, LockInv, Locked
  <2>2. pc'[p] = "user" /\ \A q \in Procs \ {p} :
            (pc'[q] = pc[q] \/ pc'[q] = "rwoken") /\ (pc[q] = "rsleep" => pc'[q] = "rwoken")
    BY <1>7, ReadersMove DEF PipeClose
  <2>3. \A q \in Procs : ~Waits(q)'
    BY <2>1, <2>2
  <2> QED
    BY <1>6, <2>3
<1>8. ASSUME NEW p \in Procs, WriteSleep(p) \/ WriteDone(p) PROVE EmptyInv'
  <2>1. \A q \in Procs : pc[q] # "rempty"
    BY <1>8 DEF WriteSleep, WriteDone, LockInv, Locked
  <2>2. \E place \in {"user", "wsleep"} : WakeReaders(p, place)
    BY <1>8 DEF WriteSleep, WriteDone
  <2>3. pc'[p] \in {"user", "wsleep"} /\ \A q \in Procs \ {p} :
            (pc'[q] = pc[q] \/ pc'[q] = "rwoken") /\ (pc[q] = "rsleep" => pc'[q] = "rwoken")
    BY <2>2, ReadersMove
  <2>4. \A q \in Procs : ~Waits(q)'
    BY <2>1, <2>3
  <2> QED
    BY <1>6, <2>4
<1>9. ASSUME NEW p \in Procs, PipeClose(p, "read") PROVE EmptyInv'
  <2>1. UNCHANGED <<nread, nwrite, lock>> /\ lock = None /\ open'["write"] = open["write"]
    BY <1>9 DEF PipeClose, Ends
  <2>2. \A q \in Procs : Waits(q)' => Waits(q)
    <3>1. pc'[p] = "user" /\ \A q \in Procs \ {p} : pc'[q] = pc[q] \/ pc'[q] = "wwoken"
      BY <1>9, WritersMove DEF PipeClose
    <3> QED
      BY <3>1
  <2>3. Fine => Fine'
    BY <2>1, CreatorAssumption DEF Empty
  <2> QED
    BY <1>S, <2>1, <2>2, <2>3
<1>10. ASSUME NEW p \in Procs, WriteFail(p) PROVE EmptyInv'
  <2>1. ~open["read"] /\ pc[p] = "wloop"
    BY <1>10 DEF WriteFail, EmptyInv
  <2>2. \A q \in Procs : ~Waits(q)
    <3>1. "read" \in Ends /\ Unheld("read")
      BY <2>1 DEF OpenInv, Ends
    <3> QED
      BY <3>1 DEF HoldInv, Using, Reading, Unheld
  <2>3. \A q \in Procs : ~Waits(q)'
    BY <1>10, <2>2 DEF WriteFail
  <2> QED
    BY <1>6, <2>3
<1>11. ASSUME NEW p \in Procs, WriteByte(p) PROVE EmptyInv'
  <2>1. Fills(p)' /\ UNCHANGED <<pc, open>>
    BY <1>11 DEF WriteByte, LockInv, Locked
  <2> QED
    BY <1>S, <2>1
<1>12. ASSUME NEW p \in Procs, WriteLock(p) \/ ReadLock(p) PROVE EmptyInv'
  <2>1. /\ lock = None /\ UNCHANGED <<nread, nwrite, open>>
        /\ \A q \in Procs : Waits(q)' => Waits(q)
    BY <1>12 DEF WriteLock, ReadLock, pipeVars
  <2>2. Fine => Fine'
    BY <2>1, CreatorAssumption DEF Empty
  <2> QED
    BY <1>S, <2>1, <2>2
<1>13. ASSUME NEW p \in Procs, ReadKilled(p) \/ ReadSleep(p) PROVE EmptyInv'
  <2>1. /\ pc[p] \in {"rloop", "rempty"} /\ lock = p /\ UNCHANGED <<nread, nwrite, open>>
        /\ \A q \in Procs : Waits(q)' => Waits(q)
    BY <1>13 DEF ReadKilled, ReadSleep, pipeVars, LockInv, Locked
  <2>2. Fine => Fine'
    BY <2>1 DEF Empty
  <2> QED
    BY <1>S, <2>1, <2>2
<1>14. ASSUME NEW p \in Procs, ReadCopy(p) PROVE EmptyInv'
  <2>1. /\ pc[p] = "rloop" /\ lock = p /\ open' = open
        /\ \A q \in Procs : Waits(q)' => Waits(q)
    <3>1. pc[p] = "rloop" /\ open' = open /\ WakeWriters(p, "user")
      BY ZenonT(30), <1>14 DEF ReadCopy
    <3>2. lock = p
      BY ZenonT(30), <3>1 DEF LockInv, Locked
    <3> QED
      BY ZenonT(30), <3>1, <3>2, WritersMove
  <2>2. ASSUME NEW q \in Procs, Waits(q) PROVE FALSE
    <3>1. open["write"] /\ Empty
      BY ZenonT(30), <1>0, <2>1, <2>2
    <3> QED
      BY <1>14, <3>1 DEF ReadCopy
  <2> QED
    BY <1>6, <2>1, <2>2
<1> QED
  BY <1>2, <1>3, <1>4, <1>5, <1>7, <1>8, <1>9, <1>10, <1>11, <1>12, <1>13, <1>14
     DEF Next, Ends, Kill

\* A reader sleeps in piperead() only while the pipe is empty and has a writer, if
\* nobody is killed: a writer that is killed returns without waking the readers.
THEOREM ReaderSleepsOnlyWhenEmptyHolds ==
  ASSUME ~Kills PROVE Spec => []ReaderSleepsOnlyWhenEmpty
<1>1. Init => EmptyInv
  BY DEF Init, EmptyInv
<1>2. PipeInv /\ EmptyInv /\ [Next]_vars => EmptyInv'
  <2>1. ASSUME PipeInv, EmptyInv, Next PROVE EmptyInv'
    BY <2>1, EmptyStep DEF PipeInv
  <2>2. ASSUME EmptyInv, UNCHANGED vars PROVE EmptyInv'
    BY <2>2 DEF vars, EmptyInv, Empty
  <2> QED
    BY <2>1, <2>2
<1>3. EmptyInv => ReaderSleepsOnlyWhenEmpty
  BY CreatorAssumption DEF EmptyInv, ReaderSleepsOnlyWhenEmpty
<1> QED
  BY <1>1, <1>2, <1>3, PipeInvHolds, PTL DEF Spec

-----------------------------------------------------------------------------
(* The ring buffer implements the queue of ByteQueue. *)

\* The bytes between nread and nwrite, which Pipe maps the queue to.
QueueOf == IF freed THEN <<>> ELSE [k \in 1..Used |-> data[(nread + k - 1) % PIPESIZE]]

\* The place of the next byte to be written.
LEMMA NextPlace ==
  ASSUME Counters PROVE nwrite % PIPESIZE = (nread + Used) % PIPESIZE
<1> USE Sizes DEF Counters
<1>1. Used \in Nat /\ (nwrite = nread + Used \/ nwrite = nread + Used - UINTS)
  BY UsedFacts
<1>2. CASE nwrite = nread + Used
  BY <1>2
<1>3. CASE nwrite = nread + Used - UINTS
  <2>1. PICK m \in Nat \ {0} : UINTS = m * PIPESIZE
    BY Multiple
  <2>2. nread + Used = m * PIPESIZE + nwrite
    BY <1>1, <1>3, <2>1
  <2>3. (m * PIPESIZE + nwrite) % PIPESIZE = nwrite % PIPESIZE
    <3>1. m \in Int /\ nwrite \in Int /\ PIPESIZE \in Nat \ {0}
      BY <2>1
    <3> HIDE Sizes
    <3> QED
      BY ZenonT(30), <3>1, ModShift
  <2> QED
    BY <2>2, <2>3
<1> QED
  BY <1>1, <1>2, <1>3

\* The place of a byte in the pipe is one of the buffer's.
LEMMA PlaceIn ==
  ASSUME Counters, NEW k \in Nat PROVE (nread + k) % PIPESIZE \in 0..PIPESIZE - 1
BY Sizes, ModRange DEF Counters

\* pipewrite()'s store is at the queue's end and overwrites none of its bytes.
LEMMA PutBytes ==
  ASSUME TypeOK, ~freed, UNCHANGED freed, ~Full, NEW ch \in Byte,
         data' = [data EXCEPT ![nwrite % PIPESIZE] = ch],
         nwrite' = (nwrite + 1) % UINTS, nread' = nread
  PROVE  QueueOf' = Append(QueueOf, ch) /\ Len(QueueOf) < PIPESIZE
<1> USE Sizes
<1>0. Counters /\ Used <= PIPESIZE /\ Used \in Nat
  BY UsedFacts DEF TypeOK, Counters
<1>1. Used' = Used + 1 /\ Used < PIPESIZE
  BY <1>0, UsedPut
<1>2. QueueOf = [k \in 1..Used |-> data[(nread + k - 1) % PIPESIZE]] /\ Len(QueueOf) = Used
  BY <1>0 DEF QueueOf
<1>3. QueueOf' = [k \in 1..Used + 1 |-> data'[(nread + k - 1) % PIPESIZE]]
  BY <1>1 DEF QueueOf
<1>4. data'[(nread + (Used + 1) - 1) % PIPESIZE] = ch
  <2>1. nwrite % PIPESIZE = (nread + Used) % PIPESIZE /\ nread + (Used + 1) - 1 = nread + Used
    BY <1>0, NextPlace DEF Counters
  <2>2. (nread + Used) % PIPESIZE \in 0..PIPESIZE - 1
    BY <1>0, PlaceIn
  <2> QED
    BY <2>1, <2>2 DEF TypeOK
<1>5. ASSUME NEW k \in 1..Used
      PROVE  data'[(nread + k - 1) % PIPESIZE] = data[(nread + k - 1) % PIPESIZE]
  <2>1. (nread + k - 1) % PIPESIZE # (nread + Used) % PIPESIZE
    <3>1. nread + k - 1 \in Int /\ nread + Used \in Int /\ nread + k - 1 < nread + Used
          /\ nread + Used < nread + k - 1 + PIPESIZE
      BY <1>0, <1>1 DEF Counters
    <3> QED
      BY <3>1, WindowIndex
  <2>2. nwrite % PIPESIZE = (nread + Used) % PIPESIZE
    BY <1>0, NextPlace
  <2>3. (nread + k - 1) % PIPESIZE \in 0..PIPESIZE - 1
    <3>1. k - 1 \in Nat /\ nread + k - 1 = nread + (k - 1)
      BY <1>0 DEF Counters
    <3> QED
      BY <1>0, <3>1, PlaceIn
  <2> QED
    BY <2>1, <2>2, <2>3 DEF TypeOK
<1>6. Append(QueueOf, ch) = [k \in 1..Used + 1 |-> IF k = Used + 1 THEN ch ELSE QueueOf[k]]
  BY <1>0, <1>2
<1>7. ASSUME NEW k \in 1..Used + 1
      PROVE  data'[(nread + k - 1) % PIPESIZE] = IF k = Used + 1 THEN ch ELSE QueueOf[k]
  <2>1. CASE k = Used + 1
    BY <1>4, <2>1
  <2>2. CASE k # Used + 1
    <3>1. k \in 1..Used
      BY <1>0, <2>2
    <3> QED
      BY <1>2, <1>5, <2>2, <3>1
  <2> QED
    BY <2>1, <2>2
<1> QED
  BY ZenonT(30), <1>1, <1>2, <1>3, <1>6, <1>7

\* piperead() takes bytes from the queue's front and leaves the rest in order,
\* also when nread wraps.
LEMMA TakeBytes ==
  ASSUME TypeOK, ~freed, UNCHANGED <<freed, data, nwrite>>, NEW n \in 1..Used,
         nread' = (nread + n) % UINTS
  PROVE  Len(QueueOf) = Used /\ QueueOf' = SubSeq(QueueOf, n + 1, Len(QueueOf))
<1> USE Sizes
<1>0. Counters /\ Used \in Nat
  BY UsedFacts DEF TypeOK, Counters
<1>1. Used' = Used - n
  BY <1>0, UsedTake
<1>2. QueueOf = [k \in 1..Used |-> data[(nread + k - 1) % PIPESIZE]] /\ Len(QueueOf) = Used
  BY <1>0 DEF QueueOf
<1>3. QueueOf' = [k \in 1..Used - n |-> data[(nread' + k - 1) % PIPESIZE]]
  BY <1>1 DEF QueueOf
<1>4. ASSUME NEW k \in 1..Used - n
      PROVE  data[(nread' + k - 1) % PIPESIZE] = QueueOf[n + k]
  <2>1. (((nread + n) % UINTS) + (k - 1)) % PIPESIZE = (nread + n + (k - 1)) % PIPESIZE
    <3>1. nread + n \in Int /\ k - 1 \in Int
      BY <1>0 DEF Counters
    <3> QED
      BY ZenonT(30), <3>1, WrapIndex
  <2>2. nread + n + (k - 1) = nread + (n + k) - 1 /\ nread' + k - 1 = nread' + (k - 1)
    BY <1>0, UsedTake DEF Counters
  <2>3. n + k \in 1..Used
    BY <1>0
  <2> QED
    BY <1>2, <2>1, <2>2, <2>3
<1>5. SubSeq(QueueOf, n + 1, Used) = [k \in 1..Used - n |-> QueueOf[n + k]]
  BY <1>0, <1>2
<1> QED
  BY ZenonT(30), <1>2, <1>3, <1>4, <1>5

\* Every step of the pipe is one of the queue's or changes neither the bytes nor
\* whether they are gone.
LEMMA QueueStep ==
  ASSUME PipeInv, Next PROVE [Q!QNext]_(Q!qvars)
<1> USE DEF PipeInv, TypeOK, Goto, pipeVars
<1>1. CASE UNCHANGED <<data, nread, nwrite, freed>>
  <2>1. UNCHANGED Q!qvars
    BY <1>1 DEF Q!qvars, Used
  <2> QED
    BY <2>1
<1>2. ASSUME NEW p \in Procs, WriteByte(p) PROVE Q!QNext
  <2>1. ~freed
    BY <1>2 DEF WriteByte, OpenInv
  <2>2. PICK ch \in Byte : data' = [data EXCEPT ![nwrite % PIPESIZE] = ch]
    BY ZenonT(30), <1>2 DEF WriteByte
  <2>3. QueueOf' = Append(QueueOf, ch) /\ Len(QueueOf) < PIPESIZE /\ UNCHANGED freed
    BY ZenonT(30), <1>2, <2>1, <2>2, PutBytes DEF WriteByte
  <2> QED
    BY ZenonT(30), <2>1, <2>3 DEF Q!QNext, Q!Put, QueueOf
<1>3. ASSUME NEW p \in Procs, ReadCopy(p) PROVE [Q!QNext]_(Q!qvars)
  <2>1. ~freed
    <3>1. "read" \in Ends /\ p \in holds["read"]
      BY <1>3 DEF ReadCopy, HoldInv, Using, Reading, Ends
    <3>2. open["read"]
      BY <3>1 DEF OpenInv, Unheld
    <3> QED
      BY <3>2 DEF OpenInv
  <2>2. PICK n \in Nat : n <= Used /\ nread' = (nread + n) % UINTS
    BY <1>3, Sizes DEF ReadCopy
  <2>3. UNCHANGED <<freed, data, nwrite>> /\ Used \in Nat
    BY <1>3, UsedFacts DEF ReadCopy, Counters
  <2>4. CASE n = 0
    <3>1. nread' = nread
      BY <2>2, <2>4, ModOnce
    <3> QED
      BY <1>1, <2>3, <3>1
  <2>5. CASE n # 0
    <3>1. n \in 1..Used
      BY <2>2, <2>3, <2>5
    <3>2. Len(QueueOf) = Used /\ QueueOf' = SubSeq(QueueOf, n + 1, Len(QueueOf))
      BY <2>1, <2>2, <2>3, <3>1, TakeBytes
    <3>3. Q!Take
      BY ZenonT(30), <2>1, <2>3, <3>1, <3>2 DEF Q!Take, QueueOf
    <3> QED
      BY <3>3 DEF Q!QNext
  <2> QED
    BY <2>4, <2>5
<1>4. ASSUME NEW p \in Procs, NEW e \in Ends, PipeClose(p, e) PROVE [Q!QNext]_(Q!qvars)
  <2>1. CASE freed'
    <3>1. QueueOf' = <<>>
      BY <2>1 DEF QueueOf
    <3>2. Q!Discard
      BY <2>1, <3>1 DEF Q!Discard, QueueOf
    <3> QED
      BY <3>2 DEF Q!QNext
  <2>2. CASE ~freed'
    <3>1. UNCHANGED <<data, nread, nwrite, freed>>
      BY ZenonT(30), <1>4, <2>2 DEF PipeClose
    <3> QED
      BY <1>1, <3>1
  <2> QED
    BY <2>1, <2>2
<1> QED
  BY ZenonT(30), <1>1, <1>2, <1>3, <1>4 DEF Next, Fork, FileClose, Exit, Kill, WriteLock, WriteFail,
     WriteFull, WriteSleep, WriteDone, ReadLock, ReadKilled, ReadEmpty, ReadSleep

\* The pipe implements a bounded queue of bytes: none is lost, duplicated,
\* reordered or overwritten before piperead() takes it, for every PIPESIZE that
\* divides the range of a uint.
THEOREM ImplementsByteQueueHolds == Spec => ImplementsByteQueue
<1>1. Init => Q!QInit
  <2> SUFFICES ASSUME Init PROVE Q!QInit
    OBVIOUS
  <2>1. Counters /\ nread = 0 /\ nwrite = 0 /\ ~freed
    BY Sizes DEF Init, Counters
  <2>2. Used = 0
    BY <2>1, Sizes, UsedFacts
  <2>3. QueueOf = <<>>
    BY <2>1, <2>2 DEF QueueOf
  <2> QED
    BY <2>1, <2>3 DEF Q!QInit, QueueOf, Init
<1>2. PipeInv /\ [Next]_vars => [Q!QNext]_(Q!qvars)
  <2>1. ASSUME UNCHANGED vars PROVE UNCHANGED Q!qvars
    BY <2>1 DEF vars, Q!qvars, Used
  <2> QED
    BY <2>1, QueueStep
<1> QED
  BY <1>1, <1>2, PipeInvHolds, PTL DEF Spec, ImplementsByteQueue, Q!QSpec

=============================================================================
