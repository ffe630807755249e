-------------------------------- MODULE Uart --------------------------------
(***************************************************************************)
(* The UART driver of kernel/uart.c: write() calls in uartwrite(), which   *)
(* take turns by tx_busy and sleep until a transmit interrupt, while       *)
(* echoes and printf() write to the same register without the lock.        *)
(*                                                                         *)
(* The device is external: writing THR queues a byte and withdraws the     *)
(* transmit interrupt, the interrupt is raised when the queue runs empty,  *)
(* and reading ISR acknowledges it.  The PLIC lets one CPU at a time       *)
(* handle the device.                                                      *)
(***************************************************************************)
EXTENDS Integers, Sequences

CONSTANTS
    Writers, None,
    Length,             \* bytes per write()
    MaxTyped, MaxPrints \* bounds: characters typed, bytes printed by the kernel

VARIABLES
    thr,        \* bytes the device has yet to send
    thri, rx,   \* its transmit interrupt; characters received and not read
    tx_busy, tx_lock,
    pc, i,      \* of a writer in uartwrite()
    h,          \* where the interrupt handler is, or "none"
    k,          \* where a kernel printf() is
    typed, prints

vars == <<thr, thri, rx, tx_busy, tx_lock, pc, i, h, k, typed, prints>>

Init ==
    /\ thr = 0 /\ thri = FALSE /\ rx = 0
    /\ tx_busy = FALSE /\ tx_lock = None
    /\ pc = [p \in Writers |-> "acquire"] /\ i = [p \in Writers |-> 0]
    /\ h = "none" /\ k = "none" /\ typed = 0 /\ prints = 0
-----------------------------------------------------------------------------
(* The device *)

Send ==
    /\ thr > 0
    /\ thr' = thr - 1 /\ thri' = (thri \/ thr = 1)
    /\ UNCHANGED <<rx, tx_busy, tx_lock, pc, i, h, k, typed, prints>>
Receive ==
    /\ typed < MaxTyped
    /\ typed' = typed + 1 /\ rx' = rx + 1
    /\ UNCHANGED <<thr, thri, tx_busy, tx_lock, pc, i, h, k, prints>>
WriteTHR == thr' = thr + 1 /\ thri' = FALSE
Idle == thr = 0     \* LSR_TX_IDLE
-----------------------------------------------------------------------------
(* uartwrite() *)

WAcquire(p) ==
    /\ pc[p] \in {"acquire", "woken"} /\ tx_lock = None
    /\ tx_lock' = p /\ pc' = [pc EXCEPT ![p] = "loop"]
    /\ UNCHANGED <<thr, thri, rx, tx_busy, i, h, k, typed, prints>>

WLoop(p) ==
    /\ pc[p] = "loop"
    /\ \/ /\ i[p] = Length
          /\ pc' = [pc EXCEPT ![p] = "done"] /\ tx_lock' = None
          /\ UNCHANGED <<thr, thri>>
       \/ /\ i[p] < Length /\ tx_busy
          /\ pc' = [pc EXCEPT ![p] = "asleep"] /\ tx_lock' = None
          /\ UNCHANGED <<thr, thri>>
       \/ /\ i[p] < Length /\ ~tx_busy
          /\ WriteTHR /\ pc' = [pc EXCEPT ![p] = "wrote"]
          /\ UNCHANGED tx_lock
    /\ UNCHANGED <<rx, tx_busy, i, h, k, typed, prints>>

WBusy(p) ==
    /\ pc[p] = "wrote"
    /\ i' = [i EXCEPT ![p] = @ + 1] /\ tx_busy' = TRUE
    /\ pc' = [pc EXCEPT ![p] = "loop"]
    /\ UNCHANGED <<thr, thri, rx, tx_lock, h, k, typed, prints>>
-----------------------------------------------------------------------------
(* uartintr(), with the echo of consoleintr(), and a printf() elsewhere *)

IntrStart ==
    /\ h = "none" /\ (thri \/ rx > 0)
    /\ h' = "lock" /\ thri' = FALSE
    /\ UNCHANGED <<thr, rx, tx_busy, tx_lock, pc, i, k, typed, prints>>

IntrAcquire ==
    /\ h = "lock" /\ tx_lock = None
    /\ tx_lock' = "intr" /\ h' = IF Idle THEN "idle" ELSE "busy"
    /\ UNCHANGED <<thr, thri, rx, tx_busy, pc, i, k, typed, prints>>

Woken == [p \in Writers |-> IF pc[p] = "asleep" THEN "woken" ELSE pc[p]]
\* Mutant: the interrupt is acknowledged only after LSR was read.
IntrReleaseAck ==
    /\ h \in {"idle", "busy"}
    /\ tx_lock' = None /\ h' = "rx" /\ thri' = FALSE
    /\ tx_busy' = (tx_busy /\ h # "idle")
    /\ pc' = IF h = "idle" THEN Woken ELSE pc
    /\ UNCHANGED <<thr, rx, i, k, typed, prints>>
IntrRelease ==
    /\ h \in {"idle", "busy"}
    /\ tx_lock' = None /\ h' = "rx"
    /\ tx_busy' = (tx_busy /\ h # "idle")
    /\ pc' = IF h = "idle" THEN Woken ELSE pc
    /\ UNCHANGED <<thr, thri, rx, i, k, typed, prints>>

\* Every character that is read may be echoed.
IntrGetc ==
    /\ h = "rx" /\ rx > 0
    /\ rx' = rx - 1 /\ h' \in {"rx", "echo"}
    /\ UNCHANGED <<thr, thri, tx_busy, tx_lock, pc, i, k, typed, prints>>
IntrDone ==
    /\ h = "rx" /\ rx = 0 /\ h' = "none"
    /\ UNCHANGED <<thr, thri, rx, tx_busy, tx_lock, pc, i, k, typed, prints>>

\* uartputc_sync(): it sees the register idle, and then writes it.
EchoSpin ==
    /\ h = "echo" /\ Idle /\ h' = "put"
    /\ UNCHANGED <<thr, thri, rx, tx_busy, tx_lock, pc, i, k, typed, prints>>
EchoPut ==
    /\ h = "put" /\ WriteTHR /\ h' = "rx"
    /\ UNCHANGED <<rx, tx_busy, tx_lock, pc, i, k, typed, prints>>
Printf ==
    /\ k = "none" /\ prints < MaxPrints
    /\ k' = "spin" /\ prints' = prints + 1
    /\ UNCHANGED <<thr, thri, rx, tx_busy, tx_lock, pc, i, h, typed>>
PrintfSpin ==
    /\ k = "spin" /\ Idle /\ k' = "put"
    /\ UNCHANGED <<thr, thri, rx, tx_busy, tx_lock, pc, i, h, typed, prints>>
PrintfPut ==
    /\ k = "put" /\ WriteTHR /\ k' = "none"
    /\ UNCHANGED <<rx, tx_busy, tx_lock, pc, i, h, typed, prints>>

Handler == \/ IntrStart \/ IntrAcquire \/ IntrRelease \/ IntrGetc \/ IntrDone
           \/ EchoSpin \/ EchoPut
Printing == PrintfSpin \/ PrintfPut
Writer(p) == WAcquire(p) \/ WLoop(p) \/ WBusy(p)
Next ==
    \/ Send \/ Receive \/ Handler \/ Printf \/ Printing
    \/ \E p \in Writers : Writer(p)

\* The device sends what it has and the CPUs run; nobody need type or print.
Spec ==
    /\ Init /\ [][Next]_vars
    /\ WF_vars(Send) /\ WF_vars(Handler) /\ WF_vars(Printing)
    /\ \A p \in Writers : WF_vars(Writer(p))
-----------------------------------------------------------------------------
(* Properties *)

\* A writer sleeps only while an interrupt that will wake it is still to come or is
\* being handled: an echo cannot swallow it.
NoLostTransmit ==
    \A p \in Writers : pc[p] = "asleep" =>
        tx_busy /\ (thr > 0 \/ thri \/ h \in {"lock", "idle"})

\* The write() of p to the console has ended.
Written(p) == pc[p] = "done"

\* Every write() to the console ends.
WritesEnd == \A p \in Writers : <>Written(p)
=============================================================================
