------------------------------ MODULE MCVirtio ------------------------------
(***************************************************************************)
(* The disk driver for TLC.  Ring entries that were consumed, headers and  *)
(* statuses of free descriptors and the heads of finished requests are     *)
(* overwritten before they are read again: the view leaves them out.       *)
(***************************************************************************)
EXTENDS Virtio, Sequences, TLC

Symmetry == Permutations(Procs) \cup Permutations(Data)

Live(ring, from, to) ==
    [k \in 1..(to - from) % IDXS |-> ring[(from + k - 1) % NUM]]

View ==
    <<free, desc, info_b,
      [p \in InFlight |-> <<head[p], ops[head[p]], info_status[head[p]]>>],
      Live(avail, dev_idx, avail_idx),
      IF vdisk_lock \in Procs THEN avail[avail_idx % NUM] ELSE 0,
      Live(used, seen_idx, used_idx),
      avail_idx, used_idx, seen_idx, dev_idx, vdisk_lock, b_disk, data, pc,
      blocks, taken, pending>>
=============================================================================
