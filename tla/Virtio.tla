------------------------------- MODULE Virtio -------------------------------
(***************************************************************************)
(* What both virtio devices of the machine promise their drivers.  The     *)
(* devices share nothing but the bus.                                      *)
(***************************************************************************)
EXTENDS VirtioBlk, VirtioNet

(* All rings of both devices implement the queue a driver relies on: every *)
(* chain comes back once and in order, through wrapping indices, failing   *)
(* requests, restarts of the driver and snapshots (process_queue,          *)
(* process_tx, process_rx).                                                *)
RingsAreQueues == BlkRingIsQueue /\ NetRingsAreQueues

(* The driver of either device is told of what it has to collect           *)
(* (raise_interrupt, clear_interrupt).                                     *)
DriversTold == BlkDriverTold /\ NetDriverTold
=============================================================================
