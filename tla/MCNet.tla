-------------------------------- MODULE MCNet --------------------------------
(* The network device with small rings and a small memory.                 *)
EXTENDS VirtioNet

\* A segment in one descriptor, with the descriptor after it.
Segment(addr, len, write, next) ==
  [addr |-> addr, len |-> len, write |-> write, next |-> next, indirect |-> FALSE]
Buffer(addr, len) == Segment(addr, len, TRUE, -1)
Packet(addr, len) == Segment(addr, len, FALSE, -1)

(* Receive descriptors 10 and 11, rings from 12 and 16, buffers 34..36 and *)
(* 37..39; transmit descriptors 22 and 23, rings from 24 and 28, buffers   *)
(* 40..42 and 43..45.                                                      *)
MCLayouts == (Rx :> [num |-> 2, desc |-> 10, avail |-> 12, used |-> 16]) @@
             (Tx :> [num |-> 2, desc |-> 22, avail |-> 24, used |-> 28])

\* Two ways to stop the queues first: reset the device, or only its queues.
MCPrograms == Program(Rx, MCLayouts[Rx]) \o Program(Tx, MCLayouts[Tx])
MCNetReset(features) ==
  <<<<"Status", 0>>, <<"EmptyRings", 0>>, <<"DriverFeatures", features>>>> \o MCPrograms
MCNetStop ==
  <<<<"QueueSel", Tx>>, <<"QueueReady", 0>>, <<"QueueSel", Rx>>, <<"QueueReady", 0>>, <<"EmptyRings", 0>>>>
    \o MCPrograms

MCNetMemory(rx0, rx1, tx0, tx1) ==
  [c \in 8..45 |-> CASE c = 10 -> rx0 [] c = 11 -> rx1 [] c = 22 -> tx0 [] c = 23 -> tx1
                     [] OTHER -> 0]

\* The heads that are offered, and the cells their frame numbers are in.
MCNetSetup(loopback, lead, scripts, mem, rx, tx) ==
  [layouts |-> MCLayouts, loopback |-> loopback, lead |-> lead, scripts |-> scripts, mem |-> mem,
   heads |-> (Rx :> DOMAIN rx) @@ (Tx :> DOMAIN tx), frame_cell |-> (Rx :> rx) @@ (Tx :> tx)]

MCTwo(a, b) == (0 :> a) @@ (1 :> b)

\* A host that sends; the short header in single buffers.
MCNetHost ==
  MCNetSetup(FALSE, FALSE, <<MCNetReset(0), MCNetReset(0)>>,
             MCNetMemory(Buffer(34, 2), Buffer(37, 2), Packet(40, 2), Packet(43, 2)), MCTwo(35, 38), <<>>)
\* Both directions; the long header, negotiated, in chains of two segments.
MCNetMerged ==
  MCNetSetup(FALSE, FALSE, <<MCNetReset(1)>>,
             MCNetMemory(Segment(34, 1, TRUE, 1), Buffer(37, 3), Segment(40, 2, FALSE, 1), Packet(43, 1)),
             0 :> 38, 0 :> 43)
\* The loopback and the long header, never negotiated: a driver that restarts,
\* and one that sends two frames at once.
MCNetGuess(scripts, tx) ==
  MCNetSetup(TRUE, FALSE, scripts,
             MCNetMemory(Buffer(34, 5), Buffer(34, 5), Packet(40, 3), Packet(43, 3)), 0 :> 36, tx)
\* The loopback and the short header: two frames at once,
MCNetShort ==
  MCNetSetup(TRUE, FALSE, <<MCNetReset(0)>>,
             MCNetMemory(Buffer(34, 2), Buffer(37, 2), Packet(40, 2), Packet(43, 2)),
             MCTwo(35, 38), MCTwo(41, 44))
\* and the header in a segment of its own, before a frame that begins with zeros.
MCNetShortZeros ==
  MCNetSetup(TRUE, TRUE, <<MCNetStop>>,
             MCNetMemory(Buffer(34, 5), Buffer(34, 5), Segment(40, 1, FALSE, 1), Packet(43, 2)),
             0 :> 36, 0 :> 44)

MCNetSetups == {MCNetHost, MCNetMerged, MCNetShort, MCNetShortZeros,
                MCNetGuess(<<MCNetStop, MCNetStop>>, 0 :> 42), MCNetGuess(<<MCNetStop>>, MCTwo(42, 45))}

ASSUME MCRoomy == {u \in MCNetSetups : Roomy(u)} = MCNetSetups \ {MCNetHost, MCNetShort}

\* The short header and a frame that begins with zeros, in one segment.
MCNetOneSegment ==
  {MCNetSetup(TRUE, TRUE, <<MCNetReset(0)>>,
              MCNetMemory(Buffer(34, 5), Buffer(34, 5), Packet(40, 3), Packet(43, 3)),
              0 :> 36, MCTwo(42, 45))}
=============================================================================
