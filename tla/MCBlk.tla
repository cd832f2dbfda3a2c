-------------------------------- MODULE MCBlk --------------------------------
(* The block device with small rings, small memories and a disk of two     *)
(* sectors.                                                                *)
EXTENDS VirtioBlk

D(addr, len, write, next) ==
  [addr |-> addr, len |-> len, write |-> write, next |-> next, indirect |-> FALSE]
H(type, sector) == [type |-> type, sector |-> sector]

(* Memory cells: RAM is 8..45.  Usually descriptors are 10..15, the avail  *)
(* ring 16..23, headers 24 and 25, data 26..29, status 30 and 31, the used *)
(* ring 32..45.                                                            *)
MCLayout == [num |-> 6, desc |-> 10, avail |-> 16, used |-> 32]

MCMemory(layout, descriptors, headers) ==
  [c \in 8..45 |-> IF c \in layout.desc..(layout.desc + 5) THEN descriptors[c - layout.desc + 1]
                   ELSE IF c \in DOMAIN headers THEN headers[c] ELSE 0]

\* A driver selects the queue, programs it, and lets it run.
MCProgram(layout) ==
  <<<<"EmptyRings", 0>>, <<"QueueSel", 1>>, <<"QueueNum", 2>>>> \o Program(0, layout)

\* Two ways to stop it first: reset the device, or only its queue.
MCScripts(layout) ==
  <<<<<<"Status", 0>>, <<"DriverFeaturesSel", 1>>, <<"DriverFeatures", 1>>, <<"Status", 15>>>>
      \o MCProgram(layout),
    <<<<"QueueReady", 0>>>> \o MCProgram(layout)>>

\* What the driver fills with fresh data, and where its status goes.
MCChain(data, status) == [data |-> data, status |-> status]

MCBlkSetup(descriptors, header1, header2, chains) ==
  [layout |-> MCLayout, scripts |-> MCScripts(MCLayout), sound |-> TRUE,
   mem |-> MCMemory(MCLayout, descriptors, (24 :> header1) @@ (25 :> header2)), chains |-> chains]

\* A write of one sector, and a read of the same one.
MCWriteRead ==
  MCBlkSetup(<<D(24, 1, FALSE, 1), D(26, 2, FALSE, 2), D(30, 1, TRUE, -1),
               D(25, 1, FALSE, 4), D(28, 2, TRUE, 5), D(31, 1, TRUE, -1)>>,
             H("out", 1), H("in", 1),
             (0 :> MCChain({26, 27}, {30})) @@
             (3 :> MCChain({}, {31})))
\* A write in two segments, and a flush.
MCSegments ==
  MCBlkSetup(<<D(24, 1, FALSE, 1), D(27, 1, FALSE, 2), D(26, 1, FALSE, 3), D(30, 1, TRUE, -1),
               D(25, 1, FALSE, 5), D(31, 1, TRUE, -1)>>,
             H("out", 0), H("flush", 0),
             (0 :> MCChain({26}, {30})) @@
             (4 :> MCChain({}, {31})))
\* A write whose second segment is not RAM, and a chain that loops.
MCBroken ==
  MCBlkSetup(<<D(24, 1, FALSE, 1), D(26, 1, FALSE, 2), D(50, 1, FALSE, 3), D(30, 1, TRUE, -1),
               D(25, 1, FALSE, 5), D(28, 1, TRUE, 5)>>,
             H("out", 0), H("in", 0),
             (0 :> MCChain({26}, {30})) @@ (4 :> MCChain({}, {})))
\* The identification in two segments, and a header the device may not read.
MCIdentify ==
  MCBlkSetup(<<D(24, 1, FALSE, 1), D(26, 1, TRUE, 2), D(28, 2, TRUE, 3), D(30, 1, TRUE, -1),
               D(25, 1, TRUE, 5), D(31, 1, TRUE, -1)>>,
             H("get_id", 0), H("other", 0),
             (0 :> MCChain({26}, {30})) @@ (4 :> MCChain({}, {31})))
\* A write, and a read of the same sector into a segment that is not writable.
MCReadOnly ==
  MCBlkSetup(<<D(24, 1, FALSE, 1), D(26, 2, FALSE, 2), D(30, 1, TRUE, -1),
               D(25, 1, FALSE, 4), D(28, 2, FALSE, 5), D(31, 1, TRUE, -1)>>,
             H("out", 0), H("in", 0),
             (0 :> MCChain({26}, {30})) @@ (3 :> MCChain({}, {31})))
\* The same, with the write past the end.
MCPastEnd == [MCReadOnly EXCEPT !.mem[24] = H("out", 3)]
\* A read past the end, and a write of half a sector.
MCEdges ==
  MCBlkSetup(<<D(24, 1, FALSE, 1), D(26, 2, TRUE, 2), D(30, 1, TRUE, -1),
               D(25, 1, FALSE, 4), D(28, 1, FALSE, 5), D(31, 1, TRUE, -1)>>,
             H("in", 2), H("out", 0),
             (0 :> MCChain({}, {30})) @@ (3 :> MCChain({28}, {31})))
\* The rings do not fit in RAM: the used elements, the avail entries, the used index.
MCUnsound(layout) ==
  [MCWriteRead EXCEPT !.layout = layout, !.scripts = MCScripts(layout), !.sound = FALSE]
MCLowLayout == [num |-> 6, desc |-> 20, avail |-> 32, used |-> 6]

MCBlkSetups ==
  {MCWriteRead, MCSegments, MCBroken, MCIdentify, MCReadOnly, MCPastEnd, MCEdges,
   MCUnsound([MCLayout EXCEPT !.used = 40]), MCUnsound([MCLayout EXCEPT !.avail = 40]),
   [layout |-> MCLowLayout, scripts |-> MCScripts(MCLowLayout), sound |-> FALSE,
    mem |-> MCMemory(MCLowLayout,
              <<D(41, 1, FALSE, 1), D(42, 1, TRUE, -1), D(40, 1, TRUE, -1),
                D(40, 0, FALSE, 1), D(40, 1, FALSE, 1), D(43, 1, FALSE, 1)>>,
              (41 :> H("other", 0)) @@ (43 :> H("flush", 0))),
    chains |-> (0 :> MCChain({}, {42})) @@ (5 :> MCChain({}, {42}))]}

ASSUME MCHeaders == \A u \in MCBlkSetups : u.sound => HeadersKept(u) /\ SectorsFit(u)

\* A write so far past the end that its byte offset is zero again.
MCBlkWrapped == {[MCReadOnly EXCEPT !.mem[24] = H("out", 8)]}
ASSUME MCOffset == \A u \in MCBlkWrapped : u.sound /\ HeadersKept(u) /\ ~SectorsFit(u)
=============================================================================
