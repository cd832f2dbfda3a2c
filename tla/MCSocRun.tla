------------------------------ MODULE MCSocRun ------------------------------
(* The main loop on small instances.                                       *)
EXTENDS SocRun

\* Every interrupt enabled at one priority.
MCSnapshotImages ==
  {[pending    |-> {},
    enabled    |-> Slots,
    active     |-> {},
    line_level |-> {},
    priorities |-> [s \in Slots |-> 0]]}

MCSetup == [legacy |-> FALSE, all_start |-> TRUE, sdl |-> FALSE, least_run |-> 1,
            does |-> {"timer", "wfi"}, timers |-> {"virt"}]

\* Two cores program their timers and wait, in both scheduler modes; the boot
\* core powers the other on, they signal each other by events and stores, use a
\* device, stop and halt; or they signal by SGI and wait in every way.
MCSmp ==
  {MCSetup,
   [MCSetup EXCEPT !.legacy = TRUE, !.does = {"timer"}],
   [MCSetup EXCEPT !.all_start = FALSE,
                   !.does = {"wfe", "store", "device", "cpu_on", "off", "halt"}],
   [MCSetup EXCEPT !.least_run = 2, !.does = {"wfi", "sgi", "daif", "wfe"}]}

\* One core with both of its timers and the MMIO timer.
MCUniprocessor ==
  {[MCSetup EXCEPT !.does = {"timer", "mmio_timer", "wfi", "daif", "halt"},
                   !.timers = {"virt", "phys"}]}

MCKeys == {[MCSetup EXCEPT !.sdl = TRUE, !.does = {"wfi"}]}
MCSgi  == {[MCSetup EXCEPT !.does = {"wfi", "sgi", "daif"}]}
=============================================================================
