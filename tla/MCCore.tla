------------------------------- MODULE MCCore -------------------------------
(* What the cores rely on, each part in a system of its own: the           *)
(* controller they ask, on two CPUs, one banked SGI and one SPI, with      *)
(* three priority values of which the last (0xFF) is never deliverable;    *)
(* the software step; loads and stores; and memory.                        *)
EXTENDS GicV3, SoftwareStep, MCInsns, MCMemory

\* A snapshot taken in the middle of handling the SPI, its line still high.
MCSnapshotImages ==
  {[pending    |-> {<<0, 0>>},
    enabled    |-> Slots,
    active     |-> {<<0, 1>>},
    line_level |-> {<<0, 1>>},
    priorities |-> [s \in Slots |-> 0]]}

\* An instruction that has completed, or that its handler cannot help, ends.
MCInsnEnds ==
  /\ \/ ls_phase = "done"
     \/ /\ ls_phase = "faulted"
        /\ LET e == ls_machine.excs[1]
           IN e.kind # "translation" \/ e.far \div PageBytes \notin DOMAIN ls_machine.pages
  /\ UNCHANGED ls_vars

\* The parts share nothing here: one of them moves.
MCInit ==
  /\ part \in {"gic", "step", "insn"} \cup MCMemoryParts
  /\ GicInit
  /\ Init /\ (part # "step" => ~mdscr_ss /\ ~locked /\ ~spsr.ss /\ ~spsr.i)
  /\ IF part = "insn" THEN MCLoadStoreInit ELSE MCLoadStoreIdle
  /\ IF part \in MCMemoryParts THEN MCMemoryInit ELSE MCMemoryIdle

MCNext ==
  /\ UNCHANGED part
  /\ IF part = "gic" THEN GicNext ELSE UNCHANGED gic
  /\ IF part = "step" THEN Next ELSE UNCHANGED vars
  /\ IF part = "insn" THEN LoadStoreNext \/ MCInsnEnds ELSE UNCHANGED ls_vars
  /\ IF part \in MCMemoryParts THEN MCMemoryNext ELSE UNCHANGED <<mmu_vars, shared_vars>>

MCSpec == MCInit /\ [][MCNext]_<<part, gic, vars, ls_vars, mmu_vars, shared_vars>>
=============================================================================
