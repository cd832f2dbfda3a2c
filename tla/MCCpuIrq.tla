------------------------------ MODULE MCCpuIrq ------------------------------
(* Interrupt nesting and sharing on small instances of CpuIrq.             *)
EXTENDS CpuIrq

\* The boot core has enabled every interrupt; INTID 0 is the most urgent one.
MCSnapshotImages ==
  {[pending    |-> {},
    enabled    |-> Slots,
    active     |-> {},
    line_level |-> {},
    priorities |-> [s \in Slots |-> IF s[2] = 0 THEN 0 ELSE MaxPrio - 1]]}

MCSetup == [lines |-> {1}, messages |-> {0}, pmrs |-> {}, eoimodes |-> {},
            uses |-> {}, tidy |-> TRUE]

\* Handlers and manual acknowledgements of two interrupts, nested in each other
\* and in system calls, in both EOI modes, and under a priority mask.
MCNest ==
  {[MCSetup EXCEPT !.eoimodes = {TRUE, FALSE}, !.uses = {"svc"}],
   [MCSetup EXCEPT !.eoimodes = {TRUE, FALSE}, !.pmrs = {1, 2}],
   [MCSetup EXCEPT !.pmrs = {1, 2}, !.uses = {"svc", "pendr"}]}

\* A guest that follows the architecture's rules only.
MCRules == {[MCSetup EXCEPT !.eoimodes = {TRUE, FALSE}, !.tidy = FALSE]}

\* A line that two cores share, with its registers written, and with the cores'
\* masks; or the cores signal each other and wait, by WFI or by WFE.
MCShare ==
  {[MCSetup EXCEPT !.messages = {}, !.uses = {"enabler", "activer", "ipriorityr"}],
   [MCSetup EXCEPT !.messages = {}, !.uses = {"ipriorityr"}, !.pmrs = {0, 1}],
   [MCSetup EXCEPT !.lines = {}, !.uses = {"wfi"}],
   [MCSetup EXCEPT !.lines = {}, !.uses = {"wfe"}]}

(* The epoch is only ever compared for equality with a copy of it, and it  *)
(* never decreases, so a copy that differs now differs for ever.  States   *)
(* that agree on which copies are fresh behave alike.                      *)
FreshCache(g, cpu) ==
  IF g.cache[cpu].valid /\ g.cache[cpu].epoch = g.epoch
  THEN [g.cache[cpu] EXCEPT !.epoch = 0] ELSE EmptyCache

GicView(g) == [g EXCEPT !.epoch = 0, !.cache = [cpu \in Cpus |-> FreshCache(g, cpu)]]

FreshQuery(c) ==
  IF c.query.valid /\ c.query.epoch = gic.epoch
  THEN [c.query EXCEPT !.epoch = 0] ELSE NoQuery

MCView == <<setup, GicView(gic), [p \in Cpus |-> [core[p] EXCEPT !.query = FreshQuery(core[p])]],
            apr, waived>>
=============================================================================
