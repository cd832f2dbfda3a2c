------------------------------- MODULE MCInsns -------------------------------
(* Every load and store form on a few machines: accesses that cross pages, *)
(* with either page absent, read-only, closed to users or without memory.  *)
EXTENDS LoadStore

MCDataPages == 1 .. 3
MCFrame == (1 :> 1) @@ (2 :> 0) @@ (3 :> 2)
MCMem == [c \in 0 .. 3 * PageBytes - 1 |-> (c + (c \div 4) + (c \div 16)) % ByteMod]

MCOpen == [mapped |-> TRUE, writable |-> TRUE, user |-> TRUE, device |-> FALSE, ram |-> TRUE]
MCAbsent == [MCOpen EXCEPT !.mapped = FALSE, !.writable = FALSE, !.user = FALSE]
MCPageSets ==
  LET on(first, second) == [p \in MCDataPages |-> [frame |-> MCFrame[p]] @@
                              (CASE p = 1 -> first [] p = 2 -> second [] OTHER -> MCOpen)]
  IN  {on(MCOpen, MCOpen), on(MCAbsent, MCOpen), on(MCOpen, MCAbsent),
       on([MCOpen EXCEPT !.user = FALSE], [MCOpen EXCEPT !.writable = FALSE]),
       on([MCOpen EXCEPT !.writable = FALSE], [MCAbsent EXCEPT !.device = TRUE]),
       on(MCOpen, [MCOpen EXCEPT !.ram = FALSE]),
       on([MCOpen EXCEPT !.device = TRUE], [MCOpen EXCEPT !.device = TRUE])}

-----------------------------------------------------------------------------
(* Instructions                                                            *)

MCInsn == [form |-> "unscaled", load |-> TRUE, size |-> 8, rt |-> 1, rt2 |-> 2, rn |-> 0, rm |-> 3,
           rs |-> 2, imm |-> 0, mode |-> "offset", ext |-> "zero", option |-> "lsl", scaled |-> FALSE,
           op |-> "add", bytes |-> 8, count |-> 1, opcode |-> 0, r |-> 0, q |-> 0, s |-> 0, width |-> 0]

MCScalars ==
  {[MCInsn EXCEPT !.load = l, !.size = z] : l \in BOOLEAN, z \in {1, 2, 4, 8}} \cup
  {[MCInsn EXCEPT !.size = z, !.ext = e] : z \in {1, 2}, e \in {"sign32", "sign64"}} \cup
  {[MCInsn EXCEPT !.size = 4, !.ext = "sign64"]}
MCOf(set, form) == {[i EXCEPT !.form = form] : i \in set}
MCBases(set) == set \cup {[i EXCEPT !.rn = 31] : i \in set}

MCScalarInsns ==
  {[i EXCEPT !.imm = -3] : i \in MCOf(MCScalars, "unscaled")} \cup
  {[i EXCEPT !.imm = 1] : i \in MCBases(MCOf(MCScalars, "scaled"))} \cup
  {[i EXCEPT !.imm = 5, !.mode = m] : i \in MCOf(MCScalars, "indexed"), m \in {"pre", "post"}} \cup
  {[MCInsn EXCEPT !.form = "indexed", !.rn = 31, !.rt = 0, !.mode = m, !.load = l, !.imm = -16] :
     m \in {"pre", "post"}, l \in BOOLEAN} \cup
  {[i EXCEPT !.option = o, !.scaled = o # "uxtw"] :
     i \in {j \in MCOf(MCScalars, "register") : j.size \in {1, 4}}, o \in {"uxtw", "sxtw", "lsl"}} \cup
  {[i EXCEPT !.imm = 2] : i \in {j \in MCOf(MCScalars, "literal") : j.load /\ j.size > 2}} \cup
  MCOf(MCScalars, "unprivileged") \cup MCOf({j \in MCScalars : j.ext = "zero"}, "acquire") \cup
  {[MCInsn EXCEPT !.form = f] : f \in {"prefetch", "undefined"}}

MCPairInsns ==
  LET pairs == {[MCInsn EXCEPT !.form = "pair", !.load = l, !.size = z, !.mode = m, !.imm = 8] :
                  l \in BOOLEAN, z \in {4, 8}, m \in {"offset", "pre", "post"}}
  IN  pairs \cup {[i EXCEPT !.ext = "sign64"] : i \in {j \in pairs : j.load /\ j.size = 4}} \cup
      {[i EXCEPT !.rt = 0] : i \in {j \in pairs : j.load /\ j.mode = "offset"}}

MCAtomicInsns ==
  {[MCInsn EXCEPT !.form = "cas", !.size = z, !.rs = r] : z \in {1, 2, 4, 8}, r \in {1, 2}} \cup
  {[MCInsn EXCEPT !.form = "casp", !.size = z, !.rs = r, !.rt = 0] : z \in {4, 8}, r \in {0, 2}} \cup
  {[MCInsn EXCEPT !.form = "rmw", !.op = o, !.size = z] :
     o \in {"swp", "add", "clr", "eor", "set"}, z \in {1, 8}}

MCVecInsns ==
  {[MCInsn EXCEPT !.form = "vec", !.load = l, !.size = z, !.mode = m, !.imm = IF m = "scaled" THEN 1 ELSE -4] :
     l \in BOOLEAN, z \in {1, 4, 16}, m \in {"offset", "scaled", "register", "pre", "post"}} \cup
  MCBases({[MCInsn EXCEPT !.form = "vec_pair", !.load = l, !.size = z, !.mode = m, !.imm = -4] :
     l \in BOOLEAN, z \in {4, 16}, m \in {"offset", "pre", "post"}}) \cup
  {[MCInsn EXCEPT !.form = "vec_indexed", !.load = l, !.size = z, !.mode = m, !.imm = 4] :
     l \in BOOLEAN, z \in {2, 8}, m \in {"pre", "post"}} \cup
  {[MCInsn EXCEPT !.form = "vec_literal", !.size = z, !.imm = 2, !.rn = r] : z \in {4, 16}, r \in {2, 31}}

MCStructInsns ==
  {[MCInsn EXCEPT !.form = f, !.load = l, !.count = n, !.rt = 3, !.mode = m, !.rm = IF n = 2 THEN 31 ELSE 2] :
     f \in {"vec_seq", "vec_struct"}, l \in BOOLEAN, n \in {2, 3}, m \in {"offset", "post"}} \cup
  {[MCInsn EXCEPT !.form = "vec_lane", !.load = l, !.opcode = o, !.r = r, !.width = w, !.s = k, !.q = 1,
                  !.mode = "post", !.rm = 31] :
     l \in BOOLEAN, o \in {0, 2, 4, 5, 6, 7}, r \in {0, 1}, w \in {0, 1}, k \in {0, 1}}

MCInsns == MCScalarInsns \cup MCPairInsns \cup MCAtomicInsns \cup MCVecInsns \cup MCStructInsns

-----------------------------------------------------------------------------
(* Machines                                                                *)

\* Where the first access starts, the pages, what is checked and watched.
MCPlaces ==
  LET place(bases, sets, checks, watch) ==
        {[base |-> b, pages |-> g, checks |-> checks, watch |-> watch] : b \in bases, g \in sets}
      open == {g \in MCPageSets : \A p \in MCDataPages : g[p] = MCOpen @@ g[p]}
  IN  place({56, 61}, MCPageSets, FALSE, {}) \cup place({40, 61}, open, TRUE, {})
      \cup place({56}, open, FALSE, {66})

MCMachine(i, place) ==
  LET at(va) == Number([k \in 1 .. i.size |->
                  MCMem[place.pages[(va + k - 1) \div PageBytes].frame * PageBytes + ((va + k - 1) % PageBytes)]])
      compares == i.form \in {"cas", "casp"}
  IN  Fresh @@
      [x |-> (0 :> place.base) @@ (1 :> (XMod - 2 * WMod) + 7) @@
             (2 :> IF compares THEN at(place.base) ELSE 3) @@
             (3 :> IF i.form = "casp" THEN at(place.base + i.size) ELSE WMod - 1),
       sp |-> place.base, q |-> [r \in 0 .. VecRegs - 1 |-> [p \in 0 .. 15 |-> (r + p) % ByteMod]],
       mem |-> MCMem, pages |-> place.pages, pc |-> 48, watchLoads |-> place.watch,
       watchStores |-> place.watch, alignCheck |-> place.checks, spCheck |-> place.checks]

\* The machines on which an instruction is tried.
MCLoadStoreInit ==
  \E i \in MCInsns, place \in MCPlaces :
    /\ ls_insn = i
    /\ ls_start = MCMachine(i, place)
    /\ ls_machine = ls_start
    /\ ls_phase = "ready"

\* The one that stands still while another part moves.
MCLoadStoreIdle ==
  LET i == CHOOSE i \in MCInsns : i.form = "prefetch"
  IN  /\ ls_insn = i /\ ls_start = <<>> /\ ls_machine = <<>> /\ ls_phase = "idle"
=============================================================================
