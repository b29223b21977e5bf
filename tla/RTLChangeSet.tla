----------------------------- MODULE RTLChangeSet -----------------------------
(***************************************************************************)
(* RTLChangeSet: what a set of RTL changes resolves to and what apply()    *)
(* writes.  The module has no state of its own: the pipeline keeps one     *)
(* change set for the whole run and makes three short-lived ones, and      *)
(* prune configs are mutable objects several of them may share, so         *)
(* Verification keeps both and uses the operators below.                   *)
(*                                                                         *)
(* A prune config is reduced to the binary it was computed from, the third *)
(* register-file read port and the hw_loop value that ends up in the       *)
(* Verilator flags.  The CUSTOM opcode groups that resolve() keeps are     *)
(* never removable (PruneConfig.from_analysis), so they are left out.      *)
(***************************************************************************)
EXTENDS Naturals

\* compute_prune_config for the binary elf; keepRdC is the CLI override.
PruneConfigOf(elf, keepRdC) == [elf |-> elf, rdC |-> keepRdC, hwLoop |-> 0]

\* A change set without its prune config; r4: some fused operation has three
\* inputs.
ChangeSet(hwLoop, fused, r4) ==
  [hwLoop |-> hwLoop, fused |-> fused, r4 |-> r4 /\ fused, resolved |-> FALSE]

\* Seeded fault: a new prune config is taken for resolved.
AddPruneConfigResolved(cs) == cs

\* add_prune_config and add_fused_operations make resolve() run again.
AddPruneConfig(cs) == [cs EXCEPT !.resolved = FALSE]

\* resolve(): R4 words, the hardware-loop ones included, read a third register.
\* Runs once per prune config.
Resolve(cs, config) ==
  IF cs.resolved
  THEN config
  ELSE [config EXCEPT !.hwLoop = IF cs.hwLoop > 0 THEN cs.hwLoop ELSE @,
                      !.rdC    = @ \/ cs.hwLoop > 0 \/ cs.r4]

\* The prune config as apply() leaves it, in place: resolved, and its hw_loop in
\* step with the change set when hardware loops are on.
AppliedConfig(cs, config) ==
  IF cs.hwLoop > 0 THEN [Resolve(cs, config) EXCEPT !.hwLoop = cs.hwLoop]
                   ELSE Resolve(cs, config)

\* The RTL apply() generates: a fresh copy, pruned, with the fused and the
\* hardware-loop datapath, and the parameter HW_LOOP written into every file.
AppliedRtl(cs, config) ==
  [prunedFor |-> config.elf,
   fused     |-> cs.fused,
   r4        |-> cs.r4,
   hwLoop    |-> cs.hwLoop,
   rdC       |-> AppliedConfig(cs, config).rdC]

\* Seeded fault: the flags are taken before the config is resolved.
AppliedFlagUnresolved(cs, config) == config.hwLoop

\* The -GHW_LOOP of ctx.verilator_extra_flags after apply().
AppliedFlag(cs, config) == AppliedConfig(cs, config).hwLoop
=============================================================================
