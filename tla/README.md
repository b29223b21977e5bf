# ARVIS: a TLA+ model of its specialization pipeline

ARVIS takes a C benchmark and a RISC-V core (CV32E40P) and specializes both:
frequent instruction sequences become *fused* instructions in the CUSTOM opcodes,
counted loops become *hardware loops*, everything the program does not use is
*pruned* from the RTL, and each variant is simulated and synthesized so that the
best one can be reported. The program is a sequential Python driver around GCC,
an assembler, Verilator and Yosys. Its difficulty is not concurrency but
bookkeeping: dozens of mutable fields say which binary, which RTL, which flags
and which cached verdict are current, every external tool may fail, and failures
lead to retries with other binaries.

Paths below are relative to `src/arvis/` unless they start with `src/`.

## 1. Inventory

| Component | State it keeps | Operations | Interacts with | Correct when |
|---|---|---|---|---|
| **Custom encoding space** (`pipeline/custom_insn_registry.py`, `codegen/gcc/peephole_gen.py`, `codegen/gcc/gimple_config_gen.py`) | next free R4 slot of each generator; a registry of four hardware-loop instructions for each of assembler and RTL | number a `.md` pattern, number a 3-gram, align to a funct3, skip to the next opcode | slots go from the merge to the 3-grams to `GCCCompileResult` to both registries and the RTL decoder | no two instructions of one binary share an encoding; RTL and assembler agree |
| **GCC build and compile** (`pipeline/gcc_compile.py`) | images, merged patterns, the result, files in the output directory | run passes, merge, build image, compile, inspect the ELF, reuse a result | encoding generators; fusion stage | the result belongs to this benchmark and this image |
| **RTL change set** (`pipeline/rtl_changeset.py`, `codegen/rtl/rtl_pruning.py`) | depth, counter width, fused operations, prune config, a *resolved* flag | `add_*`, `resolve`, `apply` (copy, prune, insert, write flags) | shared by pruning, sweep, steps 2-5 | flags, parameters and pruned ports match the RTL just written |
| **Pruning stage** (`pipeline/pruning.py`) | baseline, hardware-loop-only and fused prune configs | disassemble an ELF, compute the config | change set, verification | an RTL keeps all that the binary on it uses |
| **Verification pipeline** (`pipeline/runner.py`, `verification.py`, `context.py`) | the context: hex/ELF fields, `sim_*`, `hex_*`, `verilator_extra_flags`; the round | fusion, hardware loops, pruning, steps 1-5, two rounds, retries | everything | every stored number is of the binary and RTL its label names |
| **HW_LOOP sweep** (`pipeline/hwloop_sweep.py`, `runner._sweep_hwloop_candidates`) | results and RTL directory by candidate; saved values; winners | evaluate, retry with validated loops, `pick_best`, restore | change set, context, simulators | winners passed and are best; the rest is as before |
| **Hardware-loop stage** (`pipeline/hwloop.py`) | candidates; verdict cache; mask cache of a selection; temporary sources | make candidates, pre-validate, select loops, revert merges | patcher, simulators, verification | caches mean what they are used for; the result was measured |
| **Assembly loop patcher** (`codegen/hwloop/generator.py`, `analysis/hwloop.py`) | loops and their nesting, groups, lines to insert and remove | find loops, check eligibility, select, number, derive counts, insert set-up words | encodings of the registry, the core | same trip count; no register of a running loop overwritten |
| **Hardware loops of the core** (`src/targets/cv32e40p/rtl/template/cv32e40p_hwloop_regs.sv`, `codegen/rtl/hwloop_pragma.py`) | start, end, counter and reload value per id; state of the controller | write bounds, write count, decrement, reload, jump back | patched programs; counter width from the sweep | control goes back exactly count - 1 times, nested or not |
| **Merge of assembly** (`codegen/hwloop/merge_asm.py`) | merged source, replaced functions | choose a function's body, rename labels, revert one | hardware-loop stage | every function is whole and from one source |
| **Fusion stage** (`pipeline/fusion_rtl.py`, `codegen/rtl/isa_fusion/alu_single_cycle.py`) | words found in the binary; filtered operations; patches around the generated code | read the words, filter, generate decoder, multiplexers and expressions | GCC result, change set | each fused word of a binary selects its pattern's operation, which computes what the pattern means |
| **Mining of candidates** (`analysis/fusion.py`, `pipeline/selection.py`) | n-grams of a trace, scores | count, score, rank | fusion stage | scores only order candidates |
| **Suite pipeline** (`pipeline/multi_runner.py`) | files of each program in its directory, `.baseline` copies, loop builds, one prune config and RTL, the sweep | save originals, static passes, merge (which raises), patch loops, prune, sweep depths, set the winner | all stages | the shared RTL keeps what every program it runs needs; originals stay originals |
| **Prefetch sweep, profiling** (`pipeline/prefetch_sweep.py`, `profiling.py`) | depth, results | try depths, keep the best | simulators | restored after the sweep |
| **Specialised decoder, encoding optimizer** (`codegen/rtl/decoder_gen.py`, `encoding_optimizer.py`, `analysis/isa_db.py`, `analysis/enum_usage.py`) | decoder cases; members, values and widths of enumerations | emit the groups of each opcode, hoist and default signals; drop and renumber members | prune config, fused operations | words kept mean what they meant, others are illegal; values fit |
| **Pragma processors, dead-code elimination, patchers** (`codegen/rtl/*`) | text of the RTL | generate or remove tagged lines, remove unused declarations, insert templates | change set | no mention without a declaration |
| **GCC plugins** (`src/tools/gcc-plugin/*.c`) | matched statements, hardware-loop candidates | match 3-grams, mark loops | `patterns.json` | semantics of the replaced statements |
| **Analyses** (`analysis/cfg.py`, `liveness.py`, `loops.py`, ...) | graphs of a binary | pure | fusion, patcher | agree with their definitions |
| **Tools and reports** (`simulation/`, `synthesis/`, `report/`) | files | run Verilator and Yosys, print | pipeline | a failure is not mistaken for a result |

The hard behaviours: a retry changes which binary is current after RTL was made
for another one; values are saved, overwritten by a loop over candidates and
restored; objects are shared or copied by `deepcopy`; caches outlive the thing
they were keyed on; two rounds write the same context fields; a failed tool
reports zero, which looks good to a minimum; and three encoders share one space
and exchange only a number. Each is an entry of `hazards` in `PROJECT.json`, with
the line where it bites. Nothing runs concurrently, so there are no interleavings to model in the driver. What
survives a run are files: the suite's `.baseline` and `*_hwonly` files
(in `SuitePipeline`) and the compile cache (in the plan). The specialised core is
the exception: its controller and its aligner decide side by side, from the same
counters, whether a hardware loop goes on.

## 2. What is modelled

**`CustomEncoding`** follows one benchmark through all users of the encoding
space. `AddMdPattern` is an iteration of either R4 loop of `generate_merged_md`;
`AddTrigramR4` and `AddTrigramR` are iterations of `generate_gimple_config` with
that function's own arithmetic (16 slots per opcode where the others have 32);
`CompileMerged` is what `gcc_compile.run` hands on, failures included;
`BuildAssemblerRegistries` and `BuildRtlRegistry` are the two places that build
the hardware-loop registry and the *different* conditions by which they pick its
first slot, which differ when every used instruction is rejected (section 3).
The text of a pattern is abstracted: only that it takes a slot
matters. `Ambiguous` is what the generated decoder can distinguish.

**`Verification`** is `run_pipeline` from the fused build to the summary. A hex
and its ELF are one *build* (program, depth, variant, how it was made); an RTL is
what it was pruned for and what it contains; a stored simulation is the triple of
both and the flag its simulator was built with. `pc` is the position in
`_run_verification`; each step is one action (with the retry of steps 4 and 5 as
alternatives inside it), each candidate of the sweep is one. Every outcome of
GCC, assembler, simulation and synthesis is a choice. It uses two modules without
state: **`RTLChangeSet`** (`resolve`, `apply` as functions of a change set and a
prune config; the objects and who shares them are state of `Verification`) and
**`HwloopSweep`** (`pick_best`).

**`LoopSelection`** is `_select_beneficial_loops`: baseline and all-on
measurement, the loop-by-loop test with the renumbering of survivors, and the
three tiers (one loop, exhaustive, genetic search with re-enable and greedy
phases). What a set of loops costs is an arbitrary function chosen once.
The random populations are the nondeterministic choice of any mask that improves
the score: a member that does not improve it changes nothing but the cache, and
caching is a question of time only as long as `CacheSound` holds.

**`Prevalidation`** is `_prevalidate_loops` and the module-level `_preval_cache`
over several calls with different sources, simulators and depths.
**`MergeRevert`** is `_test_merged_functions`: cumulative reverts, temporary
files, cleanup.

**`HwloopNest`** runs a patched program on a core with hardware loops. The
program is given as the shape the loop detector sees (`LoopShape`: nesting,
eligibility, and for each loop how its induction variable starts, what the back
branch compares it with, and the step). `HwloopPlan` is what `HWLoopGenerator` decides
before patching: groups, the loops selected when there are more than registers
(in any order of benefit), ids, the case analysis of `_determine_count`, and
`analyze_counter_width`. `HwloopCore` is the hardware as functions of a record:
the register file, the decrement logic and state of the controller, the jump of
the aligner. The machine has one action per point of the program: `RootBounds`,
`SetupCount`, `InnerBounds` and `ClearInner` are what `_build_insertion_map`
inserts, `BackHw` a back branch removed, `BackSw` one left alone; `Pre`,
`Head` and `Step` are the program's own instructions, during which the controller
runs too. **`LoopNest`** is the abstract specification: the program as compiled,
all its loops ended by branches. `HwloopNest` refines it; the mapping hides the
set-up points.

**`FusedOps`** is the way of a 2-gram pattern from the merged `.md` file to the
RTL: `Compile` lets GCC emit any words of the patterns, `Inspect` is
`used_instructions` as `gcc_compile.py` collects it from the binary, `Filter` is `compute_filtered_ops` with an arbitrary candidate of the
profile, `Patch` is `_apply_fusion_patches`. `Decodes` is the case that
`generate_decoder_for_opcode` emits for the operation's funct3 group.
**`FusedPatterns`** has what both need and no state: the patterns of two
operations that the `.md` generators emit, how an operation is classified
(unit, strategy, multiplier pattern) and what the patchers connect for it.
**`FusedDatapath`** adds the meaning of a pattern (`Meaning`, from the `.md`
generators) and, independently, the value the generated SystemVerilog computes
(`Result`): an expression with its swaps, the ALU's adder, the shared multiplexer
of immediates, the multiplier (which reads its third register only in operations
of three inputs), and what is read where a wire was not patched in. The bitwise operations on words, which hardware and pattern share, are the
constants `WordAnd`, `WordOr` and `WordXor`; `MCFusedOps` gives them the real ones.

**`PrunedCore`** is `_copy_and_prune` from the binaries found to the re-encoded
enumerations, one action per pass, with the passes whose errors are warnings
allowed to fail. **`RiscvIsa`** is the table `ISA_DB` with the control signals of
each mnemonic; **`SpecializedDecoder`** the emitters of `decoder_gen.py`, opcode by
opcode, as a function from a word to signals, beside `Original`, the decoder of
the shipped core; **`RtlPruning`** the analyses of the binaries and the removal of
case items, registers and parameters, beside the case items of the shipped ALU
and CSR file (of the latter those that a list of removable CSRs can name); **`RtlCleanup`** the four
families of pragmas, dead-code elimination and `encoding_optimizer.py`. A line
of RTL is the names it declares and mentions, and its pragma.

**`SuitePipeline`** is `run_suite_pipeline`. A file is the name of the build it
comes from; each `make` may fail and leave any part of its files; the pipeline may
start on the files an earlier run left. `StaticPass`, `PatchLoops`, `Pruning` and
`Simulate` are its stages, the last once per depth. The merge is `NoMerge`, when
the passes have found nothing, or `MergeRaises`: the call unpacks three values into
two names (`multi_runner.py:254`), so a suite with patterns goes no further and
the code behind the merge has no action. A run without fusion starts with the pruning.

One step of `HwloopNest` is one instruction. The generator pads every body to 16 bytes and adjacent
ends apart so that the aligner, which runs ahead, sees settled counters; the model
takes that for granted.

`TimesOut` in `LoopSelection`, `Prevalidation` and `SuitePipeline`, and `TestTimesOut` in
`MergeRevert`, is `subprocess.TimeoutExpired`, which no
caller catches: it ends the pipeline from wherever the call is.

`...Proofs` modules hold the theorems of the module they are named after,
`SimulationTestProofs` those of `Prevalidation` and `MergeRevert`.
Definitions marked "Seeded fault" are variants of the definition below them; each
property of a passing run fails when the one named for it in
`PROJECT.json` replaces the original.

## 3. What is checked

Runs that pass:

| Run | Bounds | Shows |
|---|---|---|
| `CustomEncoding` | the real 128 slots, up to 4 3-grams | `.md` patterns are pairwise distinguishable up to the limit; no pattern of a binary lies in a funct3 of its hardware-loop instructions; these differ in funct3 wherever the registry starts; nor does one of an RTL that has fused operations; 3-grams in R4 format keep apart |
| `Verification` | depths 1-2, two candidates, two cycle counts, cells {0, 1, 3} | results belong to their labels, flags to the RTL, read port C survives the pruning option, winners earned it, recorded hexes passed, saved prune configs stay as they were |
| `LoopSelection` | three loops, three cycle counts, exhaustive up to 2 | cached outcomes are of the loops the mask means; the best cost is measured; exhaustive search is optimal; greedy ends in a local optimum; the call returns |
| `Prevalidation` | two sources, loops, builds; three calls | exact for a source tried on one build; otherwise each verdict was seen on some build |
| `MergeRevert` | three functions, three cycle counts | current cycles are of the current source; every revert kept paid |
| `HwloopNest` | up to four loops in six shapes, 15 kinds of loop, counts up to 9, 5-bit registers, 1-3 hardware loops | the counter is the number of iterations left; a running loop keeps its registers; no counter survives its group; the patched program runs what the original runs, and ends |
| `FusedOps` | every 2-gram pattern alone, and in pairs those that share a funct3, a multiplexer or ports; two words per binary, words of 4 bits, four register values | every word of a binary selects the operation of its pattern, or is one of the named rejections; what is decoded computes what the pattern means, outside five named classes |
| `PrunedCore` | six programs in all combinations as fused, core and Spike binary; 10 opcodes with every funct3 and seven funct7; 40 lines of the core | the specialised decoder agrees with the original on every word of the program, and on every word it still takes, bit 31 of an `OP` word aside; the program's ALU operations, units and CSRs survive, the latter with named exceptions; no name is mentioned undeclared (without interrupts and debug); values of enumerations fit |
| `SuitePipeline` | two programs, two static passes, depths 0 and 1, cells {0, 1, 2}, cycles {1, 2} | `.baseline` files stay original, over runs of the pipeline too; the RTL keeps the instructions of each original build simulated without hardware loops, and the CSRs of the first program; the winner passed and is best |

Why these bounds are enough. *Encodings*: the slot space is the real one, and
four 3-grams cover both formats and both sides of a multiple of four. *Depths and
candidates*: two depths distinguish "this depth" from "another one"; two
candidates give every relation between the winners (same, same depth, different
depth), and cell counts 1 and 3 with cycles 1 and 2 make the area-delay product
disagree with the cycles; 0 cells is a failed synthesis. With three candidates
and `Cells = {0, 1}` (9.8 million states, four minutes) nothing changes. *Loops*:
with `ExhaustiveMax = 2` instead of 6, three loops exercise all three tiers; the
proofs have no such bound. *Cycle counts* 1-3 allow a mask to be better, equal,
worse and beyond the penalty of twice the baseline. *Calls*: three let a source
come back after another one.

*Loop nests*: one loop, two in
sequence, two nested (also with either one not eligible), three nested, two
inside one, and two nests in sequence are all the ways two loops can be related,
and with one and two hardware loops every group has loops left to branches, also
between configured ones. The 15 kinds reach every branch of `_determine_count` that yields
a count, counts of one included, and an inner count that changes with the outer
variable. They are whole-step loops that do not wrap around, as counted C
loops are compiled: others are described below. Registers of 5 bits hold
every value; the limits of the counter width (8, 16, 32, margin 1) are scaled to
2, 3, 5 with the same margin.

*Fused operations*: a pattern is one of finitely many records, so that all of
them are tried. What two can do to one another they do through a shared funct3
group, a shared multiplexer of immediates, the multiplier or the ports of the
register file; the pairs cover these. A word of 4 bits instead of 32 keeps a
sign, a shift amount below the width, an immediate as long as the shift amount,
and a carry; the register values have both signs, both parities and both ends.
The proofs cover words of 32 bits and all register values.

*Pruned core*: the programs use lone members of each group of the decoder (the
emitters decide by what a group has), one multiplier mode each and single CSRs,
those of the debug block among them; funct7 0, 1, 32, 33, 64, 65 and 96 reach
each arm of the original decoder and each of its two prefix checks;
the lines are those of the shipped core where two features meet, and a chain of
dead declarations, which it does not have. *Suite*: what a program needs is
something no other needs, the worst case of a shared RTL (once as an instruction,
once as a CSR, since the two are kept by different analyses); two programs let one
succeed where the other fails, two passes save twice.

Fairness is assumed by `LoopSelection`'s `FairSpec` and by `HwloopNest`: weak
fairness of `Next`. A core that is clocked executes its next instruction, and
the program decides which that is.
In the selection, the call is sequential code that nothing interrupts, each measurement
ends (a simulator stops at its cycle limit or the subprocess timeout raises), so
an enabled step is eventually taken. No fairness is put on single actions: the
genetic phase may not be forced to end by it, and terminates because every
modelled improvement lowers the score. All other properties are safety.

Deadlock checking is off for the modules whose function returns or raises;
`Verification` has an explicit final step and keeps it on.

Runs that TLC refutes, each against a sentence of the code:

| Run | What happens |
|---|---|
| `FusedReverse` | of the reversed patterns only those with `sub` have their operands swapped (`fusion_rtl.py:325`): the table compares text, and shifts and comparisons are written with a masked amount and `$signed`; `fusion_rtl.py:297` lists all six |
| `SuiteMerge` | the static passes find patterns, and the merge raises `ValueError` (`multi_runner.py:254` takes two of the three values of `peephole_gen.py:432`), though `multi_runner.py:126` describes passes, a merge and one build, and `peephole_gen.py:245` two values |
| `InterruptsKept` | with interrupts in use, REMOVE pragmas still delete the controller's interrupt ports (`rtl_pragma.py:122`), though `irq_pragma.py:6` says that everything is kept |

Noticed while modelling, without a run of their own.

*Pipeline.* Past 16 `.md` patterns, a 3-gram in R-type format has the encoding
of a 2-gram (`gimple_config_gen.py:341`, against the comment at line 89). The
winners of the sweep are compared by depth, not as candidates, so that a
best-cycles winner of the same depth never runs (`hwloop_sweep.py:88`, against
`runner.py:846`), and the summary prefers a best-cycles run that timed out, with
0 cycles, to one that passed (`summary.py:30`). The source
`_test_merged_functions` returns was deleted by its own cleanup
(`hwloop.py:254`). An objcopy that fails in step 4's retry leaves the check with
another file (`runner.py:505`). The Docker baseline falls back over images and
compilers, each failure leaving other files behind (`runner.py:80`). Valid loops
found at one depth are handed to the selection of another (`runner.py:724`).
When no candidate passes, "disabling" is printed (`hwloop_sweep.py:78`) and
steps 4 and 5 run with the depth of the hardware-loop stage; the loop selection's simulator
is built with the HW_LOOP flag of the last `apply`, which may be of another depth
than its RTL (`runner.py:644`); a verdict of one RTL is returned for another,
because `_preval_cache` knows neither build nor depth (`PassedSomewhere` is what
is left); the registry spreads its four instructions over two opcodes when it starts at slot 13-16 of an
opcode, because `add_hwloop_count` advances one slot more than the
check of `custom_insn_registry.py:54` allows for (harmless to the present
decoder, which goes by funct3: `HwloopFunct3Unique`); the slots `peephole_gen.py:79`
calls reserved are given to patterns; a 3-gram in R4 format can land in a
hardware-loop funct3, because the two count the space differently; a registry
that overflows raises `ValueError` through the pipeline (`phase = "error"`); an
explicit hex that is missing is passed over in silence (`verification.py:188`,
`missing` in `Verification`; `ResultsBelong` leaves it out); step 4 of
the second round overwrites `hex_hwloop_pruned` of the first; without fused
operations step 2 runs the original program on RTL pruned for the fused one;
step 5's retry runs a validated binary on RTL pruned for the failing one; a single
loop is kept even if it costs cycles; and when all loops cost more than twice the
baseline the genetic search returns a mask that does not run, because
failures score twice the baseline (the hypothesis of `BestIsMeasured`).

*Encodings of the hardware loops.* The assembler's registry starts behind the
fused slots when the binary uses custom words (`hwloop.py:1318`), the RTL's when
operations are left (`rtl_changeset.py:201`). If `compute_filtered_ops` rejects
every used instruction, the RTL decodes the hardware-loop words at other slots
than the binary has them. `CustomEncoding` has this behaviour; no property denies
it. `HwloopOwnsFunct3` is what each registry guarantees on its own.

*Fused operations.* The five classes `DatapathImplementsPattern` excludes are
real differences, each confirmed by dropping it: reversed operands (the
finding); an arithmetic right shift as first operation, whose value is used in a
wider expression; a 5-bit immediate compared as signed; a `xori` that the
profile always saw with -1, folded to a `not` for all its immediates; and a
multiply-accumulate the profile saw with fewer than three inputs, in a funct3
group that has R4 words too: its words are taken, but `alu_single_cycle.py:1149`
selects the third register for three inputs only, and 0 is accumulated
(operations of the ALU select it whenever their expression names it). With one
input `regb_used_o` is not set either (`alu_single_cycle.py:1143`), which
disables forwarding and stalls; the datapath here has no pipeline, so that is not
modelled.
`compute_filtered_ops` rejects `mul` patterns other than multiply-accumulate
although their words stay in the binary, and a pattern the profile saw with
fewer than three inputs decodes only words with `rs3` = x0: both leave illegal
instructions, which `WordsDecode` names. `compute_filtered_ops` reads
`encoding_type`, which nobody writes (`fusion_rtl.py:543`). An arithmetic right
shift as second operation selects a bit of a parenthesised expression, which is
not legal SystemVerilog (the model takes the bit that is meant).
`update_alu_op_width` never widens, since the literals it looks at are already as
wide as the package declares, and more than 54 fused ALU operations would overflow the
7-bit parameter. Operations whose funct3 is that of a hardware-loop entry are
skipped by the RTL's registry; one with at most one input in opcode 0x5B reads
`rs2` as an immediate.

*Pruning.* `CsrAccessesKept` names four exceptions; TLC finds it violated
without that of `dpc`, and without that of the debug CSRs. `mcountinhibit` has no name in the analysis and `mhpmevent`
goes with the counters, so reads of either may be removed. The register of `dpc`
is listed as `depc` (`rtl_pruning.py:49`), which no analysis produces
(`instruction_usage.py:66`), so that it is removable whether `dpc` is accessed or not.
The case items and registers of the debug CSRs stand in REMOVE blocks, which
`rtl_pragma.py:122` deletes with debug enabled as well as without. The
specialised decoder selects `OP` instructions by bits 30:25 (`decoder_gen.py:264`)
where the original rejects words with bit 31 (`cv32e40p_decoder.sv:528`): it
takes such a word for the one without the bit, which `DecoderFaithful` names. `ENABLE_MULH` forgets `mulhu`, without
effect because no parameter is ever overridden. Dead-code elimination removes a
whole declaration of several names when one is dead (the shipped core has none);
on the shipped core it finds one signal, and the re-encoding nothing to shrink.
The generator of `controller_exc_pc_mux_init` returns nothing when interrupts
are on, so the line goes. With interrupts on and debug off, a kept interrupt
block still mentions debug signals. The passes that would tie off the interrupt
controller and the APU dispatcher (`rtl_pruning.py:1238`) search
`cv32e40p_core.sv`, whose instances stand in the ID and EX stages: they change nothing,
and `ApplyPruner` has no step for them. The docstring at `rtl_changeset.py:715` names enumerations that are not
re-encoded.

*Suite.* After a static pass that found nothing, pruning analyses its ELF files
while the `.baseline` hex files are simulated; a second run without fusion analyses
what the first one left (hence the condition on the build in
`SimulatedNeedsKept`). The code behind the merge, which never runs, would give an
operation the immediates of the first program only (`multi_runner.py:341`). If a hex file is missing at
the very first start, the second save takes a later one for the original (hence
the condition in `BaselineIsOriginal`). The RTL on disk belongs to the last depth
swept, not to the winner's (against `multi_runner.py:4`). Depths other than the
best are simulated with binaries nobody analysed, and files with hardware loops
add their mnemonics but not their ALU operations; the profile of CSRs is the
first program's; a failed assembly leaves an older `*_hwonly.hex` to be
simulated. When no depth passes, printing `None` as a number raises; a depth at
which no program has a hex passes.

*Loop patcher.* An eligible loop inside an ineligible one inside an eligible one
starts a group of its own with id 0, whose registers the outermost loop is using
(`generator.py:180`). The counter width is that of constants only, and larger
counts in registers are cut off (`hwloop_sweep.py:163`). A loop that counts up to zero from a negative constant takes its
induction variable, a negative number, for the count (`generator.py:982`; its
docstring says |init| / |step|); with an immediate initial value, a register bound
and a power of two as step, an unassigned `tmp` raises (`generator.py:1110`, op "raise" in
`HwloopPlan`); a traced bound with a register as initial value is always taken to
count up; an ordered branch (`blt`, `bge`) whose distance is not a multiple of the step
runs once more than the distance divided by the step; an interrupt that returns to
the last instruction of a body finds the controller in the state in which only
a counter of 1 is decremented.

## 4. What is proved

All by `tlapm`, with the constants arbitrary under the named assumptions.

| Module | Theorems | Assumption | Inductive invariant |
|---|---|---|---|
| `HwloopNestProofs` | `TypeCorrect`, `OwnBoundsCorrect`, `NoStaleCounterCorrect`, `CounterIsDistanceCorrect`, `ImplementsOriginalProgram` | programs are well-formed nests; see below for the conditions on loops | see below |
| `VerificationProofs` | `TypeCorrect`, `ResultsCorrect`, `WinnersCorrect`, `FlagCorrect`, `ReadPortCorrect`, `HexOfPassingCorrect`, `AllPrunedCorrect`, `SavedConfigsCorrect` | there is a cycle count; cells, cycles and depths are positive | what each step needs of the change set, the configurations and the builds when its turn comes; what a stored result was made of; during the sweep, that the candidates tested so far lie before the position and the rest are untouched |
| `CustomEncodingProofs` | `TypeCorrect`, `MdPatternsDistinctThm`, `HwloopOwnsFunct3Thm`, `HwloopFunct3UniqueThm`, `TrigramsR4ApartThm` | `MaxTrigrams` is a natural number | `.md` is exactly the encodings of the slots below `r4_slot`; `next_r4_slot` lies behind it once a fused word is used; the 3-grams are the encodings of the slots handed out, each once; each registry is the one its next slot determines |
| `LoopSelectionProofs` | `TypeCorrect`, `CacheSoundThm`, `BestIsMeasuredThm`, `GreedyIsLocallyOptimalThm`, `ExhaustiveIsOptimalThm` | the loops are 1..n, cycle counts are positive | what is known of all loops when a search starts; survivors are fewer than the positions passed; the best is no worse than any mask counted so far; while a greedy pass has changed nothing, no loop behind it is worth disabling |
| `PrunedCoreProofs` | `TypeCorrect`, `CsrAccessesAlwaysKept`, `BinaryAlwaysRuns`, `DecoderAlwaysFaithful`, `EncodingAlwaysFits`, `CleanupAlwaysDeclared` | compressed instructions are those of RV32C, words those of the base opcodes with any fields; no CSR is called `depc`; the declared members have room in their width; no declaration line has both a used and an unused name; any binaries and lines otherwise | after pruning, a missing case item has only counters or only removable labels, or is one whose operations nothing analysed uses; the configuration and the decoder are the ones computed from the binaries; enumerations are as declared, or re-encoded for the text that is left; of what the pragmas leave, only declarations of names nothing uses are gone |
| `SuitePipelineProofs` | `BaselineAlwaysOriginal`, `WinnerAlwaysBest`, `SimulatedNeedsAlwaysKept` | programs and depths are positive numbers; no product of cells and cycles reaches infinity | each program has either nothing saved and an untouched directory or the original saved; the depths left are deeper than all swept, the best so far is the first of the least; what was simulated is what the files say, the configuration knows every ELF file of the directories, and its profile is the first of them; an original ELF file comes with no other hex file than the original |
| `FusedOpsProofs` | `WordsAlwaysDecode`, `DatapathAlwaysImplements` | registers have 2, 4, 8, 16 or 32 bits, bitwise operations map words to words; any patterns, binary and register values | each word has a pattern of the `.md` file; `used_instructions`, the operations and the wires are what the words, a match of the profile and the operations make them |
| `SimulationTestProofs` (of `Prevalidation`) | `ExactOnOneBuildThm`, `PassedSomewhereThm` | the loops are 1..n; any sources and builds | every verdict, cached or returned, is that of a build its source was tried on |
| `SimulationTestProofs` (of `MergeRevert`) | `CurrentIsMeasuredThm`, `RevertsPayThm` | the functions are 1..n, cycle counts are positive | kept reverts lie behind the function being tested, the current source is the last of them and the fastest so far |

The properties are not inductive as they stand. `HwloopOwnsFunct3`, for instance,
speaks of finished registries, and survives a step only because the free slot
was already behind every pattern when the registry was built; the rest is
arithmetic of slots (`Align`, `EnsureSameOpcode`), stated as lemmas.
`GreedyIsLocallyOptimal` speaks of the end, and needs what a pass knows half way
through. In each module the proof has one step per action, and `PTL` combines
initiality, inductiveness and implication.

### The refinement of `HwloopNest`

A patched program implements the compiled one: `ImplementsOriginalProgram`
states it for any nest, any number of loops and hardware loops, any selection
the generator may take, any width. The argument has four layers, each an invariant of
its own:

1. `Typed`: control is at a point of the program, the registers hold numbers of
   their width, the selection is a plan.
2. `Owned`: the loops inside which control is belong to one group and have
   different ids (`IdsOwn`, `GroupsOwn`), so their registers are their own; outside the
   group everything is zero (`Quiet`); from a group's end on, the counters are
   cleared in turn (`Cleared`). `OwnBounds` and `NoStaleCounter` follow.
3. `Measured`: the induction variable is set up when the count is calculated
   (`Started`), the counter of a running loop and its variable together always
   make the bound (`Counted`), and the controller is in the state in which it
   decrements (`Ready`). `CountOfRegular`, the longest lemma, shows that
   *every* way of `_determine_count` (shifts by a power of two, folded and traced
   constants, registers, a count already in the variable) gives the number
   of steps from start to bound. `CounterIsDistance` follows, and with it that the
   jump of the aligner goes where the removed branch went (`WrapsAsBranch`).
4. `Ranged` and `Planned`: every loop is on its way to its bound, so that a
   start found later, from the variable of an outer loop, is one of those the
   constants allow.

The theorems name what the program has to satisfy, since the code does not
check it:

- `Apart` (bounds and counters): no eligible loop lies inside an ineligible one
  inside an eligible one. Both groups would use id 0; section 3 describes it.
- `RegularLoops` (counters, refinement): constants are as a register holds
  them; a loop from a register to a constant counts up, because the generator
  subtracts start from bound whatever the direction (`generator.py:887`).
- `WholePrograms` (counters, refinement): from each of its starts a loop reaches
  its bound in whole steps without passing the end of the number range, and the
  counter is wide enough for them. A register count may be wider than the counter
  (section 3), and a branch on inequality only ends in whole steps.

All programs of the run satisfy the three, so the run and the theorems speak of the
same system. `TypeCorrect` needs none of them.

### The pruned core

The configuration is computed from one set of binaries (`Analysis`), and another
one runs (`Running`). `BinaryAlwaysRuns` rests on `RunningIsAnalysed` (the binary
that runs is always among those analysed) and on the tables of `RiscvIsa`: the
operation of an instruction is never removable, and an item of the ALU goes only
when all its operations are. Only `fence` and `fence.i` escape: the decoder enables
the ALU for an operation the analysis does not count, but nobody reads that
result, so the property exempts them. `DecoderAlwaysFaithful` compares the
decoders opcode by opcode (`DecodesBranch` ... `DecodesUpper`): with any subset of
an opcode's instructions left, the generated block gives a word either the
signals of the original decoder or none. For `OP` words this holds of words without
bit 31 (`ClearedWord` makes one of any word, `EncodedWord` shows that every
word an instruction encodes is one); `BlindToBit31` shows that the specialised decoder
gives a word with the bit the signals of the word without. `CsrAccessesAlwaysKept`
covers the debug CSRs only up to the pragmas, which delete them, and the
register of `dpc` not at all; `StorageOf` relates the names of the two tables.
`EncodingAlwaysFits`
rests on `KeptAreUsed` (dropping members loses none in use) and `BitsAreEnough`.
Only the three enumerations `analyze_enum_usage` looks at are re-encoded, so the
special values of the ALU operations (`_plan_alu_with_div_constraints`) never
come into play.

### Fused operations

`WordsAlwaysDecode` rests on `SlotDecoded`: `funct3` and `funct2` of a pattern's slot
tell the slots apart, and an operation keeps its slot through all filters.

`DatapathAlwaysImplements` says that every decoded operation outside the five named
classes (`KnownToDiffer`) computes its pattern on words of any of the widths. The
way a pattern is computed has one lemma each: `MultComputes` (for
operations of one or two inputs with a third register of 0), `InlineComputes`,
`AdderComputes` (with the multiplexers in front of the adder, on the first or
the second step) and `ShifterComputes`. They share `ParamStepIsInstruction` (the
constant or the shared multiplexer has an arm for every immediate of the
operation), `PatchesMade` (the bus and the multiplexers are there whenever an
operation needs them) and `ExpressionIsInstruction` (each generated expression,
cut to a word, is the instruction of the base ISA). In the last,
`ConcatenationIsSar` is the one with arithmetic in it: the shifted
concatenation of sign and operand, twice as wide as a word, has the arithmetic
shift as its lower half.

### The text that is left

`CleanupAlwaysDeclared` is about the text of the core without debug and interrupts.
Which names the lines of it declare and mention is data, and so are the pragmas in
it. The theorem separates this from what the code does with it:

- `PragmasAgree`, its hypothesis: after the four families of pragmas every name that
  is mentioned is declared. It is a statement about one text. For the lines of
  the run TLC finds it true: it is `CleanupDeclared` in the phase `dce`, but for
  the names the package itself mentions, which are none there.
- `CoreAssumption`, which TLC evaluates on the runs: no line declares a name
  that is used beside one that is not. Dead-code elimination removes a whole line
  for one dead name, and such a line would lose the other.
- The proof then covers what follows: each of the five passes (`PassKeeps`, unrolled by
  `DeadCodeIs`) removes only declarations of names that *nothing in their file of the
  original text* uses (`OnlyUnusedGone`), although a pass looks only at the
  text the last one left and a name can be dead merely because another declaration of it
  is gone; cleaning the assertions touches no code line (`CleanKeepsCode`); and the
  re-encoding keeps each member a remaining line mentions (`ReencodingFits`). Each
  of the two steps may fail on its own.

### What helped

There is no induction rule to cite for a recursive definition here. Where the
argument is one over numbers (that counting visits every mask, that a power of two is
positive, that a value n steps away is reached) it is the principle that a non-empty set
of naturals has a least element. The inductive invariants were checked with TLC
on the runs before they were proved.

### Model-checked only

- That the pragmas of the core agree with one another (`PragmasAgree`): it holds by
  what the lines and pragmas of the shipped text are, which are a constant here.
- `Terminates` of `LoopSelection` and `HwloopNest`: liveness.

## 5. What is not modelled

- **The text of programs and RTL.** Pattern matching, SystemVerilog rewriting and
  assembly are data here.
- **Of the loop patcher**: parsing, the eligibility tests (a loop is eligible or
  not, arbitrarily), the choice of free registers and spills, removal of the step of an
  induction variable nothing else reads, jumps and branches into a loop, padding.
- **Of the core**: cycles, stalls, prefetching, branches inside a body (the
  deferred decrement), interrupts and debug.
- **Of the fusion stage**: 3-grams (their words come from a GCC plugin in C),
  patterns with loads and stores, timing and area of the generated logic.
- **Of the specialised decoder**: the SYSTEM opcode, which the generator writes
  whole, and register and immediate fields, which it copies.
- **Mining, prefetch sweep, profiling, analyses of traces**: their results are
  scores that order candidates; the models take any order. The prefetch sweep has
  the structure of the depth sweep of `SuitePipeline`.
- **The Docker baseline, image builds and the compile cache** of `gcc_compile.py`;
  synthesis results other than the cell count.
- **The start set of the selection in `Verification`**: `SelectLoops` may produce
  any selection of the depth. The detail is `LoopSelection`.
- **Sweeps with one candidate** use the RTL directory an earlier run may have left
  on disk; `Verification` starts from an empty output directory.
- **objcopy failures outside step 4's retry and the suite.** Where no Docker image
  is used the status is ignored and the previous hex may run again; listed as a
  hazard.
- CLI, configuration, HTML, reports, Spike extension generator (they produce
  text), and of the core's SystemVerilog all but its hardware-loop register file,
  controller and aligner, its decoder, and the lines its pragmas stand in.

## 6. Plan

Done, in order of weight: encoding space, verification pipeline with its change
sets and sweep, loop selection, pre-validation, merge reverts, hardware-loop
nests on the core, fused operations from binary to datapath, the pruned core
from analysis to re-encoding, the suite pipeline; proofs of all their invariants
but those of section 4's last list, and of the refinement.

Next, in order:

1. `HwloopNest` at the level of cycles: the aligner ahead of the controller, stalls,
   branches at the end of a body and their deferred decrement, interrupts.
2. `LoopEligibility`: the tests of `analysis/hwloop.py` on small bodies, against
   "the trip count is known before the loop starts".
3. `CompileCache`: reuse, fallback over images, partial files after a failure.
4. `HwloopPlan` and `Prevalidation` composed with `LoopSelection`: the valid set
   handed from one depth to another (`runner.py:724`).
5. Algorithms against reference definitions: 3-gram matching, liveness and loop
   detection.

## 7. Running it

    tlc -config Verification.cfg Verification.tla
    tlapm LoopSelectionProofs.tla

`PROJECT.json` maps each definition to the lines it models, lists runs, seeded
faults, hazards, findings and theorems.
