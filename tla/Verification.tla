----------------------------- MODULE Verification -----------------------------
(***************************************************************************)
(* The specialization pipeline from the fused build to the final summary:  *)
(* runner.run_pipeline after the analysis phase.                           *)
(*                                                                         *)
(* Every tool outcome (GCC, the assembler, Verilator, Yosys) is a choice.  *)
(* The model keeps which binary each context field names, which RTL is in  *)
(* the output directory and what it was pruned for, which HW_LOOP value    *)
(* the Verilator flags carry, and which result was stored under which      *)
(* label.  The hex and ELF fields of the context always move together and  *)
(* are one build here.                                                     *)
(***************************************************************************)
EXTENDS RTLChangeSet, HwloopSweep, FiniteSets

CONSTANTS
  MaxDepth,          \* hardware-loop nesting depths are 1 .. MaxDepth
  MaxCandidates,     \* bound on the candidates hwloop.run produces
  Cycles,            \* cycle counts a passing simulation may report
  Cells,             \* cell counts Yosys may report; 0 when it fails
  PruneReadPortC     \* cfg.prune_rf_read_c

ASSUME BoundsAssumption ==
  /\ MaxDepth \in Nat \ {0}
  /\ MaxCandidates \in Nat
  /\ Cycles \subseteq Nat \ {0} /\ Cycles # {}
  /\ Cells \subseteq Nat
  /\ PruneReadPortC \in BOOLEAN

-----------------------------------------------------------------------------
(***************************************************************************)
(* Builds, candidates and simulation outcomes.                             *)
(***************************************************************************)
Variant == {"nounroll", "unroll"}
Depth == 1 .. MaxDepth

\* A hex/ELF pair: which program, patched for which depth, how it was made.
Build(kind, hw, variant, origin) ==
  [kind |-> kind, hw |-> hw, variant |-> variant, origin |-> origin]

Builds == [kind : {"none", "orig", "fused", "hwfused", "hwplain"}, hw : 0 .. MaxDepth,
           variant : Variant, origin : {"built", "validated", "selected"}]

NoBuild  == Build("none", 0, "nounroll", "built")
Original == Build("orig", 0, "nounroll", "built")
Fused    == Build("fused", 0, "nounroll", "built")

\* HWLoopCandidate; a build the assembler did not produce is NoBuild.
Candidate == [hw : Depth, variant : Variant, fused : Builds, plain : Builds]

\* Seeded fault: the candidate depths start at 0.
DepthListsFromZero ==
  {s \in UNION {[1 .. n -> 0 .. MaxDepth] : n \in 0 .. MaxDepth} :
     \A i, j \in DOMAIN s : i < j => s[i] < s[j]}

\* A variant yields its depths in order, from 1, skipping the depths that patch
\* no loop more than the one before.
DepthLists == {s \in UNION {[1 .. n -> Depth] : n \in 0 .. MaxDepth} :
                 /\ s # <<>> => s[1] = 1
                 /\ \A i, j \in DOMAIN s : i < j => s[i] < s[j]}


\* The candidates of two depth lists, with the builds that could be made.
Candidates(nounroll, unroll, hasFused, hasPlain) ==
  [i \in 1 .. Len(nounroll) + Len(unroll) |->
     LET variant == IF i <= Len(nounroll) THEN "nounroll" ELSE "unroll"
         hw == (nounroll \o unroll)[i]
     IN [hw |-> hw, variant |-> variant,
         fused |-> IF i \in hasFused THEN Build("hwfused", hw, variant, "built") ELSE NoBuild,
         plain |-> IF i \in hasPlain THEN Build("hwplain", hw, variant, "built") ELSE NoBuild]]

\* A simulation that times out or does not build reports 0 cycles.
Fail == [passed |-> FALSE, cycles |-> 0]
Outcome == {Fail} \cup [passed : {TRUE}, cycles : Cycles]

Label == {"pruned", "fused_pruned", "hwloop_pruned", "hwloop_pruned_best_perf",
          "all", "all_best_perf"}
NoRun == [hex |-> NoBuild, asked |-> NoBuild, flag |-> 0, out |-> Fail,
          rtl |-> [prunedFor |-> NoBuild, fused |-> FALSE, r4 |-> FALSE,
                   hwLoop |-> 0, rdC |-> FALSE]]
NoRtl == NoRun.rtl

-----------------------------------------------------------------------------
VARIABLES
  pc,         \* the next step of the pipeline
  round,      \* "adp" | "perf" | "default": which winner the steps run for
  ctx,        \* the builds the context names: fused_*, hwloop_*, hwloop_only_*
  fusedOnly,  \* ctx.fused_* as it was before the hardware-loop stage
  cands,      \* ctx.hwloop_candidates
  cs,         \* the pipeline's RTLChangeSet
  mainRef,    \* the prune config object cs refers to
  hwonlyRef,  \* the object prune_config_hwonly refers to
  configs,    \* the prune config objects: baseline, hardware-loop only, cs's own
  flag,       \* HW_LOOP in ctx.verilator_extra_flags
  sweepRtl,   \* ctx._sweep_rtl_dirs, by candidate
  results,    \* the sweep's results, by candidate
  saved,      \* what the sweep restores: cs.hwLoop and ctx.fused
  winners,    \* SweepWinners
  sims,       \* ctx.sim_*, by label
  hexes,      \* ctx.hex_*, by label
  missing     \* builds without a hex file

choiceVars == <<fusedOnly, cands>>
configVars == <<mainRef, hwonlyRef, configs>>
sweepVars  == <<sweepRtl, results, saved, winners>>
outVars    == <<sims, hexes, missing>>
vars == <<pc, round, ctx, choiceVars, cs, configVars, flag, sweepVars, outVars>>

Rtl == [prunedFor : Builds, fused : BOOLEAN, r4 : BOOLEAN, hwLoop : 0 .. MaxDepth,
        rdC : BOOLEAN]
Run == [hex : Builds, asked : Builds, flag : 0 .. MaxDepth, out : Outcome, rtl : Rtl]
PruneConfig == [elf : Builds, rdC : BOOLEAN, hwLoop : 0 .. MaxDepth]

\* Each variable holds what the code can put there; in particular every HW_LOOP
\* value is a depth and every stored build one of the kinds above.
TypeOK ==
  /\ pc \in {"fusion", "hwloop", "pruning", "step2", "step3", "sweep", "sweeping",
             "select", "step4", "ga", "step5", "done"}
  /\ round \in {"adp", "perf", "default"}
  /\ ctx \in [fused : Builds, hwloop : Builds, plain : Builds]
  /\ fusedOnly \in Builds
  /\ cands \in Seq(Candidate)
  /\ cs \in [hwLoop : 0 .. MaxDepth, fused : BOOLEAN, r4 : BOOLEAN, resolved : BOOLEAN]
  /\ mainRef \in {"main", "orig"}
  /\ hwonlyRef \in {"hwonly", "orig"}
  /\ configs \in [{"orig", "hwonly", "main"} -> PruneConfig]
  /\ flag \in 0 .. MaxDepth
  /\ sweepRtl \in Seq(Rtl)
  /\ results \in Seq([cycles : Nat, cells : Nat, passed : BOOLEAN, hex : Builds])
  /\ saved \in [hwLoop : 0 .. MaxDepth, fused : Builds]
  /\ winners \in [adp : Nat, cycles : Nat, evaluated : BOOLEAN]
  /\ sims \in [Label -> Run]
  /\ hexes \in [Label -> Builds]
  /\ missing \subseteq Builds

Init ==
  /\ pc = "fusion"
  /\ round = "default"
  /\ ctx = [fused |-> NoBuild, hwloop |-> NoBuild, plain |-> NoBuild]
  /\ fusedOnly = NoBuild
  /\ cands = <<>>
  /\ cs = ChangeSet(0, FALSE, FALSE)
  /\ mainRef = "main"
  /\ hwonlyRef = "hwonly"
  /\ configs = [o \in {"orig", "hwonly", "main"} |-> PruneConfigOf(NoBuild, TRUE)]
  /\ flag = 0
  /\ sweepRtl = <<>>
  /\ results = <<>>
  /\ saved = [hwLoop |-> 0, fused |-> NoBuild]
  /\ winners = [adp |-> 0, cycles |-> 0, evaluated |-> FALSE]
  /\ sims = [l \in Label |-> NoRun]
  /\ hexes = [l \in Label |-> NoBuild]
  /\ missing = {}

-----------------------------------------------------------------------------
(***************************************************************************)
(* Before verification.                                                    *)
(***************************************************************************)
NewConfig(elf) == PruneConfigOf(elf, ~PruneReadPortC)

\* compute_prune_config takes the fused ELF of the context when there is one.
ElfToAnalyze == IF ctx.fused # NoBuild THEN ctx.fused ELSE Original

\* _run_fusion.  The compile may fail, use no fused instruction, or use some
\* that compute_filtered_ops rejects: then there are no fused operations.
RunFusion ==
  /\ pc = "fusion"
  /\ pc' = "hwloop"
  /\ \/ UNCHANGED <<ctx, cs, fusedOnly>>
     \/ /\ ctx' = [ctx EXCEPT !.fused = Fused]
        /\ fusedOnly' = Fused
        /\ \E ops, r4 \in BOOLEAN : cs' = ChangeSet(0, ops, r4)
  /\ UNCHANGED <<round, cands, configVars, flag, sweepVars, outVars>>

\* hwloop.run: the deepest candidate with a hex becomes the default and its
\* fused build replaces the fused-only one in the context.
RunHwloop ==
  /\ pc = "hwloop"
  /\ pc' = "pruning"
  /\ \E nounroll, unroll \in DepthLists :
       LET n == Len(nounroll) + Len(unroll) IN
       /\ n <= MaxCandidates
       /\ \E hasFused, hasPlain \in SUBSET (1 .. n) :
            /\ cands' = Candidates(nounroll, unroll, hasFused, hasPlain)
            /\ IF hasFused \cup hasPlain = {}
               THEN UNCHANGED <<ctx, cs>>
               ELSE LET shallowness == [i \in 1 .. n |-> MaxDepth - cands'[i].hw]
                        best == cands'[FirstMin(hasFused \cup hasPlain, shallowness)]
                    IN /\ cs' = [cs EXCEPT !.hwLoop = best.hw]
                       /\ ctx' = [fused  |-> IF best.fused # NoBuild THEN best.fused
                                                                    ELSE ctx.fused,
                                  hwloop |-> best.fused,
                                  plain  |-> best.plain]
  /\ UNCHANGED <<round, fusedOnly, configVars, flag, sweepVars, outVars>>

\* _run_pruning: three configs when there are fused operations (the hardware-loop
\* one shared with the baseline when there is no such ELF), one shared by all
\* otherwise.
RunPruning ==
  /\ pc = "pruning"
  /\ pc' = "step2"
  /\ IF cs.fused
     THEN /\ configs' = [orig   |-> NewConfig(Original),
                         hwonly |-> NewConfig(ctx.plain),
                         main   |-> NewConfig(ElfToAnalyze)]
          /\ hwonlyRef' = IF ctx.plain # NoBuild THEN "hwonly" ELSE "orig"
          /\ mainRef' = "main"
     ELSE /\ configs' = [configs EXCEPT !.orig = NewConfig(ElfToAnalyze)]
          /\ hwonlyRef' = "orig"
          /\ mainRef' = "orig"
  /\ cs' = AddPruneConfig(cs)
  /\ UNCHANGED <<round, ctx, choiceVars, flag, sweepVars, outVars>>

-----------------------------------------------------------------------------
(***************************************************************************)
(* Steps 1 to 3.                                                           *)
(***************************************************************************)
\* run_post_pruning_check: the hex that runs when asked for one, NoBuild asking
\* for none.  A missing file is passed over in silence.
HexToRun(asked, lost) ==
  IF asked # NoBuild /\ asked \notin lost THEN asked ELSE ElfToAnalyze

RunOf(asked, lost, rtl, hwLoopFlag, out) ==
  [hex |-> HexToRun(asked, lost), asked |-> asked, flag |-> hwLoopFlag, out |-> out,
   rtl |-> rtl]

\* Seeded fault: apply() works on the saved config instead of a deepcopy of it.
ConfigsAfterApplyInPlace(ref, applied) == [configs EXCEPT ![ref] = applied]

\* The steps that build a change set of their own apply a deepcopy of the saved
\* config ref, which stays as it is.
ConfigsAfterApply(ref, applied) == configs

\* Nothing reads whether the simulations of steps 2 and 3 pass: one outcome.
SomeOutcome == [passed |-> TRUE, cycles |-> CHOOSE c \in Cycles : TRUE]

\* Steps 1 and 2: the baseline (original RTL, original hex) and the RTL pruned
\* for the baseline config with the original hex.
StepPruned ==
  LET own == ChangeSet(0, FALSE, FALSE) IN
  /\ pc = "step2"
  /\ pc' = IF cs.fused THEN "step3" ELSE "sweep"
  /\ flag' = AppliedFlag(own, configs["orig"])
  /\ configs' = ConfigsAfterApply("orig", AppliedConfig(own, configs["orig"]))
  /\ sims' = [sims EXCEPT !["pruned"] =
                [hex |-> Original, asked |-> Original, flag |-> flag', out |-> SomeOutcome,
                 rtl |-> AppliedRtl(own, configs["orig"])]]
  /\ UNCHANGED <<round, ctx, choiceVars, cs, mainRef, hwonlyRef, sweepVars, hexes,
                 missing>>

\* Step 3: fused and pruned RTL with the fused-only hex.
StepFused ==
  LET own == ChangeSet(0, TRUE, cs.r4)
      hex == IF fusedOnly # NoBuild THEN fusedOnly ELSE ctx.fused
  IN
  /\ pc = "step3"
  /\ pc' = "sweep"
  /\ flag' = AppliedFlag(own, configs[mainRef])
  /\ configs' = ConfigsAfterApply(mainRef, AppliedConfig(own, configs[mainRef]))
  /\ hexes' = [hexes EXCEPT !["fused_pruned"] = hex]
  /\ sims' = [sims EXCEPT !["fused_pruned"] =
                RunOf(hex, missing, AppliedRtl(own, configs[mainRef]), flag', SomeOutcome)]
  /\ UNCHANGED <<round, ctx, choiceVars, cs, mainRef, hwonlyRef, sweepVars, missing>>

-----------------------------------------------------------------------------
(***************************************************************************)
(* The HW_LOOP sweep (_sweep_hwloop_candidates).                           *)
(***************************************************************************)
HasHwloop == ctx.hwloop # NoBuild \/ ctx.plain # NoBuild

\* No sweep without a hardware-loop hex; a single candidate wins unevaluated.
BeginSweep ==
  /\ pc = "sweep"
  /\ \/ /\ HasHwloop /\ Len(cands) > 1
        /\ pc' = "sweeping"
        /\ saved' = [hwLoop |-> cs.hwLoop, fused |-> ctx.fused]
        /\ UNCHANGED <<round, winners>>
     \/ /\ HasHwloop /\ Len(cands) = 1
        /\ pc' = "select"
        /\ round' = "adp"
        /\ winners' = [adp |-> 1, cycles |-> 1, evaluated |-> FALSE]
        /\ UNCHANGED saved
     \/ /\ ~HasHwloop
        /\ pc' = "step4"
        /\ UNCHANGED <<round, winners, saved>>
  /\ UNCHANGED <<ctx, choiceVars, cs, configVars, flag, sweepRtl, results, outVars>>

\* HWLoopSweepResult, with the build that was measured last.
SweepResult(out, cells, hex) ==
  [cycles |-> out.cycles, cells |-> cells, passed |-> out.passed, hex |-> hex]

\* Seeded fault: the validated hex is measured but not kept in the candidate.
KeepValidatedNot(c, validated) == c

\* A candidate that passes only after pre-validation becomes its validated build.
KeepValidated(c, validated) == [c EXCEPT !.fused = validated]

\* A candidate without a fused hex is recorded as failed; any other one is
\* evaluated on RTL generated and pruned for it, and once more with only the
\* validated loops when that run does not pass.
SweepCandidate ==
  LET i == Len(results) + 1
      c == cands[i]
  IN
  /\ pc = "sweeping"
  /\ i <= Len(cands)
  /\ \/ /\ c.fused = NoBuild
        /\ results' = Append(results, SweepResult(Fail, 0, NoBuild))
        /\ sweepRtl' = Append(sweepRtl, NoRtl)
        /\ UNCHANGED <<ctx, cands, cs, mainRef, configs, flag>>
     \/ LET own == AddPruneConfig([cs EXCEPT !.hwLoop = c.hw])
            config == NewConfig(c.fused)
        IN
        /\ c.fused # NoBuild
        /\ cs' = [own EXCEPT !.resolved = TRUE]
        /\ mainRef' = "main"
        /\ configs' = [configs EXCEPT !["main"] = AppliedConfig(own, config)]
        /\ flag' = AppliedFlag(own, config)
        /\ ctx' = [ctx EXCEPT !.fused = c.fused]
        /\ sweepRtl' = Append(sweepRtl, AppliedRtl(own, config))
        /\ \E out \in Outcome : \E cells \in IF out.passed THEN Cells ELSE {0} :
             \/ /\ results' = Append(results, SweepResult(out, cells, c.fused))
                /\ UNCHANGED cands
             \/ LET validated == Build("hwfused", c.hw, c.variant, "validated") IN
                /\ out.passed
                /\ results' = Append(results, SweepResult(out, cells, validated))
                /\ cands' = [cands EXCEPT ![i] = KeepValidated(c, validated)]
  /\ UNCHANGED <<pc, round, fusedOnly, hwonlyRef, saved, winners, outVars>>

\* Seeded fault: changeset.hw_loop_count is left at the last candidate's.
EndSweepUnrestored ==
  /\ pc = "sweeping"
  /\ Len(results) = Len(cands)
  /\ ctx' = [ctx EXCEPT !.fused = saved.fused]
  /\ winners' = [adp |-> PickBest(results).adp, cycles |-> PickBest(results).cycles,
                 evaluated |-> TRUE]
  /\ IF PickBest(results) = NoWinners
     THEN pc' = "step4" /\ UNCHANGED round
     ELSE pc' = "select" /\ round' = "adp"
  /\ UNCHANGED <<cs, choiceVars, configVars, flag, sweepRtl, results, saved, outVars>>

\* The saved values are restored and the winners picked.  Without a winner the
\* steps run with whatever the hardware-loop stage set.
EndSweep ==
  /\ pc = "sweeping"
  /\ Len(results) = Len(cands)
  /\ cs' = [cs EXCEPT !.hwLoop = saved.hwLoop]
  /\ ctx' = [ctx EXCEPT !.fused = saved.fused]
  /\ winners' = [adp |-> PickBest(results).adp, cycles |-> PickBest(results).cycles,
                 evaluated |-> TRUE]
  /\ IF PickBest(results) = NoWinners
     THEN pc' = "step4" /\ UNCHANGED round
     ELSE pc' = "select" /\ round' = "adp"
  /\ UNCHANGED <<choiceVars, configVars, flag, sweepRtl, results, saved, outVars>>

-----------------------------------------------------------------------------
(***************************************************************************)
(* Steps 4 and 5, for each round.                                          *)
(***************************************************************************)
WinnerIndex == IF round = "perf" THEN winners.cycles ELSE winners.adp

Tag(base) == IF round = "perf" THEN IF base = "all" THEN "all_best_perf"
                                                    ELSE "hwloop_pruned_best_perf"
                               ELSE base

\* Seeded fault: the context follows the winner and the change set does not.
SetCandidateHexOnly ==
  LET c == cands[WinnerIndex] IN
  /\ pc = "select"
  /\ pc' = "step4"
  /\ ctx' = [ctx EXCEPT !.hwloop = IF c.fused # NoBuild THEN c.fused ELSE @,
                        !.plain  = IF c.plain # NoBuild THEN c.plain ELSE @]
  /\ UNCHANGED <<round, choiceVars, cs, configVars, flag, sweepVars, outVars>>

\* _set_candidate: the change set and the context follow the winner.  A plain
\* build it does not have is not replaced.
SetCandidate ==
  LET c == cands[WinnerIndex] IN
  /\ pc = "select"
  /\ pc' = "step4"
  /\ cs' = [cs EXCEPT !.hwLoop = c.hw]
  /\ ctx' = [ctx EXCEPT !.hwloop = IF c.fused # NoBuild THEN c.fused ELSE @,
                        !.plain  = IF c.plain # NoBuild THEN c.plain ELSE @]
  /\ UNCHANGED <<round, choiceVars, configVars, flag, sweepVars, outVars>>

\* The plain builds of the current depth, by candidate; 0 stands for the one in
\* the context, which runs when the depth has none.
PlainVariants ==
  LET own == {i \in DOMAIN cands : cands[i].hw = cs.hwLoop /\ cands[i].plain # NoBuild}
  IN IF own = {} THEN {0} ELSE own

PlainBuild(i) == IF i = 0 THEN ctx.plain ELSE cands[i].plain

OfDepth == {i \in DOMAIN cands : cands[i].hw = cs.hwLoop}
Validated(i) == Build("hwplain", cs.hwLoop, cands[i].variant, "validated")

\* _run_step4: hardware loops without fusion, on RTL pruned for the deepest plain
\* build.  Every plain variant of the depth runs and the fastest one is kept.
StepHwloopPasses(rtl, hwLoopFlag) ==
  \E out \in [PlainVariants -> Outcome] :
    LET passing == {i \in PlainVariants : out[i].passed}
        cycles == [i \in passing |-> out[i].cycles]
        best == FirstMin(passing, cycles)
    IN
    /\ passing # {}
    /\ ctx' = [ctx EXCEPT !.plain = PlainBuild(best)]
    /\ hexes' = [hexes EXCEPT !["hwloop_pruned"] = PlainBuild(best)]
    /\ sims' = [sims EXCEPT ![Tag("hwloop_pruned")] =
                  RunOf(PlainBuild(best), missing, rtl, hwLoopFlag, out[best])]
    /\ UNCHANGED missing

\* When no variant passes, every source of the depth is tried again with only its
\* validated loops.  A binary that assembles is run even if objcopy wrote no hex.
\* (Of these hexes only the best one's is ever asked for again.)
StepHwloopRetries(rtl, hwLoopFlag) ==
  \E out \in [OfDepth -> Outcome], lost \in BOOLEAN :
    LET passing == {i \in OfDepth : out[i].passed}
        cycles == [i \in passing |-> out[i].cycles]
        best == FirstMin(passing, cycles)
        last == CHOOSE i \in PlainVariants : \A j \in PlainVariants : j <= i
        now == IF lost THEN missing \cup {Validated(best)} ELSE missing
    IN
    /\ IF passing = {}
       THEN /\ UNCHANGED <<ctx, missing>>
            /\ sims' = [sims EXCEPT ![Tag("hwloop_pruned")] =
                          RunOf(PlainBuild(last), missing, rtl, hwLoopFlag, Fail)]
       ELSE /\ ctx' = [ctx EXCEPT !.plain = Validated(best)]
            /\ missing' = now
            /\ sims' = [sims EXCEPT ![Tag("hwloop_pruned")] =
                          RunOf(Validated(best), now, rtl, hwLoopFlag, out[best])]
    /\ hexes' = [hexes EXCEPT !["hwloop_pruned"] = ctx'.plain]

StepHwloop ==
  LET own == ChangeSet(cs.hwLoop, FALSE, FALSE)
      config == configs[hwonlyRef]
  IN
  /\ pc = "step4"
  /\ ctx.plain # NoBuild
  /\ pc' = "ga"
  /\ flag' = AppliedFlag(own, config)
  /\ configs' = ConfigsAfterApply(hwonlyRef, AppliedConfig(own, config))
  /\ \/ StepHwloopPasses(AppliedRtl(own, config), flag')
     \/ StepHwloopRetries(AppliedRtl(own, config), flag')
  /\ UNCHANGED <<round, choiceVars, cs, mainRef, hwonlyRef, sweepVars>>

SkipHwloop ==
  /\ pc = "step4"
  /\ ctx.plain = NoBuild
  /\ pc' = "ga"
  /\ UNCHANGED <<round, ctx, choiceVars, cs, configVars, flag, sweepVars, outVars>>

\* The RTL directory handed to the loop selection: the winner's, or the first one
\* the sweep made.  An unevaluated winner has none.
SelectionRtl ==
  LET made == {i \in DOMAIN sweepRtl : sweepRtl[i] # NoRtl}
      index == [i \in made |-> i]
  IN CASE round # "default" /\ winners.evaluated -> sweepRtl[WinnerIndex]
       [] round = "default" /\ made # {}         -> sweepRtl[FirstMin(made, index)]
       [] OTHER                                  -> NoRtl

CanRunAll == cs.fused /\ ctx.hwloop # NoBuild

\* _run_exhaustive_selection: a selection that passes on that RTL becomes the
\* build of step 5.
SelectLoops ==
  /\ pc = "ga"
  /\ pc' = "step5"
  /\ IF CanRunAll /\ SelectionRtl # NoRtl
     THEN \/ UNCHANGED ctx
          \/ \E variant \in Variant :
               LET selected == Build("hwfused", cs.hwLoop, variant, "selected")
               IN ctx' = [ctx EXCEPT !.hwloop = selected, !.fused = selected]
     ELSE UNCHANGED ctx
  /\ UNCHANGED <<round, choiceVars, cs, configVars, flag, sweepVars, sims, hexes, missing>>

\* After step 5 of the best-ADP round the best-cycles winner runs, unless both
\* have the same depth.
Following ==
  IF round = "adp" /\ cands[winners.adp].hw # cands[winners.cycles].hw
  THEN pc' = "select" /\ round' = "perf"
  ELSE pc' = "done" /\ UNCHANGED round

\* Seeded fault: the prune config of the last apply() is used again.
StepAllConfigUnchanged == configs[mainRef]

\* Step 5 prunes for the build it is about to run.
StepAllConfig == NewConfig(ctx.hwloop)

\* Seeded fault: the validated build runs but the context keeps the failing one.
AfterRetryForgotten(validated) == ctx

\* A validated build that assembles replaces the failing one, passing or not.
AfterRetry(validated) == [ctx EXCEPT !.hwloop = validated]

\* _run_step5: fusion and hardware loops.  The retry always takes the merged
\* source without unrolling.
StepAll ==
  LET own == AddPruneConfig(cs)
      config == StepAllConfig
      rtl == AppliedRtl(own, config)
      tag == Tag("all")
      validated == Build("hwfused", cs.hwLoop, "nounroll", "validated")
  IN
  /\ pc = "step5"
  /\ CanRunAll
  /\ Following
  /\ cs' = [own EXCEPT !.resolved = TRUE]
  /\ mainRef' = "main"
  /\ configs' = [configs EXCEPT !["main"] = AppliedConfig(own, config)]
  /\ flag' = AppliedFlag(own, config)
  /\ \/ \E out \in Outcome :
          /\ UNCHANGED ctx
          /\ sims' = [sims EXCEPT ![tag] = RunOf(ctx.hwloop, missing, rtl, flag', out)]
     \/ \E out \in Outcome :
          /\ ctx' = AfterRetry(validated)
          /\ sims' = [sims EXCEPT ![tag] =
                        IF out.passed THEN RunOf(validated, missing, rtl, flag', out)
                                      ELSE RunOf(ctx.hwloop, missing, rtl, flag', Fail)]
  /\ hexes' = [hexes EXCEPT ![tag] = ctx'.hwloop]
  /\ UNCHANGED <<choiceVars, hwonlyRef, sweepVars, missing>>

SkipAll ==
  /\ pc = "step5"
  /\ ~CanRunAll
  /\ Following
  /\ UNCHANGED <<ctx, choiceVars, cs, configVars, flag, sweepVars, outVars>>

\* print_final_summary changes nothing; the run is over.
Terminated == pc = "done" /\ UNCHANGED vars

Next ==
  \/ RunFusion
  \/ RunHwloop
  \/ RunPruning
  \/ StepPruned
  \/ StepFused
  \/ BeginSweep
  \/ SweepCandidate
  \/ EndSweep
  \/ SetCandidate
  \/ StepHwloop
  \/ SkipHwloop
  \/ SelectLoops
  \/ StepAll
  \/ SkipAll
  \/ Terminated

Spec == Init /\ [][Next]_vars

-----------------------------------------------------------------------------
(***************************************************************************)
(* Properties.                                                             *)
(***************************************************************************)
HasPlain(hw) == \E i \in DOMAIN cands : cands[i].hw = hw /\ cands[i].plain # NoBuild

\* Every stored result is of the step its label names: the kind of binary and of
\* RTL the table promises, and a binary patched for the depth of the RTL it ran
\* on, whatever the sweep, the winners and the retries did to the context in
\* between.  (Step 4 of a depth without a plain build runs another depth's.  A
\* validated build objcopy wrote no hex for is passed over for another binary,
\* verification.py:188, so its result is left out.)
ResultsBelong ==
  \A l \in Label : sims[l] # NoRun /\ sims[l].asked \notin missing =>
    LET run == sims[l] IN
    CASE l = "pruned" ->
           run.hex = Original /\ ~run.rtl.fused /\ run.rtl.hwLoop = 0
      [] l = "fused_pruned" ->
           run.hex = Fused /\ run.rtl.fused /\ run.rtl.hwLoop = 0
      [] l \in {"hwloop_pruned", "hwloop_pruned_best_perf"} ->
           /\ run.hex.kind = "hwplain" /\ ~run.rtl.fused
           /\ HasPlain(run.rtl.hwLoop) => run.hex.hw = run.rtl.hwLoop
      [] OTHER ->
           run.hex.kind = "hwfused" /\ run.rtl.fused /\ run.hex.hw = run.rtl.hwLoop

\* The simulator of a stored result was built with the HW_LOOP of its RTL: the
\* flags in the context are those of the apply() that made the RTL.
FlagMatchesRtl == \A l \in Label : sims[l].flag = sims[l].rtl.hwLoop

\* RTL that decodes R4 words (three-input fusions, hardware-loop set-up) has read
\* port C even when the command line asks to prune it.
ReadPortKept ==
  \A l \in Label : sims[l].rtl.hwLoop > 0 \/ sims[l].rtl.r4 => sims[l].rtl.rdC

\* A winner passed, in time no other passing candidate beats, on RTL made for its
\* depth, and the build step 5 starts from is one that passed: a candidate that
\* needed pre-validation takes part with its validated build.
WinnersEarned ==
  (pc = "step4" /\ round # "default" /\ winners.evaluated) =>
    LET w == cands[WinnerIndex] IN
    /\ results[WinnerIndex].passed
    /\ results[WinnerIndex].cells > 0
    /\ \A i \in Passing(results) :
         /\ results[winners.cycles].cycles <= results[i].cycles
         /\ Adp(results, winners.adp) <= Adp(results, i)
    /\ cs.hwLoop = w.hw /\ sweepRtl[WinnerIndex].hwLoop = w.hw
    /\ ctx.hwloop = results[WinnerIndex].hex

\* The hex recorded for step 5 is the one behind a passing result.
HexOfPassingAll ==
  \A l \in {"all", "all_best_perf"} : sims[l].out.passed => hexes[l] = sims[l].hex

\* RTL of step 5 is pruned for the build that is run on it first.
AllPrunedForItsBuild ==
  \A l \in {"all", "all_best_perf"} :
    sims[l] # NoRun /\ sims[l].hex.origin # "validated" => sims[l].rtl.prunedFor = sims[l].hex

\* The baseline and the hardware-loop-only prune configs stay what _run_pruning
\* computed: the steps modify deepcopies.
SavedConfigsIntact ==
  [][pc # "pruning" => \A o \in {"orig", hwonlyRef} : configs'[o] = configs[o]]_vars
=============================================================================
