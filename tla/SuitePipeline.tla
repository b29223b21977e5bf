----------------------------- MODULE SuitePipeline -----------------------------
(***************************************************************************)
(* The pipeline for a suite of programs (multi_runner.py): one directory   *)
(* is compiled again and again with different compilers, one RTL is pruned *)
(* for what is found there, and a sweep simulates all programs on it.      *)
(* A file of a program is the name of the build it comes from: "orig" and  *)
(* "pass" of this run, "old" of an earlier run of the pipeline, and for    *)
(* the files with hardware loops "fresh" and "stale".  What a binary needs *)
(* of the core is one instruction and one CSR no other binary needs.       *)
(* Nothing is ever merged: see MergeRaises.                                *)
(***************************************************************************)
EXTENDS Naturals, FiniteSetsExt

CONSTANTS Programs, \* numbers, in the order of the suite
          Passes,   \* number of static passes before the merge
          Depths,   \* depths of hardware loops found in the programs
          Cells,    \* outcomes of a synthesis; 0: it failed
          Cycles,   \* total cycles of the programs that passed
          Infinite  \* float('inf')

ASSUME SuiteAssumption ==
  /\ Programs \subseteq Nat \ {0} /\ Programs # {} /\ Depths \subseteq Nat \ {0}
  /\ Passes \in Nat /\ Cells \subseteq Nat /\ Cycles \subseteq Nat /\ Infinite \in Nat
  /\ \A cells \in Cells, cycles \in Cycles : cells * cycles < Infinite

VARIABLES start,   \* dir when the pipeline was started
          dir,     \* the benchmark directory: program -> [elf, hex]
          saved,   \* its .baseline files
          pass,    \* static passes done
          found,   \* a pass found patterns
          hw,      \* the *_hwonly files: program, depth -> [elf, hex]
          cands,   \* ctx.hwloop_candidates: depth -> loops patched
          count,   \* changeset.hw_loop_count
          config,  \* the prune config
          left,    \* depths still to be swept
          sweep,   \* sweep_data
          best,    \* the result with best_adp; NoResult: none yet
          rtl,     \* the depth of the RTL on disk
          phase

vars == <<start, dir, saved, pass, found, hw, cands, count, config, left, sweep, best, rtl, phase>>
compiled == <<dir, saved, pass, found>>

Files(e, h) == [elf |-> e, hex |-> h]
Nothing == Files("none", "none")

Builds == {"orig", "old", "pass", "stale", "fresh"}
Needs == Programs \X Builds

NoConfig == [used |-> {}, removable |-> {}, csrs |-> {}]
NoResult == [depth |-> 0, pass |-> FALSE, adp |-> 0, runs |-> {}]

\* The first run finds the original builds, perhaps without hex files; a
\* later one what an earlier one has left.  Without fusion the pipeline
\* starts with the pruning.
Init ==
  /\ \E again \in BOOLEAN :
       /\ dir \in [Programs -> IF again THEN {Nothing, Files("old", "none"), Files("old", "old")}
                               ELSE {Files("orig", "none"), Files("orig", "orig")}]
       /\ saved = [p \in Programs |-> IF again THEN Files("orig", "orig") ELSE Nothing]
       /\ hw = [x \in Programs \X Depths |-> IF again THEN Files("stale", "stale") ELSE Nothing]
  /\ start = dir
  /\ pass = 0 /\ found = FALSE
  /\ cands = [d \in {} |-> 0] /\ count = 0 /\ config = NoConfig
  /\ left = {} /\ sweep = {} /\ best = NoResult /\ rtl = 0
  /\ phase \in {"fusion", "pruning"}

-----------------------------------------------------------------------------
(***************************************************************************)
(* Fusion.  make clean all replaces every file; when it fails, any of them *)
(* may be missing, a hex file with its ELF file at least.                  *)
(***************************************************************************)
First(f, g) == IF f # "none" THEN f ELSE g

\* Seeded fault: what is saved is replaced by what is there.
SaveAlways(d, s) == [p \in Programs |-> Files(First(d[p].elf, s[p].elf), First(d[p].hex, s[p].hex))]

SaveOriginals(d, s) == [p \in Programs |-> Files(First(s[p].elf, d[p].elf), First(s[p].hex, d[p].hex))]

Made(build) == [p \in Programs |-> Files(build, build)]

HalfMade(build) == [Programs -> {Nothing, Files(build, "none"), Files(build, build)}]

\* The image of a static pass is built only if Docker has none of its name.
NoImage ==
  /\ phase = "fusion" /\ pass < Passes
  /\ pass' = pass + 1
  /\ UNCHANGED <<start, dir, saved, found, hw, cands, count, config, left, sweep, best, rtl, phase>>

StaticPass ==
  /\ phase = "fusion" /\ pass < Passes
  /\ saved' = SaveOriginals(dir, saved)
  /\ \/ dir' = Made("pass") /\ found' \in {found, TRUE}
     \/ dir' \in HalfMade("pass") /\ found' = found
  /\ pass' = pass + 1
  /\ UNCHANGED <<start, hw, cands, count, config, left, sweep, best, rtl, phase>>

\* The passes found no pattern: there is nothing to merge.
NoMerge ==
  /\ phase = "fusion" /\ pass = Passes /\ ~found
  /\ phase' = "hwloop"
  /\ UNCHANGED <<start, compiled, hw, cands, count, config, left, sweep, best, rtl>>

\* generate_merged_md returns three values and two names take them: a
\* ValueError that no caller catches.
MergeRaises ==
  /\ phase = "fusion" /\ pass = Passes /\ found
  /\ phase' = "raised"
  /\ UNCHANGED <<start, compiled, hw, cands, count, config, left, sweep, best, rtl>>

-----------------------------------------------------------------------------
(***************************************************************************)
(* Hardware loops: a program whose LTO build has eligible loops is patched *)
(* and assembled for every depth; a failure of the assembler leaves both   *)
(* files as they were, one of objcopy the hex file.                        *)
(***************************************************************************)
Assembled(old) == {old, Files("fresh", old.hex), Files("fresh", "fresh")}

\* max(valid, key = loops patched) is the first of the greatest.
BestDepth(patched) ==
  LET valid == {d \in DOMAIN patched : patched[d] > 0}
      most  == {d \in valid : \A e \in valid : patched[e] <= patched[d]}
  IN  IF valid = {} THEN 0 ELSE Min(most)

NoLoops ==
  /\ phase = "hwloop"
  /\ count' = 0
  /\ phase' = "pruning"
  /\ UNCHANGED <<start, compiled, hw, cands, config, left, sweep, best, rtl>>

PatchLoops ==
  /\ phase = "hwloop"
  /\ \E asm \in (SUBSET {p \in Programs : dir[p].elf # "none"}) \ {{}},
        tried \in (SUBSET Depths) \ {{}} :
       /\ hw' \in {h \in [DOMAIN hw -> UNION {Assembled(hw[x]) : x \in DOMAIN hw}] :
                     \A x \in DOMAIN hw : IF x[1] \in asm /\ x[2] \in tried THEN h[x] \in Assembled(hw[x])
                                          ELSE h[x] = hw[x]}
       /\ cands' \in [tried -> 0..1]
  /\ count' = BestDepth(cands')
  /\ phase' = "pruning"
  /\ UNCHANGED <<start, compiled, config, left, sweep, best, rtl>>

-----------------------------------------------------------------------------
(***************************************************************************)
(* Pruning, for the ELF files of the directory.  Instructions are those of *)
(* all programs; CSRs are in the workload profile, which is the first      *)
(* program's.  The ELF files with loops add to the instructions only.      *)
(***************************************************************************)
Analysed == {p \in Programs : dir[p].elf # "none"}

Binary(p) == <<p, dir[p].elf>>

\* Seeded fault: what one of the programs does not need is removable.
RemovableAny(progs) == {x \in Needs : \E p \in progs : x # Binary(p)}

Removable(progs) == {x \in Needs : progs # {} /\ \A p \in progs : x # Binary(p)}

WithLoops ==
  IF count = 0 THEN {} ELSE {<<p, hw[p, count].elf>> : p \in {q \in Programs : hw[q, count].elf # "none"}}

ProfileOf(progs) == IF progs = {} THEN {} ELSE {Binary(Min(progs))}

Pruning ==
  /\ phase = "pruning"
  /\ config' = [used |-> {Binary(p) : p \in Analysed} \cup WithLoops, removable |-> Removable(Analysed),
                csrs |-> ProfileOf(Analysed)]
  /\ left' = {0} \cup {d \in DOMAIN cands : cands[d] > 0}
  /\ phase' = "verification"
  /\ UNCHANGED <<start, compiled, hw, cands, count, sweep, best, rtl>>

-----------------------------------------------------------------------------
(***************************************************************************)
(* Verification: for every depth the RTL is made again, synthesised and    *)
(* simulated with a hex file of each program that has one.                 *)
(***************************************************************************)
HexOf(p, d) ==
  First(IF d > 0 THEN hw[p, d].hex ELSE "none", First(saved[p].hex, dir[p].hex))

Runs(d) == {<<p, HexOf(p, d)>> : p \in {q \in Programs : HexOf(q, d) # "none"}}

Adp(cells, cycles) == IF cells > 0 /\ cycles > 0 THEN cells * cycles ELSE Infinite

\* Seeded fault: a depth at which a program fails competes.
ImprovesFailing(r, b) == b = NoResult \/ r.adp < b.adp

Improves(r, b) == r.pass /\ (b = NoResult \/ r.adp < b.adp)

ApplyDepth(d) ==
  /\ phase = "verification" /\ \A e \in left : d <= e
  /\ left' = left \ {d}
  /\ count' = d
  /\ rtl' = d
  /\ UNCHANGED <<start, compiled, hw, cands, config, phase>>

NoSimulator == \E d \in left : ApplyDepth(d) /\ UNCHANGED <<sweep, best>>

Simulate ==
  \E d \in left, cells \in Cells, cycles \in Cycles \cup {0}, pass0 \in BOOLEAN :
    LET r == [depth |-> d, pass |-> pass0, adp |-> Adp(cells, cycles), runs |-> Runs(d)]
    IN  /\ ApplyDepth(d)
        /\ Runs(d) = {} => pass0 /\ cycles = 0
        /\ pass0 /\ Runs(d) # {} => cycles > 0
        /\ sweep' = sweep \cup {r}
        /\ best' = IF Improves(r, best) THEN r ELSE best

SetWinner ==
  /\ phase = "verification" /\ left = {}
  /\ count' = best.depth
  /\ phase' = IF best = NoResult THEN "raised" ELSE "done"  \* None has no format ,.0f
  /\ UNCHANGED <<start, compiled, hw, cands, config, left, sweep, best, rtl>>

\* No caller of subprocess.call catches its TimeoutExpired.
TimesOut ==
  /\ phase \in {"fusion", "hwloop"}
  /\ phase' = "timeout"
  /\ UNCHANGED <<start, compiled, hw, cands, count, config, left, sweep, best, rtl>>

Next ==
  \/ NoImage \/ StaticPass \/ NoMerge \/ MergeRaises
  \/ NoLoops \/ PatchLoops \/ Pruning
  \/ NoSimulator \/ Simulate \/ SetWinner \/ TimesOut

Spec == Init /\ [][Next]_vars

-----------------------------------------------------------------------------
(***************************************************************************)
(* Whatever is compiled over them and however often the pipeline is run,   *)
(* the .baseline files of a program hold its original build, as long as    *)
(* the file existed when the pipeline was started for the first time       *)
(* (multi_runner.py:172).                                                  *)
(***************************************************************************)
BaselineIsOriginal ==
  \A p \in Programs :
    /\ saved[p].elf \in {"none", "orig"}
    /\ start[p].hex # "none" => saved[p].hex \in {"none", "orig"}

(***************************************************************************)
(* One RTL serves all programs: without hardware loops it keeps the        *)
(* instructions of each program that is simulated on its original build,   *)
(* and the CSRs of the first of the suite.  After a static pass the last   *)
(* build is analysed but the baseline is simulated, and the CSRs of the    *)
(* other programs are nobody's: both lie outside (_run_multi_pruning,      *)
(* _run_multi_verification).                                               *)
(***************************************************************************)
SimulatedNeedsKept ==
  \A r \in sweep :
    r.depth = 0 =>
      \A x \in {y \in r.runs : dir[y[1]].elf = "orig"} :
        /\ x \in config.used \ config.removable
        /\ x[1] = Min(Programs) => x \in config.csrs

(***************************************************************************)
(* The depth set at the end is one at which no program failed, with the    *)
(* least product of cells and cycles of all of those, and the shallowest   *)
(* of equal ones; without one the pipeline ends in an exception            *)
(* (_run_multi_verification).                                              *)
(***************************************************************************)
WinnerIsBest ==
  phase = "done" =>
    /\ best \in sweep /\ best.pass /\ count = best.depth
    /\ \A r \in sweep : r.pass => best.adp < r.adp \/ (best.adp = r.adp /\ best.depth <= r.depth)

(***************************************************************************)
(* "Run static fusion passes for each program, merge, build one Docker"    *)
(* (multi_runner.py:126), and generate_merged_md "Returns: (md_content,    *)
(* total_pattern_count)" (peephole_gen.py:245): when the passes have found *)
(* patterns, the pipeline gets over the merge.                             *)
(***************************************************************************)
PatternsMerged == pass = Passes /\ found => phase # "raised"
=============================================================================
