------------------------- MODULE SuitePipelineProofs -------------------------
(***************************************************************************)
(* Theorems about SuitePipeline, for every suite, every number of static   *)
(* passes, any depths and any outcomes of synthesis and simulation.        *)
(***************************************************************************)
EXTENDS SuitePipeline, WellFoundedInduction, TLAPS

USE DEF Files, Nothing

-----------------------------------------------------------------------------
(***************************************************************************)
(* The .baseline files.  Before the first build of the first run there are *)
(* none and the directory is as it was found; from then on the ELF file    *)
(* saved is the original one.                                              *)
(***************************************************************************)
NothingSaved(p) ==
  saved[p] = Nothing /\ dir[p] = start[p] /\ start[p].elf = "orig" /\ start[p].hex \in {"none", "orig"}

OriginalSaved(p) == saved[p].elf = "orig" /\ (start[p].hex # "none" => saved[p].hex = "orig")

SavedInv == \A p \in Programs : NothingSaved(p) \/ OriginalSaved(p)

\* Saving once more does not change what was saved.
LEMMA SaveKeepsOriginals ==
  ASSUME SavedInv, NEW p \in Programs
  PROVE  LET s == SaveOriginals(dir, saved)[p]
         IN  s.elf = "orig" /\ (start[p].hex # "none" => s.hex = "orig")
<1>1. /\ SaveOriginals(dir, saved)[p].elf = First(saved[p].elf, dir[p].elf)
      /\ SaveOriginals(dir, saved)[p].hex = First(saved[p].hex, dir[p].hex)
  BY DEF SaveOriginals
<1>2. CASE NothingSaved(p)
  BY <1>1, <1>2 DEF NothingSaved, First
<1>3. CASE OriginalSaved(p)
  BY <1>1, <1>3 DEF OriginalSaved, First
<1> QED
  BY <1>2, <1>3 DEF SavedInv

LEMMA SavedInvInit == Init => SavedInv
<1> SUFFICES ASSUME Init, NEW p \in Programs PROVE NothingSaved(p) \/ OriginalSaved(p)
  BY DEF SavedInv
<1>1. PICK again \in BOOLEAN :
        /\ dir \in [Programs -> IF again THEN {Nothing, Files("old", "none"), Files("old", "old")}
                                ELSE {Files("orig", "none"), Files("orig", "orig")}]
        /\ saved = [q \in Programs |-> IF again THEN Files("orig", "orig") ELSE Nothing]
  BY DEF Init
<1>2. start = dir
  BY DEF Init
<1>3. CASE again
  BY <1>1, <1>3 DEF OriginalSaved
<1>4. CASE ~again
  <2>1. dir[p] \in {Files("orig", "none"), Files("orig", "orig")} /\ saved[p] = Nothing
    BY <1>1, <1>4
  <2> QED
    BY <1>2, <2>1 DEF NothingSaved
<1> QED
  BY <1>3, <1>4

LEMMA SavedInvNext == SavedInv /\ [Next]_vars => SavedInv'
<1> SUFFICES ASSUME SavedInv, [Next]_vars PROVE SavedInv'
  OBVIOUS
<1>1. CASE StaticPass
  <2>1. saved' = SaveOriginals(dir, saved) /\ start' = start
    BY <1>1 DEF StaticPass
  <2>2. ASSUME NEW p \in Programs PROVE OriginalSaved(p)'
    BY <2>1, SaveKeepsOriginals DEF OriginalSaved
  <2> QED
    BY <2>2 DEF SavedInv
<1>2. CASE UNCHANGED <<start, dir, saved>>
  BY <1>2 DEF SavedInv, NothingSaved, OriginalSaved
<1>3. NoImage \/ NoMerge \/ MergeRaises \/ NoLoops \/ PatchLoops \/ Pruning \/ NoSimulator \/ Simulate \/ SetWinner
        \/ TimesOut \/ UNCHANGED vars => UNCHANGED <<start, dir, saved>>
  BY DEF NoImage, NoMerge, MergeRaises, NoLoops, PatchLoops, Pruning, NoSimulator, Simulate, ApplyDepth,
         SetWinner, TimesOut, compiled, vars
<1> QED
  BY <1>1, <1>2, <1>3 DEF Next

\* The .baseline files of a program hold its original build however many builds
\* are made over it and however often the pipeline is run (_save_originals of
\* multi_runner.py, before every make clean all).
THEOREM BaselineAlwaysOriginal == Spec => []BaselineIsOriginal
<1>1. SavedInv => BaselineIsOriginal
  BY DEF SavedInv, NothingSaved, OriginalSaved, BaselineIsOriginal
<1> QED
  BY <1>1, SavedInvInit, SavedInvNext, PTL DEF Spec

-----------------------------------------------------------------------------
(***************************************************************************)
(* The sweep.  Depths are swept in ascending order; the best result so far *)
(* is the first of the least among those that passed.                      *)
(***************************************************************************)
NotYetSwept == {"fusion", "hwloop", "pruning"}

SweptInv ==
  /\ left \subseteq Nat
  /\ DOMAIN cands \subseteq Depths
  /\ phase \in NotYetSwept => sweep = {} /\ best = NoResult
  /\ \A r \in sweep : r.depth \in Nat /\ r.adp \in Nat /\ \A d \in left : r.depth < d

BestInv ==
  /\ best = NoResult => \A r \in sweep : ~r.pass
  /\ best # NoResult =>
       /\ best \in sweep /\ best.pass
       /\ \A r \in sweep : r.pass => best.adp < r.adp \/ (best.adp = r.adp /\ best.depth <= r.depth)
  /\ phase = "done" => best # NoResult /\ count = best.depth

LEMMA AdpIsNatural ==
  ASSUME NEW cells \in Cells, NEW cycles \in Cycles \cup {0}
  PROVE  Adp(cells, cycles) \in Nat
<1>1. cells \in Nat /\ cycles \in Nat /\ Infinite \in Nat
  BY SuiteAssumption
<1>2. cells * cycles \in Nat
  BY <1>1
<1> QED
  BY <1>1, <1>2 DEF Adp

LEMMA SweepInit == Init => SweptInv /\ BestInv
  BY DEF Init, SweptInv, BestInv, NotYetSwept, NoResult

LEMMA SweepNext == SweptInv /\ BestInv /\ [Next]_vars => (SweptInv /\ BestInv)'
<1> SUFFICES ASSUME SweptInv, BestInv, [Next]_vars PROVE (SweptInv /\ BestInv)'
  OBVIOUS
<1>1. CASE NoImage \/ StaticPass \/ NoMerge \/ MergeRaises \/ NoLoops \/ TimesOut
  <2>1. UNCHANGED <<cands, left, sweep, best>> /\ phase # "done" /\ phase' # "done" /\ phase \in NotYetSwept
    BY <1>1 DEF NoImage, StaticPass, NoMerge, MergeRaises, NoLoops, TimesOut, NotYetSwept
  <2> QED
    BY <2>1 DEF SweptInv, BestInv, NotYetSwept
<1>2. CASE PatchLoops
  <2>1. PICK tried \in SUBSET Depths : cands' \in [tried -> 0..1]
    BY <1>2 DEF PatchLoops
  <2>2. UNCHANGED <<left, sweep, best>> /\ phase = "hwloop" /\ phase' = "pruning"
    BY <1>2 DEF PatchLoops
  <2> QED
    BY <2>1, <2>2 DEF SweptInv, BestInv, NotYetSwept
<1>3. CASE Pruning
  <2>1. /\ left' = {0} \cup {d \in DOMAIN cands : cands[d] > 0}
        /\ UNCHANGED <<cands, sweep, best>> /\ phase = "pruning" /\ phase' = "verification"
    BY <1>3 DEF Pruning
  <2>2. DOMAIN cands \subseteq Nat
    BY SuiteAssumption DEF SweptInv
  <2>3. left' \subseteq Nat
    BY <2>1, <2>2
  <2> QED
    BY <2>1, <2>3 DEF SweptInv, BestInv, NotYetSwept
<1>4. CASE NoSimulator
  <2>1. left' \subseteq left /\ UNCHANGED <<cands, sweep, best, phase>> /\ phase = "verification"
    BY <1>4 DEF NoSimulator, ApplyDepth
  <2> QED
    BY <2>1 DEF SweptInv, BestInv, NotYetSwept
<1>5. CASE Simulate
  <2>1. PICK d \in left, cells \in Cells, cycles \in Cycles \cup {0}, pass0 \in BOOLEAN :
          LET r == [depth |-> d, pass |-> pass0, adp |-> Adp(cells, cycles), runs |-> Runs(d)]
          IN  /\ ApplyDepth(d)
              /\ sweep' = sweep \cup {r}
              /\ best' = IF Improves(r, best) THEN r ELSE best
    BY <1>5 DEF Simulate
  <2> DEFINE r == [depth |-> d, pass |-> pass0, adp |-> Adp(cells, cycles), runs |-> Runs(d)]
  <2>2. /\ phase = "verification" /\ phase' = phase /\ cands' = cands
        /\ left' = left \ {d} /\ \A e \in left : d <= e
    BY <2>1 DEF ApplyDepth
  <2>3. sweep' = sweep \cup {r} /\ best' = IF Improves(r, best) THEN r ELSE best
    BY <2>1
  <2>4. r.depth = d /\ d \in Nat /\ r.adp \in Nat /\ r.pass = pass0
    BY AdpIsNatural DEF SweptInv
  <2> HIDE DEF r
  <2>5. SweptInv'
    <3>1. \A e \in left' : e \in Nat /\ d < e
      BY <2>2, <2>4 DEF SweptInv
    <3>2. \A q \in sweep' : q.depth \in Nat /\ q.adp \in Nat /\ \A e \in left' : q.depth < e
      BY <2>2, <2>3, <2>4, <3>1 DEF SweptInv
    <3> QED
      BY <2>2, <3>1, <3>2 DEF SweptInv, NotYetSwept
  <2>6. BestInv'
    <3>1. CASE Improves(r, best)
      <4>1. best' = r /\ r.pass /\ (best = NoResult \/ r.adp < best.adp)
        BY <2>3, <3>1 DEF Improves
      <4>2. best' # NoResult /\ best' \in sweep'
        BY <2>3, <4>1 DEF NoResult
      <4>3. ASSUME NEW q \in sweep', q.pass
            PROVE  r.adp < q.adp \/ (r.adp = q.adp /\ r.depth <= q.depth)
        <5>1. CASE q = r
          BY <2>4, <5>1
        <5>2. CASE q \in sweep
          <6>1. best # NoResult /\ best \in sweep
            BY <4>3, <5>2 DEF BestInv
          <6>2. best.adp \in Nat /\ q.adp \in Nat /\ best.adp <= q.adp
            BY <4>3, <5>2, <6>1 DEF BestInv, SweptInv
          <6> QED
            BY <2>4, <4>1, <6>1, <6>2
        <5> QED
          BY <2>3, <5>1, <5>2
      <4> QED
        BY <2>2, <4>1, <4>2, <4>3 DEF BestInv
    <3>2. CASE ~Improves(r, best)
      <4>1. best' = best /\ (r.pass => best # NoResult /\ ~(r.adp < best.adp))
        BY <2>3, <3>2 DEF Improves
      <4>2. ASSUME best # NoResult, r.pass
            PROVE  best.adp < r.adp \/ (best.adp = r.adp /\ best.depth <= r.depth)
        <5>1. best \in sweep /\ best.adp \in Nat /\ best.depth \in Nat /\ best.depth < d
          BY <4>2 DEF BestInv, SweptInv
        <5> QED
          BY <2>4, <4>1, <4>2, <5>1
      <4> QED
        BY <2>2, <2>3, <4>1, <4>2 DEF BestInv
    <3> QED
      BY <3>1, <3>2
  <2> QED
    BY <2>5, <2>6
<1>6. CASE SetWinner
  <2>1. /\ UNCHANGED <<cands, left, sweep, best>> /\ count' = best.depth
        /\ phase' = IF best = NoResult THEN "raised" ELSE "done"
    BY <1>6 DEF SetWinner
  <2> QED
    BY <2>1 DEF SweptInv, BestInv, NotYetSwept
<1>7. CASE UNCHANGED vars
  BY <1>7 DEF vars, SweptInv, BestInv, NotYetSwept
<1> QED
  BY <1>1, <1>2, <1>3, <1>4, <1>5, <1>6, <1>7 DEF Next

\* The depth the suite pipeline ends with is the first of the least product of
\* cells and cycles among the depths at which no program failed
\* (_run_multi_verification).
THEOREM WinnerAlwaysBest == Spec => []WinnerIsBest
<1>1. BestInv => WinnerIsBest
  BY DEF BestInv, WinnerIsBest
<1> QED
  BY <1>1, SweepInit, SweepNext, PTL DEF Spec

-----------------------------------------------------------------------------
(***************************************************************************)
(* What is simulated without hardware loops was analysed.  As long as the  *)
(* ELF file of a program is the original one nothing was compiled, so that *)
(* its hex file is the original one too, saved or not.                     *)
(***************************************************************************)
OriginalFiles ==
  \A p \in Programs : dir[p].elf = "orig" => saved[p].hex \in {"none", "orig"} /\ dir[p].hex \in {"none", "orig"}

Configured(p) ==
  dir[p].elf = "orig" => /\ Binary(p) \in config.used \ config.removable
                         /\ p = Min(Programs) => Binary(p) \in config.csrs

KeptInv ==
  /\ phase \in NotYetSwept => sweep = {}
  /\ phase = "verification" \/ sweep # {} => \A p \in Programs : Configured(p)
  /\ \A r \in sweep : r.runs = Runs(r.depth)

\* Runs depends on the files only, which the sweep leaves alone.
filesRead == <<dir, saved, hw, config>>

LEMMA KeptInit == Init => OriginalFiles /\ KeptInv
<1> SUFFICES ASSUME Init PROVE OriginalFiles /\ KeptInv
  OBVIOUS
<1>1. sweep = {} /\ phase \in NotYetSwept
  BY DEF Init, NotYetSwept
<1>2. OriginalFiles
  BY DEF Init, OriginalFiles
<1> QED
  BY <1>1, <1>2 DEF KeptInv, NotYetSwept

LEMMA OriginalFilesNext == OriginalFiles /\ [Next]_vars => OriginalFiles'
<1> SUFFICES ASSUME OriginalFiles, [Next]_vars PROVE OriginalFiles'
  OBVIOUS
<1>1. CASE StaticPass
  <2>1. dir' = Made("pass") \/ dir' \in HalfMade("pass")
    BY <1>1 DEF StaticPass
  <2>2. \A p \in Programs : dir'[p].elf # "orig"
    BY <2>1 DEF Made, HalfMade
  <2> QED
    BY <2>2 DEF OriginalFiles
<1>2. CASE UNCHANGED <<dir, saved>>
  BY <1>2 DEF OriginalFiles
<1>3. NoImage \/ NoMerge \/ MergeRaises \/ NoLoops \/ PatchLoops \/ Pruning \/ NoSimulator \/ Simulate \/ SetWinner
        \/ TimesOut \/ UNCHANGED vars => UNCHANGED <<dir, saved>>
  BY DEF NoImage, NoMerge, MergeRaises, NoLoops, PatchLoops, Pruning, NoSimulator, Simulate, ApplyDepth,
         SetWinner, TimesOut, compiled, vars
<1> QED
  BY <1>1, <1>2, <1>3 DEF Next

LEMMA ConfiguredUnchanged ==
  ASSUME UNCHANGED filesRead, NEW p \in Programs, Configured(p)
  PROVE  Configured(p)'
  BY DEF filesRead, Configured, Binary

LEMMA RunsUnchanged ==
  ASSUME UNCHANGED filesRead, NEW d
  PROVE  Runs(d)' = Runs(d)
  BY DEF filesRead, Runs, HexOf, First

LEMMA LeastNatural ==
  ASSUME NEW S \in SUBSET Nat, S # {}
  PROVE  \E m \in S : \A p \in S : m <= p
<1> DEFINE lt == {s \in Nat \X Nat : s[1] < s[2]}
<1>1. IsWellFoundedOn(lt, Nat)
  BY NatLessThanWellFounded DEF OpToRel
<1>2. PICK x \in S : \A y \in S : ~(<<y, x>> \in lt)
  BY <1>1, WFMin
<1>3. \A y \in S : ~(y < x)
  BY <1>2
<1> QED
  BY <1>3

\* The first of the suite is the first of the programs that were found.
LEMMA FirstOfSuite ==
  ASSUME NEW progs \in SUBSET Programs, Min(Programs) \in progs
  PROVE  Min(progs) = Min(Programs)
<1>1. \A p \in Programs : p \in Nat /\ Min(Programs) <= p
  <2>1. \E m \in Programs : \A p \in Programs : m <= p
    BY LeastNatural, SuiteAssumption
  <2> QED
    BY <2>1, SuiteAssumption DEF Min
<1>2. \A p \in progs : Min(Programs) <= p
  BY <1>1
<1>3. \A x \in progs : (\A p \in progs : x <= p) => x = Min(Programs)
  BY <1>1, <1>2
<1> QED
  BY <1>2, <1>3 DEF Min

LEMMA KeptNext == KeptInv /\ [Next]_vars => KeptInv'
<1> SUFFICES ASSUME KeptInv, [Next]_vars PROVE KeptInv'
  OBVIOUS
<1>1. CASE phase \in {"fusion", "hwloop"} /\ phase' \in NotYetSwept /\ UNCHANGED sweep
  BY <1>1 DEF KeptInv, NotYetSwept
<1>2. NoImage \/ StaticPass \/ NoMerge \/ NoLoops \/ PatchLoops
      => phase \in {"fusion", "hwloop"} /\ phase' \in NotYetSwept /\ UNCHANGED sweep
  BY DEF NoImage, StaticPass, NoMerge, NoLoops, PatchLoops, NotYetSwept
<1>3. CASE Pruning
  <2>1. /\ config' = [used |-> {Binary(p) : p \in Analysed} \cup WithLoops, removable |-> Removable(Analysed),
                      csrs |-> ProfileOf(Analysed)]
        /\ UNCHANGED <<dir, sweep>> /\ phase = "pruning"
    BY <1>3 DEF Pruning, compiled
  <2>2. ASSUME NEW p \in Programs PROVE Configured(p)'
    <3>1. SUFFICES ASSUME dir[p].elf = "orig"
                   PROVE  /\ Binary(p) \in config'.used \ config'.removable
                          /\ p = Min(Programs) => Binary(p) \in config'.csrs
      BY <2>1 DEF Configured, Binary
    <3>2. p \in Analysed
      BY <3>1 DEF Analysed
    <3>3. Binary(p) \notin Removable(Analysed)
      BY <3>2 DEF Removable
    <3>4. p = Min(Programs) => Min(Analysed) = p
      BY <3>2, FirstOfSuite DEF Analysed
    <3> QED
      BY <2>1, <3>2, <3>3, <3>4 DEF ProfileOf
  <2> QED
    BY <2>1, <2>2 DEF KeptInv, NotYetSwept
<1>4. CASE UNCHANGED <<filesRead, sweep>> /\ phase' = phase
  BY <1>4, ConfiguredUnchanged, RunsUnchanged DEF KeptInv
<1>5. NoSimulator \/ UNCHANGED vars => UNCHANGED <<filesRead, sweep>> /\ phase' = phase
  BY DEF NoSimulator, ApplyDepth, compiled, vars, filesRead
<1>6. CASE Simulate
  <2>1. PICK r, d : r.depth = d /\ r.runs = Runs(d) /\ sweep' = sweep \cup {r} /\ ApplyDepth(d)
    BY <1>6 DEF Simulate
  <2>2. UNCHANGED filesRead /\ phase' = phase /\ phase \notin NotYetSwept
    BY <1>6, <2>1 DEF Simulate, ApplyDepth, compiled, filesRead, NotYetSwept
  <2>3. \A q \in sweep' : q.runs = Runs(q.depth)'
    BY <2>1, <2>2, RunsUnchanged DEF KeptInv
  <2>4. phase = "verification" /\ \A p \in Programs : Configured(p)'
    BY <2>1, <2>2, ConfiguredUnchanged DEF KeptInv, ApplyDepth
  <2> QED
    BY <2>2, <2>3, <2>4 DEF KeptInv
<1>7. CASE SetWinner
  <2>1. UNCHANGED <<filesRead, sweep>> /\ phase = "verification" /\ phase' \in {"raised", "done"}
    BY <1>7 DEF SetWinner, compiled, filesRead
  <2> QED
    BY <2>1, ConfiguredUnchanged, RunsUnchanged DEF KeptInv, NotYetSwept
<1>8. CASE TimesOut \/ MergeRaises
  <2>1. sweep' = sweep /\ sweep = {} /\ phase' \in {"raised", "timeout"}
    BY <1>8 DEF TimesOut, MergeRaises, KeptInv, NotYetSwept
  <2> QED
    BY <2>1 DEF KeptInv, NotYetSwept
<1> QED
  BY <1>1, <1>2, <1>3, <1>4, <1>5, <1>6, <1>7, <1>8 DEF Next

LEMMA KeptImplies == OriginalFiles /\ KeptInv => SimulatedNeedsKept
<1> SUFFICES ASSUME OriginalFiles, KeptInv, NEW r \in sweep, r.depth = 0, NEW x \in r.runs, dir[x[1]].elf = "orig"
             PROVE  /\ x \in config.used \ config.removable
                    /\ x[1] = Min(Programs) => x \in config.csrs
  BY DEF SimulatedNeedsKept
<1>1. PICK p \in Programs : x = <<p, HexOf(p, 0)>> /\ HexOf(p, 0) # "none"
  BY DEF KeptInv, Runs
<1>2. Configured(p)
  BY DEF KeptInv
<1>3. HexOf(p, 0) = "orig"
  BY <1>1 DEF OriginalFiles, HexOf, First
<1> QED
  BY <1>1, <1>2, <1>3 DEF Configured, Binary

\* The RTL that serves all programs keeps the instructions of each program
\* simulated on its original build without hardware loops, and the CSRs of the
\* first of the suite (_run_multi_pruning against the choice of hex files in
\* _run_multi_verification).
THEOREM SimulatedNeedsAlwaysKept == Spec => []SimulatedNeedsKept
<1> QED
  BY KeptInit, OriginalFilesNext, KeptNext, KeptImplies, PTL DEF Spec
=============================================================================
