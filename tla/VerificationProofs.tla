-------------------------- MODULE VerificationProofs --------------------------
(***************************************************************************)
(* The safety properties of the verification pipeline, for any number of   *)
(* depths and candidates, any cycle and cell counts and any tool outcomes. *)
(*                                                                         *)
(* The invariant comes in three layers, each proved with the ones before:  *)
(* TypeInv (types, and indices that stay in range), BuildInv (which builds *)
(* and prune configs the context holds) and SweepInv (what the results of  *)
(* the sweep are about).                                                   *)
(***************************************************************************)
EXTENDS Verification, FiniteSetTheorems, WellFoundedInduction, TLAPS

-----------------------------------------------------------------------------
(***************************************************************************)
(* Least numbers and the first minimum.                                    *)
(***************************************************************************)
\* A set of naturals has a least member.
LEMMA LeastNatural ==
  ASSUME NEW T \in SUBSET Nat, T # {}
  PROVE  \E x \in T : \A y \in T : x <= y
<1> DEFINE lt == {s \in Nat \X Nat : s[1] < s[2]}
<1>1. IsWellFoundedOn(lt, Nat)
  BY NatLessThanWellFounded DEF OpToRel
<1>2. PICK x \in T : \A y \in T : ~(<<y, x>> \in lt)
  BY <1>1, WFMin
<1>3. \A y \in T : ~(y < x)  BY <1>2
<1> QED  BY <1>3

\* A bounded set of naturals has a greatest member.
LEMMA GreatestNatural ==
  ASSUME NEW n \in Nat, NEW S \in SUBSET (0 .. n), S # {}
  PROVE  \E i \in S : \A j \in S : j <= i
<1> DEFINE Distances == {n - i : i \in S}
<1>1. \A i \in S : i \in Nat /\ n - i \in Nat  OBVIOUS
<1>2. Distances \in SUBSET Nat /\ Distances # {}
  <2>1. \A d \in Distances : \E i \in S : d = n - i  OBVIOUS
  <2>2. \A d \in Distances : d \in Nat  BY <1>1, <2>1
  <2>3. Distances # {}  OBVIOUS
  <2> QED  BY <2>2, <2>3
<1>3. PICK m \in Distances : \A y \in Distances : m <= y  BY <1>2, LeastNatural
<1>4. PICK i \in S : m = n - i  OBVIOUS
<1>5. \A j \in S : n - j \in Distances  OBVIOUS
<1>6. \A j \in S : n - i <= n - j  BY <1>3, <1>4, <1>5
<1> HIDE DEF Distances
<1>7. \A j \in S : j <= i  BY <1>1, <1>6
<1> QED  BY <1>7

\* FirstMin finds the first index with the smallest key.
LEMMA FirstMinIsFirst ==
  ASSUME NEW S \in SUBSET Nat, S # {}, NEW key, \A i \in S : key[i] \in Nat
  PROVE  /\ FirstMin(S, key) \in S
         /\ \A j \in S : key[FirstMin(S, key)] <= key[j]
<1>1. PICK i0 \in S : \A j \in S : key[i0] <= key[j]
  <2> DEFINE Keys == {key[i] : i \in S}
  <2>1. Keys \in SUBSET Nat /\ Keys # {}  OBVIOUS
  <2>2. PICK k \in Keys : \A y \in Keys : k <= y  BY <2>1, LeastNatural
  <2> QED  BY <2>2
<1>2. PICK i \in {j \in S : key[j] = key[i0]} : \A j \in {j \in S : key[j] = key[i0]} : i <= j
  <2> DEFINE Best == {j \in S : key[j] = key[i0]}
  <2>1. Best \in SUBSET Nat /\ Best # {}  OBVIOUS
  <2> QED  BY <2>1, LeastNatural
<1>3. i \in S /\ \A j \in S : key[i] < key[j] \/ (key[i] = key[j] /\ i <= j)
  BY <1>1, <1>2
<1>4. PICK m : m = FirstMin(S, key)  OBVIOUS
<1>5. m \in S /\ \A j \in S : key[m] < key[j] \/ (key[m] = key[j] /\ m <= j)
  BY <1>3, <1>4 DEF FirstMin
<1>6. \A j \in S : key[m] <= key[j]  BY <1>5
<1> QED  BY <1>4, <1>5, <1>6

\* What a sequence holds.
LEMMA Members ==
  ASSUME NEW S, NEW s \in Seq(S)
  PROVE  /\ Len(s) \in Nat /\ DOMAIN s = 1 .. Len(s)
         /\ \A i \in DOMAIN s : s[i] \in S
OBVIOUS

\* pick_best finds two passing candidates no other one beats, or none when none
\* passes.
LEMMA PickBestIsBest ==
  ASSUME NEW rs \in Seq([cycles : Nat, cells : Nat, passed : BOOLEAN, hex : Builds])
  PROVE  LET adp == PickBest(rs).adp
             cycles == PickBest(rs).cycles
         IN IF Passing(rs) = {} THEN PickBest(rs) = NoWinners
            ELSE /\ PickBest(rs) # NoWinners
                 /\ adp \in Passing(rs) /\ cycles \in Passing(rs)
                 /\ \A i \in Passing(rs) : /\ rs[cycles].cycles <= rs[i].cycles
                                           /\ Adp(rs, adp) <= Adp(rs, i)
<1> DEFINE passing == Passing(rs)
           adpOf == [i \in passing |-> Adp(rs, i)]
           cyclesOf == [i \in passing |-> rs[i].cycles]
<1>1. passing \in SUBSET (Nat \ {0})  BY DEF Passing
<1>2. \A i \in passing : rs[i].cycles \in Nat /\ rs[i].cells \in Nat
  <2>1. \A i \in DOMAIN rs : rs[i] \in [cycles : Nat, cells : Nat, passed : BOOLEAN, hex : Builds]
    BY Members
  <2>2. passing \subseteq DOMAIN rs  BY DEF Passing
  <2> QED  BY <2>1, <2>2
<1>3. \A i \in passing : Adp(rs, i) \in Nat  BY <1>2 DEF Adp
<1>4. CASE passing = {}  BY <1>4 DEF PickBest
<1>5. CASE passing # {}
  <2>1. PickBest(rs) = [adp |-> FirstMin(passing, adpOf), cycles |-> FirstMin(passing, cyclesOf)]
    BY <1>5 DEF PickBest
  <2>2. /\ FirstMin(passing, adpOf) \in passing
        /\ \A j \in passing : adpOf[FirstMin(passing, adpOf)] <= adpOf[j]
    BY <1>1, <1>3, <1>5, FirstMinIsFirst
  <2>3. /\ FirstMin(passing, cyclesOf) \in passing
        /\ \A j \in passing : cyclesOf[FirstMin(passing, cyclesOf)] <= cyclesOf[j]
    BY <1>1, <1>2, <1>5, FirstMinIsFirst
  <2>4. PickBest(rs) # NoWinners  BY <1>1, <2>1, <2>2 DEF NoWinners
  <2> QED  BY <1>5, <2>1, <2>2, <2>3, <2>4
<1> QED  BY <1>4, <1>5

-----------------------------------------------------------------------------
(***************************************************************************)
(* Types of what the actions compute.                                      *)
(***************************************************************************)
ChangeSets == [hwLoop : 0 .. MaxDepth, fused : BOOLEAN, r4 : BOOLEAN, resolved : BOOLEAN]
SweepResults == [cycles : Nat, cells : Nat, passed : BOOLEAN, hex : Builds]

\* Builds are builds.
LEMMA BuildTypes ==
  /\ NoBuild \in Builds /\ Original \in Builds /\ Fused \in Builds
  /\ \A kind \in {"none", "orig", "fused", "hwfused", "hwplain"}, hw \in 0 .. MaxDepth,
        variant \in Variant, origin \in {"built", "validated", "selected"} :
       Build(kind, hw, variant, origin) \in Builds
  /\ NoBuild # Original /\ NoBuild # Fused
BY BoundsAssumption DEF NoBuild, Original, Fused, Build, Builds, Variant

\* apply() keeps the types.
LEMMA ApplyTypes ==
  ASSUME NEW own \in ChangeSets, NEW config \in PruneConfig
  PROVE  /\ AppliedConfig(own, config) \in PruneConfig
         /\ AppliedFlag(own, config) \in 0 .. MaxDepth
         /\ AppliedRtl(own, config) \in Rtl
<1> DEFINE hw == IF own.hwLoop > 0 THEN own.hwLoop ELSE config.hwLoop
           rd == config.rdC \/ own.hwLoop > 0 \/ own.r4
<1>1. /\ own.hwLoop \in 0 .. MaxDepth /\ own.fused \in BOOLEAN /\ own.r4 \in BOOLEAN
      /\ config.hwLoop \in 0 .. MaxDepth /\ config.rdC \in BOOLEAN /\ config.elf \in Builds
  BY DEF ChangeSets, PruneConfig
<1>2. hw \in 0 .. MaxDepth  BY <1>1
<1>3. rd \in BOOLEAN  BY <1>1
<1>4. [config EXCEPT !.hwLoop = hw, !.rdC = rd] \in PruneConfig
  BY <1>2, <1>3 DEF PruneConfig
<1>5. Resolve(own, config) \in PruneConfig  BY <1>4 DEF Resolve
<1>6. \A c \in PruneConfig : [c EXCEPT !.hwLoop = own.hwLoop] \in PruneConfig
  BY <1>1 DEF PruneConfig
<1>7. AppliedConfig(own, config) \in PruneConfig  BY <1>5, <1>6 DEF AppliedConfig
<1>8. AppliedFlag(own, config) \in 0 .. MaxDepth
  BY <1>7 DEF AppliedFlag, PruneConfig
<1>9. AppliedConfig(own, config).rdC \in BOOLEAN  BY <1>7 DEF PruneConfig
<1>10. AppliedRtl(own, config) \in Rtl
  BY <1>1, <1>9 DEF AppliedRtl, Rtl
<1> QED  BY <1>7, <1>8, <1>10

\* What apply() makes of a change set that has not been resolved.
LEMMA ApplyUnresolved ==
  ASSUME NEW own \in ChangeSets, NEW config \in PruneConfig, ~own.resolved
  PROVE  /\ AppliedFlag(own, config) = IF own.hwLoop > 0 THEN own.hwLoop ELSE config.hwLoop
         /\ AppliedRtl(own, config).prunedFor = config.elf
         /\ AppliedRtl(own, config).fused = own.fused
         /\ AppliedRtl(own, config).r4 = own.r4
         /\ AppliedRtl(own, config).hwLoop = own.hwLoop
         /\ own.hwLoop > 0 \/ own.r4 => AppliedRtl(own, config).rdC
BY DEF ChangeSets, PruneConfig, AppliedFlag, AppliedRtl, AppliedConfig, Resolve

\* The prune configs and change sets the steps make.
LEMMA MadeTypes ==
  /\ \A elf \in Builds : /\ NewConfig(elf) \in PruneConfig
                         /\ NewConfig(elf).elf = elf /\ NewConfig(elf).hwLoop = 0
  /\ \A c \in ChangeSets :
       /\ AddPruneConfig(c) \in ChangeSets /\ ~AddPruneConfig(c).resolved
       /\ AddPruneConfig(c).hwLoop = c.hwLoop /\ AddPruneConfig(c).fused = c.fused
<1>1. ASSUME NEW elf \in Builds
      PROVE  /\ NewConfig(elf) \in PruneConfig
             /\ NewConfig(elf).elf = elf /\ NewConfig(elf).hwLoop = 0
  BY BoundsAssumption DEF NewConfig, PruneConfigOf, PruneConfig
<1>2. ASSUME NEW c \in ChangeSets
      PROVE  /\ AddPruneConfig(c) \in ChangeSets /\ ~AddPruneConfig(c).resolved
             /\ AddPruneConfig(c).hwLoop = c.hwLoop /\ AddPruneConfig(c).fused = c.fused
  BY DEF ChangeSets, AddPruneConfig
<1> QED  BY <1>1, <1>2

\* Outcomes and results.
LEMMA OutcomeTypes ==
  /\ Fail \in Outcome /\ SomeOutcome \in Outcome /\ ~Fail.passed
  /\ \A out \in Outcome : out.passed \in BOOLEAN /\ out.cycles \in Nat
  /\ \A out \in Outcome, cells \in Nat, hex \in Builds :
       SweepResult(out, cells, hex) \in SweepResults
<1>1. (CHOOSE c \in Cycles : TRUE) \in Cycles  BY BoundsAssumption
<1>2. Fail \in Outcome /\ SomeOutcome \in Outcome /\ ~Fail.passed
  BY <1>1 DEF Fail, SomeOutcome, Outcome
<1>3. ASSUME NEW out \in Outcome PROVE out.passed \in BOOLEAN /\ out.cycles \in Nat
  <2>1. \A o \in [passed : {TRUE}, cycles : Cycles] : o.passed = TRUE /\ o.cycles \in Nat
    BY BoundsAssumption
  <2>2. Fail.passed = FALSE /\ Fail.cycles = 0  BY DEF Fail
  <2>3. CASE out = Fail
    <3>1. Fail.passed \in BOOLEAN /\ Fail.cycles \in Nat  BY DEF Fail
    <3> QED  BY <2>3, <3>1
  <2>4. CASE out # Fail
    <3>1. out.passed = TRUE /\ out.cycles \in Nat  BY <2>1, <2>4 DEF Outcome
    <3> QED  BY <3>1
  <2> QED  BY <2>3, <2>4
<1>4. \A out \in Outcome, cells \in Nat, hex \in Builds :
        SweepResult(out, cells, hex) \in SweepResults
  BY <1>3 DEF SweepResult, SweepResults
<1> QED  BY <1>2, <1>3, <1>4

\* A stored run, typed.
LEMMA RunTypes ==
  /\ NoRun \in Run /\ NoRtl \in Rtl
  /\ \A asked \in Builds, lost \in SUBSET Builds, rtl \in Rtl, f \in 0 .. MaxDepth,
        out \in Outcome :
       ctx \in [fused : Builds, hwloop : Builds, plain : Builds] =>
         RunOf(asked, lost, rtl, f, out) \in Run
  /\ \A hex, asked \in Builds, rtl \in Rtl, f \in 0 .. MaxDepth, out \in Outcome :
       [hex |-> hex, asked |-> asked, flag |-> f, out |-> out, rtl |-> rtl] \in Run
<1>1. NoRtl = [prunedFor |-> NoBuild, fused |-> FALSE, r4 |-> FALSE, hwLoop |-> 0, rdC |-> FALSE]
  BY DEF NoRtl, NoRun
<1>2. NoRtl \in Rtl  BY <1>1, BuildTypes, BoundsAssumption DEF Rtl
<1>3. \A hex, asked \in Builds, rtl \in Rtl, f \in 0 .. MaxDepth, out \in Outcome :
        [hex |-> hex, asked |-> asked, flag |-> f, out |-> out, rtl |-> rtl] \in Run
  BY DEF Run
<1>4. NoRun \in Run
  <2>1. NoRun = [hex |-> NoBuild, asked |-> NoBuild, flag |-> 0, out |-> Fail, rtl |-> NoRtl]
    BY <1>1 DEF NoRun
  <2> QED  BY <1>2, <1>3, <2>1, BuildTypes, OutcomeTypes, BoundsAssumption
<1>5. ASSUME NEW asked \in Builds, NEW lost \in SUBSET Builds, NEW rtl \in Rtl,
             NEW f \in 0 .. MaxDepth, NEW out \in Outcome,
             ctx \in [fused : Builds, hwloop : Builds, plain : Builds]
      PROVE  RunOf(asked, lost, rtl, f, out) \in Run
  <2>1. HexToRun(asked, lost) \in Builds
    BY <1>5, BuildTypes DEF HexToRun, ElfToAnalyze
  <2> QED  BY <1>3, <2>1 DEF RunOf
<1> QED  BY <1>2, <1>3, <1>4, <1>5

\* A candidate's builds are patched for its depth.
Proper(c) ==
  /\ c \in Candidate
  /\ c.fused # NoBuild => c.fused.kind = "hwfused" /\ c.fused.hw = c.hw
  /\ c.plain # NoBuild => c.plain.kind = "hwplain" /\ c.plain.hw = c.hw

\* What hwloop.run makes of two depth lists.
LEMMA CandidatesMade ==
  ASSUME NEW nounroll \in DepthLists, NEW unroll \in DepthLists, NEW hasFused, NEW hasPlain
  PROVE  LET n == Len(nounroll) + Len(unroll)
             made == Candidates(nounroll, unroll, hasFused, hasPlain)
         IN /\ n \in Nat /\ made \in Seq(Candidate) /\ Len(made) = n /\ DOMAIN made = 1 .. n
            /\ \A i \in 1 .. n : Proper(made[i]) /\ (i \notin hasFused => made[i].fused = NoBuild)
<1> DEFINE n == Len(nounroll) + Len(unroll)
           made == Candidates(nounroll, unroll, hasFused, hasPlain)
           variant(i) == IF i <= Len(nounroll) THEN "nounroll" ELSE "unroll"
           hw(i) == (nounroll \o unroll)[i]
<1>1. nounroll \in Seq(Depth) /\ unroll \in Seq(Depth)
  <2>1. \A s \in DepthLists : \E k \in 0 .. MaxDepth : s \in [1 .. k -> Depth]
    BY DEF DepthLists
  <2>2. \A k \in 0 .. MaxDepth : [1 .. k -> Depth] \subseteq Seq(Depth)
    BY BoundsAssumption
  <2> QED  BY <2>1, <2>2
<1>2. n \in Nat /\ \A i \in 1 .. n : hw(i) \in Depth
  BY <1>1
<1>3. ASSUME NEW i \in 1 .. n
      PROVE  made[i] = [hw |-> hw(i), variant |-> variant(i),
               fused |-> IF i \in hasFused THEN Build("hwfused", hw(i), variant(i), "built") ELSE NoBuild,
               plain |-> IF i \in hasPlain THEN Build("hwplain", hw(i), variant(i), "built") ELSE NoBuild]
  BY DEF Candidates
<1>4. ASSUME NEW i \in 1 .. n PROVE Proper(made[i])
  <2>1. hw(i) \in Depth /\ hw(i) \in 0 .. MaxDepth  BY <1>2, BoundsAssumption DEF Depth
  <2>2. variant(i) \in Variant  BY DEF Variant
  <2> HIDE DEF hw, variant, made
  <2> DEFINE f == IF i \in hasFused THEN Build("hwfused", hw(i), variant(i), "built") ELSE NoBuild
             p == IF i \in hasPlain THEN Build("hwplain", hw(i), variant(i), "built") ELSE NoBuild
  <2>3. f \in Builds /\ p \in Builds  BY <2>1, <2>2, BuildTypes
  <2>4. /\ f # NoBuild => f.kind = "hwfused" /\ f.hw = hw(i)
        /\ p # NoBuild => p.kind = "hwplain" /\ p.hw = hw(i)
    BY DEF Build
  <2>5. made[i] = [hw |-> hw(i), variant |-> variant(i), fused |-> f, plain |-> p]
    BY <1>3 DEF made
  <2> HIDE DEF f, p
  <2> QED  BY <2>1, <2>2, <2>3, <2>4, <2>5 DEF Proper, Candidate
<1>5. \A i \in 1 .. n : i \notin hasFused => made[i].fused = NoBuild
  BY DEF Candidates
<1>6. made \in [1 .. n -> Candidate]
  <2>1. \A i \in 1 .. n : made[i] \in Candidate  BY <1>4 DEF Proper
  <2>2. DOMAIN made = 1 .. n /\ made = [i \in 1 .. n |-> made[i]]  BY DEF Candidates
  <2> HIDE DEF made
  <2> QED  BY <2>1, <2>2
<1> HIDE DEF made
<1>7. made \in Seq(Candidate) /\ Len(made) = n  BY <1>2, <1>6
<1> QED  BY <1>2, <1>4, <1>5, <1>6, <1>7 DEF made

-----------------------------------------------------------------------------
(***************************************************************************)
(* Types and ranges.                                                       *)
(***************************************************************************)
BeforeSweep == {"fusion", "hwloop", "pruning", "step2", "step3", "sweep"}

\* Results and RTL directories are of candidates, and a winner is one.
Ranges ==
  /\ Len(sweepRtl) = Len(results) /\ Len(results) <= Len(cands)
  /\ pc \in BeforeSweep => results = <<>> /\ sweepRtl = <<>> /\ round = "default"
  /\ pc = "sweeping" => round = "default"
  /\ pc = "select" => round # "default"
  /\ round # "default" => winners.adp \in DOMAIN cands /\ winners.cycles \in DOMAIN cands

TypeInv == TypeOK /\ Ranges

LEMMA InitTypeInv == Init => TypeInv
<1> SUFFICES ASSUME Init PROVE TypeInv
  OBVIOUS
<1> USE DEF Init
<1>1. MaxDepth \in Nat /\ 0 \in 0 .. MaxDepth  BY BoundsAssumption
<1>2. cs \in ChangeSets  BY <1>1 DEF ChangeSet, ChangeSets
<1>3. PruneConfigOf(NoBuild, TRUE) \in PruneConfig
  BY <1>1, BuildTypes DEF PruneConfigOf, PruneConfig
<1>4. configs \in [{"orig", "hwonly", "main"} -> PruneConfig]  BY <1>3
<1>5. sims \in [Label -> Run]  BY RunTypes
<1>6. hexes \in [Label -> Builds] /\ missing \subseteq Builds  BY BuildTypes
<1>7. ctx \in [fused : Builds, hwloop : Builds, plain : Builds] /\ fusedOnly \in Builds
      /\ saved \in [hwLoop : 0 .. MaxDepth, fused : Builds]
  BY <1>1, BuildTypes
<1>8. cands \in Seq(Candidate) /\ sweepRtl \in Seq(Rtl) /\ results \in Seq(SweepResults)
  OBVIOUS
<1>9. winners \in [adp : Nat, cycles : Nat, evaluated : BOOLEAN]  OBVIOUS
<1>10. TypeOK
  BY <1>1, <1>2, <1>4, <1>5, <1>6, <1>7, <1>8, <1>9 DEF TypeOK, ChangeSets, SweepResults
<1>11. Ranges  BY DEF Ranges, BeforeSweep
<1> QED  BY <1>10, <1>11 DEF TypeInv

\* The fields of what the variables hold.
LEMMA Fields ==
  ASSUME TypeInv
  PROVE  /\ ctx.fused \in Builds /\ ctx.hwloop \in Builds /\ ctx.plain \in Builds
         /\ cs \in ChangeSets /\ cs.hwLoop \in 0 .. MaxDepth
         /\ cs.fused \in BOOLEAN /\ cs.r4 \in BOOLEAN
         /\ results \in Seq(SweepResults) /\ sweepRtl \in Seq(Rtl) /\ cands \in Seq(Candidate)
         /\ \A o \in {"orig", "hwonly", "main"} : configs[o] \in PruneConfig
         /\ ElfToAnalyze \in Builds
         /\ MaxDepth \in Nat \ {0}
BY BuildTypes, BoundsAssumption DEF TypeInv, TypeOK, ChangeSets, SweepResults, ElfToAnalyze

LEMMA CandidateFields ==
  ASSUME TypeInv, NEW i \in DOMAIN cands
  PROVE  /\ i \in Nat \ {0} /\ cands[i] \in Candidate
         /\ cands[i].hw \in Depth /\ cands[i].hw \in 0 .. MaxDepth /\ cands[i].variant \in Variant
         /\ cands[i].fused \in Builds /\ cands[i].plain \in Builds
<1>1. /\ DOMAIN cands = 1 .. Len(cands) /\ Len(cands) \in Nat /\ cands[i] \in Candidate
  BY Members DEF TypeInv, TypeOK
<1> QED  BY <1>1, BoundsAssumption DEF Candidate, Depth

LEMMA WinnerInRange ==
  ASSUME TypeInv, round # "default"
  PROVE  WinnerIndex \in DOMAIN cands
BY DEF TypeInv, Ranges, WinnerIndex

\* What hwloop.run leaves behind: proper candidates and, when one of them has a
\* hex, the depth and the builds of one candidate.
LEMMA HwloopOutcome ==
  ASSUME TypeInv, RunHwloop
  PROVE  /\ cands' \in Seq(Candidate) /\ \A i \in DOMAIN cands' : Proper(cands'[i])
         /\ \/ UNCHANGED <<ctx, cs>> /\ \A i \in DOMAIN cands' : cands'[i].fused = NoBuild
            \/ \E b \in DOMAIN cands' :
                 /\ cs' = [cs EXCEPT !.hwLoop = cands'[b].hw]
                 /\ ctx' = [fused  |-> IF cands'[b].fused # NoBuild THEN cands'[b].fused
                                                                    ELSE ctx.fused,
                            hwloop |-> cands'[b].fused,
                            plain  |-> cands'[b].plain]
<1>1. PICK nounroll \in DepthLists, unroll \in DepthLists :
        LET n == Len(nounroll) + Len(unroll) IN
        \E hasFused, hasPlain \in SUBSET (1 .. n) :
            /\ cands' = Candidates(nounroll, unroll, hasFused, hasPlain)
            /\ IF hasFused \cup hasPlain = {}
               THEN UNCHANGED <<ctx, cs>>
               ELSE LET shallowness == [i \in 1 .. n |-> MaxDepth - cands'[i].hw]
                        best == cands'[FirstMin(hasFused \cup hasPlain, shallowness)]
                    IN /\ cs' = [cs EXCEPT !.hwLoop = best.hw]
                       /\ ctx' = [fused  |-> IF best.fused # NoBuild THEN best.fused
                                                                    ELSE ctx.fused,
                                  hwloop |-> best.fused,
                                  plain  |-> best.plain]
  BY DEF RunHwloop
<1> DEFINE n == Len(nounroll) + Len(unroll)
<1>2. PICK hasFused \in SUBSET (1 .. n), hasPlain \in SUBSET (1 .. n) :
            /\ cands' = Candidates(nounroll, unroll, hasFused, hasPlain)
            /\ IF hasFused \cup hasPlain = {}
               THEN UNCHANGED <<ctx, cs>>
               ELSE LET shallowness == [i \in 1 .. n |-> MaxDepth - cands'[i].hw]
                        best == cands'[FirstMin(hasFused \cup hasPlain, shallowness)]
                    IN /\ cs' = [cs EXCEPT !.hwLoop = best.hw]
                       /\ ctx' = [fused  |-> IF best.fused # NoBuild THEN best.fused
                                                                    ELSE ctx.fused,
                                  hwloop |-> best.fused,
                                  plain  |-> best.plain]
  BY <1>1
<1>3. /\ n \in Nat /\ cands' \in Seq(Candidate) /\ Len(cands') = n /\ DOMAIN cands' = 1 .. n
      /\ \A i \in 1 .. n : Proper(cands'[i]) /\ (i \notin hasFused => cands'[i].fused = NoBuild)
  BY <1>2, CandidatesMade
<1> HIDE DEF n
<1>4. CASE hasFused \cup hasPlain = {}
  <2>1. \A i \in 1 .. n : i \notin hasFused  BY <1>4
  <2> QED  BY <1>2, <1>3, <1>4, <2>1
<1>5. CASE hasFused \cup hasPlain # {}
  <2> DEFINE shallowness == [i \in 1 .. n |-> MaxDepth - cands'[i].hw]
  <2>1. \A i \in 1 .. n : cands'[i].hw \in 1 .. MaxDepth
    BY <1>3 DEF Proper, Candidate, Depth
  <2>2. \A i \in hasFused \cup hasPlain : shallowness[i] \in Nat
    BY <1>2, <2>1, BoundsAssumption
  <2>3. hasFused \cup hasPlain \in SUBSET Nat  BY <1>2, <1>3
  <2>4. PICK b : b = FirstMin(hasFused \cup hasPlain, shallowness)  OBVIOUS
  <2>5. b \in 1 .. n  BY <1>2, <1>5, <2>2, <2>3, <2>4, FirstMinIsFirst
  <2>6. /\ cs' = [cs EXCEPT !.hwLoop = cands'[b].hw]
        /\ ctx' = [fused  |-> IF cands'[b].fused # NoBuild THEN cands'[b].fused ELSE ctx.fused,
                   hwloop |-> cands'[b].fused, plain  |-> cands'[b].plain]
    BY <1>2, <1>5, <2>4
  <2> QED  BY <1>3, <2>5, <2>6
<1> QED  BY <1>4, <1>5

LEMMA TypeBefore ==
  ASSUME TypeInv, RunFusion \/ RunHwloop \/ RunPruning
  PROVE  TypeInv'
<1>1. CASE RunFusion
  <2>1. ctx' \in [fused : Builds, hwloop : Builds, plain : Builds] /\ fusedOnly' \in Builds
    BY <1>1, BuildTypes DEF RunFusion, TypeInv, TypeOK
  <2>2. cs' \in ChangeSets
    <3>1. CASE UNCHANGED cs  BY <3>1, Fields
    <3>2. ASSUME NEW ops \in BOOLEAN, NEW r4 \in BOOLEAN, cs' = ChangeSet(0, ops, r4)
          PROVE  cs' \in ChangeSets
      <4>1. (r4 /\ ops) \in BOOLEAN  OBVIOUS
      <4>2. cs' = [hwLoop |-> 0, fused |-> ops, r4 |-> r4 /\ ops, resolved |-> FALSE]
        BY <3>2 DEF ChangeSet
      <4> QED  BY <4>1, <4>2, BoundsAssumption DEF ChangeSets
    <3> QED  BY <1>1, <3>1, <3>2 DEF RunFusion
  <2> QED
    BY <1>1, <2>1, <2>2
    DEF RunFusion, configVars, sweepVars, outVars, TypeInv, TypeOK, Ranges, BeforeSweep, ChangeSets
<1>2. CASE RunHwloop
  <2>1. /\ cands' \in Seq(Candidate) /\ \A i \in DOMAIN cands' : Proper(cands'[i])
        /\ \/ UNCHANGED <<ctx, cs>>
           \/ \E b \in DOMAIN cands' :
                 /\ cs' = [cs EXCEPT !.hwLoop = cands'[b].hw]
                 /\ ctx' = [fused  |-> IF cands'[b].fused # NoBuild THEN cands'[b].fused
                                                                    ELSE ctx.fused,
                            hwloop |-> cands'[b].fused,
                            plain  |-> cands'[b].plain]
    BY <1>2, HwloopOutcome
  <2>2. \A i \in DOMAIN cands' : /\ cands'[i].hw \in 0 .. MaxDepth
                                 /\ cands'[i].fused \in Builds /\ cands'[i].plain \in Builds
    BY <2>1, BoundsAssumption DEF Proper, Candidate, Depth
  <2>3. cs' \in ChangeSets  BY <2>1, <2>2, Fields DEF ChangeSets
  <2>4. ctx' \in [fused : Builds, hwloop : Builds, plain : Builds]
    BY <2>1, <2>2, Fields DEF TypeInv, TypeOK
  <2>5. /\ pc = "hwloop" /\ pc' = "pruning"
        /\ UNCHANGED <<round, fusedOnly, configVars, flag, sweepVars, outVars>>
    BY <1>2 DEF RunHwloop
  <2>6. TypeOK'
    BY <2>1, <2>3, <2>4, <2>5 DEF configVars, sweepVars, outVars, TypeInv, TypeOK, ChangeSets
  <2>7. Len(cands') \in Nat  BY <2>1, Members
  <2>8. Ranges'
    BY <2>5, <2>7 DEF configVars, sweepVars, outVars, TypeInv, Ranges, BeforeSweep
  <2> QED  BY <2>6, <2>8 DEF TypeInv
<1>3. CASE RunPruning
  <2>1. /\ NewConfig(Original) \in PruneConfig /\ NewConfig(ctx.plain) \in PruneConfig
        /\ NewConfig(ElfToAnalyze) \in PruneConfig
    BY Fields, BuildTypes, MadeTypes
  <2>2. configs' \in [{"orig", "hwonly", "main"} -> PruneConfig]
    <3>1. CASE cs.fused
      <4>1. configs' = [orig |-> NewConfig(Original), hwonly |-> NewConfig(ctx.plain),
                        main |-> NewConfig(ElfToAnalyze)]
        BY <1>3, <3>1 DEF RunPruning
      <4> QED  BY <2>1, <4>1
    <3>2. CASE ~cs.fused
      <4>1. configs' = [configs EXCEPT !.orig = NewConfig(ElfToAnalyze)]
        BY <1>3, <3>2 DEF RunPruning
      <4> QED  BY <2>1, <4>1 DEF TypeInv, TypeOK
    <3> QED  BY <3>1, <3>2
  <2>3. mainRef' \in {"main", "orig"} /\ hwonlyRef' \in {"hwonly", "orig"}
    BY <1>3 DEF RunPruning
  <2>4. cs' \in ChangeSets  BY <1>3, Fields, MadeTypes DEF RunPruning
  <2>5. /\ pc = "pruning" /\ pc' = "step2"
        /\ UNCHANGED <<round, ctx, choiceVars, flag, sweepVars, outVars>>
    BY <1>3 DEF RunPruning
  <2> QED
    BY <2>2, <2>3, <2>4, <2>5
    DEF choiceVars, sweepVars, outVars, TypeInv, TypeOK, Ranges, BeforeSweep, ChangeSets
<1> QED  BY <1>1, <1>2, <1>3

LEMMA TypeSteps23 ==
  ASSUME TypeInv, StepPruned \/ StepFused
  PROVE  TypeInv'
<1>1. CASE StepPruned
  <2> DEFINE own == ChangeSet(0, FALSE, FALSE)
  <2>1. own \in ChangeSets /\ configs["orig"] \in PruneConfig
    BY Fields, BoundsAssumption DEF ChangeSet, ChangeSets
  <2>2. /\ pc = "step2" /\ pc' \in {"step3", "sweep"}
        /\ flag' = AppliedFlag(own, configs["orig"]) /\ configs' = configs
        /\ sims' = [sims EXCEPT !["pruned"] =
                [hex |-> Original, asked |-> Original, flag |-> flag', out |-> SomeOutcome,
                 rtl |-> AppliedRtl(own, configs["orig"])]]
        /\ UNCHANGED <<round, ctx, choiceVars, cs, mainRef, hwonlyRef, sweepVars, hexes, missing>>
    BY <1>1 DEF StepPruned, ConfigsAfterApply
  <2> HIDE DEF own
  <2>3. flag' \in 0 .. MaxDepth /\ AppliedRtl(own, configs["orig"]) \in Rtl
    BY <2>1, <2>2, ApplyTypes
  <2>4. sims' \in [Label -> Run]
    BY <2>2, <2>3, RunTypes, OutcomeTypes, BuildTypes DEF TypeInv, TypeOK
  <2> QED
    BY <2>2, <2>3, <2>4
    DEF choiceVars, sweepVars, TypeInv, TypeOK, Ranges, BeforeSweep
<1>2. CASE StepFused
  <2> DEFINE own == ChangeSet(0, TRUE, cs.r4)
             hex == IF fusedOnly # NoBuild THEN fusedOnly ELSE ctx.fused
             rtl == AppliedRtl(own, configs[mainRef])
  <2>1. own \in ChangeSets /\ configs[mainRef] \in PruneConfig
    <3>1. own \in ChangeSets  BY Fields, BoundsAssumption DEF ChangeSet, ChangeSets
    <3>2. mainRef \in {"orig", "hwonly", "main"}  BY DEF TypeInv, TypeOK
    <3> QED  BY <3>1, <3>2, Fields
  <2>2. hex \in Builds  BY Fields DEF TypeInv, TypeOK
  <2>3. /\ pc = "step3" /\ pc' = "sweep"
        /\ flag' = AppliedFlag(own, configs[mainRef]) /\ configs' = configs
        /\ hexes' = [hexes EXCEPT !["fused_pruned"] = hex]
        /\ sims' = [sims EXCEPT !["fused_pruned"] = RunOf(hex, missing, rtl, flag', SomeOutcome)]
        /\ UNCHANGED <<round, ctx, choiceVars, cs, mainRef, hwonlyRef, sweepVars, missing>>
    BY <1>2 DEF StepFused, ConfigsAfterApply
  <2>4. flag' \in 0 .. MaxDepth /\ rtl \in Rtl
    BY <2>1, <2>3, ApplyTypes
  <2> HIDE DEF own, hex, rtl
  <2>5. sims' \in [Label -> Run] /\ hexes' \in [Label -> Builds]
    BY <2>2, <2>3, <2>4, RunTypes, OutcomeTypes DEF TypeInv, TypeOK
  <2> QED
    BY <2>3, <2>4, <2>5
    DEF choiceVars, sweepVars, TypeInv, TypeOK, Ranges, BeforeSweep
<1> QED  BY <1>1, <1>2

LEMMA TypeSweep ==
  ASSUME TypeInv, BeginSweep \/ SweepCandidate \/ EndSweep
  PROVE  TypeInv'
<1>0. Len(cands) \in Nat /\ DOMAIN cands = 1 .. Len(cands)
      /\ Len(results) \in Nat /\ DOMAIN results = 1 .. Len(results)
  BY Fields, Members
<1>1. CASE BeginSweep
  <2>1. saved' \in [hwLoop : 0 .. MaxDepth, fused : Builds]
    BY <1>1, Fields DEF BeginSweep, TypeInv, TypeOK
  <2>2. winners' \in [adp : Nat, cycles : Nat, evaluated : BOOLEAN]
    <3>1. winners' = winners \/ winners' = [adp |-> 1, cycles |-> 1, evaluated |-> FALSE]
      BY <1>1 DEF BeginSweep
    <3>2. [adp |-> 1, cycles |-> 1, evaluated |-> FALSE] \in [adp : Nat, cycles : Nat, evaluated : BOOLEAN]
      OBVIOUS
    <3> QED  BY <3>1, <3>2 DEF TypeInv, TypeOK
  <2>3. pc = "sweep" /\ pc' \in {"sweeping", "select", "step4"} /\ round' \in {"default", "adp"}
    BY <1>1 DEF BeginSweep, TypeInv, TypeOK, Ranges, BeforeSweep
  <2>4. UNCHANGED <<ctx, choiceVars, cs, configVars, flag, sweepRtl, results, outVars>>
    BY <1>1 DEF BeginSweep
  <2>5. TypeOK'
    BY <2>1, <2>2, <2>3, <2>4 DEF choiceVars, configVars, outVars, TypeInv, TypeOK
  <2>6. Ranges'
    BY <1>0, <1>1, <2>3, <2>4 DEF BeginSweep, choiceVars, TypeInv, Ranges, BeforeSweep
  <2> QED  BY <2>5, <2>6 DEF TypeInv
<1>2. CASE SweepCandidate
  <2> DEFINE i == Len(results) + 1
             c == cands[i]
             own == AddPruneConfig([cs EXCEPT !.hwLoop = c.hw])
             config == NewConfig(c.fused)
  <2>1. pc = "sweeping" /\ i \in DOMAIN cands
    BY <1>0, <1>2 DEF SweepCandidate
  <2>2. /\ c \in Candidate /\ c.fused \in Builds /\ c.hw \in 0 .. MaxDepth /\ c.variant \in Variant
    BY <2>1, CandidateFields
  <2>3. UNCHANGED <<pc, round, fusedOnly, hwonlyRef, saved, winners, outVars>>
    BY <1>2 DEF SweepCandidate
  <2>4. /\ \E r \in SweepResults : results' = Append(results, r)
        /\ \E r \in Rtl : sweepRtl' = Append(sweepRtl, r)
        /\ cands' \in Seq(Candidate) /\ Len(cands') = Len(cands)
        /\ ctx' \in [fused : Builds, hwloop : Builds, plain : Builds]
        /\ cs' \in ChangeSets /\ mainRef' \in {"main", "orig"} /\ flag' \in 0 .. MaxDepth
        /\ configs' \in [{"orig", "hwonly", "main"} -> PruneConfig]
    <3>1. CASE c.fused = NoBuild
      <4>1. /\ results' = Append(results, SweepResult(Fail, 0, NoBuild))
            /\ sweepRtl' = Append(sweepRtl, NoRtl)
            /\ UNCHANGED <<ctx, cands, cs, mainRef, configs, flag>>
        BY <1>2, <3>1 DEF SweepCandidate
      <4>2. SweepResult(Fail, 0, NoBuild) \in SweepResults /\ NoRtl \in Rtl
        BY OutcomeTypes, RunTypes, BuildTypes
      <4> QED  BY <4>1, <4>2, Fields DEF TypeInv, TypeOK
    <3>2. CASE c.fused # NoBuild
      <4>1. /\ cs' = [own EXCEPT !.resolved = TRUE]
            /\ mainRef' = "main"
            /\ configs' = [configs EXCEPT !["main"] = AppliedConfig(own, config)]
            /\ flag' = AppliedFlag(own, config)
            /\ ctx' = [ctx EXCEPT !.fused = c.fused]
            /\ sweepRtl' = Append(sweepRtl, AppliedRtl(own, config))
            /\ \E out \in Outcome : \E cells \in IF out.passed THEN Cells ELSE {0} :
                 \/ /\ results' = Append(results, SweepResult(out, cells, c.fused))
                    /\ UNCHANGED cands
                 \/ LET validated == Build("hwfused", c.hw, c.variant, "validated") IN
                    /\ out.passed
                    /\ results' = Append(results, SweepResult(out, cells, validated))
                    /\ cands' = [cands EXCEPT ![i] = KeepValidated(c, validated)]
        BY <1>2, <3>2 DEF SweepCandidate
      <4>2. [cs EXCEPT !.hwLoop = c.hw] \in ChangeSets
        BY <2>2, Fields DEF ChangeSets
      <4>3. own \in ChangeSets /\ config \in PruneConfig
        BY <2>2, <4>2, MadeTypes
      <4> DEFINE validated == Build("hwfused", c.hw, c.variant, "validated")
      <4>4. validated \in Builds  BY <2>2, BuildTypes
      <4>5. KeepValidated(c, validated) \in Candidate
        BY <2>2, <4>4 DEF KeepValidated, Candidate
      <4> HIDE DEF c, own, config, validated
      <4>6. \A out \in Outcome : \A cells \in IF out.passed THEN Cells ELSE {0} : cells \in Nat
        BY BoundsAssumption
      <4>7. \E r \in SweepResults : results' = Append(results, r)
        BY <2>2, <4>1, <4>4, <4>6, OutcomeTypes DEF validated
      <4>8. AppliedRtl(own, config) \in Rtl /\ flag' \in 0 .. MaxDepth
            /\ AppliedConfig(own, config) \in PruneConfig
        BY <4>1, <4>3, ApplyTypes
      <4>9. cands' = cands \/ cands' = [cands EXCEPT ![i] = KeepValidated(c, validated)]
        BY <4>1 DEF validated
      <4>10. cands' \in Seq(Candidate) /\ Len(cands') = Len(cands)
        BY <2>1, <4>5, <4>9, Fields
      <4>11. ctx' \in [fused : Builds, hwloop : Builds, plain : Builds]
        BY <2>2, <4>1 DEF TypeInv, TypeOK
      <4>12. cs' \in ChangeSets  BY <4>1, <4>3 DEF ChangeSets
      <4>13. configs' \in [{"orig", "hwonly", "main"} -> PruneConfig]
        BY <4>1, <4>8 DEF TypeInv, TypeOK
      <4> QED  BY <4>1, <4>7, <4>8, <4>10, <4>11, <4>12, <4>13
    <3> QED  BY <3>1, <3>2
  <2>5. /\ results' \in Seq(SweepResults) /\ Len(results') = Len(results) + 1
        /\ sweepRtl' \in Seq(Rtl) /\ Len(sweepRtl') = Len(sweepRtl) + 1
    BY <2>4, Fields
  <2>6. TypeOK'
    BY <2>3, <2>4, <2>5 DEF outVars, TypeInv, TypeOK, ChangeSets, SweepResults
  <2>7. DOMAIN cands' = DOMAIN cands  BY <1>0, <2>4
  <2>8. Ranges'
    BY <1>0, <2>1, <2>3, <2>4, <2>5, <2>7 DEF TypeInv, Ranges, BeforeSweep
  <2> QED  BY <2>6, <2>8 DEF TypeInv
<1>3. CASE EndSweep
  <2>1. /\ pc = "sweeping" /\ Len(results) = Len(cands)
        /\ cs' = [cs EXCEPT !.hwLoop = saved.hwLoop] /\ ctx' = [ctx EXCEPT !.fused = saved.fused]
        /\ winners' = [adp |-> PickBest(results).adp, cycles |-> PickBest(results).cycles,
                       evaluated |-> TRUE]
        /\ IF PickBest(results) = NoWinners
           THEN pc' = "step4" /\ UNCHANGED round
           ELSE pc' = "select" /\ round' = "adp"
        /\ UNCHANGED <<choiceVars, configVars, flag, sweepRtl, results, saved, outVars>>
    BY <1>3 DEF EndSweep
  <2>2. cs' \in ChangeSets /\ ctx' \in [fused : Builds, hwloop : Builds, plain : Builds]
    BY <2>1 DEF TypeInv, TypeOK, ChangeSets
  <2>3. results \in Seq([cycles : Nat, cells : Nat, passed : BOOLEAN, hex : Builds])
    BY DEF TypeInv, TypeOK
  <2>4. Passing(results) \subseteq DOMAIN results /\ DOMAIN results = DOMAIN cands
    BY <1>0, <2>1 DEF Passing
  <2>5. /\ PickBest(results).adp \in Nat /\ PickBest(results).cycles \in Nat
        /\ PickBest(results) # NoWinners =>
             PickBest(results).adp \in DOMAIN cands /\ PickBest(results).cycles \in DOMAIN cands
    <3>1. CASE Passing(results) = {}
      <4>1. PickBest(results) = NoWinners  BY <2>3, <3>1, PickBestIsBest
      <4> QED  BY <4>1 DEF NoWinners
    <3>2. CASE Passing(results) # {}
      <4>1. PickBest(results).adp \in Passing(results) /\ PickBest(results).cycles \in Passing(results)
        BY <2>3, <3>2, PickBestIsBest
      <4> QED  BY <1>0, <2>4, <4>1
    <3> QED  BY <3>1, <3>2
  <2>6. winners' \in [adp : Nat, cycles : Nat, evaluated : BOOLEAN]
    BY <2>1, <2>5
  <2>7. winners'.adp = PickBest(results).adp /\ winners'.cycles = PickBest(results).cycles
    BY <2>1
  <2>8. round = "default"  BY <2>1 DEF TypeInv, Ranges
  <2>9. TypeOK'
    BY <2>1, <2>2, <2>6 DEF choiceVars, configVars, outVars, TypeInv, TypeOK, ChangeSets
  <2>10. Ranges'
    BY <2>1, <2>5, <2>7, <2>8 DEF choiceVars, TypeInv, Ranges, BeforeSweep
  <2> QED  BY <2>9, <2>10 DEF TypeInv
<1> QED  BY <1>1, <1>2, <1>3

\* What step 4 may ask for: a plain build of the current depth, or the context's
\* when the depth has none.
PlainAsked(asked) ==
  \/ asked = ctx.plain /\ ~HasPlain(cs.hwLoop)
  \/ \E i \in DOMAIN cands :
       cands[i].hw = cs.hwLoop /\ asked = cands[i].plain /\ asked # NoBuild
  \/ asked.kind = "hwplain" /\ asked.hw = cs.hwLoop

\* Whatever its variants do, step 4 stores one run, of a build it may ask for.
LEMMA StepHwloopOutcome ==
  ASSUME TypeInv, StepHwloop
  PROVE  LET own == ChangeSet(cs.hwLoop, FALSE, FALSE)
             rtl == AppliedRtl(own, configs[hwonlyRef])
         IN \E asked \in Builds, out \in Outcome :
              /\ PlainAsked(asked)
              /\ sims' = [sims EXCEPT ![Tag("hwloop_pruned")] =
                            RunOf(asked, missing', rtl, flag', out)]
              /\ hexes' = [hexes EXCEPT !["hwloop_pruned"] = ctx'.plain]
              /\ ctx' = ctx \/ ctx' = [ctx EXCEPT !.plain = asked]
              /\ missing \subseteq missing' /\ missing' \subseteq Builds
              /\ \A b \in missing' : b \in missing \/ b.kind = "hwplain"
<1> DEFINE own == ChangeSet(cs.hwLoop, FALSE, FALSE)
           rtl == AppliedRtl(own, configs[hwonlyRef])
<1>1. DOMAIN cands = 1 .. Len(cands) /\ Len(cands) \in Nat  BY Fields, Members
<1>2. PlainVariants # {} /\ PlainVariants \in SUBSET (0 .. Len(cands))
  BY <1>1 DEF PlainVariants
<1>3. ASSUME NEW i \in PlainVariants
      PROVE  PlainBuild(i) \in Builds /\ PlainAsked(PlainBuild(i))
  <2>1. CASE i = 0
    <3>1. PlainBuild(i) = ctx.plain /\ 0 \notin DOMAIN cands  BY <1>1, <2>1 DEF PlainBuild
    <3>2. ~HasPlain(cs.hwLoop)  BY <2>1, <3>1 DEF PlainVariants, HasPlain
    <3> QED  BY <3>1, <3>2, Fields DEF PlainAsked
  <2>2. CASE i # 0
    <3>1. i \in DOMAIN cands /\ cands[i].hw = cs.hwLoop /\ cands[i].plain # NoBuild
      BY <2>2 DEF PlainVariants
    <3>2. PlainBuild(i) = cands[i].plain  BY <2>2 DEF PlainBuild
    <3> QED  BY <3>1, <3>2, CandidateFields DEF PlainAsked
  <2> QED  BY <2>1, <2>2
<1>4. ASSUME NEW i \in OfDepth
      PROVE  Validated(i) \in Builds /\ PlainAsked(Validated(i)) /\ Validated(i).kind = "hwplain"
  <2>1. i \in DOMAIN cands  BY DEF OfDepth
  <2>2. Validated(i) \in Builds
    BY <2>1, CandidateFields, Fields, BuildTypes DEF Validated
  <2>3. Validated(i).kind = "hwplain" /\ Validated(i).hw = cs.hwLoop
    BY DEF Validated, Build
  <2> QED  BY <2>2, <2>3 DEF PlainAsked
<1>5. StepHwloopPasses(rtl, flag') \/ StepHwloopRetries(rtl, flag')
  BY DEF StepHwloop
<1>6. missing \subseteq Builds  BY DEF TypeInv, TypeOK
<1> HIDE DEF own, rtl
<1>7. CASE StepHwloopPasses(rtl, flag')
  <2>1. PICK out \in [PlainVariants -> Outcome] :
          LET passing == {i \in PlainVariants : out[i].passed}
              cycles == [i \in passing |-> out[i].cycles]
              best == FirstMin(passing, cycles)
          IN
          /\ passing # {}
          /\ ctx' = [ctx EXCEPT !.plain = PlainBuild(best)]
          /\ hexes' = [hexes EXCEPT !["hwloop_pruned"] = PlainBuild(best)]
          /\ sims' = [sims EXCEPT ![Tag("hwloop_pruned")] =
                        RunOf(PlainBuild(best), missing, rtl, flag', out[best])]
          /\ UNCHANGED missing
    BY <1>7 DEF StepHwloopPasses
  <2> DEFINE passing == {i \in PlainVariants : out[i].passed}
             cycles == [i \in passing |-> out[i].cycles]
  <2>2. passing \in SUBSET Nat /\ passing # {} /\ \A i \in passing : cycles[i] \in Nat
    BY <1>1, <1>2, <2>1, OutcomeTypes
  <2>3. FirstMin(passing, cycles) \in passing  BY <2>2, FirstMinIsFirst
  <2>4. PICK best : best = FirstMin(passing, cycles)  OBVIOUS
  <2>5. best \in PlainVariants /\ out[best] \in Outcome  BY <2>3, <2>4
  <2>6. /\ ctx' = [ctx EXCEPT !.plain = PlainBuild(best)]
        /\ hexes' = [hexes EXCEPT !["hwloop_pruned"] = PlainBuild(best)]
        /\ sims' = [sims EXCEPT ![Tag("hwloop_pruned")] =
                      RunOf(PlainBuild(best), missing, rtl, flag', out[best])]
        /\ missing' = missing
    BY <2>1, <2>4
  <2>7. ctx'.plain = PlainBuild(best)  BY <2>6 DEF TypeInv, TypeOK
  <2> QED  BY <1>3, <1>6, <2>5, <2>6, <2>7 DEF own, rtl
<1>8. CASE StepHwloopRetries(rtl, flag')
  <2>1. PICK out \in [OfDepth -> Outcome], lost \in BOOLEAN :
          LET passing == {i \in OfDepth : out[i].passed}
              cycles == [i \in passing |-> out[i].cycles]
              best == FirstMin(passing, cycles)
              last == CHOOSE i \in PlainVariants : \A j \in PlainVariants : j <= i
              now == IF lost THEN missing \cup {Validated(best)} ELSE missing
          IN
          /\ IF passing = {}
             THEN /\ UNCHANGED <<ctx, missing>>
                  /\ sims' = [sims EXCEPT ![Tag("hwloop_pruned")] =
                                RunOf(PlainBuild(last), missing, rtl, flag', Fail)]
             ELSE /\ ctx' = [ctx EXCEPT !.plain = Validated(best)]
                  /\ missing' = now
                  /\ sims' = [sims EXCEPT ![Tag("hwloop_pruned")] =
                                RunOf(Validated(best), now, rtl, flag', out[best])]
          /\ hexes' = [hexes EXCEPT !["hwloop_pruned"] = ctx'.plain]
    BY <1>8 DEF StepHwloopRetries
  <2> DEFINE passing == {i \in OfDepth : out[i].passed}
             cycles == [i \in passing |-> out[i].cycles]
             last == CHOOSE i \in PlainVariants : \A j \in PlainVariants : j <= i
  <2>2. CASE passing = {}
    <3>1. last \in PlainVariants
      <4>1. \E i \in PlainVariants : \A j \in PlainVariants : j <= i
        BY <1>1, <1>2, GreatestNatural
      <4> QED  BY <4>1
    <3> HIDE DEF last
    <3>2. UNCHANGED <<ctx, missing>> /\ hexes' = [hexes EXCEPT !["hwloop_pruned"] = ctx'.plain]
          /\ sims' = [sims EXCEPT ![Tag("hwloop_pruned")] =
                        RunOf(PlainBuild(last), missing, rtl, flag', Fail)]
      BY <2>1, <2>2 DEF last
    <3> QED  BY <1>3, <1>6, <3>1, <3>2, OutcomeTypes DEF own, rtl
  <2>3. CASE passing # {}
    <3>1. passing \in SUBSET Nat /\ \A i \in passing : cycles[i] \in Nat
      BY <1>1, OutcomeTypes DEF OfDepth
    <3>2. FirstMin(passing, cycles) \in passing  BY <2>3, <3>1, FirstMinIsFirst
    <3>3. PICK best : best = FirstMin(passing, cycles)  OBVIOUS
    <3>4. best \in OfDepth /\ out[best] \in Outcome  BY <3>2, <3>3
    <3>5. /\ ctx' = [ctx EXCEPT !.plain = Validated(best)]
          /\ missing' = missing \/ missing' = missing \cup {Validated(best)}
          /\ sims' = [sims EXCEPT ![Tag("hwloop_pruned")] =
                        RunOf(Validated(best), missing', rtl, flag', out[best])]
          /\ hexes' = [hexes EXCEPT !["hwloop_pruned"] = ctx'.plain]
      BY <2>1, <2>3, <3>3
    <3> QED  BY <1>4, <1>6, <3>4, <3>5 DEF own, rtl
  <2> QED  BY <2>2, <2>3
<1> QED  BY <1>5, <1>7, <1>8

LEMMA TagTypes ==
  /\ Tag("all") \in {"all", "all_best_perf"}
  /\ Tag("hwloop_pruned") \in {"hwloop_pruned", "hwloop_pruned_best_perf"}
  /\ {"all", "all_best_perf", "hwloop_pruned", "hwloop_pruned_best_perf"} \subseteq Label
BY DEF Tag, Label

LEMMA TypeStep4 ==
  ASSUME TypeInv, SetCandidate \/ StepHwloop \/ SkipHwloop \/ SelectLoops
  PROVE  TypeInv'
<1>1. CASE SetCandidate
  <2> DEFINE c == cands[WinnerIndex]
  <2>1. round # "default"  BY <1>1 DEF SetCandidate, TypeInv, Ranges
  <2>2. c.hw \in 0 .. MaxDepth /\ c.fused \in Builds /\ c.plain \in Builds
    BY <2>1, WinnerInRange, CandidateFields
  <2>3. /\ pc = "select" /\ pc' = "step4" /\ cs' = [cs EXCEPT !.hwLoop = c.hw]
        /\ ctx' = [ctx EXCEPT !.hwloop = IF c.fused # NoBuild THEN c.fused ELSE @,
                              !.plain  = IF c.plain # NoBuild THEN c.plain ELSE @]
        /\ UNCHANGED <<round, choiceVars, configVars, flag, sweepVars, outVars>>
    BY <1>1 DEF SetCandidate
  <2> HIDE DEF c
  <2>4. cs' \in ChangeSets  BY <2>2, <2>3, Fields DEF ChangeSets
  <2>5. ctx' \in [fused : Builds, hwloop : Builds, plain : Builds]
    BY <2>2, <2>3 DEF TypeInv, TypeOK
  <2>6. TypeOK'
    BY <2>3, <2>4, <2>5 DEF choiceVars, configVars, sweepVars, outVars, TypeInv, TypeOK, ChangeSets
  <2>7. Ranges'
    BY <2>3 DEF choiceVars, sweepVars, TypeInv, Ranges, BeforeSweep
  <2> QED  BY <2>6, <2>7 DEF TypeInv
<1>2. CASE StepHwloop
  <2> DEFINE own == ChangeSet(cs.hwLoop, FALSE, FALSE)
             rtl == AppliedRtl(own, configs[hwonlyRef])
  <2>1. own \in ChangeSets /\ configs[hwonlyRef] \in PruneConfig
    <3>1. own \in ChangeSets  BY Fields DEF ChangeSet, ChangeSets
    <3>2. hwonlyRef \in {"orig", "hwonly", "main"}  BY DEF TypeInv, TypeOK
    <3> QED  BY <3>1, <3>2, Fields
  <2>2. /\ pc = "step4" /\ pc' = "ga" /\ flag' = AppliedFlag(own, configs[hwonlyRef])
        /\ configs' = configs
        /\ UNCHANGED <<round, choiceVars, cs, mainRef, hwonlyRef, sweepVars>>
    BY <1>2 DEF StepHwloop, ConfigsAfterApply
  <2>3. flag' \in 0 .. MaxDepth /\ rtl \in Rtl  BY <2>1, <2>2, ApplyTypes
  <2>4. PICK asked \in Builds, out \in Outcome :
              /\ PlainAsked(asked)
              /\ sims' = [sims EXCEPT ![Tag("hwloop_pruned")] =
                            RunOf(asked, missing', rtl, flag', out)]
              /\ hexes' = [hexes EXCEPT !["hwloop_pruned"] = ctx'.plain]
              /\ ctx' = ctx \/ ctx' = [ctx EXCEPT !.plain = asked]
              /\ missing \subseteq missing' /\ missing' \subseteq Builds
    BY <1>2, StepHwloopOutcome
  <2> HIDE DEF own, rtl
  <2>5. ctx' \in [fused : Builds, hwloop : Builds, plain : Builds]
    BY <2>4 DEF TypeInv, TypeOK
  <2>6. ctx \in [fused : Builds, hwloop : Builds, plain : Builds]  BY DEF TypeInv, TypeOK
  <2>7. RunOf(asked, missing', rtl, flag', out) \in Run
    BY <2>3, <2>4, <2>6, RunTypes
  <2>8. sims' \in [Label -> Run]  BY <2>4, <2>7 DEF TypeInv, TypeOK
  <2>9. hexes' \in [Label -> Builds]  BY <2>4, <2>5 DEF TypeInv, TypeOK
  <2>10. TypeOK'
    BY <2>2, <2>3, <2>4, <2>5, <2>8, <2>9 DEF choiceVars, sweepVars, TypeInv, TypeOK
  <2>11. Ranges'
    BY <2>2 DEF choiceVars, sweepVars, TypeInv, Ranges, BeforeSweep
  <2> QED  BY <2>10, <2>11 DEF TypeInv
<1>3. CASE SkipHwloop
  BY <1>3 DEF SkipHwloop, choiceVars, configVars, sweepVars, outVars, TypeInv, TypeOK, Ranges,
              BeforeSweep
<1>4. CASE SelectLoops
  <2>1. /\ pc = "ga" /\ pc' = "step5"
        /\ UNCHANGED <<round, choiceVars, cs, configVars, flag, sweepVars, sims, hexes, missing>>
    BY <1>4 DEF SelectLoops
  <2>2. ctx' = ctx \/ \E variant \in Variant :
          LET selected == Build("hwfused", cs.hwLoop, variant, "selected")
          IN ctx' = [ctx EXCEPT !.hwloop = selected, !.fused = selected]
    BY <1>4 DEF SelectLoops
  <2>3. ctx' \in [fused : Builds, hwloop : Builds, plain : Builds]
    <3>1. ASSUME NEW b \in Builds, ctx' = [ctx EXCEPT !.hwloop = b, !.fused = b]
          PROVE  ctx' \in [fused : Builds, hwloop : Builds, plain : Builds]
      BY <3>1 DEF TypeInv, TypeOK
    <3>2. \A variant \in Variant : Build("hwfused", cs.hwLoop, variant, "selected") \in Builds
      BY Fields, BuildTypes
    <3> QED  BY <2>2, <3>1, <3>2 DEF TypeInv, TypeOK
  <2> QED
    BY <2>1, <2>3 DEF choiceVars, configVars, sweepVars, TypeInv, TypeOK, Ranges, BeforeSweep
<1> QED  BY <1>1, <1>2, <1>3, <1>4

\* What follows step 5.
LEMMA AfterStep5 ==
  ASSUME TypeInv, pc = "step5", Following
  PROVE  /\ pc' \in {"select", "done"} /\ round' \in {"adp", "perf", "default"}
         /\ pc' = "select" => round = "adp" /\ round' = "perf"
                              /\ cands[winners.adp].hw # cands[winners.cycles].hw
         /\ round' = "default" <=> round = "default"
BY DEF Following, TypeInv, TypeOK

\* What step 5 stores: the build in the context, or the validated one that
\* passed where it failed.
LEMMA StepAllOutcome ==
  ASSUME TypeInv, StepAll
  PROVE  LET own == AddPruneConfig(cs)
             rtl == AppliedRtl(own, NewConfig(ctx.hwloop))
             validated == Build("hwfused", cs.hwLoop, "nounroll", "validated")
         IN \E asked \in Builds, out \in Outcome :
              /\ validated \in Builds
              /\ sims' = [sims EXCEPT ![Tag("all")] = RunOf(asked, missing, rtl, flag', out)]
              /\ hexes' = [hexes EXCEPT ![Tag("all")] = ctx'.hwloop]
              /\ \/ ctx' = ctx /\ asked = ctx.hwloop
                 \/ /\ ctx' = [ctx EXCEPT !.hwloop = validated]
                    /\ asked = validated \/ (asked = ctx.hwloop /\ ~out.passed)
<1> DEFINE own == AddPruneConfig(cs)
           rtl == AppliedRtl(own, NewConfig(ctx.hwloop))
           validated == Build("hwfused", cs.hwLoop, "nounroll", "validated")
<1>1. /\ hexes' = [hexes EXCEPT ![Tag("all")] = ctx'.hwloop]
      /\ \/ \E out \in Outcome :
              /\ ctx' = ctx
              /\ sims' = [sims EXCEPT ![Tag("all")] =
                            RunOf(ctx.hwloop, missing, rtl, flag', out)]
         \/ \E out \in Outcome :
              /\ ctx' = [ctx EXCEPT !.hwloop = validated]
              /\ sims' = [sims EXCEPT ![Tag("all")] =
                            IF out.passed THEN RunOf(validated, missing, rtl, flag', out)
                                          ELSE RunOf(ctx.hwloop, missing, rtl, flag', Fail)]
  BY DEF StepAll, StepAllConfig, AfterRetry
<1>2. validated \in Builds  BY Fields, BuildTypes DEF Variant
<1> HIDE DEF own, rtl, validated
<1> QED  BY <1>1, <1>2, Fields, OutcomeTypes DEF own, rtl, validated

LEMMA TypeStep5 ==
  ASSUME TypeInv, StepAll \/ SkipAll
  PROVE  TypeInv'
<1>1. CASE StepAll
  <2> DEFINE own == AddPruneConfig(cs)
             config == NewConfig(ctx.hwloop)
             rtl == AppliedRtl(own, config)
             validated == Build("hwfused", cs.hwLoop, "nounroll", "validated")
  <2>1. /\ pc = "step5" /\ Following
        /\ cs' = [own EXCEPT !.resolved = TRUE] /\ mainRef' = "main"
        /\ configs' = [configs EXCEPT !["main"] = AppliedConfig(own, config)]
        /\ flag' = AppliedFlag(own, config)
        /\ UNCHANGED <<choiceVars, hwonlyRef, sweepVars, missing>>
    BY <1>1 DEF StepAll, StepAllConfig
  <2>2. own \in ChangeSets /\ config \in PruneConfig  BY Fields, MadeTypes
  <2>3. PICK asked \in Builds, out \in Outcome :
              /\ validated \in Builds
              /\ sims' = [sims EXCEPT ![Tag("all")] = RunOf(asked, missing, rtl, flag', out)]
              /\ hexes' = [hexes EXCEPT ![Tag("all")] = ctx'.hwloop]
              /\ ctx' = ctx \/ ctx' = [ctx EXCEPT !.hwloop = validated]
    BY <1>1, StepAllOutcome
  <2> HIDE DEF own, config, validated
  <2>4. flag' \in 0 .. MaxDepth /\ rtl \in Rtl /\ AppliedConfig(own, config) \in PruneConfig
    BY <2>1, <2>2, ApplyTypes
  <2> HIDE DEF rtl
  <2>5. ctx' \in [fused : Builds, hwloop : Builds, plain : Builds]
    BY <2>3 DEF TypeInv, TypeOK
  <2>6. RunOf(asked, missing, rtl, flag', out) \in Run
    BY <2>4, RunTypes DEF TypeInv, TypeOK
  <2>7. sims' \in [Label -> Run]  BY <2>3, <2>6 DEF TypeInv, TypeOK
  <2>8. hexes' \in [Label -> Builds]  BY <2>3, <2>5 DEF TypeInv, TypeOK
  <2>9. configs' \in [{"orig", "hwonly", "main"} -> PruneConfig]
    BY <2>1, <2>4 DEF TypeInv, TypeOK
  <2>10. cs' \in ChangeSets  BY <2>1, <2>2 DEF ChangeSets
  <2>11. TypeOK'
    BY <2>1, <2>4, <2>5, <2>7, <2>8, <2>9, <2>10, AfterStep5
    DEF choiceVars, sweepVars, TypeInv, TypeOK, ChangeSets
  <2>12. Ranges'
    BY <2>1, AfterStep5 DEF choiceVars, sweepVars, TypeInv, Ranges, BeforeSweep
  <2> QED  BY <2>11, <2>12 DEF TypeInv
<1>2. CASE SkipAll
  <2>1. /\ pc = "step5" /\ Following
        /\ UNCHANGED <<ctx, choiceVars, cs, configVars, flag, sweepVars, outVars>>
    BY <1>2 DEF SkipAll
  <2>2. TypeOK'
    BY <2>1, AfterStep5 DEF choiceVars, configVars, sweepVars, outVars, TypeInv, TypeOK
  <2>3. Ranges'
    BY <2>1, AfterStep5 DEF choiceVars, sweepVars, TypeInv, Ranges, BeforeSweep
  <2> QED  BY <2>2, <2>3 DEF TypeInv
<1> QED  BY <1>1, <1>2

LEMMA NextTypeInv == TypeInv /\ [Next]_vars => TypeInv'
<1> SUFFICES ASSUME TypeInv, [Next]_vars PROVE TypeInv'
  OBVIOUS
<1>1. CASE UNCHANGED vars
  BY <1>1 DEF vars, choiceVars, configVars, sweepVars, outVars, TypeInv, TypeOK, Ranges, BeforeSweep
<1>2. CASE Next
  BY <1>1, <1>2, TypeBefore, TypeSteps23, TypeSweep, TypeStep4, TypeStep5 DEF Next, Terminated
<1> QED  BY <1>1, <1>2

\* Every variable holds what the code can put there: every HW_LOOP value is a
\* depth, every stored build and result one of the kinds the pipeline knows.
THEOREM TypeCorrect == Spec => []TypeOK
<1>1. Spec => []TypeInv  BY InitTypeInv, NextTypeInv, PTL DEF Spec
<1>2. TypeInv => TypeOK  BY DEF TypeInv
<1> QED  BY <1>1, <1>2, PTL

-----------------------------------------------------------------------------
(***************************************************************************)
(* The builds and the prune configs the context holds.                     *)
(***************************************************************************)
BuildInv ==
  /\ cs.fused => fusedOnly = Fused
  /\ pc = "step3" => cs.fused
  /\ ctx.hwloop # NoBuild => ctx.hwloop.kind = "hwfused"
  /\ ctx.plain # NoBuild => ctx.plain.kind = "hwplain"
  /\ \A i \in DOMAIN cands : Proper(cands[i])
  /\ \A b \in missing : b.kind = "hwplain"
  /\ configs["orig"].hwLoop = 0 /\ configs["hwonly"].hwLoop = 0
  /\ pc \in BeforeSweep => configs["main"].hwLoop = 0

LEMMA InitBuildInv == Init => BuildInv
<1> SUFFICES ASSUME Init PROVE BuildInv
  OBVIOUS
<1>1. \A o \in {"orig", "hwonly", "main"} : configs[o].hwLoop = 0
  BY DEF Init, PruneConfigOf
<1>2. ~cs.fused  BY DEF Init, ChangeSet
<1>3. /\ ctx.hwloop = NoBuild /\ ctx.plain = NoBuild /\ DOMAIN cands = {} /\ missing = {}
      /\ pc = "fusion"
  BY DEF Init
<1> QED  BY <1>1, <1>2, <1>3 DEF BuildInv

\* A build step 4 may ask for is one without fusion.
LEMMA AskedIsPlain ==
  ASSUME TypeInv, BuildInv, ctx.plain # NoBuild, NEW asked, PlainAsked(asked)
  PROVE  /\ asked.kind = "hwplain"
         /\ HasPlain(cs.hwLoop) => asked.hw = cs.hwLoop
BY DEF BuildInv, PlainAsked, Proper

LEMMA NextBuildInv == TypeInv /\ TypeInv' /\ BuildInv /\ [Next]_vars => BuildInv'
<1> SUFFICES ASSUME TypeInv, TypeInv', BuildInv, [Next]_vars PROVE BuildInv'
  OBVIOUS
<1>1. CASE UNCHANGED vars
  BY <1>1 DEF vars, choiceVars, configVars, outVars, BuildInv
<1>2. CASE RunFusion
  <2>1. cs'.fused => fusedOnly' = Fused
    <3>1. CASE UNCHANGED <<cs, fusedOnly>>  BY <3>1 DEF BuildInv
    <3>2. CASE fusedOnly' = Fused  BY <3>2
    <3> QED  BY <1>2, <3>1, <3>2 DEF RunFusion
  <2>2. ctx'.hwloop = ctx.hwloop /\ ctx'.plain = ctx.plain
    BY <1>2 DEF RunFusion, TypeInv, TypeOK
  <2> QED
    BY <1>2, <2>1, <2>2 DEF RunFusion, configVars, outVars, BuildInv, BeforeSweep
<1>3. CASE RunHwloop
  <2>1. /\ \A i \in DOMAIN cands' : Proper(cands'[i])
        /\ \/ UNCHANGED <<ctx, cs>>
           \/ \E b \in DOMAIN cands' :
                /\ cs' = [cs EXCEPT !.hwLoop = cands'[b].hw]
                /\ ctx'.hwloop = cands'[b].fused /\ ctx'.plain = cands'[b].plain
    BY <1>3, HwloopOutcome
  <2>2. cs'.fused = cs.fused  BY <2>1 DEF TypeInv, TypeOK
  <2>3. /\ ctx'.hwloop # NoBuild => ctx'.hwloop.kind = "hwfused"
        /\ ctx'.plain # NoBuild => ctx'.plain.kind = "hwplain"
    BY <2>1 DEF BuildInv, Proper
  <2> QED
    BY <1>3, <2>1, <2>2, <2>3 DEF RunHwloop, configVars, outVars, BuildInv, BeforeSweep
<1>4. CASE RunPruning
  <2>1. \A elf \in Builds : NewConfig(elf).hwLoop = 0  BY MadeTypes
  <2>2. \A o \in {"orig", "hwonly", "main"} : configs'[o].hwLoop = 0
    <3>1. \A o \in {"orig", "hwonly", "main"} : configs[o].hwLoop = 0
      BY <1>4 DEF RunPruning, BuildInv, BeforeSweep
    <3>2. CASE cs.fused
      <4>1. configs' = [orig |-> NewConfig(Original), hwonly |-> NewConfig(ctx.plain),
                        main |-> NewConfig(ElfToAnalyze)]
        BY <1>4, <3>2 DEF RunPruning
      <4> QED  BY <2>1, <4>1, Fields, BuildTypes
    <3>3. CASE ~cs.fused
      <4>1. configs' = [configs EXCEPT !.orig = NewConfig(ElfToAnalyze)]
        BY <1>4, <3>3 DEF RunPruning
      <4> QED  BY <2>1, <3>1, <4>1, Fields DEF TypeInv, TypeOK
    <3> QED  BY <3>2, <3>3
  <2>3. cs'.fused = cs.fused  BY <1>4, Fields, MadeTypes DEF RunPruning
  <2> QED
    BY <1>4, <2>2, <2>3 DEF RunPruning, choiceVars, outVars, BuildInv
<1>5. CASE StepPruned \/ StepFused
  <2>1. /\ UNCHANGED <<ctx, choiceVars, cs, configs, missing>>
        /\ pc \in BeforeSweep /\ (pc' = "step3" => cs.fused)
    BY <1>5 DEF StepPruned, StepFused, ConfigsAfterApply, BeforeSweep
  <2> QED  BY <2>1 DEF choiceVars, BuildInv
<1>6. CASE BeginSweep
  BY <1>6 DEF BeginSweep, choiceVars, configVars, outVars, BuildInv, BeforeSweep
<1>7. CASE SweepCandidate
  <2> DEFINE i == Len(results) + 1
             c == cands[i]
             validated == Build("hwfused", c.hw, c.variant, "validated")
  <2>1. /\ pc = "sweeping" /\ pc' = pc /\ UNCHANGED <<fusedOnly, missing>>
        /\ configs' = configs \/ \E x : configs' = [configs EXCEPT !["main"] = x]
        /\ ctx' = ctx \/ ctx' = [ctx EXCEPT !.fused = c.fused]
        /\ cands' = cands \/ cands' = [cands EXCEPT ![i] = KeepValidated(c, validated)]
    BY <1>7 DEF SweepCandidate, outVars
  <2>2. configs'["orig"] = configs["orig"] /\ configs'["hwonly"] = configs["hwonly"]
    BY <2>1 DEF TypeInv, TypeOK
  <2>3. ctx'.hwloop = ctx.hwloop /\ ctx'.plain = ctx.plain  BY <2>1 DEF TypeInv, TypeOK
  <2>4. i \in DOMAIN cands
    BY <1>7, Fields, Members DEF SweepCandidate
  <2>5. Proper(KeepValidated(c, validated))
    <3>1. Proper(c) /\ c \in Candidate  BY <2>4 DEF BuildInv, Proper
    <3>2. validated \in Builds /\ validated.kind = "hwfused" /\ validated.hw = c.hw
      BY <2>4, CandidateFields, BuildTypes DEF Build
    <3> HIDE DEF validated, c
    <3> QED  BY <3>1, <3>2 DEF KeepValidated, Proper, Candidate
  <2>6. \A j \in DOMAIN cands' : Proper(cands'[j])
    <3> HIDE DEF c, validated
    <3>1. CASE cands' = cands  BY <3>1 DEF BuildInv
    <3>2. CASE cands' = [cands EXCEPT ![i] = KeepValidated(c, validated)]
      <4>1. ASSUME NEW j \in DOMAIN cands' PROVE Proper(cands'[j])
        <5>1. cands'[j] = IF j = i THEN KeepValidated(c, validated) ELSE cands[j]
          BY <3>2
        <5>2. j \in DOMAIN cands  BY <3>2
        <5> QED  BY <2>5, <5>1, <5>2 DEF BuildInv
      <4> QED  BY <4>1
    <3> QED  BY <2>1, <3>1, <3>2
  <2>7. cs'.fused = cs.fused
    <3>1. cs' = cs \/ cs' = [AddPruneConfig([cs EXCEPT !.hwLoop = c.hw]) EXCEPT !.resolved = TRUE]
      BY <1>7 DEF SweepCandidate
    <3> QED  BY <3>1 DEF AddPruneConfig, TypeInv, TypeOK
  <2> QED
    BY <2>1, <2>2, <2>3, <2>6, <2>7 DEF BuildInv, BeforeSweep
<1>8. CASE EndSweep
  <2>1. cs'.fused = cs.fused /\ ctx'.hwloop = ctx.hwloop /\ ctx'.plain = ctx.plain
    BY <1>8 DEF EndSweep, TypeInv, TypeOK
  <2> QED
    BY <1>8, <2>1 DEF EndSweep, choiceVars, configVars, outVars, BuildInv, BeforeSweep
<1>9. CASE SetCandidate
  <2> DEFINE c == cands[WinnerIndex]
  <2>1. Proper(c)
    BY <1>9, WinnerInRange DEF SetCandidate, TypeInv, Ranges, BuildInv
  <2>2. /\ cs'.fused = cs.fused
        /\ ctx'.hwloop = ctx.hwloop \/ (ctx'.hwloop = c.fused /\ c.fused # NoBuild)
        /\ ctx'.plain = ctx.plain \/ (ctx'.plain = c.plain /\ c.plain # NoBuild)
    BY <1>9 DEF SetCandidate, TypeInv, TypeOK
  <2> QED
    BY <1>9, <2>1, <2>2
    DEF SetCandidate, choiceVars, configVars, outVars, BuildInv, BeforeSweep, Proper
<1>10. CASE StepHwloop
  <2>1. PICK asked \in Builds, out \in Outcome :
              /\ PlainAsked(asked)
              /\ ctx' = ctx \/ ctx' = [ctx EXCEPT !.plain = asked]
              /\ \A b \in missing' : b \in missing \/ b.kind = "hwplain"
    BY <1>10, StepHwloopOutcome
  <2>2. asked.kind = "hwplain"  BY <1>10, <2>1, AskedIsPlain DEF StepHwloop
  <2>3. ctx'.hwloop = ctx.hwloop /\ (ctx'.plain = ctx.plain \/ ctx'.plain = asked)
    BY <2>1 DEF TypeInv, TypeOK
  <2> QED
    BY <1>10, <2>1, <2>2, <2>3
    DEF StepHwloop, ConfigsAfterApply, choiceVars, BuildInv, BeforeSweep
<1>11. CASE SkipHwloop
  BY <1>11 DEF SkipHwloop, choiceVars, configVars, outVars, BuildInv, BeforeSweep
<1>12. CASE SelectLoops
  <2>1. ctx'.plain = ctx.plain
        /\ (ctx'.hwloop = ctx.hwloop \/ ctx'.hwloop.kind = "hwfused")
    <3>1. ASSUME NEW b, b.kind = "hwfused", ctx' = [ctx EXCEPT !.hwloop = b, !.fused = b]
          PROVE  ctx'.plain = ctx.plain /\ ctx'.hwloop.kind = "hwfused"
      BY <3>1 DEF TypeInv, TypeOK
    <3>2. \A variant : Build("hwfused", cs.hwLoop, variant, "selected").kind = "hwfused"
      BY DEF Build
    <3>3. CASE UNCHANGED ctx  BY <3>3
    <3>4. CASE \E variant \in Variant :
                 LET selected == Build("hwfused", cs.hwLoop, variant, "selected")
                 IN ctx' = [ctx EXCEPT !.hwloop = selected, !.fused = selected]
      BY <3>1, <3>2, <3>4
    <3> QED  BY <1>12, <3>3, <3>4 DEF SelectLoops
  <2> QED
    BY <1>12, <2>1 DEF SelectLoops, choiceVars, configVars, BuildInv, BeforeSweep
<1>13. CASE StepAll
  <2> DEFINE validated == Build("hwfused", cs.hwLoop, "nounroll", "validated")
  <2>1. ctx' = ctx \/ ctx' = [ctx EXCEPT !.hwloop = validated]
    BY <1>13, StepAllOutcome
  <2>2. validated.kind = "hwfused"  BY DEF Build
  <2> HIDE DEF validated
  <2>3. ctx'.plain = ctx.plain /\ (ctx'.hwloop = ctx.hwloop \/ ctx'.hwloop = validated)
    BY <2>1 DEF TypeInv, TypeOK
  <2>4. /\ UNCHANGED <<choiceVars, missing>> /\ pc = "step5"
        /\ \E x : configs' = [configs EXCEPT !["main"] = x]
        /\ cs' = [AddPruneConfig(cs) EXCEPT !.resolved = TRUE]
        /\ pc' \notin BeforeSweep
    BY <1>13, AfterStep5 DEF StepAll, BeforeSweep
  <2>5. configs'["orig"] = configs["orig"] /\ configs'["hwonly"] = configs["hwonly"]
    BY <2>4 DEF TypeInv, TypeOK
  <2>6. cs'.fused = cs.fused  BY <2>4 DEF AddPruneConfig, TypeInv, TypeOK
  <2> QED  BY <2>2, <2>3, <2>4, <2>5, <2>6 DEF choiceVars, BuildInv, BeforeSweep
<1>14. CASE SkipAll
  BY <1>14, AfterStep5 DEF SkipAll, choiceVars, configVars, outVars, BuildInv, BeforeSweep
<1>15. CASE Terminated
  BY <1>1, <1>15 DEF Terminated
<1> QED
  BY <1>1, <1>2, <1>3, <1>4, <1>5, <1>6, <1>7, <1>8, <1>9, <1>10, <1>11, <1>12, <1>13, <1>14,
     <1>15
  DEF Next

\* The actions that store no result.
LEMMA StoresNothing ==
  ASSUME \/ RunFusion \/ RunHwloop \/ RunPruning \/ BeginSweep \/ SweepCandidate \/ EndSweep
         \/ SetCandidate \/ SkipHwloop \/ SelectLoops \/ SkipAll \/ Terminated
         \/ UNCHANGED vars
  PROVE  UNCHANGED <<sims, hexes, missing>>
BY DEF RunFusion, RunHwloop, RunPruning, BeginSweep, SweepCandidate, EndSweep, SetCandidate,
       SkipHwloop, SelectLoops, SkipAll, Terminated, vars, outVars

\* What each of the other four stores, and what it leaves alone.
LEMMA StoresPruned ==
  ASSUME TypeInv, BuildInv, StepPruned
  PROVE  /\ UNCHANGED <<hexes, missing, cands>>
         /\ \A l \in Label \ {"pruned"} : sims'[l] = sims[l]
         /\ LET run == sims'["pruned"] IN
            /\ run.hex = Original /\ run.flag = run.rtl.hwLoop /\ run.rtl.hwLoop = 0
            /\ ~run.rtl.fused /\ ~run.rtl.r4
<1> DEFINE own == ChangeSet(0, FALSE, FALSE)
           rtl == AppliedRtl(own, configs["orig"])
<1>1. /\ own \in ChangeSets /\ ~own.resolved /\ own.hwLoop = 0 /\ ~own.fused /\ ~own.r4
      /\ configs["orig"] \in PruneConfig /\ configs["orig"].hwLoop = 0
  <2>1. own = [hwLoop |-> 0, fused |-> FALSE, r4 |-> FALSE, resolved |-> FALSE]
    BY DEF ChangeSet
  <2>2. configs["orig"] \in PruneConfig /\ configs["orig"].hwLoop = 0
    BY Fields DEF BuildInv
  <2> HIDE DEF own
  <2>3. own \in ChangeSets  BY <2>1, BoundsAssumption DEF ChangeSets
  <2> QED  BY <2>1, <2>2, <2>3
<1>2. sims' = [sims EXCEPT !["pruned"] =
                [hex |-> Original, asked |-> Original, flag |-> AppliedFlag(own, configs["orig"]),
                 out |-> SomeOutcome, rtl |-> rtl]]
      /\ UNCHANGED <<hexes, missing, cands>>
  BY DEF StepPruned, choiceVars
<1> HIDE DEF own
<1>3. /\ AppliedFlag(own, configs["orig"]) = 0 /\ rtl.hwLoop = 0 /\ ~rtl.fused /\ ~rtl.r4
  BY <1>1, ApplyUnresolved
<1> HIDE DEF rtl
<1>4. /\ \A l \in Label \ {"pruned"} : sims'[l] = sims[l]
      /\ sims'["pruned"] = [hex |-> Original, asked |-> Original,
             flag |-> AppliedFlag(own, configs["orig"]), out |-> SomeOutcome, rtl |-> rtl]
  BY <1>2 DEF TypeInv, TypeOK, Label
<1> QED  BY <1>2, <1>3, <1>4

LEMMA StoresFused ==
  ASSUME TypeInv, BuildInv, StepFused
  PROVE  /\ UNCHANGED <<missing, cands>>
         /\ \A l \in Label \ {"fused_pruned"} : sims'[l] = sims[l] /\ hexes'[l] = hexes[l]
         /\ LET run == sims'["fused_pruned"] IN
            /\ run.hex = Fused /\ run.flag = run.rtl.hwLoop /\ run.rtl.hwLoop = 0
            /\ run.rtl.fused /\ (run.rtl.r4 => run.rtl.rdC)
<1> DEFINE own == ChangeSet(0, TRUE, cs.r4)
           rtl == AppliedRtl(own, configs[mainRef])
<1>1. /\ own \in ChangeSets /\ ~own.resolved /\ own.hwLoop = 0 /\ own.fused
      /\ configs[mainRef] \in PruneConfig /\ configs[mainRef].hwLoop = 0
  <2>1. mainRef \in {"main", "orig"} /\ pc \in BeforeSweep
    BY DEF TypeInv, TypeOK, StepFused, BeforeSweep
  <2>2. configs[mainRef] \in PruneConfig /\ configs[mainRef].hwLoop = 0
    BY <2>1, Fields DEF BuildInv
  <2>3. own \in ChangeSets /\ ~own.resolved /\ own.hwLoop = 0 /\ own.fused
    BY Fields, BoundsAssumption DEF ChangeSet, ChangeSets
  <2> QED  BY <2>2, <2>3
<1>2. fusedOnly = Fused /\ Fused \notin missing /\ Fused # NoBuild
  BY DEF StepFused, BuildInv, Fused, NoBuild, Build
<1>3. /\ sims' = [sims EXCEPT !["fused_pruned"] =
                    RunOf(Fused, missing, rtl, AppliedFlag(own, configs[mainRef]), SomeOutcome)]
      /\ hexes' = [hexes EXCEPT !["fused_pruned"] = Fused]
      /\ UNCHANGED <<missing, cands>>
  BY <1>2 DEF StepFused, choiceVars
<1> HIDE DEF own
<1>4. /\ AppliedFlag(own, configs[mainRef]) = 0 /\ rtl.hwLoop = 0 /\ rtl.fused
      /\ (rtl.r4 => rtl.rdC)
  BY <1>1, ApplyUnresolved
<1> HIDE DEF rtl
<1>5. HexToRun(Fused, missing) = Fused  BY <1>2 DEF HexToRun
<1>6. /\ \A l \in Label \ {"fused_pruned"} : sims'[l] = sims[l] /\ hexes'[l] = hexes[l]
      /\ sims'["fused_pruned"] = RunOf(Fused, missing, rtl, AppliedFlag(own, configs[mainRef]),
                                       SomeOutcome)
  BY <1>3 DEF TypeInv, TypeOK, Label
<1> QED  BY <1>3, <1>4, <1>5, <1>6 DEF RunOf

LEMMA StoresHwloop ==
  ASSUME TypeInv, BuildInv, StepHwloop
  PROVE  /\ UNCHANGED cands /\ missing \subseteq missing'
         /\ \A l \in Label \ {Tag("hwloop_pruned")} : sims'[l] = sims[l]
         /\ \A l \in Label \ {"hwloop_pruned"} : hexes'[l] = hexes[l]
         /\ LET run == sims'[Tag("hwloop_pruned")] IN
            /\ run.flag = run.rtl.hwLoop /\ run.rtl.hwLoop = cs.hwLoop
            /\ ~run.rtl.fused /\ (run.rtl.hwLoop > 0 \/ run.rtl.r4 => run.rtl.rdC)
            /\ run.asked \notin missing' =>
                 /\ run.hex.kind = "hwplain"
                 /\ HasPlain(cs.hwLoop) => run.hex.hw = cs.hwLoop
<1> DEFINE own == ChangeSet(cs.hwLoop, FALSE, FALSE)
           rtl == AppliedRtl(own, configs[hwonlyRef])
<1>1. /\ own \in ChangeSets /\ ~own.resolved /\ own.hwLoop = cs.hwLoop /\ ~own.fused
      /\ configs[hwonlyRef] \in PruneConfig /\ configs[hwonlyRef].hwLoop = 0
      /\ cs.hwLoop \in Nat
  <2>1. hwonlyRef \in {"hwonly", "orig"}  BY DEF TypeInv, TypeOK
  <2>2. configs[hwonlyRef] \in PruneConfig /\ configs[hwonlyRef].hwLoop = 0
    BY <2>1, Fields DEF BuildInv
  <2>3. own \in ChangeSets /\ ~own.resolved /\ own.hwLoop = cs.hwLoop /\ ~own.fused
    BY Fields DEF ChangeSet, ChangeSets
  <2>4. cs.hwLoop \in Nat  BY Fields
  <2> HIDE DEF own
  <2> QED  BY <2>2, <2>3, <2>4
<1>2. flag' = AppliedFlag(own, configs[hwonlyRef]) /\ UNCHANGED cands /\ ctx.plain # NoBuild
  BY DEF StepHwloop, choiceVars
<1>3. PICK asked \in Builds, out \in Outcome :
        /\ PlainAsked(asked)
        /\ sims' = [sims EXCEPT ![Tag("hwloop_pruned")] = RunOf(asked, missing', rtl, flag', out)]
        /\ hexes' = [hexes EXCEPT !["hwloop_pruned"] = ctx'.plain]
        /\ missing \subseteq missing'
  BY StepHwloopOutcome
<1> HIDE DEF own
<1>4. /\ flag' = cs.hwLoop /\ rtl.hwLoop = cs.hwLoop /\ ~rtl.fused
      /\ (rtl.hwLoop > 0 \/ rtl.r4 => rtl.rdC)
  BY <1>1, <1>2, ApplyUnresolved
<1> HIDE DEF rtl
<1>5. asked.kind = "hwplain" /\ (HasPlain(cs.hwLoop) => asked.hw = cs.hwLoop)
  BY <1>2, <1>3, AskedIsPlain
<1>6. asked # NoBuild  BY <1>5 DEF NoBuild, Build
<1>7. asked \notin missing' => HexToRun(asked, missing') = asked  BY <1>6 DEF HexToRun
<1>8. Tag("hwloop_pruned") \in Label  BY TagTypes
<1>9. /\ \A l \in Label \ {Tag("hwloop_pruned")} : sims'[l] = sims[l]
      /\ sims'[Tag("hwloop_pruned")] = RunOf(asked, missing', rtl, flag', out)
      /\ \A l \in Label \ {"hwloop_pruned"} : hexes'[l] = hexes[l]
  BY <1>3, <1>8 DEF TypeInv, TypeOK
<1>10. LET run == RunOf(asked, missing', rtl, flag', out) IN
         run.hex = HexToRun(asked, missing') /\ run.asked = asked /\ run.flag = flag' /\ run.rtl = rtl
  BY DEF RunOf
<1> QED  BY <1>2, <1>3, <1>4, <1>5, <1>7, <1>9, <1>10

LEMMA StoresAll ==
  ASSUME TypeInv, BuildInv, StepAll
  PROVE  /\ UNCHANGED <<cands, missing>>
         /\ \A l \in Label \ {Tag("all")} : sims'[l] = sims[l] /\ hexes'[l] = hexes[l]
         /\ LET run == sims'[Tag("all")] IN
            /\ run.flag = run.rtl.hwLoop /\ run.rtl.hwLoop = cs.hwLoop
            /\ run.rtl.fused /\ (run.rtl.hwLoop > 0 \/ run.rtl.r4 => run.rtl.rdC)
            /\ run.out.passed => hexes'[Tag("all")] = run.hex
            /\ run.rtl.prunedFor = ctx.hwloop
            /\ \/ run.hex = ctx.hwloop
               \/ run.hex = Build("hwfused", cs.hwLoop, "nounroll", "validated")
<1> DEFINE own == AddPruneConfig(cs)
           config == NewConfig(ctx.hwloop)
           rtl == AppliedRtl(own, config)
           validated == Build("hwfused", cs.hwLoop, "nounroll", "validated")
<1>1. /\ own \in ChangeSets /\ ~own.resolved /\ own.hwLoop = cs.hwLoop /\ own.fused
      /\ config \in PruneConfig /\ config.hwLoop = 0 /\ config.elf = ctx.hwloop
      /\ cs.hwLoop \in Nat
  <2>1. cs.fused  BY DEF StepAll, CanRunAll
  <2>2. /\ own \in ChangeSets /\ ~own.resolved /\ own.hwLoop = cs.hwLoop /\ own.fused
    BY <2>1, Fields, MadeTypes
  <2>3. config \in PruneConfig /\ config.hwLoop = 0 /\ config.elf = ctx.hwloop
    BY Fields, MadeTypes
  <2> QED  BY <2>2, <2>3, Fields
<1>2. flag' = AppliedFlag(own, config) /\ UNCHANGED <<cands, missing>> /\ ctx.hwloop # NoBuild
  BY DEF StepAll, StepAllConfig, choiceVars, CanRunAll
<1>3. PICK asked \in Builds, out \in Outcome :
        /\ sims' = [sims EXCEPT ![Tag("all")] = RunOf(asked, missing, rtl, flag', out)]
        /\ hexes' = [hexes EXCEPT ![Tag("all")] = ctx'.hwloop]
        /\ \/ ctx' = ctx /\ asked = ctx.hwloop
           \/ /\ ctx' = [ctx EXCEPT !.hwloop = validated]
              /\ asked = validated \/ (asked = ctx.hwloop /\ ~out.passed)
  BY StepAllOutcome
<1> HIDE DEF own, config
<1>4. /\ flag' = cs.hwLoop /\ rtl.hwLoop = cs.hwLoop /\ rtl.fused /\ rtl.prunedFor = ctx.hwloop
      /\ (rtl.hwLoop > 0 \/ rtl.r4 => rtl.rdC)
  BY <1>1, <1>2, ApplyUnresolved
<1>5. validated.kind = "hwfused" /\ ctx.hwloop.kind = "hwfused"
  BY <1>2 DEF Build, BuildInv
<1> HIDE DEF rtl, validated
<1>6. asked.kind = "hwfused" /\ (asked = ctx.hwloop \/ asked = validated)
  BY <1>3, <1>5
<1>7. asked # NoBuild /\ asked \notin missing
  BY <1>6 DEF NoBuild, Build, BuildInv
<1>8. HexToRun(asked, missing) = asked  BY <1>7 DEF HexToRun
<1>9. out.passed => ctx'.hwloop = asked  BY <1>3 DEF TypeInv, TypeOK
<1>10. Tag("all") \in Label  BY TagTypes
<1>11. /\ \A l \in Label \ {Tag("all")} : sims'[l] = sims[l] /\ hexes'[l] = hexes[l]
       /\ sims'[Tag("all")] = RunOf(asked, missing, rtl, flag', out)
       /\ hexes'[Tag("all")] = ctx'.hwloop
  BY <1>3, <1>10 DEF TypeInv, TypeOK
<1>12. LET run == RunOf(asked, missing, rtl, flag', out) IN
         run.hex = asked /\ run.out = out /\ run.flag = flag' /\ run.rtl = rtl
  BY <1>8 DEF RunOf
<1> QED  BY <1>2, <1>4, <1>6, <1>9, <1>11, <1>12 DEF validated

\* What holds of each stored result by itself.
StoredInv == FlagMatchesRtl /\ ReadPortKept /\ HexOfPassingAll /\ AllPrunedForItsBuild

LEMMA InitStoredInv == Init => StoredInv
<1> SUFFICES ASSUME Init PROVE StoredInv
  OBVIOUS
<1>1. \A l \in Label : sims[l] = NoRun  BY DEF Init
<1>2. NoRun.flag = 0 /\ NoRun.rtl.hwLoop = 0 /\ ~NoRun.rtl.r4 /\ ~NoRun.out.passed
  BY DEF NoRun, Fail
<1>3. {"all", "all_best_perf"} \subseteq Label  BY TagTypes
<1> QED
  BY <1>1, <1>2, <1>3
  DEF StoredInv, FlagMatchesRtl, ReadPortKept, HexOfPassingAll, AllPrunedForItsBuild

LEMMA NextStoredInv == TypeInv /\ BuildInv /\ StoredInv /\ [Next]_vars => StoredInv'
<1> SUFFICES ASSUME TypeInv, BuildInv, StoredInv, [Next]_vars PROVE StoredInv'
  OBVIOUS
<1> USE DEF StoredInv, FlagMatchesRtl, ReadPortKept, HexOfPassingAll, AllPrunedForItsBuild
<1>1. {"all", "all_best_perf"} \subseteq Label \ {"pruned", "fused_pruned", "hwloop_pruned",
                                                 "hwloop_pruned_best_perf"}
  BY DEF Label
<1>2. CASE UNCHANGED <<sims, hexes>>  BY <1>2
<1>3. CASE StepPruned
  <2>1. /\ hexes' = hexes
        /\ \A l \in Label \ {"pruned"} : sims'[l] = sims[l]
        /\ sims'["pruned"].flag = sims'["pruned"].rtl.hwLoop
        /\ sims'["pruned"].rtl.hwLoop = 0 /\ ~sims'["pruned"].rtl.r4
    BY <1>3, StoresPruned
  <2> QED  BY <1>1, <2>1
<1>4. CASE StepFused
  <2>1. /\ \A l \in Label \ {"fused_pruned"} : sims'[l] = sims[l] /\ hexes'[l] = hexes[l]
        /\ sims'["fused_pruned"].flag = sims'["fused_pruned"].rtl.hwLoop
        /\ sims'["fused_pruned"].rtl.hwLoop = 0
        /\ (sims'["fused_pruned"].rtl.r4 => sims'["fused_pruned"].rtl.rdC)
    BY <1>4, StoresFused
  <2> QED  BY <1>1, <2>1
<1>5. CASE StepHwloop
  <2> DEFINE tag == Tag("hwloop_pruned")
  <2>1. /\ \A l \in Label \ {tag} : sims'[l] = sims[l]
        /\ \A l \in Label \ {"hwloop_pruned"} : hexes'[l] = hexes[l]
        /\ sims'[tag].flag = sims'[tag].rtl.hwLoop
        /\ (sims'[tag].rtl.hwLoop > 0 \/ sims'[tag].rtl.r4 => sims'[tag].rtl.rdC)
    BY <1>5, StoresHwloop
  <2>2. tag \in {"hwloop_pruned", "hwloop_pruned_best_perf"}  BY TagTypes
  <2> HIDE DEF tag
  <2> QED  BY <1>1, <2>1, <2>2
<1>6. CASE StepAll
  <2> DEFINE tag == Tag("all")
             run == sims'[tag]
  <2>1. /\ \A l \in Label \ {tag} : sims'[l] = sims[l] /\ hexes'[l] = hexes[l]
        /\ run.flag = run.rtl.hwLoop
        /\ (run.rtl.hwLoop > 0 \/ run.rtl.r4 => run.rtl.rdC)
        /\ run.out.passed => hexes'[tag] = run.hex
        /\ run.rtl.prunedFor = ctx.hwloop
        /\ \/ run.hex = ctx.hwloop
           \/ run.hex = Build("hwfused", cs.hwLoop, "nounroll", "validated")
    BY <1>6, StoresAll
  <2>2. tag \in {"all", "all_best_perf"}  BY TagTypes
  <2>3. run.hex.origin # "validated" => run.rtl.prunedFor = run.hex
    BY <2>1 DEF Build
  <2> HIDE DEF tag
  <2> QED  BY <1>1, <2>1, <2>2, <2>3
<1> QED
  BY <1>2, <1>3, <1>4, <1>5, <1>6, StoresNothing DEF Next

LEMMA SpecInvariants == Spec => [](TypeInv /\ BuildInv /\ StoredInv)
<1>1. Init => TypeInv /\ BuildInv /\ StoredInv
  BY InitTypeInv, InitBuildInv, InitStoredInv
<1>2. TypeInv /\ BuildInv /\ StoredInv /\ [Next]_vars => (TypeInv /\ BuildInv /\ StoredInv)'
  BY NextTypeInv, NextBuildInv, NextStoredInv
<1> QED  BY <1>1, <1>2, PTL DEF Spec

\* The simulator of every stored result was built with the HW_LOOP of the RTL it
\* ran on: whichever change set's apply() came last, flag and RTL are of the same.
THEOREM FlagCorrect == Spec => []FlagMatchesRtl
<1>1. StoredInv => FlagMatchesRtl  BY DEF StoredInv
<1> QED  BY <1>1, SpecInvariants, PTL

\* RTL of any stored result that decodes R4 words or loop set-ups has read port C,
\* whatever the command line asked for.
THEOREM ReadPortCorrect == Spec => []ReadPortKept
<1>1. StoredInv => ReadPortKept  BY DEF StoredInv
<1> QED  BY <1>1, SpecInvariants, PTL

\* The hex recorded for step 5 is the one that produced a passing result, through
\* every retry.
THEOREM HexOfPassingCorrect == Spec => []HexOfPassingAll
<1>1. StoredInv => HexOfPassingAll  BY DEF StoredInv
<1> QED  BY <1>1, SpecInvariants, PTL

\* Step 5 prunes for the build it runs first, in both rounds and whatever the
\* sweep and the loop selection left in the context.
THEOREM AllPrunedCorrect == Spec => []AllPrunedForItsBuild
<1>1. StoredInv => AllPrunedForItsBuild  BY DEF StoredInv
<1> QED  BY <1>1, SpecInvariants, PTL

\* No step writes to the prune configs that _run_pruning made for the baseline
\* and for hardware loops alone.
THEOREM SavedConfigsCorrect == Spec => SavedConfigsIntact
<1>1. TypeInv /\ [Next]_vars =>
        [pc # "pruning" => \A o \in {"orig", hwonlyRef} : configs'[o] = configs[o]]_vars
  <2> SUFFICES ASSUME TypeInv, Next, pc # "pruning", NEW o \in {"orig", hwonlyRef}
               PROVE  configs'[o] = configs[o]
    OBVIOUS
  <2>1. o \in {"orig", "hwonly"} /\ configs \in [{"orig", "hwonly", "main"} -> PruneConfig]
    BY DEF TypeInv, TypeOK
  <2>2. configs' = configs \/ \E x : configs' = [configs EXCEPT !["main"] = x]
    BY DEF Next, RunFusion, RunHwloop, RunPruning, StepPruned, StepFused, BeginSweep,
           SweepCandidate, EndSweep, SetCandidate, StepHwloop, SkipHwloop, SelectLoops, StepAll,
           SkipAll, Terminated, vars, configVars, ConfigsAfterApply
  <2> QED  BY <2>1, <2>2
<1> QED  BY <1>1, SpecInvariants, PTL DEF Spec, SavedConfigsIntact

-----------------------------------------------------------------------------
(***************************************************************************)
(* What the sweep measured, whom it picked and what the context then runs. *)
(***************************************************************************)
\* A passing result is of the fused build its candidate holds now, on RTL made
\* for its depth.
MeasuredInv ==
  \A i \in DOMAIN results : results[i].passed =>
    /\ cands[i].fused # NoBuild /\ results[i].hex = cands[i].fused
    /\ sweepRtl[i].hwLoop = cands[i].hw

\* Evaluated winners are the best passing candidates; the other kind of winner is
\* the only candidate there is.
PickedInv ==
  round # "default" =>
    IF winners.evaluated
    THEN /\ winners.adp \in Passing(results) /\ winners.cycles \in Passing(results)
         /\ \A i \in Passing(results) :
              /\ results[winners.cycles].cycles <= results[i].cycles
              /\ Adp(results, winners.adp) <= Adp(results, i)
    ELSE winners.adp = 1 /\ winners.cycles = 1

\* The merged build in the context is of the depth of the change set (during the
\* sweep, of the depth that will be restored); with one candidate it is its build.
ContextInv ==
  /\ ctx.hwloop # NoBuild =>
       ctx.hwloop.hw = IF pc = "sweeping" THEN saved.hwLoop ELSE cs.hwLoop
  /\ pc \in {"fusion", "hwloop"} => ctx.hwloop = NoBuild
  /\ pc \in {"pruning", "step2", "step3", "sweep"} /\ Len(cands) = 1 =>
       ctx.hwloop = cands[1].fused
  /\ pc = "select" /\ ~winners.evaluated => ctx.hwloop = cands[1].fused

LEMMA InitSweepInv == Init => MeasuredInv /\ PickedInv /\ ContextInv /\ WinnersEarned
<1> SUFFICES ASSUME Init PROVE MeasuredInv /\ PickedInv /\ ContextInv /\ WinnersEarned
  OBVIOUS
<1>1. DOMAIN results = {} /\ round = "default" /\ pc = "fusion" /\ ctx.hwloop = NoBuild
  BY DEF Init
<1> QED  BY <1>1 DEF MeasuredInv, PickedInv, ContextInv, WinnersEarned

LEMMA NextMeasuredInv ==
  TypeInv /\ TypeInv' /\ BuildInv /\ MeasuredInv /\ [Next]_vars => MeasuredInv'
<1> SUFFICES ASSUME TypeInv, TypeInv', BuildInv, MeasuredInv, [Next]_vars PROVE MeasuredInv'
  OBVIOUS
<1>1. CASE UNCHANGED <<cands, results, sweepRtl>>
  BY <1>1 DEF MeasuredInv
<1>2. CASE RunHwloop
  <2>1. results' = <<>>  BY <1>2 DEF RunHwloop, sweepVars, TypeInv, Ranges, BeforeSweep
  <2> QED  BY <2>1 DEF MeasuredInv
<1>3. CASE SweepCandidate
  <2> DEFINE i == Len(results) + 1
             c == cands[i]
             own == AddPruneConfig([cs EXCEPT !.hwLoop = c.hw])
             config == NewConfig(c.fused)
             validated == Build("hwfused", c.hw, c.variant, "validated")
  <2>1. /\ Len(results) \in Nat /\ DOMAIN results = 1 .. Len(results)
        /\ Len(sweepRtl) = Len(results) /\ i \in DOMAIN cands
        /\ \A j \in DOMAIN results : j # i /\ j \in DOMAIN cands
    BY <1>3, Fields, Members DEF SweepCandidate, TypeInv, Ranges
  <2>2. /\ c \in Candidate /\ c.fused \in Builds /\ c.hw \in 0 .. MaxDepth
    BY <2>1, CandidateFields
  <2>3. \A r, rtl : (results' = Append(results, r) /\ sweepRtl' = Append(sweepRtl, rtl)) =>
          /\ DOMAIN results' = DOMAIN results \cup {i}
          /\ results'[i] = r /\ sweepRtl'[i] = rtl
          /\ \A j \in DOMAIN results : results'[j] = results[j] /\ sweepRtl'[j] = sweepRtl[j]
    <3> SUFFICES ASSUME NEW r, NEW rtl, results' = Append(results, r),
                        sweepRtl' = Append(sweepRtl, rtl)
                 PROVE  /\ DOMAIN results' = DOMAIN results \cup {i}
                        /\ results'[i] = r /\ sweepRtl'[i] = rtl
                        /\ \A j \in DOMAIN results :
                             results'[j] = results[j] /\ sweepRtl'[j] = sweepRtl[j]
      OBVIOUS
    <3>1. Len(results') = i /\ DOMAIN results' = 1 .. i  BY Fields, Members
    <3>2. 1 .. i = (1 .. Len(results)) \cup {i}  BY <2>1
    <3>3. results'[i] = r /\ \A j \in DOMAIN results : results'[j] = results[j]
      BY <2>1, Fields
    <3>4. sweepRtl'[i] = rtl /\ \A j \in DOMAIN results : sweepRtl'[j] = sweepRtl[j]
      <4>1. DOMAIN sweepRtl = DOMAIN results  BY <2>1, Fields, Members
      <4> QED  BY <2>1, <4>1, Fields
    <3> QED  BY <2>1, <3>1, <3>2, <3>3, <3>4
  <2>4. CASE c.fused = NoBuild
    <3>1. /\ results' = Append(results, SweepResult(Fail, 0, NoBuild))
          /\ sweepRtl' = Append(sweepRtl, NoRtl) /\ cands' = cands
      BY <1>3, <2>4 DEF SweepCandidate
    <3>2. ~SweepResult(Fail, 0, NoBuild).passed  BY DEF SweepResult, Fail
    <3>3. /\ DOMAIN results' = DOMAIN results \cup {i}
          /\ results'[i] = SweepResult(Fail, 0, NoBuild)
          /\ \A j \in DOMAIN results : results'[j] = results[j] /\ sweepRtl'[j] = sweepRtl[j]
      BY <2>3, <3>1
    <3>4. \A j \in DOMAIN results' : results'[j].passed => j \in DOMAIN results
      BY <3>2, <3>3
    <3> QED  BY <3>1, <3>3, <3>4 DEF MeasuredInv
  <2>5. CASE c.fused # NoBuild
    <3>1. PICK out \in Outcome, cells \in Cells \cup {0} :
            /\ sweepRtl' = Append(sweepRtl, AppliedRtl(own, config))
            /\ \/ /\ results' = Append(results, SweepResult(out, cells, c.fused))
                  /\ cands' = cands
               \/ /\ results' = Append(results, SweepResult(out, cells, validated))
                  /\ cands' = [cands EXCEPT ![i] = KeepValidated(c, validated)]
      BY <1>3, <2>5 DEF SweepCandidate
    <3>2. AppliedRtl(own, config).hwLoop = c.hw
      <4>1. [cs EXCEPT !.hwLoop = c.hw] \in ChangeSets
            /\ [cs EXCEPT !.hwLoop = c.hw].hwLoop = c.hw
        BY <2>2, Fields DEF ChangeSets
      <4>2. own.hwLoop = c.hw  BY <4>1, MadeTypes
      <4> QED  BY <4>2 DEF AppliedRtl
    <3>3. validated # NoBuild  BY DEF Build, NoBuild
    <3>4. KeepValidated(c, validated).fused = validated /\ KeepValidated(c, validated).hw = c.hw
      <4> HIDE DEF c, validated
      <4> QED  BY <2>2 DEF KeepValidated, Candidate
    <3>5. \A hex : SweepResult(out, cells, hex).hex = hex  BY DEF SweepResult
    <3>6. /\ cands'[i].fused # NoBuild /\ results'[i].hex = cands'[i].fused
          /\ sweepRtl'[i].hwLoop = cands'[i].hw
      <4> HIDE DEF c, own, config, validated, i
      <4>1. CASE /\ results' = Append(results, SweepResult(out, cells, c.fused))
                 /\ cands' = cands
        <5>1. /\ results'[i] = SweepResult(out, cells, c.fused)
              /\ sweepRtl'[i] = AppliedRtl(own, config)
          BY <2>3, <3>1, <4>1
        <5>2. cands'[i] = c  BY <4>1 DEF c
        <5> QED  BY <2>5, <3>2, <3>5, <5>1, <5>2
      <4>2. CASE /\ results' = Append(results, SweepResult(out, cells, validated))
                 /\ cands' = [cands EXCEPT ![i] = KeepValidated(c, validated)]
        <5>1. cands'[i] = KeepValidated(c, validated)  BY <2>1, <4>2
        <5>2. /\ results'[i] = SweepResult(out, cells, validated)
              /\ sweepRtl'[i] = AppliedRtl(own, config)
          BY <2>3, <3>1, <4>2
        <5> QED  BY <3>2, <3>3, <3>4, <3>5, <5>1, <5>2
      <4> QED  BY <3>1, <4>1, <4>2
    <3>7. \A j \in DOMAIN results : cands'[j] = cands[j]  BY <2>1, <3>1
    <3>8. /\ DOMAIN results' = DOMAIN results \cup {i}
          /\ \A j \in DOMAIN results : results'[j] = results[j] /\ sweepRtl'[j] = sweepRtl[j]
      BY <2>3, <3>1
    <3> HIDE DEF i
    <3> QED  BY <3>6, <3>7, <3>8 DEF MeasuredInv
  <2> QED  BY <2>4, <2>5
<1>4. (Next \/ UNCHANGED vars) /\ ~RunHwloop /\ ~SweepCandidate =>
        UNCHANGED <<cands, results, sweepRtl>>
  BY DEF Next, RunFusion, RunPruning, StepPruned, StepFused, BeginSweep, EndSweep, SetCandidate,
         StepHwloop, SkipHwloop, SelectLoops, StepAll, SkipAll, Terminated, vars, choiceVars,
         sweepVars
<1> QED  BY <1>1, <1>2, <1>3, <1>4

LEMMA NextPickedInv == TypeInv /\ PickedInv /\ [Next]_vars => PickedInv'
<1> SUFFICES ASSUME TypeInv, PickedInv, [Next]_vars PROVE PickedInv'
  OBVIOUS
<1>1. CASE UNCHANGED <<round, winners, results>>
  BY <1>1 DEF PickedInv
<1>2. CASE BeginSweep
  <2>1. round' = "default" \/ winners' = [adp |-> 1, cycles |-> 1, evaluated |-> FALSE]
    BY <1>2 DEF BeginSweep, TypeInv, Ranges, BeforeSweep
  <2> QED  BY <2>1 DEF PickedInv
<1>3. CASE SweepCandidate
  <2>1. round' = "default"  BY <1>3 DEF SweepCandidate, TypeInv, Ranges
  <2> QED  BY <2>1 DEF PickedInv
<1>4. CASE EndSweep
  <2>1. results \in Seq([cycles : Nat, cells : Nat, passed : BOOLEAN, hex : Builds])
    BY DEF TypeInv, TypeOK
  <2>2. /\ winners' = [adp |-> PickBest(results).adp, cycles |-> PickBest(results).cycles,
                       evaluated |-> TRUE]
        /\ PickBest(results) = NoWinners => round' = "default"
        /\ results' = results
    BY <1>4 DEF EndSweep, TypeInv, Ranges
  <2>3. CASE PickBest(results) = NoWinners  BY <2>2, <2>3 DEF PickedInv
  <2>4. CASE PickBest(results) # NoWinners
    <3>1. Passing(results) # {}  BY <2>1, <2>4, PickBestIsBest
    <3>2. winners'.adp = PickBest(results).adp /\ winners'.cycles = PickBest(results).cycles
          /\ winners'.evaluated
      BY <2>2
    <3>3. /\ winners'.adp \in Passing(results) /\ winners'.cycles \in Passing(results)
          /\ \A i \in Passing(results) :
              /\ results[winners'.cycles].cycles <= results[i].cycles
              /\ Adp(results, winners'.adp) <= Adp(results, i)
      BY <2>1, <3>1, <3>2, PickBestIsBest
    <3> QED  BY <2>2, <3>2, <3>3 DEF PickedInv
  <2> QED  BY <2>3, <2>4
<1>5. CASE StepAll \/ SkipAll
  <2>1. UNCHANGED <<winners, results>> /\ pc = "step5" /\ Following
    BY <1>5 DEF StepAll, SkipAll, sweepVars
  <2> QED  BY <2>1, AfterStep5 DEF PickedInv
<1>6. (Next \/ UNCHANGED vars) /\ ~BeginSweep /\ ~SweepCandidate /\ ~EndSweep /\ ~StepAll /\ ~SkipAll =>
        UNCHANGED <<round, winners, results>>
  BY DEF Next, RunFusion, RunHwloop, RunPruning, StepPruned, StepFused, SetCandidate,
         StepHwloop, SkipHwloop, SelectLoops, Terminated, vars, sweepVars
<1> QED  BY <1>1, <1>2, <1>3, <1>4, <1>5, <1>6

\* A winner the context is set to has a merged build, or there is none to run.
LEMMA WinnerHasBuild ==
  ASSUME TypeInv, MeasuredInv, PickedInv, ContextInv, pc = "select"
  PROVE  LET c == cands[WinnerIndex] IN
         /\ winners.evaluated => /\ WinnerIndex \in Passing(results) /\ c.fused # NoBuild
                                 /\ results[WinnerIndex].hex = c.fused
                                 /\ sweepRtl[WinnerIndex].hwLoop = c.hw
         /\ ~winners.evaluated => ctx.hwloop = c.fused
<1>1. round # "default"  BY DEF TypeInv, Ranges
<1>2. CASE winners.evaluated
  <2>1. WinnerIndex \in Passing(results)  BY <1>1, <1>2 DEF PickedInv, WinnerIndex
  <2>2. WinnerIndex \in DOMAIN results /\ results[WinnerIndex].passed  BY <2>1 DEF Passing
  <2> QED  BY <1>2, <2>1, <2>2 DEF MeasuredInv
<1>3. CASE ~winners.evaluated
  <2>1. WinnerIndex = 1  BY <1>1, <1>3 DEF PickedInv, WinnerIndex
  <2> QED  BY <1>3, <2>1 DEF ContextInv
<1> QED  BY <1>2, <1>3

LEMMA NextContextInv ==
  /\ TypeInv /\ TypeInv' /\ BuildInv /\ MeasuredInv /\ PickedInv /\ ContextInv
  /\ [Next]_vars
  => ContextInv'
<1> SUFFICES ASSUME TypeInv, TypeInv', BuildInv, MeasuredInv, PickedInv, ContextInv, [Next]_vars
             PROVE  ContextInv'
  OBVIOUS
<1>1. CASE UNCHANGED vars
  BY <1>1 DEF vars, choiceVars, sweepVars, ContextInv
<1>2. CASE RunFusion
  <2>1. ctx'.hwloop = ctx.hwloop /\ pc = "fusion" /\ pc' = "hwloop"
    BY <1>2 DEF RunFusion, TypeInv, TypeOK
  <2> QED  BY <2>1 DEF ContextInv
<1>3. CASE RunHwloop
  <2>1. pc = "hwloop" /\ pc' = "pruning" /\ ctx.hwloop = NoBuild
    BY <1>3 DEF RunHwloop, ContextInv
  <2>2. cands' \in Seq(Candidate) /\ \A i \in DOMAIN cands' : Proper(cands'[i])
    BY <1>3, HwloopOutcome
  <2>3. Len(cands') = 1 => DOMAIN cands' = {1}  BY <2>2, Members
  <2>4. CASE UNCHANGED <<ctx, cs>> /\ \A i \in DOMAIN cands' : cands'[i].fused = NoBuild
    BY <2>1, <2>3, <2>4 DEF ContextInv
  <2>5. CASE \E b \in DOMAIN cands' :
               /\ cs' = [cs EXCEPT !.hwLoop = cands'[b].hw]
               /\ ctx'.hwloop = cands'[b].fused
    <3>1. PICK b \in DOMAIN cands' : /\ cs' = [cs EXCEPT !.hwLoop = cands'[b].hw]
                                     /\ ctx'.hwloop = cands'[b].fused
      BY <2>5
    <3>2. cs'.hwLoop = cands'[b].hw  BY <3>1 DEF TypeInv, TypeOK
    <3>3. Proper(cands'[b])  BY <2>2
    <3> QED  BY <2>1, <2>3, <3>1, <3>2, <3>3 DEF ContextInv, Proper
  <2> QED  BY <1>3, <2>4, <2>5, HwloopOutcome
<1>4. CASE RunPruning \/ StepPruned \/ StepFused
  <2>1. /\ pc \in {"pruning", "step2", "step3"} /\ pc' \in {"step2", "step3", "sweep"}
        /\ UNCHANGED <<ctx, cands>>
    BY <1>4 DEF RunPruning, StepPruned, StepFused, choiceVars
  <2>2. cs' = AddPruneConfig(cs) \/ cs' = cs
    BY <1>4 DEF RunPruning, StepPruned, StepFused
  <2>3. cs'.hwLoop = cs.hwLoop  BY <2>2, Fields, MadeTypes
  <2> QED  BY <2>1, <2>3 DEF ContextInv
<1>5. CASE BeginSweep
  <2>1. /\ pc = "sweep" /\ UNCHANGED <<ctx, cs, cands>>
        /\ \/ pc' = "sweeping" /\ saved'.hwLoop = cs.hwLoop
           \/ pc' = "select" /\ Len(cands) = 1
           \/ pc' = "step4"
    BY <1>5 DEF BeginSweep, choiceVars
  <2> QED  BY <2>1 DEF ContextInv
<1>6. CASE SweepCandidate
  <2>1. /\ pc = "sweeping" /\ pc' = "sweeping" /\ saved' = saved
        /\ \/ ctx' = ctx
           \/ \E b : ctx' = [ctx EXCEPT !.fused = b]
    BY <1>6 DEF SweepCandidate
  <2>2. ctx'.hwloop = ctx.hwloop  BY <2>1 DEF TypeInv, TypeOK
  <2> QED  BY <2>1, <2>2 DEF ContextInv
<1>7. CASE EndSweep
  <2>1. /\ pc = "sweeping" /\ pc' \in {"select", "step4"} /\ winners'.evaluated
        /\ cs'.hwLoop = saved.hwLoop /\ ctx'.hwloop = ctx.hwloop
    BY <1>7 DEF EndSweep, TypeInv, TypeOK
  <2> QED  BY <2>1 DEF ContextInv
<1>8. CASE SetCandidate
  <2> DEFINE c == cands[WinnerIndex]
  <2>1. pc = "select" /\ pc' = "step4" /\ round # "default"
    BY <1>8 DEF SetCandidate, TypeInv, Ranges
  <2>2. Proper(c)  BY <2>1, WinnerInRange DEF BuildInv
  <2>3. cs'.hwLoop = c.hw /\ ctx'.hwloop = IF c.fused # NoBuild THEN c.fused ELSE ctx.hwloop
    BY <1>8 DEF SetCandidate, TypeInv, TypeOK
  <2>4. c.fused # NoBuild \/ ctx.hwloop = c.fused  BY <2>1, WinnerHasBuild
  <2> HIDE DEF c
  <2> QED  BY <2>1, <2>2, <2>3, <2>4 DEF ContextInv, Proper
<1>9. CASE StepHwloop
  <2>1. /\ pc = "step4" /\ pc' = "ga" /\ UNCHANGED cs
        /\ ctx' = ctx \/ \E b : ctx' = [ctx EXCEPT !.plain = b]
    BY <1>9, StepHwloopOutcome DEF StepHwloop
  <2>2. ctx'.hwloop = ctx.hwloop  BY <2>1 DEF TypeInv, TypeOK
  <2> QED  BY <2>1, <2>2 DEF ContextInv
<1>10. CASE SkipHwloop
  BY <1>10 DEF SkipHwloop, choiceVars, ContextInv
<1>11. CASE SelectLoops
  <2>1. pc = "ga" /\ pc' = "step5" /\ cs' = cs
    BY <1>11 DEF SelectLoops
  <2>2. CASE UNCHANGED ctx  BY <2>1, <2>2 DEF ContextInv
  <2>3. CASE \E variant \in Variant :
               LET selected == Build("hwfused", cs.hwLoop, variant, "selected")
               IN ctx' = [ctx EXCEPT !.hwloop = selected, !.fused = selected]
    <3>1. PICK b : b.hw = cs.hwLoop /\ ctx' = [ctx EXCEPT !.hwloop = b, !.fused = b]
      BY <2>3 DEF Build
    <3>2. ctx'.hwloop = b  BY <3>1 DEF TypeInv, TypeOK
    <3> QED  BY <2>1, <3>1, <3>2 DEF ContextInv
  <2> QED  BY <1>11, <2>2, <2>3 DEF SelectLoops
<1>12. CASE StepAll \/ SkipAll
  <2>1. pc = "step5" /\ Following /\ UNCHANGED <<cands, winners>>
    BY <1>12 DEF StepAll, SkipAll, choiceVars, sweepVars
  <2>2. cs'.hwLoop = cs.hwLoop
    <3>1. cs' = cs \/ cs' = [AddPruneConfig(cs) EXCEPT !.resolved = TRUE]
      BY <1>12 DEF StepAll, SkipAll
    <3> QED  BY <3>1 DEF AddPruneConfig, TypeInv, TypeOK
  <2>3. ctx'.hwloop = ctx.hwloop \/ ctx'.hwloop.hw = cs.hwLoop
    <3>1. PICK b : /\ b.hw = cs.hwLoop
                   /\ ctx' = ctx \/ ctx' = [ctx EXCEPT !.hwloop = b]
      <4>1. Build("hwfused", cs.hwLoop, "nounroll", "validated").hw = cs.hwLoop
        BY DEF Build
      <4> QED  BY <1>12, <4>1, StepAllOutcome DEF SkipAll
    <3> QED  BY <3>1 DEF TypeInv, TypeOK
  <2>4. pc' \in {"select", "done"} /\ (pc' = "select" => winners.evaluated)
    <3>1. pc' = "select" => round = "adp" /\ cands[winners.adp].hw # cands[winners.cycles].hw
      BY <2>1, AfterStep5
    <3>2. pc' = "select" => winners.evaluated  BY <3>1 DEF PickedInv
    <3> QED  BY <2>1, <3>2, AfterStep5
  <2> QED  BY <2>1, <2>2, <2>3, <2>4 DEF ContextInv
<1>13. CASE Terminated
  BY <1>1, <1>13 DEF Terminated
<1> QED
  BY <1>1, <1>2, <1>3, <1>4, <1>5, <1>6, <1>7, <1>8, <1>9, <1>10, <1>11, <1>12, <1>13 DEF Next

LEMMA NextWinnersEarned ==
  /\ TypeInv /\ MeasuredInv /\ PickedInv /\ ContextInv /\ WinnersEarned /\ [Next]_vars
  => WinnersEarned'
<1> SUFFICES ASSUME TypeInv, MeasuredInv, PickedInv, ContextInv, WinnersEarned, [Next]_vars
             PROVE  WinnersEarned'
  OBVIOUS
<1>1. CASE UNCHANGED vars
  BY <1>1 DEF vars, choiceVars, sweepVars, WinnersEarned, WinnerIndex
<1>2. CASE SetCandidate
  <2> DEFINE c == cands[WinnerIndex]
  <2>1. /\ pc = "select" /\ round # "default"
        /\ UNCHANGED <<round, cands, winners, results, sweepRtl>>
    BY <1>2 DEF SetCandidate, TypeInv, Ranges, choiceVars, sweepVars
  <2>2. cs'.hwLoop = c.hw /\ ctx'.hwloop = IF c.fused # NoBuild THEN c.fused ELSE ctx.hwloop
    BY <1>2 DEF SetCandidate, TypeInv, TypeOK
  <2>3. winners.evaluated => /\ WinnerIndex \in Passing(results) /\ c.fused # NoBuild
                             /\ results[WinnerIndex].hex = c.fused
                             /\ sweepRtl[WinnerIndex].hwLoop = c.hw
    BY <2>1, WinnerHasBuild
  <2>4. winners.evaluated => results[WinnerIndex].passed /\ results[WinnerIndex].cells > 0
    BY <2>3 DEF Passing
  <2>5. winners.evaluated => \A i \in Passing(results) :
              /\ results[winners.cycles].cycles <= results[i].cycles
              /\ Adp(results, winners.adp) <= Adp(results, i)
    BY <2>1 DEF PickedInv
  <2>6. WinnerIndex' = WinnerIndex  BY <2>1 DEF WinnerIndex
  <2>7. c' = c  BY <2>1, <2>6
  <2>8. Passing(results)' = Passing(results) /\ \A i : Adp(results, i)' = Adp(results, i)
    BY <2>1 DEF Passing, Adp
  <2> HIDE DEF c
  <2> QED  BY <2>1, <2>2, <2>3, <2>4, <2>5, <2>6, <2>7, <2>8 DEF WinnersEarned, c
<1>3. CASE BeginSweep \/ EndSweep
  <2>1. pc' = "step4" => round' = "default"
    BY <1>3 DEF BeginSweep, EndSweep, TypeInv, Ranges, BeforeSweep
  <2> QED  BY <2>1 DEF WinnersEarned
<1>4. CASE Next /\ ~SetCandidate /\ ~BeginSweep /\ ~EndSweep /\ ~Terminated
  <2>1. pc' # "step4"
    BY <1>4, AfterStep5
    DEF Next, RunFusion, RunHwloop, RunPruning, StepPruned, StepFused, SweepCandidate,
        StepHwloop, SkipHwloop, SelectLoops, StepAll, SkipAll
  <2> QED  BY <2>1 DEF WinnersEarned
<1> QED  BY <1>1, <1>2, <1>3, <1>4 DEF Terminated

\* Nothing is stored while the candidates are not yet known.
NothingStored == pc \in {"fusion", "hwloop"} => \A l \in Label : sims[l] = NoRun

\* The depths with a plain build.
PlainDepths == {cands[i].hw : i \in {j \in DOMAIN cands : cands[j].plain # NoBuild}}

\* ResultsBelong for one label.
Belongs(l, run, depths) ==
  CASE l = "pruned" ->
         run.hex = Original /\ ~run.rtl.fused /\ run.rtl.hwLoop = 0
    [] l = "fused_pruned" ->
         run.hex = Fused /\ run.rtl.fused /\ run.rtl.hwLoop = 0
    [] l \in {"hwloop_pruned", "hwloop_pruned_best_perf"} ->
         /\ run.hex.kind = "hwplain" /\ ~run.rtl.fused
         /\ run.rtl.hwLoop \in depths => run.hex.hw = run.rtl.hwLoop
    [] OTHER ->
         run.hex.kind = "hwfused" /\ run.rtl.fused /\ run.hex.hw = run.rtl.hwLoop

LEMMA BelongsMeaning ==
  ResultsBelong <=>
    \A l \in Label : sims[l] # NoRun /\ sims[l].asked \notin missing =>
      Belongs(l, sims[l], PlainDepths)
<1>1. \A hw : HasPlain(hw) <=> hw \in PlainDepths  BY DEF HasPlain, PlainDepths
<1> QED  BY <1>1 DEF ResultsBelong, Belongs

LEMMA InitBelongs == Init => ResultsBelong /\ NothingStored
BY DEF Init, ResultsBelong, NothingStored

\* Results stay where they belong while the depths with a plain build are the same.
LEMMA BelongsKept ==
  ASSUME ResultsBelong, missing \subseteq missing', PlainDepths' = PlainDepths,
         NEW T \in SUBSET Label, \A l \in Label \ T : sims'[l] = sims[l],
         \A l \in T : sims'[l].asked \notin missing' => Belongs(l, sims'[l], PlainDepths)
  PROVE  ResultsBelong'
<1>1. ASSUME NEW l \in Label \ T, sims'[l] # NoRun, sims'[l].asked \notin missing'
      PROVE  Belongs(l, sims'[l], PlainDepths)
  BY <1>1, BelongsMeaning
<1>2. \A l \in Label : sims'[l] # NoRun /\ sims'[l].asked \notin missing' =>
        Belongs(l, sims'[l], PlainDepths')
  BY <1>1
<1>3. (ResultsBelong <=>
         \A l \in Label : sims[l] # NoRun /\ sims[l].asked \notin missing =>
           Belongs(l, sims[l], PlainDepths))'
  BY BelongsMeaning, PTL
<1> QED  BY <1>2, <1>3

LEMMA NextBelongs ==
  /\ TypeInv /\ BuildInv /\ ContextInv /\ ResultsBelong /\ NothingStored /\ [Next]_vars
  => (ResultsBelong /\ NothingStored)'
<1> SUFFICES ASSUME TypeInv, BuildInv, ContextInv, ResultsBelong, NothingStored, [Next]_vars
             PROVE  ResultsBelong' /\ NothingStored'
  OBVIOUS
<1>1. NothingStored'
  <2>1. CASE UNCHANGED vars  BY <2>1 DEF vars, outVars, NothingStored
  <2>2. CASE RunFusion  BY <2>2, StoresNothing DEF RunFusion, NothingStored
  <2>3. CASE Next /\ ~RunFusion /\ ~Terminated
    <3>1. pc' \notin {"fusion", "hwloop"}
      BY <2>3, AfterStep5
      DEF Next, RunHwloop, RunPruning, StepPruned, StepFused, BeginSweep, SweepCandidate, EndSweep,
          SetCandidate, StepHwloop, SkipHwloop, SelectLoops, StepAll, SkipAll
    <3> QED  BY <3>1 DEF NothingStored
  <2> QED  BY <2>1, <2>2, <2>3 DEF Terminated
<1>2. CASE UNCHANGED <<cands, sims, missing>>
  <2>1. PlainDepths' = PlainDepths  BY <1>2 DEF PlainDepths
  <2>2. {} \in SUBSET Label  OBVIOUS
  <2> QED  BY <1>1, <1>2, <2>1, <2>2, BelongsKept
<1>3. CASE RunHwloop
  <2>1. \A l \in Label : sims'[l] = NoRun
    BY <1>3, StoresNothing DEF RunHwloop, NothingStored
  <2> QED  BY <1>1, <2>1 DEF ResultsBelong
<1>4. CASE SweepCandidate
  <2> DEFINE i == Len(results) + 1
             c == cands[i]
             validated == Build("hwfused", c.hw, c.variant, "validated")
  <2>1. i \in DOMAIN cands  BY <1>4, Fields, Members DEF SweepCandidate
  <2>2. cands' = cands \/ cands' = [cands EXCEPT ![i] = KeepValidated(c, validated)]
    BY <1>4 DEF SweepCandidate
  <2>3. KeepValidated(c, validated).hw = c.hw /\ KeepValidated(c, validated).plain = c.plain
    BY <2>1, CandidateFields DEF KeepValidated, Candidate
  <2> HIDE DEF validated, i
  <2>4. DOMAIN cands' = DOMAIN cands
        /\ \A j \in DOMAIN cands : cands'[j].hw = cands[j].hw /\ cands'[j].plain = cands[j].plain
    BY <2>1, <2>2, <2>3
  <2>5. PlainDepths' = PlainDepths  BY <2>4 DEF PlainDepths
  <2>6. UNCHANGED <<sims, missing>>  BY <1>4, StoresNothing
  <2>7. {} \in SUBSET Label  OBVIOUS
  <2> QED  BY <1>1, <2>5, <2>6, <2>7, BelongsKept
<1>5. CASE StepPruned
  <2>1. /\ UNCHANGED <<missing, cands>> /\ \A l \in Label \ {"pruned"} : sims'[l] = sims[l]
        /\ Belongs("pruned", sims'["pruned"], PlainDepths)
    BY <1>5, StoresPruned DEF Belongs
  <2>2. {"pruned"} \in SUBSET Label  BY DEF Label
  <2>3. PlainDepths' = PlainDepths  BY <2>1 DEF PlainDepths
  <2> QED  BY <1>1, <2>1, <2>2, <2>3, BelongsKept
<1>6. CASE StepFused
  <2>1. /\ UNCHANGED <<missing, cands>> /\ \A l \in Label \ {"fused_pruned"} : sims'[l] = sims[l]
        /\ Belongs("fused_pruned", sims'["fused_pruned"], PlainDepths)
    BY <1>6, StoresFused DEF Belongs
  <2>2. {"fused_pruned"} \in SUBSET Label  BY DEF Label
  <2>3. PlainDepths' = PlainDepths  BY <2>1 DEF PlainDepths
  <2> QED  BY <1>1, <2>1, <2>2, <2>3, BelongsKept
<1>7. CASE StepHwloop
  <2> DEFINE tag == Tag("hwloop_pruned")
             run == sims'[tag]
  <2>1. /\ cands' = cands /\ missing \subseteq missing'
        /\ \A l \in Label \ {tag} : sims'[l] = sims[l]
        /\ run.rtl.hwLoop = cs.hwLoop /\ ~run.rtl.fused
        /\ run.asked \notin missing' =>
             run.hex.kind = "hwplain" /\ (HasPlain(cs.hwLoop) => run.hex.hw = cs.hwLoop)
    BY <1>7, StoresHwloop
  <2>2. tag \in {"hwloop_pruned", "hwloop_pruned_best_perf"} /\ {tag} \in SUBSET Label
    BY TagTypes
  <2> HIDE DEF tag
  <2>3. PlainDepths' = PlainDepths  BY <2>1 DEF PlainDepths
  <2>4. HasPlain(cs.hwLoop) <=> cs.hwLoop \in PlainDepths  BY DEF HasPlain, PlainDepths
  <2>5. sims'[tag].asked \notin missing' => Belongs(tag, sims'[tag], PlainDepths)
    BY <2>1, <2>2, <2>4 DEF Belongs
  <2> QED  BY <1>1, <2>1, <2>2, <2>3, <2>5, BelongsKept
<1>8. CASE StepAll
  <2> DEFINE tag == Tag("all")
             run == sims'[tag]
             validated == Build("hwfused", cs.hwLoop, "nounroll", "validated")
  <2>1. /\ UNCHANGED <<cands, missing>> /\ \A l \in Label \ {tag} : sims'[l] = sims[l]
        /\ run.rtl.hwLoop = cs.hwLoop /\ run.rtl.fused
        /\ run.hex = ctx.hwloop \/ run.hex = validated
    BY <1>8, StoresAll
  <2>2. tag \in {"all", "all_best_perf"} /\ {tag} \in SUBSET Label
    BY TagTypes
  <2>3. ctx.hwloop.kind = "hwfused" /\ ctx.hwloop.hw = cs.hwLoop
    BY <1>8 DEF StepAll, CanRunAll, BuildInv, ContextInv
  <2>4. validated.kind = "hwfused" /\ validated.hw = cs.hwLoop  BY DEF Build
  <2> HIDE DEF tag, validated
  <2>5. run.hex.kind = "hwfused" /\ run.hex.hw = run.rtl.hwLoop  BY <2>1, <2>3, <2>4
  <2>6. Belongs(tag, sims'[tag], PlainDepths)  BY <2>1, <2>2, <2>5 DEF Belongs
  <2>7. PlainDepths' = PlainDepths  BY <2>1 DEF PlainDepths
  <2> QED  BY <1>1, <2>1, <2>2, <2>6, <2>7, BelongsKept
<1>9. (Next \/ UNCHANGED vars) /\ ~RunHwloop /\ ~SweepCandidate /\ ~StepPruned /\ ~StepFused
      /\ ~StepHwloop /\ ~StepAll => UNCHANGED <<cands, sims, missing>>
  BY DEF Next, RunFusion, RunPruning, BeginSweep, EndSweep, SetCandidate, SkipHwloop, SelectLoops,
         SkipAll, Terminated, vars, choiceVars, outVars
<1> QED  BY <1>1, <1>2, <1>3, <1>4, <1>5, <1>6, <1>7, <1>8, <1>9

LEMMA SpecSweep ==
  Spec => [](MeasuredInv /\ PickedInv /\ ContextInv /\ WinnersEarned /\ ResultsBelong)
<1> DEFINE I == MeasuredInv /\ PickedInv /\ ContextInv /\ WinnersEarned /\ ResultsBelong
                /\ NothingStored
<1>1. Init => I  BY InitSweepInv, InitBelongs
<1>2. TypeInv /\ TypeInv' /\ BuildInv /\ I /\ [Next]_vars => I'
  BY NextMeasuredInv, NextPickedInv, NextContextInv, NextWinnersEarned, NextBelongs
<1> QED  BY <1>1, <1>2, SpecInvariants, PTL DEF Spec

\* A winner passed, no passing candidate beats it, and step 5 starts from the
\* build that passed on RTL of that depth: for any candidates and any outcomes.
THEOREM WinnersCorrect == Spec => []WinnersEarned
BY SpecSweep, PTL

\* Every stored result is of the step its label names: kind of binary, kind of
\* RTL, and a binary patched for the depth of the RTL it ran on.
THEOREM ResultsCorrect == Spec => []ResultsBelong
BY SpecSweep, PTL
=============================================================================
