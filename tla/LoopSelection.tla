---------------------------- MODULE LoopSelection -----------------------------
(***************************************************************************)
(* _select_beneficial_loops: which of the eligible loops become hardware   *)
(* loops.  A mask is the set of positions that are ON; patching, building  *)
(* and simulating a set of loops has one outcome, its cycle count or       *)
(* Failed, fixed for the whole call.  _eval_mask remembers outcomes by     *)
(* mask, that is by position, and the positions change when only the       *)
(* survivors of pre-validation are kept.                                   *)
(***************************************************************************)
EXTENDS Naturals, Sequences, FiniteSets

CONSTANTS
  Loops,           \* the eligible loops: 1 .. n, in assembly order
  CycleCounts,     \* the cycle counts a simulation may report
  ExhaustiveMax    \* largest number of loops searched exhaustively (6)

ASSUME LoopsAssumption ==
  /\ IsFiniteSet(Loops) /\ Loops # {}
  /\ Loops = 1 .. Cardinality(Loops)
  /\ CycleCounts \subseteq Nat \ {0}
  /\ ExhaustiveMax \in Nat \ {0}

Failed == 0                               \* None: not built, timed out, no SUCCESS
Outcomes == CycleCounts \cup {Failed}

VARIABLES
  phase,     \* where the call is
  cost,      \* what the simulator reports for each set of loops
  keys,      \* the loops still considered, by position
  cache,     \* outcomes by mask
  valid,     \* valid_i: the positions that passed pre-validation so far
  baseline,  \* cycles with no hardware loop
  allOn,     \* cycles with every considered loop
  best,      \* best_mask
  bestCost,  \* best_cost
  at,        \* the position or the mask number the running loop is at
  improved   \* the last pass of the greedy phase changed something

vars == <<phase, cost, keys, cache, valid, baseline, allOn, best, bestCost, at, improved>>

N == Len(keys)
Positions == 1 .. N
LoopsOf(mask) == {keys[i] : i \in mask}

\* _eval_mask
Eval(mask) == IF mask \in DOMAIN cache THEN cache[mask] ELSE cost[LoopsOf(mask)]

\* Seeded fault: what is remembered of a failure is the GA's penalty for it.
CacheWithPenalty(masks) ==
  [m \in DOMAIN cache \cup masks |-> IF Eval(m) = Failed THEN 2 * baseline ELSE Eval(m)]

CacheWith(masks) == [m \in DOMAIN cache \cup masks |-> Eval(m)]

NoCache == [m \in {} |-> Failed]
Better(outcome) == outcome # Failed /\ outcome < bestCost

\* Each variable holds what the code can put there.
TypeOK ==
  /\ phase \in {"start", "prevalidate", "tiers", "exhaustive", "ga", "reenable",
                "greedy", "selected", "none", "raised"}
  /\ cost \in [SUBSET Loops -> Outcomes]
  /\ keys \in Seq(Loops) /\ N <= Cardinality(Loops)
  /\ DOMAIN cache \subseteq SUBSET Loops
  /\ \A m \in DOMAIN cache : cache[m] \in Outcomes
  /\ valid \in Seq(Loops)
  /\ baseline \in Outcomes /\ allOn \in Outcomes
  /\ best \subseteq Loops
  /\ bestCost \in Nat
  /\ at \in Nat \ {0}
  /\ improved \in BOOLEAN

Init ==
  /\ phase = "start"
  /\ cost \in [SUBSET Loops -> Outcomes]
  /\ keys = [i \in Loops |-> i]
  /\ cache = NoCache
  /\ valid = << >>
  /\ baseline = Failed
  /\ allOn = Failed
  /\ best = {}
  /\ bestCost = 0
  /\ at = 1
  /\ improved = FALSE

-----------------------------------------------------------------------------
\* The baseline and all loops ON.  Without a baseline nothing is selected; when
\* all loops together fail each one is tried alone.
Start ==
  /\ phase = "start"
  /\ baseline' = Eval({})
  /\ IF baseline' = Failed
     THEN phase' = "none" /\ cache' = CacheWith({{}}) /\ UNCHANGED allOn
     ELSE /\ allOn' = Eval(Positions)
          /\ cache' = CacheWith({{}, Positions})
          /\ phase' = IF allOn' = Failed THEN "prevalidate" ELSE "tiers"
  /\ UNCHANGED <<cost, keys, valid, best, bestCost, at, improved>>

Prevalidate ==
  /\ phase = "prevalidate"
  /\ at <= N
  /\ valid' = IF Eval({at}) # Failed THEN Append(valid, at) ELSE valid
  /\ cache' = CacheWith({{at}})
  /\ at' = at + 1
  /\ UNCHANGED <<phase, cost, keys, baseline, allOn, best, bestCost, improved>>

\* keys = [keys[i] for i in valid_i]
Survivors == [j \in 1 .. Len(valid) |-> keys[valid[j]]]

\* Seeded fault: the outcomes by old positions are kept.
CacheOfSurvivorsStale == cache

\* cache.clear(): the positions mean other loops now.
CacheOfSurvivors == NoCache

\* Only the survivors are kept, renumbered, and evaluated afresh.
KeepSurvivors ==
  /\ phase = "prevalidate"
  /\ at = N + 1
  /\ IF valid = << >>
     THEN phase' = "none" /\ UNCHANGED <<keys, cache, baseline, allOn>>
     ELSE LET all == 1 .. Len(valid)
              outcome(mask) ==
                IF mask \in DOMAIN CacheOfSurvivors THEN CacheOfSurvivors[mask]
                ELSE cost[{Survivors[i] : i \in mask}]
          IN /\ keys' = Survivors
             /\ baseline' = outcome({})
             /\ allOn' = outcome(all)
             /\ cache' = [m \in DOMAIN CacheOfSurvivors \cup {{}, all} |-> outcome(m)]
             /\ phase' = IF baseline' = Failed \/ allOn' = Failed THEN "none" ELSE "tiers"
  /\ at' = 1
  /\ UNCHANGED <<cost, valid, best, bestCost, improved>>

\* One loop is used as it is, a few are searched exhaustively, more by the GA.
ChooseTier ==
  /\ phase = "tiers"
  /\ best' = Positions
  /\ bestCost' = allOn
  /\ phase' = CASE N = 1 -> "selected"
                [] N > 1 /\ N <= ExhaustiveMax -> "exhaustive"
                [] OTHER -> "ga"
  /\ at' = 1
  /\ UNCHANGED <<cost, keys, cache, valid, baseline, allOn, improved>>

\* Seeded fault: the search starts at the second mask.
ExhaustiveFirstSkipped == 2

\* range(1, 2**N): the empty mask is not tried.
ExhaustiveFirst == 1

Bit(bits, j) == (bits \div 2^(j - 1)) % 2
MaskOf(bits) == {j \in Positions : Bit(bits, j) = 1}

Exhaustive ==
  LET bits == at + ExhaustiveFirst - 1
      mask == MaskOf(bits)
  IN
  /\ phase = "exhaustive"
  /\ IF bits < 2^N
     THEN /\ at' = at + 1
          /\ cache' = CacheWith({mask})
          /\ IF Better(Eval(mask)) THEN best' = mask /\ bestCost' = Eval(mask)
                                   ELSE UNCHANGED <<best, bestCost>>
          /\ UNCHANGED phase
     ELSE phase' = "selected" /\ UNCHANGED <<at, cache, best, bestCost>>
  /\ UNCHANGED <<cost, keys, valid, baseline, allOn, improved>>

\* A failing member of the population scores twice the baseline.
Score(mask) == IF Eval(mask) = Failed THEN 2 * baseline ELSE Eval(mask)

\* The populations are random: any mask that scores lower than the best so far
\* may turn up, or none.  (Members that score no lower change nothing.)
Evolve ==
  /\ phase = "ga"
  /\ \E mask \in SUBSET Positions :
       /\ Score(mask) < bestCost
       /\ best' = mask
       /\ bestCost' = Score(mask)
       /\ cache' = CacheWith({mask})
  /\ UNCHANGED <<phase, cost, keys, valid, baseline, allOn, at, improved>>

EndEvolution ==
  /\ phase = "ga"
  /\ phase' = "reenable"
  /\ at' = 1
  /\ UNCHANGED <<cost, keys, cache, valid, baseline, allOn, best, bestCost, improved>>

\* Seeded fault: a loop that does not help stays in the mask.
TryMaskKept(mask) ==
  /\ cache' = CacheWith({mask})
  /\ best' = mask
  /\ bestCost' = IF Better(Eval(mask)) THEN Eval(mask) ELSE bestCost

\* best_mask is changed in place, evaluated, and changed back unless it is better.
TryMask(mask) ==
  /\ cache' = CacheWith({mask})
  /\ IF Better(Eval(mask)) THEN best' = mask /\ bestCost' = Eval(mask)
                           ELSE UNCHANGED <<best, bestCost>>

\* Phase 2: the disabled loops, in order.
ReEnable ==
  /\ phase = "reenable"
  /\ IF at <= N
     THEN /\ at' = at + 1
          /\ IF at \in best THEN UNCHANGED <<cache, best, bestCost>>
                            ELSE TryMask(best \cup {at})
          /\ UNCHANGED phase
     ELSE /\ phase' = "greedy"
          /\ at' = 1
          /\ UNCHANGED <<cache, best, bestCost>>
  /\ improved' = FALSE
  /\ UNCHANGED <<cost, keys, valid, baseline, allOn>>

\* Phase 3: the enabled loops, in order, again and again.
GreedyDisable ==
  /\ phase = "greedy"
  /\ at <= N
  /\ at' = at + 1
  /\ IF at \in best THEN TryMask(best \ {at}) ELSE UNCHANGED <<cache, best, bestCost>>
  /\ improved' = (improved \/ bestCost' # bestCost)
  /\ UNCHANGED <<phase, cost, keys, valid, baseline, allOn>>

\* Seeded fault: "improved" is not reset at the start of a pass.
ImprovedKept == improved

\* Seeded fault: one pass only.
GoAgainNever == FALSE

ImprovedAtPassStart == FALSE
GoAgain == improved

\* ... until a pass changes nothing.
GreedyPassEnds ==
  /\ phase = "greedy"
  /\ at = N + 1
  /\ IF GoAgain THEN at' = 1 /\ improved' = ImprovedAtPassStart /\ UNCHANGED phase
                ELSE phase' = "selected" /\ UNCHANGED <<at, improved>>
  /\ UNCHANGED <<cost, keys, cache, valid, baseline, allOn, best, bestCost>>

\* The masks evaluated where the call is.
Pending ==
  CASE phase = "start" -> {{}, Positions}
    [] phase = "prevalidate" /\ at <= N -> {{at}}
    [] phase = "exhaustive" /\ at < 2^N -> {MaskOf(at)}
    [] phase = "ga" -> SUBSET Positions
    [] phase = "reenable" /\ at <= N -> {best \cup {at}}
    [] phase = "greedy" /\ at \in best -> {best \ {at}}
    [] OTHER -> {}

\* subprocess raises TimeoutExpired and nobody catches it.  (A program that
\* reaches +maxcycles ends in time, and has merely failed.)
TimesOut ==
  /\ Pending \ DOMAIN cache # {}
  /\ phase' = "raised"
  /\ UNCHANGED <<cost, keys, cache, valid, baseline, allOn, best, bestCost, at, improved>>

Next ==
  \/ Start
  \/ Prevalidate
  \/ KeepSurvivors
  \/ ChooseTier
  \/ Exhaustive
  \/ Evolve
  \/ EndEvolution
  \/ ReEnable
  \/ GreedyDisable
  \/ GreedyPassEnds
  \/ TimesOut

Returned == phase \in {"selected", "none", "raised"}

Spec == Init /\ [][Next]_vars

\* The call is sequential code that nothing interrupts.
FairSpec == Spec /\ WF_vars(Next)

-----------------------------------------------------------------------------
(***************************************************************************)
(* Properties.                                                             *)
(***************************************************************************)
\* A remembered outcome is the outcome of the loops the mask stands for now:
\* renumbering the survivors does not leave outcomes of other loops behind
\* (hwloop.py:655).
CacheSound == \A mask \in DOMAIN cache : cache[mask] = cost[LoopsOf(mask)]

\* While no failing mask can look good (all loops cost at most twice the
\* baseline), best_cost is the measured cost of best_mask and no more than that
\* of all loops: trying a mask in place leaves nothing behind when it is worse.
BestIsMeasured ==
  (phase \in {"exhaustive", "ga", "reenable", "greedy", "selected"}
     /\ allOn <= 2 * baseline) =>
    /\ bestCost = cost[LoopsOf(best)]
    /\ bestCost # Failed
    /\ bestCost <= allOn

\* Up to ExhaustiveMax loops, no other non-empty mask is faster.
ExhaustiveIsOptimal ==
  (phase = "selected" /\ N > 1 /\ N <= ExhaustiveMax) =>
    \A mask \in (SUBSET Positions) \ {{}} :
      cost[LoopsOf(mask)] # Failed => bestCost <= cost[LoopsOf(mask)]

\* Beyond, no single loop of the result can be disabled with profit, in whatever
\* order the earlier decisions were taken.
GreedyIsLocallyOptimal ==
  (phase = "selected" /\ N > ExhaustiveMax) =>
    \A i \in best : LET c == cost[LoopsOf(best \ {i})] IN c # Failed => bestCost <= c

\* The selection returns: the greedy passes cannot go on for ever.
Terminates == <>Returned
=============================================================================
