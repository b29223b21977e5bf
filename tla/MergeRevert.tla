----------------------------- MODULE MergeRevert ------------------------------
(***************************************************************************)
(* _test_merged_functions: the functions that merge_asm replaced in the    *)
(* fused source are put back one after the other, each on top of the       *)
(* reverts that paid so far.  A source is the set of functions it has put  *)
(* back; patching, assembling and simulating it has one outcome.           *)
(***************************************************************************)
EXTENDS Naturals, FiniteSets

CONSTANTS
  Fns,          \* the replaced functions: 1 .. n, in the order they are tested
  CycleCounts   \* the cycle counts a simulation may report

ASSUME RevertAssumption ==
  /\ IsFiniteSet(Fns) /\ Fns # {}
  /\ Fns = 1 .. Cardinality(Fns)
  /\ CycleCounts \subseteq Nat \ {0}

Failed == 0                              \* not patched, not assembled, no SUCCESS
Outcomes == CycleCounts \cup {Failed}
FusedSrc == 0                            \* cand.fused_src
Sources == Fns \cup {FusedSrc}           \* f stands for _merge_test_f.s
None == Cardinality(Fns) + 1

VARIABLES
  cost,             \* what the simulator reports for a source
  baseline_cycles,  \* those of the binary the GA selected
  files,            \* contents of the sources on disk
  current_src, current_cycles,
  reverted,         \* the functions put back for good
  testing,          \* the function being tested
  returned          \* Path(current_src), or None

revertVars == <<cost, baseline_cycles, files, current_src, current_cycles, reverted, testing, returned>>

\* Each variable holds what the code can put there.
RevertTypeOK ==
  /\ cost \in [SUBSET Fns -> Outcomes]
  /\ baseline_cycles \in CycleCounts
  /\ DOMAIN files \subseteq Sources /\ FusedSrc \in DOMAIN files
  /\ \A f \in DOMAIN files : files[f] \subseteq Fns
  /\ current_src \in Sources
  /\ current_cycles \in CycleCounts
  /\ reverted \subseteq Fns
  /\ testing \in 1 .. Cardinality(Fns) + 3
  /\ returned \in Sources \cup {None}

\* The baseline is the cycles of some loops of the fused source, while each test
\* patches all its loops: the two need not agree.
RevertInit ==
  /\ cost \in [SUBSET Fns -> Outcomes]
  /\ baseline_cycles \in CycleCounts
  /\ files = [f \in {FusedSrc} |-> {}]
  /\ current_src = FusedSrc
  /\ current_cycles = baseline_cycles
  /\ reverted = {}
  /\ testing = 1
  /\ returned = None

Finished == testing > Cardinality(Fns) + 1

\* Seeded fault: every revert starts from the fused source again.
RevertFunctionOfFused(f) == files[FusedSrc] \cup {f}

\* revert_function(current_src, standard_src, fn, test_src)
RevertFunction(f) == files[current_src] \cup {f}

\* Seeded fault: a test that failed counts as an improvement.
PaysAlsoFailed(outcome) == outcome < current_cycles

Pays(outcome) == outcome # Failed /\ outcome < current_cycles

\* Write _merge_test_fn.s, patch, assemble and run it; keep it if it is faster.
TestFunction ==
  /\ testing \in Fns
  /\ LET test == RevertFunction(testing) IN
     /\ files' = [f \in DOMAIN files \cup {testing} |-> IF f = testing THEN test ELSE files[f]]
     /\ IF Pays(cost[test])
        THEN /\ current_src' = testing
             /\ current_cycles' = cost[test]
             /\ reverted' = reverted \cup {testing}
        ELSE UNCHANGED <<current_src, current_cycles, reverted>>
  /\ testing' = testing + 1
  /\ UNCHANGED <<cost, baseline_cycles, returned>>

\* The cleanup unlinks every _merge_test_fn.s, the current one too.
Cleanup ==
  /\ testing = Cardinality(Fns) + 1
  /\ files' = [f \in DOMAIN files \ Fns |-> files[f]]
  /\ returned' = IF reverted # {} THEN current_src ELSE None
  /\ testing' = testing + 1
  /\ UNCHANGED <<cost, baseline_cycles, current_src, current_cycles, reverted>>

\* The simulation takes too long: TimeoutExpired passes the cleanup by.
TestTimesOut ==
  /\ testing \in Fns
  /\ files' = [f \in DOMAIN files \cup {testing} |->
                IF f = testing THEN RevertFunction(testing) ELSE files[f]]
  /\ testing' = Cardinality(Fns) + 3
  /\ UNCHANGED <<cost, baseline_cycles, current_src, current_cycles, reverted, returned>>

RevertNext == TestFunction \/ Cleanup \/ TestTimesOut

RevertSpec == RevertInit /\ [][RevertNext]_revertVars

-----------------------------------------------------------------------------
(***************************************************************************)
(* Properties.                                                             *)
(***************************************************************************)
\* current_cycles belongs to current_src, which has all the reverts that paid
\* and no other: the reverts accumulate (hwloop.py:183-251).
CurrentIsMeasured ==
  (current_src # FusedSrc /\ ~Finished) =>
    /\ files[current_src] = reverted
    /\ current_cycles = cost[files[current_src]]

\* A revert that pays leaves strictly fewer cycles than the GA's binary, and
\* fewer than every prefix of the reverts kept before it.
RevertsPay ==
  \A f \in reverted :
    LET upTo(g) == {h \in reverted : h <= g} IN
    /\ cost[upTo(f)] \in 1 .. baseline_cycles - 1
    /\ \A g \in reverted : g < f => cost[upTo(f)] < cost[upTo(g)]
=============================================================================
