----------------------------- MODULE HwloopSweep ------------------------------
(***************************************************************************)
(* hwloop_sweep.py: what a sweep result is and how pick_best chooses.  A   *)
(* result is [cycles, cells, passed, ...]; a candidate is its index.       *)
(***************************************************************************)
EXTENDS Naturals, Sequences

\* min(..., key): the first index with the smallest key.
FirstMin(S, key) ==
  CHOOSE i \in S : \A j \in S : key[i] < key[j] \/ (key[i] = key[j] /\ i <= j)

Passing(results) == {i \in DOMAIN results : results[i].passed /\ results[i].cells > 0}

\* Cycles times cells; the scale of the source does not change the order.
Adp(results, i) == results[i].cycles * results[i].cells

NoWinners == [adp |-> 0, cycles |-> 0]

\* Seeded fault: a candidate whose synthesis failed (no cells) takes part.
PickBestUnchecked(results) ==
  LET passing == {i \in DOMAIN results : results[i].passed}
      adp == [i \in passing |-> Adp(results, i)]
      cycles == [i \in passing |-> results[i].cycles]
  IN IF passing = {} THEN NoWinners
     ELSE [adp |-> FirstMin(passing, adp), cycles |-> FirstMin(passing, cycles)]

\* pick_best: the winners by area-delay product and by cycles, 0 for none.
PickBest(results) ==
  LET passing == Passing(results)
      adp == [i \in passing |-> Adp(results, i)]
      cycles == [i \in passing |-> results[i].cycles]
  IN IF passing = {} THEN NoWinners
     ELSE [adp |-> FirstMin(passing, adp), cycles |-> FirstMin(passing, cycles)]
=============================================================================
