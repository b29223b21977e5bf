------------------------- MODULE LoopSelectionProofs --------------------------
(***************************************************************************)
(* For any number of loops, any cycle counts and any limit of the          *)
(* exhaustive search: the remembered outcomes are right, best_cost is      *)
(* measured, and the greedy passes end in a local optimum.                 *)
(***************************************************************************)
EXTENDS LoopSelection, FiniteSetTheorems, SequenceTheorems, WellFoundedInduction, TLAPS

Searching == {"exhaustive", "ga", "reenable", "greedy", "selected"}

\* What has been found of the loops when the search starts, and the tier the
\* search is in: exhaustive for few loops, the GA and what follows for many.
Measured ==
  /\ phase \in Searching \cup {"tiers"} =>
       /\ allOn = cost[LoopsOf(Positions)]
       /\ allOn # Failed
  /\ phase \in Searching => best \subseteq Positions
  /\ phase = "exhaustive" => N <= ExhaustiveMax

\* Pre-validation has at most one survivor for each position it has passed.
PrevalidationInv ==
  /\ phase = "start" => at = 1 /\ valid = << >>
  /\ phase = "prevalidate" =>
       /\ Len(valid) < at /\ at <= N + 1
       /\ \A j \in 1 .. Len(valid) : valid[j] \in Positions

\* The greedy pass: while it has changed nothing, no loop behind it is worth
\* disabling.
PassedIsOptimal ==
  (phase = "greedy" /\ ~improved) =>
    \A i \in best : i < at => ~Better(cost[LoopsOf(best \ {i})])

SelectedIsOptimal ==
  (phase = "selected" /\ N > ExhaustiveMax) =>
    \A i \in best : ~Better(cost[LoopsOf(best \ {i})])

\* The exhaustive search: no mask that was tried is better than the best so far;
\* the phases of the GA are for other numbers of loops.
TriedIsNotBetter ==
  /\ phase = "exhaustive" =>
       \A bits \in 1 .. at - 1 : ~Better(cost[LoopsOf(MaskOf(bits))])
  /\ phase \in {"ga", "reenable", "greedy"} => ~(N > 1 /\ N <= ExhaustiveMax)
  /\ (phase = "selected" /\ N > 1 /\ N <= ExhaustiveMax) =>
       \A mask \in (SUBSET Positions) \ {{}} : ~Better(cost[LoopsOf(mask)])

IInv ==
  /\ TypeOK
  /\ CacheSound
  /\ Measured
  /\ BestIsMeasured
  /\ PrevalidationInv
  /\ PassedIsOptimal
  /\ SelectedIsOptimal
  /\ TriedIsNotBetter

\* The loops of a mask are loops, and a set of loops has an outcome.
LEMMA OutcomeOfMask ==
  ASSUME TypeOK, NEW mask \in SUBSET Positions
  PROVE  cost[LoopsOf(mask)] \in Outcomes
<1>1. \A i \in Positions : keys[i] \in Loops  BY DEF TypeOK, Positions, N
<1>2. LoopsOf(mask) \in SUBSET Loops  BY <1>1 DEF LoopsOf
<1> QED  BY <1>2 DEF TypeOK

LEMMA Numbers ==
  /\ Outcomes \subseteq Nat
  /\ CycleCounts \subseteq Nat \ {0}
  /\ Failed = 0 /\ 0 \in Outcomes
  /\ Cardinality(Loops) \in Nat /\ Cardinality(Loops) >= 1
  /\ ExhaustiveMax \in Nat \ {0}
BY LoopsAssumption, FS_CardinalityType, FS_EmptySet DEF Outcomes, Failed

\* With sound memory _eval_mask returns the outcome of the loops of the mask,
\* and remembering it keeps the memory sound.
LEMMA EvalIsOutcome ==
  ASSUME CacheSound, NEW mask
  PROVE  Eval(mask) = cost[LoopsOf(mask)]
BY DEF CacheSound, Eval

LEMMA RememberingIsSound ==
  ASSUME CacheSound, NEW masks, cache' = CacheWith(masks), UNCHANGED <<cost, keys>>
  PROVE  CacheSound'
<1>1. \A m \in DOMAIN cache' : cache'[m] = Eval(m)  BY DEF CacheWith
<1>2. \A m : Eval(m) = cost[LoopsOf(m)]  BY EvalIsOutcome
<1> QED  BY <1>1, <1>2 DEF CacheSound, LoopsOf

\* Remembering outcomes of masks keeps the type of the memory.
LEMMA RememberingIsTyped ==
  ASSUME TypeOK, CacheSound, NEW masks \in SUBSET SUBSET Positions,
         cache' = CacheWith(masks)
  PROVE  /\ DOMAIN cache' \subseteq SUBSET Loops
         /\ \A m \in DOMAIN cache' : cache'[m] \in Outcomes
<1>1. Positions \subseteq Loops
  BY Numbers, LoopsAssumption DEF TypeOK, Positions, N
<1>2. \A m \in masks : Eval(m) \in Outcomes  BY OutcomeOfMask, EvalIsOutcome
<1>3. \A m \in DOMAIN cache : Eval(m) \in Outcomes  BY DEF TypeOK, Eval
<1> QED  BY <1>1, <1>2, <1>3 DEF CacheWith, TypeOK

-----------------------------------------------------------------------------
(***************************************************************************)
(* The masks of the exhaustive search.  range(1, 2**N) goes through every  *)
(* non-empty set of positions: a set is written in binary, digit by digit. *)
(***************************************************************************)
\* A set of naturals has a least member.
LEMMA LeastNatural ==
  ASSUME NEW T \in SUBSET Nat, T # {}
  PROVE  \E x \in T : \A y \in T : x <= y
<1> DEFINE lt == {s \in Nat \X Nat : s[1] < s[2]}
<1>1. IsWellFoundedOn(lt, Nat)
  BY NatLessThanWellFounded DEF OpToRel
<1>2. PICK x \in T : \A y \in T : ~(<<y, x>> \in lt)
  BY <1>1, WFMin
<1>3. \A y \in T : ~(y < x)  BY <1>2
<1> QED  BY <1>3

\* A power of two is the number of sets of so many positions, which doubles
\* with each position: half of them have the new one.
LEMMA PowerIsNumberOfSets ==
  ASSUME NEW k \in Nat
  PROVE  /\ IsFiniteSet(SUBSET (1 .. k))
         /\ Cardinality(SUBSET (1 .. k)) = 2^k
         /\ 2^k \in Nat
<1>1. IsFiniteSet(1 .. k) /\ Cardinality(1 .. k) = k  BY FS_Interval
<1>2. IsFiniteSet(SUBSET (1 .. k)) /\ Cardinality(SUBSET (1 .. k)) = 2^k
  BY <1>1, FS_SUBSET
<1> QED  BY <1>2, FS_CardinalityType

LEMMA PowerDoubles == ASSUME NEW k \in Nat PROVE 2^(k + 1) = 2 * 2^k
<1> DEFINE Without == SUBSET (1 .. k)
           With == {s \cup {k + 1} : s \in Without}
           add == [s \in Without |-> s \cup {k + 1}]
<1>1. IsFiniteSet(Without) /\ Cardinality(Without) = 2^k /\ 2^k \in Nat
  BY PowerIsNumberOfSets
<1>2. \A s \in Without : k + 1 \notin s  OBVIOUS
<1>3. add \in Bijection(Without, With)
  <2>1. add \in [Without -> With]  OBVIOUS
  <2>2. \A s, t \in Without : add[s] = add[t] => s = t  BY <1>2
  <2>3. \A s \in With : \E t \in Without : add[t] = s  OBVIOUS
  <2> QED  BY <2>1, <2>2, <2>3 DEF Bijection, Injection, Surjection, IsInjective
<1>4. IsFiniteSet(With) /\ Cardinality(With) = 2^k
  BY <1>1, <1>3, FS_Bijection DEF ExistsBijection
<1>5. Without \cap With = {}  BY <1>2
<1>6. Without \cup With = SUBSET (1 .. k + 1)
  <2>1. 1 .. k \subseteq 1 .. k + 1 /\ k + 1 \in 1 .. k + 1  OBVIOUS
  <2>2. Without \cup With \subseteq SUBSET (1 .. k + 1)  BY <2>1
  <2>3. ASSUME NEW s \in SUBSET (1 .. k + 1) PROVE s \in Without \cup With
    <3>1. s \ {k + 1} \in Without  OBVIOUS
    <3>2. CASE k + 1 \in s
      <4>1. s = (s \ {k + 1}) \cup {k + 1}  BY <3>2
      <4> QED  BY <3>1, <4>1
    <3>3. CASE k + 1 \notin s
      <4>1. s = s \ {k + 1}  BY <3>3
      <4> QED  BY <3>1, <4>1
    <3> QED  BY <3>2, <3>3
  <2> QED  BY <2>2, <2>3
<1>7. Cardinality({}) = 0  BY FS_EmptySet
<1> HIDE DEF Without, With
<1>8. Cardinality(Without \cup With) = 2^k + 2^k - 0
  BY <1>1, <1>4, <1>5, <1>7, FS_Union
<1>9. Cardinality(SUBSET (1 .. k + 1)) = 2^(k + 1)
  <2>1. k + 1 \in Nat  OBVIOUS
  <2> QED  BY <2>1, PowerIsNumberOfSets
<1>10. 2^k + 2^k - 0 = 2 * 2^k  BY <1>1
<1> QED  BY <1>6, <1>8, <1>9, <1>10

LEMMA PowerPositive == \A k \in Nat : 2^k \in Nat \ {0}
<1> DEFINE Bad == {k \in Nat : 2^k \notin Nat \ {0}}
<1>1. SUFFICES ASSUME Bad # {} PROVE FALSE
  OBVIOUS
<1>2. PICK k \in Bad : \A j \in Bad : k <= j  BY <1>1, LeastNatural
<1>3. CASE k = 0  BY <1>2, <1>3
<1>4. CASE k # 0
  <2>1. k - 1 \in Nat /\ k - 1 \notin Bad  BY <1>2, <1>4
  <2>2. 2^(k - 1) \in Nat \ {0}  BY <2>1
  <2>3. 2^((k - 1) + 1) = 2 * 2^(k - 1)  BY <2>1, PowerDoubles
  <2>4. (k - 1) + 1 = k  BY <1>2
  <2> QED  BY <1>2, <2>2, <2>3, <2>4
<1> QED  BY <1>3, <1>4

\* Division is determined by its remainder.
LEMMA QuotientOf ==
  ASSUME NEW d \in Nat \ {0}, NEW q \in Nat, NEW r \in Nat, r < d
  PROVE  (q * d + r) \div d = q
  BY Z3

\* The digits above the last are those of half the number.
LEMMA HalfDigits ==
  ASSUME NEW b \in Nat, NEW e \in {0, 1}, NEW d \in Nat \ {0}
  PROVE  (2 * b + e) \div (2 * d) = b \div d
<1> DEFINE q == b \div d
           r == b % d
<1>1. q \in Nat /\ r \in Nat /\ r < d /\ b = q * d + r  BY Z3
<1> HIDE DEF q, r
<1>2. 2 * b + e = q * (2 * d) + (2 * r + e)  BY <1>1, Z3
<1>3. 2 * r + e \in Nat /\ 2 * r + e < 2 * d  BY <1>1
<1>4. 2 * d \in Nat \ {0}  OBVIOUS
<1>5. (q * (2 * d) + (2 * r + e)) \div (2 * d) = q  BY <1>1, <1>3, <1>4, QuotientOf
<1> QED  BY <1>2, <1>5 DEF q


\* Every non-empty set of positions is the mask of a number the search reaches.
LEMMA EverySetHasANumber ==
  ASSUME NEW k \in Nat, NEW s \in SUBSET (1 .. k)
  PROVE  \E b \in 0 .. 2^k - 1 : \A j \in 1 .. k : Bit(b, j) = 1 <=> j \in s
<1> DEFINE Numbered(n, t) ==
             \E b \in 0 .. 2^n - 1 : \A j \in 1 .. n : Bit(b, j) = 1 <=> j \in t
           Bad == {n \in Nat : \E t \in SUBSET (1 .. n) : ~Numbered(n, t)}
<1>1. SUFFICES ASSUME Bad # {} PROVE FALSE
  <2>1. k \notin Bad  OBVIOUS
  <2>2. Numbered(k, s)  BY <2>1
  <2> QED  BY <2>2
<1>2. PICK n \in Bad : \A m \in Bad : n <= m  BY <1>1, LeastNatural
<1>3. PICK t \in SUBSET (1 .. n) : ~Numbered(n, t)  BY <1>2
<1>4. CASE n = 0
  <2>1. 0 \in 0 .. 2^n - 1 /\ 1 .. n = {}  BY <1>4
  <2> QED  BY <1>3, <2>1
<1>5. CASE n # 0
  <2> DEFINE h == n - 1
             higher == {j \in 1 .. h : j + 1 \in t}
             e == IF 1 \in t THEN 1 ELSE 0
  <2>1. h \in Nat /\ h \notin Bad /\ h + 1 = n  BY <1>2, <1>5
  <2>2. Numbered(h, higher)  BY <2>1
  <2>3. PICK b \in 0 .. 2^h - 1 : \A j \in 1 .. h : Bit(b, j) = 1 <=> j \in higher
    BY <2>2
  <2>4. 2^h \in Nat \ {0} /\ 2^n = 2 * 2^h
    <3>1. 2^(h + 1) = 2 * 2^h  BY <2>1, PowerDoubles
    <3> QED  BY <2>1, <3>1, PowerPositive
  <2>5. b \in Nat /\ e \in {0, 1} /\ 2 * b + e \in 0 .. 2^n - 1  BY <2>3, <2>4
  <2>6. ASSUME NEW j \in 1 .. n PROVE Bit(2 * b + e, j) = 1 <=> j \in t
    <3>1. CASE j = 1
      <4>1. 2^(j - 1) = 1  BY <3>1
      <4>2. Bit(2 * b + e, j) = e  BY <2>5, <4>1 DEF Bit
      <4> QED  BY <3>1, <4>2
    <3>2. CASE j # 1
      <4> DEFINE i == j - 1
      <4>1. i \in 1 .. h /\ i - 1 \in Nat /\ (i - 1) + 1 = i  BY <2>1, <3>2
      <4>2. 2^i = 2 * 2^(i - 1) /\ 2^(i - 1) \in Nat \ {0}
        <5>1. 2^((i - 1) + 1) = 2 * 2^(i - 1)  BY <4>1, PowerDoubles
        <5> QED  BY <4>1, <5>1, PowerPositive
      <4> HIDE DEF e
      <4>3. (2 * b + e) \div (2 * 2^(i - 1)) = b \div 2^(i - 1)
        BY <2>5, <4>2, HalfDigits
      <4>4. Bit(2 * b + e, j) = Bit(b, i)  BY <4>2, <4>3 DEF Bit
      <4>5. Bit(b, i) = 1 <=> i \in higher  BY <2>3, <4>1
      <4>6. i \in higher <=> j \in t  BY <4>1
      <4> QED  BY <4>4, <4>5, <4>6
    <3> QED  BY <3>1, <3>2
  <2> QED  BY <1>3, <2>5, <2>6
<1> QED  BY <1>4, <1>5

LEMMA EveryMaskIsTried ==
  ASSUME N \in Nat, NEW mask \in SUBSET Positions, mask # {}
  PROVE  \E bits \in 1 .. 2^N - 1 : MaskOf(bits) = mask
<1>1. PICK b \in 0 .. 2^N - 1 : \A j \in 1 .. N : Bit(b, j) = 1 <=> j \in mask
  BY EverySetHasANumber DEF Positions
<1>2. MaskOf(b) = mask  BY <1>1 DEF MaskOf, Positions
<1>3. b # 0
  <2> SUFFICES ASSUME b = 0 PROVE FALSE
    OBVIOUS
  <2>1. PICK j \in 1 .. N : j \in mask  BY DEF Positions
  <2>2. 2^(j - 1) \in Nat \ {0}  BY <2>1, PowerPositive
  <2>3. (0 * 2^(j - 1) + 0) \div 2^(j - 1) = 0  BY <2>2, QuotientOf
  <2>4. 0 * 2^(j - 1) + 0 = 0  BY <2>2
  <2>5. 0 \div 2^(j - 1) = 0 /\ 0 % 2 = 0  BY <2>3, <2>4
  <2>6. Bit(0, j) = 0  BY <2>5, Zenon DEF Bit
  <2> QED  BY <1>1, <2>1, <2>6
<1>4. 2^N \in Nat  BY PowerPositive
<1> QED  BY <1>1, <1>2, <1>3, <1>4

-----------------------------------------------------------------------------
LEMMA InitIInv == Init => IInv
<1> SUFFICES ASSUME Init PROVE IInv
  OBVIOUS
<1> USE DEF Init
<1>1. keys \in Seq(Loops) /\ N = Cardinality(Loops)
  <2>1. keys \in [1 .. Cardinality(Loops) -> Loops]  BY LoopsAssumption
  <2> QED  BY <2>1, Numbers DEF N
<1>2. TypeOK
  <2>1. DOMAIN cache = {} /\ valid \in Seq(Loops)  BY DEF NoCache
  <2>2. /\ cost \in [SUBSET Loops -> Outcomes] /\ best \subseteq Loops
        /\ baseline \in Outcomes /\ allOn \in Outcomes
    BY Numbers
  <2>3. improved \in BOOLEAN  OBVIOUS
  <2>4. at \in Nat \ {0} /\ bestCost \in Nat /\ N <= Cardinality(Loops)
    BY <1>1, Numbers
  <2> QED  BY <1>1, <2>1, <2>2, <2>3, <2>4 DEF TypeOK
<1>3. CacheSound  BY DEF CacheSound, NoCache
<1> QED
  BY <1>2, <1>3 DEF IInv, Measured, BestIsMeasured, PrevalidationInv, PassedIsOptimal,
                    SelectedIsOptimal, TriedIsNotBetter, Searching

\* The memory stays sound: positions are only renumbered when it is cleared.
LEMMA NextCacheSound == ASSUME IInv, Next PROVE CacheSound'
<1> USE DEF IInv
<1>1. CASE Start  BY <1>1, RememberingIsSound DEF Start
<1>2. CASE Prevalidate  BY <1>2, RememberingIsSound DEF Prevalidate
<1>3. CASE KeepSurvivors
  <2>1. CASE valid = << >>
    <3>1. UNCHANGED <<keys, cache, cost>>  BY <1>3, <2>1 DEF KeepSurvivors
    <3> QED  BY <3>1 DEF CacheSound, LoopsOf
  <2>2. CASE valid # << >>
    <3>1. /\ keys' = Survivors /\ cost' = cost
          /\ \A m \in DOMAIN cache' : cache'[m] = cost[{Survivors[i] : i \in m}]
      BY <1>3, <2>2 DEF KeepSurvivors, CacheOfSurvivors, NoCache
    <3> QED  BY <3>1 DEF CacheSound, LoopsOf
  <2> QED  BY <2>1, <2>2
<1>4. CASE Exhaustive
  <2>1. cache' = cache \/ \E masks : cache' = CacheWith(masks)
    BY <1>4 DEF Exhaustive
  <2> QED  BY <1>4, <2>1, RememberingIsSound DEF Exhaustive, CacheSound, LoopsOf
<1>5. CASE Evolve  BY <1>5, RememberingIsSound DEF Evolve
<1>6. CASE ReEnable
  <2>1. cache' = cache \/ \E masks : cache' = CacheWith(masks)
    BY <1>6 DEF ReEnable, TryMask
  <2> QED  BY <1>6, <2>1, RememberingIsSound DEF ReEnable, CacheSound, LoopsOf
<1>7. CASE GreedyDisable
  <2>1. cache' = cache \/ \E masks : cache' = CacheWith(masks)
    BY <1>7 DEF GreedyDisable, TryMask
  <2> QED  BY <1>7, <2>1, RememberingIsSound DEF GreedyDisable, CacheSound, LoopsOf
<1>8. CASE ChooseTier  BY <1>8 DEF ChooseTier, CacheSound, LoopsOf
<1>9. CASE EndEvolution  BY <1>9 DEF EndEvolution, CacheSound, LoopsOf
<1>10. CASE GreedyPassEnds  BY <1>10 DEF GreedyPassEnds, CacheSound, LoopsOf
<1>11. CASE TimesOut  BY <1>11 DEF TimesOut, CacheSound, LoopsOf
<1> QED
  BY <1>1, <1>2, <1>3, <1>4, <1>5, <1>6, <1>7, <1>8, <1>9, <1>10, <1>11 DEF Next

\* Trying a mask of positions changes the memory and the best so far by type.
LEMMA TryMaskTyped ==
  ASSUME IInv, NEW mask \in SUBSET Positions, TryMask(mask)
  PROVE  /\ DOMAIN cache' \subseteq SUBSET Loops
         /\ \A m \in DOMAIN cache' : cache'[m] \in Outcomes
         /\ best' \subseteq Loops /\ bestCost' \in Nat
<1>1. Positions \subseteq Loops
  BY Numbers, LoopsAssumption DEF IInv, TypeOK, Positions, N
<1>2. Eval(mask) \in Nat  BY OutcomeOfMask, EvalIsOutcome, Numbers DEF IInv
<1>3. {mask} \in SUBSET SUBSET Positions  OBVIOUS
<1>4. cache' = CacheWith({mask})  BY DEF TryMask
<1>5. /\ DOMAIN cache' \subseteq SUBSET Loops
      /\ \A m \in DOMAIN cache' : cache'[m] \in Outcomes
  BY <1>3, <1>4, RememberingIsTyped DEF IInv
<1> QED  BY <1>1, <1>2, <1>5 DEF TryMask, IInv, TypeOK

LEMMA NextTypeOK == ASSUME IInv, Next PROVE TypeOK'
<1> USE DEF IInv
<1>1. Positions \subseteq Loops /\ N \in Nat /\ N <= Cardinality(Loops)
  BY Numbers, LoopsAssumption DEF TypeOK, Positions, N
<1>2. CASE Start
  <2>1. {{}, Positions} \in SUBSET SUBSET Positions /\ {{}} \in SUBSET SUBSET Positions
    OBVIOUS
  <2>2. Eval({}) \in Outcomes /\ Eval(Positions) \in Outcomes
    BY OutcomeOfMask, EvalIsOutcome
  <2>3. /\ DOMAIN cache' \subseteq SUBSET Loops
        /\ \A m \in DOMAIN cache' : cache'[m] \in Outcomes
    BY <1>2, <2>1, RememberingIsTyped DEF Start
  <2> QED  BY <1>2, <2>2, <2>3 DEF Start, TypeOK, N
<1>3. CASE Prevalidate
  <2>1. at \in Positions  BY <1>3, <1>1 DEF Prevalidate, PrevalidationInv, Positions, TypeOK
  <2>2. {{at}} \in SUBSET SUBSET Positions  BY <2>1
  <2>3. /\ DOMAIN cache' \subseteq SUBSET Loops
        /\ \A m \in DOMAIN cache' : cache'[m] \in Outcomes
    BY <1>3, <2>2, RememberingIsTyped DEF Prevalidate
  <2>4. valid' \in Seq(Loops)  BY <1>3, <1>1, <2>1 DEF Prevalidate, TypeOK
  <2>5. /\ at' = at + 1
        /\ UNCHANGED <<phase, cost, keys, baseline, allOn, best, bestCost, improved>>
    BY <1>3 DEF Prevalidate
  <2> QED  BY <2>3, <2>4, <2>5 DEF TypeOK, N
<1>4. CASE KeepSurvivors
  <2>1. CASE valid = << >>
    BY <1>4, <2>1 DEF KeepSurvivors, TypeOK, N
  <2>2. CASE valid # << >>
    <3>1. Len(valid) \in Nat /\ Len(valid) <= N
      BY <1>4, <1>1 DEF KeepSurvivors, PrevalidationInv, TypeOK
    <3>2. \A j \in 1 .. Len(valid) : keys[valid[j]] \in Loops
      BY <1>4 DEF KeepSurvivors, PrevalidationInv, TypeOK, Positions, N
    <3>3. Survivors \in Seq(Loops) /\ Len(Survivors) = Len(valid)
      <4>1. Survivors \in [1 .. Len(valid) -> Loops]  BY <3>2 DEF Survivors
      <4> QED  BY <4>1, <3>1
    <3> DEFINE outcome(mask) == cost[{Survivors[i] : i \in mask}]
               all == 1 .. Len(valid)
    <3>4. outcome({}) \in Outcomes /\ outcome(all) \in Outcomes
      BY <3>3 DEF TypeOK
    <3>5. {} \in SUBSET Loops /\ all \in SUBSET Loops
      BY <3>1, <1>1, LoopsAssumption, Numbers
    <3>6. /\ keys' = Survivors /\ baseline' = outcome({}) /\ allOn' = outcome(all)
          /\ DOMAIN cache' = {{}, all}
          /\ \A m \in DOMAIN cache' : cache'[m] = outcome(m)
          /\ phase' \in {"none", "tiers"}
      BY <1>4, <2>2 DEF KeepSurvivors, CacheOfSurvivors, NoCache
    <3>7. DOMAIN cache' \subseteq SUBSET Loops  BY <3>5, <3>6
    <3>8. \A m \in DOMAIN cache' : cache'[m] \in Outcomes  BY <3>4, <3>6
    <3>9. keys' \in Seq(Loops) /\ N' <= Cardinality(Loops)
      BY <3>1, <3>3, <3>6, <1>1, Numbers DEF N
    <3> HIDE DEF outcome, all
    <3> QED  BY <1>4, <3>4, <3>6, <3>7, <3>8, <3>9 DEF KeepSurvivors, TypeOK
  <2> QED  BY <2>1, <2>2
<1>5. CASE ChooseTier
  BY <1>5, <1>1, Numbers DEF ChooseTier, TypeOK, N
<1>6. CASE Exhaustive
  <2> DEFINE mask == MaskOf(at + ExhaustiveFirst - 1)
  <2>1. mask \in SUBSET Positions  BY DEF MaskOf
  <2>2. {mask} \in SUBSET SUBSET Positions  BY <2>1
  <2>3. Eval(mask) \in Nat  BY <2>1, OutcomeOfMask, EvalIsOutcome, Numbers
  <2>4. cache' = cache \/ cache' = CacheWith({mask})  BY <1>6 DEF Exhaustive
  <2>5. /\ DOMAIN cache' \subseteq SUBSET Loops
        /\ \A m \in DOMAIN cache' : cache'[m] \in Outcomes
    BY <2>2, <2>4, RememberingIsTyped DEF TypeOK
  <2>6. /\ best' \in {best, mask} /\ bestCost' \in {bestCost, Eval(mask)}
        /\ at' \in {at, at + 1} /\ phase' \in {phase, "selected"}
        /\ UNCHANGED <<cost, keys, valid, baseline, allOn, improved>>
    BY <1>6 DEF Exhaustive
  <2> HIDE DEF mask
  <2> QED  BY <2>1, <2>3, <2>5, <2>6, <1>1 DEF TypeOK, N
<1>7. CASE Evolve
  <2> PICK mask \in SUBSET Positions :
         best' = mask /\ bestCost' = Score(mask) /\ cache' = CacheWith({mask})
    BY <1>7 DEF Evolve
  <2>1. Score(mask) \in Nat
    <3>1. Eval(mask) \in Nat  BY OutcomeOfMask, EvalIsOutcome, Numbers
    <3>2. 2 * baseline \in Nat  BY Numbers DEF TypeOK
    <3> QED  BY <3>1, <3>2 DEF Score
  <2>2. {mask} \in SUBSET SUBSET Positions  OBVIOUS
  <2>3. /\ DOMAIN cache' \subseteq SUBSET Loops
        /\ \A m \in DOMAIN cache' : cache'[m] \in Outcomes
    BY <2>2, RememberingIsTyped
  <2> QED  BY <1>7, <1>1, <2>1, <2>3 DEF Evolve, TypeOK, N
<1>8. CASE EndEvolution  BY <1>8 DEF EndEvolution, TypeOK, N
<1>9. CASE ReEnable
  <2>1. CASE at <= N /\ at \notin best
    <3>1. best \cup {at} \in SUBSET Positions
      BY <1>9, <2>1, <1>1 DEF ReEnable, Measured, Searching, Positions, TypeOK
    <3>2. TryMask(best \cup {at})  BY <1>9, <2>1 DEF ReEnable
    <3>3. /\ UNCHANGED <<phase, cost, keys, valid, baseline, allOn>>
          /\ at' = at + 1 /\ improved' \in BOOLEAN
      BY <1>9, <2>1 DEF ReEnable
    <3> QED  BY <1>1, <3>1, <3>2, <3>3, TryMaskTyped DEF TypeOK, N
  <2>2. CASE at > N \/ at \in best
    <3>1. /\ UNCHANGED <<cost, keys, valid, baseline, allOn>>
          /\ at' \in {1, at + 1} /\ phase' \in {phase, "greedy"}
      BY <1>9 DEF ReEnable
    <3>2. UNCHANGED <<cache, best, bestCost>>
      BY <1>9, <1>1, <2>2 DEF ReEnable, TypeOK
    <3>3. improved' \in BOOLEAN  BY <1>9 DEF ReEnable
    <3> QED  BY <3>1, <3>2, <3>3, <1>1 DEF TypeOK, N
  <2> QED  BY <2>1, <2>2, <1>1 DEF TypeOK
<1>10. CASE GreedyDisable
  <2>1. /\ UNCHANGED <<phase, cost, keys, valid, baseline, allOn>>
        /\ at' = at + 1 /\ improved' \in BOOLEAN
    BY <1>10 DEF GreedyDisable, TypeOK
  <2>2. CASE at \in best
    <3>1. best \ {at} \in SUBSET Positions
      BY <1>10 DEF GreedyDisable, Measured, Searching
    <3>2. TryMask(best \ {at})  BY <1>10, <2>2 DEF GreedyDisable
    <3> QED  BY <1>1, <2>1, <3>1, <3>2, TryMaskTyped DEF TypeOK, N
  <2>3. CASE at \notin best
    <3>1. UNCHANGED <<cache, best, bestCost>>  BY <1>10, <2>3 DEF GreedyDisable
    <3> QED  BY <1>1, <2>1, <3>1 DEF TypeOK, N
  <2> QED  BY <2>2, <2>3
<1>11. CASE GreedyPassEnds
  <2>1. /\ UNCHANGED <<cost, keys, cache, valid, baseline, allOn, best, bestCost>>
        /\ at' \in {1, at} /\ phase' \in {phase, "selected"} /\ improved' \in BOOLEAN
    BY <1>11 DEF GreedyPassEnds, TypeOK, ImprovedAtPassStart
  <2> QED  BY <2>1, <1>1 DEF TypeOK, N
<1>12. CASE TimesOut  BY <1>12, <1>1 DEF TimesOut, TypeOK, N
<1> QED
  BY <1>2, <1>3, <1>4, <1>5, <1>6, <1>7, <1>8, <1>9, <1>10, <1>11, <1>12 DEF Next

\* What the search knows of all loops together, and where it may be.
LEMMA NextMeasured == ASSUME IInv, Next PROVE Measured' /\ PrevalidationInv'
<1> USE DEF IInv
<1>1. N \in Nat  BY DEF TypeOK, N
<1>2. CASE Start
  <2>1. Eval(Positions) = cost[LoopsOf(Positions)]  BY EvalIsOutcome
  <2> QED
    BY <1>1, <1>2, <2>1
    DEF Start, Measured, PrevalidationInv, Searching, LoopsOf, Positions, N
<1>3. CASE Prevalidate
  <2>1. at \in Positions  BY <1>1, <1>3 DEF Prevalidate, Positions, TypeOK
  <2>2. valid' = valid \/ valid' = Append(valid, at)  BY <1>3 DEF Prevalidate
  <2>3. /\ Len(valid') <= Len(valid) + 1
        /\ \A j \in 1 .. Len(valid') : valid'[j] \in Positions
    BY <1>3, <2>1, <2>2 DEF Prevalidate, PrevalidationInv, TypeOK
  <2> QED
    BY <1>1, <1>3, <2>3 DEF Prevalidate, Measured, PrevalidationInv, Searching, Positions,
                            N, TypeOK
<1>4. CASE KeepSurvivors
  <2>1. CASE valid = << >>
    BY <1>4, <2>1 DEF KeepSurvivors, Measured, PrevalidationInv, Searching
  <2>2. CASE valid # << >>
    <3>1. /\ keys' = Survivors /\ cost' = cost
          /\ allOn' = cost[{Survivors[i] : i \in 1 .. Len(valid)}]
          /\ phase' \in {"none", "tiers"}
          /\ phase' = "tiers" => allOn' # Failed
      BY <1>4, <2>2 DEF KeepSurvivors, CacheOfSurvivors, NoCache
    <3>2. Len(Survivors) = Len(valid)  BY DEF Survivors, TypeOK
    <3> QED  BY <3>1, <3>2 DEF Measured, PrevalidationInv, Searching, LoopsOf, Positions, N
  <2> QED  BY <2>1, <2>2
<1>5. CASE ChooseTier
  BY <1>1, <1>5 DEF ChooseTier, Measured, PrevalidationInv, Searching, LoopsOf, Positions, N
<1>6. CASE Exhaustive
  <2>1. /\ phase = "exhaustive" /\ phase' \in {"exhaustive", "selected"}
        /\ best' = best \/ best' \subseteq Positions
        /\ UNCHANGED <<keys, cost, allOn, valid>>
    BY <1>6 DEF Exhaustive, MaskOf
  <2> QED  BY <2>1 DEF Measured, PrevalidationInv, Searching, LoopsOf, Positions, N
<1>7. CASE Evolve
  BY <1>7 DEF Evolve, Measured, PrevalidationInv, Searching, LoopsOf, Positions, N
<1>8. CASE EndEvolution
  BY <1>8 DEF EndEvolution, Measured, PrevalidationInv, Searching, LoopsOf, Positions, N
<1>9. CASE ReEnable
  <2>1. /\ phase = "reenable" /\ phase' \in {"reenable", "greedy"}
        /\ best' = best \/ (at <= N /\ best' = best \cup {at})
        /\ UNCHANGED <<keys, cost, allOn, valid>>
    BY <1>9 DEF ReEnable, TryMask
  <2>2. best' \subseteq Positions
    BY <1>1, <2>1 DEF Measured, Searching, Positions, TypeOK
  <2> QED  BY <2>1, <2>2 DEF Measured, PrevalidationInv, Searching, LoopsOf, Positions, N
<1>10. CASE GreedyDisable
  <2>1. /\ phase = "greedy" /\ phase' = "greedy" /\ best' \subseteq best
        /\ UNCHANGED <<keys, cost, allOn, valid>>
    BY <1>10 DEF GreedyDisable, TryMask
  <2> QED  BY <2>1 DEF Measured, PrevalidationInv, Searching, LoopsOf, Positions, N
<1>11. CASE GreedyPassEnds
  BY <1>11 DEF GreedyPassEnds, Measured, PrevalidationInv, Searching, LoopsOf, Positions, N
<1>12. CASE TimesOut
  BY <1>12 DEF TimesOut, Measured, PrevalidationInv, Searching
<1> QED
  BY <1>2, <1>3, <1>4, <1>5, <1>6, <1>7, <1>8, <1>9, <1>10, <1>11, <1>12 DEF Next

\* best_cost stays measured: a mask is adopted only with its own cost.
LEMMA NextBestIsMeasured == ASSUME IInv, Next PROVE BestIsMeasured'
<1> USE DEF IInv
<1> DEFINE Good(mask, outcome) ==
      outcome = cost[LoopsOf(mask)] /\ outcome # Failed /\ outcome <= allOn
<1>1. /\ allOn \in Nat /\ baseline \in Nat /\ bestCost \in Nat /\ Failed = 0
      /\ \A mask \in SUBSET Positions : cost[LoopsOf(mask)] \in Nat
  BY Numbers, OutcomeOfMask DEF TypeOK
<1>2. \A mask : Eval(mask) = cost[LoopsOf(mask)]  BY EvalIsOutcome
<1>3. ASSUME phase \in Searching, phase' \in Searching,
             UNCHANGED <<cost, keys, allOn, baseline>>,
             \/ UNCHANGED <<best, bestCost>>
             \/ \E mask \in SUBSET Positions :
                  best' = mask /\ bestCost' = Eval(mask) /\ Better(Eval(mask))
      PROVE  BestIsMeasured'
  <2>1. \A mask : LoopsOf(mask)' = LoopsOf(mask)  BY <1>3 DEF LoopsOf
  <2>2. CASE UNCHANGED <<best, bestCost>>
    BY <1>3, <2>1, <2>2 DEF BestIsMeasured, Searching
  <2>3. CASE \E mask \in SUBSET Positions :
               best' = mask /\ bestCost' = Eval(mask) /\ Better(Eval(mask))
    <3> PICK mask \in SUBSET Positions :
           best' = mask /\ bestCost' = Eval(mask) /\ Better(Eval(mask))
      BY <2>3
    <3>1. Eval(mask) = cost[LoopsOf(mask)] /\ cost[LoopsOf(mask)] \in Nat
      BY <1>1, <1>2
    <3>2. bestCost' # Failed /\ bestCost' < bestCost  BY DEF Better
    <3>3. allOn <= 2 * baseline => bestCost <= allOn  BY <1>3 DEF BestIsMeasured, Searching
    <3>4. bestCost' = (cost[LoopsOf(best)])'  BY <1>3, <2>1, <3>1
    <3>5. bestCost' \in Nat  BY <3>1
    <3>6. allOn <= 2 * baseline => bestCost' <= allOn  BY <1>1, <3>2, <3>3, <3>5
    <3> QED  BY <1>3, <3>2, <3>4, <3>6 DEF BestIsMeasured
  <2> QED  BY <1>3, <2>2, <2>3
<1>4. CASE Start  BY <1>4 DEF Start, BestIsMeasured
<1>5. CASE Prevalidate  BY <1>5 DEF Prevalidate, BestIsMeasured
<1>6. CASE KeepSurvivors
  <2>1. phase' \in {"prevalidate", "none", "tiers"}  BY <1>6 DEF KeepSurvivors
  <2> QED  BY <2>1 DEF BestIsMeasured
<1>7. CASE ChooseTier
  <2>1. /\ best' = Positions /\ bestCost' = allOn
        /\ UNCHANGED <<cost, keys, allOn, baseline>>
    BY <1>7 DEF ChooseTier
  <2>2. allOn = cost[LoopsOf(Positions)] /\ allOn # Failed  BY <1>7 DEF ChooseTier, Measured
  <2> QED  BY <1>1, <2>1, <2>2 DEF BestIsMeasured, LoopsOf
<1>8. CASE Exhaustive
  <2>1. MaskOf(at + ExhaustiveFirst - 1) \in SUBSET Positions  BY DEF MaskOf
  <2>2. /\ phase \in Searching /\ phase' \in Searching
        /\ UNCHANGED <<cost, keys, allOn, baseline>>
    BY <1>8 DEF Exhaustive, Searching
  <2>3. \/ UNCHANGED <<best, bestCost>>
        \/ \E mask \in SUBSET Positions :
             best' = mask /\ bestCost' = Eval(mask) /\ Better(Eval(mask))
    BY <1>8, <2>1 DEF Exhaustive
  <2> QED  BY <2>2, <2>3, <1>3
<1>9. CASE Evolve
  <2> PICK mask \in SUBSET Positions :
         best' = mask /\ bestCost' = Score(mask) /\ Score(mask) < bestCost
    BY <1>9 DEF Evolve
  <2>1. UNCHANGED <<cost, keys, allOn, baseline>> /\ phase = "ga"  BY <1>9 DEF Evolve
  <2>2. CASE Eval(mask) = Failed /\ allOn <= 2 * baseline
    BY <1>1, <2>1, <2>2 DEF BestIsMeasured, Score
  <2>3. CASE Eval(mask) # Failed
    <3>1. Better(Eval(mask)) /\ bestCost' = Eval(mask)  BY <2>3 DEF Score, Better
    <3>2. phase' \in Searching /\ phase \in Searching  BY <1>9 DEF Evolve, Searching
    <3> QED  BY <2>1, <3>1, <3>2, <1>3
  <2> QED  BY <2>1, <2>2, <2>3 DEF BestIsMeasured
<1>10. CASE EndEvolution  BY <1>10, <1>3 DEF EndEvolution, Searching
<1>11. CASE ReEnable
  <2>1. /\ phase \in Searching /\ phase' \in Searching
        /\ UNCHANGED <<cost, keys, allOn, baseline>>
    BY <1>11 DEF ReEnable, Searching
  <2>2. at <= N => best \cup {at} \in SUBSET Positions
    BY <1>11, <2>1 DEF Measured, Positions, TypeOK, N
  <2>3. \/ UNCHANGED <<best, bestCost>>
        \/ \E mask \in SUBSET Positions :
             best' = mask /\ bestCost' = Eval(mask) /\ Better(Eval(mask))
    BY <1>11, <2>2 DEF ReEnable, TryMask
  <2> QED  BY <2>1, <2>3, <1>3
<1>12. CASE GreedyDisable
  <2>1. /\ phase \in Searching /\ phase' \in Searching
        /\ UNCHANGED <<cost, keys, allOn, baseline>>
    BY <1>12 DEF GreedyDisable, Searching
  <2>2. best \ {at} \in SUBSET Positions  BY <2>1 DEF Measured
  <2>3. \/ UNCHANGED <<best, bestCost>>
        \/ \E mask \in SUBSET Positions :
             best' = mask /\ bestCost' = Eval(mask) /\ Better(Eval(mask))
    BY <1>12, <2>2 DEF GreedyDisable, TryMask
  <2> QED  BY <2>1, <2>3, <1>3
<1>13. CASE GreedyPassEnds  BY <1>13, <1>3 DEF GreedyPassEnds, Searching
<1>14. CASE TimesOut  BY <1>14 DEF TimesOut, BestIsMeasured
<1> QED
  BY <1>4, <1>5, <1>6, <1>7, <1>8, <1>9, <1>10, <1>11, <1>12, <1>13, <1>14 DEF Next

\* The greedy phase: a loop that was passed over stays not worth disabling as
\* long as the pass changes nothing, and the last pass changes nothing.
LEMMA NextOptimal == ASSUME IInv, Next PROVE PassedIsOptimal' /\ SelectedIsOptimal'
<1> USE DEF IInv
<1>1. \A mask : Eval(mask) = cost[LoopsOf(mask)]  BY EvalIsOutcome
<1>2. N \in Nat /\ at \in Nat /\ ExhaustiveMax \in Nat \ {0}  BY Numbers DEF TypeOK, N
<1>3. CASE phase = "greedy" /\ GreedyDisable
  <2>1. /\ UNCHANGED <<phase, keys, cost>> /\ at' = at + 1
    BY <1>3 DEF GreedyDisable
  <2>2. SelectedIsOptimal'  BY <1>3, <2>1 DEF SelectedIsOptimal
  <2>3. CASE bestCost' # bestCost
    <3>1. improved'  BY <1>3, <2>3 DEF GreedyDisable
    <3> QED  BY <3>1, <2>2 DEF PassedIsOptimal
  <2>4. CASE bestCost' = bestCost
    <3>1. improved' = improved  BY <1>3, <2>4 DEF GreedyDisable, TypeOK
    <3>2. /\ best' = best
          /\ at \in best => ~Better(cost[LoopsOf(best \ {at})])
      <4>1. CASE at \notin best  BY <1>3, <4>1 DEF GreedyDisable
      <4>2. CASE at \in best
        <5>1. TryMask(best \ {at})  BY <1>3, <4>2 DEF GreedyDisable
        <5>2. ~Better(Eval(best \ {at}))
          <6> SUFFICES ASSUME Better(Eval(best \ {at})) PROVE FALSE
            OBVIOUS
          <6>1. bestCost' = Eval(best \ {at})  BY <5>1 DEF TryMask
          <6>2. Eval(best \ {at}) < bestCost  BY DEF Better
          <6> QED  BY <6>1, <6>2, <2>4 DEF TypeOK
        <5> QED  BY <5>1, <5>2, <1>1 DEF TryMask
      <4> QED  BY <4>1, <4>2
    <3>3. \A i \in best' : i < at' => i < at \/ i = at
      BY <1>2, <1>3, <2>1, <3>2 DEF Measured, Searching, Positions
    <3>4. PassedIsOptimal'
      BY <2>1, <2>4, <3>1, <3>2, <3>3, <1>3 DEF PassedIsOptimal, Better, LoopsOf
    <3> QED  BY <2>2, <3>4
  <2> QED  BY <2>3, <2>4
<1>4. CASE GreedyPassEnds
  <2>1. /\ phase = "greedy" /\ at = N + 1
        /\ UNCHANGED <<cost, keys, best, bestCost>>
    BY <1>4 DEF GreedyPassEnds
  <2>2. \A i \in best : i < at /\ ~(i < 1)
    BY <1>2, <2>1 DEF Measured, Searching, Positions
  <2>3. CASE improved
    <3>1. at' = 1 /\ phase' = "greedy"  BY <1>4, <2>1, <2>3 DEF GreedyPassEnds, GoAgain
    <3> QED  BY <2>1, <2>2, <3>1 DEF PassedIsOptimal, SelectedIsOptimal
  <2>4. CASE ~improved
    <3>1. phase' = "selected"  BY <1>4, <2>4 DEF GreedyPassEnds, GoAgain
    <3> QED
      BY <2>1, <2>2, <2>4, <3>1 DEF PassedIsOptimal, SelectedIsOptimal, Better, LoopsOf
  <2> QED  BY <2>3, <2>4
<1>5. CASE ReEnable
  <2>1. CASE phase' = "greedy"
    <3>1. at' = 1 /\ UNCHANGED <<best, cost, keys>>
      BY <1>5, <2>1 DEF ReEnable
    <3>2. \A i \in best : ~(i < 1)  BY <1>5 DEF ReEnable, Measured, Searching, Positions
    <3> QED  BY <2>1, <3>1, <3>2 DEF PassedIsOptimal, SelectedIsOptimal
  <2>2. CASE phase' = "reenable"  BY <2>2 DEF PassedIsOptimal, SelectedIsOptimal
  <2> QED  BY <1>5, <2>1, <2>2 DEF ReEnable
<1>6. CASE ChooseTier
  <2>1. keys' = keys /\ phase' # "greedy" /\ (phase' = "selected" => N = 1)
    BY <1>2, <1>6 DEF ChooseTier
  <2>2. N' = N /\ (N = 1 => ~(N > ExhaustiveMax))  BY <1>2, <2>1 DEF N
  <2> QED  BY <2>1, <2>2 DEF PassedIsOptimal, SelectedIsOptimal
<1>7. CASE Exhaustive
  <2>1. keys' = keys /\ phase' # "greedy" /\ N <= ExhaustiveMax
    BY <1>7 DEF Exhaustive, Measured
  <2>2. N' = N /\ ~(N > ExhaustiveMax)  BY <1>2, <2>1 DEF N
  <2> QED  BY <2>1, <2>2 DEF PassedIsOptimal, SelectedIsOptimal
<1>8. CASE Start \/ Prevalidate \/ KeepSurvivors \/ Evolve \/ EndEvolution \/ TimesOut
  <2>1. phase' \in {"prevalidate", "tiers", "none", "ga", "reenable", "raised"}
    BY <1>8 DEF Start, Prevalidate, KeepSurvivors, Evolve, EndEvolution, TimesOut
  <2> QED  BY <2>1 DEF PassedIsOptimal, SelectedIsOptimal
<1>9. GreedyDisable => phase = "greedy"  BY DEF GreedyDisable
<1> QED  BY <1>3, <1>4, <1>5, <1>6, <1>7, <1>8, <1>9 DEF Next

\* The exhaustive search compares every mask it tries with the best so far, and
\* the best only gets better.
LEMMA NextTriedIsNotBetter == ASSUME IInv, Next PROVE TriedIsNotBetter'
<1> USE DEF IInv
<1>1. \A mask : Eval(mask) = cost[LoopsOf(mask)]  BY EvalIsOutcome
<1>2. N \in Nat /\ at \in Nat \ {0} /\ bestCost \in Nat  BY DEF TypeOK, N
<1>3. CASE Exhaustive
  <2> DEFINE mask == MaskOf(at)
  <2>1. /\ phase = "exhaustive" /\ UNCHANGED <<keys, cost>>
        /\ at + ExhaustiveFirst - 1 = at
    BY <1>2, <1>3 DEF Exhaustive, ExhaustiveFirst
  <2>2. \A m : LoopsOf(m)' = LoopsOf(m)  BY <2>1 DEF LoopsOf
  <2>3. N' = N /\ Positions' = Positions /\ \A b : MaskOf(b)' = MaskOf(b)
    BY <2>1 DEF N, Positions, MaskOf
  <2>4. CASE at < 2^N
    <3>1. /\ at' = at + 1 /\ phase' = "exhaustive"
          /\ IF Better(Eval(mask)) THEN bestCost' = Eval(mask) ELSE bestCost' = bestCost
      BY <1>3, <2>1, <2>4 DEF Exhaustive
    <3>2. mask \in SUBSET Positions  BY DEF MaskOf
    <3>3. cost[LoopsOf(mask)] \in Nat  BY <3>2, OutcomeOfMask, Numbers
    <3>4. bestCost' \in Nat /\ bestCost' <= bestCost
      BY <1>1, <1>2, <3>1, <3>3 DEF Better
    <3>5. ASSUME NEW bits \in 1 .. at' - 1
          PROVE  ~(cost[LoopsOf(MaskOf(bits))] # Failed
                     /\ cost[LoopsOf(MaskOf(bits))] < bestCost')
      <4>1. cost[LoopsOf(MaskOf(bits))] \in Nat
        <5>1. MaskOf(bits) \in SUBSET Positions  BY DEF MaskOf
        <5> QED  BY <5>1, OutcomeOfMask, Numbers
      <4>2. CASE bits = at
        BY <1>1, <1>2, <3>1, <3>3, <4>1, <4>2 DEF Better
      <4>3. CASE bits # at
        <5>1. bits \in 1 .. at - 1  BY <1>2, <3>1, <4>3
        <5>2. ~Better(cost[LoopsOf(MaskOf(bits))])  BY <2>1, <5>1 DEF TriedIsNotBetter
        <5> QED  BY <1>2, <3>4, <4>1, <5>2 DEF Better
      <4> QED  BY <4>2, <4>3
    <3>6. \A bits \in 1 .. at' - 1 : ~(Better(cost[LoopsOf(MaskOf(bits))])')
      <4>1. \A bits : (cost[LoopsOf(MaskOf(bits))])' = cost[LoopsOf(MaskOf(bits))]
        BY <2>1, <2>2, <2>3
      <4> QED  BY <3>5, <4>1 DEF Better
    <3> QED  BY <3>1, <3>6 DEF TriedIsNotBetter
  <2>5. CASE ~(at < 2^N)
    <3>1. phase' = "selected" /\ UNCHANGED <<best, bestCost>>
      BY <1>3, <2>1, <2>5 DEF Exhaustive
    <3>2. ASSUME NEW m \in (SUBSET Positions) \ {{}} PROVE ~Better(cost[LoopsOf(m)])
      <4>1. m \in SUBSET Positions /\ m # {}  OBVIOUS
      <4>2. PICK bits \in 1 .. 2^N - 1 : MaskOf(bits) = m
        BY <1>2, <4>1, EveryMaskIsTried
      <4>3. 2^N \in Nat  BY <1>2, PowerPositive
      <4>4. bits \in 1 .. at - 1  BY <1>2, <2>5, <4>3
      <4> QED  BY <2>1, <4>2, <4>4 DEF TriedIsNotBetter
    <3>3. \A m \in (SUBSET Positions) \ {{}} : ~(Better(cost[LoopsOf(m)])')
      BY <2>1, <2>2, <3>1, <3>2 DEF Better
    <3> QED  BY <2>3, <3>1, <3>3 DEF TriedIsNotBetter
  <2> QED  BY <2>4, <2>5
<1>4. CASE ChooseTier
  <2>1. N' = N /\ Positions' = Positions  BY <1>4 DEF ChooseTier, N, Positions
  <2>2. CASE phase' = "exhaustive"
    <3>1. at' = 1  BY <1>4 DEF ChooseTier
    <3> QED  BY <2>2, <3>1 DEF TriedIsNotBetter
  <2>3. CASE phase' = "selected" \/ phase' = "ga"
    <3>1. (phase' = "selected" => N = 1) /\ (phase' = "ga" => ~(N > 1 /\ N <= ExhaustiveMax))
      BY <1>2, <1>4, <2>3 DEF ChooseTier
    <3> QED  BY <2>1, <2>3, <3>1 DEF TriedIsNotBetter
  <2> QED  BY <1>4, <2>2, <2>3 DEF ChooseTier
<1>5. CASE Evolve \/ EndEvolution \/ ReEnable \/ GreedyDisable \/ GreedyPassEnds
  <2>1. /\ phase \in {"ga", "reenable", "greedy"} /\ keys' = keys
        /\ phase' \in {"ga", "reenable", "greedy", "selected"}
    BY <1>5 DEF Evolve, EndEvolution, ReEnable, GreedyDisable, GreedyPassEnds
  <2>2. N' = N  BY <2>1 DEF N
  <2> QED  BY <2>1, <2>2 DEF TriedIsNotBetter
<1>6. CASE Start \/ Prevalidate \/ KeepSurvivors \/ TimesOut
  <2>1. phase' \in {"prevalidate", "tiers", "none", "raised"}
    BY <1>6 DEF Start, Prevalidate, KeepSurvivors, TimesOut
  <2> QED  BY <2>1 DEF TriedIsNotBetter
<1> QED  BY <1>3, <1>4, <1>5, <1>6 DEF Next

-----------------------------------------------------------------------------
\* The invariant is inductive.
THEOREM Invariant == Spec => []IInv
<1>1. IInv /\ [Next]_vars => IInv'
  <2> SUFFICES ASSUME IInv, [Next]_vars PROVE IInv'
    OBVIOUS
  <2>1. CASE Next
    BY <2>1, NextCacheSound, NextTypeOK, NextMeasured, NextBestIsMeasured, NextOptimal,
       NextTriedIsNotBetter
    DEF IInv
  <2>2. CASE UNCHANGED vars
    <3> USE <2>2 DEF vars, IInv
    <3>1. TypeOK'  BY DEF TypeOK, N
    <3>2. CacheSound'  BY DEF CacheSound, LoopsOf
    <3>3. Measured' /\ PrevalidationInv'
      BY DEF Measured, PrevalidationInv, LoopsOf, Positions, N
    <3>4. BestIsMeasured'  BY DEF BestIsMeasured, LoopsOf
    <3>5. PassedIsOptimal'  BY DEF PassedIsOptimal, LoopsOf, Better
    <3>6. SelectedIsOptimal'  BY DEF SelectedIsOptimal, LoopsOf, Better, N
    <3>7. TriedIsNotBetter'
      BY DEF TriedIsNotBetter, LoopsOf, Better, N, Positions, MaskOf
    <3> QED  BY <3>1, <3>2, <3>3, <3>4, <3>5, <3>6, <3>7
  <2> QED  BY <2>1, <2>2
<1> QED  BY InitIInv, <1>1, PTL DEF Spec

\* Every variable keeps its type, for any number of loops.
THEOREM TypeCorrect == Spec => []TypeOK
<1>1. IInv => TypeOK  BY DEF IInv
<1> QED  BY <1>1, Invariant, PTL

\* No outcome is remembered for loops it does not belong to, however the
\* survivors of pre-validation are renumbered.
THEOREM CacheSoundThm == Spec => []CacheSound
<1>1. IInv => CacheSound  BY DEF IInv
<1> QED  BY <1>1, Invariant, PTL

\* When all loops cost at most twice the baseline, best_cost is always the
\* measured cost of best_mask and no more than that of all loops.
THEOREM BestIsMeasuredThm == Spec => []BestIsMeasured
<1>1. IInv => BestIsMeasured  BY DEF IInv
<1> QED  BY <1>1, Invariant, PTL

\* The greedy passes end in a mask from which no loop can be taken with profit.
THEOREM GreedyIsLocallyOptimalThm == Spec => []GreedyIsLocallyOptimal
<1>1. IInv => GreedyIsLocallyOptimal
  <2> SUFFICES ASSUME IInv, phase = "selected", N > ExhaustiveMax, NEW i \in best,
                      cost[LoopsOf(best \ {i})] # Failed
               PROVE  bestCost <= cost[LoopsOf(best \ {i})]
    BY DEF GreedyIsLocallyOptimal
  <2>1. ~Better(cost[LoopsOf(best \ {i})])  BY DEF IInv, SelectedIsOptimal
  <2>2. best \ {i} \in SUBSET Positions  BY DEF IInv, Measured, Searching
  <2>3. cost[LoopsOf(best \ {i})] \in Nat /\ bestCost \in Nat
    BY <2>2, OutcomeOfMask, Numbers DEF IInv, TypeOK
  <2> QED  BY <2>1, <2>3 DEF Better
<1> QED  BY <1>1, Invariant, PTL

\* range(1, 2**N) leaves no set of loops out: for few loops no other non-empty
\* set that can be built and simulated takes fewer cycles than the result.
THEOREM ExhaustiveIsOptimalThm == Spec => []ExhaustiveIsOptimal
<1>1. IInv => ExhaustiveIsOptimal
  <2> SUFFICES ASSUME IInv, phase = "selected", N > 1, N <= ExhaustiveMax,
                      NEW mask \in (SUBSET Positions) \ {{}}, cost[LoopsOf(mask)] # Failed
               PROVE  bestCost <= cost[LoopsOf(mask)]
    BY DEF ExhaustiveIsOptimal
  <2>1. ~Better(cost[LoopsOf(mask)])  BY DEF IInv, TriedIsNotBetter
  <2>2. mask \in SUBSET Positions  OBVIOUS
  <2>3. cost[LoopsOf(mask)] \in Nat /\ bestCost \in Nat
    BY <2>2, OutcomeOfMask, Numbers DEF IInv, TypeOK
  <2> QED  BY <2>1, <2>3 DEF Better
<1> QED  BY <1>1, Invariant, PTL
=============================================================================
