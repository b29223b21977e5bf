-------------------------- MODULE SimulationTestProofs ------------------------
(***************************************************************************)
(* The two tests of the hardware-loop stage that run one change after the  *)
(* other on a simulator and remember what came out.                        *)
(*                                                                         *)
(* _prevalidate_loops, for any sources, loops, builds and calls: what a    *)
(* call returns was seen on a build its source was tried on, and it is     *)
(* exact if that is one.                                                   *)
(*                                                                         *)
(* _test_merged_functions, for any number of merged functions and any      *)
(* cycle counts: the cycles are those of the current source, and every     *)
(* revert that was kept paid.                                              *)
(***************************************************************************)
EXTENDS Prevalidation, MergeRevert, FiniteSetTheorems, TLAPS

(***************************************************************************)
(* _prevalidate_loops.                                                     *)
(***************************************************************************)
Passes(s, k, b) == <<s, k, b>> \in passes

\* A verdict, remembered or returned, is that of a build the source was tried on.
CacheInv ==
  \A s \in Srcs, k \in Keys :
    <<s, k>> \in DOMAIN cache =>
      \E b \in asked[s] : cache[<<s, k>>] <=> Passes(s, k, b)

ValidInv ==
  /\ at > 0 => build \in asked[src]
  /\ at > 0 /\ ~Raised =>
       /\ valid \subseteq 1 .. at - 1
       /\ \A k \in Keys : k < at => \E b \in asked[src] : k \in valid <=> Passes(src, k, b)

OnlyAssembled == \A s \in Srcs, k \in Keys, b \in Builds : Passes(s, k, b) => <<s, k>> \in assembles

PrevalInv == TypeOK /\ CacheInv /\ ValidInv /\ OnlyAssembled

\* Loops are numbered.
LEMMA KeyNumbers == Cardinality(Keys) \in Nat /\ Keys = 1 .. Cardinality(Keys)
BY PrevalidationAssumption, FS_CardinalityType

\* The empty cache satisfies the invariant...
LEMMA PrevalInitInv == Init => PrevalInv
<1> SUFFICES ASSUME Init PROVE PrevalInv
  OBVIOUS
<1> USE DEF Init
<1>1. DOMAIN cache = {}  OBVIOUS
<1>2. passes \subseteq Srcs \X Keys \X Builds  OBVIOUS
<1>3. OnlyAssembled  BY DEF OnlyAssembled, Passes
<1>4. TypeOK  BY <1>1, <1>2, KeyNumbers, PrevalidationAssumption DEF TypeOK
<1> QED  BY <1>1, <1>3, <1>4 DEF PrevalInv, CacheInv, ValidInv

\* ...and every call, verdict and exception keeps it.
LEMMA PrevalNextInv == PrevalInv /\ [Next]_vars => PrevalInv'
<1> SUFFICES ASSUME PrevalInv, [Next]_vars PROVE PrevalInv'
  OBVIOUS
<1> USE DEF PrevalInv
<1>1. Cardinality(Keys) \in Nat /\ Keys = 1 .. Cardinality(Keys) /\ at \in Nat
      /\ calls \in Nat /\ MaxCalls \in Nat
  BY KeyNumbers, PrevalidationAssumption DEF TypeOK
<1>2. CASE Call
  <2>1. /\ at' = 1 /\ valid' = {} /\ src' \in Srcs /\ build' \in Builds
        /\ UNCHANGED <<assembles, passes, cache>> /\ calls' = calls + 1 /\ calls < MaxCalls
        /\ asked' = [asked EXCEPT ![src'] = @ \cup {build'}]
    BY <1>2 DEF Call
  <2>2. TypeOK'  BY <1>1, <2>1 DEF TypeOK
  <2>3. \A s \in Srcs : asked[s] \subseteq asked'[s]  BY <2>1 DEF TypeOK
  <2>4. CacheInv'  BY <2>1, <2>3 DEF CacheInv, Passes
  <2>5. build' \in asked'[src']  BY <2>1 DEF TypeOK
  <2>6. ValidInv'  BY <1>1, <2>1, <2>5 DEF ValidInv
  <2>7. OnlyAssembled'  BY <2>1 DEF OnlyAssembled, Passes
  <2> QED  BY <2>2, <2>4, <2>6, <2>7
<1>3. CASE Cached \/ Rejected \/ Run
  <2>1. /\ at \in Keys /\ at' = at + 1
        /\ UNCHANGED <<assembles, passes, src, build, asked, calls>>
    BY <1>3 DEF Cached, Rejected, Run
  <2>2. src \in Srcs /\ build \in Builds /\ build \in asked[src] /\ asked[src] \subseteq Builds
    BY <1>1, <2>1 DEF TypeOK, ValidInv
  <2>3. OnlyAssembled'  BY <2>1 DEF OnlyAssembled, Passes
  <2>4. /\ valid' \in {valid, valid \cup {at}}
        /\ \E b \in asked[src] : at \in valid' <=> Passes(src, at, b)
        /\ DOMAIN cache' \subseteq assembles /\ \A k \in DOMAIN cache' : cache'[k] \in BOOLEAN
        /\ CacheInv'
    <3>1. at \notin valid  BY <1>1, <2>1 DEF ValidInv, Raised
    <3>2. CASE Cached
      <4>1. cache' = cache /\ <<src, at>> \in DOMAIN cache
            /\ valid' = IF cache[<<src, at>>] THEN valid \cup {at} ELSE valid
        BY <3>2 DEF Cached, CacheKey
      <4>2. CacheInv'  BY <2>1, <4>1 DEF CacheInv, Passes
      <4>3. \E b \in asked[src] : cache[<<src, at>>] <=> Passes(src, at, b)
        BY <2>1, <2>2, <4>1 DEF CacheInv
      <4> QED  BY <3>1, <4>1, <4>2, <4>3 DEF TypeOK
    <3>3. CASE Rejected
      <4>1. UNCHANGED <<cache, valid>> /\ <<src, at>> \notin assembles
        BY <3>3 DEF Rejected, Remembers
      <4>2. ~Passes(src, at, build)  BY <2>1, <2>2, <4>1 DEF OnlyAssembled
      <4>3. CacheInv'  BY <2>1, <4>1 DEF CacheInv, Passes
      <4> QED  BY <2>2, <3>1, <4>1, <4>2, <4>3 DEF TypeOK
    <3>4. CASE Run
      <4> DEFINE pass == <<src, at, build>> \in passes
      <4>1. /\ DOMAIN cache' = DOMAIN cache \cup {<<src, at>>}
            /\ \A k \in DOMAIN cache' : cache'[k] = IF k = <<src, at>> THEN pass ELSE cache[k]
            /\ valid' = IF pass THEN valid \cup {at} ELSE valid
            /\ <<src, at>> \in assembles
        BY <3>4 DEF Run, CacheKey, Remembers
      <4>2. DOMAIN cache' \subseteq assembles  BY <4>1 DEF TypeOK
      <4>3. ASSUME NEW k \in DOMAIN cache' PROVE cache'[k] \in BOOLEAN
        <5>1. CASE k = <<src, at>>
          <6>1. cache'[k] = pass  BY <4>1, <5>1
          <6>2. pass \in BOOLEAN  OBVIOUS
          <6> QED  BY <6>1, <6>2
        <5>2. CASE k # <<src, at>>
          <6>1. k \in DOMAIN cache /\ cache'[k] = cache[k]  BY <4>1, <5>2
          <6> QED  BY <6>1 DEF TypeOK
        <5> QED  BY <5>1, <5>2
      <4>4. ASSUME NEW s \in Srcs, NEW k \in Keys, <<s, k>> \in DOMAIN cache'
            PROVE  \E b \in asked[s] : cache'[<<s, k>>] <=> <<s, k, b>> \in passes
        <5>1. CASE s = src /\ k = at  BY <2>2, <4>1, <5>1
        <5>2. CASE ~(s = src /\ k = at)
          <6>1. <<s, k>> # <<src, at>>  BY <5>2
          <6>2. <<s, k>> \in DOMAIN cache /\ cache'[<<s, k>>] = cache[<<s, k>>]
            BY <4>1, <4>4, <6>1
          <6> QED  BY <6>2 DEF CacheInv, Passes
        <5> QED  BY <5>1, <5>2
      <4>5. CacheInv'  BY <2>1, <4>4 DEF CacheInv, Passes
      <4> QED  BY <2>2, <3>1, <4>1, <4>2, <4>3, <4>5 DEF Passes
    <3> QED  BY <1>3, <3>2, <3>3, <3>4
  <2>5. TypeOK'
    <3>1. at' \in 0 .. Cardinality(Keys) + 2  BY <1>1, <2>1
    <3>2. valid' \subseteq Keys  BY <2>1, <2>4 DEF TypeOK
    <3> QED  BY <2>1, <2>4, <3>1, <3>2 DEF TypeOK
  <2>6. ValidInv'
    <3>1. valid \subseteq 1 .. at - 1
          /\ \A k \in Keys : k < at => \E b \in asked[src] : k \in valid <=> Passes(src, k, b)
      BY <1>1, <2>1 DEF ValidInv, Raised
    <3>2. valid' \subseteq 1 .. at' - 1  BY <1>1, <2>1, <2>4, <3>1
    <3>3. ASSUME NEW k \in Keys, k < at'
          PROVE  \E b \in asked[src] : k \in valid' <=> <<src, k, b>> \in passes
      <4>1. CASE k = at  BY <2>4, <4>1 DEF Passes
      <4>2. CASE k < at
        <5>1. k \in valid' <=> k \in valid  BY <1>1, <2>4, <4>2
        <5> QED  BY <3>1, <4>2, <5>1 DEF Passes
      <4>3. k = at \/ k < at  BY <1>1, <2>1, <3>3
      <4> QED  BY <4>1, <4>2, <4>3
    <3> QED  BY <2>1, <2>2, <3>2, <3>3 DEF ValidInv, Passes
  <2> QED  BY <2>3, <2>4, <2>5, <2>6
<1>4. CASE TimesOut
  <2>1. /\ at \in Keys /\ at' = Cardinality(Keys) + 2
        /\ UNCHANGED <<assembles, passes, cache, src, build, valid, asked, calls>>
    BY <1>4 DEF TimesOut
  <2>2. TypeOK'  BY <1>1, <2>1 DEF TypeOK
  <2>3. CacheInv' /\ OnlyAssembled'  BY <2>1 DEF CacheInv, OnlyAssembled, Passes
  <2>4. ValidInv'  BY <1>1, <2>1 DEF ValidInv, Raised
  <2> QED  BY <2>2, <2>3, <2>4
<1>5. CASE UNCHANGED vars
  <2> USE <1>5 DEF vars
  <2>1. TypeOK'  BY DEF TypeOK
  <2>2. CacheInv' /\ OnlyAssembled'  BY DEF CacheInv, OnlyAssembled, Passes
  <2>3. ValidInv'  BY DEF ValidInv, Passes, Raised
  <2> QED  BY <2>1, <2>2, <2>3
<1> QED  BY <1>2, <1>3, <1>4, <1>5 DEF Next

\* The invariant holds throughout.
THEOREM PrevalInvariant == Spec => []PrevalInv
BY PrevalInitInv, PrevalNextInv, PTL DEF Spec

\* A loop that a call returns has passed on some build its source was tried on.
THEOREM PassedSomewhereThm == Spec => []PassedSomewhere
<1>1. PrevalInv => PassedSomewhere
  <2> SUFFICES ASSUME PrevalInv, Returned, NEW k \in valid
               PROVE  \E b \in asked[src] : <<src, k, b>> \in passes
    BY DEF PassedSomewhere
  <2>1. k \in Keys /\ k < at /\ at > 0 /\ ~Raised
    BY KeyNumbers DEF PrevalInv, TypeOK, Returned, Raised
  <2> QED  BY <2>1 DEF PrevalInv, ValidInv, Passes
<1> QED  BY <1>1, PrevalInvariant, PTL

\* A source only ever tried on one build gets exactly the loops that pass on it,
\* in every call, whatever was called for other sources in between.
THEOREM ExactOnOneBuildThm == Spec => []ExactOnOneBuild
<1>1. PrevalInv => ExactOnOneBuild
  <2> SUFFICES ASSUME PrevalInv, Returned, asked[src] = {build}
               PROVE  valid = PassingOn(src, build)
    BY DEF ExactOnOneBuild
  <2>1. at > 0 /\ ~Raised /\ \A k \in Keys : k < at
    BY KeyNumbers DEF Returned, Raised
  <2>2. \A k \in Keys : k \in valid <=> <<src, k, build>> \in passes
    BY <2>1 DEF PrevalInv, ValidInv, Passes
  <2>3. valid \subseteq Keys  BY DEF PrevalInv, TypeOK
  <2> QED  BY <2>2, <2>3 DEF PassingOn
<1> QED  BY <1>1, PrevalInvariant, PTL

-----------------------------------------------------------------------------
(***************************************************************************)
(* _test_merged_functions.                                                 *)
(***************************************************************************)
UpTo(f) == {h \in reverted : h <= f}

\* The reverts kept lie behind the function being tested; the current source is
\* the last of them and its cycles are the fewest so far.
CurrentInv ==
  /\ \A f \in reverted : f < testing /\ f <= current_src /\ current_cycles <= cost[UpTo(f)]
  /\ current_src # FusedSrc => current_src \in reverted /\ current_cycles = cost[reverted]
  /\ current_src = FusedSrc => reverted = {}
  /\ current_cycles <= baseline_cycles
  /\ ~Finished => current_src \in DOMAIN files /\ files[current_src] = reverted

RevertInv == RevertTypeOK /\ CurrentInv /\ RevertsPay

\* Functions are numbered, cycles are positive.
LEMMA FnNumbers ==
  /\ Cardinality(Fns) \in Nat /\ Cardinality(Fns) >= 1
  /\ Fns = 1 .. Cardinality(Fns)
  /\ CycleCounts \subseteq Nat \ {0}
  /\ Failed = 0 /\ FusedSrc = 0
BY RevertAssumption, FS_CardinalityType, FS_EmptySet DEF Failed, FusedSrc

\* The fused source with the cycles the GA measured satisfies the invariant...
LEMMA RevertInitInv == RevertInit => RevertInv
<1> SUFFICES ASSUME RevertInit PROVE RevertInv
  OBVIOUS
<1> USE DEF RevertInit
<1>1. RevertTypeOK  BY FnNumbers DEF RevertTypeOK, Sources, Outcomes, None
<1>2. baseline_cycles \in Nat  BY FnNumbers
<1> QED  BY <1>1, <1>2, FnNumbers DEF RevertInv, CurrentInv, RevertsPay, Finished

\* ...and each test and the cleanup keep it.
LEMMA RevertNextInv == RevertInv /\ [RevertNext]_revertVars => RevertInv'
<1> SUFFICES ASSUME RevertInv, [RevertNext]_revertVars PROVE RevertInv'
  OBVIOUS
<1> USE DEF RevertInv
<1> DEFINE n == Cardinality(Fns)
<1>1. /\ n \in Nat /\ n >= 1 /\ Fns = 1 .. n /\ FusedSrc = 0 /\ Failed = 0
      /\ testing \in Nat /\ current_src \in Nat /\ baseline_cycles \in Nat /\ current_cycles \in Nat \ {0}
      /\ \A set \in SUBSET Fns : cost[set] \in Nat
      /\ reverted \subseteq Nat
  <2>1. n \in Nat /\ n >= 1 /\ Fns = 1 .. n /\ FusedSrc = 0 /\ Failed = 0
    BY FnNumbers
  <2>2. testing \in Nat /\ current_src \in Nat  BY <2>1 DEF RevertTypeOK, Sources
  <2>3. baseline_cycles \in Nat /\ current_cycles \in Nat \ {0}  BY FnNumbers DEF RevertTypeOK
  <2>4. Outcomes \subseteq Nat  BY FnNumbers DEF Outcomes
  <2>5. \A set \in SUBSET Fns : cost[set] \in Nat  BY <2>4 DEF RevertTypeOK
  <2>6. reverted \subseteq Nat  BY <2>1 DEF RevertTypeOK
  <2> QED  BY <2>1, <2>2, <2>3, <2>5, <2>6
<1>2. CASE TestFunction
  <2> DEFINE test == files[current_src] \cup {testing}
  <2>1. /\ testing \in Fns /\ testing' = testing + 1 /\ UNCHANGED <<cost, baseline_cycles, returned>>
        /\ DOMAIN files' = DOMAIN files \cup {testing}
        /\ \A f \in DOMAIN files' : files'[f] = IF f = testing THEN test ELSE files[f]
    BY <1>2 DEF TestFunction, RevertFunction
  <2>2. ~Finished /\ testing' \in 1 .. n + 3 /\ testing' <= n + 1  BY <1>1, <2>1 DEF Finished
  <2>3. current_src \in DOMAIN files /\ files[current_src] = reverted /\ reverted \subseteq Fns
    BY <2>2 DEF CurrentInv, RevertTypeOK
  <2>4. testing \notin reverted /\ current_src # testing
    BY <1>1, <2>1 DEF CurrentInv
  <2>5. /\ DOMAIN files' \subseteq Sources /\ FusedSrc \in DOMAIN files'
        /\ \A f \in DOMAIN files' : files'[f] \subseteq Fns
    BY <2>1, <2>3 DEF RevertTypeOK, Sources
  <2>6. CASE ~Pays(cost[test])
    <3>1. UNCHANGED <<current_src, current_cycles, reverted>>
      BY <1>2, <2>6 DEF TestFunction, RevertFunction
    <3>2. RevertTypeOK'  BY <2>1, <2>2, <2>5, <3>1 DEF RevertTypeOK
    <3>3. current_src' \in DOMAIN files' /\ files'[current_src'] = reverted'
      BY <2>1, <2>3, <2>4, <3>1
    <3>4. CurrentInv'
      <4>1. \A f \in reverted : f < testing' /\ UpTo(f)' = UpTo(f)
        <5>1. \A f : UpTo(f)' = UpTo(f)  BY <3>1 DEF UpTo
        <5>2. \A f \in reverted : f < testing'  BY <1>1, <2>1 DEF CurrentInv
        <5> QED  BY <5>1, <5>2
      <4> QED  BY <2>1, <3>1, <3>3, <4>1 DEF CurrentInv
    <3>5. RevertsPay'  BY <2>1, <3>1 DEF RevertsPay
    <3> QED  BY <3>2, <3>4, <3>5
  <2>7. CASE Pays(cost[test])
    <3>1. current_src' = testing /\ current_cycles' = cost[test] /\ reverted' = reverted \cup {testing}
      BY <1>2, <2>7 DEF TestFunction, RevertFunction
    <3>0. PICK a \in Fns : a = testing  BY <2>1
    <3>2. test = reverted' /\ reverted' \subseteq Fns  BY <2>1, <2>3, <3>1
    <3>3. cost[test] # 0 /\ cost[test] < current_cycles /\ cost[test] \in Nat
          /\ cost[test] \in CycleCounts
      BY <1>1, <2>7, <3>1, <3>2 DEF Pays, RevertTypeOK, Outcomes
    <3>4. RevertTypeOK'
      BY <2>1, <2>2, <2>5, <3>1, <3>2, <3>3 DEF RevertTypeOK, Sources
    <3>5. \A f \in reverted : f \in Nat /\ f < testing /\ UpTo(f)' = UpTo(f)
      <4>1. \A f \in reverted : f \in Nat /\ f < testing  BY <1>1 DEF CurrentInv
      <4>2. \A f \in reverted : ~(testing <= f)  BY <1>1, <4>1
      <4>3. \A f \in reverted : UpTo(f)' = UpTo(f)  BY <3>1, <4>2 DEF UpTo
      <4> QED  BY <4>1, <4>3
    <3>6. UpTo(a)' = test
      <4>1. \A h \in reverted' : h <= testing  BY <1>1, <3>1, <3>5
      <4>2. UpTo(a)' = reverted'  BY <3>0, <4>1 DEF UpTo
      <4> QED  BY <3>2, <4>2
    <3>7. \A f \in reverted : current_cycles <= cost[UpTo(f)] /\ cost[UpTo(f)] \in Nat
      BY <1>1, <2>3 DEF CurrentInv, UpTo
    <3>8. CurrentInv'
      <4>1. files'[current_src'] = reverted' /\ current_src' \in DOMAIN files'  BY <2>1, <3>1, <3>2
      <4>2. \A f \in reverted' : f < testing' /\ f <= current_src' /\ current_cycles' <= (cost[UpTo(f)])'
        <5>1. ASSUME NEW f \in reverted
              PROVE  f < testing' /\ f <= current_src' /\ current_cycles' <= (cost[UpTo(f)])'
          <6>1. f < testing /\ f \in Nat /\ (cost[UpTo(f)])' = cost[UpTo(f)]
            BY <2>1, <3>5
          <6> QED  BY <1>1, <2>1, <3>1, <3>3, <3>7, <6>1
        <5>2. a < testing' /\ a <= current_src' /\ current_cycles' <= (cost[UpTo(a)])'
          <6>1. (cost[UpTo(a)])' = cost[test]  BY <2>1, <3>6
          <6> QED  BY <1>1, <2>1, <3>0, <3>1, <3>3, <6>1
        <5> SUFFICES ASSUME NEW f \in reverted'
                     PROVE  f < testing' /\ f <= current_src' /\ current_cycles' <= (cost[UpTo(f)])'
          OBVIOUS
        <5>3. CASE f = a  BY <5>2, <5>3
        <5>4. CASE f # a  BY <3>0, <3>1, <5>1, <5>4
        <5> QED  BY <5>3, <5>4
      <4>3. current_cycles' <= baseline_cycles'  BY <1>1, <2>1, <3>1, <3>3 DEF CurrentInv
      <4>4. current_src' # 0 /\ current_src' \in reverted' /\ current_cycles' = (cost[reverted])'
        <5>1. (cost[reverted])' = cost[test]  BY <2>1, <3>2
        <5> QED  BY <1>1, <2>1, <3>1, <5>1
      <4> QED  BY <1>1, <4>1, <4>2, <4>3, <4>4 DEF CurrentInv
    <3>9. RevertsPay'
      <4>1. cost[test] \in 1 .. baseline_cycles - 1  BY <1>1, <3>3 DEF CurrentInv
      <4>2. \A f \in reverted' : (cost[UpTo(f)])' \in 1 .. baseline_cycles' - 1
        <5>1. \A f \in reverted : cost[UpTo(f)] \in 1 .. baseline_cycles - 1
          BY DEF RevertsPay, UpTo
        <5>2. \A f \in reverted : (cost[UpTo(f)])' = cost[UpTo(f)]  BY <2>1, <3>5
        <5>3. (cost[UpTo(a)])' = cost[test]  BY <2>1, <3>6
        <5> SUFFICES ASSUME NEW f \in reverted'
                     PROVE  (cost[UpTo(f)])' \in 1 .. baseline_cycles - 1
          BY <2>1
        <5>4. CASE f = a  BY <4>1, <5>3, <5>4
        <5>5. CASE f # a
          <6>1. f \in reverted  BY <3>0, <3>1, <5>5
          <6> QED  BY <5>1, <5>2, <6>1
        <5> QED  BY <5>4, <5>5
      <4>3. \A f, g \in reverted' : g < f => (cost[UpTo(f)])' < (cost[UpTo(g)])'
        <5> SUFFICES ASSUME NEW f \in reverted', NEW g \in reverted', g < f
                     PROVE  (cost[UpTo(f)])' < (cost[UpTo(g)])'
          OBVIOUS
        <5>1. CASE f = a
          <6>1. g \in reverted  BY <1>1, <3>0, <3>1, <5>1
          <6>2. (cost[UpTo(f)])' = cost[test]
            <7>1. UpTo(f)' = test  BY <3>6, <5>1
            <7> QED  BY <2>1, <7>1
          <6>3. (cost[UpTo(g)])' = cost[UpTo(g)]  BY <2>1, <3>5, <6>1
          <6>4. current_cycles <= cost[UpTo(g)] /\ cost[UpTo(g)] \in Nat  BY <3>7, <6>1
          <6> QED  BY <1>1, <3>3, <6>2, <6>3, <6>4
        <5>2. CASE f # a
          <6>1. f \in reverted /\ f < testing /\ f \in Nat  BY <3>0, <3>1, <3>5, <5>2
          <6>2. g \in reverted  BY <1>1, <3>1, <6>1
          <6> QED  BY <2>1, <3>5, <6>1, <6>2 DEF RevertsPay, UpTo
        <5> QED  BY <5>1, <5>2
      <4> QED  BY <4>2, <4>3 DEF RevertsPay, UpTo
    <3> QED  BY <3>4, <3>8, <3>9
  <2> QED  BY <2>6, <2>7
<1>3. CASE Cleanup \/ TestTimesOut
  <2>1. /\ UNCHANGED <<cost, baseline_cycles, current_src, current_cycles, reverted>>
        /\ testing' \in {n + 2, n + 3} /\ testing' > testing
        /\ returned' \in {returned, current_src, None}
    BY <1>1, <1>3 DEF Cleanup, TestTimesOut
  <2>2. DOMAIN files' \subseteq Sources /\ FusedSrc \in DOMAIN files'
        /\ \A f \in DOMAIN files' : files'[f] \subseteq Fns
    <3>1. CASE Cleanup  BY <1>1, <3>1 DEF Cleanup, RevertTypeOK
    <3>2. CASE TestTimesOut
      <4>1. current_src \in DOMAIN files /\ testing \in Fns
        BY <1>1, <3>2 DEF TestTimesOut, CurrentInv, Finished
      <4> QED  BY <3>2, <4>1 DEF TestTimesOut, RevertFunction, RevertTypeOK, Sources
    <3> QED  BY <1>3, <3>1, <3>2
  <2>3. RevertTypeOK'  BY <1>1, <2>1, <2>2 DEF RevertTypeOK
  <2>4. Finished'  BY <1>1, <2>1 DEF Finished
  <2>5. CurrentInv'
    <3>1. \A f \in reverted : f < testing' /\ UpTo(f)' = UpTo(f)
      <4>1. \A f : UpTo(f)' = UpTo(f)  BY <2>1 DEF UpTo
      <4>2. testing' \in Nat /\ testing' > testing  BY <1>1, <2>1
      <4>3. \A f \in reverted : f \in Nat /\ f < testing  BY <1>1 DEF CurrentInv
      <4>4. \A f \in reverted : f < testing'  BY <1>1, <4>2, <4>3
      <4> QED  BY <4>1, <4>4
    <3> QED  BY <2>1, <2>4, <3>1 DEF CurrentInv
  <2>6. RevertsPay'  BY <2>1 DEF RevertsPay
  <2> QED  BY <2>3, <2>5, <2>6
<1>4. CASE UNCHANGED revertVars
  <2> USE <1>4 DEF revertVars
  <2>1. RevertTypeOK'  BY DEF RevertTypeOK
  <2>2. CurrentInv'  BY DEF CurrentInv, UpTo, Finished
  <2>3. RevertsPay'  BY DEF RevertsPay
  <2> QED  BY <2>1, <2>2, <2>3
<1> QED  BY <1>2, <1>3, <1>4 DEF RevertNext

\* The invariant holds throughout.
THEOREM RevertInvariant == RevertSpec => []RevertInv
BY RevertInitInv, RevertNextInv, PTL DEF RevertSpec

\* While the reverts are tested current_cycles is the cost of current_src, which
\* has put back exactly the functions whose reverts paid.
THEOREM CurrentIsMeasuredThm == RevertSpec => []CurrentIsMeasured
<1>1. RevertInv => CurrentIsMeasured  BY DEF RevertInv, CurrentInv, CurrentIsMeasured
<1> QED  BY <1>1, RevertInvariant, PTL

\* Each kept revert has strictly fewer cycles than the binary the GA selected and
\* than every source before it, for any number of functions.
THEOREM RevertsPayThm == RevertSpec => []RevertsPay
<1>1. RevertInv => RevertsPay  BY DEF RevertInv
<1> QED  BY <1>1, RevertInvariant, PTL
===============================================================================
