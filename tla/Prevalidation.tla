---------------------------- MODULE Prevalidation -----------------------------
(***************************************************************************)
(* _prevalidate_loops, called by the sweep, by step 4 and by step 5 when a *)
(* binary fails: each eligible loop of a source alone is patched,          *)
(* assembled and run on the simulator of one RTL build.  _preval_cache is  *)
(* a module-level dictionary that outlives the call; its key is the        *)
(* source's path and the loop, not the build or the depth.                 *)
(***************************************************************************)
EXTENDS Naturals, FiniteSets

CONSTANTS
  Srcs,     \* assembly sources
  Keys,     \* the eligible loops of a source: 1 .. n
  Builds,   \* pairs of a simulator and the HW_LOOP depth it was built for
  MaxCalls  \* bound on the number of calls

ASSUME PrevalidationAssumption ==
  /\ IsFiniteSet(Keys) /\ Keys # {}
  /\ Keys = 1 .. Cardinality(Keys)
  /\ MaxCalls \in Nat \ {0}

VARIABLES
  assembles,  \* <<source, loop>> pairs the assembler accepts
  passes,     \* <<source, loop, build>> triples that end in SUCCESS
  cache,      \* _preval_cache: does the loop pass?
  src, build, \* the arguments of the call
  at,         \* the loop the call is at; 0: no call is running
  valid,      \* what the call has found
  asked,      \* builds each source was tried on (history, for the properties)
  calls       \* number of calls

vars == <<assembles, passes, cache, src, build, at, valid, asked, calls>>

Returned == at = Cardinality(Keys) + 1
Raised == at = Cardinality(Keys) + 2

\* Each variable holds what the code can put there.
TypeOK ==
  /\ assembles \subseteq Srcs \X Keys
  /\ passes \subseteq Srcs \X Keys \X Builds
  /\ DOMAIN cache \subseteq assembles
  /\ \A k \in DOMAIN cache : cache[k] \in BOOLEAN
  /\ src \in Srcs /\ build \in Builds
  /\ at \in 0 .. Cardinality(Keys) + 2
  /\ valid \subseteq Keys
  /\ asked \in [Srcs -> SUBSET Builds]
  /\ calls \in 0 .. MaxCalls

Init ==
  /\ assembles \in SUBSET (Srcs \X Keys)
  /\ passes \in SUBSET {p \in Srcs \X Keys \X Builds : <<p[1], p[2]>> \in assembles}
  /\ cache = [k \in {} |-> FALSE]
  /\ src \in Srcs /\ build \in Builds
  /\ at = 0
  /\ valid = {}
  /\ asked = [s \in Srcs |-> {}]
  /\ calls = 0

Call ==
  /\ at = 0 \/ Returned
  /\ calls < MaxCalls
  /\ src' \in Srcs /\ build' \in Builds
  /\ at' = 1
  /\ valid' = {}
  /\ asked' = [asked EXCEPT ![src'] = @ \cup {build'}]
  /\ calls' = calls + 1
  /\ UNCHANGED <<assembles, passes, cache>>

\* Seeded fault: the loop alone is the key, so that sources share verdicts.
CacheKeyOfLoop(s, k) == <<CHOOSE t \in Srcs : TRUE, k>>

CacheKey(s, k) == <<s, k>>

\* An assembler error excludes the loop from this result only.
Remembers(s, k) == <<s, k>> \in assembles

Cached ==
  /\ at \in Keys
  /\ CacheKey(src, at) \in DOMAIN cache
  /\ valid' = IF cache[CacheKey(src, at)] THEN valid \cup {at} ELSE valid
  /\ at' = at + 1
  /\ UNCHANGED <<assembles, passes, cache, src, build, asked, calls>>

Rejected ==
  /\ at \in Keys
  /\ CacheKey(src, at) \notin DOMAIN cache
  /\ ~Remembers(src, at)
  /\ at' = at + 1
  /\ UNCHANGED <<assembles, passes, cache, src, build, valid, asked, calls>>

Run ==
  /\ at \in Keys
  /\ CacheKey(src, at) \notin DOMAIN cache
  /\ Remembers(src, at)
  /\ LET pass == <<src, at, build>> \in passes IN
     /\ cache' = [k \in DOMAIN cache \cup {CacheKey(src, at)} |->
                    IF k = CacheKey(src, at) THEN pass ELSE cache[k]]
     /\ valid' = IF pass THEN valid \cup {at} ELSE valid
  /\ at' = at + 1
  /\ UNCHANGED <<assembles, passes, src, build, asked, calls>>

\* The assembler or the simulator takes too long: TimeoutExpired ends the pipeline.
TimesOut ==
  /\ at \in Keys
  /\ CacheKey(src, at) \notin DOMAIN cache
  /\ at' = Cardinality(Keys) + 2
  /\ UNCHANGED <<assembles, passes, cache, src, build, valid, asked, calls>>

Next == Call \/ Cached \/ Rejected \/ Run \/ TimesOut

Spec == Init /\ [][Next]_vars

-----------------------------------------------------------------------------
(***************************************************************************)
(* Properties.                                                             *)
(***************************************************************************)
PassingOn(s, b) == {k \in Keys : <<s, k, b>> \in passes}

\* A source that was only ever tried on one build gets exactly its passing loops,
\* whatever calls for other sources, rejected loops and remembered verdicts came
\* between (hwloop.py:366-376, 439-444).
ExactOnOneBuild ==
  (Returned /\ asked[src] = {build}) => valid = PassingOn(src, build)

\* Tried on several, a loop the call returns has passed on one of them at least.
PassedSomewhere ==
  Returned => \A k \in valid : \E b \in asked[src] : <<src, k, b>> \in passes
=============================================================================
