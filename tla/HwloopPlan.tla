----------------------------- MODULE HwloopPlan -----------------------------
(***************************************************************************)
(* What HWLoopGenerator decides before the assembly is patched             *)
(* (codegen/hwloop/generator.py): which loops form a group, which of them  *)
(* get a hardware loop and with which id, how the iteration count is       *)
(* obtained, and how wide the counters have to be (pipeline/hwloop_sweep). *)
(*                                                                         *)
(* A count is a record: op "reg" (a register that holds it already), "li"  *)
(* (a constant), "sub" (hi - lo) or "none" (no count: the loop cannot be   *)
(* configured) or "raise" (the generator ends in an UnboundLocalError);    *)
(* the result is divided by div.                                           *)
(***************************************************************************)
EXTENDS LoopShape

AbsInt(x) == IF x < 0 THEN 0 - x ELSE x

(***************************************************************************)
(* Groups                                                                  *)
(***************************************************************************)
\* Loops that start a group: eligible, with no eligible parent
Roots(p) ==
  {l \in Loops(p) : p.elig[l] /\ (p.par[l] = 0 \/ ~p.elig[p.par[l]])}

\* The loops a group may configure: those reached from its root through
\* eligible loops only
EligibleTree(p, r) ==
  {l \in Loops(p) :
     LET path == {k \in Ancestors(p, l) : r \in Ancestors(p, k)}
     IN  l = r \/ (/\ r \in Ancestors(p, l)
                   /\ \A k \in path \cup {l} : p.elig[k])}

\* The root and the most promising of the others, as many as there are
\* hardware loops.  The estimated benefits may rank them in any way.
Selections(p, r, hwLoop) ==
  LET tree == EligibleTree(p, r)
  IN  {s \in SUBSET tree : r \in s /\ Cardinality(s) = Min({hwLoop, Cardinality(tree)})}

\* Seeded fault: the nesting level
LevelId(p, sel, l) == Cardinality(Ancestors(p, l) \cap sel)

\* Position among the loops selected of the same group
LoopId(p, sel, l) ==
  LET root == CHOOSE r \in Roots(p) : l \in EligibleTree(p, r)
  IN  Cardinality({k \in sel \cap EligibleTree(p, root) : k < l})

(***************************************************************************)
(* The iteration count                                                     *)
(***************************************************************************)
Count(op, x, lo, div) == [op |-> op, x |-> x, lo |-> lo, div |-> div]
NoCount == Count("none", 0, "", 1)

\* The bound as a constant: li is the last definition before the loop
ResolvedConst(p, l) == p.bnd[l].kind = "li"

PowerOfTwo(n) == \E k \in 0 .. n : 2^k = n

KnownInit(p, l) == IF p.init[l].kind = "imm" THEN p.init[l].val ELSE 0

\* A bound resolved to a constant.  (The code does not give up on a distance
\* shorter than a step, it goes on with "imm:<n>" for a register name, which
\* does not assemble.)
CountResolved(p, l) ==
  LET dist == AbsInt(p.bnd[l].val - KnownInit(p, l)) \div AbsInt(p.step[l])
  IN  IF p.init[l].kind \in {"zero", "imm"}
      THEN IF dist = 0 THEN NoCount
           ELSE IF dist = p.bnd[l].val THEN Count("reg", "bound", "", 1)
                ELSE Count("li", dist, "", 1)
      ELSE Count("sub", "bound", "iv", AbsInt(p.step[l]))

\* Counting to zero
CountToZero(p, l) ==
  CASE p.init[l].kind = "zero" -> Count("li", 0, "", 1)
    [] p.init[l].kind = "imm"  ->
         IF AbsInt(p.step[l]) = 1 THEN Count("reg", "iv", "", 1)
         ELSE Count("li", AbsInt(p.init[l].val) \div AbsInt(p.step[l]), "", 1)
    [] OTHER                   -> Count("reg", "iv", "", AbsInt(p.step[l]))

\* A bound that is a register nothing is known of
CountFromRegister(p, l) ==
  LET div == AbsInt(p.step[l])
      off == p.init[l].val
  IN  CASE p.init[l].kind = "off" /\ off # 0 /\ AbsInt(off) \div div > 0 ->
             Count("li", AbsInt(off) \div div, "", 1)
        [] p.init[l].kind = "zero" /\ p.par[l] = 0 -> Count("reg", "bound", "", div)
        [] p.init[l].kind = "imm" ->
             IF div > 1 /\ PowerOfTwo(div) THEN Count("raise", 0, "", 1)
             ELSE IF p.step[l] < 0 THEN Count("sub", "init", "bound", div)
                  ELSE Count("sub", "bound", "init", div)
        [] OTHER -> IF p.step[l] < 0 THEN Count("sub", "iv", "bound", div)
                    ELSE Count("sub", "bound", "iv", div)

DetermineCount(p, l) ==
  IF ResolvedConst(p, l) THEN CountResolved(p, l)
  ELSE IF p.bnd[l].kind = "zero" THEN CountToZero(p, l)
       ELSE CountFromRegister(p, l)

\* What the setup instructions leave in the count register
CountValue(p, l, iv, w) ==
  LET c      == DetermineCount(p, l)
      reg(x) == CASE x = "iv"    -> iv[l]
                  [] x = "bound" -> BoundValue(p, l, w)
                  [] x = "init"  -> Word(p.init[l].val, w)
  IN  CASE c.op = "li"  -> Word(c.x, w)
        [] c.op = "reg" -> reg(c.x) \div c.div
        [] c.op = "sub" -> Word(reg(c.x) - reg(c.lo), w) \div c.div

\* What generate() settles: the loops that get a hardware loop.  A group is
\* dropped whole when a count cannot be determined or no register is free
\* for one; an exception ends the patching, and is not followed further.
Plans(p, hwLoop) ==
  {sel \in SUBSET Loops(p) :
     /\ sel \subseteq UNION {EligibleTree(p, r) : r \in Roots(p)}
     /\ \A r \in Roots(p) :
          \/ sel \cap EligibleTree(p, r) = {}
          \/ sel \cap EligibleTree(p, r) \in Selections(p, r, hwLoop)
     /\ \A l \in sel : DetermineCount(p, l).op \notin {"none", "raise"}}

(***************************************************************************)
(* Counter width                                                           *)
(***************************************************************************)
\* _estimate_iterations: the constant counts it knows
Estimates(p, l) ==
  LET b == IF p.bnd[l].kind = "zero" THEN 0 ELSE p.bnd[l].val
  IN  IF p.bnd[l].kind \in {"li", "zero"} /\ p.init[l].kind \in {"zero", "imm"}
      THEN {AbsInt(b - KnownInit(p, l)) \div AbsInt(p.step[l])}
      ELSE {}

\* The constants of the li instructions that calculate the count
LiConstants(p, l) ==
  LET c == DetermineCount(p, l)
  IN  {AbsInt(k) : k \in
         (IF c.op = "li" THEN {c.x} ELSE {})
         \cup (IF c.op = "sub" /\ c.x = "bound" /\ ResolvedConst(p, l)
               THEN {p.bnd[l].val} ELSE {})
         \cup (IF c.div > 1 /\ ~PowerOfTwo(c.div) THEN {c.div} ELSE {})}

\* Seeded fault: a count that stays in a register is not seen
CountSeenLi(p, l) == Max({0} \cup LiConstants(p, l))

\* The largest count the analysis sees of a loop
CountSeen(p, l) ==
  Max({0} \cup Estimates(p, l) \cup LiConstants(p, l)
      \cup (IF p.init[l].kind = "imm" THEN {AbsInt(p.init[l].val)} ELSE {}))

BitLength(n) == Min({k \in 0 .. n : n < 2^k})

\* analyze_counter_width, with its limits as parameters
CounterWidth(p, sel, margin, least, default, most) ==
  LET seen == Max({0} \cup {CountSeen(p, l) : l \in sel})
  IN  IF seen = 0 THEN default
      ELSE Max({least, Min({most, BitLength(seen) + margin})})
=============================================================================
