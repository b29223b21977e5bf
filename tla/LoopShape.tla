----------------------------- MODULE LoopShape -----------------------------
(***************************************************************************)
(* The loops of one assembly function, as AsmLoopDetector sees them        *)
(* (analysis/hwloop.py), and the points of the program that the hardware   *)
(* loops are about.                                                        *)
(*                                                                         *)
(* Loops are numbered 1..n in the order of their start lines, so an outer  *)
(* loop comes before the loops inside it.  A program p is a record         *)
(*   par  [loop -> its immediate parent, 0 for none]                       *)
(*   elig [loop -> hw_eligible]                                            *)
(*   init [loop -> how the induction variable starts: a kind and a value]  *)
(*   bnd  [loop -> what the back branch compares it with, likewise]        *)
(*   step [loop -> the constant added at each iteration]                   *)
(* Kinds of init: "zero", "imm" (li), "arg" (mv from a register nothing is *)
(* known of), "outer" (mv from the parent's induction variable), "off"     *)
(* (addi from the bound register).  Kinds of bnd: "zero" (bnez), "li" (a   *)
(* register loaded by li before the loop), "arg" (any other register).     *)
(*                                                                         *)
(* A point is <<kind, loop>>.  In textual order a loop l is                *)
(*   pre(l)   its induction variable is initialised                        *)
(*   head(l)  its label, and the instructions before its first inner loop  *)
(*   ...      its inner loops                                              *)
(*   step(l)  the addi of the induction variable                           *)
(*   back(l)  its last instruction, and the back branch                    *)
(***************************************************************************)
EXTENDS Integers, FiniteSets, FiniteSetsExt

Done == <<"done", 0>>

Loops(p) == DOMAIN p.par

\* Loops are numbered in the order of their labels, so that a parent, the smallest
\* loop around one, comes first; compiled loops do not step by zero; only an
\* inner loop starts from the variable of its parent.
WellFormed(p) ==
  /\ IsFiniteSet(Loops(p))
  /\ Loops(p) = 1 .. Cardinality(Loops(p))
  /\ \A l \in Loops(p) :
       /\ p.par[l] \in 0 .. l - 1
       /\ p.elig[l] \in BOOLEAN
       /\ p.init[l].kind \in {"zero", "imm", "arg", "outer", "off"}
       /\ p.bnd[l].kind \in {"zero", "li", "arg"}
       /\ p.init[l].val \in Int /\ p.bnd[l].val \in Int
       /\ p.step[l] \in Int \ {0}
       /\ p.init[l].kind = "outer" => p.par[l] # 0

\* loop.children
Children(p, l) == {c \in Loops(p) : p.par[c] = l}

\* The loops around l, found by walking loop.parent
Ancestors(p, l) ==
  LET above[k \in Loops(p) \cup {0}] ==
        IF k = 0 \/ p.par[k] = 0 THEN {} ELSE {p.par[k]} \cup above[p.par[k]]
  IN  above[l]

\* Where control goes from the head of l
Inner(p, l) ==
  IF Children(p, l) = {} THEN <<"step", l>> ELSE <<"pre", Min(Children(p, l))>>

\* Where control goes when l (0: nothing yet) has ended
After(p, l) ==
  LET outer == IF l = 0 THEN 0 ELSE p.par[l]
      next  == {k \in Children(p, outer) : k > l}
  IN  IF next # {} THEN <<"pre", Min(next)>>
      ELSE IF outer = 0 THEN Done ELSE <<"step", outer>>

\* Whether the address of point q lies between the label of l and its end
Within(p, q, l) ==
  \/ q[2] = l /\ q[1] \in {"head", "step", "back"}
  \/ q[2] \in Loops(p) /\ l \in Ancestors(p, q[2])

\* Register arithmetic of w bits
Word(x, w) == x % 2^w

BoundValue(p, l, w) ==
  IF p.bnd[l].kind = "zero" THEN 0 ELSE Word(p.bnd[l].val, w)

InitValue(p, l, iv, w) ==
  CASE p.init[l].kind = "zero"  -> 0
    [] p.init[l].kind = "outer" -> iv[p.par[l]]
    [] p.init[l].kind = "off"   -> Word(p.bnd[l].val + p.init[l].val, w)
    [] OTHER                    -> Word(p.init[l].val, w)
=============================================================================
