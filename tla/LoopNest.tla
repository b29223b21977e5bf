------------------------------ MODULE LoopNest ------------------------------
(***************************************************************************)
(* The program as the compiler wrote it: every loop ends in a conditional  *)
(* branch back to its label.  This is what the patched program has to go   *)
(* on doing; HwloopNest is shown to implement it.                          *)
(***************************************************************************)
EXTENDS LoopShape

CONSTANTS
  Programs,  \* the programs considered
  Width      \* bits of a register

VARIABLES
  prog,      \* the program that runs
  pc,        \* the point it is at
  iv         \* [loop -> its induction variable]

vars == <<prog, pc, iv>>

Init ==
  /\ prog \in Programs
  /\ pc = After(prog, 0)
  /\ iv = [l \in Loops(prog) |-> 0]

Go(q) == pc' = q /\ UNCHANGED prog

\* The induction variable is initialised.
Pre(l) ==
  /\ pc = <<"pre", l>>
  /\ iv' = [iv EXCEPT ![l] = InitValue(prog, l, iv, Width)]
  /\ Go(<<"head", l>>)

\* The body runs up to the first inner loop.
Head(l) == pc = <<"head", l>> /\ Go(Inner(prog, l)) /\ UNCHANGED iv

\* addi iv, iv, step
Step(l) ==
  /\ pc = <<"step", l>>
  /\ iv' = [iv EXCEPT ![l] = Word(@ + prog.step[l], Width)]
  /\ Go(<<"back", l>>)

\* The rest of the body, and bne iv, bound, label (bnez for a bound of zero).
Back(l) ==
  /\ pc = <<"back", l>>
  /\ Go(IF iv[l] # BoundValue(prog, l, Width) THEN <<"head", l>> ELSE After(prog, l))
  /\ UNCHANGED iv

Next == \E l \in Loops(prog) : Pre(l) \/ Head(l) \/ Step(l) \/ Back(l)

Spec == Init /\ [][Next]_vars
=============================================================================
