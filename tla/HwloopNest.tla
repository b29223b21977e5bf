----------------------------- MODULE HwloopNest -----------------------------
(***************************************************************************)
(* A patched program on the core with hardware loops: what AsmPatcher      *)
(* (codegen/hwloop/generator.py) makes of a program of LoopNest, run on    *)
(* HwloopCore.  The back branches of the configured loops are gone; the    *)
(* setup of a group is                                                     *)
(*   before the root's label   bounds and count of the root, then the      *)
(*                             bounds of the inner loops                   *)
(*   before an inner label     the count of that inner loop                *)
(*   after the root's end      the counters of the inner loops cleared     *)
(***************************************************************************)
EXTENDS HwloopPlan, HwloopCore

CONSTANTS
  Programs,        \* the programs considered
  Width,           \* bits of a register, and the widest counter
  HwLoops,         \* numbers of hardware loops the generator may be given
  MarginBits,      \* analyze_counter_width: margin_bits (1),
  LeastWidth,      \* its least width (8)
  DefaultWidth     \* and the one without any constant count (16)

ASSUME HwloopNestAssumption ==
  /\ Width \in Nat \ {0}
  /\ HwLoops \subseteq Nat \ {0}
  /\ HwLoops # {} /\ IsFiniteSet(HwLoops)
  /\ MarginBits \in Nat
  /\ LeastWidth \in 1 .. Width
  /\ DefaultWidth \in 1 .. Width
  /\ \A p \in Programs : WellFormed(p)

VARIABLES
  prog,      \* the program that was patched
  sel,       \* the loops configured as hardware loops
  cntWidth,  \* CNT_WIDTH of the RTL
  pc,        \* the point the program is at
  iv,        \* [loop -> its induction variable]
  hw         \* the hardware loops, see HwloopCore

vars == <<prog, sel, cntWidth, pc, iv, hw>>

\* HW_LOOP of the RTL is at least 2 and covers every id the generator uses.
Ids == 0 .. Max(HwLoops \cup {2}) - 1

Id(l) == LoopId(prog, sel, l)
IsRoot(l) == l \in sel /\ l \in Roots(prog)
InnerOf(r) == {l \in sel \cap EligibleTree(prog, r) : l # r}

Init ==
  /\ prog \in Programs
  /\ \E hwLoop \in HwLoops : sel \in Plans(prog, hwLoop)
  /\ cntWidth = CounterWidth(prog, sel, MarginBits, LeastWidth, DefaultWidth, Width)
  /\ pc = After(prog, 0)
  /\ iv = [l \in Loops(prog) |-> 0]
  /\ hw = Reset(Ids)

Fixed == UNCHANGED <<prog, sel, cntWidth>>

\* An instruction of the original program
Plain(q) == pc' = q /\ hw' = Execute(prog, hw, pc) /\ Fixed

\* An instruction of the setup, which makes h of the registers
Setup(h, q) ==
  /\ hw' = [h EXCEPT !.fsm = NextFsm(prog, hw, pc)]
  /\ pc' = q
  /\ UNCHANGED iv /\ Fixed

\* Where control arrives before the label of l
Entry(l) ==
  IF l \notin sel THEN <<"head", l>>
  ELSE IF IsRoot(l) THEN <<"bounds", l>> ELSE <<"count", l>>

Pre(l) ==
  /\ pc = <<"pre", l>>
  /\ iv' = [iv EXCEPT ![l] = InitValue(prog, l, iv, Width)]
  /\ Plain(Entry(l))

\* hwloop.bounds of the root
RootBounds(l) ==
  /\ pc = <<"bounds", l>>
  /\ Setup(WriteBounds(hw, Id(l), l), <<"count", l>>)

\* The count is calculated and hwloop.count executed
SetupCount(l) ==
  /\ pc = <<"count", l>>
  /\ Setup(WriteCount(hw, Id(l), CountValue(prog, l, iv, Width), cntWidth),
           IF IsRoot(l) THEN <<"inner", l>> ELSE <<"head", l>>)

\* hwloop.bounds of the inner loops of the group
InnerBounds(l) ==
  /\ pc = <<"inner", l>>
  /\ LET owner(i) == {k \in InnerOf(l) : Id(k) = i}
     IN  Setup([hw EXCEPT
           !.loop = [i \in Ids |-> IF owner(i) = {} THEN @[i] ELSE Min(owner(i))],
           !.cnt  = [i \in Ids |-> IF owner(i) = {} THEN @[i] ELSE 0]],
           <<"head", l>>)

Head(l) ==
  /\ pc = <<"head", l>>
  /\ Plain(Inner(prog, l))
  /\ UNCHANGED iv

Step(l) ==
  /\ pc = <<"step", l>>
  /\ iv' = [iv EXCEPT ![l] = Word(@ + prog.step[l], Width)]
  /\ Plain(<<"back", l>>)

\* Seeded fault: the counters of the inner loops are left as they are
LeaveUncleared(l) == After(prog, l)

Leave(l) == IF IsRoot(l) /\ InnerOf(l) # {} THEN <<"clear", l>> ELSE After(prog, l)

\* The last instruction of a loop whose back branch was removed
BackHw(l) ==
  /\ pc = <<"back", l>>
  /\ l \in sel
  /\ Plain(IF Wraps(hw, pc) THEN <<"head", l>> ELSE Leave(l))
  /\ UNCHANGED iv

\* The back branch of a loop that was left alone
BackSw(l) ==
  /\ pc = <<"back", l>>
  /\ l \notin sel
  /\ Plain(IF iv[l] # BoundValue(prog, l, Width) THEN <<"head", l>> ELSE After(prog, l))
  /\ UNCHANGED iv

\* hwloop.count with x0 for the inner loops of the group
ClearInner(l) ==
  /\ pc = <<"clear", l>>
  /\ LET inner == {Id(k) : k \in InnerOf(l)}
     IN  Setup([hw EXCEPT
           !.cnt    = [i \in Ids |-> IF i \in inner THEN 0 ELSE @[i]],
           !.shadow = [i \in Ids |-> IF i \in inner THEN 0 ELSE @[i]]],
           After(prog, l))

Next ==
  \E l \in Loops(prog) :
    \/ Pre(l) \/ RootBounds(l) \/ SetupCount(l) \/ InnerBounds(l)
    \/ Head(l) \/ Step(l) \/ BackHw(l) \/ BackSw(l) \/ ClearInner(l)

\* A core that is clocked executes its next instruction.
Spec == Init /\ [][Next]_vars /\ WF_vars(Next)

-----------------------------------------------------------------------------
(***************************************************************************)
(* Properties                                                              *)
(***************************************************************************)
TypeOK ==
  /\ sel \subseteq Loops(prog)
  /\ cntWidth \in 1 .. Width
  /\ pc = Done \/ pc \in {"pre", "bounds", "count", "inner", "head", "step", "back", "clear"}
                         \X Loops(prog)
  /\ iv \in [Loops(prog) -> 0 .. 2^Width - 1]
  /\ hw.loop \in [Ids -> Loops(prog) \cup {0}]
  /\ hw.cnt \in [Ids -> 0 .. 2^cntWidth - 1]
  /\ hw.shadow \in [Ids -> 0 .. 2^cntWidth - 1]
  /\ hw.fsm \in {"DECODE", "DECODE_HWLOOP"}

\* At the end of an iteration of a configured loop its counter holds the
\* number of iterations that the original back branch would still grant,
\* this one included: n steps from now, and no earlier, the induction
\* variable is at the bound.
CounterIsDistance ==
  \A l \in sel : pc = <<"back", l>> =>
    LET n     == hw.cnt[Id(l)] - 1
        at(k) == Word(iv[l] + k * prog.step[l], Width)
        bound == BoundValue(prog, l, Width)
    IN  n >= 0 /\ at(n) = bound /\ \A k \in 0 .. n - 1 : at(k) # bound

\* While control is inside a configured loop, past its setup, the address
\* registers of its id are its own: no other loop of the program has taken
\* them over.
OwnBounds ==
  \A l \in sel : Within(prog, pc, l) => hw.loop[Id(l)] = l

\* Outside every hardware loop all counters are zero, so that no end address
\* left over from an earlier group can send control back.
NoStaleCounter ==
  (\A l \in sel : /\ ~Within(prog, pc, l)
                  /\ pc \notin {"bounds", "count", "inner", "clear"} \X {l})
    => \A i \in Ids : hw.cnt[i] = 0

\* The patched program runs the bodies the original program runs, in its
\* order and as often: the setup points are invisible.
OriginalPc ==
  CASE pc[1] \in {"bounds", "count", "inner"} -> <<"head", pc[2]>>
    [] pc[1] = "clear"                        -> After(prog, pc[2])
    [] OTHER                                  -> pc

Original == INSTANCE LoopNest WITH pc <- OriginalPc

ImplementsOriginal == Original!Spec

\* The patched program ends.
Terminates == <>(pc = Done)
=============================================================================
