---------------------------- MODULE FusedDatapath ----------------------------
(***************************************************************************)
(* What a fused instruction means and what the generated SystemVerilog     *)
(* makes of it.  Words are W bits wide instead of 32; shift amounts and    *)
(* immediates are below W instead of 32, so a word is as long as a shift   *)
(* can be.                                                                 *)
(***************************************************************************)
EXTENDS FusedOps, Integers

CONSTANTS Operands,                                   \* the register values tried
          WordAnd(_, _), WordOr(_, _), WordXor(_, _)  \* the logic operations on words

ASSUME DatapathAssumption ==
  /\ Operands \subseteq 0..(2^W - 1)
  /\ \A x, y \in 0..(2^W - 1) : {WordAnd(x, y), WordOr(x, y), WordXor(x, y)} \subseteq 0..(2^W - 1)

Size == 2^W

Signed(x, n) == IF x >= 2^(n - 1) THEN x - 2^n ELSE x

Truth(b) == IF b THEN 1 ELSE 0

Sar(x, k) == (Signed(x, W) \div 2^k) % Size

\* The instruction op of the base ISA on the registers x and y.
Rv(op, x, y) ==
  CASE op = "add" -> (x + y) % Size
    [] op = "sub" -> (x - y) % Size
    [] op = "and" -> WordAnd(x, y)
    [] op = "or" -> WordOr(x, y)
    [] op = "xor" -> WordXor(x, y)
    [] op = "sll" -> (x * 2^(y % W)) % Size
    [] op = "srl" -> x \div 2^(y % W)
    [] op = "sra" -> Sar(x, y % W)
    [] op = "slt" -> Truth(Signed(x, W) < Signed(y, W))
    [] op = "sltu" -> Truth(x < y)
    [] op = "mul" -> (x * y) % Size

-----------------------------------------------------------------------------
Fields(imm, i) == Cardinality({j \in imm : j < i})

(***************************************************************************)
(* A word as GCC emits it: rs3 and rs2 hold immediates where the pattern   *)
(* has them (the first one in rs3), register operands a, b and c else.     *)
(***************************************************************************)
FieldValue(word, imm, i) == IF Fields(imm, i) = 0 THEN word.rs3 ELSE word.rs2

Second(word, imm, i, b, c) ==
  IF i \in imm THEN FieldValue(word, imm, i)
  ELSE IF {j \in 1..i : j \notin imm} = {i} THEN b ELSE c

Meaning(p, word, a, b, c) ==
  LET y(i) == Second(word, p.imm, i, b, c)
      first == Rv(p.ops[1], a, y(1))
  IN  IF p.rev THEN Rv(p.ops[2], y(2), first) ELSE Rv(p.ops[2], first, y(2))

-----------------------------------------------------------------------------
(***************************************************************************)
(* The expressions of the generated code.  Only the arithmetic right shift *)
(* has a result wider than a word, because it is written as a concatenation*)
(* of the sign and the operand shifted to the right: n is the width of x   *)
(* and bn that of b.                                                       *)
(***************************************************************************)
Sv(op, x, n, b, bn) ==
  CASE op = "not" -> Size - 1 - (x % Size)
    [] op \in AdderOps \union LogicOps \union {"mul", "sll"} -> Rv(op, x % Size, b % Size)
    [] op = "srl" -> x \div 2^(b % W)
    [] op = "sra" -> (x + IF (x \div 2^(W - 1)) % 2 = 1 THEN (Size - 1) * 2^n ELSE 0) \div 2^(b % W)
    [] op = "slt" -> Truth(Signed(x, n) < Signed(b, bn))
    [] op = "sltu" -> Truth(x < b)

ExprWidth(op) == IF op = "sra" THEN 2 * W ELSE W

ImmWidth == CHOOSE k \in 1..W : 2^k = W

\* Seeded fault: an operation with two immediates counts as one with a single value.
MuxArmsAbove(kind) ==
  UNION {o.used : o \in {q \in ops : q.unit = "alu" /\ FirstParamStep(q) /\ q.ops[1] = kind /\ Cardinality(q.used) > 2}}

\* The immediates the shared mux of this kind of step has an arm for.
MuxArms(kind) ==
  UNION {o.used : o \in {q \in ops : q.unit = "alu" /\ FirstParamStep(q) /\ q.ops[1] = kind /\ Cardinality(q.used) >= 2}}

ParamStep(op, imm, a) ==
  LET at(v) == Rv(op.ops[1], a, v)
  IN  IF Cardinality(op.used) = 1 THEN at(CHOOSE v \in op.used : TRUE)
      ELSE IF imm \in MuxArms(op.ops[1]) THEN at(imm)
      ELSE IF op.ops[1] = "and" THEN 0 ELSE a

\* Without the bus the immediate fields read as 0, without the multiplexers the
\* adder adds the operands of the instruction.
OnBus(word, imm) ==
  IF "fused_imm" \in wires \/ imm = {} THEN word ELSE [word EXCEPT !.rs3 = 0, !.rs2 = 0]

\* The second operand of step i: a folded step takes no field and no port.
Operand(op, word, i, b, c) ==
  LET fields == {j \in op.imm : op.resolved[j] # "not"}
  IN  IF i \in fields THEN FieldValue(word, fields, i) ELSE Second(word, op.imm \ {i}, i, b, c)

OperandWidth(op, i) == IF i \in op.imm THEN ImmWidth ELSE W

FirstStep(op, word, a, b, c) == Sv(op.resolved[1], a, W, Operand(op, word, 1, b, c), OperandWidth(op, 1))

\* Only the subtraction matches the pattern that swaps the operands.
SwapsOuter(op) == op.rev /\ op.ops[2] = "sub"

InlineResult(op, word, a, b, c) ==
  LET first == FirstStep(op, word, a, b, c)
      y == Operand(op, word, 2, b, c)
  IN  IF SwapsOuter(op) THEN Rv("sub", y, first % Size)
      ELSE Sv(op.resolved[2], first, ExprWidth(op.resolved[1]), y, OperandWidth(op, 2)) % Size

AdderResult(op, word, a, b, c) ==
  LET k == AdderStep(op)
      pre == IF k = 1 THEN a
             ELSE IF FirstParamStep(op) THEN ParamStep(op, word.rs3, a)
             ELSE FirstStep(op, word, a, b, c) % Size
      y == Operand(op, word, k, b, c)
      sum == IF "fused_adder" \notin wires THEN Rv("add", a, b)
             ELSE IF op.resolved[k] = "sub" /\ op.rev THEN Rv("sub", y, pre) ELSE Rv(op.resolved[k], pre, y)
  IN  IF k = 2 THEN sum
      ELSE Sv(op.resolved[2], sum, W, Operand(op, word, 2, b, c), OperandWidth(op, 2)) % Size

ShifterResult(op, word, a, b, c) ==
  Rv(op.ops[2], ParamStep(op, word.rs3, a), Second(word, op.imm, 2, b, c))

\* The decoder selects the third register only for an operation of three inputs;
\* the port reads x0 else.
MultResult(op, a, b, c) ==
  LET third == IF op.inputs >= 3 THEN c ELSE 0
  IN  IF op.mult = "msu" THEN Rv("sub", third, (a * b) % Size) ELSE (third + a * b) % Size

Result(op, word, a, b, c) ==
  LET w == OnBus(word, op.imm)
  IN  CASE op.unit = "mult" -> MultResult(op, a, b, c)
        [] op.unit = "alu" /\ Strategy(op) = "reuse_adder" -> AdderResult(op, w, a, b, c)
        [] op.unit = "alu" /\ Strategy(op) = "reuse_shifter" -> ShifterResult(op, w, a, b, c)
        [] op.unit = "alu" /\ Strategy(op) = "inline" -> InlineResult(op, w, a, b, c)

-----------------------------------------------------------------------------
Agrees(op, w) ==
  \A a, b \in Operands, c \in IF w.rs3 = 0 THEN {0} ELSE Operands :
      Result(op, w, a, b, c) = Meaning(md[w.slot], w, a, b, c)

\* Where the expressions are known to differ from the pattern.
ReversedOperands(op) == op.rev /\ op.ops[2] # "sub"
WideIntermediate(op) == op.resolved[1] = "sra" /\ op.ops[2] \in {"srl", "sra", "slt", "sltu"}
SignedImmediate(op) == \E i \in op.imm : op.ops[i] = "slt"
Folded(op) == \E i \in 1..2 : op.resolved[i] = "not"

\* A narrow operation of the multiplier in a group that decodes funct2 only: its
\* words are taken whatever their third register, which it does not read.
NarrowMult(op, w) == op.unit = "mult" /\ op.inputs < 3 /\ w.rs3 # 0

KnownToDiffer(op, w) ==
  ReversedOperands(op) \/ WideIntermediate(op) \/ SignedImmediate(op) \/ Folded(op) \/ NarrowMult(op, w)

(***************************************************************************)
(* Through adder steering, shared immediate muxes, multiplier re-use or    *)
(* an expression of its own, a decoded operation computes what its pattern *)
(* means, for every word of the binary outside the five classes above      *)
(* (classify_hw_strategy, ALUSingleCycleGenerator, MultPatternMatcher).    *)
(***************************************************************************)
DatapathImplementsPattern ==
  phase = "rtl" =>
    \A w \in words, op \in ops : Decodes(op, w) /\ ~KnownToDiffer(op, w) => Agrees(op, w)

(***************************************************************************)
(* A reversed pattern computes third register OP intermediate, as          *)
(* fusion_rtl.py:297 promises for every non-commutative operation.         *)
(***************************************************************************)
ReversedImplementsPattern ==
  phase = "rtl" =>
    \A w \in words, op \in ops : Decodes(op, w) /\ op.rev /\ ~WideIntermediate(op) => Agrees(op, w)
==============================================================================
