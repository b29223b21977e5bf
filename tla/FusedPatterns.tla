---------------------------- MODULE FusedPatterns ----------------------------
(***************************************************************************)
(* The 2-gram patterns of the .md files, and how the RTL of each is made.  *)
(* A pattern is                                                            *)
(*   [ops |-> <<first, second>>, imm |-> positions of 5-bit immediates,    *)
(*    rev |-> the first result is the second operand of the second op]     *)
(***************************************************************************)
EXTENDS Naturals, FiniteSets, Sequences

LogicOps == {"and", "or", "xor"}
ShiftOps == {"sll", "srl", "sra"}
AdderOps == {"add", "sub"}
NonCommutative == {"sub", "sll", "srl", "sra", "slt", "sltu"}
AluOps == {"add", "and", "or", "xor", "mul"} \union NonCommutative
ImmediateOps == AluOps \ {"sub", "mul"}

DspUnfriendly(ops) ==
  /\ "mul" \in {ops[1], ops[2]}
  /\ ops \notin {<<"mul", s>> : s \in AdderOps} \union {<<s, "mul">> : s \in AdderOps}

StaticPatterns ==
  {p \in [ops : AluOps \X AluOps, imm : {{}}, rev : BOOLEAN] :
      ~DspUnfriendly(p.ops) /\ (p.rev => p.ops[2] \in NonCommutative)}

ParametricPatterns ==
  {p \in [ops : AluOps \X AluOps, imm : (SUBSET {1, 2}) \ {{}}, rev : {FALSE}] :
      /\ \A i \in p.imm : p.ops[i] \in ImmediateOps
      /\ "mul" \notin {p.ops[1], p.ops[2]}}

Patterns == StaticPatterns \union ParametricPatterns

(***************************************************************************)
(* A fused operation of the RTL: mnemonics, their resolved form with       *)
(* "not" for a folded xori, the positions of immediates, the variant, the  *)
(* immediates of the first parametric step seen in the binary.             *)
(***************************************************************************)
Cheap(op, i) == op.resolved[i] \in LogicOps \union {"not"} \/ (op.resolved[i] \in ShiftOps /\ i \in op.imm)

AdderStep(op) == CHOOSE i \in 1..2 : op.resolved[i] \in AdderOps

Strategy(op) ==
  LET adders == {i \in 1..2 : op.resolved[i] \in AdderOps}
  IN  IF Cardinality(adders) = 1 /\ (\A i \in 1..2 \ adders : Cheap(op, i)) THEN "reuse_adder"
      ELSE IF adders = {} /\ 1 \in op.imm /\ op.ops[1] \in ShiftOps /\ op.ops[2] \in LogicOps
      THEN "reuse_shifter"
      ELSE "inline"

FirstParamStep(op) == 1 \in op.imm /\ op.ops[1] \in ShiftOps \union {"and"}

ExecutionUnit(p) == IF "mul" \in {p.ops[1], p.ops[2]} THEN "mult" ELSE "alu"

MultPattern(p) ==
  CASE p.ops = <<"mul", "add">> -> "mac"
    [] p.ops = <<"mul", "sub">> /\ p.rev -> "msu"
    [] p.ops = <<"mul", "sub">> /\ ~p.rev -> "mul_post_sub"
    [] OTHER -> "pre_compute"

(***************************************************************************)
(* What the patches around the generated code connect: the bus that takes  *)
(* the immediate fields from the decoder to the ALU, and the multiplexers  *)
(* in front of the adder.                                                  *)
(***************************************************************************)
NeedsFusedImm(op) == op.imm # {}
NeedsAdderReuse(op) == op.unit = "alu" /\ Strategy(op) = "reuse_adder"

Wires(ops) ==
  (IF \E op \in ops : NeedsFusedImm(op) THEN {"fused_imm"} ELSE {})
    \union (IF \E op \in ops : NeedsAdderReuse(op) THEN {"fused_adder"} ELSE {})
==============================================================================
