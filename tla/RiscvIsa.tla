------------------------------- MODULE RiscvIsa -------------------------------
(***************************************************************************)
(* The instruction database of the analysis (isa_db.py) and its mnemonic   *)
(* tables.  An entry gives the fields that select the instruction and the  *)
(* decoder outputs that differ from the decoder's defaults.  SYSTEM        *)
(* instructions have no entry here: their part of the decoder is copied.   *)
(***************************************************************************)
EXTENDS Naturals, FiniteSets

Open == 255   \* a field the entry leaves open

DefaultSignals ==
  [ctrl |-> "none", target |-> "jal", alu_en |-> 1, alu |-> "SLTU", a |-> "rega", b |-> "regb",
   c |-> "regc", imm |-> "I", mult_en |-> 0, mult |-> "MUL_I", mult_signed |-> 0, mem_we |-> 0,
   alu_we |-> 0, data_we |-> 0, data_type |-> "word", data_sign |-> 0, data_req |-> 0,
   fencei |-> 0, rega |-> 0, regb |-> 0, regc |-> 0, illegal |-> 0]

Entry(opcode, f3, f7, signals) == [opcode |-> opcode, f3 |-> f3, f7 |-> f7, signals |-> signals]

UpperTypes ==
  LET upper == [DefaultSignals EXCEPT !.b = "imm", !.alu = "ADD", !.alu_we = 1]
      link  == [upper EXCEPT !.a = "pc", !.imm = "PCINCR"]
  IN  [lui   |-> Entry("LUI", Open, Open, [upper EXCEPT !.a = "imm", !.imm = "U"]),
       auipc |-> Entry("AUIPC", Open, Open, [upper EXCEPT !.a = "pc", !.imm = "U"]),
       jal   |-> Entry("JAL", Open, Open, [link EXCEPT !.ctrl = "jal", !.target = "jal"]),
       jalr  |-> Entry("JALR", 0, Open, [link EXCEPT !.ctrl = "jalr", !.target = "jalr", !.rega = 1])]

Branches ==
  LET e(f3, alu) == Entry("BRANCH", f3, Open,
        [DefaultSignals EXCEPT !.ctrl = "cond", !.target = "cond", !.c = "jt", !.rega = 1, !.regb = 1, !.alu = alu])
  IN  [beq |-> e(0, "EQ"), bne |-> e(1, "NE"), blt |-> e(4, "LTS"), bge |-> e(5, "GES"),
       bltu |-> e(6, "LTU"), bgeu |-> e(7, "GEU")]

Loads ==
  LET e(f3, type, sign) == Entry("LOAD", f3, Open,
        [DefaultSignals EXCEPT !.data_req = 1, !.mem_we = 1, !.rega = 1, !.alu = "ADD", !.b = "imm",
                               !.data_type = type, !.data_sign = sign])
  IN  [lb |-> e(0, "byte", 1), lh |-> e(1, "half", 1), lw |-> e(2, "word", 0),
       lbu |-> e(4, "byte", 0), lhu |-> e(5, "half", 0)]

Stores ==
  LET e(f3, type) == Entry("STORE", f3, Open,
        [DefaultSignals EXCEPT !.data_req = 1, !.data_we = 1, !.rega = 1, !.regb = 1, !.alu = "ADD",
                               !.c = "regb", !.imm = "S", !.b = "imm", !.data_type = type])
  IN  [sb |-> e(0, "byte"), sh |-> e(1, "half"), sw |-> e(2, "word")]

OpImms ==
  LET e(f3, f7, alu) == Entry("OPIMM", f3, f7,
        [DefaultSignals EXCEPT !.b = "imm", !.alu_we = 1, !.rega = 1, !.alu = alu])
  IN  [addi |-> e(0, Open, "ADD"), slti |-> e(2, Open, "SLTS"), sltiu |-> e(3, Open, "SLTU"),
       xori |-> e(4, Open, "XOR"), ori |-> e(6, Open, "OR"), andi |-> e(7, Open, "AND"),
       slli |-> e(1, 0, "SLL"), srli |-> e(5, 0, "SRL"), srai |-> e(5, 32, "SRA")]

Registers == [DefaultSignals EXCEPT !.alu_we = 1, !.rega = 1, !.regb = 1]

Ops ==
  LET e(f3, f7, alu) == Entry("OP", f3, f7, [Registers EXCEPT !.alu = alu])
  IN  [add |-> e(0, 0, "ADD"), sub |-> e(0, 32, "SUB"), sll |-> e(1, 0, "SLL"), slt |-> e(2, 0, "SLTS"),
       sltu |-> e(3, 0, "SLTU"), xor |-> e(4, 0, "XOR"), srl |-> e(5, 0, "SRL"), sra |-> e(5, 32, "SRA"),
       or |-> e(6, 0, "OR"), and |-> e(7, 0, "AND")]

MulDivs ==
  LET m(f3, op, signed, c) == Entry("OP", f3, 1, [Registers EXCEPT !.alu_en = 0, !.mult_en = 1,
                                      !.mult = op, !.mult_signed = signed, !.regc = c])
      d(f3, alu) == Entry("OP", f3, 1, [Registers EXCEPT !.a = "regb", !.b = "rega", !.alu = alu])
  IN  [mul |-> m(0, "MUL_MAC32", 0, 0), mulh |-> m(1, "MUL_H", 3, 1), mulhsu |-> m(2, "MUL_H", 1, 1),
       mulhu |-> m(3, "MUL_H", 0, 1), div |-> d(4, "DIV"), divu |-> d(5, "DIVU"),
       rem |-> d(6, "REM"), remu |-> d(7, "REMU")]

Fences ==
  LET e(f3) == Entry("FENCE", f3, Open, [DefaultSignals EXCEPT !.fencei = 1])
  IN  [fence |-> e(0), fence_i |-> e(1)]

TableOf(n) ==
  CHOOSE t \in {UpperTypes, Branches, Loads, Stores, OpImms, Ops, MulDivs, Fences} : n \in DOMAIN t

Mnemonics ==
  UNION {DOMAIN t : t \in {UpperTypes, Branches, Loads, Stores, OpImms, Ops, MulDivs, Fences}}

ISA_DB == [n \in Mnemonics |-> TableOf(n)[n]]
=============================================================================
