--------------------------- MODULE SpecializedDecoder ---------------------------
(***************************************************************************)
(* The decoder generated for the instructions of a program (decoder_gen.py *)
(* and generate_specialized_decoder) beside the decoder it replaces        *)
(* (cv32e40p_decoder.sv).  A word is [opcode, f3, f7], and decoding it      *)
(* gives the outputs that DefaultSignals names.                            *)
(***************************************************************************)
EXTENDS RiscvIsa

CompressedMap ==
  [add |-> "add", mv |-> "add", li |-> "addi", lui |-> "lui", addi |-> "addi", addi4spn |-> "addi",
   addi16sp |-> "addi", nop |-> "addi", slli |-> "slli", srli |-> "srli", srai |-> "srai",
   andi |-> "andi", sub |-> "sub", xor |-> "xor", or |-> "or", and |-> "and", lw |-> "lw",
   lwsp |-> "lw", sw |-> "sw", swsp |-> "sw", beqz |-> "beq", bnez |-> "bne", j |-> "jal",
   jal |-> "jal", jr |-> "jalr", jalr |-> "jalr", ebreak |-> "ebreak"]

\* A program uses pairs <<c, n>>: c.n when c, and n otherwise.
BaseMnemonics(used) ==
  LET base(u) == IF u[1] /\ u[2] \in DOMAIN CompressedMap THEN {CompressedMap[u[2]]}
                 ELSE IF ~u[1] /\ u[2] \in {"fence", "fence_i"} THEN {"fence", "fence_i"}
                 ELSE {u[2]}
  IN  (UNION {base(u) : u \in used}) \cup {"ecall", "mret", "ebreak", "wfi", "fence", "fence_i"}

Subset(used) == BaseMnemonics(used) \cap Mnemonics

Illegal == [DefaultSignals EXCEPT !.illegal = 1]

SimpleOpcodes == {"LUI", "AUIPC", "JAL"}

OpcodeSimple(entries, w) == (CHOOSE e \in entries : TRUE).signals

OpcodeWithFunct3(entries, w) ==
  IF \E e \in entries : e.f3 = w.f3 THEN (CHOOSE e \in entries : e.f3 = w.f3).signals ELSE Illegal

OpcodeBranch(entries, w) ==
  LET hoisted == [DefaultSignals EXCEPT !.ctrl = "cond", !.target = "cond", !.c = "jt", !.rega = 1, !.regb = 1]
  IN  IF \E e \in entries : e.f3 = w.f3
      THEN [hoisted EXCEPT !.alu = (CHOOSE e \in entries : e.f3 = w.f3).signals.alu]
      ELSE [hoisted EXCEPT !.illegal = 1]

\* Sign extension is bit 14 inverted, whatever instructions are left.
OpcodeLoad(entries, w) ==
  LET hoisted == [DefaultSignals EXCEPT !.data_req = 1, !.mem_we = 1, !.rega = 1, !.alu = "ADD", !.b = "imm",
                                        !.data_sign = IF w.f3 < 4 THEN 1 ELSE 0]
  IN  IF \E e \in entries : e.f3 = w.f3
      THEN [hoisted EXCEPT !.data_type = (CHOOSE e \in entries : e.f3 = w.f3).signals.data_type]
      ELSE [hoisted EXCEPT !.illegal = 1]

OpcodeStore(entries, w) ==
  LET hoisted == [DefaultSignals EXCEPT !.data_req = 1, !.data_we = 1, !.rega = 1, !.regb = 1, !.alu = "ADD",
                                        !.c = "regb", !.imm = "S", !.b = "imm"]
  IN  IF \E e \in entries : e.f3 = w.f3
      THEN [hoisted EXCEPT !.data_type = (CHOOSE e \in entries : e.f3 = w.f3).signals.data_type]
      ELSE [hoisted EXCEPT !.illegal = 1, !.data_req = 0, !.data_we = 0]

\* Seeded fault: a shift left alone at its funct3 is emitted without its funct7.
OpcodeOpimmLone(entries, w) ==
  LET of_f3 == {e \in entries : e.f3 = w.f3}
      hoisted == [DefaultSignals EXCEPT !.b = "imm", !.alu_we = 1, !.rega = 1]
      match == IF Cardinality(of_f3) = 1 THEN of_f3 ELSE {e \in of_f3 : e.f7 = w.f7}
  IN  IF match # {} THEN [hoisted EXCEPT !.alu = (CHOOSE e \in match : TRUE).signals.alu]
      ELSE [hoisted EXCEPT !.illegal = 1]

\* The funct7 of a shift is compared whether or not its funct3 has a second entry.
OpcodeOpimm(entries, w) ==
  LET hoisted == [DefaultSignals EXCEPT !.b = "imm", !.alu_we = 1, !.rega = 1]
      of_f3   == {e \in entries : e.f3 = w.f3}
      match   == {e \in of_f3 : e.f7 = Open \/ e.f7 = w.f7}
  IN  IF match # {} THEN [hoisted EXCEPT !.alu = (CHOOSE e \in match : TRUE).signals.alu]
      ELSE IF Cardinality(of_f3) = 1
      THEN [hoisted EXCEPT !.alu = (CHOOSE e \in of_f3 : TRUE).signals.alu, !.illegal = 1]
      ELSE [hoisted EXCEPT !.illegal = 1]

\* The case key is {bits 30:25, bits 14:12}: bit 31 is not looked at.
OpcodeOp(entries, w) ==
  LET match == {e \in entries : e.f3 = w.f3 /\ e.f7 = w.f7 % 64}
  IN  IF match # {} THEN (CHOOSE e \in match : TRUE).signals
      ELSE [DefaultSignals EXCEPT !.alu_we = 1, !.rega = 1, !.illegal = 1]

OpcodeFence(entries, w) ==
  IF \E e \in entries : e.f3 = w.f3 THEN [DefaultSignals EXCEPT !.fencei = 1] ELSE Illegal

OpcodeBlock(opcode, entries, w) ==
  CASE opcode \in SimpleOpcodes -> OpcodeSimple(entries, w)
    [] opcode = "JALR"   -> OpcodeWithFunct3(entries, w)
    [] opcode = "BRANCH" -> OpcodeBranch(entries, w)
    [] opcode = "LOAD"   -> OpcodeLoad(entries, w)
    [] opcode = "STORE"  -> OpcodeStore(entries, w)
    [] opcode = "OPIMM"  -> OpcodeOpimm(entries, w)
    [] opcode = "OP"     -> OpcodeOp(entries, w)
    [] opcode = "FENCE"  -> OpcodeFence(entries, w)

\* The case body holds a block for each opcode that still has an instruction.
Specialized(subset, w) ==
  LET entries == {ISA_DB[n] : n \in {k \in subset : ISA_DB[k].opcode = w.opcode}}
  IN  IF entries = {} THEN Illegal ELSE OpcodeBlock(w.opcode, entries, w)

(***************************************************************************)
(* cv32e40p_decoder.sv with COREV_PULP = 0 and FPU = 0.                    *)
(***************************************************************************)
Pick(table, f3) == IF f3 \in DOMAIN table THEN table[f3] ELSE "illegal"

OriginalBranch(w) ==
  LET op == Pick([f \in {0, 1, 4, 5, 6, 7} |-> <<"EQ", "NE", "", "", "LTS", "GES", "LTU", "GEU">>[f + 1]], w.f3)
      s  == [DefaultSignals EXCEPT !.ctrl = "cond", !.target = "cond", !.c = "jt", !.rega = 1, !.regb = 1]
  IN  IF op = "illegal" THEN [s EXCEPT !.illegal = 1] ELSE [s EXCEPT !.alu = op]

OriginalMemory(w) ==
  LET type  == Pick([f \in (IF w.opcode = "LOAD" THEN {0, 1, 2, 4, 5} ELSE 0..2) |->
                       <<"byte", "half", "word", "", "byte", "half">>[f + 1]], w.f3)
      load  == [DefaultSignals EXCEPT !.data_req = 1, !.mem_we = 1, !.rega = 1, !.alu = "ADD", !.b = "imm",
                                      !.data_sign = 1 - (w.f3 \div 4)]
      store == [DefaultSignals EXCEPT !.data_req = 1, !.data_we = 1, !.rega = 1, !.regb = 1, !.alu = "ADD",
                                      !.c = "regb", !.imm = "S", !.b = "imm"]
  IN  IF type = "illegal" THEN Illegal
      ELSE [IF w.opcode = "LOAD" THEN load ELSE store EXCEPT !.data_type = type]

OriginalOpimm(w) ==
  LET op == IF w.f3 = 5 THEN (CASE w.f7 = 0 -> "SRL" [] w.f7 = 32 -> "SRA" [] OTHER -> "illegal")
            ELSE IF w.f3 = 1 /\ w.f7 # 0 THEN "illegal"
            ELSE <<"ADD", "SLL", "SLTS", "SLTU", "XOR", "", "OR", "AND">>[w.f3 + 1]
  IN  IF op = "illegal" THEN Illegal
      ELSE [DefaultSignals EXCEPT !.b = "imm", !.alu_we = 1, !.rega = 1, !.alu = op]

\* Prefixes 11 and 10 (bits 31:30) are floating point, or illegal.
OriginalOp(w) ==
  LET s   == [DefaultSignals EXCEPT !.alu_we = 1, !.rega = 1, !.regb = 1]
      alu == CASE w.f7 = 0 -> <<"ADD", "SLL", "SLTS", "SLTU", "XOR", "SRL", "OR", "AND">>[w.f3 + 1]
               [] w.f7 = 32 /\ w.f3 \in {0, 5} -> IF w.f3 = 0 THEN "SUB" ELSE "SRA"
               [] OTHER -> "illegal"
      mul == [s EXCEPT !.alu_en = 0, !.mult_en = 1, !.mult = IF w.f3 = 0 THEN "MUL_MAC32" ELSE "MUL_H",
                       !.mult_signed = <<0, 3, 1, 0>>[w.f3 + 1], !.regc = IF w.f3 = 0 THEN 0 ELSE 1]
      div == [s EXCEPT !.a = "regb", !.b = "rega", !.alu = <<"DIV", "DIVU", "REM", "REMU">>[w.f3 - 3]]
  IN  IF w.f7 >= 64 \/ (w.f7 # 1 /\ alu = "illegal") THEN Illegal
      ELSE IF w.f7 = 1 THEN IF w.f3 < 4 THEN mul ELSE div
      ELSE [s EXCEPT !.alu = alu]

OriginalUpper(w) ==
  LET s == [DefaultSignals EXCEPT !.b = "imm", !.alu = "ADD", !.alu_we = 1]
  IN  CASE w.opcode = "LUI"   -> [s EXCEPT !.a = "imm", !.imm = "U"]
        [] w.opcode = "AUIPC" -> [s EXCEPT !.a = "pc", !.imm = "U"]
        [] w.opcode = "JAL"   -> [s EXCEPT !.a = "pc", !.imm = "PCINCR", !.ctrl = "jal"]
        [] w.opcode = "JALR"  -> IF w.f3 # 0 THEN Illegal
                                 ELSE [s EXCEPT !.a = "pc", !.imm = "PCINCR", !.ctrl = "jalr",
                                                !.target = "jalr", !.rega = 1]

Original(w) ==
  CASE w.opcode = "BRANCH" -> OriginalBranch(w)
    [] w.opcode \in {"LOAD", "STORE"} -> OriginalMemory(w)
    [] w.opcode = "OPIMM" -> OriginalOpimm(w)
    [] w.opcode = "OP" -> OriginalOp(w)
    [] w.opcode = "FENCE" -> IF w.f3 \in {0, 1} THEN [DefaultSignals EXCEPT !.fencei = 1] ELSE Illegal
    [] OTHER -> OriginalUpper(w)
=============================================================================
