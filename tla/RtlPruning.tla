------------------------------ MODULE RtlPruning ------------------------------
(***************************************************************************)
(* Which parts of the core a program does not need: the analyses           *)
(* (alu_usage.py, instruction_usage.py, pruning.py), the configuration     *)
(* made from them (PruneConfig.from_analysis) and the case items, CSR      *)
(* registers and parameters RTLPruner.apply changes.  A program is         *)
(* [mnemonics, csrs]; NoBinary stands for one that does not exist.         *)
(***************************************************************************)
EXTENDS SpecializedDecoder

NoBinary == [mnemonics |-> {}, csrs |-> {}]

Exists(b) == b.mnemonics # {}

MnemonicsOfAluOp ==
  [ADD |-> {"add", "addi", "lw", "lh", "lhu", "lb", "lbu", "sw", "sh", "sb", "jal", "jalr", "mul", "mulh",
            "mulhsu", "mulhu", "div", "divu", "rem", "remu"},
   SUB |-> {"sub"}, AND |-> {"and", "andi", "csrrc", "csrrci"},
   OR |-> {"or", "ori", "csrrw", "csrrs", "csrrwi", "csrrsi"}, XOR |-> {"xor", "xori"},
   SLL |-> {"sll", "slli"}, SRL |-> {"srl", "srli"}, SRA |-> {"sra", "srai"}, SLTS |-> {"slt", "slti"},
   SLTU |-> {"sltu", "sltiu"}, LUI |-> {"lui"}, AUIPC |-> {"auipc"}, EQ |-> {"beq"}, NE |-> {"bne"},
   LTS |-> {"blt"}, GES |-> {"bge"}, LTU |-> {"bltu"}, GEU |-> {"bgeu"}]

PulpOps ==
  {"ABS", "CLIP", "CLIPU", "INS", "BEXT", "BEXTU", "BINS", "BCLR", "BSET", "BREV", "FF1", "FL1", "CNT", "CLB",
   "MIN", "MINU", "MAX", "MAXU", "EXTS", "EXT", "ROR", "SHUF", "SHUF2", "PCKLO", "PCKHI"}

AllAluOps == DOMAIN MnemonicsOfAluOp \cup PulpOps

EssentialOps == {"ADD", "SUB"}

AluMnemonics(b) ==
  {n[2] : n \in {m \in b.mnemonics : ~m[1]}}
    \cup {CompressedMap[n[2]] : n \in {m \in b.mnemonics : m[1] /\ m[2] \in DOMAIN CompressedMap}}

UsedAluOps(b) ==
  {op \in DOMAIN MnemonicsOfAluOp : MnemonicsOfAluOp[op] \cap AluMnemonics(b) # {}} \cup EssentialOps

AllMulModes == {"MUL_MAC32", "MUL_MSU32", "MUL_I", "MUL_IR", "MUL_DOT8", "MUL_DOT16", "MUL_H"}

\* The modes of PULP are unreachable without it.
UsedMulModes(b) ==
  {mode \in {"MUL_MAC32", "MUL_H"} :
     \E n \in (IF mode = "MUL_H" THEN {"mulh", "mulhsu", "mulhu"} ELSE {"mul"}) : <<FALSE, n>> \in b.mnemonics}

\* Verilator's testbench needs these whatever the program reads.
VerilatorRequired == {"mstatus", "mepc", "mcause", "mtvec", "mie", "mip", "mhartid"}

\* mcountinhibit (0x320) has no name in CSR_NAMES.
NamedCsrs(b) == b.csrs \ {"mcountinhibit"}

Profile(b) ==
  [required |-> VerilatorRequired \cup NamedCsrs(b),
   interrupts |-> {"mie", "mtvec"} \cap NamedCsrs(b) # {} \/ <<FALSE, "mret">> \in b.mnemonics]

\* A fused binary is the sole source; otherwise the binary of the core and
\* the one Spike ran are merged, but the profile is the core's alone.
Analysis(bins) ==
  LET main == IF Exists(bins.fused) THEN bins.fused ELSE IF Exists(bins.core) THEN bins.core ELSE bins.spike
      all  == IF Exists(bins.fused) THEN {bins.fused} ELSE {bins.core, bins.spike}
  IN  [used |-> UNION {b.mnemonics : b \in all},
       alu |-> UNION {UsedAluOps(b) : b \in all},
       mul |-> UNION {UsedMulModes(b) : b \in all},
       profile |-> Profile(main)]

\* The binary the simulator runs.
Running(bins) ==
  IF Exists(bins.fused) THEN bins.fused ELSE IF Exists(bins.core) THEN bins.core ELSE bins.spike

CsrLabels ==
  {"mstatus", "misa", "mie", "mtvec", "mscratch", "mepc", "mcause", "mip", "mtval", "mhartid", "mvendorid",
   "marchid", "mimpid", "mcounteren", "mcountinhibit", "mcycle", "mcycleh", "minstret", "minstreth"}

CsrStorage == {"mscratch", "mtval", "dscratch0", "dscratch1", "dcsr", "depc", "mcounteren"}

\* ENABLE_MULH looks for mulh and mulhsu only.
Uses(used, names) == \E n \in names : <<FALSE, n>> \in used

PruneConfig(a) ==
  [removable_alu_ops |-> AllAluOps \ a.alu,
   removable_csr_labels |-> CsrLabels \ a.profile.required,
   removable_csr_storage |-> CsrStorage \ a.profile.required,
   removable_mul_modes |-> AllMulModes \ a.mul,
   enable_hpm |-> FALSE,
   enable_interrupts |-> a.profile.interrupts,
   enable_debug |-> Uses(a.used, {"ebreak"}),
   params |-> [DIV  |-> Uses(a.used, {"div", "divu", "rem", "remu"}),
               MUL  |-> Uses(a.used, {"mul", "mulh", "mulhsu", "mulhu"}),
               MULH |-> Uses(a.used, {"mulh", "mulhsu"}),
               SLEEP |-> Uses(a.used, {"wfi"}),
               COMPRESSED |-> \E m \in a.used : m[1],
               POPCNT |-> FALSE, FF1 |-> FALSE]]

(***************************************************************************)
(* The core before pruning: the case items of cv32e40p_alu.sv and of the    *)
(* read mux of cv32e40p_cs_registers.sv (PULP_SECURE = 0).  The items that *)
(* no list of removable CSRs can cover (floating point, hardware loops,    *)
(* uhartid, privlv, zfinx) are left out.                                   *)
(***************************************************************************)
AluItems ==
  LET in(case, items) == {<<case, labels>> : labels \in items}
      signed == {"GTS", "GES", "LTS", "LES", "SLTS", "SLETS"}
      minmax == {"MIN", "MINU", "MAX", "MAXU"}
      adder  == {"ADD", "ADDR", "ADDU", "ADDUR", "SUB", "SUBR", "SUBU", "SUBUR", "SLL", "SRL", "SRA", "ROR"}
  IN  in("cmp_signed", {signed \cup {"MIN", "MAX", "ABS", "CLIP", "CLIPU"}})
        \cup in("cmp_result", {{"EQ"}, {"NE"}, {"GTS", "GTU"}, {"GES", "GEU"}, {"LTS", "SLTS", "LTU", "SLTU"},
                               {"SLETS", "SLETU", "LES", "LEU"}})
        \cup in("ff_input", {{"FF1"}, {"DIVU", "REMU", "FL1"}, {"DIV", "REM", "CLB"}})
        \cup in("bitop", {{"FF1"}, {"FL1"}, {"CNT"}, {"CLB"}})
        \cup in("result", {{"AND"}, {"OR"}, {"XOR"}, adder, {"BINS", "BEXT", "BEXTU"}, {"BCLR"}, {"BSET"}, {"BREV"},
                           {"SHUF", "SHUF2", "PCKLO", "PCKHI", "EXT", "EXTS", "INS"}, minmax, {"ABS"},
                           {"CLIP", "CLIPU"}, {"EQ", "NE", "GTU", "GEU", "LTU", "LEU", "GTS", "GES", "LTS", "LES"},
                           {"SLTS", "SLTU", "SLETS", "SLETU"}, {"FF1", "FL1", "CLB", "CNT"},
                           {"DIV", "DIVU", "REM", "REMU"}})

\* The items in the debug block of the read mux.
DebugCsrs == {"tinfo", "dcsr", "dpc", "dscratch0", "dscratch1"}

CsrItems ==
  {{c} : c \in {"mstatus", "misa", "mie", "mtvec", "mscratch", "mepc", "mcause", "mip", "mhartid", "mvendorid",
                "marchid", "mimpid", "mtval", "mcountinhibit", "mhpmevent", "tdata1", "tdata2"} \cup DebugCsrs}
    \cup {{"tselect", "tdata3", "mcontext", "scontext"},
          {"mcycle", "minstret", "mhpmcounter", "cycle", "instret"}, {"mcycleh", "minstreth", "mhpmcounterh"}}

HpmCsrs == {"mhpmcounter", "mhpmcounterh", "mhpmevent"}

\* Seeded fault: one removable label is enough.
PruneAluCasesAny(items, removable) == {i \in items : i[2] \cap removable = {}}

\* An item goes only when all of its labels are removable.
PruneAluCases(items, removable) == {i \in items : ~(i[2] \subseteq removable)}

\* Seeded fault: the removable labels are tested one by one.
PruneCsrCasesAny(items, config) ==
  {i \in items : ~(~config.enable_hpm /\ i \subseteq HpmCsrs) /\ i \cap config.removable_csr_labels = {}}

PruneCsrCases(items, config) ==
  {i \in items : ~(~config.enable_hpm /\ i \subseteq HpmCsrs) /\ ~(i \subseteq config.removable_csr_labels)}

\* A register that loses its storage is always '0.
CsrRegisters(config) == {"mscratch", "dscratch0", "dscratch1", "dcsr", "depc"} \ config.removable_csr_storage

DebugRegisters == {"dscratch0", "dscratch1", "dcsr", "depc"}

\* The register behind a CSR, as the list of removable storage names it: for
\* dpc, another name than the analysis gives to the CSR.
StorageOf(c) == IF c = "dpc" THEN "depc" ELSE c

\* The ENABLE_ parameters are declared with the value 1, and neither the
\* simulation nor the synthesis overrides them.
ParameterValue(params, p) == TRUE
=============================================================================
