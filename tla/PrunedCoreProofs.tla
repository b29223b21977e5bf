--------------------------- MODULE PrunedCoreProofs ---------------------------
(***************************************************************************)
(* Theorems about PrunedCore, for every set of workspaces, every core text *)
(* and every set of words.                                                 *)
(***************************************************************************)
EXTENDS PrunedCore, Integers, WellFoundedInduction, TLAPS

\* The pruning behind each phase: what the configuration is, and why a CSR
\* case item or register is missing.
Stripped == phase \in {"dce", "encoding", "done"}

Pruned == phase \in {"decoder", "pragmas", "dce", "encoding", "done"}

RemovedItem(i) ==
  \/ i \subseteq HpmCsrs
  \/ i \subseteq config.removable_csr_labels
  \/ Stripped /\ i \subseteq DebugCsrs

CsrInv ==
  /\ phase \in {"analysis", "gate", "decoder", "pragmas", "dce", "encoding", "done"}
  /\ {"alu", "csr", "registers", "decoder", "params", "lines", "enums"} \subseteq DOMAIN rtl
  /\ phase # "analysis" => config = PruneConfig(Analysis(bins))
  /\ ~Pruned => rtl.csr = CsrItems
  /\ Pruned => /\ \A i \in CsrItems \ rtl.csr : RemovedItem(i)
               /\ rtl.registers = CsrRegisters(config) \ (IF Stripped THEN DebugRegisters ELSE {})

Fields == {"alu", "csr", "registers", "decoder", "params", "lines", "enums"} \subseteq DOMAIN rtl

LEMMA TypeInit == Init => TypeOK /\ Fields
  BY DEF Init, TypeOK, Fields, Shipped

LEMMA TypeNext == TypeOK /\ Fields /\ [Next]_vars => (TypeOK /\ Fields)'
<1> SUFFICES ASSUME TypeOK, Fields, [Next]_vars PROVE (TypeOK /\ Fields)'
  OBVIOUS
<1>1. CASE ComputePruneConfig
  BY <1>1 DEF ComputePruneConfig, TypeOK, Fields
<1>2. CASE ApplyPruner
  <2>1. /\ DOMAIN rtl' = DOMAIN rtl /\ rtl'.decoder = rtl.decoder
        /\ rtl'.alu \subseteq rtl.alu /\ rtl'.csr \subseteq rtl.csr
    BY <1>2 DEF ApplyPruner, Fields, PruneAluCases, PruneCsrCases
  <2> QED
    BY <1>2, <2>1 DEF ApplyPruner, TypeOK, Fields
<1>3. CASE GenerateSpecializedDecoder
  <2>1. /\ DOMAIN rtl' = DOMAIN rtl /\ rtl'.alu = rtl.alu /\ rtl'.csr = rtl.csr
        /\ rtl'.decoder = Subset(Analysis(bins).used)
    BY <1>3 DEF GenerateSpecializedDecoder, Fields
  <2>2. rtl'.decoder \subseteq Mnemonics
    BY <2>1 DEF Subset
  <2> QED
    BY <1>3, <2>1, <2>2 DEF GenerateSpecializedDecoder, TypeOK, Fields
<1>4. CASE ApplyPragmas \/ ApplyDceCleanup \/ ApplyEncodingOptimization
  <2>1. /\ DOMAIN rtl' = DOMAIN rtl /\ rtl'.alu = rtl.alu /\ rtl'.csr \subseteq rtl.csr /\ rtl'.decoder = rtl.decoder
    BY <1>4 DEF ApplyPragmas, ApplyDceCleanup, ApplyEncodingOptimization, Fields
  <2> QED
    BY <1>4, <2>1 DEF ApplyPragmas, ApplyDceCleanup, ApplyEncodingOptimization, TypeOK, Fields
<1>5. CASE UNCHANGED vars
  BY <1>5 DEF vars, TypeOK, Fields
<1> QED
  BY <1>1, <1>2, <1>3, <1>4, <1>5 DEF Next

\* Whatever the analyses find and whichever passes fail, what is in the RTL at
\* any time is a part of the shipped core or of the decoder table (the passes
\* of pruning.py and rtl_pruning.py only remove).
THEOREM TypeCorrect == Spec => []TypeOK
<1> QED
  BY TypeInit, TypeNext, PTL DEF Spec

\* What a program accesses by a name the analysis knows is never removable.
LEMMA RequiredCsrs ==
  ASSUME NEW c \in Running(bins).csrs \ {"mcountinhibit"}
  PROVE  /\ c \notin PruneConfig(Analysis(bins)).removable_csr_labels
         /\ c \notin PruneConfig(Analysis(bins)).removable_csr_storage
<1>1. c \in Profile(Running(bins)).required
  BY DEF Profile, NamedCsrs
<1>2. Analysis(bins).profile = Profile(Running(bins))
  BY DEF Analysis, Running
<1> QED
  BY <1>1, <1>2 DEF PruneConfig

\* Only the item of mhpmevent consists of counters alone.
LEMMA CounterItems ==
  ASSUME NEW i \in CsrItems, i \subseteq HpmCsrs
  PROVE  i = {"mhpmevent"}
  BY DEF CsrItems, HpmCsrs, DebugCsrs

LEMMA CsrInvInit == Init => CsrInv
  BY DEF Init, CsrInv, Shipped, Pruned

LEMMA CsrInvNext == CsrInv /\ [Next]_vars => CsrInv'
<1> SUFFICES ASSUME CsrInv, [Next]_vars PROVE CsrInv'
  OBVIOUS
<1>1. CASE ComputePruneConfig
  BY <1>1 DEF ComputePruneConfig, CsrInv, Pruned
<1>2. CASE ApplyPruner
  <2>1. /\ phase = "gate" /\ phase' = "decoder" /\ UNCHANGED <<bins, debug, config>>
        /\ rtl.csr = CsrItems /\ config = PruneConfig(Analysis(bins))
    BY <1>2 DEF ApplyPruner, CsrInv, Pruned
  <2>2. PICK alu \in BOOLEAN, csr \in BOOLEAN :
          rtl' = [rtl EXCEPT !.params = [p \in DOMAIN rtl.params |-> ParameterValue(config.params, p)],
                             !.alu = IF alu THEN PruneAluCases(@, config.removable_alu_ops) ELSE @,
                             !.csr = IF csr THEN PruneCsrCases(@, config) ELSE @,
                             !.registers = CsrRegisters(config)]
    BY <1>2 DEF ApplyPruner
  <2>3. /\ rtl'.csr = IF csr THEN PruneCsrCases(CsrItems, config) ELSE CsrItems
        /\ rtl'.registers = CsrRegisters(config)
        /\ DOMAIN rtl' = DOMAIN rtl
    BY <2>1, <2>2 DEF CsrInv
  <2>4. \A i \in CsrItems \ rtl'.csr : RemovedItem(i)
    BY <2>3 DEF PruneCsrCases, RemovedItem
  <2> QED
    BY <2>1, <2>3, <2>4 DEF CsrInv, Pruned, Stripped, RemovedItem
<1>3. CASE GenerateSpecializedDecoder
  <2>1. /\ rtl'.csr = rtl.csr /\ rtl'.registers = rtl.registers /\ DOMAIN rtl' = DOMAIN rtl
    BY <1>3 DEF GenerateSpecializedDecoder, CsrInv
  <2> QED
    BY <1>3, <2>1 DEF GenerateSpecializedDecoder, CsrInv, Pruned, Stripped, RemovedItem
<1>4. CASE ApplyPragmas
  <2>1. /\ rtl'.csr = rtl.csr \ {{c} : c \in DebugCsrs} /\ rtl'.registers = rtl.registers \ DebugRegisters
        /\ DOMAIN rtl' = DOMAIN rtl
    BY <1>4 DEF ApplyPragmas, CsrInv
  <2>2. phase = "pragmas" /\ phase' = "dce" /\ UNCHANGED <<bins, debug, config>>
    BY <1>4 DEF ApplyPragmas
  <2>3. \A i \in CsrItems \ rtl'.csr : RemovedItem(i)'
    <3> SUFFICES ASSUME NEW i \in CsrItems, i \notin rtl'.csr PROVE RemovedItem(i)'
      OBVIOUS
    <3>1. CASE i \in rtl.csr
      <4>1. PICK c \in DebugCsrs : i = {c}  BY <2>1, <3>1
      <4> QED  BY <2>2, <4>1 DEF RemovedItem, Stripped
    <3>2. CASE i \notin rtl.csr
      <4>1. RemovedItem(i)  BY <2>2, <3>2 DEF CsrInv, Pruned
      <4> QED  BY <2>2, <4>1 DEF RemovedItem, Stripped
    <3> QED  BY <3>1, <3>2
  <2>4. rtl'.registers = CsrRegisters(config) \ DebugRegisters
    BY <2>1, <2>2 DEF CsrInv, Pruned, Stripped
  <2> QED
    BY <2>1, <2>2, <2>3, <2>4 DEF CsrInv, Pruned, Stripped
<1>5. CASE ApplyDceCleanup
  <2>1. /\ rtl'.csr = rtl.csr /\ rtl'.registers = rtl.registers /\ DOMAIN rtl' = DOMAIN rtl
    BY <1>5 DEF ApplyDceCleanup, CsrInv
  <2> QED
    BY <1>5, <2>1 DEF ApplyDceCleanup, CsrInv, Pruned, Stripped, RemovedItem
<1>6. CASE ApplyEncodingOptimization
  <2>1. /\ rtl'.csr = rtl.csr /\ rtl'.registers = rtl.registers /\ DOMAIN rtl' = DOMAIN rtl
    BY <1>6 DEF ApplyEncodingOptimization, CsrInv
  <2> QED
    BY <1>6, <2>1 DEF ApplyEncodingOptimization, CsrInv, Pruned, Stripped, RemovedItem
<1>7. CASE UNCHANGED vars
  BY <1>7 DEF vars, CsrInv, Pruned, Stripped, RemovedItem
<1> QED
  BY <1>1, <1>2, <1>3, <1>4, <1>5, <1>6, <1>7 DEF Next

LEMMA CsrInvImplies == CsrInv /\ TypeOK => CsrAccessesKept
<1> SUFFICES ASSUME CsrInv, TypeOK, Specialised,
                    NEW c \in Running(bins).csrs \ {"mcountinhibit", "mhpmevent"},
                    c \notin DebugCsrs \/ phase = "pragmas"
             PROVE  /\ {i \in CsrItems : c \in i} \subseteq rtl.csr
                    /\ c # "dpc" /\ StorageOf(c) \in Shipped.registers => StorageOf(c) \in rtl.registers
  BY DEF CsrAccessesKept
<1>1. Pruned /\ config = PruneConfig(Analysis(bins)) /\ (Stripped => phase # "pragmas")
  BY DEF CsrInv, Specialised, Pruned, Stripped
<1>2. c \notin config.removable_csr_labels /\ c \notin config.removable_csr_storage
  BY <1>1, RequiredCsrs
<1>3. ASSUME NEW i \in CsrItems, c \in i, i \notin rtl.csr PROVE FALSE
  <2>1. RemovedItem(i)
    BY <1>1, <1>3 DEF CsrInv
  <2>2. ~(i \subseteq config.removable_csr_labels)
    BY <1>2, <1>3
  <2>3. ~(Stripped /\ i \subseteq DebugCsrs)
    BY <1>1, <1>3
  <2>4. i = {"mhpmevent"}
    BY <2>1, <2>2, <2>3, CounterItems DEF RemovedItem
  <2> QED
    BY <2>4, <1>3
<1>4. ASSUME c # "dpc", StorageOf(c) \in Shipped.registers PROVE StorageOf(c) \in rtl.registers
  <2>1. StorageOf(c) = c
    BY <1>4 DEF StorageOf
  <2>2. Shipped.registers = CsrRegisters([removable_csr_storage |-> {}])
    BY DEF Shipped
  <2>3. c \in CsrRegisters(config)
    BY <1>2, <1>4, <2>1, <2>2 DEF CsrRegisters
  <2>4. ~Stripped \/ c \notin DebugRegisters
    <3>1. bins \in Workspaces /\ Running(bins) \in {bins.fused, bins.core, bins.spike}
      BY DEF TypeOK, Running
    <3>2. c # "depc"
      BY <3>1, WorkspacesAssumption
    <3> QED  BY <1>1, <1>4, <3>2 DEF DebugCsrs, DebugRegisters
  <2> QED
    BY <1>1, <2>1, <2>3, <2>4 DEF CsrInv
<1> QED
  BY <1>3, <1>4

\* Whatever binaries are found, pruning leaves every CSR that the running
\* program accesses its case items and its storage, but for the register of
\* dpc and, after the pragmas, the debug CSRs (compute_prune_config and
\* PruneConfig.from_analysis against prune_csr_cases and _prune_csr_storage).
THEOREM CsrAccessesAlwaysKept == Spec => []CsrAccessesKept
<1> QED
  BY TypeInit, TypeNext, CsrInvInit, CsrInvNext, CsrInvImplies, PTL DEF Spec

-----------------------------------------------------------------------------
(***************************************************************************)
(* The instruction table, group by group: which rows a group has, and what *)
(* an entry of it is.                                                      *)
(***************************************************************************)
UpperOf(n) ==
  LET upper == [DefaultSignals EXCEPT !.b = "imm", !.alu = "ADD", !.alu_we = 1]
      link  == [upper EXCEPT !.a = "pc", !.imm = "PCINCR"]
  IN  CASE n = "lui"   -> [upper EXCEPT !.a = "imm", !.imm = "U"]
        [] n = "auipc" -> [upper EXCEPT !.a = "pc", !.imm = "U"]
        [] n = "jal"   -> [link EXCEPT !.ctrl = "jal", !.target = "jal"]
        [] n = "jalr"  -> [link EXCEPT !.ctrl = "jalr", !.target = "jalr", !.rega = 1]

BranchOf(a) ==
  [DefaultSignals EXCEPT !.ctrl = "cond", !.target = "cond", !.c = "jt", !.rega = 1, !.regb = 1, !.alu = a]

LoadOf(type, sign) ==
  [DefaultSignals EXCEPT !.data_req = 1, !.mem_we = 1, !.rega = 1, !.alu = "ADD", !.b = "imm",
                         !.data_type = type, !.data_sign = sign]

StoreOf(type) ==
  [DefaultSignals EXCEPT !.data_req = 1, !.data_we = 1, !.rega = 1, !.regb = 1, !.alu = "ADD",
                         !.c = "regb", !.imm = "S", !.b = "imm", !.data_type = type]

ImmediateOf(a) == [DefaultSignals EXCEPT !.b = "imm", !.alu_we = 1, !.rega = 1, !.alu = a]

RegisterOf(a) == [Registers EXCEPT !.alu = a]

ProductOf(op, signed, c) ==
  [Registers EXCEPT !.alu_en = 0, !.mult_en = 1, !.mult = op, !.mult_signed = signed, !.regc = c]

QuotientOf(a) == [Registers EXCEPT !.a = "regb", !.b = "rega", !.alu = a]

FenceSignals == [DefaultSignals EXCEPT !.fencei = 1]

UpperRows == {<<"lui", "LUI", Open>>, <<"auipc", "AUIPC", Open>>, <<"jal", "JAL", Open>>, <<"jalr", "JALR", 0>>}

BranchRows == {<<"beq", 0, "EQ">>, <<"bne", 1, "NE">>, <<"blt", 4, "LTS">>, <<"bge", 5, "GES">>,
               <<"bltu", 6, "LTU">>, <<"bgeu", 7, "GEU">>}

LoadRows == {<<"lb", 0, "byte", 1>>, <<"lh", 1, "half", 1>>, <<"lw", 2, "word", 0>>,
             <<"lbu", 4, "byte", 0>>, <<"lhu", 5, "half", 0>>}

StoreRows == {<<"sb", 0, "byte">>, <<"sh", 1, "half">>, <<"sw", 2, "word">>}

ImmediateRows ==
  {<<"addi", 0, Open, "ADD">>, <<"slti", 2, Open, "SLTS">>, <<"sltiu", 3, Open, "SLTU">>,
   <<"xori", 4, Open, "XOR">>, <<"ori", 6, Open, "OR">>, <<"andi", 7, Open, "AND">>,
   <<"slli", 1, 0, "SLL">>, <<"srli", 5, 0, "SRL">>, <<"srai", 5, 32, "SRA">>}

RegisterRows ==
  {<<"add", 0, 0, "ADD">>, <<"sub", 0, 32, "SUB">>, <<"sll", 1, 0, "SLL">>, <<"slt", 2, 0, "SLTS">>,
   <<"sltu", 3, 0, "SLTU">>, <<"xor", 4, 0, "XOR">>, <<"srl", 5, 0, "SRL">>, <<"sra", 5, 32, "SRA">>,
   <<"or", 6, 0, "OR">>, <<"and", 7, 0, "AND">>}

ProductRows == {<<"mul", 0, "MUL_MAC32", 0, 0>>, <<"mulh", 1, "MUL_H", 3, 1>>,
                <<"mulhsu", 2, "MUL_H", 1, 1>>, <<"mulhu", 3, "MUL_H", 0, 1>>}

QuotientRows == {<<"div", 4, "DIV">>, <<"divu", 5, "DIVU">>, <<"rem", 6, "REM">>, <<"remu", 7, "REMU">>}

FenceRows == {<<"fence", 0>>, <<"fence_i", 1>>}

LEMMA Domains ==
  /\ DOMAIN UpperTypes = {"lui", "auipc", "jal", "jalr"}
  /\ DOMAIN Branches = {"beq", "bne", "blt", "bge", "bltu", "bgeu"}
  /\ DOMAIN Loads = {"lb", "lh", "lw", "lbu", "lhu"}
  /\ DOMAIN Stores = {"sb", "sh", "sw"}
  /\ DOMAIN OpImms = {"addi", "slti", "sltiu", "xori", "ori", "andi", "slli", "srli", "srai"}
  /\ DOMAIN Ops = {"add", "sub", "sll", "slt", "sltu", "xor", "srl", "sra", "or", "and"}
  /\ DOMAIN MulDivs = {"mul", "mulh", "mulhsu", "mulhu", "div", "divu", "rem", "remu"}
  /\ DOMAIN Fences = {"fence", "fence_i"}
<1>1. DOMAIN UpperTypes = {"lui", "auipc", "jal", "jalr"}  BY DEF UpperTypes
<1>2. DOMAIN Branches = {"beq", "bne", "blt", "bge", "bltu", "bgeu"}  BY DEF Branches
<1>3. DOMAIN Loads = {"lb", "lh", "lw", "lbu", "lhu"}  BY DEF Loads
<1>4. DOMAIN Stores = {"sb", "sh", "sw"}  BY DEF Stores
<1>5. DOMAIN OpImms = {"addi", "slti", "sltiu", "xori", "ori", "andi", "slli", "srli", "srai"}
  BY DEF OpImms
<1>6. DOMAIN Ops = {"add", "sub", "sll", "slt", "sltu", "xor", "srl", "sra", "or", "and"}  BY DEF Ops
<1>7. DOMAIN MulDivs = {"mul", "mulh", "mulhsu", "mulhu", "div", "divu", "rem", "remu"}  BY DEF MulDivs
<1>8. DOMAIN Fences = {"fence", "fence_i"}  BY DEF Fences
<1> QED  BY <1>1, <1>2, <1>3, <1>4, <1>5, <1>6, <1>7, <1>8

\* No mnemonic is in two tables.
LEMMA TableOfGroup ==
  ASSUME NEW n
  PROVE  /\ n \in DOMAIN UpperTypes => ISA_DB[n] = UpperTypes[n]
         /\ n \in DOMAIN Branches => ISA_DB[n] = Branches[n]
         /\ n \in DOMAIN Loads => ISA_DB[n] = Loads[n]
         /\ n \in DOMAIN Stores => ISA_DB[n] = Stores[n]
         /\ n \in DOMAIN OpImms => ISA_DB[n] = OpImms[n]
         /\ n \in DOMAIN Ops => ISA_DB[n] = Ops[n]
         /\ n \in DOMAIN MulDivs => ISA_DB[n] = MulDivs[n]
         /\ n \in DOMAIN Fences => ISA_DB[n] = Fences[n]
<1>1. n \in Mnemonics => ISA_DB[n] = TableOf(n)[n]  BY DEF ISA_DB
<1>2. n \in DOMAIN UpperTypes => n \in Mnemonics /\ TableOf(n) = UpperTypes  BY Domains DEF TableOf, Mnemonics
<1>3. n \in DOMAIN Branches => n \in Mnemonics /\ TableOf(n) = Branches  BY Domains DEF TableOf, Mnemonics
<1>4. n \in DOMAIN Loads => n \in Mnemonics /\ TableOf(n) = Loads  BY Domains DEF TableOf, Mnemonics
<1>5. n \in DOMAIN Stores => n \in Mnemonics /\ TableOf(n) = Stores  BY Domains DEF TableOf, Mnemonics
<1>6. n \in DOMAIN OpImms => n \in Mnemonics /\ TableOf(n) = OpImms  BY Domains DEF TableOf, Mnemonics
<1>7. n \in DOMAIN Ops => n \in Mnemonics /\ TableOf(n) = Ops  BY Domains DEF TableOf, Mnemonics
<1>8. n \in DOMAIN MulDivs => n \in Mnemonics /\ TableOf(n) = MulDivs  BY Domains DEF TableOf, Mnemonics
<1>9. n \in DOMAIN Fences => n \in Mnemonics /\ TableOf(n) = Fences  BY Domains DEF TableOf, Mnemonics
<1> QED  BY <1>1, <1>2, <1>3, <1>4, <1>5, <1>6, <1>7, <1>8, <1>9

LEMMA UpperEntries ==
  ASSUME NEW n \in DOMAIN UpperTypes
  PROVE  \E r \in UpperRows : r[1] = n /\ ISA_DB[n] = Entry(r[2], r[3], Open, UpperOf(n))
<1>1. UpperTypes.lui = Entry("LUI", Open, Open, UpperOf("lui"))  BY DEF UpperTypes, UpperOf
<1>2. UpperTypes.auipc = Entry("AUIPC", Open, Open, UpperOf("auipc"))  BY DEF UpperTypes, UpperOf
<1>3. UpperTypes.jal = Entry("JAL", Open, Open, UpperOf("jal"))  BY DEF UpperTypes, UpperOf
<1>4. UpperTypes.jalr = Entry("JALR", 0, Open, UpperOf("jalr"))  BY DEF UpperTypes, UpperOf
<1>5. ISA_DB[n] = UpperTypes[n]  BY TableOfGroup
<1> QED  BY <1>1, <1>2, <1>3, <1>4, <1>5, Domains DEF UpperRows

LEMMA BranchEntries ==
  ASSUME NEW n \in DOMAIN Branches
  PROVE  \E r \in BranchRows : r[1] = n /\ ISA_DB[n] = Entry("BRANCH", r[2], Open, BranchOf(r[3]))
<1>1. /\ Branches.beq = Entry("BRANCH", 0, Open, BranchOf("EQ"))
      /\ Branches.bne = Entry("BRANCH", 1, Open, BranchOf("NE"))
      /\ Branches.blt = Entry("BRANCH", 4, Open, BranchOf("LTS"))
      /\ Branches.bge = Entry("BRANCH", 5, Open, BranchOf("GES"))
      /\ Branches.bltu = Entry("BRANCH", 6, Open, BranchOf("LTU"))
      /\ Branches.bgeu = Entry("BRANCH", 7, Open, BranchOf("GEU"))
  BY DEF Branches, BranchOf
<1>2. ISA_DB[n] = Branches[n]  BY TableOfGroup
<1> QED  BY <1>1, <1>2, Domains DEF BranchRows

LEMMA LoadEntries ==
  ASSUME NEW n \in DOMAIN Loads
  PROVE  \E r \in LoadRows : r[1] = n /\ ISA_DB[n] = Entry("LOAD", r[2], Open, LoadOf(r[3], r[4]))
<1>1. /\ Loads.lb = Entry("LOAD", 0, Open, LoadOf("byte", 1))
      /\ Loads.lh = Entry("LOAD", 1, Open, LoadOf("half", 1))
      /\ Loads.lw = Entry("LOAD", 2, Open, LoadOf("word", 0))
      /\ Loads.lbu = Entry("LOAD", 4, Open, LoadOf("byte", 0))
      /\ Loads.lhu = Entry("LOAD", 5, Open, LoadOf("half", 0))
  BY DEF Loads, LoadOf
<1>2. ISA_DB[n] = Loads[n]  BY TableOfGroup
<1> QED  BY <1>1, <1>2, Domains DEF LoadRows

LEMMA StoreEntries ==
  ASSUME NEW n \in DOMAIN Stores
  PROVE  \E r \in StoreRows : r[1] = n /\ ISA_DB[n] = Entry("STORE", r[2], Open, StoreOf(r[3]))
<1>1. /\ Stores.sb = Entry("STORE", 0, Open, StoreOf("byte"))
      /\ Stores.sh = Entry("STORE", 1, Open, StoreOf("half"))
      /\ Stores.sw = Entry("STORE", 2, Open, StoreOf("word"))
  BY DEF Stores, StoreOf
<1>2. ISA_DB[n] = Stores[n]  BY TableOfGroup
<1> QED  BY <1>1, <1>2, Domains DEF StoreRows

LEMMA ImmediateEntries ==
  ASSUME NEW n \in DOMAIN OpImms
  PROVE  \E r \in ImmediateRows : r[1] = n /\ ISA_DB[n] = Entry("OPIMM", r[2], r[3], ImmediateOf(r[4]))
<1>1. /\ OpImms.addi = Entry("OPIMM", 0, Open, ImmediateOf("ADD"))
      /\ OpImms.slti = Entry("OPIMM", 2, Open, ImmediateOf("SLTS"))
      /\ OpImms.sltiu = Entry("OPIMM", 3, Open, ImmediateOf("SLTU"))
      /\ OpImms.xori = Entry("OPIMM", 4, Open, ImmediateOf("XOR"))
      /\ OpImms.ori = Entry("OPIMM", 6, Open, ImmediateOf("OR"))
      /\ OpImms.andi = Entry("OPIMM", 7, Open, ImmediateOf("AND"))
      /\ OpImms.slli = Entry("OPIMM", 1, 0, ImmediateOf("SLL"))
      /\ OpImms.srli = Entry("OPIMM", 5, 0, ImmediateOf("SRL"))
      /\ OpImms.srai = Entry("OPIMM", 5, 32, ImmediateOf("SRA"))
  BY DEF OpImms, ImmediateOf
<1>2. ISA_DB[n] = OpImms[n]  BY TableOfGroup
<1> QED  BY <1>1, <1>2, Domains DEF ImmediateRows

LEMMA RegisterEntries ==
  ASSUME NEW n \in DOMAIN Ops
  PROVE  \E r \in RegisterRows : r[1] = n /\ ISA_DB[n] = Entry("OP", r[2], r[3], RegisterOf(r[4]))
<1>1. /\ Ops.add = Entry("OP", 0, 0, RegisterOf("ADD"))
      /\ Ops.sub = Entry("OP", 0, 32, RegisterOf("SUB"))
      /\ Ops.sll = Entry("OP", 1, 0, RegisterOf("SLL"))
      /\ Ops.slt = Entry("OP", 2, 0, RegisterOf("SLTS"))
      /\ Ops.sltu = Entry("OP", 3, 0, RegisterOf("SLTU"))
      /\ Ops.xor = Entry("OP", 4, 0, RegisterOf("XOR"))
      /\ Ops.srl = Entry("OP", 5, 0, RegisterOf("SRL"))
      /\ Ops.sra = Entry("OP", 5, 32, RegisterOf("SRA"))
      /\ Ops.or = Entry("OP", 6, 0, RegisterOf("OR"))
      /\ Ops.and = Entry("OP", 7, 0, RegisterOf("AND"))
  BY DEF Ops, RegisterOf
<1>2. ISA_DB[n] = Ops[n]  BY TableOfGroup
<1> QED  BY <1>1, <1>2, Domains DEF RegisterRows

LEMMA ProductEntries ==
  ASSUME NEW n \in DOMAIN MulDivs
  PROVE  \/ \E r \in ProductRows : r[1] = n /\ ISA_DB[n] = Entry("OP", r[2], 1, ProductOf(r[3], r[4], r[5]))
         \/ \E r \in QuotientRows : r[1] = n /\ ISA_DB[n] = Entry("OP", r[2], 1, QuotientOf(r[3]))
<1>1. /\ MulDivs.mul = Entry("OP", 0, 1, ProductOf("MUL_MAC32", 0, 0))
      /\ MulDivs.mulh = Entry("OP", 1, 1, ProductOf("MUL_H", 3, 1))
      /\ MulDivs.mulhsu = Entry("OP", 2, 1, ProductOf("MUL_H", 1, 1))
      /\ MulDivs.mulhu = Entry("OP", 3, 1, ProductOf("MUL_H", 0, 1))
  BY DEF MulDivs, ProductOf
<1>2. /\ MulDivs.div = Entry("OP", 4, 1, QuotientOf("DIV"))
      /\ MulDivs.divu = Entry("OP", 5, 1, QuotientOf("DIVU"))
      /\ MulDivs.rem = Entry("OP", 6, 1, QuotientOf("REM"))
      /\ MulDivs.remu = Entry("OP", 7, 1, QuotientOf("REMU"))
  BY DEF MulDivs, QuotientOf
<1>3. ISA_DB[n] = MulDivs[n]  BY TableOfGroup
<1> QED  BY <1>1, <1>2, <1>3, Domains DEF ProductRows, QuotientRows

LEMMA FenceEntries ==
  ASSUME NEW n \in DOMAIN Fences
  PROVE  \E r \in FenceRows : r[1] = n /\ ISA_DB[n] = Entry("FENCE", r[2], Open, FenceSignals)
<1>1. /\ Fences.fence = Entry("FENCE", 0, Open, FenceSignals)
      /\ Fences.fence_i = Entry("FENCE", 1, Open, FenceSignals)
  BY DEF Fences, FenceSignals
<1>2. ISA_DB[n] = Fences[n]  BY TableOfGroup
<1> QED  BY <1>1, <1>2, Domains DEF FenceRows

LEMMA EveryMnemonic ==
  ASSUME NEW n
  PROVE  n \in Mnemonics <=>
           \/ n \in DOMAIN UpperTypes \/ n \in DOMAIN Branches \/ n \in DOMAIN Loads \/ n \in DOMAIN Stores
           \/ n \in DOMAIN OpImms \/ n \in DOMAIN Ops \/ n \in DOMAIN MulDivs \/ n \in DOMAIN Fences
  BY DEF Mnemonics

LEMMA EntryFields ==
  ASSUME NEW o, NEW f3, NEW f7, NEW s
  PROVE  /\ Entry(o, f3, f7, s).opcode = o /\ Entry(o, f3, f7, s).f3 = f3
         /\ Entry(o, f3, f7, s).f7 = f7 /\ Entry(o, f3, f7, s).signals = s
  BY DEF Entry

-----------------------------------------------------------------------------
(***************************************************************************)
(* What a program needs of the ALU.                                        *)
(***************************************************************************)
LEMMA AluFields ==
  /\ \A n \in {"lui", "auipc", "jal", "jalr"} : UpperOf(n).alu = "ADD"
  /\ \A a : BranchOf(a).alu = a
  /\ \A t, s : LoadOf(t, s).alu = "ADD"
  /\ \A t : StoreOf(t).alu = "ADD"
  /\ \A a : ImmediateOf(a).alu = a
  /\ \A a : RegisterOf(a).alu = a
  /\ \A op, s, c : ProductOf(op, s, c).alu_en = 0
  /\ \A a : QuotientOf(a).alu = a
  /\ FenceSignals.fencei = 1
<1>1. \A n \in {"lui", "auipc", "jal", "jalr"} : UpperOf(n).alu = "ADD"  BY DEF UpperOf, DefaultSignals
<1>2. \A a : BranchOf(a).alu = a  BY DEF BranchOf, DefaultSignals
<1>3. \A t, s : LoadOf(t, s).alu = "ADD"  BY DEF LoadOf, DefaultSignals
<1>4. \A t : StoreOf(t).alu = "ADD"  BY DEF StoreOf, DefaultSignals
<1>5. \A a : ImmediateOf(a).alu = a  BY DEF ImmediateOf, DefaultSignals
<1>6. \A a : RegisterOf(a).alu = a  BY DEF RegisterOf, Registers, DefaultSignals
<1>7. \A op, s, c : ProductOf(op, s, c).alu_en = 0  BY DEF ProductOf, Registers, DefaultSignals
<1>8. \A a : QuotientOf(a).alu = a  BY DEF QuotientOf, Registers, DefaultSignals
<1>9. FenceSignals.fencei = 1  BY DEF FenceSignals, DefaultSignals
<1> QED  BY <1>1, <1>2, <1>3, <1>4, <1>5, <1>6, <1>7, <1>8, <1>9

\* ALU_OP_MNEMONICS names for each operation the instructions that the decoder
\* gives it to.
Attributed(n, op) ==
  op \in AllAluOps => op \in EssentialOps \/ (op \in DOMAIN MnemonicsOfAluOp /\ n \in MnemonicsOfAluOp[op])

LEMMA AluOfMnemonic ==
  ASSUME NEW n \in Mnemonics, ISA_DB[n].signals.alu_en = 1, ISA_DB[n].signals.fencei = 0
  PROVE  Attributed(n, ISA_DB[n].signals.alu)
<1> DEFINE op == ISA_DB[n].signals.alu
<1>1. CASE op \in EssentialOps
  BY <1>1 DEF Attributed
<1>2. CASE n \in DOMAIN UpperTypes
  <2>1. op = "ADD"  BY <1>2, UpperEntries, EntryFields, AluFields, Domains
  <2> QED  BY <2>1 DEF Attributed, EssentialOps
<1>3. CASE n \in DOMAIN Branches
  <2>1. PICK r \in BranchRows : r[1] = n /\ ISA_DB[n] = Entry("BRANCH", r[2], Open, BranchOf(r[3]))
    BY <1>3, BranchEntries
  <2>2. op = r[3]  BY <2>1, EntryFields, AluFields
  <2>3. r[3] \in DOMAIN MnemonicsOfAluOp /\ r[1] \in MnemonicsOfAluOp[r[3]]
    BY DEF BranchRows, MnemonicsOfAluOp
  <2> QED  BY <2>1, <2>2, <2>3 DEF Attributed
<1>4. CASE n \in DOMAIN Loads \/ n \in DOMAIN Stores
  <2>1. op = "ADD"  BY <1>4, LoadEntries, StoreEntries, EntryFields, AluFields
  <2> QED  BY <2>1 DEF Attributed, EssentialOps
<1>5. CASE n \in DOMAIN OpImms
  <2>1. PICK r \in ImmediateRows : r[1] = n /\ ISA_DB[n] = Entry("OPIMM", r[2], r[3], ImmediateOf(r[4]))
    BY <1>5, ImmediateEntries
  <2>2. op = r[4]  BY <2>1, EntryFields, AluFields
  <2>3. r[4] \in DOMAIN MnemonicsOfAluOp /\ r[1] \in MnemonicsOfAluOp[r[4]]
    BY DEF ImmediateRows, MnemonicsOfAluOp
  <2> QED  BY <2>1, <2>2, <2>3 DEF Attributed
<1>6. CASE n \in DOMAIN Ops
  <2>1. PICK r \in RegisterRows : r[1] = n /\ ISA_DB[n] = Entry("OP", r[2], r[3], RegisterOf(r[4]))
    BY <1>6, RegisterEntries
  <2>2. op = r[4]  BY <2>1, EntryFields, AluFields
  <2>3. r[4] \in DOMAIN MnemonicsOfAluOp /\ r[1] \in MnemonicsOfAluOp[r[4]]
    BY DEF RegisterRows, MnemonicsOfAluOp
  <2> QED  BY <2>1, <2>2, <2>3 DEF Attributed
<1>7. CASE n \in DOMAIN MulDivs
  <2>1. PICK r \in QuotientRows : r[1] = n /\ ISA_DB[n] = Entry("OP", r[2], 1, QuotientOf(r[3]))
    BY <1>7, ProductEntries, EntryFields, AluFields
  <2>2. op = r[3]  BY <2>1, EntryFields, AluFields
  <2>3. r[3] \notin AllAluOps  BY DEF QuotientRows, AllAluOps, MnemonicsOfAluOp, PulpOps
  <2> QED  BY <2>2, <2>3 DEF Attributed
<1>8. CASE n \in DOMAIN Fences
  BY <1>8, FenceEntries, EntryFields, AluFields
<1> QED  BY <1>2, <1>3, <1>4, <1>5, <1>6, <1>7, <1>8, EveryMnemonic

LEMMA RunningIsAnalysed ==
  ASSUME NEW m \in Running(bins).mnemonics
  PROVE  m \in Analysis(bins).used /\ UsedAluOps(Running(bins)) \subseteq Analysis(bins).alu
  BY DEF Running, Analysis

\* What an instruction of the binary becomes is in the subset of the decoder.
LEMMA ExpandedIsKept ==
  ASSUME NEW m \in Running(bins).mnemonics, Expanded(m) \in Mnemonics
  PROVE  Expanded(m) \in Subset(Analysis(bins).used)
<1>1. m \in Analysis(bins).used  BY RunningIsAnalysed
<1>2. Expanded(m) \in BaseMnemonics(Analysis(bins).used)
  <2> DEFINE used == Analysis(bins).used
             base(u) == IF u[1] /\ u[2] \in DOMAIN CompressedMap THEN {CompressedMap[u[2]]}
                        ELSE IF ~u[1] /\ u[2] \in {"fence", "fence_i"} THEN {"fence", "fence_i"}
                        ELSE {u[2]}
  <2>1. Expanded(m) \in base(m)  BY DEF Expanded
  <2>2. BaseMnemonics(used) = (UNION {base(u) : u \in used}) \cup {"ecall", "mret", "ebreak", "wfi", "fence", "fence_i"}
    BY DEF BaseMnemonics
  <2> HIDE DEF base, used
  <2>3. m \in used  BY <1>1 DEF used
  <2> QED  BY <2>1, <2>2, <2>3 DEF used
<1> QED  BY <1>2 DEF Subset

LEMMA ExpandedInAlu ==
  ASSUME bins \in Workspaces, NEW m \in Running(bins).mnemonics, Expanded(m) \in Mnemonics
  PROVE  Expanded(m) \in AluMnemonics(Running(bins))
<1>1. m[1] \in BOOLEAN /\ (m[1] => m[2] \in DOMAIN CompressedMap \/ m[2] \notin Mnemonics)
  BY WorkspacesAssumption DEF Running
<1>2. CASE m[1]
  BY <1>1, <1>2 DEF Expanded, AluMnemonics
<1>3. CASE ~m[1]
  BY <1>1, <1>3 DEF Expanded, AluMnemonics
<1> QED  BY <1>1, <1>2, <1>3

\* The operation of a needed instruction is not removable.
LEMMA NeededOpKept ==
  ASSUME bins \in Workspaces, NEW m \in Running(bins).mnemonics, Expanded(m) \in Mnemonics,
         ISA_DB[Expanded(m)].signals.alu_en = 1, ISA_DB[Expanded(m)].signals.fencei = 0
  PROVE  ISA_DB[Expanded(m)].signals.alu \notin PruneConfig(Analysis(bins)).removable_alu_ops
<1> DEFINE n == Expanded(m)
           op == ISA_DB[n].signals.alu
<1>1. Attributed(n, op)  BY AluOfMnemonic
<1>2. n \in AluMnemonics(Running(bins))  BY ExpandedInAlu
<1>3. op \in AllAluOps => op \in UsedAluOps(Running(bins))
  <2> HIDE DEF n, op
  <2> QED  BY <1>1, <1>2 DEF Attributed, UsedAluOps, n
<1>4. op \in AllAluOps => op \in Analysis(bins).alu  BY <1>3, RunningIsAnalysed
<1>5. PruneConfig(Analysis(bins)).removable_alu_ops = AllAluOps \ Analysis(bins).alu  BY DEF PruneConfig
<1> QED  BY <1>4, <1>5

\* What is left of ALU, parameters and decoder at each phase.
NeedInv ==
  /\ bins \in Workspaces
  /\ phase \in {"analysis", "gate", "decoder", "pragmas", "dce", "encoding", "done"}
  /\ Fields
  /\ phase # "analysis" => config = PruneConfig(Analysis(bins))
  /\ ~Pruned => rtl.alu = AluItems
  /\ Pruned => \A i \in AluItems \ rtl.alu : i[2] \subseteq config.removable_alu_ops
  /\ rtl.params = [p \in {"DIV", "MUL", "MULH", "SLEEP", "COMPRESSED"} |-> TRUE]
  /\ Specialised => rtl.decoder = Subset(Analysis(bins).used)

LEMMA NeedInit == Init => NeedInv
  BY DEF Init, NeedInv, Shipped, Fields, Pruned, Specialised

LEMMA NeedNext == NeedInv /\ [Next]_vars => NeedInv'
<1> SUFFICES ASSUME NeedInv, [Next]_vars PROVE NeedInv'
  OBVIOUS
<1> USE DEF NeedInv, Pruned, Specialised, Fields
<1>1. CASE ComputePruneConfig
  BY <1>1 DEF ComputePruneConfig
<1>2. CASE ApplyPruner
  <2>1. /\ phase = "gate" /\ phase' = "decoder" /\ UNCHANGED <<bins, debug, config>>
        /\ rtl.alu = AluItems
    BY <1>2 DEF ApplyPruner
  <2>2. PICK alu \in BOOLEAN, csr \in BOOLEAN :
          rtl' = [rtl EXCEPT !.params = [p \in DOMAIN rtl.params |-> ParameterValue(config.params, p)],
                             !.alu = IF alu THEN PruneAluCases(@, config.removable_alu_ops) ELSE @,
                             !.csr = IF csr THEN PruneCsrCases(@, config) ELSE @,
                             !.registers = CsrRegisters(config)]
    BY <1>2 DEF ApplyPruner
  <2>3. /\ rtl'.alu = IF alu THEN PruneAluCases(AluItems, config.removable_alu_ops) ELSE AluItems
        /\ DOMAIN rtl' = DOMAIN rtl
    BY <2>1, <2>2
  <2>4. rtl'.params = [p \in DOMAIN rtl.params |-> TRUE]
    BY <2>2 DEF ParameterValue
  <2>5. \A i \in AluItems \ rtl'.alu : i[2] \subseteq config.removable_alu_ops
    BY <2>3 DEF PruneAluCases
  <2> QED
    BY <2>1, <2>3, <2>4, <2>5
<1>3. CASE GenerateSpecializedDecoder
  <2>1. /\ rtl'.alu = rtl.alu /\ rtl'.params = rtl.params /\ DOMAIN rtl' = DOMAIN rtl
        /\ rtl'.decoder = Subset(Analysis(bins).used)
    BY <1>3 DEF GenerateSpecializedDecoder
  <2> QED
    BY <1>3, <2>1 DEF GenerateSpecializedDecoder
<1>4. CASE ApplyPragmas \/ ApplyDceCleanup \/ ApplyEncodingOptimization
  <2>1. /\ rtl'.alu = rtl.alu /\ rtl'.params = rtl.params /\ rtl'.decoder = rtl.decoder
        /\ DOMAIN rtl' = DOMAIN rtl
    BY <1>4 DEF ApplyPragmas, ApplyDceCleanup, ApplyEncodingOptimization
  <2>2. /\ UNCHANGED <<bins, debug, config>>
        /\ phase \in {"pragmas", "dce", "encoding"} /\ phase' \in {"dce", "encoding", "done"}
    BY <1>4 DEF ApplyPragmas, ApplyDceCleanup, ApplyEncodingOptimization
  <2> QED
    BY <2>1, <2>2
<1>5. CASE UNCHANGED vars
  BY <1>5 DEF vars
<1> QED
  BY <1>1, <1>2, <1>3, <1>4, <1>5 DEF Next

LEMMA NeedImplies == NeedInv => BinaryRuns
<1> SUFFICES ASSUME NeedInv, Specialised, NEW m \in Running(bins).mnemonics
             PROVE  /\ m[1] => rtl.params["COMPRESSED"]
                    /\ Expanded(m) = "wfi" => rtl.params["SLEEP"]
                    /\ Expanded(m) \in Mnemonics =>
                         LET s == ISA_DB[Expanded(m)].signals
                         IN  /\ Expanded(m) \in rtl.decoder
                             /\ s.alu_en = 1 /\ s.fencei = 0 => {i \in AluItems : s.alu \in i[2]} \subseteq rtl.alu
                             /\ s.alu \in {"DIV", "DIVU", "REM", "REMU"} => rtl.params["DIV"]
                             /\ s.mult_en = 1 => rtl.params[IF s.mult = "MUL_H" THEN "MULH" ELSE "MUL"]
  BY DEF BinaryRuns
<1>1. \A p \in {"DIV", "MUL", "MULH", "SLEEP", "COMPRESSED"} : rtl.params[p]
  BY DEF NeedInv
<1>2. Pruned /\ config = PruneConfig(Analysis(bins)) /\ rtl.decoder = Subset(Analysis(bins).used)
  BY DEF NeedInv, Specialised, Pruned
<1>3. Expanded(m) \in Mnemonics => Expanded(m) \in rtl.decoder
  BY <1>2, ExpandedIsKept
<1>4. ASSUME Expanded(m) \in Mnemonics, ISA_DB[Expanded(m)].signals.alu_en = 1,
             ISA_DB[Expanded(m)].signals.fencei = 0,
             NEW i \in AluItems, ISA_DB[Expanded(m)].signals.alu \in i[2]
      PROVE  i \in rtl.alu
  <2>1. bins \in Workspaces  BY DEF NeedInv
  <2>2. ISA_DB[Expanded(m)].signals.alu \notin config.removable_alu_ops
    BY <1>2, <1>4, <2>1, NeededOpKept
  <2>3. i \notin rtl.alu => i[2] \subseteq config.removable_alu_ops
    BY <1>2 DEF NeedInv
  <2> QED  BY <1>4, <2>2, <2>3
<1> QED  BY <1>1, <1>3, <1>4

\* Whatever binaries are found, each instruction of the one that runs keeps
\* its decoder entry, the case items of its ALU operation and its unit
\* (compute_prune_config, prune_alu_cases and generate_specialized_decoder).
THEOREM BinaryAlwaysRuns == Spec => []BinaryRuns
<1> QED
  BY NeedInit, NeedNext, NeedImplies, PTL DEF Spec

-----------------------------------------------------------------------------
(***************************************************************************)
(* The decoder, opcode by opcode: with the entries E of an opcode, the     *)
(* output s for a word w is the original's, or illegal where no entry      *)
(* encodes w.                                                              *)
(***************************************************************************)
Matches(e, w) == e.f3 \in {Open, w.f3} /\ e.f7 \in {Open, w.f7}

Faithful(E, w, s) == s = Original(w) \/ (s.illegal = 1 /\ \A e \in E : ~Matches(e, w))

LEMMA DecodesBranch ==
  ASSUME NEW E, NEW w, w.opcode = "BRANCH", w.f3 \in 0..7,
         \A e \in E : \E r \in BranchRows : e = Entry("BRANCH", r[2], Open, BranchOf(r[3]))
  PROVE  Faithful(E, w, OpcodeBranch(E, w))
<1> DEFINE hoisted == [DefaultSignals EXCEPT !.ctrl = "cond", !.target = "cond", !.c = "jt", !.rega = 1, !.regb = 1]
<1>1. Original(w) = OriginalBranch(w)  BY DEF Original
<1>2. CASE \E e \in E : e.f3 = w.f3
  <2> DEFINE e == CHOOSE x \in E : x.f3 = w.f3
  <2>1. e \in E /\ e.f3 = w.f3  BY <1>2
  <2>2. PICK r \in BranchRows : e = Entry("BRANCH", r[2], Open, BranchOf(r[3]))  BY <2>1
  <2>4. OpcodeBranch(E, w) = [hoisted EXCEPT !.alu = e.signals.alu]  BY <1>2 DEF OpcodeBranch
  <2> HIDE DEF e
  <2>3. e.f3 = r[2] /\ e.signals.alu = r[3]  BY <2>2, EntryFields, AluFields
  <2>5. Pick([f \in {0, 1, 4, 5, 6, 7} |-> <<"EQ", "NE", "", "", "LTS", "GES", "LTU", "GEU">>[f + 1]], r[2]) = r[3]
        /\ r[3] # "illegal"
    <3>1. \A x \in {0, 1, 4, 5, 6, 7} : Pick([f \in {0, 1, 4, 5, 6, 7} |-> <<"EQ", "NE", "", "", "LTS", "GES", "LTU", "GEU">>[f + 1]], x) = <<"EQ", "NE", "", "", "LTS", "GES", "LTU", "GEU">>[x + 1]
      BY DEF Pick
    <3> DEFINE t == <<"EQ", "NE", "", "", "LTS", "GES", "LTU", "GEU">>
    <3>2. t[1] = "EQ" /\ t[2] = "NE" /\ t[5] = "LTS" /\ t[6] = "GES" /\ t[7] = "LTU" /\ t[8] = "GEU"  OBVIOUS
    <3> HIDE DEF t
    <3>3. r[2] \in {0, 1, 4, 5, 6, 7} /\ t[r[2] + 1] = r[3] /\ r[3] # "illegal"
      BY <3>2 DEF BranchRows
    <3> QED  BY <3>1, <3>3 DEF t
  <2>6. OriginalBranch(w) = [hoisted EXCEPT !.alu = r[3]]
    BY <2>1, <2>3, <2>5 DEF OriginalBranch
  <2> QED  BY <1>1, <2>3, <2>4, <2>6 DEF Faithful
<1>3. CASE ~\E e \in E : e.f3 = w.f3
  <2>1. OpcodeBranch(E, w) = [hoisted EXCEPT !.illegal = 1]  BY <1>3 DEF OpcodeBranch
  <2>2. OpcodeBranch(E, w).illegal = 1  BY <2>1 DEF DefaultSignals
  <2>3. \A e \in E : e.f3 # Open  BY EntryFields DEF BranchRows, Open
  <2> QED  BY <1>3, <2>2, <2>3 DEF Faithful, Matches
<1> QED  BY <1>2, <1>3

LEMMA TypeFields ==
  /\ \A t, s : LoadOf(t, s).data_type = t
  /\ \A t : StoreOf(t).data_type = t
<1>1. \A t, s : LoadOf(t, s).data_type = t  BY DEF LoadOf, DefaultSignals
<1>2. \A t : StoreOf(t).data_type = t  BY DEF StoreOf, DefaultSignals
<1> QED  BY <1>1, <1>2

LEMMA DecodesLoad ==
  ASSUME NEW E, NEW w, w.opcode = "LOAD", w.f3 \in 0..7,
         \A e \in E : \E r \in LoadRows : e = Entry("LOAD", r[2], Open, LoadOf(r[3], r[4]))
  PROVE  Faithful(E, w, OpcodeLoad(E, w))
<1> DEFINE sign == IF w.f3 < 4 THEN 1 ELSE 0
           hoisted == [DefaultSignals EXCEPT !.data_req = 1, !.mem_we = 1, !.rega = 1, !.alu = "ADD", !.b = "imm",
                                             !.data_sign = sign]
<1>1. Original(w) = OriginalMemory(w)  BY DEF Original
<1>2. CASE \E e \in E : e.f3 = w.f3
  <2> DEFINE e == CHOOSE x \in E : x.f3 = w.f3
  <2>1. e \in E /\ e.f3 = w.f3  BY <1>2
  <2>2. PICK r \in LoadRows : e = Entry("LOAD", r[2], Open, LoadOf(r[3], r[4]))  BY <2>1
  <2>4. OpcodeLoad(E, w) = [hoisted EXCEPT !.data_type = e.signals.data_type]  BY <1>2 DEF OpcodeLoad
  <2> HIDE DEF e
  <2>3. e.f3 = r[2] /\ e.signals.data_type = r[3]  BY <2>2, EntryFields, TypeFields
  <2>5. Pick([f \in {0, 1, 2, 4, 5} |-> <<"byte", "half", "word", "", "byte", "half">>[f + 1]], r[2]) = r[3]
        /\ r[3] # "illegal"
    <3>1. \A x \in {0, 1, 2, 4, 5} : Pick([f \in {0, 1, 2, 4, 5} |-> <<"byte", "half", "word", "", "byte", "half">>[f + 1]], x) = <<"byte", "half", "word", "", "byte", "half">>[x + 1]
      BY DEF Pick
    <3> DEFINE t == <<"byte", "half", "word", "", "byte", "half">>
    <3>2. t[1] = "byte" /\ t[2] = "half" /\ t[3] = "word" /\ t[5] = "byte" /\ t[6] = "half"  OBVIOUS
    <3> HIDE DEF t
    <3>3. r[2] \in {0, 1, 2, 4, 5} /\ t[r[2] + 1] = r[3] /\ r[3] # "illegal"
      BY <3>2 DEF LoadRows
    <3> QED  BY <3>1, <3>3 DEF t
  <2>6. 1 - (w.f3 \div 4) = sign  BY Z3
  <2> HIDE DEF sign
  <2>7. OriginalMemory(w) = [hoisted EXCEPT !.data_type = r[3]]
    BY <2>1, <2>3, <2>5, <2>6 DEF OriginalMemory
  <2> QED  BY <1>1, <2>3, <2>4, <2>7 DEF Faithful
<1>3. CASE ~\E e \in E : e.f3 = w.f3
  <2>1. OpcodeLoad(E, w) = [hoisted EXCEPT !.illegal = 1]  BY <1>3 DEF OpcodeLoad
  <2>2. OpcodeLoad(E, w).illegal = 1
    <3> HIDE DEF sign
    <3> QED  BY <2>1 DEF DefaultSignals
  <2>3. \A e \in E : e.f3 # Open  BY EntryFields DEF LoadRows, Open
  <2> QED  BY <1>3, <2>2, <2>3 DEF Faithful, Matches
<1> QED  BY <1>2, <1>3

LEMMA DecodesStore ==
  ASSUME NEW E, NEW w, w.opcode = "STORE", w.f3 \in 0..7,
         \A e \in E : \E r \in StoreRows : e = Entry("STORE", r[2], Open, StoreOf(r[3]))
  PROVE  Faithful(E, w, OpcodeStore(E, w))
<1> DEFINE hoisted == [DefaultSignals EXCEPT !.data_req = 1, !.data_we = 1, !.rega = 1, !.regb = 1, !.alu = "ADD",
                                             !.c = "regb", !.imm = "S", !.b = "imm"]
<1>1. Original(w) = OriginalMemory(w)  BY DEF Original
<1>2. CASE \E e \in E : e.f3 = w.f3
  <2> DEFINE e == CHOOSE x \in E : x.f3 = w.f3
  <2>1. e \in E /\ e.f3 = w.f3  BY <1>2
  <2>2. PICK r \in StoreRows : e = Entry("STORE", r[2], Open, StoreOf(r[3]))  BY <2>1
  <2>4. OpcodeStore(E, w) = [hoisted EXCEPT !.data_type = e.signals.data_type]  BY <1>2 DEF OpcodeStore
  <2> HIDE DEF e
  <2>3. e.f3 = r[2] /\ e.signals.data_type = r[3]  BY <2>2, EntryFields, TypeFields
  <2>5. Pick([f \in 0..2 |-> <<"byte", "half", "word", "", "byte", "half">>[f + 1]], r[2]) = r[3]
        /\ r[3] # "illegal"
    <3>1. \A x \in 0..2 : Pick([f \in 0..2 |-> <<"byte", "half", "word", "", "byte", "half">>[f + 1]], x) = <<"byte", "half", "word", "", "byte", "half">>[x + 1]
      BY DEF Pick
    <3> DEFINE t == <<"byte", "half", "word", "", "byte", "half">>
    <3>2. t[1] = "byte" /\ t[2] = "half" /\ t[3] = "word"  OBVIOUS
    <3> HIDE DEF t
    <3>3. r[2] \in 0..2 /\ t[r[2] + 1] = r[3] /\ r[3] # "illegal"
      BY <3>2 DEF StoreRows
    <3> QED  BY <3>1, <3>3 DEF t
  <2>6. OriginalMemory(w) = [hoisted EXCEPT !.data_type = r[3]]
    BY <2>1, <2>3, <2>5 DEF OriginalMemory
  <2> QED  BY <1>1, <2>3, <2>4, <2>6 DEF Faithful
<1>3. CASE ~\E e \in E : e.f3 = w.f3
  <2>1. OpcodeStore(E, w) = [hoisted EXCEPT !.illegal = 1, !.data_req = 0, !.data_we = 0]
    BY <1>3 DEF OpcodeStore
  <2>2. OpcodeStore(E, w).illegal = 1  BY <2>1 DEF DefaultSignals
  <2>3. \A e \in E : e.f3 # Open  BY EntryFields DEF StoreRows, Open
  <2> QED  BY <1>3, <2>2, <2>3 DEF Faithful, Matches
<1> QED  BY <1>2, <1>3

LEMMA DecodesOpimm ==
  ASSUME NEW E, NEW w, w.opcode = "OPIMM", w.f3 \in 0..7, w.f7 \in 0..127,
         \A e \in E : \E r \in ImmediateRows : e = Entry("OPIMM", r[2], r[3], ImmediateOf(r[4]))
  PROVE  Faithful(E, w, OpcodeOpimm(E, w))
<1> DEFINE hoisted == [DefaultSignals EXCEPT !.b = "imm", !.alu_we = 1, !.rega = 1]
           ofF3 == {e \in E : e.f3 = w.f3}
           match == {e \in ofF3 : e.f7 = Open \/ e.f7 = w.f7}
<1>1. Original(w) = OriginalOpimm(w)  BY DEF Original
<1>2. CASE match # {}
  <2> DEFINE e == CHOOSE x \in match : TRUE
  <2>1. e \in E /\ e.f3 = w.f3 /\ (e.f7 = Open \/ e.f7 = w.f7)  BY <1>2
  <2>2. PICK r \in ImmediateRows : e = Entry("OPIMM", r[2], r[3], ImmediateOf(r[4]))  BY <2>1
  <2>3. OpcodeOpimm(E, w) = [hoisted EXCEPT !.alu = e.signals.alu]  BY <1>2 DEF OpcodeOpimm
  <2> HIDE DEF e
  <2>4. e.f3 = r[2] /\ e.f7 = r[3] /\ e.signals.alu = r[4]  BY <2>2, EntryFields, AluFields
  <2> DEFINE t == <<"ADD", "SLL", "SLTS", "SLTU", "XOR", "", "OR", "AND">>
             op == IF w.f3 = 5 THEN (CASE w.f7 = 0 -> "SRL" [] w.f7 = 32 -> "SRA" [] OTHER -> "illegal")
                   ELSE IF w.f3 = 1 /\ w.f7 # 0 THEN "illegal" ELSE t[w.f3 + 1]
  <2>5. /\ t[1] = "ADD" /\ t[2] = "SLL" /\ t[3] = "SLTS" /\ t[4] = "SLTU" /\ t[5] = "XOR"
        /\ t[7] = "OR" /\ t[8] = "AND"
    OBVIOUS
  <2>6. OriginalOpimm(w) = IF op = "illegal" THEN Illegal
                           ELSE [DefaultSignals EXCEPT !.b = "imm", !.alu_we = 1, !.rega = 1, !.alu = op]
    BY DEF OriginalOpimm
  <2> HIDE DEF t
  <2>7. op = r[4] /\ r[4] # "illegal"
    BY <2>1, <2>4, <2>5 DEF ImmediateRows, Open
  <2> HIDE DEF op
  <2>8. OriginalOpimm(w) = [hoisted EXCEPT !.alu = r[4]]  BY <2>6, <2>7
  <2> QED  BY <1>1, <2>3, <2>4, <2>8 DEF Faithful
<1>3. CASE match = {}
  <2>1. \/ OpcodeOpimm(E, w) = [hoisted EXCEPT !.alu = (CHOOSE e \in ofF3 : TRUE).signals.alu, !.illegal = 1]
        \/ OpcodeOpimm(E, w) = [hoisted EXCEPT !.illegal = 1]
    BY <1>3 DEF OpcodeOpimm
  <2>2. OpcodeOpimm(E, w).illegal = 1
    <3> HIDE DEF ofF3
    <3> QED  BY <2>1 DEF DefaultSignals
  <2>3. \A e \in E : e.f3 # Open  BY EntryFields DEF ImmediateRows, Open
  <2> QED  BY <1>3, <2>2, <2>3 DEF Faithful, Matches
<1> QED  BY <1>2, <1>3

LEMMA DecodesOp ==
  ASSUME NEW E, NEW w, w.opcode = "OP", w.f3 \in 0..7, w.f7 \in 0..63,
         \A e \in E : \/ \E r \in RegisterRows : e = Entry("OP", r[2], r[3], RegisterOf(r[4]))
                      \/ \E r \in ProductRows : e = Entry("OP", r[2], 1, ProductOf(r[3], r[4], r[5]))
                      \/ \E r \in QuotientRows : e = Entry("OP", r[2], 1, QuotientOf(r[3]))
  PROVE  Faithful(E, w, OpcodeOp(E, w))
<1> DEFINE match == {e \in E : e.f3 = w.f3 /\ e.f7 = w.f7 % 64}
<1>1. Original(w) = OriginalOp(w)  BY DEF Original
<1>2. w.f7 % 64 = w.f7  BY Z3
<1>3. CASE match # {}
  <2> DEFINE e == CHOOSE x \in match : TRUE
  <2>1. e \in E /\ e.f3 = w.f3 /\ e.f7 = w.f7  BY <1>2, <1>3
  <2>2. OpcodeOp(E, w) = e.signals  BY <1>3 DEF OpcodeOp
  <2> HIDE DEF e
  <2>3. CASE \E r \in RegisterRows : e = Entry("OP", r[2], r[3], RegisterOf(r[4]))
    <3>1. PICK r \in RegisterRows : e = Entry("OP", r[2], r[3], RegisterOf(r[4]))  BY <2>3
    <3>2. e.f3 = r[2] /\ e.f7 = r[3] /\ e.signals = RegisterOf(r[4])  BY <3>1, EntryFields
    <3> DEFINE t == <<"ADD", "SLL", "SLTS", "SLTU", "XOR", "SRL", "OR", "AND">>
               alu == CASE w.f7 = 0 -> t[w.f3 + 1]
                        [] w.f7 = 32 /\ w.f3 \in {0, 5} -> IF w.f3 = 0 THEN "SUB" ELSE "SRA"
                        [] OTHER -> "illegal"
    <3>3. /\ t[1] = "ADD" /\ t[2] = "SLL" /\ t[3] = "SLTS" /\ t[4] = "SLTU" /\ t[5] = "XOR"
          /\ t[6] = "SRL" /\ t[7] = "OR" /\ t[8] = "AND"
      OBVIOUS
    <3>4. w.f7 # 1 /\ w.f7 < 64 => OriginalOp(w) = IF alu = "illegal" THEN Illegal ELSE [Registers EXCEPT !.alu = alu]
      BY DEF OriginalOp, Registers
    <3> HIDE DEF t
    <3>5. alu = r[4] /\ r[4] # "illegal" /\ w.f7 # 1 /\ w.f7 < 64
      BY <2>1, <3>2, <3>3 DEF RegisterRows
    <3> HIDE DEF alu
    <3>6. OriginalOp(w) = RegisterOf(r[4])  BY <3>4, <3>5 DEF RegisterOf
    <3> QED  BY <1>1, <2>2, <3>2, <3>6 DEF Faithful
  <2>4. CASE \E r \in ProductRows : e = Entry("OP", r[2], 1, ProductOf(r[3], r[4], r[5]))
    <3>1. PICK r \in ProductRows : e = Entry("OP", r[2], 1, ProductOf(r[3], r[4], r[5]))  BY <2>4
    <3>2. e.f3 = r[2] /\ e.f7 = 1 /\ e.signals = ProductOf(r[3], r[4], r[5])  BY <3>1, EntryFields
    <3> DEFINE t == <<0, 3, 1, 0>>
    <3>3. t[1] = 0 /\ t[2] = 3 /\ t[3] = 1 /\ t[4] = 0  OBVIOUS
    <3>4. w.f3 < 4 /\ w.f7 = 1 /\ ~(w.f7 >= 64) =>
            OriginalOp(w) = ProductOf(IF w.f3 = 0 THEN "MUL_MAC32" ELSE "MUL_H", t[w.f3 + 1], IF w.f3 = 0 THEN 0 ELSE 1)
      BY DEF OriginalOp, ProductOf, Registers
    <3> HIDE DEF t
    <3>5. /\ w.f3 < 4 /\ w.f7 = 1 /\ ~(w.f7 >= 64) /\ t[w.f3 + 1] = r[4]
          /\ (IF w.f3 = 0 THEN "MUL_MAC32" ELSE "MUL_H") = r[3]
          /\ (IF w.f3 = 0 THEN 0 ELSE 1) = r[5]
      BY <2>1, <3>2, <3>3 DEF ProductRows
    <3> QED  BY <1>1, <2>2, <3>2, <3>4, <3>5 DEF Faithful
  <2>5. CASE \E r \in QuotientRows : e = Entry("OP", r[2], 1, QuotientOf(r[3]))
    <3>1. PICK r \in QuotientRows : e = Entry("OP", r[2], 1, QuotientOf(r[3]))  BY <2>5
    <3>2. e.f3 = r[2] /\ e.f7 = 1 /\ e.signals = QuotientOf(r[3])  BY <3>1, EntryFields
    <3> DEFINE t == <<"DIV", "DIVU", "REM", "REMU">>
    <3>3. t[1] = "DIV" /\ t[2] = "DIVU" /\ t[3] = "REM" /\ t[4] = "REMU"  OBVIOUS
    <3>4. ~(w.f3 < 4) /\ w.f7 = 1 /\ ~(w.f7 >= 64) => OriginalOp(w) = QuotientOf(t[w.f3 - 3])
      BY DEF OriginalOp, QuotientOf, Registers
    <3> HIDE DEF t
    <3>5. ~(w.f3 < 4) /\ w.f7 = 1 /\ ~(w.f7 >= 64) /\ t[w.f3 - 3] = r[3]
      BY <2>1, <3>2, <3>3 DEF QuotientRows
    <3> QED  BY <1>1, <2>2, <3>2, <3>4, <3>5 DEF Faithful
  <2> QED  BY <2>1, <2>3, <2>4, <2>5
<1>4. CASE match = {}
  <2>1. OpcodeOp(E, w) = [DefaultSignals EXCEPT !.alu_we = 1, !.rega = 1, !.illegal = 1]
    BY <1>4 DEF OpcodeOp
  <2>2. OpcodeOp(E, w).illegal = 1  BY <2>1 DEF DefaultSignals
  <2>3. \A e \in E : e.f3 # Open /\ e.f7 # Open
    BY EntryFields DEF RegisterRows, ProductRows, QuotientRows, Open
  <2> QED  BY <1>2, <1>4, <2>2, <2>3 DEF Faithful, Matches
<1> QED  BY <1>3, <1>4

LEMMA DecodesFence ==
  ASSUME NEW E, NEW w, w.opcode = "FENCE", w.f3 \in 0..7,
         \A e \in E : \E r \in FenceRows : e = Entry("FENCE", r[2], Open, FenceSignals)
  PROVE  Faithful(E, w, OpcodeFence(E, w))
<1>1. CASE \E e \in E : e.f3 = w.f3
  <2>1. w.f3 \in {0, 1}  BY <1>1, EntryFields DEF FenceRows
  <2>2. Original(w) = [DefaultSignals EXCEPT !.fencei = 1]  BY <2>1 DEF Original
  <2> QED  BY <1>1, <2>2 DEF OpcodeFence, Faithful
<1>2. CASE ~\E e \in E : e.f3 = w.f3
  <2>1. OpcodeFence(E, w) = Illegal  BY <1>2 DEF OpcodeFence
  <2>2. OpcodeFence(E, w).illegal = 1  BY <2>1 DEF Illegal, DefaultSignals
  <2>3. \A e \in E : e.f3 # Open  BY EntryFields DEF FenceRows, Open
  <2> QED  BY <1>2, <2>2, <2>3 DEF Faithful, Matches
<1> QED  BY <1>1, <1>2

LEMMA DecodesUpper ==
  ASSUME NEW E, NEW w, NEW n \in {"lui", "auipc", "jal"}, NEW r \in UpperRows, r[1] = n, w.opcode = r[2],
         E # {}, \A e \in E : e = Entry(r[2], r[3], Open, UpperOf(n))
  PROVE  Faithful(E, w, OpcodeSimple(E, w))
<1> DEFINE e == CHOOSE x \in E : TRUE
<1>1. e \in E /\ OpcodeSimple(E, w) = e.signals  BY DEF OpcodeSimple
<1> HIDE DEF e
<1>2. OpcodeSimple(E, w) = UpperOf(n)  BY <1>1, EntryFields
<1>3. Original(w) = OriginalUpper(w)  BY DEF Original, UpperRows
<1>4. n = "lui" /\ w.opcode = "LUI" => OriginalUpper(w) = UpperOf("lui")  BY DEF OriginalUpper, UpperOf
<1>5. n = "auipc" /\ w.opcode = "AUIPC" => OriginalUpper(w) = UpperOf("auipc")  BY DEF OriginalUpper, UpperOf
<1>6. n = "jal" /\ w.opcode = "JAL" => OriginalUpper(w) = UpperOf("jal")
  BY DEF OriginalUpper, UpperOf, DefaultSignals
<1>7. \/ n = "lui" /\ w.opcode = "LUI"
      \/ n = "auipc" /\ w.opcode = "AUIPC"
      \/ n = "jal" /\ w.opcode = "JAL"
  BY DEF UpperRows
<1> QED  BY <1>2, <1>3, <1>4, <1>5, <1>6, <1>7 DEF Faithful

LEMMA DecodesJalr ==
  ASSUME NEW E, NEW w, w.opcode = "JALR", w.f3 \in 0..7, \A e \in E : e = Entry("JALR", 0, Open, UpperOf("jalr"))
  PROVE  Faithful(E, w, OpcodeWithFunct3(E, w))
<1>1. Original(w) = OriginalUpper(w)  BY DEF Original
<1>2. CASE \E e \in E : e.f3 = w.f3
  <2> DEFINE e == CHOOSE x \in E : x.f3 = w.f3
  <2>1. e \in E /\ e.f3 = w.f3 /\ OpcodeWithFunct3(E, w) = e.signals  BY <1>2 DEF OpcodeWithFunct3
  <2> HIDE DEF e
  <2>2. w.f3 = 0 /\ OpcodeWithFunct3(E, w) = UpperOf("jalr")  BY <2>1, EntryFields
  <2>3. OriginalUpper(w) = UpperOf("jalr")  BY <2>2 DEF OriginalUpper, UpperOf
  <2> QED  BY <1>1, <2>2, <2>3 DEF Faithful
<1>3. CASE ~\E e \in E : e.f3 = w.f3
  <2>1. OpcodeWithFunct3(E, w) = Illegal  BY <1>3 DEF OpcodeWithFunct3
  <2>2. OpcodeWithFunct3(E, w).illegal = 1  BY <2>1 DEF Illegal, DefaultSignals
  <2>3. \A e \in E : e.f3 # Open  BY EntryFields DEF Open
  <2> QED  BY <1>3, <2>2, <2>3 DEF Faithful, Matches
<1> QED  BY <1>2, <1>3

\* The entries of an opcode are the rows of its group.
LEMMA EntriesOfOpcode ==
  ASSUME NEW n \in Mnemonics
  PROVE  /\ ISA_DB[n].opcode = "LUI" => ISA_DB[n] = Entry("LUI", Open, Open, UpperOf("lui"))
         /\ ISA_DB[n].opcode = "AUIPC" => ISA_DB[n] = Entry("AUIPC", Open, Open, UpperOf("auipc"))
         /\ ISA_DB[n].opcode = "JAL" => ISA_DB[n] = Entry("JAL", Open, Open, UpperOf("jal"))
         /\ ISA_DB[n].opcode = "JALR" => ISA_DB[n] = Entry("JALR", 0, Open, UpperOf("jalr"))
         /\ ISA_DB[n].opcode = "BRANCH" =>
              \E r \in BranchRows : ISA_DB[n] = Entry("BRANCH", r[2], Open, BranchOf(r[3]))
         /\ ISA_DB[n].opcode = "LOAD" =>
              \E r \in LoadRows : ISA_DB[n] = Entry("LOAD", r[2], Open, LoadOf(r[3], r[4]))
         /\ ISA_DB[n].opcode = "STORE" =>
              \E r \in StoreRows : ISA_DB[n] = Entry("STORE", r[2], Open, StoreOf(r[3]))
         /\ ISA_DB[n].opcode = "OPIMM" =>
              \E r \in ImmediateRows : ISA_DB[n] = Entry("OPIMM", r[2], r[3], ImmediateOf(r[4]))
         /\ ISA_DB[n].opcode = "OP" =>
              \/ \E r \in RegisterRows : ISA_DB[n] = Entry("OP", r[2], r[3], RegisterOf(r[4]))
              \/ \E r \in ProductRows : ISA_DB[n] = Entry("OP", r[2], 1, ProductOf(r[3], r[4], r[5]))
              \/ \E r \in QuotientRows : ISA_DB[n] = Entry("OP", r[2], 1, QuotientOf(r[3]))
         /\ ISA_DB[n].opcode = "FENCE" =>
              \E r \in FenceRows : ISA_DB[n] = Entry("FENCE", r[2], Open, FenceSignals)
<1>1. CASE n \in DOMAIN UpperTypes
  <2>1. PICK r \in UpperRows : r[1] = n /\ ISA_DB[n] = Entry(r[2], r[3], Open, UpperOf(n))
    BY <1>1, UpperEntries
  <2>2. ISA_DB[n].opcode = r[2]  BY <2>1, EntryFields
  <2> QED  BY <2>1, <2>2 DEF UpperRows
<1>2. CASE n \in DOMAIN Branches
  BY <1>2, BranchEntries, EntryFields
<1>3. CASE n \in DOMAIN Loads
  BY <1>3, LoadEntries, EntryFields
<1>4. CASE n \in DOMAIN Stores
  BY <1>4, StoreEntries, EntryFields
<1>5. CASE n \in DOMAIN OpImms
  BY <1>5, ImmediateEntries, EntryFields
<1>6. CASE n \in DOMAIN Ops
  BY <1>6, RegisterEntries, EntryFields
<1>7. CASE n \in DOMAIN MulDivs
  BY <1>7, ProductEntries, EntryFields
<1>8. CASE n \in DOMAIN Fences
  BY <1>8, FenceEntries, EntryFields
<1> QED  BY <1>1, <1>2, <1>3, <1>4, <1>5, <1>6, <1>7, <1>8, EveryMnemonic

LEMMA BlockOfOpcode ==
  ASSUME NEW E, NEW w
  PROVE  /\ \A o \in SimpleOpcodes : OpcodeBlock(o, E, w) = OpcodeSimple(E, w)
         /\ OpcodeBlock("JALR", E, w) = OpcodeWithFunct3(E, w)
         /\ OpcodeBlock("BRANCH", E, w) = OpcodeBranch(E, w)
         /\ OpcodeBlock("LOAD", E, w) = OpcodeLoad(E, w)
         /\ OpcodeBlock("STORE", E, w) = OpcodeStore(E, w)
         /\ OpcodeBlock("OPIMM", E, w) = OpcodeOpimm(E, w)
         /\ OpcodeBlock("OP", E, w) = OpcodeOp(E, w)
         /\ OpcodeBlock("FENCE", E, w) = OpcodeFence(E, w)
  BY DEF OpcodeBlock, SimpleOpcodes

\* Whatever instructions are left, a word is decoded as before or is illegal,
\* and illegal only where no instruction left encodes it.
LEMMA SpecializedIsFaithful ==
  ASSUME NEW subset \in SUBSET Mnemonics, NEW w,
         w.opcode \in SimpleOpcodes \cup {"JALR", "BRANCH", "LOAD", "STORE", "OPIMM", "OP", "FENCE"},
         w.f3 \in 0..7, w.f7 \in 0..127, w.opcode = "OP" => w.f7 \in 0..63
  PROVE  Faithful({ISA_DB[n] : n \in {k \in subset : ISA_DB[k].opcode = w.opcode}}, w, Specialized(subset, w))
<1> DEFINE E == {ISA_DB[n] : n \in {k \in subset : ISA_DB[k].opcode = w.opcode}}
           s == Specialized(subset, w)
<1>1. /\ w.opcode \in {"LUI", "AUIPC", "JAL", "JALR", "BRANCH", "LOAD", "STORE", "OPIMM", "OP", "FENCE"}
      /\ w.f3 \in 0..7 /\ w.f7 \in 0..127 /\ (w.opcode = "OP" => w.f7 \in 0..63)
  BY DEF SimpleOpcodes
<1>2. s = IF E = {} THEN Illegal ELSE OpcodeBlock(w.opcode, E, w)  BY DEF Specialized
<1>3. CASE E = {}
  <2>1. s.illegal = 1  BY <1>2, <1>3 DEF Illegal, DefaultSignals
  <2> QED  BY <1>3, <2>1 DEF Faithful
<1>4. CASE E # {}
  <2>1. s = OpcodeBlock(w.opcode, E, w)  BY <1>2, <1>4
  <2>2. \A e \in E : \E n \in Mnemonics : e = ISA_DB[n] /\ ISA_DB[n].opcode = w.opcode  OBVIOUS
  <2> SUFFICES Faithful(E, w, s)
    OBVIOUS
  <2> HIDE DEF E, s
  <2>3. CASE w.opcode = "LUI"
    <3>1. \A e \in E : e = Entry("LUI", Open, Open, UpperOf("lui"))  BY <2>2, <2>3, EntriesOfOpcode
    <3> DEFINE r == <<"lui", "LUI", Open>>
    <3>2. r \in UpperRows /\ r[1] = "lui" /\ r[2] = "LUI" /\ r[3] = Open  BY DEF UpperRows
    <3> HIDE DEF r
    <3>3. Faithful(E, w, OpcodeSimple(E, w))  BY <1>4, <2>3, <3>1, <3>2, DecodesUpper
    <3> QED  BY <2>1, <2>3, <3>3, BlockOfOpcode DEF SimpleOpcodes
  <2>4. CASE w.opcode = "AUIPC"
    <3>1. \A e \in E : e = Entry("AUIPC", Open, Open, UpperOf("auipc"))  BY <2>2, <2>4, EntriesOfOpcode
    <3> DEFINE r == <<"auipc", "AUIPC", Open>>
    <3>2. r \in UpperRows /\ r[1] = "auipc" /\ r[2] = "AUIPC" /\ r[3] = Open  BY DEF UpperRows
    <3> HIDE DEF r
    <3>3. Faithful(E, w, OpcodeSimple(E, w))  BY <1>4, <2>4, <3>1, <3>2, DecodesUpper
    <3> QED  BY <2>1, <2>4, <3>3, BlockOfOpcode DEF SimpleOpcodes
  <2>5. CASE w.opcode = "JAL"
    <3>1. \A e \in E : e = Entry("JAL", Open, Open, UpperOf("jal"))  BY <2>2, <2>5, EntriesOfOpcode
    <3> DEFINE r == <<"jal", "JAL", Open>>
    <3>2. r \in UpperRows /\ r[1] = "jal" /\ r[2] = "JAL" /\ r[3] = Open  BY DEF UpperRows
    <3> HIDE DEF r
    <3>3. Faithful(E, w, OpcodeSimple(E, w))  BY <1>4, <2>5, <3>1, <3>2, DecodesUpper
    <3> QED  BY <2>1, <2>5, <3>3, BlockOfOpcode DEF SimpleOpcodes
  <2>6. CASE w.opcode = "JALR"
    <3>1. \A e \in E : e = Entry("JALR", 0, Open, UpperOf("jalr"))  BY <2>2, <2>6, EntriesOfOpcode
    <3>2. Faithful(E, w, OpcodeWithFunct3(E, w))  BY <1>1, <2>6, <3>1, DecodesJalr
    <3> QED  BY <2>1, <2>6, <3>2, BlockOfOpcode DEF SimpleOpcodes
  <2>7. CASE w.opcode = "BRANCH"
    <3>1. \A e \in E : \E r \in BranchRows : e = Entry("BRANCH", r[2], Open, BranchOf(r[3]))
      BY <2>2, <2>7, EntriesOfOpcode
    <3>2. Faithful(E, w, OpcodeBranch(E, w))  BY <1>1, <2>7, <3>1, DecodesBranch
    <3> QED  BY <2>1, <2>7, <3>2, BlockOfOpcode DEF SimpleOpcodes
  <2>8. CASE w.opcode = "LOAD"
    <3>1. \A e \in E : \E r \in LoadRows : e = Entry("LOAD", r[2], Open, LoadOf(r[3], r[4]))
      BY <2>2, <2>8, EntriesOfOpcode
    <3>2. Faithful(E, w, OpcodeLoad(E, w))  BY <1>1, <2>8, <3>1, DecodesLoad
    <3> QED  BY <2>1, <2>8, <3>2, BlockOfOpcode DEF SimpleOpcodes
  <2>9. CASE w.opcode = "STORE"
    <3>1. \A e \in E : \E r \in StoreRows : e = Entry("STORE", r[2], Open, StoreOf(r[3]))
      BY <2>2, <2>9, EntriesOfOpcode
    <3>2. Faithful(E, w, OpcodeStore(E, w))  BY <1>1, <2>9, <3>1, DecodesStore
    <3> QED  BY <2>1, <2>9, <3>2, BlockOfOpcode DEF SimpleOpcodes
  <2>10. CASE w.opcode = "OPIMM"
    <3>1. \A e \in E : \E r \in ImmediateRows : e = Entry("OPIMM", r[2], r[3], ImmediateOf(r[4]))
      BY <2>2, <2>10, EntriesOfOpcode
    <3>2. Faithful(E, w, OpcodeOpimm(E, w))  BY <1>1, <2>10, <3>1, DecodesOpimm
    <3> QED  BY <2>1, <2>10, <3>2, BlockOfOpcode DEF SimpleOpcodes
  <2>11. CASE w.opcode = "OP"
    <3>1. \A e \in E : \/ \E r \in RegisterRows : e = Entry("OP", r[2], r[3], RegisterOf(r[4]))
                       \/ \E r \in ProductRows : e = Entry("OP", r[2], 1, ProductOf(r[3], r[4], r[5]))
                       \/ \E r \in QuotientRows : e = Entry("OP", r[2], 1, QuotientOf(r[3]))
      BY <2>2, <2>11, EntriesOfOpcode
    <3>2. Faithful(E, w, OpcodeOp(E, w))  BY <1>1, <2>11, <3>1, DecodesOp
    <3> QED  BY <2>1, <2>11, <3>2, BlockOfOpcode DEF SimpleOpcodes
  <2>12. CASE w.opcode = "FENCE"
    <3>1. \A e \in E : \E r \in FenceRows : e = Entry("FENCE", r[2], Open, FenceSignals)
      BY <2>2, <2>12, EntriesOfOpcode
    <3>2. Faithful(E, w, OpcodeFence(E, w))  BY <1>1, <2>12, <3>1, DecodesFence
    <3> QED  BY <2>1, <2>12, <3>2, BlockOfOpcode DEF SimpleOpcodes
  <2> QED  BY <1>1, <2>3, <2>4, <2>5, <2>6, <2>7, <2>8, <2>9, <2>10, <2>11, <2>12
<1> QED  BY <1>3, <1>4

\* Clearing bit 31 of a word gives a word again, and the specialised decoder
\* does not see it.
LEMMA ClearedWord ==
  ASSUME NEW w \in Words
  PROVE  LET v == WithoutBit31(w)
         IN  /\ v.opcode = w.opcode /\ v.f3 = w.f3 /\ v.f3 \in 0..7 /\ v.f7 \in 0..127
             /\ v.opcode \in SimpleOpcodes \cup {"JALR", "BRANCH", "LOAD", "STORE", "OPIMM", "OP", "FENCE"}
             /\ v.opcode = "OP" => v.f7 \in 0..63 /\ v.f7 = w.f7 % 64
             /\ v.opcode # "OP" => v = w
             /\ w.f7 \in 0..63 => v = w
<1> DEFINE Opcodes == SimpleOpcodes \cup {"JALR", "BRANCH", "LOAD", "STORE", "OPIMM", "OP", "FENCE"}
<1>1. w \in [opcode : Opcodes, f3 : 0..7, f7 : 0..127]
  BY WordsAssumption
<1>2. w.f7 % 64 \in 0..63 /\ (w.f7 \in 0..63 => w.f7 % 64 = w.f7)
  <2>1. w.f7 \in 0..127  BY <1>1
  <2> QED  BY <2>1, Z3
<1> HIDE DEF Opcodes
<1>3. CASE w.opcode = "OP"
  <2> DEFINE r == w.f7 % 64
  <2>1. WithoutBit31(w) = [w EXCEPT !.f7 = r]  BY <1>3 DEF WithoutBit31
  <2>2. r \in 0..63 /\ r \in 0..127  BY <1>2
  <2>3. w.f7 \in 0..63 => r = w.f7  BY <1>2
  <2> HIDE DEF r
  <2>4. [w EXCEPT !.f7 = r] = [opcode |-> w.opcode, f3 |-> w.f3, f7 |-> r]
        /\ w = [opcode |-> w.opcode, f3 |-> w.f3, f7 |-> w.f7]
    BY <1>1
  <2>5. /\ [w EXCEPT !.f7 = r].opcode = w.opcode /\ [w EXCEPT !.f7 = r].f3 = w.f3 /\ [w EXCEPT !.f7 = r].f7 = r
        /\ w.f7 \in 0..63 => [w EXCEPT !.f7 = r] = w
    BY <2>3, <2>4
  <2>6. r = w.f7 % 64  BY DEF r
  <2>7. w.opcode \in Opcodes /\ w.f3 \in 0..7  BY <1>1
  <2> QED  BY <1>3, <2>1, <2>2, <2>5, <2>6, <2>7 DEF Opcodes
<1>4. CASE w.opcode # "OP"
  <2>1. WithoutBit31(w) = w  BY <1>4 DEF WithoutBit31
  <2>2. w.opcode \in Opcodes /\ w.f3 \in 0..7 /\ w.f7 \in 0..127  BY <1>1
  <2> QED  BY <1>4, <2>1, <2>2 DEF Opcodes
<1> QED  BY <1>3, <1>4

LEMMA BlindToBit31 ==
  ASSUME NEW subset, NEW w \in Words
  PROVE  Specialized(subset, w) = Specialized(subset, WithoutBit31(w))
<1> DEFINE v == WithoutBit31(w)
           E == {ISA_DB[n] : n \in {k \in subset : ISA_DB[k].opcode = w.opcode}}
<1>1. /\ v.opcode = w.opcode /\ v.f3 = w.f3
      /\ v.opcode = "OP" => v.f7 \in 0..63 /\ v.f7 = w.f7 % 64
      /\ v.opcode # "OP" => v = w
  BY ClearedWord
<1> HIDE DEF v
<1>2. CASE w.opcode = "OP"
  <2>1. v.f7 \in 0..63 /\ v.f7 = w.f7 % 64  BY <1>1, <1>2
  <2>2. v.f7 % 64 = v.f7  BY <2>1, Z3
  <2>3. v.f7 % 64 = w.f7 % 64  BY <2>1, <2>2
  <2>4. OpcodeOp(E, w) = OpcodeOp(E, v)
    <3> HIDE DEF E
    <3> DEFINE of(x) == {e \in E : e.f3 = x.f3 /\ e.f7 = x.f7 % 64}
               out(m) == IF m # {} THEN (CHOOSE e \in m : TRUE).signals
                         ELSE [DefaultSignals EXCEPT !.alu_we = 1, !.rega = 1, !.illegal = 1]
    <3>1. of(w) = of(v)
      BY <1>1, <2>3
    <3>2. OpcodeOp(E, w) = out(of(w)) /\ OpcodeOp(E, v) = out(of(v))
      BY DEF OpcodeOp
    <3> HIDE DEF of, out
    <3> QED  BY <3>1, <3>2
  <2>5. Specialized(subset, w) = IF E = {} THEN Illegal ELSE OpcodeOp(E, w)
    BY <1>2, BlockOfOpcode DEF Specialized
  <2>6. Specialized(subset, v) = IF E = {} THEN Illegal ELSE OpcodeOp(E, v)
    BY <1>1, <1>2, BlockOfOpcode DEF Specialized
  <2>7. Specialized(subset, w) = Specialized(subset, v)
    <3> HIDE DEF E
    <3> QED  BY <2>4, <2>5, <2>6
  <2> QED  BY <2>7 DEF v
<1>3. CASE w.opcode # "OP"
  BY <1>1, <1>3 DEF v
<1> QED  BY <1>2, <1>3

\* The words an instruction encodes have bit 31 clear if they are OP words.
LEMMA EncodedWord ==
  ASSUME NEW n \in Mnemonics, NEW w \in Words, Encodes(n, w)
  PROVE  WithoutBit31(w) = w
<1>1. w.opcode # "OP" => WithoutBit31(w) = w
  BY ClearedWord
<1>2. ASSUME w.opcode = "OP" PROVE w.f7 \in 0..63
  <2>1. ISA_DB[n].opcode = "OP" /\ ISA_DB[n].f7 \in {Open, w.f7}
    BY <1>2 DEF Encodes
  <2>2. ISA_DB[n].f7 \in {0, 1, 32}
    BY <2>1, EntriesOfOpcode, EntryFields DEF RegisterRows
  <2> QED  BY <2>1, <2>2 DEF Open
<1> QED  BY <1>1, <1>2, ClearedWord

LEMMA NeedFaithful == NeedInv => DecoderFaithful
<1> SUFFICES ASSUME NeedInv, phase = "pragmas", NEW w \in Words
             PROVE  /\ Specialized(rtl.decoder, w).illegal = 0 =>
                         Specialized(rtl.decoder, w) = Original(WithoutBit31(w))
                    /\ (\E n \in Needed : Encodes(n, w)) => Specialized(rtl.decoder, w) = Original(w)
  BY DEF DecoderFaithful
<1> DEFINE v == WithoutBit31(w)
           E == {ISA_DB[n] : n \in {k \in rtl.decoder : ISA_DB[k].opcode = v.opcode}}
           s == Specialized(rtl.decoder, w)
<1>1. rtl.decoder = Subset(Analysis(bins).used)  BY DEF NeedInv, Specialised
<1>2. rtl.decoder \in SUBSET Mnemonics  BY <1>1 DEF Subset
<1>3. Faithful(E, v, s)
  <2>1. /\ v.f3 \in 0..7 /\ v.f7 \in 0..127 /\ (v.opcode = "OP" => v.f7 \in 0..63)
        /\ v.opcode \in SimpleOpcodes \cup {"JALR", "BRANCH", "LOAD", "STORE", "OPIMM", "OP", "FENCE"}
    BY ClearedWord
  <2>2. s = Specialized(rtl.decoder, v)  BY BlindToBit31
  <2> HIDE DEF v, s
  <2> QED  BY <1>2, <2>1, <2>2, SpecializedIsFaithful
<1>4. ASSUME NEW n \in Needed, Encodes(n, w) PROVE v = w /\ \E e \in E : Matches(e, v)
  <2>1. n \in rtl.decoder  BY <1>1, <1>4, ExpandedIsKept DEF Needed
  <2>2. v = w  BY <1>2, <1>4, <2>1, EncodedWord
  <2>3. ISA_DB[n].opcode = v.opcode /\ Matches(ISA_DB[n], v)
    <3> HIDE DEF v
    <3> QED  BY <1>4, <2>2 DEF Encodes, Matches
  <2> HIDE DEF v
  <2> QED  BY <2>1, <2>2, <2>3
<1> HIDE DEF E, s, v
<1>5. s.illegal = 0 => s = Original(v)
  BY <1>3 DEF Faithful
<1>6. ASSUME NEW n \in Needed, Encodes(n, w) PROVE s = Original(w)
  BY <1>3, <1>4, <1>6 DEF Faithful
<1> QED  BY <1>5, <1>6 DEF s, v

\* Whatever binaries are found, the generated decoder gives every word of the
\* program the signals of the decoder it replaces, and every word it still
\* takes the signals of that word, bit 31 of an OP word apart (generate_decoder
\* against cv32e40p_decoder.sv).
THEOREM DecoderAlwaysFaithful == Spec => []DecoderFaithful
<1> QED
  BY NeedInit, NeedNext, NeedFaithful, PTL DEF Spec

(***************************************************************************)
(* Enumerations.                                                           *)
(***************************************************************************)

\* A set of naturals has a least element: the induction below is over it.
LEMMA LeastNatural ==
  ASSUME NEW T \in SUBSET Nat, T # {}
  PROVE  \E x \in T : \A y \in T : x <= y
<1> DEFINE lt == {s \in Nat \X Nat : s[1] < s[2]}
<1>1. IsWellFoundedOn(lt, Nat)
  BY NatLessThanWellFounded DEF OpToRel
<1>2. PICK x \in T : \A y \in T : ~(<<y, x>> \in lt)
  BY <1>1, WFMin
<1>3. \A y \in T : ~(y < x)  BY <1>2
<1> QED  BY <1>3

\* The values of a width.
LEMMA Powers ==
  ASSUME NEW w \in 1..8
  PROVE  2^w \in Nat
<1>1. 2^1 = 2 /\ 2^2 = 4 /\ 2^3 = 8 /\ 2^4 = 16 /\ 2^5 = 32 /\ 2^6 = 64 /\ 2^7 = 128 /\ 2^8 = 256
  BY SMT
<1>2. w = 1 \/ w = 2 \/ w = 3 \/ w = 4 \/ w = 5 \/ w = 6 \/ w = 7 \/ w = 8
  OBVIOUS
<1>3. CASE w = 1  BY <1>1, <1>3
<1>4. CASE w = 2  BY <1>1, <1>4
<1>5. CASE w = 3  BY <1>1, <1>5
<1>6. CASE w = 4  BY <1>1, <1>6
<1>7. CASE w = 5  BY <1>1, <1>7
<1>8. CASE w = 6  BY <1>1, <1>8
<1>9. CASE w = 7  BY <1>1, <1>9
<1>10. CASE w = 8  BY <1>1, <1>10
<1> QED  BY <1>2, <1>3, <1>4, <1>5, <1>6, <1>7, <1>8, <1>9, <1>10

\* How many bits n values need.
LEMMA BitsAreEnough ==
  ASSUME NEW n \in 0..128
  PROVE  BitsFor(n) \in 1..8 /\ n <= 2^BitsFor(n)
<1> DEFINE T == {w \in 1..8 : 2^w >= n}
<1>1. 2^1 = 2 /\ 2^2 = 4 /\ 2^3 = 8 /\ 2^4 = 16 /\ 2^5 = 32 /\ 2^6 = 64 /\ 2^7 = 128 /\ 2^8 = 256
  BY SMT
<1>3. \A w \in 1..8 : 2^w \in Nat
  BY Powers
<1>4. 8 \in T
  BY <1>1
<1>5. PICK x \in T : \A y \in T : x <= y
  <2>1. \A w \in T : w \in Nat  OBVIOUS
  <2> HIDE DEF T
  <2>2. T \in (SUBSET Nat) /\ T # {}  BY <1>4, <2>1
  <2> QED  BY <2>2, LeastNatural
<1>6. x \in 1..8 /\ 2^x >= n
  BY <1>5
<1>7. \A v \in 1..(x - 1) : 2^v < n
  <2> SUFFICES ASSUME NEW v \in 1..(x - 1) PROVE 2^v < n
    OBVIOUS
  <2>1. v \in 1..8 /\ v < x  BY <1>6
  <2>2. v \notin T
    <3> HIDE DEF T
    <3> QED  BY <1>5, <1>6, <2>1
  <2> QED  BY <1>3, <2>1, <2>2
<1>8. \E w \in 1..8 : 2^w >= n /\ \A v \in 1..(w - 1) : 2^v < n
  BY <1>6, <1>7
<1>9. BitsFor(n) \in 1..8 /\ 2^BitsFor(n) >= n
  BY <1>8 DEF BitsFor
<1>10. 2^BitsFor(n) \in Nat
  BY <1>3, <1>9
<1> QED  BY <1>9, <1>10

\* No member in use is lost, and there are no more than before (_plan_single_enum).
LEMMA KeptAreUsed ==
  ASSUME NEW S, NEW s \in Seq(S), NEW used
  PROVE  /\ KeptMembers(s, used) \in Seq(S)
         /\ Len(KeptMembers(s, used)) <= Len(s)
         /\ \A i \in 1..Len(s) : s[i] \in used => \E j \in 1..Len(KeptMembers(s, used)) : KeptMembers(s, used)[j] = s[i]
<1> DEFINE D == 0..Len(s)
           up(f, i) == IF i = 0 THEN <<>> ELSE IF s[i] \in used THEN Append(f[i - 1], s[i]) ELSE f[i - 1]
           Bad == {m \in D : ~\E f \in [D -> Seq(S)] : \A k \in D : k <= m => f[k] = up(f, k)}
<1>1. Len(s) \in Nat /\ \A i \in 1..Len(s) : s[i] \in S
  OBVIOUS
<1>2. Bad = {}
  <2> SUFFICES ASSUME Bad # {} PROVE FALSE
    OBVIOUS
  <2>1. PICK m \in Bad : \A j \in Bad : m <= j
    <3>1. Bad \in SUBSET Nat  BY <1>1
    <3> HIDE DEF Bad
    <3> QED  BY <3>1, LeastNatural
  <2>2. CASE m = 0
    <3> DEFINE f == [k \in D |-> <<>>]
    <3>1. f \in [D -> Seq(S)]  OBVIOUS
    <3>2. \A k \in D : k <= m => f[k] = up(f, k)  BY <1>1, <2>2
    <3> QED  BY <2>1, <3>1, <3>2
  <2>3. CASE m # 0
    <3>1. m \in 1..Len(s) /\ m - 1 \in D /\ m - 1 \notin Bad
      <4>1. m \in D  BY <2>1
      <4>2. m \in 1..Len(s) /\ m - 1 \in D  BY <1>1, <2>3, <4>1
      <4> HIDE DEF Bad
      <4>3. m - 1 \in Bad => m <= m - 1  BY <2>1
      <4> QED  BY <4>2, <4>3
    <3>2. PICK f \in [D -> Seq(S)] : \A k \in D : k <= m - 1 => f[k] = up(f, k)
      BY <3>1
    <3> DEFINE g == [f EXCEPT ![m] = up(f, m)]
    <3>3. up(f, m) \in Seq(S)
      <4>1. f[m - 1] \in Seq(S) /\ s[m] \in S  BY <1>1, <3>1
      <4> QED  BY <3>1, <4>1
    <3>4. g \in [D -> Seq(S)]
      <4> HIDE DEF up
      <4> QED  BY <3>3
    <3>5. ASSUME NEW k \in D, k <= m PROVE g[k] = up(g, k)
      <4>1. k # 0 => k - 1 # m /\ k - 1 \in D /\ k - 1 < m  BY <1>1, <3>1, <3>5
      <4>2. up(g, k) = up(f, k)  BY <4>1
      <4>3. CASE k = m
        <5> HIDE DEF up
        <5>1. g[k] = up(f, k)  BY <3>2, <4>3
        <5> QED  BY <4>2, <5>1
      <4>4. CASE k # m
        <5>1. k <= m - 1  BY <1>1, <3>1, <3>5, <4>4
        <5>2. f[k] = up(f, k)  BY <3>2, <5>1
        <5> HIDE DEF up
        <5>3. g[k] = f[k]  BY <3>2, <4>4
        <5> QED  BY <4>2, <5>2, <5>3
      <4> QED  BY <4>3, <4>4
    <3> HIDE DEF g, up
    <3> QED  BY <2>1, <3>4, <3>5
  <2> QED  BY <2>2, <2>3
<1>3. PICK f \in [D -> Seq(S)] : \A k \in D : f[k] = up(f, k)
  <2>1. Len(s) \in D  BY <1>1
  <2>2. Len(s) \notin Bad
    <3> HIDE DEF Bad
    <3> QED  BY <1>2
  <2>3. \A k \in D : k <= Len(s)  BY <1>1
  <2> HIDE DEF up
  <2> QED  BY <2>1, <2>2, <2>3
<1>4. f = [k \in D |-> up(f, k)]
  <2> HIDE DEF up
  <2> QED  BY <1>3
<1> DEFINE upto == CHOOSE h : h = [k \in D |-> up(h, k)]
<1>5. upto = [k \in D |-> up(upto, k)]  BY <1>4
<1>6. KeptMembers(s, used) = upto[Len(s)]  BY DEF KeptMembers
<1> HIDE DEF upto
<1> DEFINE Diff == {k \in D : upto[k] # f[k]}
<1>7. Diff = {}
  <2> SUFFICES ASSUME Diff # {} PROVE FALSE
    OBVIOUS
  <2>1. PICK m \in Diff : \A j \in Diff : m <= j
    <3>1. Diff \in SUBSET Nat  BY <1>1
    <3> HIDE DEF Diff
    <3> QED  BY <3>1, LeastNatural
  <2>2. m \in D /\ upto[m] # f[m]  BY <2>1
  <2>3. upto[m] = up(upto, m) /\ f[m] = up(f, m)
    <3> HIDE DEF up
    <3> QED  BY <1>3, <1>5, <2>2
  <2>4. CASE m = 0  BY <2>2, <2>3, <2>4
  <2>5. CASE m # 0
    <3>1. m \in Nat /\ m - 1 \in D  BY <1>1, <2>2, <2>5
    <3>2. m - 1 \notin Diff
      <4> HIDE DEF Diff
      <4>1. m - 1 \in Diff => m <= m - 1  BY <2>1
      <4> QED  BY <3>1, <4>1
    <3>3. upto[m - 1] = f[m - 1]  BY <3>1, <3>2
    <3> QED  BY <2>2, <2>3, <2>5, <3>3
  <2> QED  BY <2>4, <2>5
<1>8. KeptMembers(s, used) = f[Len(s)]
  <2>1. Len(s) \in D  BY <1>1
  <2> QED  BY <1>6, <1>7, <2>1
<1>9. f[0] = <<>>
  <2>1. 0 \in D /\ f[0] = up(f, 0)  BY <1>1, <1>3
  <2> QED  BY <2>1
<1>10. \A i \in 1..Len(s) : f[i] = IF s[i] \in used THEN Append(f[i - 1], s[i]) ELSE f[i - 1]
  <2> SUFFICES ASSUME NEW i \in 1..Len(s)
               PROVE  f[i] = IF s[i] \in used THEN Append(f[i - 1], s[i]) ELSE f[i - 1]
    OBVIOUS
  <2>1. i \in D /\ i # 0  BY <1>1
  <2>2. f[i] = up(f, i)  BY <1>3, <2>1
  <2> QED  BY <2>1, <2>2
<1>11. /\ f \in [0..Len(s) -> Seq(S)]
       /\ f[0] = <<>>
       /\ \A i \in 1..Len(s) : f[i] = IF s[i] \in used THEN Append(f[i - 1], s[i]) ELSE f[i - 1]
       /\ KeptMembers(s, used) = f[Len(s)]
  BY <1>3, <1>8, <1>9, <1>10
<1> HIDE DEF D, up, Bad, Diff
<1> DEFINE Good(m) == /\ Len(f[m]) <= m
                      /\ \A i \in 1..m : s[i] \in used => \E j \in 1..Len(f[m]) : f[m][j] = s[i]
           Lost == {m \in 0..Len(s) : ~Good(m)}
<1>12. Len(s) \in Nat /\ \A i \in 1..Len(s) : s[i] \in S
  OBVIOUS
<1>13. Lost = {}
  <2> SUFFICES ASSUME Lost # {} PROVE FALSE
    OBVIOUS
  <2>1. PICK m \in Lost : \A j \in Lost : m <= j
    <3>1. Lost \in SUBSET Nat  BY <1>12
    <3> HIDE DEF Lost
    <3> QED  BY <3>1, LeastNatural
  <2>2. m \in 0..Len(s) /\ ~Good(m)  BY <2>1
  <2>3. CASE m = 0
    <3>1. Good(0)  BY <1>11
    <3> QED  BY <2>2, <2>3, <3>1
  <2>4. CASE m # 0
    <3>1. m \in 1..Len(s) /\ m \in Nat /\ m - 1 \in 0..Len(s)  BY <1>12, <2>2, <2>4
    <3>2. Good(m - 1)
      <4>1. m - 1 \notin Lost
        <5> HIDE DEF Lost
        <5>1. m - 1 \in Lost => m <= m - 1  BY <2>1
        <5> QED  BY <3>1, <5>1
      <4> HIDE DEF Good
      <4> QED  BY <3>1, <4>1
    <3> DEFINE a == f[m - 1]
               b == f[m]
    <3>3. a \in Seq(S) /\ b = (IF s[m] \in used THEN Append(a, s[m]) ELSE a) /\ s[m] \in S
      BY <1>11, <1>12, <3>1
    <3>4. Len(a) <= m - 1 /\ \A i \in 1..(m - 1) : s[i] \in used => \E j \in 1..Len(a) : a[j] = s[i]
      BY <3>2
    <3> HIDE DEF a
    <3>5. Good(m) <=> /\ Len(b) <= m
                      /\ \A i \in 1..m : s[i] \in used => \E j \in 1..Len(b) : b[j] = s[i]
      OBVIOUS
    <3> HIDE DEF b, Good
    <3>6. CASE s[m] \notin used
      <4>1. b = a  BY <3>3, <3>6
      <4>2. \A i \in 1..m : s[i] \in used => i \in 1..(m - 1)  BY <3>1, <3>6
      <4>3. Len(b) \in Nat /\ Len(b) <= m  BY <3>1, <3>3, <3>4, <4>1
      <4>4. Good(m)  BY <3>4, <3>5, <4>1, <4>2, <4>3
      <4> QED  BY <2>2, <4>4
    <3>7. CASE s[m] \in used
      <4>1. /\ b = Append(a, s[m]) /\ Len(a) \in Nat /\ Len(b) = Len(a) + 1
            /\ b[Len(a) + 1] = s[m] /\ \A j \in 1..Len(a) : b[j] = a[j]
        BY <3>3, <3>7
      <4>2. Len(b) <= m  BY <3>1, <3>4, <4>1
      <4>3. ASSUME NEW i \in 1..m, s[i] \in used PROVE \E j \in 1..Len(b) : b[j] = s[i]
        <5>1. CASE i = m
          <6>1. Len(a) + 1 \in 1..Len(b)  BY <4>1
          <6> QED  BY <4>1, <5>1, <6>1
        <5>2. CASE i # m
          <6>1. i \in 1..(m - 1)  BY <3>1, <5>2
          <6>2. PICK j \in 1..Len(a) : a[j] = s[i]  BY <3>4, <4>3, <6>1
          <6>3. j \in 1..Len(b) /\ b[j] = s[i]  BY <4>1, <6>2
          <6> QED  BY <6>3
        <5> QED  BY <5>1, <5>2
      <4> QED  BY <2>2, <3>5, <4>2, <4>3
    <3> QED  BY <3>6, <3>7
  <2> QED  BY <2>3, <2>4
<1>14. Len(s) \in 0..Len(s) /\ f[Len(s)] \in Seq(S)  BY <1>11, <1>12
<1>15. Good(Len(s))
  <2> HIDE DEF Good
  <2> QED  BY <1>13, <1>14
<1> QED  BY <1>11, <1>14, <1>15

\* A member with an index has a value that fits, wherever it is found first.
LEMMA ValueFits ==
  ASSUME NEW enum, enum.members \in Seq(STRING), 2^enum.width \in Nat, Len(enum.members) <= 2^enum.width,
         NEW i \in DOMAIN enum.members
  PROVE  MemberValue(enum, enum.members[i]) < 2^enum.width
<1> DEFINE n == enum.members[i]
           k == CHOOSE j \in DOMAIN enum.members : enum.members[j] = n
<1>1. DOMAIN enum.members = 1..Len(enum.members) /\ Len(enum.members) \in Nat
  OBVIOUS
<1>2. \E j \in DOMAIN enum.members : enum.members[j] = n
  OBVIOUS
<1>3. k \in DOMAIN enum.members
  BY <1>2
<1>4. MemberValue(enum, n) = k - 1
  BY DEF MemberValue
<1> HIDE DEF k
<1> QED
  BY <1>1, <1>3, <1>4

\* What a re-encoding keeps has a value that fits the new width.
LEMMA ReencodingFits ==
  ASSUME NEW name \in DOMAIN Enums, NEW used,
         NEW i \in DOMAIN Enums[name].members, Enums[name].members[i] \in used
  PROVE  LET new == Reencoding(name, Enums[name], used)
             n   == Enums[name].members[i]
         IN  \E j \in DOMAIN new.members : new.members[j] = n /\ MemberValue(new, n) < 2^new.width
<1> DEFINE enum  == Enums[name]
           n     == Enums[name].members[i]
           kept  == KeptMembers(enum.members, used)
           width == NewWidth(kept)
           new   == Reencoding(name, enum, used)
<1>1. /\ enum \in [members : Seq(STRING), width : 1..8]
      /\ Len(enum.members) <= 2^enum.width
      /\ name \notin SkipEnums => Len(enum.members) <= 128
  BY EnumsAssumption
<1>2. 2^enum.width \in Nat
  <2> HIDE DEF enum
  <2> QED  BY <1>1, Powers
<1>3. enum.members \in Seq(STRING) /\ i \in DOMAIN enum.members /\ i \in 1..Len(enum.members) /\ enum.members[i] = n
  BY <1>1
<1>4. CASE new = enum
  <2>1. MemberValue(enum, enum.members[i]) < 2^enum.width
    <3> HIDE DEF enum
    <3> QED  BY <1>1, <1>2, <1>3, ValueFits
  <2> QED  BY <1>3, <1>4, <2>1
<1>5. CASE new # enum
  <2>1. name \notin SkipEnums /\ new = [enum EXCEPT !.members = kept, !.width = width]
    BY <1>5 DEF Reencoding
  <2>2. /\ kept \in Seq(STRING)
        /\ Len(kept) <= Len(enum.members)
        /\ \A k \in 1..Len(enum.members) : enum.members[k] \in used => \E j \in 1..Len(kept) : kept[j] = enum.members[k]
    <3> HIDE DEF enum
    <3> QED  BY <1>3, KeptAreUsed
  <2>3. PICK j \in 1..Len(kept) : kept[j] = n
    <3> HIDE DEF kept, enum, n
    <3>1. enum.members[i] \in used  BY DEF enum
    <3> QED  BY <1>3, <2>2, <3>1
  <2>4. width \in 1..8 /\ Len(kept) <= 2^width
    <3>1. Len(enum.members) \in Nat /\ Len(kept) \in Nat
      <4> HIDE DEF kept, enum
      <4> QED  BY <1>3, <2>2
    <3>2. Len(enum.members) <= 128 /\ Len(kept) <= Len(enum.members)
      BY <1>1, <2>1, <2>2, Zenon
    <3>3. Len(kept) \in 0..128
      <4> DEFINE a == Len(kept)
                 b == Len(enum.members)
      <4> HIDE DEF a, b
      <4>1. a \in Nat /\ b \in Nat /\ a <= b /\ b <= 128  BY <3>1, <3>2 DEF a, b
      <4>2. a \in 0..128  BY <4>1
      <4> QED  BY <4>2 DEF a
    <3> HIDE DEF kept
    <3> QED  BY <3>3, BitsAreEnough DEF NewWidth
  <2>5. 2^width \in Nat
    <3> HIDE DEF width
    <3> QED  BY <2>4, Powers
  <2>6. new.members = kept /\ new.width = width
    <3> HIDE DEF kept, width, new, enum
    <3> QED  BY <1>1, <2>1
  <2> HIDE DEF kept, width, new, enum, n
  <2>7. j \in DOMAIN new.members /\ new.members[j] = n
    BY <2>2, <2>3, <2>6
  <2>8. MemberValue(new, new.members[j]) < 2^new.width
    BY <2>2, <2>4, <2>5, <2>6, <2>7, ValueFits
  <2> QED
    BY <2>7, <2>8 DEF new, enum, n
<1> QED
  BY <1>4, <1>5

\* The enumerations are those declared, until the last pass: then each is
\* re-encoded for the members its final text mentions.
EnumsInv ==
  \/ rtl.enums = Enums
  \/ /\ phase = "done"
     /\ rtl.enums = [n \in DOMAIN Enums |-> Reencoding(n, Enums[n], UsedMembers(rtl.lines, Enums[n], Package))]

LEMMA EnumsInit == Init => EnumsInv
  BY DEF Init, EnumsInv, Shipped

LEMMA EnumsNext == Fields /\ EnumsInv /\ [Next]_vars => EnumsInv'
<1> SUFFICES ASSUME Fields, EnumsInv, [Next]_vars PROVE EnumsInv'
  OBVIOUS
<1>1. CASE ComputePruneConfig
  BY <1>1 DEF ComputePruneConfig, EnumsInv
<1>2. CASE ApplyPruner
  <2>1. phase # "done" /\ rtl'.enums = rtl.enums
    BY <1>2 DEF ApplyPruner, Fields
  <2> QED
    BY <2>1 DEF EnumsInv
<1>3. CASE GenerateSpecializedDecoder
  <2>1. phase # "done" /\ rtl'.enums = rtl.enums
    BY <1>3 DEF GenerateSpecializedDecoder, Fields
  <2> QED
    BY <2>1 DEF EnumsInv
<1>4. CASE ApplyPragmas \/ ApplyDceCleanup
  <2>1. phase # "done" /\ rtl'.enums = rtl.enums
    BY <1>4 DEF ApplyPragmas, ApplyDceCleanup, Fields
  <2> QED
    BY <2>1 DEF EnumsInv
<1>5. CASE ApplyEncodingOptimization
  <2> DEFINE clean == CleanDeadReferences(rtl.lines, config.removable_mul_modes)
             new == [n \in DOMAIN rtl.enums |-> Reencoding(n, rtl.enums[n], UsedMembers(clean, rtl.enums[n], Package))]
  <2>1. rtl.enums = Enums /\ phase' = "done"
    BY <1>5 DEF ApplyEncodingOptimization, EnumsInv
  <2>2. rtl' = rtl \/ rtl' = [rtl EXCEPT !.lines = clean, !.enums = new]
    BY <1>5 DEF ApplyEncodingOptimization
  <2>3. CASE rtl' = rtl
    BY <2>1, <2>3 DEF EnumsInv
  <2>4. CASE rtl' = [rtl EXCEPT !.lines = clean, !.enums = new]
    <3>1. rtl'.lines = clean /\ rtl'.enums = new
      <4> HIDE DEF clean, new
      <4> QED  BY <2>4 DEF Fields
    <3>2. new = [n \in DOMAIN Enums |-> Reencoding(n, Enums[n], UsedMembers(rtl'.lines, Enums[n], Package))]
      BY <2>1, <3>1
    <3> QED
      BY <2>1, <3>1, <3>2 DEF EnumsInv
  <2> QED
    BY <2>2, <2>3, <2>4
<1>6. CASE UNCHANGED vars
  BY <1>6 DEF vars, EnumsInv
<1> QED
  BY <1>1, <1>2, <1>3, <1>4, <1>5, <1>6 DEF Next

LEMMA EnumsImply == EnumsInv => EncodingFits
<1> SUFFICES ASSUME EnumsInv, NEW name \in DOMAIN Enums,
                    NEW l \in rtl.lines, l.file # Package,
                    NEW i \in DOMAIN Enums[name].members, Enums[name].members[i] \in Names(l)
             PROVE  \E j \in DOMAIN rtl.enums[name].members :
                      /\ rtl.enums[name].members[j] = Enums[name].members[i]
                      /\ MemberValue(rtl.enums[name], Enums[name].members[i]) < 2^rtl.enums[name].width
  BY DEF EncodingFits
<1>1. CASE rtl.enums = Enums
  <2> DEFINE enum == Enums[name]
  <2>1. /\ enum \in [members : Seq(STRING), width : 1..8]
        /\ Len(enum.members) <= 2^enum.width
    BY EnumsAssumption
  <2>2. i \in DOMAIN enum.members
    OBVIOUS
  <2>3. MemberValue(enum, enum.members[i]) < 2^enum.width
    <3> HIDE DEF enum
    <3>1. 2^enum.width \in Nat  BY <2>1, Powers
    <3> QED  BY <2>1, <2>2, <3>1, ValueFits
  <2> QED
    BY <1>1, <2>2, <2>3
<1>2. CASE rtl.enums = [n \in DOMAIN Enums |-> Reencoding(n, Enums[n], UsedMembers(rtl.lines, Enums[n], Package))]
  <2> DEFINE used == UsedMembers(rtl.lines, Enums[name], Package)
  <2>1. Enums[name].members[i] \in used
    BY DEF UsedMembers
  <2>2. rtl.enums[name] = Reencoding(name, Enums[name], used)
    BY <1>2
  <2> HIDE DEF used
  <2> QED
    BY <2>1, <2>2, ReencodingFits
<1> QED
  BY <1>1, <1>2 DEF EnumsInv

\* Whatever lines the passes leave and whether or not the re-encoding fails,
\* every member of an enumeration that the text mentions has a value that fits
\* the width (apply_encoding_optimization, _plan_single_enum).
THEOREM EncodingAlwaysFits == Spec => []EncodingFits
  BY TypeInit, TypeNext, EnumsInit, EnumsNext, EnumsImply, PTL DEF Spec

-----------------------------------------------------------------------------
(***************************************************************************)
(* The text without debug and without interrupts.                          *)
(***************************************************************************)
OffText == AfterPragmas(Core, FALSE, FALSE)

Members(enums) == UNION {{e.members[i] : i \in DOMAIN e.members} : e \in {enums[n] : n \in DOMAIN enums}}

DeclaredIn(lines, file) == UNION {l.decl : l \in {k \in lines : k.file \in {file, Package}}}

\* What the pragmas leave is declared; the package itself mentions no member
\* of the enumerations it declares.
PragmasAgree ==
  \A l \in OffText : l.kind = "code" =>
    l.uses \subseteq DeclaredIn(OffText, l.file) \cup (IF l.file = Package THEN {} ELSE Members(Enums))

\* A part of the text from which only declarations of names that nothing in
\* their file uses are gone.
OnlyUnusedGone(s) ==
  /\ s \subseteq OffText
  /\ \A d \in OffText \ s :
       d.kind = "code" /\ d.uses = {} /\ d.file # Package /\ d.decl \cap Used(OffText, d.file) = {}

\* One pass over the text (run_dce_pass).
Pass(s) == s \ {d \in {k \in s : k.file \notin {Package} /\ k \in Declarations(s, k.file)} : Dead(s, d) # {}}

\* A line with a dead name has only names that nothing uses, and removing it
\* leaves no other name dangling.
LEMMA PassKeeps ==
  ASSUME NEW s, OnlyUnusedGone(s)
  PROVE  OnlyUnusedGone(Pass(s))
<1>1. Pass(s) \subseteq OffText
  BY DEF Pass, OnlyUnusedGone
<1>2. ASSUME NEW d \in OffText \ Pass(s)
      PROVE  d.kind = "code" /\ d.uses = {} /\ d.file # Package /\ d.decl \cap Used(OffText, d.file) = {}
  <2>1. CASE d \notin s
    BY <1>2, <2>1 DEF OnlyUnusedGone
  <2>2. CASE d \in s
    <3>1. /\ d.file # Package /\ d.decl # {} /\ d.uses = {} /\ d.kind = "code"
          /\ Dead(s, d) # {}
      BY <1>2, <2>2 DEF Pass, Declarations
    <3>2. PICK n \in d.decl : \A l \in s \ {d} : l.file = d.file => n \notin l.decl \cup l.uses
      BY <3>1 DEF Dead, Names
    <3>3. ASSUME NEW l \in OffText, l.file = d.file, n \in l.uses PROVE FALSE
      <4>1. CASE l \in s
        BY <3>1, <3>2, <3>3, <4>1
      <4>2. CASE l \notin s
        BY <3>3, <4>2 DEF OnlyUnusedGone
      <4> QED  BY <4>1, <4>2
    <3>4. n \notin Used(OffText, d.file)
      BY <3>3 DEF Used
    <3>5. d.decl \subseteq Used(OffText, d.file) \/ d.decl \cap Used(OffText, d.file) = {}
      BY <1>2, <3>1, CoreAssumption DEF OffText
    <3> QED  BY <3>1, <3>2, <3>4, <3>5
  <2> QED  BY <2>1, <2>2
<1> QED  BY <1>1, <1>2 DEF OnlyUnusedGone

\* Five passes, one after the other (run_dce_on_directory).
LEMMA DeadCodeIs ==
  ASSUME NEW s
  PROVE  DeadCode(s, {Package}) = Pass(Pass(Pass(Pass(Pass(s)))))
<1> DEFINE D == 0..MaxIterations
           step(h, n) == IF n = 0 THEN s ELSE Pass(h[n - 1])
           after == CHOOSE h : h = [n \in D |-> step(h, n)]
           f == [n \in D |-> CASE n = 0 -> s
                               [] n = 1 -> Pass(s)
                               [] n = 2 -> Pass(Pass(s))
                               [] n = 3 -> Pass(Pass(Pass(s)))
                               [] n = 4 -> Pass(Pass(Pass(Pass(s))))
                               [] n = 5 -> Pass(Pass(Pass(Pass(Pass(s)))))]
<1>1. D = {0, 1, 2, 3, 4, 5}
  BY DEF MaxIterations
<1>2. DeadCode(s, {Package}) = after[5]
  BY DEF DeadCode, Pass, MaxIterations
<1>3. f = [n \in D |-> step(f, n)]
  <2>1. \A n \in D : f[n] = step(f, n)
    BY <1>1
  <2> HIDE DEF step
  <2> QED  BY <2>1
<1>4. after = [n \in D |-> step(after, n)]
  <2> HIDE DEF f, step, D
  <2> QED  BY <1>3
<1>5. /\ after[0] = s
      /\ after[1] = Pass(after[0])
      /\ after[2] = Pass(after[1])
      /\ after[3] = Pass(after[2])
      /\ after[4] = Pass(after[3])
      /\ after[5] = Pass(after[4])
  <2> HIDE DEF after, D
  <2>1. \A n \in {0, 1, 2, 3, 4, 5} : after[n] = step(after, n)
    BY <1>1, <1>4
  <2> QED  BY <2>1
<1> HIDE DEF after
<1> QED  BY <1>2, <1>5

\* What is left still declares what it mentions.
LEMMA LeftDeclared ==
  ASSUME PragmasAgree, NEW s, OnlyUnusedGone(s), NEW l \in s, l.kind = "code"
  PROVE  l.uses \subseteq DeclaredIn(s, l.file) \cup (IF l.file = Package THEN {} ELSE Members(Enums))
<1> SUFFICES ASSUME NEW n \in l.uses, ~(l.file # Package /\ n \in Members(Enums))
             PROVE  n \in DeclaredIn(s, l.file)
  OBVIOUS
<1>1. l \in OffText
  BY DEF OnlyUnusedGone
<1>2. n \in DeclaredIn(OffText, l.file)
  BY <1>1 DEF PragmasAgree
<1>3. PICK k \in OffText : k.file \in {l.file, Package} /\ n \in k.decl
  BY <1>2 DEF DeclaredIn
<1>4. k \in s
  <2> SUFFICES ASSUME k \notin s PROVE FALSE
    OBVIOUS
  <2>1. k.file # Package /\ k.decl \cap Used(OffText, k.file) = {}
    BY <1>3 DEF OnlyUnusedGone
  <2>2. n \in Used(OffText, k.file)
    BY <1>1, <1>3, <2>1 DEF Used
  <2> QED  BY <1>3, <2>1, <2>2
<1> QED  BY <1>3, <1>4 DEF DeclaredIn

\* A pragma removes lines, or names from a line.
LEMMA WithoutIsLine ==
  ASSUME NEW l \in Lines, NEW names
  PROVE  Without(l, names) \in Lines
  BY DEF Without, Lines

LEMMA FeatureLines ==
  ASSUME NEW s, s \subseteq Lines, NEW prefix, NEW on
  PROVE  FeaturePragmas(s, prefix, on) \subseteq Lines
<1> SUFFICES ASSUME NEW l \in s,
                    NEW k \in (CASE l.tag = <<>> \/ l.tag[1] # prefix -> {l}
                                 [] l.tag[2] = "REMOVE" -> {}
                                 [] l.tag[2] = "KEEP" -> IF on THEN {l} ELSE {}
                                 [] OTHER -> Generated(prefix, l.tag[2], on, l))
             PROVE  k \in Lines
  BY DEF FeaturePragmas
<1>1. l \in Lines
  OBVIOUS
<1>2. \A name : \A g \in Generated(prefix, name, on, l) : g = l \/ \E names : g = Without(l, names)
  BY DEF Generated
<1>3. k = l \/ \E names : k = Without(l, names)
  <2> DEFINE first == l.tag = <<>> \/ l.tag[1] # prefix
             name  == l.tag[2]
             made  == Generated(prefix, name, on, l)
  <2>1. k \in (CASE first -> {l} [] name = "REMOVE" -> {} [] name = "KEEP" -> IF on THEN {l} ELSE {} [] OTHER -> made)
    OBVIOUS
  <2>2. \A g \in made : g = l \/ \E names : g = Without(l, names)
    BY <1>2
  <2> HIDE DEF first, name, made
  <2>3. k = l \/ k \in made
    BY <2>1
  <2> QED  BY <2>2, <2>3
<1> QED  BY <1>1, <1>3, WithoutIsLine

LEMMA CtrlLines ==
  ASSUME NEW s, s \subseteq Lines, NEW irq, NEW dbg
  PROVE  CtrlPragmas(s, irq, dbg) \subseteq Lines
<1> SUFFICES ASSUME NEW l \in s,
                    NEW k \in (IF l.tag # <<>> /\ l.tag[1] = "CTRL" THEN CtrlGenerated(l.tag[2], irq, dbg, l) ELSE {l})
             PROVE  k \in Lines
  BY DEF CtrlPragmas
<1>1. \A name : \A g \in CtrlGenerated(name, irq, dbg, l) : g = l \/ \E names : g = Without(l, names)
  BY DEF CtrlGenerated
<1>2. k = l \/ \E names : k = Without(l, names)
  BY <1>1
<1>3. l \in Lines
  OBVIOUS
<1> QED  BY <1>2, <1>3, WithoutIsLine

LEMMA OffLines == OffText \subseteq Lines
<1> DEFINE a == FeaturePragmas(Core, "DBG", FALSE)
           b == FeaturePragmas(a, "PULP", FALSE)
           c == FeaturePragmas(b, "IRQ", FALSE)
<1>1. Core \subseteq Lines  BY CoreAssumption
<1>2. a \subseteq Lines  BY <1>1, FeatureLines
<1>3. b \subseteq Lines
  <2> HIDE DEF a
  <2> QED  BY <1>2, FeatureLines
<1>4. c \subseteq Lines
  <2> HIDE DEF b
  <2> QED  BY <1>3, FeatureLines
<1>5. OffText = CtrlPragmas(c, FALSE, FALSE)  BY DEF OffText, AfterPragmas
<1> HIDE DEF c
<1> QED  BY <1>4, <1>5, CtrlLines

\* The lines of the assertions lose names, all others stay as they are.
LEMMA CleanKeepsCode ==
  ASSUME NEW s, s \subseteq Lines, NEW dead
  PROVE  /\ \A l \in CleanDeadReferences(s, dead) : l.kind = "code" => l \in s
         /\ \A file : DeclaredIn(s, file) \subseteq DeclaredIn(CleanDeadReferences(s, dead), file)
<1> DEFINE cleaned(l) == IF l.kind = "sva" THEN [l EXCEPT !.uses = @ \ dead] ELSE l
<1>1. CleanDeadReferences(s, dead) = {cleaned(l) : l \in s}
  BY DEF CleanDeadReferences
<1>2. ASSUME NEW l \in s
      PROVE  /\ cleaned(l).file = l.file /\ cleaned(l).kind = l.kind /\ cleaned(l).decl = l.decl
             /\ l.kind = "code" => cleaned(l) = l
  <2>1. l \in Lines  OBVIOUS
  <2> QED  BY <2>1 DEF Lines
<1> HIDE DEF cleaned
<1>3. \A l \in CleanDeadReferences(s, dead) : l.kind = "code" => l \in s
  BY <1>1, <1>2
<1>4. ASSUME NEW file, NEW n \in DeclaredIn(s, file)
      PROVE  n \in DeclaredIn(CleanDeadReferences(s, dead), file)
  <2>1. PICK l \in s : l.file \in {file, Package} /\ n \in l.decl
    BY <1>4 DEF DeclaredIn
  <2>2. /\ cleaned(l) \in CleanDeadReferences(s, dead)
        /\ cleaned(l).file \in {file, Package} /\ n \in cleaned(l).decl
    BY <1>1, <1>2, <2>1
  <2> QED  BY <2>2 DEF DeclaredIn
<1> QED  BY <1>3, <1>4

\* The text behind each phase.
CleanInv ==
  /\ phase \in {"analysis", "gate", "decoder", "pragmas"} => rtl.lines = Core
  /\ phase # "done" => rtl.enums = Enums
  /\ ~debug /\ ~config.enable_interrupts =>
       /\ phase \in {"dce", "encoding"} => OnlyUnusedGone(rtl.lines)
       /\ phase = "done" => TextDeclared

\* Each code line of a text of which only unused declarations are gone is
\* declared, whether or not the enumerations are re-encoded for it.
LEMMA UnusedGoneDeclared ==
  ASSUME PragmasAgree, OnlyUnusedGone(rtl.lines), rtl.enums = Enums
  PROVE  TextDeclared
<1> SUFFICES ASSUME NEW l \in rtl.lines, l.kind = "code" PROVE l.uses \subseteq Declared(l.file)
  BY DEF TextDeclared
<1>1. l.uses \subseteq DeclaredIn(rtl.lines, l.file) \cup Members(Enums)
  BY LeftDeclared
<1>2. Declared(l.file) = DeclaredIn(rtl.lines, l.file) \cup Members(Enums)
  BY DEF Declared, DeclaredIn, Members
<1> QED  BY <1>1, <1>2

LEMMA ReencodedDeclared ==
  ASSUME PragmasAgree, NEW s, OnlyUnusedGone(s), NEW dead, NEW lines, NEW enums,
         lines = CleanDeadReferences(s, dead),
         enums = [n \in DOMAIN Enums |-> Reencoding(n, Enums[n], UsedMembers(lines, Enums[n], Package))]
  PROVE  \A l \in lines : l.kind = "code" => l.uses \subseteq DeclaredIn(lines, l.file) \cup Members(enums)
<1> SUFFICES ASSUME NEW l \in lines, l.kind = "code", NEW n \in l.uses
             PROVE  n \in DeclaredIn(lines, l.file) \cup Members(enums)
  OBVIOUS
<1>1. s \subseteq Lines
  BY OffLines DEF OnlyUnusedGone
<1>2. l \in s /\ DeclaredIn(s, l.file) \subseteq DeclaredIn(lines, l.file)
  BY <1>1, CleanKeepsCode
<1>3. n \in DeclaredIn(s, l.file) \/ (l.file # Package /\ n \in Members(Enums))
  BY <1>2, LeftDeclared
<1>4. CASE n \in DeclaredIn(s, l.file)
  BY <1>2, <1>4
<1>5. CASE l.file # Package /\ n \in Members(Enums)
  <2>1. PICK name \in DOMAIN Enums : \E i \in DOMAIN Enums[name].members : Enums[name].members[i] = n
    BY <1>5 DEF Members
  <2>2. PICK i \in DOMAIN Enums[name].members : Enums[name].members[i] = n
    BY <2>1
  <2> DEFINE used == UsedMembers(lines, Enums[name], Package)
             new  == Reencoding(name, Enums[name], used)
  <2>3. Enums[name].members[i] \in used
    BY <1>5, <2>2 DEF UsedMembers, Names
  <2>4. enums[name] = new /\ name \in DOMAIN enums
    OBVIOUS
  <2>5. \E j \in DOMAIN new.members : new.members[j] = n
    <3> HIDE DEF used
    <3> QED  BY <2>2, <2>3, ReencodingFits
  <2> HIDE DEF new
  <2>6. n \in Members(enums)
    BY <2>4, <2>5 DEF Members
  <2> QED  BY <2>6
<1> QED  BY <1>3, <1>4, <1>5

LEMMA CleanInit == Init => CleanInv
  BY DEF Init, CleanInv, Shipped

LEMMA CleanNext == PragmasAgree /\ Fields /\ TypeOK /\ CsrInv /\ CleanInv /\ [Next]_vars => CleanInv'
<1> SUFFICES ASSUME PragmasAgree, Fields, TypeOK, CsrInv, CleanInv, [Next]_vars PROVE CleanInv'
  OBVIOUS
<1>1. CASE ComputePruneConfig
  BY <1>1 DEF ComputePruneConfig, CleanInv
<1>2. CASE ApplyPruner
  <2>1. phase = "gate" /\ phase' = "decoder" /\ rtl'.enums = rtl.enums /\ rtl'.lines = rtl.lines
    BY <1>2 DEF ApplyPruner, Fields
  <2> QED
    BY <2>1 DEF CleanInv
<1>3. CASE GenerateSpecializedDecoder
  <2>1. phase = "decoder" /\ phase' = "pragmas" /\ rtl'.enums = rtl.enums /\ rtl'.lines = rtl.lines
    BY <1>3 DEF GenerateSpecializedDecoder, Fields
  <2> QED
    BY <2>1 DEF CleanInv
<1>4. CASE ApplyPragmas
  <2> DEFINE text == AfterPragmas(Core, debug, config.enable_interrupts)
  <2>1. /\ phase = "pragmas" /\ phase' = "dce" /\ UNCHANGED <<debug, config>>
        /\ rtl.lines = Core /\ rtl.enums = Enums
    BY <1>4 DEF ApplyPragmas, CleanInv
  <2>2. rtl'.enums = Enums /\ rtl'.lines = text
    <3>1. rtl' = [rtl EXCEPT !.lines = AfterPragmas(rtl.lines, debug, config.enable_interrupts),
                             !.csr = rtl.csr \ {{c} : c \in DebugCsrs},
                             !.registers = rtl.registers \ DebugRegisters]
      BY <1>4 DEF ApplyPragmas
    <3> QED  BY <2>1, <3>1 DEF Fields
  <2>3. ASSUME ~debug, ~config.enable_interrupts PROVE OnlyUnusedGone(rtl'.lines)
    <3>1. config.enable_interrupts = FALSE
      <4>1. config = PruneConfig(Analysis(bins))
        BY <2>1 DEF CsrInv
      <4>2. config.enable_interrupts \in BOOLEAN
        BY <4>1 DEF PruneConfig, Analysis, Profile
      <4> QED  BY <2>3, <4>2
    <3>2. debug = FALSE
      BY <2>3 DEF TypeOK
    <3>3. rtl'.lines = OffText
      BY <2>2, <3>1, <3>2 DEF OffText
    <3> QED
      BY <3>3 DEF OnlyUnusedGone
  <2> HIDE DEF text
  <2> QED
    BY <2>1, <2>2, <2>3 DEF CleanInv
<1>5. CASE ApplyDceCleanup
  <2>1. /\ phase = "dce" /\ phase' = "encoding" /\ UNCHANGED <<debug, config>>
        /\ rtl'.enums = rtl.enums
        /\ rtl'.lines = rtl.lines \/ rtl'.lines = DeadCode(rtl.lines, {Package})
    BY <1>5 DEF ApplyDceCleanup, Fields
  <2>2. ASSUME OnlyUnusedGone(rtl.lines) PROVE OnlyUnusedGone(DeadCode(rtl.lines, {Package}))
    BY <2>2, PassKeeps, DeadCodeIs
  <2> QED
    BY <2>1, <2>2 DEF CleanInv
<1>6. CASE ApplyEncodingOptimization
  <2> DEFINE clean == CleanDeadReferences(rtl.lines, config.removable_mul_modes)
             new == [n \in DOMAIN rtl.enums |-> Reencoding(n, rtl.enums[n], UsedMembers(clean, rtl.enums[n], Package))]
  <2>1. phase = "encoding" /\ phase' = "done" /\ UNCHANGED <<debug, config>> /\ rtl.enums = Enums
    BY <1>6 DEF ApplyEncodingOptimization, CleanInv
  <2>2. rtl' = rtl \/ rtl' = [rtl EXCEPT !.lines = clean, !.enums = new]
    BY <1>6 DEF ApplyEncodingOptimization
  <2>3. ASSUME OnlyUnusedGone(rtl.lines) PROVE TextDeclared'
    <3>1. CASE rtl' = rtl
      <4>1. TextDeclared
        BY <2>1, <2>3, UnusedGoneDeclared
      <4> QED  BY <3>1, <4>1 DEF TextDeclared, Declared
    <3>2. CASE rtl' = [rtl EXCEPT !.lines = clean, !.enums = new]
      <4>1. rtl'.lines = clean /\ rtl'.enums = new
        <5> HIDE DEF clean, new
        <5> QED  BY <3>2 DEF Fields
      <4>2. rtl'.enums = [n \in DOMAIN Enums |-> Reencoding(n, Enums[n], UsedMembers(rtl'.lines, Enums[n], Package))]
        BY <2>1, <4>1
      <4>3. \A l \in rtl'.lines : l.kind = "code" =>
              l.uses \subseteq DeclaredIn(rtl'.lines, l.file) \cup Members(rtl'.enums)
        BY <2>3, <4>1, <4>2, ReencodedDeclared
      <4> QED  BY <4>3 DEF TextDeclared, Declared, DeclaredIn, Members
    <3> QED  BY <2>2, <3>1, <3>2
  <2> QED
    BY <2>1, <2>3 DEF CleanInv
<1>7. CASE UNCHANGED vars
  BY <1>7 DEF vars, CleanInv, TextDeclared, Declared
<1> QED
  BY <1>1, <1>2, <1>3, <1>4, <1>5, <1>6, <1>7 DEF Next

LEMMA CleanImplies == PragmasAgree /\ CleanInv /\ TypeOK => CleanupDeclared
  BY UnusedGoneDeclared DEF CleanInv, CleanupDeclared

\* If what the pragmas leave of the text without debug and interrupts is
\* declared, what five passes of dead-code elimination, the cleaning of the
\* assertions and the re-encoding leave of it is still declared, whichever of
\* them fail and whatever the binaries are (RTLChangeSet._apply_dce_cleanup,
\* apply_encoding_optimization).
THEOREM CleanupAlwaysDeclared ==
  ASSUME PragmasAgree
  PROVE  Spec => []CleanupDeclared
<1>1. Init => Fields /\ TypeOK /\ CsrInv /\ CleanInv
  BY TypeInit, CsrInvInit, CleanInit
<1>2. Fields /\ TypeOK /\ CsrInv /\ CleanInv /\ [Next]_vars => (Fields /\ TypeOK /\ CsrInv /\ CleanInv)'
  BY TypeNext, CsrInvNext, CleanNext
<1>3. CleanInv /\ TypeOK => CleanupDeclared
  BY CleanImplies
<1> QED
  BY <1>1, <1>2, <1>3, PTL DEF Spec

=============================================================================
