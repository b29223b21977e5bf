---------------------------- MODULE CustomEncoding ----------------------------
(***************************************************************************)
(* How ARVIS hands out encodings in the four CUSTOM opcodes of RISC-V.     *)
(*                                                                         *)
(* Three generators share that space and never look at each other's        *)
(* output: the merged .md file (2-gram fusion patterns matched by GCC's    *)
(* combine pass), patterns.json (3-gram patterns matched by the GIMPLE     *)
(* plugin) and the custom instruction registry (the four hardware-loop     *)
(* instructions).  All they exchange is the number of the next free slot.  *)
(* The registry is built twice by the hardware-loop stage (for the fused   *)
(* and for the plain assembly) and once more for every RTL variant, from a *)
(* slot chosen by another condition.                                       *)
(***************************************************************************)
EXTENDS Naturals, FiniteSets

CONSTANT MaxTrigrams    \* max_3gram_patterns: bound on the patterns.json entries

ASSUME MaxTrigramsAssumption == MaxTrigrams \in Nat

(***************************************************************************)
(* The slot arithmetic.  An opcode is its index in _OPCODES.               *)
(***************************************************************************)
OpcodeCount == 4                       \* len(_OPCODES): 0x0B, 0x2B, 0x5B, 0x7B
SlotsPerOpcode == 32                   \* 8 funct3 x 4 funct2
R4Max == OpcodeCount * SlotsPerOpcode  \* 128

Opcode == 0 .. OpcodeCount - 1
Funct3 == 0 .. 7
Encoding == [opcode : Opcode, funct3 : Funct3, kind : {"r4", "r"}, funct : 0 .. 127]

\* Seeded fault: funct2 is left out of the encoding.
R4EncWithoutFunct2(slot) ==
  [opcode |-> slot \div SlotsPerOpcode,
   funct3 |-> (slot % SlotsPerOpcode) \div 4,
   kind   |-> "r4",
   funct  |-> 0]

\* The encoding of a slot in the R4 space (a ValueError from R4Max onwards).
R4Enc(slot) ==
  [opcode |-> slot \div SlotsPerOpcode,
   funct3 |-> (slot % SlotsPerOpcode) \div 4,
   kind   |-> "r4",
   funct  |-> slot % 4]

\* Two patterns no decoder can tell apart: an R4 word is selected by bits
\* [26:25] alone, the two low bits of the funct7 an R-type word is selected by.
Ambiguous(a, b) ==
  /\ a.opcode = b.opcode
  /\ a.funct3 = b.funct3
  /\ IF a.kind = "r" /\ b.kind = "r" THEN a.funct = b.funct
                                     ELSE a.funct % 4 = b.funct % 4

-----------------------------------------------------------------------------
(***************************************************************************)
(* The hardware-loop registry.                                             *)
(***************************************************************************)
HwloopInsn == {"bounds", "count", "start", "end"}

\* Seeded fault: aligning down, into a funct3 that fused patterns use.
AlignDown(slot) == (slot \div 4) * 4

\* The next multiple of four: a hardware-loop instruction owns a whole funct3.
Align(slot) == ((slot + 3) \div 4) * 4

OpcodeEnd(slot) == (slot \div SlotsPerOpcode) * SlotsPerOpcode + SlotsPerOpcode

\* _ensure_hwloop_same_opcode(n_insns = 4): skip to the next opcode when the
\* current one has no room for four full funct3 values.
EnsureSameOpcode(slot) ==
  IF Align(slot) + 4 * 4 > OpcodeEnd(Align(slot)) THEN OpcodeEnd(Align(slot)) ELSE slot

\* _alloc_hwloop_slot: align, take the funct3, reserve its four funct2 values.
AllocSlot(next) == Align(next)

\* Seeded fault: the funct2 values of the funct3 are not reserved.
AfterAllocUnreserved(next) == AllocSlot(next)

AfterAlloc(next) == AllocSlot(next) + 4

BoundsNext(next) == EnsureSameOpcode(next)
CountNext(next)  == AfterAlloc(BoundsNext(next))
StartNext(next)  == AfterAlloc(CountNext(next)) + 1   \* add_hwloop_count adds one more
EndNext(next)    == AfterAlloc(StartNext(next))

\* The slot each instruction gets in a registry that starts at slot next.
HwloopSlot(next) ==
  [bounds |-> AllocSlot(BoundsNext(next)),
   count  |-> AllocSlot(CountNext(next)),
   start  |-> AllocSlot(StartNext(next)),
   end    |-> AllocSlot(EndNext(next))]

RegistryOverflows(next) == \E insn \in HwloopInsn : HwloopSlot(next)[insn] >= R4Max

HwloopEncoding(next) ==
  [insn \in HwloopInsn |->
     [opcode |-> R4Enc(HwloopSlot(next)[insn]).opcode,
      funct3 |-> R4Enc(HwloopSlot(next)[insn]).funct3]]

Registry == [HwloopInsn -> [opcode : Opcode, funct3 : Funct3]]
None == [insn \in {} |-> 0]            \* a registry that is not built yet

-----------------------------------------------------------------------------
VARIABLES
  phase,      \* "merge" | "trigram" | "compiled" | "assembled" | "rtl" | "error"
  r4Slot,     \* generate_merged_md's r4_slot
  md,         \* encodings in the merged .md file
  triSlot,    \* generate_gimple_config's r4_slot and r_slot
  tri,        \* encodings in patterns.json
  nextR4Slot, \* GCCCompileResult.next_r4_slot
  used,       \* GCCCompileResult.used_instructions is not empty
  fusedOps,   \* RTLChangeSet.fused_operations is not empty
  asmFused,   \* ctx._hwlp_enc_fused
  asmPlain,   \* ctx._hwlp_enc_plain
  rtl         \* the registry of the RTL variant that runs the fused hex

mdVars  == <<r4Slot, md>>
triVars == <<triSlot, tri>>
gccVars == <<nextR4Slot, used, fusedOps>>
regVars == <<asmFused, asmPlain, rtl>>
vars == <<phase, mdVars, triVars, gccVars, regVars>>

TypeOK ==
  /\ phase \in {"merge", "trigram", "compiled", "assembled", "rtl", "error"}
  /\ r4Slot \in 0 .. R4Max
  /\ md \in SUBSET Encoding
  /\ triSlot \in [r4 : Nat, r : Nat]
  /\ tri \in SUBSET Encoding
  /\ nextR4Slot \in Nat
  /\ used \in BOOLEAN
  /\ fusedOps \in BOOLEAN
  /\ \A reg \in {asmFused, asmPlain, rtl} : reg = None \/ reg \in Registry

Init ==
  /\ phase = "merge"
  /\ r4Slot = 0
  /\ md = {}
  /\ triSlot = [r4 |-> 0, r |-> 0]
  /\ tri = {}
  /\ nextR4Slot = 0
  /\ used = FALSE
  /\ fusedOps = FALSE
  /\ asmFused = None
  /\ asmPlain = None
  /\ rtl = None

-----------------------------------------------------------------------------
(***************************************************************************)
(* gcc_compile.run: the merge, the 3-grams and the final compile.          *)
(***************************************************************************)

\* Seeded fault: the loop does not stop at _R4_MAX.
AddMdPatternUnbounded ==
  /\ phase = "merge"
  /\ md' = md \cup {R4Enc(r4Slot)}
  /\ r4Slot' = r4Slot + 1
  /\ UNCHANGED <<phase, triVars, gccVars, regVars>>

\* A used pattern of a static pass (all of them R4) or a parametric pattern
\* takes the next R4 slot; both loops stop when the 128 slots are gone.
AddMdPattern ==
  /\ phase = "merge"
  /\ r4Slot < R4Max
  /\ md' = md \cup {R4Enc(r4Slot)}
  /\ r4Slot' = r4Slot + 1
  /\ UNCHANGED <<phase, triVars, gccVars, regVars>>

\* Seeded fault: generate_gimple_config is called without r4_slot_start.
EndMergeFromZero ==
  /\ phase = "merge"
  /\ phase' = "trigram"
  /\ triSlot' = [r4 |-> 0, r |-> 0]
  /\ UNCHANGED <<mdVars, tri, gccVars, regVars>>

EndMerge ==
  /\ phase = "merge"
  /\ phase' = "trigram"
  /\ triSlot' = [r4 |-> r4Slot, r |-> 0]    \* r4_slot_start = next_r4_slot
  /\ UNCHANGED <<mdVars, tri, gccVars, regVars>>

TrigramCount == (triSlot.r4 - r4Slot) + triSlot.r

\* generate_gimple_config walks the R4 space with four funct3 per opcode.
AddTrigramR4 ==
  /\ phase = "trigram"
  /\ TrigramCount < MaxTrigrams
  /\ triSlot.r4 \div 16 < OpcodeCount
  /\ tri' = tri \cup {[opcode |-> triSlot.r4 \div 16,
                       funct3 |-> (triSlot.r4 % 16) \div 4,
                       kind   |-> "r4",
                       funct  |-> triSlot.r4 % 4]}
  /\ triSlot' = [triSlot EXCEPT !.r4 = @ + 1]
  /\ UNCHANGED <<phase, mdVars, gccVars, regVars>>

\* A pattern with at most two register inputs: R-type, from funct3 = 4 on.
AddTrigramR ==
  /\ phase = "trigram"
  /\ TrigramCount < MaxTrigrams
  /\ triSlot.r \div (4 * 128) < OpcodeCount
  /\ tri' = tri \cup {[opcode |-> triSlot.r \div (4 * 128),
                       funct3 |-> 4 + (triSlot.r % (4 * 128)) \div 128,
                       kind   |-> "r",
                       funct  |-> triSlot.r % 128]}
  /\ triSlot' = [triSlot EXCEPT !.r = @ + 1]
  /\ UNCHANGED <<phase, mdVars, gccVars, regVars>>

\* The merged image is built and the benchmark compiled and inspected.  Without
\* .md patterns or when a build fails the result keeps next_r4_slot = 0 and no
\* used instructions.  compute_filtered_ops may reject every used instruction.
CompileMerged ==
  /\ phase = "trigram"
  /\ phase' = "compiled"
  /\ \/ /\ md # {}
        /\ nextR4Slot' = r4Slot + TrigramCount
        /\ used' \in BOOLEAN
        /\ fusedOps' \in BOOLEAN
        /\ fusedOps' => used'
     \/ UNCHANGED gccVars
  /\ UNCHANGED <<mdVars, triVars, regVars>>

-----------------------------------------------------------------------------
(***************************************************************************)
(* The consumers of next_r4_slot.                                          *)
(***************************************************************************)
FusedNextSlot == IF used THEN nextR4Slot ELSE 0        \* hwloop.py

\* Not the assembler's condition: when compute_filtered_ops rejects every used
\* instruction, this registry starts at the first slot and the assembler's at
\* nextR4Slot, and the hardware-loop words of the binary are not those the RTL
\* decodes.  It then decodes no fused word of the binary either.
RtlNextSlot == IF fusedOps THEN nextR4Slot ELSE 0      \* rtl_changeset.py

\* The hardware-loop stage computes the encodings the assembly patcher uses.
\* A slot beyond R4Max raises ValueError, which nothing catches.
BuildAssemblerRegistries ==
  /\ phase = "compiled"
  /\ IF RegistryOverflows(FusedNextSlot)
     THEN /\ phase' = "error"
          /\ UNCHANGED regVars
     ELSE /\ phase' = "assembled"
          /\ asmFused' = HwloopEncoding(FusedNextSlot)
          /\ asmPlain' = HwloopEncoding(0)
          /\ UNCHANGED rtl
  /\ UNCHANGED <<mdVars, triVars, gccVars>>

\* RTLChangeSet.apply with hw_loop_count > 0.
BuildRtlRegistry ==
  /\ phase = "assembled"
  /\ IF RegistryOverflows(RtlNextSlot)
     THEN phase' = "error" /\ UNCHANGED rtl
     ELSE phase' = "rtl" /\ rtl' = HwloopEncoding(RtlNextSlot)
  /\ UNCHANGED <<mdVars, triVars, gccVars, asmFused, asmPlain>>

Next ==
  \/ AddMdPattern
  \/ EndMerge
  \/ AddTrigramR4
  \/ AddTrigramR
  \/ CompileMerged
  \/ BuildAssemblerRegistries
  \/ BuildRtlRegistry

Spec == Init /\ [][Next]_vars

-----------------------------------------------------------------------------
(***************************************************************************)
(* Properties.                                                             *)
(***************************************************************************)
\* The instructions a finished registry defines.
Insns(reg) == IF reg = None THEN {} ELSE HwloopInsn

Shares(reg, insn, pattern) ==
  reg[insn].opcode = pattern.opcode /\ reg[insn].funct3 = pattern.funct3

\* Every pattern of the merged .md has an encoding of its own that the decoder
\* can select: no two of them are ambiguous and none was lost to a collision
\* (generate_merged_md, both R4 loops).
MdPatternsDistinct ==
  /\ Cardinality(md) = r4Slot
  /\ \A a, b \in md : a # b => ~Ambiguous(a, b)

\* No .md pattern decodes from a funct3 a hardware-loop instruction of the same
\* binary owns; HWLOOP words carry data in bits [31:20], so sharing the funct3
\* would make a fused word write loop registers (custom_insn_registry.py:45).
\* The same holds of the loop instructions of an RTL that decodes fused words,
\* whose registry is built on its own (rtl_changeset.py:201).
HwloopOwnsFunct3 ==
  /\ used => \A insn \in Insns(asmFused), p \in md : ~Shares(asmFused, insn, p)
  /\ fusedOps => \A insn \in Insns(rtl), p \in md : ~Shares(rtl, insn, p)

\* The four hardware-loop instructions of one registry differ in funct3: the
\* hwloop_regs template selects its write enables by funct3 alone, whatever
\* opcode the word has (rtl_changeset.py:254, custom_insn_registry.py:196).
HwloopFunct3Unique ==
  \A reg \in {asmFused, asmPlain, rtl} : \A i, j \in Insns(reg) :
    i # j => reg[i].funct3 # reg[j].funct3

\* A 3-gram that needs the R4 format never gets the encoding of a .md pattern,
\* although the two generators number the R4 space differently, and no 3-gram
\* is lost to another one (gimple_config_gen.py:330).
TrigramsR4Apart ==
  /\ \A t \in tri, p \in md : t.kind = "r4" => ~Ambiguous(t, p)
  /\ phase # "merge" => Cardinality(tri) = TrigramCount
=============================================================================
