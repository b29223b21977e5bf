------------------------------ MODULE PrunedCore ------------------------------
(***************************************************************************)
(* The core a program runs on after pruning: the analysis of its binaries, *)
(* then RTLChangeSet.apply step by step (no fused instruction, no hardware *)
(* loop).  What is checked is that the program still runs, in the decoder, *)
(* the ALU, the multiplier and the CSRs, and that the text that is left    *)
(* can be compiled.                                                        *)
(***************************************************************************)
EXTENDS RtlPruning, RtlCleanup

CONSTANTS Workspaces,   \* the binaries [fused, core, spike] found on disk
          Words,        \* the instruction words that are decoded
          Core,         \* the lines of the core as it is shipped
          Enums,        \* its enumerations, those to be re-encoded
          Package       \* the file that declares them

\* Compressed instructions are those of RV32C: one the map does not know (unimp)
\* is no base instruction either.  depc is a register, and no CSR has its name.
ASSUME WorkspacesAssumption ==
  \A b \in Workspaces :
    /\ Exists(b.core) \/ Exists(b.spike)
    /\ \A p \in {b.fused, b.core, b.spike} :
         /\ "depc" \notin p.csrs
         /\ \A m \in p.mnemonics :
              m[1] \in BOOLEAN /\ (m[1] => m[2] \in DOMAIN CompressedMap \/ m[2] \notin Mnemonics)

\* Words of the base opcodes, whatever their fields.
ASSUME WordsAssumption ==
  Words \subseteq [opcode : SimpleOpcodes \cup {"JALR", "BRANCH", "LOAD", "STORE", "OPIMM", "OP", "FENCE"},
                   f3 : 0..7, f7 : 0..127]

\* The enumerations that are analysed (optimizable; the ALU operations are
\* not).  As declared, the members have room in the width.
ASSUME EnumsAssumption ==
  /\ DOMAIN Enums \subseteq {"mul_opcode_e", "ctrl_state_e", "mult_state_e"}
  /\ \A name \in DOMAIN Enums :
       /\ Enums[name] \in [members : Seq(STRING), width : 1..8]
       /\ Len(Enums[name].members) <= 2^Enums[name].width
       /\ name \notin SkipEnums => Len(Enums[name].members) <= 128

\* One family of pragmas after the other.  The extensions of PULP are never
\* used, so that there is always an ALU operation to remove.
AfterPragmas(lines, debugging, interrupts) ==
  LET dbg  == FeaturePragmas(lines, "DBG", debugging)
      pulp == FeaturePragmas(dbg, "PULP", FALSE)
      irq  == FeaturePragmas(pulp, "IRQ", interrupts)
  IN  CtrlPragmas(irq, interrupts, debugging)

Used(lines, file) == UNION {l.uses : l \in {k \in lines : k.file = file}}

\* No declaration that is left without debug and interrupts has, on one line,
\* a name that its file uses and one that it does not: the elimination of
\* dead code would remove both.
ASSUME CoreAssumption ==
  /\ Core \subseteq Lines
  /\ LET text == AfterPragmas(Core, FALSE, FALSE)
     IN  \A d \in text : d.kind = "code" /\ d.uses = {} /\ d.file # Package =>
           d.decl \subseteq Used(text, d.file) \/ d.decl \cap Used(text, d.file) = {}

VARIABLES bins, debug, config, rtl, phase

vars == <<bins, debug, config, rtl, phase>>

Shipped ==
  [alu |-> AluItems, csr |-> CsrItems, registers |-> CsrRegisters([removable_csr_storage |-> {}]),
   params |-> [p \in {"DIV", "MUL", "MULH", "SLEEP", "COMPRESSED"} |-> TRUE],
   decoder |-> Mnemonics, lines |-> Core, enums |-> Enums]

\* A type invariant for the record of the RTL: every part is what is left
\* of the shipped core.
TypeOK ==
  /\ bins \in Workspaces
  /\ debug \in BOOLEAN
  /\ phase \in {"analysis", "gate", "decoder", "pragmas", "dce", "encoding", "done"}
  /\ rtl.alu \subseteq AluItems
  /\ rtl.csr \subseteq CsrItems
  /\ rtl.decoder \subseteq Mnemonics

Init ==
  /\ bins \in Workspaces
  /\ debug \in BOOLEAN
  /\ config = <<>>
  /\ rtl = Shipped
  /\ phase = "analysis"

\* compute_prune_config, once for the binaries that are there.
ComputePruneConfig ==
  /\ phase = "analysis"
  /\ config' = PruneConfig(Analysis(bins))
  /\ phase' = "gate"
  /\ UNCHANGED <<bins, debug, rtl>>

\* RTLPruner.apply.  pyslang may be missing, or fail after the ALU is
\* written: neither stops the run.  The passes that would tie off the interrupt
\* controller and the APU dispatcher look for their instances in
\* cv32e40p_core.sv; they stand in the ID and EX stages, and nothing changes.
ApplyPruner ==
  /\ phase = "gate"
  /\ \E alu \in BOOLEAN, csr \in BOOLEAN :
       /\ csr => alu
       /\ rtl' = [rtl EXCEPT !.params = [p \in DOMAIN rtl.params |-> ParameterValue(config.params, p)],
                             !.alu = IF alu THEN PruneAluCases(@, config.removable_alu_ops) ELSE @,
                             !.csr = IF csr THEN PruneCsrCases(@, config) ELSE @,
                             !.registers = CsrRegisters(config)]
  /\ phase' = "decoder"
  /\ UNCHANGED <<bins, debug, config>>

GenerateSpecializedDecoder ==
  /\ phase = "decoder"
  /\ rtl' = [rtl EXCEPT !.decoder = Subset(Analysis(bins).used)]
  /\ phase' = "pragmas"
  /\ UNCHANGED <<bins, debug, config>>

\* The pragmas apply to a real pruning only.  The debug CSRs stand in REMOVE
\* blocks, and those go with or without debug.
ApplyPragmas ==
  /\ phase = "pragmas"
  /\ rtl' = [rtl EXCEPT !.lines = AfterPragmas(@, debug, config.enable_interrupts),
                        !.csr = @ \ {{c} : c \in DebugCsrs},
                        !.registers = @ \ DebugRegisters]
  /\ phase' = "dce"
  /\ UNCHANGED <<bins, debug, config>>

\* An error in this step or the next is a warning.
ApplyDceCleanup ==
  /\ phase = "dce"
  /\ rtl' \in {rtl, [rtl EXCEPT !.lines = DeadCode(@, {Package})]}
  /\ phase' = "encoding"
  /\ UNCHANGED <<bins, debug, config>>

ApplyEncodingOptimization ==
  /\ phase = "encoding"
  /\ LET clean == CleanDeadReferences(rtl.lines, config.removable_mul_modes)
         new   == [n \in DOMAIN rtl.enums |-> Reencoding(n, rtl.enums[n], UsedMembers(clean, rtl.enums[n], Package))]
     IN  rtl' \in {rtl, [rtl EXCEPT !.lines = clean, !.enums = new]}
  /\ phase' = "done"
  /\ UNCHANGED <<bins, debug, config>>

Next ==
  \/ ComputePruneConfig
  \/ ApplyPruner
  \/ GenerateSpecializedDecoder
  \/ ApplyPragmas
  \/ ApplyDceCleanup
  \/ ApplyEncodingOptimization

Spec == Init /\ [][Next]_vars

-----------------------------------------------------------------------------
(***************************************************************************)
(* What a program needs of the core.                                       *)
(***************************************************************************)
Specialised == phase \in {"pragmas", "dce", "encoding", "done"}

Expanded(m) == IF m[1] /\ m[2] \in DOMAIN CompressedMap THEN CompressedMap[m[2]] ELSE m[2]

Needed == {Expanded(m) : m \in Running(bins).mnemonics} \cap Mnemonics

Encodes(n, w) ==
  LET e == ISA_DB[n]
  IN  e.opcode = w.opcode /\ e.f3 \in {Open, w.f3} /\ e.f7 \in {Open, w.f7}

WithoutBit31(w) == IF w.opcode = "OP" THEN [w EXCEPT !.f7 = @ % 64] ELSE w

\* An instruction word of the program is decoded as the original decoder
\* decodes it, and so is every word the specialised decoder still takes: what
\* is left out becomes illegal and nothing else changes its meaning, although
\* the emitters group, hoist and default the signals of the instructions left
\* (generate_decoder).  Excepted is bit 31 of an OP word, illegal before: the
\* case key leaves it out, and such a word is decoded as the one without it.
DecoderFaithful ==
  phase = "pragmas" =>
    \A w \in Words :
      LET s == Specialized(rtl.decoder, w)
      IN  /\ s.illegal = 0 => s = Original(WithoutBit31(w))
          /\ (\E n \in Needed : Encodes(n, w)) => s = Original(w)

\* Each instruction of the binary that runs on the core finds its ALU result,
\* its comparison and its unit: none of the case items with its operation was
\* removed, for all that the operations in use are collected from another set
\* of binaries than the one that runs (compute_prune_config, prune_alu_cases).
\* Nobody reads the result of the ALU in a fence.
BinaryRuns ==
  Specialised =>
    \A m \in Running(bins).mnemonics :
      /\ m[1] => rtl.params["COMPRESSED"]
      /\ Expanded(m) = "wfi" => rtl.params["SLEEP"]
      /\ Expanded(m) \in Mnemonics =>
           LET s == ISA_DB[Expanded(m)].signals
           IN  /\ Expanded(m) \in rtl.decoder
               /\ s.alu_en = 1 /\ s.fencei = 0 => {i \in AluItems : s.alu \in i[2]} \subseteq rtl.alu
               /\ s.alu \in {"DIV", "DIVU", "REM", "REMU"} => rtl.params["DIV"]
               /\ s.mult_en = 1 => rtl.params[IF s.mult = "MUL_H" THEN "MULH" ELSE "MUL"]

\* A CSR the binary that runs on the core accesses keeps its case items and
\* its storage, two decisions made from different tables of names, until the
\* core is done (prune_csr_cases, _prune_csr_storage, apply_pragmas).  Excepted
\* are mcountinhibit, whose address has no name in the analysis; the mhpmevent
\* registers, removed with the counters; the register of dpc, which the list of
\* removable storage calls depc and no access protects; and the debug CSRs from
\* the pragmas on.
CsrAccessesKept ==
  Specialised =>
    \A c \in Running(bins).csrs \ {"mcountinhibit", "mhpmevent"} :
      c \notin DebugCsrs \/ phase = "pragmas" =>
        /\ {i \in CsrItems : c \in i} \subseteq rtl.csr
        /\ c # "dpc" /\ StorageOf(c) \in Shipped.registers => StorageOf(c) \in rtl.registers

Declared(file) ==
  (UNION {l.decl : l \in {k \in rtl.lines : k.file \in {file, Package}}})
    \cup (UNION {{e.members[i] : i \in DOMAIN e.members} : e \in {rtl.enums[n] : n \in DOMAIN rtl.enums}})

\* Every name that the code of a file still mentions is still declared there
\* or in the package.
TextDeclared ==
  \A l \in rtl.lines : l.kind = "code" => l.uses \subseteq Declared(l.file)

\* Without debug and without interrupts, what five passes over the text
\* remove independently leaves no mention of a name whose declaration is gone:
\* pragmas in the declarations, in the blocks that use them and in the
\* package agree with one another and with the elimination of dead code.
CleanupDeclared == phase \in {"dce", "encoding", "done"} /\ ~debug /\ ~config.enable_interrupts => TextDeclared

\* "When used: keeps everything" (irq_pragma.py): with interrupts in use the
\* text that is left still declares what it mentions.
InterruptsKept == phase \in {"dce", "encoding", "done"} /\ config.enable_interrupts => TextDeclared

\* Every member of an enumeration that the text mentions has a value of its
\* own that fits the width, after members were dropped, the others renumbered
\* and the width recomputed, although the members the pruning calls removable
\* are still mentioned outside the assertions (apply_encoding_optimization).
EncodingFits ==
  \A name \in DOMAIN Enums :
    LET members == {Enums[name].members[i] : i \in DOMAIN Enums[name].members}
        new     == rtl.enums[name]
    IN  \A l \in {k \in rtl.lines : k.file # Package}, n \in members :
          n \in Names(l) => \E i \in DOMAIN new.members : new.members[i] = n /\ MemberValue(new, n) < 2^new.width
=============================================================================
