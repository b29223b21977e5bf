------------------------------- MODULE FusedOps -------------------------------
(***************************************************************************)
(* From the merged .md file to the fused operations of the RTL: the        *)
(* program is compiled with the patterns, its binary is searched for       *)
(* custom words, the words found decide which operations the decoder and   *)
(* the ALU get (compute_filtered_ops and RTLGenerator).                    *)
(***************************************************************************)
EXTENDS FusedPatterns

CONSTANTS W,         \* width of a register: immediates and shift amounts are below it
          MdFiles,   \* the merged .md files tried: sequences of distinct patterns
          MaxWords   \* bound on the different custom words of a binary

ASSUME FusedOpsAssumption ==
  /\ W \in {2, 4, 8, 16, 32}
  /\ MaxWords \in Nat \ {0}
  /\ MdFiles \subseteq Seq(Patterns)

VARIABLES md,     \* the merged .md file: pattern s has funct2 and funct3 of slot s - 1
          words,  \* the custom words of the binary
          used,   \* ctx.gcc_compile_result.used_instructions: slot -> rs3 fields seen
          ops,    \* ctx.fused_operations after filtering
          wires,  \* the patches made around the generated code
          phase

vars == <<md, words, used, ops, wires, phase>>

Init ==
  /\ md \in MdFiles
  /\ words = {}
  /\ used = [s \in {} |-> {}]
  /\ ops = {}
  /\ wires = {}
  /\ phase = "compile"

\* A word of pattern s: rs3 and rs2 are immediates where the pattern has them;
\* a register rs3 is x0 or not.
WordsOf(s) ==
  LET imms == Cardinality(md[s].imm)
  IN  [slot : {s}, rs3 : IF imms = 0 THEN {0, 1} ELSE 0..(W - 1), rs2 : IF imms = 2 THEN 0..(W - 1) ELSE {0}]

Compile ==
  /\ phase = "compile"
  /\ \E f \in [1..MaxWords -> UNION {WordsOf(s) : s \in DOMAIN md}] : words' = {f[n] : n \in 1..MaxWords}
  /\ phase' = "inspect"
  /\ UNCHANGED <<md, used, ops, wires>>

\* rs3 is an immediate for the parametric patterns only.
UsedInstructions ==
  [s \in {w.slot : w \in words} |->
     IF md[s].imm = {} THEN {} ELSE {w.rs3 : w \in {v \in words : v.slot = s}}]

Inspect ==
  /\ phase = "inspect"
  /\ used' = UsedInstructions
  /\ phase' = "filter"
  /\ UNCHANGED <<md, words, ops, wires>>

\* What the profile's candidate with the same mnemonics contributes: the
\* register inputs of its n-gram, each a port of the instruction, and a xori
\* that was always with -1.  A pattern with immediates always has three inputs.
ProfileInputs(s) == IF md[s].imm = {} THEN 1..3 ELSE {3}

ProfileFolds(s) == SUBSET {i \in md[s].imm : md[s].ops[i] = "xor"}

Matches(s) == [inputs : ProfileInputs(s), fold : ProfileFolds(s)]

Resolved(p, fold) == [i \in 1..2 |-> IF i \in fold THEN "not" ELSE p.ops[i]]

FusedOperation(s, match) ==
  [slot |-> s, ops |-> md[s].ops, rev |-> md[s].rev, imm |-> md[s].imm,
   resolved |-> Resolved(md[s], match.fold), inputs |-> match.inputs, used |-> used[s],
   unit |-> ExecutionUnit(md[s]),
   mult |-> MultPattern(md[s])]

Rejected(s) ==
  ExecutionUnit(md[s]) = "mult" /\ MultPattern(md[s]) \notin {"mac", "msu"}

Filter ==
  /\ phase = "filter"
  /\ \E matches \in [DOMAIN used -> [inputs : 1..3, fold : SUBSET {1, 2}]] :
        /\ \A s \in DOMAIN used : matches[s] \in Matches(s)
        /\ ops' = {FusedOperation(s, matches[s]) : s \in {t \in DOMAIN used : ~Rejected(t)}}
  /\ phase' = "patch"
  /\ UNCHANGED <<md, words, used, wires>>

\* RTLChangeSet._apply_fusion_patches on a fresh copy of the RTL.
Patch ==
  /\ phase = "patch"
  /\ wires' = Wires(ops)
  /\ phase' = "rtl"
  /\ UNCHANGED <<md, words, used, ops>>

Done == phase = "rtl" /\ UNCHANGED vars

Next == Compile \/ Inspect \/ Filter \/ Patch \/ Done

Spec == Init /\ [][Next]_vars

-----------------------------------------------------------------------------
(***************************************************************************)
(* The decoder.  Patterns of four successive slots share a funct3; in a    *)
(* group without R4 operations the whole of funct7 is compared, which for  *)
(* a word of the .md file holds the register rs3.                          *)
(***************************************************************************)
Funct3(slot) == (slot - 1) \div 4
Funct2(slot) == (slot - 1) % 4

IsR4(op) == op.inputs >= 3 \/ op.imm # {}

GroupHasR4(op) == \E o \in ops : Funct3(o.slot) = Funct3(op.slot) /\ IsR4(o)

\* Seeded fault: a group with an operation of either type compares funct7.
DecodesFunct7(op, w) ==
  Funct3(op.slot) = Funct3(w.slot) /\ Funct2(op.slot) = Funct2(w.slot) /\ (IsR4(op) \/ w.rs3 = 0)

Decodes(op, w) ==
  /\ Funct3(op.slot) = Funct3(w.slot)
  /\ Funct2(op.slot) = Funct2(w.slot)
  /\ GroupHasR4(op) \/ w.rs3 = 0

\* An operation that the profile saw with fewer inputs than the pattern has is
\* decoded like an R-type one: its words with a third register are illegal.
Narrow(op) == ~GroupHasR4(op)

(***************************************************************************)
(* Every custom word of the binary selects exactly the operation made from *)
(* the pattern GCC emitted it for, unless that operation was rejected or   *)
(* narrowed (fusion_rtl.py:compute_filtered_ops, generate_decoder_for_     *)
(* opcode).  One decoder serves words of both types in a funct3 group.     *)
(***************************************************************************)
WordsDecode ==
  phase = "rtl" =>
    \A w \in words :
      LET hit == {op \in ops : Decodes(op, w)}
      IN  \/ Cardinality(hit) = 1 /\ \A op \in hit : op.slot = w.slot
          \/ hit = {} /\ (Rejected(w.slot) \/ \A op \in ops : op.slot = w.slot => Narrow(op))
=============================================================================
